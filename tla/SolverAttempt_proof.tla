------------------------- MODULE SolverAttempt_proof -------------------------
(***************************************************************************)
(* Safety of SolverAttempt for every number of attempts, edits and sizes   *)
(* of pipe, tail and log.                                                  *)
(***************************************************************************)
EXTENDS SolverAttempt, TLAPS

-----------------------------------------------------------------------------
(* The inductive invariant. *)

Counters ==
  /\ source \in 0..MaxEdits /\ captured \in 0..MaxEdits
  /\ attempt \in 0..MaxAttempts
  /\ pipe \in 0..PipeCap /\ log \in 0..MaxLog /\ tail \in 0..TailCap
  /\ pc = "stage" => attempt = 0
  /\ pc = "spawn" => attempt < MaxAttempts

States ==
  /\ pc \in {"stage", "spawn", "wait", "reap", "close", "join", "identity",
             "check", "verify", "publish", "commit", "cleanup", "end", "killed"}
  /\ staged \in {"none", "input", "modified"}
  /\ child \in {"none", "alive", "exited", "stuck", "reaped"}
  /\ helper \in {"none", "alive", "gone"}
  /\ capture \in {"none", "reading", "eof", "closed"}
  /\ output \in {"absent", "input", "modified"}
  /\ result \in {"none", "solved", "failure"}

Flags ==
  /\ exitOk \in BOOLEAN /\ confirmed \in BOOLEAN
  /\ timedOut \in BOOLEAN /\ spawnErr \in BOOLEAN /\ kept \in BOOLEAN

Confirmed == exitOk /\ confirmed /\ ~timedOut /\ ~spawnErr

(* Where processes of the solver can be: only between the spawn and the    *)
(* closing of the group, and a child that was not reaped is recorded.      *)
ProcessShape ==
  /\ pc \in {"stage", "spawn"} => child \in {"none", "reaped"}
  /\ pc = "wait" => child \in {"alive", "exited"}
  /\ pc = "reap" => child \in {"exited", "stuck", "reaped"}
  /\ pc \in {"close", "join", "identity", "check"} =>
       child # "alive" /\ (~spawnErr => child = "reaped")
  /\ pc \in {"verify", "publish", "commit", "cleanup"} => child = "reaped" /\ Confirmed
  /\ pc = "end" => child # "alive" /\ (result = "solved" => child = "reaped" /\ Confirmed)
  /\ helper = "alive" => pc \in {"wait", "reap", "close", "killed"}

(* The output exists from the link on, and is a copy of the unmodified     *)
(* staged input.                                                           *)
OutputShape ==
  /\ pc \in {"verify", "publish"} => staged = "input"
  /\ output # "modified"
  /\ pc \in {"commit", "cleanup"} => output = "input"
  /\ pc \notin {"commit", "cleanup", "end", "killed"} => output = "absent"
  /\ result # "none" <=> pc = "end"
  /\ result = "solved" => output = "input"
  /\ result = "failure" => output = "absent" \/ kept

IInv == Counters /\ States /\ Flags /\ ProcessShape /\ OutputShape

-----------------------------------------------------------------------------

(* The bounded counters of one step. *)
LEMMA NextCounters == ASSUME Counters, [Next]_vars PROVE Counters'
<1> USE SolverAssumption DEF vars, files, procs, outcome, logs, Goto, Counters
<1>1. CASE EditSource \/ ModifyStaged \/ WriteMarker \/ StartHelper
  BY <1>1 DEF EditSource, ModifyStaged, WriteMarker, StartHelper
<1>2. CASE WriteLog
  BY <1>2 DEF WriteLog
<1>3. CASE HelperExits \/ ChildExits \/ StuckDies \/ EngineKilled
  BY <1>3 DEF HelperExits, ChildExits, StuckDies, EngineKilled
<1>4. CASE Consume \/ ConsumeEnds
  BY <1>4 DEF Consume, ConsumeEnds, Lesser
<1>5. CASE Stage
  BY <1>5 DEF Stage
<1>6. CASE Spawn \/ SpawnFails
  BY <1>6 DEF Spawn, SpawnFails
<1>7. CASE WaitReturns \/ WaitTimesOut \/ Reap \/ ReapTimesOut
  BY <1>7 DEF WaitReturns, WaitTimesOut, Reap, ReapTimesOut
<1>8. CASE CloseGroup \/ Join \/ JoinTimesOut \/ Identity
  BY <1>8 DEF CloseGroup, Join, JoinTimesOut, Identity
<1>9. CASE Check
  BY <1>9 DEF Check
<1>10. CASE Verify \/ Publish \/ Commit \/ CommitFails
  BY <1>10 DEF Verify, Publish, Commit, CommitFails
<1>11. CASE Cleanup \/ CleanupFails \/ Fail
  BY <1>11 DEF Cleanup, CleanupFails, Fail
<1>12. CASE Done \/ UNCHANGED vars
  BY <1>12 DEF Done
<1> QED
  BY <1>1, <1>2, <1>3, <1>4, <1>5, <1>6, <1>7, <1>8, <1>9, <1>10, <1>11, <1>12
     DEF Next, Adapter, World

(* The states the processes and files of one step can be in. *)
LEMMA NextStates ==
  ASSUME States, Flags, OutputShape, [Next]_vars PROVE States' /\ Flags'
<1> USE DEF vars, files, procs, outcome, logs, Goto, States, Flags
<1>1. CASE EditSource \/ ModifyStaged \/ WriteMarker
  BY <1>1 DEF EditSource, ModifyStaged, WriteMarker, Writers
<1>2. CASE StartHelper \/ WriteLog
  BY <1>2 DEF StartHelper, WriteLog
<1>3. CASE HelperExits \/ ChildExits \/ StuckDies \/ EngineKilled
  BY <1>3 DEF HelperExits, ChildExits, StuckDies, EngineKilled
<1>4. CASE Consume \/ ConsumeEnds
  BY <1>4 DEF Consume, ConsumeEnds
<1>5. CASE Stage
  BY <1>5 DEF Stage
<1>6. CASE Spawn \/ SpawnFails
  BY <1>6 DEF Spawn, SpawnFails
<1>7. CASE WaitReturns \/ WaitTimesOut
  BY <1>7 DEF WaitReturns, WaitTimesOut
<1>8. CASE Reap \/ ReapTimesOut
  BY <1>8 DEF Reap, ReapTimesOut
<1>9. CASE CloseGroup \/ Join \/ JoinTimesOut \/ Identity
  BY <1>9 DEF CloseGroup, Join, JoinTimesOut, Identity
<1>10. CASE Check
  BY <1>10 DEF Check, Drift
<1>11. CASE Verify \/ Publish \/ Commit \/ CommitFails
  BY <1>11 DEF Verify, Publish, Commit, CommitFails, OutputShape
<1>12. CASE Cleanup \/ CleanupFails \/ Fail
  BY <1>12 DEF Cleanup, CleanupFails, Fail
<1>13. CASE Done \/ UNCHANGED vars
  BY <1>13 DEF Done
<1> QED
  BY <1>1, <1>2, <1>3, <1>4, <1>5, <1>6, <1>7, <1>8, <1>9, <1>10, <1>11, <1>12,
     <1>13 DEF Next, Adapter, World

(* Processes of the solver live only inside SolverProcessRuntime.run. *)
LEMMA NextProcess ==
  ASSUME States, Flags, ProcessShape, OutputShape, [Next]_vars PROVE ProcessShape'
<1> USE DEF vars, files, procs, outcome, logs, Goto, States, ProcessShape, Confirmed,
       OutputShape
<1>1. CASE EditSource \/ ModifyStaged \/ WriteMarker
  BY <1>1 DEF EditSource, ModifyStaged, WriteMarker, Writers
<1>2. CASE StartHelper \/ WriteLog
  BY <1>2 DEF StartHelper, WriteLog
<1>3. CASE HelperExits \/ ChildExits \/ StuckDies \/ EngineKilled
  BY <1>3 DEF HelperExits, ChildExits, StuckDies, EngineKilled
<1>4. CASE Consume \/ ConsumeEnds
  BY <1>4 DEF Consume, ConsumeEnds
<1>5. CASE Stage
  BY <1>5 DEF Stage
<1>6. CASE Spawn \/ SpawnFails
  BY <1>6 DEF Spawn, SpawnFails
<1>7. CASE WaitReturns \/ WaitTimesOut
  BY <1>7 DEF WaitReturns, WaitTimesOut
<1>8. CASE Reap \/ ReapTimesOut
  BY <1>8 DEF Reap, ReapTimesOut
<1>9. CASE CloseGroup \/ Join \/ JoinTimesOut \/ Identity
  BY <1>9 DEF CloseGroup, Join, JoinTimesOut, Identity
<1>10. CASE Check
  BY <1>10 DEF Check, Drift
<1>11. CASE Verify \/ Publish \/ Commit \/ CommitFails
  BY <1>11 DEF Verify, Publish, Commit, CommitFails
<1>12. CASE Cleanup \/ CleanupFails \/ Fail
  BY <1>12 DEF Cleanup, CleanupFails, Fail
<1>13. CASE Done \/ UNCHANGED vars
  BY <1>13 DEF Done
<1> QED
  BY <1>1, <1>2, <1>3, <1>4, <1>5, <1>6, <1>7, <1>8, <1>9, <1>10, <1>11, <1>12,
     <1>13 DEF Next, Adapter, World

(* The output is linked from the unmodified staged input. *)
LEMMA NextOutput ==
  ASSUME States, Flags, ProcessShape, OutputShape, [Next]_vars PROVE OutputShape'
<1> USE DEF vars, files, procs, outcome, logs, Goto, States, ProcessShape, OutputShape
<1>1. CASE EditSource \/ ModifyStaged \/ WriteMarker
  BY <1>1 DEF EditSource, ModifyStaged, WriteMarker, Writers
<1>2. CASE StartHelper \/ WriteLog
  BY <1>2 DEF StartHelper, WriteLog
<1>3. CASE HelperExits \/ ChildExits \/ StuckDies \/ EngineKilled
  BY <1>3 DEF HelperExits, ChildExits, StuckDies, EngineKilled
<1>4. CASE Consume \/ ConsumeEnds
  BY <1>4 DEF Consume, ConsumeEnds
<1>5. CASE Stage
  BY <1>5 DEF Stage
<1>6. CASE Spawn \/ SpawnFails
  BY <1>6 DEF Spawn, SpawnFails
<1>7. CASE WaitReturns \/ WaitTimesOut
  BY <1>7 DEF WaitReturns, WaitTimesOut
<1>8. CASE Reap \/ ReapTimesOut
  BY <1>8 DEF Reap, ReapTimesOut
<1>9. CASE CloseGroup \/ Join \/ JoinTimesOut \/ Identity
  BY <1>9 DEF CloseGroup, Join, JoinTimesOut, Identity
<1>10. CASE Check
  BY <1>10 DEF Check, Drift
<1>11. CASE Verify \/ Publish \/ Commit \/ CommitFails
  BY <1>11 DEF Verify, Publish, Commit, CommitFails
<1>12. CASE Cleanup \/ CleanupFails \/ Fail
  BY <1>12 DEF Cleanup, CleanupFails, Fail
<1>13. CASE Done \/ UNCHANGED vars
  BY <1>13 DEF Done
<1> QED
  BY <1>1, <1>2, <1>3, <1>4, <1>5, <1>6, <1>7, <1>8, <1>9, <1>10, <1>11, <1>12,
     <1>13 DEF Next, Adapter, World

-----------------------------------------------------------------------------

(* Every state of an adapter call satisfies the inductive invariant. *)
THEOREM Inductive == Spec => []IInv
<1>1. Init => IInv
  <2> SUFFICES ASSUME Init PROVE IInv
    OBVIOUS
  <2>1. Counters
    BY SolverAssumption DEF Init, Counters
  <2>2. States /\ Flags
    BY DEF Init, States, Flags
  <2>3. ProcessShape /\ OutputShape
    BY DEF Init, ProcessShape, OutputShape
  <2> QED
    BY <2>1, <2>2, <2>3 DEF IInv
<1>2. IInv /\ [Next]_vars => IInv'
  BY NextCounters, NextStates, NextProcess, NextOutput DEF IInv
<1> QED
  BY <1>1, <1>2, PTL DEF Spec

(* Type correctness of an adapter call. *)
THEOREM TypeCorrect == Spec => []TypeOK
<1>1. IInv => TypeOK
  BY DEF IInv, Counters, States, Flags, TypeOK
<1> QED
  BY <1>1, Inductive, PTL

(* What publish_solved_copy links holds the pixels that were staged. *)
THEOREM PublishedInput == Spec => []PublishedIsInput
<1>1. IInv => PublishedIsInput
  BY DEF IInv, States, OutputShape, PublishedIsInput
<1> QED
  BY <1>1, Inductive, PTL

(* SOLVED is returned only for a confirmed, reaped attempt with its output *)
(* in place.                                                               *)
THEOREM SolvedSound == Spec => []SolvedIsSound
<1>1. IInv => SolvedIsSound
  BY DEF IInv, OutputShape, ProcessShape, Confirmed, SolvedIsSound
<1> QED
  BY <1>1, Inductive, PTL

(* A failed call leaves neither an output nor a running process. *)
THEOREM FailureClean == Spec => []FailureLeavesNothing
<1>1. IInv => FailureLeavesNothing
  BY DEF IInv, OutputShape, ProcessShape, FailureLeavesNothing, Writers
<1> QED
  BY <1>1, Inductive, PTL

(* No attempt starts while a process of an earlier one is left. *)
THEOREM NoOverlap == Spec => AttemptsDoNotOverlap
<1>1. ASSUME IInv, Next, attempt' # attempt
      PROVE child \in {"none", "reaped"} /\ helper # "alive"
  <2> USE DEF vars, files, procs, outcome, logs, Goto
  <2>1. CASE Adapter
    BY <1>1, <2>1 DEF Adapter, Stage, Spawn, SpawnFails, WaitReturns, WaitTimesOut,
       Reap, ReapTimesOut, CloseGroup, Join, JoinTimesOut, Identity, Check, Verify,
       Publish, Commit, CommitFails, Cleanup, CleanupFails, Fail, IInv, ProcessShape
  <2>2. CASE World \/ Done
    BY <1>1, <2>2 DEF World, Done, EditSource, ModifyStaged, WriteMarker, WriteLog,
       StartHelper, HelperExits, ChildExits, StuckDies, EngineKilled, Consume,
       ConsumeEnds
  <2> QED
    BY <1>1, <2>1, <2>2 DEF Next
<1>2. IInv /\ [Next]_vars =>
        [attempt' # attempt => child \in {"none", "reaped"} /\ helper # "alive"]_vars
  BY <1>1 DEF vars
<1> QED
  BY <1>2, Inductive, PTL DEF Spec, AttemptsDoNotOverlap
=============================================================================
