------------------------- MODULE RunLifecycle_proof -------------------------
(***************************************************************************)
(* Safety of RunLifecycle for every number of launches: the inductive      *)
(* invariant IInv, its proof action by action, and the theorems that       *)
(* follow from it.                                                         *)
(***************************************************************************)
EXTENDS RunLifecycle, TLAPS

-----------------------------------------------------------------------------
(* The inductive invariant behind the safety properties. *)

(* A job that was not launched yet has left no trace. *)
FreshJobs ==
  \A j \in Jobs : j > starts =>
    /\ child[j] = "none" /\ waiter[j] = "none" /\ verdict[j] = "none"
    /\ j \notin registered /\ j \notin reqFile /\ j \notin toKill

(* What the hook holds while a launch is in flight, and how far the child   *)
(* and the waiter of the new job have come at each point of start_with.     *)
LaunchShape ==
  /\ launching <=> startCall # "idle"
  /\ launching => /\ starts # 0 /\ jobId = NoJob /\ terminalJob = NoJob
                  /\ runStatus = "RUNNING" /\ ~cancelling
  /\ startCall \in {"entered", "admitted"} =>
       /\ child[starts] = "none" /\ waiter[starts] = "none" /\ starts \notin reqFile
  /\ startCall = "spawned" => child[starts] # "none" /\ waiter[starts] = "none"
  /\ startCall = "accepted" => waiter[starts] # "none"
  /\ startCall = "rejected" => waiter[starts] = "none"

(* The flag, the command and the status of a cancellation agree. *)
CancelShape ==
  /\ cancelling <=> cancelCall # "idle"
  /\ cancelling <=> runStatus = "CANCELLING"
  /\ cancelling => jobId # NoJob
  /\ cancelCall = "ok" => child[jobId] \in Dead

(* The job the hook follows is the newest one, and terminalJob tells        *)
(* whether its outcome is shown.                                            *)
FollowedJob ==
  /\ jobId # NoJob => jobId = starts /\ waiter[starts] # "none"
  /\ jobId # NoJob => (terminalJob = jobId <=> runStatus \in Settled)
  /\ jobId # NoJob => runStatus # "IDLE"
  /\ (jobId = NoJob /\ ~launching) => runStatus \in {"IDLE", "FAILED"}
  /\ runStatus \in Settled => starts # 0

(* A waiter passes wait() only when the process is gone, and the registry   *)
(* lists exactly the jobs whose waiter has not retired them.                *)
WaiterShape ==
  \A j \in Jobs :
    /\ waiter[j] # "none" => child[j] # "none"
    /\ waiter[j] \in {"reaped", "retired", "done"} => child[j] \in Dead
    /\ j \in registered <=> waiter[j] \in {"reading", "waiting", "reaped"}
    /\ verdict[j] # "none" <=> waiter[j] = "done"
    /\ verdict[j] = "complete" => MayComplete(j)
    /\ waiter[j] \in {"none", "reading"} => readOk[j]

(* An event in transit or in the buffer is what its job's waiter reported. *)
Genuine(e) == waiter[e.job] = "done" /\ verdict[e.job] = e.kind
EventsGenuine ==
  /\ \A k \in 1..Len(events) : Genuine(events[k])
  /\ pendingTerminal # NoEvent => Genuine(pendingTerminal)

(* A live engine is the newest job's, or a child the platform refused to    *)
(* kill while quitting; after that one nothing is spawned any more.         *)
LiveEngine ==
  \A j \in Jobs : child[j] = "alive" =>
    /\ j < starts => /\ shuttingDown /\ j \in refused
                     /\ startCall \in {"idle", "entered", "rejected"}
                     /\ \A k \in Jobs : k > j => child[k] = "none"
    /\ j \notin registered => \/ (j = starts /\ startCall = "spawned")
                              \/ (shuttingDown /\ j \in refused)
    /\ (j = starts /\ runStatus \notin Busy) => shuttingDown /\ j \in refused

(* COMPLETED stands for the verdict of the newest job. *)
CompletedVerdict ==
  runStatus = "COMPLETED" => jobId = starts /\ verdict[starts] = "complete"

(* How far terminate_all has come: the registry can only shrink once the    *)
(* flag is up, and the jobs already visited are dead or counted as failed.  *)
QuitShape ==
  /\ shuttingDown <=> exitCall # "idle"
  /\ exitCall = "killing" =>
       \A j \in registered \ toKill :
         j \notin reqFile /\ (child[j] = "alive" => exitFailed)
  /\ exitCall = "done" => \A j \in registered : j \notin reqFile /\ child[j] # "alive"

IInv ==
  /\ TypeOK /\ FreshJobs /\ LaunchShape /\ CancelShape /\ FollowedJob /\ WaiterShape
  /\ EventsGenuine /\ LiveEngine /\ CompletedVerdict /\ RequestFileOwned /\ QuitShape

-----------------------------------------------------------------------------
(* Type correctness of one step.  The two shapes supply that a job being    *)
(* started or cancelled has a name in Jobs.                                 *)
LEMMA NextTypeOK == ASSUME TypeOK, LaunchShape, CancelShape, [Next]_vars PROVE TypeOK'
<1> USE DEF TypeOK, AppAlive, vars, uiVars, callVars, procVars, jobVars, exitVars
<1>s. startCall # "idle" => starts \in Jobs
  BY MaxJobsAssumption DEF LaunchShape, Jobs
<1>e. NoEvent.job = NoJob /\ \A e \in TerminalEvent : e.job \in Jobs
  BY DEF NoEvent, TerminalEvent
<1>1. CASE StartRun
  <2>1. starts' \in 0..MaxJobs
    BY <1>1, MaxJobsAssumption DEF StartRun
  <2> QED
    BY <1>1, <2>1 DEF StartRun, Statuses
<1>2. CASE ReceiveReceipt
  <2>1. runStatus' \in Statuses /\ terminalJob' \in Jobs \cup {NoJob}
    BY <1>2, <1>s, <1>e DEF ReceiveReceipt, SettleRun, Statuses
  <2>2. jobId' \in Jobs \cup {NoJob} /\ launching' \in BOOLEAN
    BY <1>2, <1>s DEF ReceiveReceipt
  <2> QED
    BY <1>2, <2>1, <2>2 DEF ReceiveReceipt
<1>3. CASE LaunchFailed
  <2>1. runStatus' \in Statuses /\ launching' \in BOOLEAN
    BY <1>3 DEF LaunchFailed, Statuses
  <2> QED
    BY <1>3, <2>1 DEF LaunchFailed
<1>4. CASE DeliverTerminal
  <2>1. Head(events) \in TerminalEvent /\ Tail(events) \in Seq(TerminalEvent)
    BY <1>4 DEF DeliverTerminal
  <2> QED
    BY <1>4, <2>1, <1>e DEF DeliverTerminal, SettleRun, KeepFirst, Statuses
<1>5. CASE CancelRun \/ CancelConfirmed \/ ClearSources
  <2>1. CASE CancelRun
    BY <2>1 DEF CancelRun, Statuses
  <2>2. CASE CancelConfirmed
    BY <2>2 DEF CancelConfirmed, Statuses
  <2>3. CASE ClearSources
    BY <2>3 DEF ClearSources, Statuses
  <2> QED
    BY <1>5, <2>1, <2>2, <2>3
<1>6. CASE CancelRejected
  <2>1. runStatus' \in Statuses /\ terminalJob' \in Jobs \cup {NoJob}
    BY <1>6, <1>e DEF CancelRejected, SettleRun, Statuses
  <2>2. cancelling' \in BOOLEAN
    BY <1>6 DEF CancelRejected
  <2> QED
    BY <1>6, <2>1, <2>2 DEF CancelRejected
<1>7. CASE StartAdmit \/ StartRefused
  BY <1>7 DEF StartAdmit, StartRefused
<1>8. CASE StartSpawn
  BY <1>8, <1>s DEF StartSpawn, ChildStates
<1>9. CASE StartRegister
  BY <1>9, <1>s DEF StartRegister
<1>t. ASSUME NEW j \in Jobs, NEW ok \in BOOLEAN, TerminateTree(j, ok)
      PROVE child' \in [Jobs -> ChildStates] /\ refused' \in SUBSET Jobs
  BY <1>t DEF TerminateTree, ChildStates
<1>10. CASE StartAbort
  BY <1>10, <1>s, <1>t DEF StartAbort
<1>11. CASE CancelLookup
  BY <1>11 DEF CancelLookup
<1>12. CASE CancelTerminate
  BY <1>12, <1>t DEF CancelTerminate, CancelShape
<1>13. CASE ExitRequested
  <2>1. exitTries' \in 0..2
    BY <1>13 DEF ExitRequested
  <2>2. shuttingDown' \in BOOLEAN /\ exitFailed' \in BOOLEAN /\ toKill' \in SUBSET Jobs
    BY <1>13 DEF ExitRequested
  <2>3. exitCall' \in {"idle", "flagged", "killing", "retry", "done", "gone"}
    BY <1>13 DEF ExitRequested
  <2> QED
    BY <1>13, <2>1, <2>2, <2>3 DEF ExitRequested
<1>14. CASE ExitSnapshot \/ ExitReturn \/ AppGone
  BY <1>14 DEF ExitSnapshot, ExitReturn, AppGone
<1>15. CASE \E j \in Jobs : ExitTerminate(j)
  BY <1>15, <1>t DEF ExitTerminate
<1>16. CASE \E j \in Jobs : Waiter(j) \/ WaiterOverrun(j)
  <2> PICK j \in Jobs : Waiter(j) \/ WaiterOverrun(j)
    BY <1>16
  <2>1. CASE WaiterRead(j) \/ WaiterReap(j) \/ WaiterRetire(j)
    BY <2>1 DEF WaiterRead, WaiterReap, WaiterRetire
  <2>2. CASE WaiterReport(j)
    BY <2>2 DEF WaiterReport, TerminalEvent
  <2>3. CASE WaiterOverrun(j)
    BY <2>3 DEF WaiterOverrun
  <2> QED
    BY <2>1, <2>2, <2>3 DEF Waiter
<1>17. CASE \E j \in Jobs : Engine(j)
  <2> PICK j \in Jobs : Engine(j)
    BY <1>17
  <2>1. CASE EnginePublish(j)
    BY <2>1 DEF EnginePublish
  <2>2. CASE EngineSucceed(j) \/ EngineFail(j)
    BY <2>2 DEF EngineSucceed, EngineFail, ChildStates
  <2> QED
    BY <2>1, <2>2 DEF Engine
<1>18. CASE UNCHANGED vars
  BY <1>18
<1> QED
  BY <1>1, <1>2, <1>3, <1>4, <1>5, <1>6, <1>7, <1>8, <1>9, <1>10, <1>11, <1>12, <1>13, <1>14,
     <1>15, <1>16, <1>17, <1>18 DEF Next, Hook, StartCommand, CancelCommand, ExitHandler

(* The initial state satisfies the invariant: no job left a trace yet. *)
LEMMA InitIInv == Init => IInv
<1> SUFFICES ASSUME Init PROVE IInv
  OBVIOUS
<1>0. starts \in 0..MaxJobs /\ exitTries \in 0..2
  BY MaxJobsAssumption DEF Init
<1>a. events \in Seq(TerminalEvent) /\ child \in [Jobs -> ChildStates]
  BY DEF Init, ChildStates
<1>b. /\ published \in [Jobs -> BOOLEAN] /\ readOk \in [Jobs -> BOOLEAN]
      /\ launching \in BOOLEAN /\ cancelling \in BOOLEAN
      /\ shuttingDown \in BOOLEAN /\ exitFailed \in BOOLEAN
  BY Zenon DEF Init
<1>1. TypeOK
  BY <1>0, <1>a, <1>b DEF Init, TypeOK, Statuses
<1> USE MaxJobsAssumption DEF Init, Jobs, NoJob
<1>2. FreshJobs /\ LaunchShape /\ CancelShape /\ FollowedJob /\ WaiterShape /\ EventsGenuine
  BY DEF FreshJobs, LaunchShape, CancelShape, FollowedJob, WaiterShape, EventsGenuine, Settled
<1>3. LiveEngine /\ CompletedVerdict /\ RequestFileOwned /\ QuitShape
  BY DEF LiveEngine, CompletedVerdict, RequestFileOwned, QuitShape
<1> QED
  BY <1>1, <1>2, <1>3 DEF IInv

(* Every step preserves the invariant, action by action. *)
LEMMA NextIInv == IInv /\ [Next]_vars => IInv'
<1> SUFFICES ASSUME IInv, [Next]_vars PROVE IInv'
  OBVIOUS
<1>t. TypeOK'
  BY NextTypeOK DEF IInv
<1>h. events # <<>> => Head(events).job \in Jobs
  <2>1. events # <<>> => Head(events) \in TerminalEvent
    BY DEF IInv, TypeOK
  <2> QED
    BY <2>1 DEF TerminalEvent
<1> USE <1>t, MaxJobsAssumption
    DEF Jobs, NoJob, NoEvent, Busy, Settled, Dead, TerminalEvent, AppAlive, MayComplete,
        Genuine, vars, uiVars, callVars, procVars, jobVars, exitVars, IInv, TypeOK,
        FreshJobs, LaunchShape, CancelShape, FollowedJob, WaiterShape, EventsGenuine,
        LiveEngine, CompletedVerdict, RequestFileOwned, QuitShape
<1>1. CASE StartRun
  <2>1. FreshJobs'
    BY <1>1 DEF StartRun
  <2>2. LaunchShape'
    BY <1>1 DEF StartRun
  <2>3. CancelShape'
    BY <1>1 DEF StartRun
  <2>4. FollowedJob'
    BY <1>1 DEF StartRun
  <2>5. WaiterShape'
    BY <1>1 DEF StartRun
  <2>6. EventsGenuine'
    BY <1>1 DEF StartRun
  <2>7. LiveEngine'
    BY <1>1 DEF StartRun
  <2>8. CompletedVerdict'
    BY <1>1 DEF StartRun
  <2>9. RequestFileOwned'
    BY <1>1 DEF StartRun
  <2>10. QuitShape'
    BY <1>1 DEF StartRun
  <2> QED
    BY <2>1, <2>2, <2>3, <2>4, <2>5, <2>6, <2>7, <2>8, <2>9, <2>10
<1>2. CASE ReceiveReceipt
  <2>1. FreshJobs'
    BY <1>2 DEF ReceiveReceipt, SettleRun
  <2>2. LaunchShape'
    BY <1>2 DEF ReceiveReceipt, SettleRun
  <2>3. CancelShape'
    BY <1>2 DEF ReceiveReceipt, SettleRun
  <2>4. FollowedJob'
    BY <1>2 DEF ReceiveReceipt, SettleRun
  <2>5. WaiterShape'
    BY <1>2 DEF ReceiveReceipt, SettleRun
  <2>6. EventsGenuine'
    BY <1>2 DEF ReceiveReceipt, SettleRun
  <2>7. LiveEngine'
    BY <1>2 DEF ReceiveReceipt, SettleRun
  <2>8. CompletedVerdict'
    BY <1>2 DEF ReceiveReceipt, SettleRun
  <2>9. RequestFileOwned'
    BY <1>2 DEF ReceiveReceipt, SettleRun
  <2>10. QuitShape'
    BY <1>2 DEF ReceiveReceipt, SettleRun
  <2> QED
    BY <2>1, <2>2, <2>3, <2>4, <2>5, <2>6, <2>7, <2>8, <2>9, <2>10
<1>3. CASE LaunchFailed
  BY <1>3 DEF LaunchFailed
<1>4. CASE DeliverTerminal
  <2> DEFINE e == Head(events)
  <2>0. e = events[1] /\ 1 \in 1..Len(events)
    BY <1>4 DEF DeliverTerminal
  <2>a. e.job \in Jobs /\ e = events[1] /\ 1 \in 1..Len(events)
    BY <1>4, <1>h, <2>0 DEF DeliverTerminal
  <2>b. waiter[e.job] = "done" /\ verdict[e.job] = e.kind
    BY <2>a
  <2>c. \/ UNCHANGED <<runStatus, terminalJob>>
        \/ /\ e.job = jobId /\ terminalJob # jobId /\ ~cancelling
           /\ terminalJob' = jobId
           /\ runStatus' = IF e.kind = "complete" THEN "COMPLETED" ELSE "FAILED"
    BY <1>4 DEF DeliverTerminal, SettleRun, Ignored
  <2>1. FreshJobs'
    BY <1>4, <2>a DEF DeliverTerminal, SettleRun, KeepFirst, Ignored
  <2>2. LaunchShape'
    BY <1>4, <2>a DEF DeliverTerminal, SettleRun, KeepFirst, Ignored
  <2>3. CancelShape'
    BY <1>4, <2>a DEF DeliverTerminal, SettleRun, KeepFirst, Ignored
  <2>4. FollowedJob'
    BY <1>4, <2>a DEF DeliverTerminal, SettleRun, KeepFirst, Ignored
  <2>5. WaiterShape'
    BY <1>4, <2>a DEF DeliverTerminal, SettleRun, KeepFirst, Ignored
  <2>6. EventsGenuine'
    BY <1>4, <2>a DEF DeliverTerminal, SettleRun, KeepFirst, Ignored
  <2>7. CompletedVerdict'
    BY <1>4, <2>a, <2>b, <2>c DEF DeliverTerminal
  <2>8. RequestFileOwned'
    BY <1>4, <2>a DEF DeliverTerminal, SettleRun, KeepFirst, Ignored
  <2>9. QuitShape'
    BY <1>4, <2>a DEF DeliverTerminal, SettleRun, KeepFirst, Ignored
  <2>10. LiveEngine'
    <3>1. CASE UNCHANGED runStatus
      BY <1>4, <3>1 DEF DeliverTerminal
    <3>2. CASE e.job = jobId
      <4>1. jobId = starts /\ child[starts] \in Dead
        BY <2>a, <2>b, <3>2
      <4> QED
        BY <1>4, <4>1 DEF DeliverTerminal
    <3> QED
      BY <2>c, <3>1, <3>2
  <2> QED
    BY <2>1, <2>2, <2>3, <2>4, <2>5, <2>6, <2>7, <2>8, <2>9, <2>10
<1>5. CASE CancelRun
  BY <1>5 DEF CancelRun
<1>6. CASE CancelConfirmed
  BY <1>6 DEF CancelConfirmed
<1>7. CASE CancelRejected
  <2>1. FreshJobs'
    BY <1>7 DEF CancelRejected, SettleRun
  <2>2. LaunchShape'
    BY <1>7 DEF CancelRejected, SettleRun
  <2>3. CancelShape'
    BY <1>7 DEF CancelRejected, SettleRun
  <2>4. FollowedJob'
    BY <1>7 DEF CancelRejected, SettleRun
  <2>5. WaiterShape'
    BY <1>7 DEF CancelRejected, SettleRun
  <2>6. EventsGenuine'
    BY <1>7 DEF CancelRejected, SettleRun
  <2>7. LiveEngine'
    BY <1>7 DEF CancelRejected, SettleRun
  <2>8. CompletedVerdict'
    BY <1>7 DEF CancelRejected, SettleRun
  <2>9. RequestFileOwned'
    BY <1>7 DEF CancelRejected, SettleRun
  <2>10. QuitShape'
    BY <1>7 DEF CancelRejected, SettleRun
  <2> QED
    BY <2>1, <2>2, <2>3, <2>4, <2>5, <2>6, <2>7, <2>8, <2>9, <2>10
<1>8. CASE ClearSources
  BY <1>8 DEF ClearSources
<1>9. CASE StartAdmit
  BY <1>9 DEF StartAdmit
<1>10. CASE StartRefused
  BY <1>10 DEF StartRefused
<1>11. CASE StartSpawn
  BY <1>11 DEF StartSpawn
<1>12. CASE StartRegister
  <2>1. FreshJobs'
    BY <1>12 DEF StartRegister
  <2>2. LaunchShape'
    BY <1>12 DEF StartRegister
  <2>3. CancelShape'
    BY <1>12 DEF StartRegister
  <2>4. FollowedJob'
    BY <1>12 DEF StartRegister
  <2>5. WaiterShape'
    BY <1>12 DEF StartRegister
  <2>6. EventsGenuine'
    BY <1>12 DEF StartRegister
  <2>7. LiveEngine'
    BY <1>12 DEF StartRegister
  <2>8. CompletedVerdict'
    BY <1>12 DEF StartRegister
  <2>9. RequestFileOwned'
    BY <1>12 DEF StartRegister
  <2>10. QuitShape'
    BY <1>12 DEF StartRegister
  <2> QED
    BY <2>1, <2>2, <2>3, <2>4, <2>5, <2>6, <2>7, <2>8, <2>9, <2>10
<1>13. CASE StartAbort
  <2>1. FreshJobs'
    BY <1>13 DEF StartAbort, TerminateTree
  <2>2. LaunchShape'
    BY <1>13 DEF StartAbort, TerminateTree
  <2>3. CancelShape'
    BY <1>13 DEF StartAbort, TerminateTree
  <2>4. FollowedJob'
    BY <1>13 DEF StartAbort, TerminateTree
  <2>5. WaiterShape'
    BY <1>13 DEF StartAbort, TerminateTree
  <2>6. EventsGenuine'
    BY <1>13 DEF StartAbort, TerminateTree
  <2>7. LiveEngine'
    BY <1>13 DEF StartAbort, TerminateTree
  <2>8. CompletedVerdict'
    BY <1>13 DEF StartAbort, TerminateTree
  <2>9. RequestFileOwned'
    BY <1>13 DEF StartAbort, TerminateTree
  <2>10. QuitShape'
    BY <1>13 DEF StartAbort, TerminateTree
  <2> QED
    BY <2>1, <2>2, <2>3, <2>4, <2>5, <2>6, <2>7, <2>8, <2>9, <2>10
<1>14. CASE CancelLookup
  BY <1>14 DEF CancelLookup
<1>15. CASE CancelTerminate
  <2>a. PICK ok \in BOOLEAN : /\ TerminateTree(jobId, ok)
                             /\ cancelCall' = IF ok THEN "ok" ELSE "err"
    BY <1>15 DEF CancelTerminate
  <2>b. jobId \in Jobs /\ child[jobId] # "none" /\ ~ChildLocked(jobId)
    BY <1>15 DEF CancelTerminate
  <2>c. \/ child' = child
        \/ child[jobId] = "alive" /\ child' = [child EXCEPT ![jobId] = "killed"]
    BY <2>a DEF TerminateTree
  <2>d. cancelCall' = "ok" => child'[jobId] \in Dead
    BY <2>a, <2>b DEF TerminateTree, ChildStates
  <2>e. refused \subseteq refused'
    BY <2>a DEF TerminateTree
  <2>1. FreshJobs'
    BY <1>15, <2>b, <2>c, <2>d, <2>e DEF CancelTerminate
  <2>2. LaunchShape'
    BY <1>15, <2>b, <2>c, <2>d, <2>e DEF CancelTerminate
  <2>3. CancelShape'
    BY <1>15, <2>b, <2>c, <2>d, <2>e DEF CancelTerminate
  <2>4. FollowedJob'
    BY <1>15, <2>b, <2>c, <2>d, <2>e DEF CancelTerminate
  <2>5. WaiterShape'
    BY <1>15, <2>b, <2>c, <2>d, <2>e DEF CancelTerminate
  <2>6. EventsGenuine'
    BY <1>15, <2>b, <2>c, <2>d, <2>e DEF CancelTerminate
  <2>7. LiveEngine'
    BY <1>15, <2>b, <2>c, <2>d, <2>e DEF CancelTerminate
  <2>8. CompletedVerdict'
    BY <1>15, <2>b, <2>c, <2>d, <2>e DEF CancelTerminate
  <2>9. RequestFileOwned'
    BY <1>15, <2>b, <2>c, <2>d, <2>e DEF CancelTerminate
  <2>10. QuitShape'
    BY <1>15, <2>b, <2>c, <2>d, <2>e DEF CancelTerminate
  <2> QED
    BY <2>1, <2>2, <2>3, <2>4, <2>5, <2>6, <2>7, <2>8, <2>9, <2>10
<1>16. CASE ExitRequested
  <2>1. FreshJobs'
    BY <1>16 DEF ExitRequested
  <2>2. LaunchShape'
    BY <1>16 DEF ExitRequested
  <2>3. CancelShape'
    BY <1>16 DEF ExitRequested
  <2>4. FollowedJob'
    BY <1>16 DEF ExitRequested
  <2>5. WaiterShape'
    BY <1>16 DEF ExitRequested
  <2>6. EventsGenuine'
    BY <1>16 DEF ExitRequested
  <2>7. LiveEngine'
    BY <1>16 DEF ExitRequested
  <2>8. CompletedVerdict'
    BY <1>16 DEF ExitRequested
  <2>9. RequestFileOwned'
    BY <1>16 DEF ExitRequested
  <2>10. QuitShape'
    BY <1>16 DEF ExitRequested
  <2> QED
    BY <2>1, <2>2, <2>3, <2>4, <2>5, <2>6, <2>7, <2>8, <2>9, <2>10
<1>17. CASE ExitSnapshot
  BY <1>17 DEF ExitSnapshot
<1>18. CASE ExitReturn
  BY <1>18 DEF ExitReturn
<1>19. CASE AppGone
  BY <1>19 DEF AppGone
<1>20. CASE \E j \in Jobs : ExitTerminate(j)
  <2>0. PICK j \in Jobs : ExitTerminate(j)
    BY <1>20
  <2>1. FreshJobs'
    BY <2>0 DEF ExitTerminate, TerminateTree, ChildLocked
  <2>2. LaunchShape'
    BY <2>0 DEF ExitTerminate, TerminateTree, ChildLocked
  <2>3. CancelShape'
    BY <2>0 DEF ExitTerminate, TerminateTree, ChildLocked
  <2>4. FollowedJob'
    BY <2>0 DEF ExitTerminate, TerminateTree, ChildLocked
  <2>5. WaiterShape'
    BY <2>0 DEF ExitTerminate, TerminateTree, ChildLocked
  <2>6. EventsGenuine'
    BY <2>0 DEF ExitTerminate, TerminateTree, ChildLocked
  <2>7. LiveEngine'
    BY <2>0 DEF ExitTerminate, TerminateTree, ChildLocked
  <2>8. CompletedVerdict'
    BY <2>0 DEF ExitTerminate, TerminateTree, ChildLocked
  <2>9. RequestFileOwned'
    BY <2>0 DEF ExitTerminate, TerminateTree, ChildLocked
  <2>10. QuitShape'
    BY <2>0 DEF ExitTerminate, TerminateTree, ChildLocked
  <2> QED
    BY <2>1, <2>2, <2>3, <2>4, <2>5, <2>6, <2>7, <2>8, <2>9, <2>10
<1>21. CASE \E j \in Jobs : WaiterRead(j)
  BY <1>21 DEF WaiterRead
<1>22. CASE \E j \in Jobs : WaiterOverrun(j)
  BY <1>22 DEF WaiterOverrun
<1>23. CASE \E j \in Jobs : WaiterReap(j)
  BY <1>23 DEF WaiterReap
<1>24. CASE \E j \in Jobs : WaiterRetire(j)
  <2>0. PICK j \in Jobs : WaiterRetire(j)
    BY <1>24
  <2>1. FreshJobs'
    BY <2>0 DEF WaiterRetire
  <2>2. LaunchShape'
    BY <2>0 DEF WaiterRetire
  <2>3. CancelShape'
    BY <2>0 DEF WaiterRetire
  <2>4. FollowedJob'
    BY <2>0 DEF WaiterRetire
  <2>5. WaiterShape'
    BY <2>0 DEF WaiterRetire
  <2>6. EventsGenuine'
    BY <2>0 DEF WaiterRetire
  <2>7. LiveEngine'
    BY <2>0 DEF WaiterRetire
  <2>8. CompletedVerdict'
    BY <2>0 DEF WaiterRetire
  <2>9. RequestFileOwned'
    BY <2>0 DEF WaiterRetire
  <2>10. QuitShape'
    BY <2>0 DEF WaiterRetire
  <2> QED
    BY <2>1, <2>2, <2>3, <2>4, <2>5, <2>6, <2>7, <2>8, <2>9, <2>10
<1>25. CASE \E j \in Jobs : WaiterReport(j)
  BY <1>25 DEF WaiterReport
<1>26. CASE \E j \in Jobs : EnginePublish(j)
  BY <1>26 DEF EnginePublish
<1>27. CASE \E j \in Jobs : EngineSucceed(j)
  BY <1>27 DEF EngineSucceed
<1>28. CASE \E j \in Jobs : EngineFail(j)
  BY <1>28 DEF EngineFail
<1>29. CASE UNCHANGED vars
  BY <1>29
<1> QED
  BY <1>1, <1>2, <1>3, <1>4, <1>5, <1>6, <1>7, <1>8, <1>9, <1>10, <1>11, <1>12, <1>13, <1>14, <1>15, <1>16, <1>17, <1>18, <1>19, <1>20, <1>21, <1>22, <1>23, <1>24, <1>25, <1>26, <1>27, <1>28, <1>29
     DEF Next, Hook, StartCommand, CancelCommand, ExitHandler, Waiter, Engine

-----------------------------------------------------------------------------
(* The invariant holds in every reachable state, for every MaxJobs. *)
THEOREM Safety == Spec => []IInv
  BY InitIInv, NextIInv, PTL DEF Spec

(* Type correctness of the whole run protocol. *)
THEOREM TypeCorrect == Spec => []TypeOK
<1>1. IInv => TypeOK
  BY DEF IInv
<1> QED
  BY <1>1, Safety, PTL

(* A settled run has no engine left; see SettledRunStopped. *)
THEOREM RunStopped == Spec => []SettledRunStopped
<1>1. IInv => SettledRunStopped
  BY MaxJobsAssumption DEF IInv, TypeOK, FollowedJob, LiveEngine, SettledRunStopped, Settled,
     Busy, Jobs
<1> QED
  BY <1>1, Safety, PTL

(* COMPLETED is only ever shown for the newest job, validated and            *)
(* successfully exited; see CompletedIsValidated.                            *)
THEOREM CompletedValidated == Spec => []CompletedIsValidated
<1>1. IInv => CompletedIsValidated
  BY MaxJobsAssumption DEF IInv, TypeOK, FollowedJob, WaiterShape, CompletedVerdict, MayComplete,
     CompletedIsValidated, Settled, Jobs
<1> QED
  BY <1>1, Safety, PTL

(* No two engines run at the same time; see AtMostOneEngine. *)
THEOREM OneEngine == Spec => []AtMostOneEngine
<1>1. IInv => AtMostOneEngine
  BY MaxJobsAssumption DEF IInv, TypeOK, FreshJobs, LiveEngine, AtMostOneEngine, Jobs
<1> QED
  BY <1>1, Safety, PTL

(* Every request file has an owner, and quitting leaves neither engines nor  *)
(* request files except those of a start command still on its way.           *)
THEOREM QuitClean == Spec => [](RequestFileOwned /\ QuitLeavesNothing)
<1>1. IInv => RequestFileOwned /\ QuitLeavesNothing
  BY DEF IInv, LiveEngine, RequestFileOwned, QuitShape, QuitLeavesNothing
<1> QED
  BY <1>1, Safety, PTL

(* An outcome once shown is not overwritten; see SettledIsFinal. *)
THEOREM OutcomeFinal == Spec => SettledIsFinal
<1>1. IInv /\ [Next]_vars =>
        [(runStatus \in Settled /\ runStatus' # runStatus) =>
           (runStatus' = "IDLE" \/ starts' = starts + 1)]_vars
  <2> SUFFICES ASSUME IInv, Next, runStatus \in Settled, runStatus' # runStatus
               PROVE  runStatus' = "IDLE" \/ starts' = starts + 1
    OBVIOUS
  <2> USE DEF IInv, LaunchShape, CancelShape, FollowedJob, Settled
  <2>1. CASE Hook
    BY <2>1 DEF Hook, StartRun, ReceiveReceipt, LaunchFailed, DeliverTerminal, Ignored, CancelRun,
       CancelConfirmed, CancelRejected, ClearSources
  <2>2. CASE StartCommand \/ CancelCommand
    BY <2>2 DEF StartCommand, StartAdmit, StartRefused, StartSpawn, StartRegister, StartAbort,
       CancelCommand, CancelLookup, CancelTerminate, uiVars
  <2>3. CASE ExitHandler
    BY <2>3 DEF ExitHandler, ExitRequested, ExitSnapshot, ExitReturn, AppGone, ExitTerminate, uiVars
  <2>4. CASE \E j \in Jobs : Waiter(j) \/ WaiterOverrun(j) \/ Engine(j)
    BY <2>4 DEF Waiter, WaiterRead, WaiterOverrun, WaiterReap, WaiterRetire, WaiterReport, Engine,
       EnginePublish, EngineSucceed, EngineFail, uiVars
  <2> QED
    BY <2>1, <2>2, <2>3, <2>4 DEF Next
<1> QED
  BY <1>1, Safety, PTL DEF Spec, SettledIsFinal
=============================================================================
