---------------------------- MODULE RunLifecycle ----------------------------
(***************************************************************************)
(* One native run of the desktop application, end to end: the React hook   *)
(* (useWorkflow.ts), the Rust controller that owns the worker processes    *)
(* (project/execution.rs, lib.rs), the engine process it spawns and the    *)
(* two channels between controller and hook: command replies and events.   *)
(*                                                                         *)
(* Actors that interleave: the hook (every handler is atomic up to its     *)
(* next await), the start_project command, the waiter thread of each job,  *)
(* the cancel_project command, the exit handler and the engine itself.     *)
(* A reply and an event travel separately, so either can overtake the      *)
(* other.  A job is named by the ordinal of its launch, which stands for   *)
(* the process-wide unique identifier start_with mints.                    *)
(***************************************************************************)
EXTENDS Naturals, Sequences, FiniteSets

CONSTANT MaxJobs    \* bound: launches one session of the application makes

ASSUME MaxJobsAssumption == MaxJobs \in Nat \ {0}

Jobs    == 1..MaxJobs
NoJob   == 0
NoEvent == [job |-> NoJob, kind |-> "none"]

(* project-complete and project-error; both are terminal for their job. *)
TerminalEvent == [job : Jobs, kind : {"complete", "error"}]

Statuses == {"IDLE", "RUNNING", "CANCELLING", "CANCELLED", "COMPLETED", "FAILED"}
Busy     == {"RUNNING", "CANCELLING"}
Settled  == {"CANCELLED", "COMPLETED", "FAILED"}

(* "none": no process yet; "ok" / "failed": its own exit; "killed": SIGKILL. *)
ChildStates == {"none", "alive", "ok", "failed", "killed"}
Dead        == {"ok", "failed", "killed"}

VARIABLES
  runStatus,        \* what the run view shows
  jobId,            \* jobIdRef: the job whose events the hook accepts
  launching,        \* runLaunchInFlightRef
  cancelling,       \* cancellingRef
  terminalJob,      \* terminalJobIdRef
  pendingTerminal,  \* pendingTerminalRef: the buffered terminal event
  starts,           \* launches so far; the newest job is named by it
  startCall,        \* where the start_project command stands
  cancelCall,       \* where the cancel_project command stands
  events,           \* terminal events emitted and not yet delivered, in order
  child,            \* child[j]: the engine process of job j
  published,        \* published[j]: the engine renamed its output into place
  waiter,           \* waiter[j]: where the thread that reads job j stands
  readOk,           \* readOk[j]: the answer on stdout was read within bounds
  registered,       \* keys of ProjectRegistry.jobs
  reqFile,          \* jobs whose private request file exists
  verdict,          \* verdict[j]: what the waiter reported
  shuttingDown,     \* ProjectRegistry.shutting_down
  exitCall,         \* where the exit handler stands
  exitTries,        \* exit events handled (ExitRequested, then Exit)
  toKill,           \* terminate_all's snapshot, jobs still to do
  exitFailed,       \* terminate_all collected a failure
  refused           \* history: jobs the platform could not kill cleanly

uiVars   == <<runStatus, jobId, launching, cancelling, terminalJob, pendingTerminal>>
callVars == <<starts, startCall, cancelCall>>
procVars == <<child, published>>
jobVars  == <<waiter, readOk, registered, reqFile, verdict>>
exitVars == <<shuttingDown, exitCall, exitTries, toKill, exitFailed>>
vars == <<uiVars, callVars, events, procVars, jobVars, exitVars, refused>>

TypeOK ==
  /\ runStatus \in Statuses
  /\ jobId \in Jobs \cup {NoJob}
  /\ launching \in BOOLEAN
  /\ cancelling \in BOOLEAN
  /\ terminalJob \in Jobs \cup {NoJob}
  /\ pendingTerminal \in TerminalEvent \cup {NoEvent}
  /\ starts \in 0..MaxJobs
  /\ startCall \in {"idle", "entered", "admitted", "spawned", "accepted", "rejected"}
  /\ cancelCall \in {"idle", "requested", "locking", "ok", "err"}
  /\ events \in Seq(TerminalEvent)
  /\ child \in [Jobs -> ChildStates]
  /\ published \in [Jobs -> BOOLEAN]
  /\ waiter \in [Jobs -> {"none", "reading", "waiting", "reaped", "retired", "done"}]
  /\ readOk \in [Jobs -> BOOLEAN]
  /\ registered \in SUBSET Jobs
  /\ reqFile \in SUBSET Jobs
  /\ verdict \in [Jobs -> {"none", "complete", "error"}]
  /\ shuttingDown \in BOOLEAN
  /\ exitCall \in {"idle", "flagged", "killing", "retry", "done", "gone"}
  /\ exitTries \in 0..2
  /\ toKill \in SUBSET Jobs
  /\ exitFailed \in BOOLEAN
  /\ refused \in SUBSET Jobs

Init ==
  /\ runStatus = "IDLE" /\ jobId = NoJob /\ launching = FALSE
  /\ cancelling = FALSE /\ terminalJob = NoJob /\ pendingTerminal = NoEvent
  /\ starts = 0 /\ startCall = "idle" /\ cancelCall = "idle" /\ events = <<>>
  /\ child = [j \in Jobs |-> "none"] /\ published = [j \in Jobs |-> FALSE]
  /\ waiter = [j \in Jobs |-> "none"] /\ readOk = [j \in Jobs |-> TRUE]
  /\ registered = {} /\ reqFile = {} /\ verdict = [j \in Jobs |-> "none"]
  /\ shuttingDown = FALSE /\ exitCall = "idle" /\ exitTries = 0
  /\ toKill = {} /\ exitFailed = FALSE /\ refused = {}

-----------------------------------------------------------------------------
(* The hook. *)

(* The process is gone once the exit handler let the event loop end. *)
AppAlive == exitCall # "gone"

(* handleComplete and handleError past their guards.  The controller emits *)
(* project-complete only with a ready gate and a solved product, so the    *)
(* hook's own gate check cannot fail on it.                                *)
SettleRun(e) ==
  /\ terminalJob' = e.job
  /\ runStatus' = IF e.kind = "complete" THEN "COMPLETED" ELSE "FAILED"

(* Mutant: nothing is buffered while a command is pending. *)
KeepNothing(e) == pendingTerminal

(* `??=`: the first event to arrive keeps the slot. *)
KeepFirst(e) == IF pendingTerminal = NoEvent THEN e ELSE pendingTerminal

(* startRun up to its await.  canStart's other inputs (blockers, a complete *)
(* Blink review) only restrict when the user may press the button.          *)
StartRun ==
  /\ AppAlive
  /\ starts < MaxJobs
  /\ ~launching /\ runStatus \notin Busy
  /\ launching' = TRUE
  /\ jobId' = NoJob
  /\ pendingTerminal' = NoEvent
  /\ terminalJob' = NoJob
  /\ cancelling' = FALSE
  /\ runStatus' = "RUNNING"
  /\ starts' = starts + 1
  /\ startCall' = "entered"
  /\ UNCHANGED <<cancelCall, events, procVars, jobVars, exitVars, refused>>

(* Mutant: the buffered event is replayed whichever job it belongs to. *)
ReceiveReceiptAnyJob ==
  /\ AppAlive
  /\ startCall = "accepted"
  /\ startCall' = "idle"
  /\ jobId' = starts
  /\ launching' = FALSE
  /\ pendingTerminal' = NoEvent
  /\ IF pendingTerminal # NoEvent
       THEN SettleRun(pendingTerminal)
       ELSE UNCHANGED <<runStatus, terminalJob>>
  /\ UNCHANGED <<cancelling, starts, cancelCall, events, procVars, jobVars, exitVars, refused>>

(* The receipt arrives: name the job, then replayPendingRunEvents; the     *)
(* replayed event passes handleComplete's job test like any other.         *)
ReceiveReceipt ==
  /\ AppAlive
  /\ startCall = "accepted"
  /\ startCall' = "idle"
  /\ jobId' = starts
  /\ launching' = FALSE
  /\ pendingTerminal' = NoEvent
  /\ IF pendingTerminal.job = starts
       THEN SettleRun(pendingTerminal)
       ELSE UNCHANGED <<runStatus, terminalJob>>
  /\ UNCHANGED <<cancelling, starts, cancelCall, events, procVars, jobVars, exitVars, refused>>

(* startRun's catch and finally: the launch failed. *)
LaunchFailed ==
  /\ AppAlive
  /\ startCall = "rejected"
  /\ startCall' = "idle"
  /\ runStatus' = "FAILED"
  /\ launching' = FALSE
  /\ UNCHANGED <<jobId, cancelling, terminalJob, pendingTerminal, starts, cancelCall,
                 events, procVars, jobVars, exitVars, refused>>

(* Mutant: only the job is compared, not whether it already ended. *)
IgnoredByJobOnly(e) == e.job # jobId

(* Another job's event, or one for a job whose outcome is already shown. *)
Ignored(e) == e.job # jobId \/ e.job = terminalJob

(* handleComplete / handleError on the oldest undelivered event: buffer it *)
(* while a launch or a cancellation is pending, drop it when it is not the *)
(* current job's or the job already ended, else settle the run.            *)
DeliverTerminal ==
  /\ AppAlive
  /\ events # <<>>
  /\ events' = Tail(events)
  /\ LET e == Head(events) IN
       \/ /\ jobId = NoJob
          /\ pendingTerminal' = IF launching THEN KeepFirst(e) ELSE pendingTerminal
          /\ UNCHANGED <<runStatus, terminalJob>>
       \/ /\ jobId # NoJob /\ Ignored(e)
          /\ UNCHANGED <<runStatus, terminalJob, pendingTerminal>>
       \/ /\ jobId # NoJob /\ ~Ignored(e) /\ cancelling
          /\ pendingTerminal' = KeepFirst(e)
          /\ UNCHANGED <<runStatus, terminalJob>>
       \/ /\ jobId # NoJob /\ ~Ignored(e) /\ ~cancelling
          /\ SettleRun(e)
          /\ UNCHANGED pendingTerminal
  /\ UNCHANGED <<jobId, launching, cancelling, callVars, procVars, jobVars, exitVars, refused>>

(* cancelRun up to its await.  The React state jobId equals jobIdRef except *)
(* after clearSources, where terminalJobIdRef still names it and the guard  *)
(* returns either way.                                                      *)
CancelRun ==
  /\ AppAlive
  /\ jobId # NoJob /\ ~cancelling /\ terminalJob # jobId
  /\ runStatus' = "CANCELLING"
  /\ cancelling' = TRUE
  /\ cancelCall' = "requested"
  /\ UNCHANGED <<jobId, launching, terminalJob, pendingTerminal, starts, startCall,
                 events, procVars, jobVars, exitVars, refused>>

(* The cancellation was confirmed: whatever was buffered is dropped. *)
CancelConfirmed ==
  /\ AppAlive
  /\ cancelCall = "ok"
  /\ cancelCall' = "idle"
  /\ pendingTerminal' = NoEvent
  /\ terminalJob' = jobId
  /\ runStatus' = "CANCELLED"
  /\ cancelling' = FALSE
  /\ UNCHANGED <<jobId, launching, starts, startCall, events, procVars, jobVars, exitVars, refused>>

(* Mutant: any answer to the cancellation counts as cancelled. *)
CancelRejectedSettles ==
  /\ AppAlive
  /\ cancelCall = "err"
  /\ cancelCall' = "idle"
  /\ cancelling' = FALSE
  /\ pendingTerminal' = NoEvent
  /\ terminalJob' = jobId
  /\ runStatus' = "CANCELLED"
  /\ UNCHANGED <<jobId, launching, starts, startCall, events, procVars, jobVars, exitVars, refused>>

(* "A rejected cancellation does not prove that the worker has stopped":   *)
(* back to RUNNING, then replay what arrived meanwhile.                    *)
CancelRejected ==
  /\ AppAlive
  /\ cancelCall = "err"
  /\ cancelCall' = "idle"
  /\ cancelling' = FALSE
  /\ pendingTerminal' = NoEvent
  /\ IF pendingTerminal.job = jobId
       THEN SettleRun(pendingTerminal)
       ELSE /\ runStatus' = "RUNNING"
            /\ UNCHANGED terminalJob
  /\ UNCHANGED <<jobId, launching, starts, startCall, events, procVars, jobVars, exitVars, refused>>

(* clearSources, the part that concerns the run. *)
ClearSources ==
  /\ AppAlive
  /\ ~launching /\ runStatus \notin Busy \cup {"IDLE"}
  /\ jobId' = NoJob
  /\ pendingTerminal' = NoEvent
  /\ runStatus' = "IDLE"
  /\ UNCHANGED <<launching, cancelling, terminalJob, callVars, events, procVars, jobVars,
                 exitVars, refused>>

-----------------------------------------------------------------------------
(* platform::terminate_process_tree on the child of j. *)

(* An exited child is left alone; otherwise SIGKILL reaches the private     *)
(* group, or the group cannot be verified and only the child is killed (an *)
(* error), or the signal itself fails (an error, the child lives on).      *)
TerminateTree(j, ok) ==
  \/ /\ child[j] # "alive" /\ ok
     /\ UNCHANGED <<child, refused>>
  \/ /\ child[j] = "alive"
     /\ child' = [child EXCEPT ![j] = "killed"]
     /\ refused' = IF ok THEN refused ELSE refused \cup {j}
  \/ /\ child[j] = "alive" /\ ~ok
     /\ refused' = refused \cup {j}
     /\ UNCHANGED child

(* Mutant: the mutex is never released after wait(). *)
ChildLockedForever(j) == waiter[j] \in {"waiting", "reaped", "retired", "done"}

(* The waiter calls wait() with the child's mutex held. *)
ChildLocked(j) == waiter[j] = "waiting"

-----------------------------------------------------------------------------
(* The start_project command. *)

(* start and start_with up to the private request: the shutdown test. *)
StartAdmit ==
  /\ AppAlive
  /\ startCall = "entered" /\ ~shuttingDown
  /\ startCall' = "admitted"
  /\ UNCHANGED <<uiVars, starts, cancelCall, events, procVars, jobVars, exitVars, refused>>

(* Any early return: shutdown, an invalid review, no engine, no free        *)
(* output name, or a failed spawn (which removes the request file again).  *)
StartRefused ==
  /\ AppAlive
  /\ startCall \in {"entered", "admitted"}
  /\ startCall' = "rejected"
  /\ UNCHANGED <<uiVars, starts, cancelCall, events, procVars, jobVars, exitVars, refused>>

(* create_private_request and spawn_sidecar. *)
StartSpawn ==
  /\ AppAlive
  /\ startCall = "admitted"
  /\ startCall' = "spawned"
  /\ child' = [child EXCEPT ![starts] = "alive"]
  /\ reqFile' = reqFile \cup {starts}
  /\ UNCHANGED <<uiVars, starts, cancelCall, events, published, waiter, readOk,
                 registered, verdict, exitVars, refused>>

(* Mutant: no second shutdown test under the registry lock. *)
StartRegisterUnchecked ==
  /\ AppAlive
  /\ startCall = "spawned"
  /\ startCall' = "accepted"
  /\ registered' = registered \cup {starts}
  /\ waiter' = [waiter EXCEPT ![starts] = "reading"]
  /\ UNCHANGED <<uiVars, starts, cancelCall, events, procVars, readOk, reqFile, verdict,
                 exitVars, refused>>

(* Under the registry lock shutting_down is still false: register the job, *)
(* start its waiter, answer with the receipt.                              *)
StartRegister ==
  /\ AppAlive
  /\ startCall = "spawned" /\ ~shuttingDown
  /\ startCall' = "accepted"
  /\ registered' = registered \cup {starts}
  /\ waiter' = [waiter EXCEPT ![starts] = "reading"]
  /\ UNCHANGED <<uiVars, starts, cancelCall, events, procVars, readOk, reqFile, verdict,
                 exitVars, refused>>

(* Shutdown began between the two tests: kill the unregistered child. *)
StartAbort ==
  /\ AppAlive
  /\ startCall = "spawned" /\ shuttingDown
  /\ startCall' = "rejected"
  /\ \E ok \in BOOLEAN : TerminateTree(starts, ok)
  /\ reqFile' = reqFile \ {starts}
  /\ UNCHANGED <<uiVars, starts, cancelCall, events, published, waiter, readOk,
                 registered, verdict, exitVars>>

-----------------------------------------------------------------------------
(* The waiter thread of job j. *)

(* stdout reaches end of file once the process is gone; the thread then    *)
(* takes the child's mutex and blocks in wait().                           *)
WaiterRead(j) ==
  /\ AppAlive
  /\ waiter[j] = "reading" /\ child[j] \in Dead
  /\ waiter' = [waiter EXCEPT ![j] = "waiting"]
  /\ UNCHANGED <<uiVars, callVars, events, procVars, readOk, registered, reqFile, verdict,
                 exitVars, refused>>

(* An answer longer than MAX_RESULT_BYTES ends the read, and closes the    *)
(* pipe, while the process still runs: wait() then holds the mutex of a    *)
(* live child.                                                             *)
WaiterOverrun(j) ==
  /\ AppAlive
  /\ waiter[j] = "reading" /\ child[j] = "alive"
  /\ waiter' = [waiter EXCEPT ![j] = "waiting"]
  /\ readOk' = [readOk EXCEPT ![j] = FALSE]
  /\ UNCHANGED <<uiVars, callVars, events, procVars, registered, reqFile, verdict, exitVars, refused>>

(* wait() returns and the mutex is released; the progress thread is joined. *)
WaiterReap(j) ==
  /\ AppAlive
  /\ waiter[j] = "waiting" /\ child[j] \in Dead
  /\ waiter' = [waiter EXCEPT ![j] = "reaped"]
  /\ UNCHANGED <<uiVars, callVars, events, procVars, readOk, registered, reqFile, verdict,
                 exitVars, refused>>

(* The request file is removed and the job leaves the registry. *)
WaiterRetire(j) ==
  /\ AppAlive
  /\ waiter[j] = "reaped"
  /\ waiter' = [waiter EXCEPT ![j] = "retired"]
  /\ reqFile' = reqFile \ {j}
  /\ registered' = registered \ {j}
  /\ UNCHANGED <<uiVars, callVars, events, procVars, readOk, verdict, exitVars, refused>>

(* decode_project_response accepts only a successful exit; the completion   *)
(* gate (validate_completion) may still block what the engine reports.      *)
MayComplete(j) == readOk[j] /\ child[j] = "ok" /\ published[j]

(* decode, revalidate, emit exactly one terminal event. *)
WaiterReport(j) ==
  /\ AppAlive
  /\ waiter[j] = "retired"
  /\ waiter' = [waiter EXCEPT ![j] = "done"]
  /\ \E kind \in {"complete", "error"} :
       /\ kind = "complete" => MayComplete(j)
       /\ events' = Append(events, [job |-> j, kind |-> kind])
       /\ verdict' = [verdict EXCEPT ![j] = kind]
  /\ UNCHANGED <<uiVars, callVars, procVars, readOk, registered, reqFile, exitVars, refused>>

-----------------------------------------------------------------------------
(* The cancel_project command. *)

(* Look the job up under the registry lock and clone its child handle. *)
CancelLookup ==
  /\ AppAlive
  /\ cancelCall = "requested"
  /\ cancelCall' = IF jobId \in registered THEN "locking" ELSE "err"
  /\ UNCHANGED <<uiVars, starts, startCall, events, procVars, jobVars, exitVars, refused>>

(* Mutant: the command answers before the tree is known to be dead. *)
CancelTerminateUnconfirmed ==
  /\ AppAlive
  /\ cancelCall = "locking" /\ ~ChildLocked(jobId)
  /\ \E ok \in BOOLEAN : TerminateTree(jobId, ok)
  /\ cancelCall' = "ok"
  /\ UNCHANGED <<uiVars, starts, startCall, events, published, jobVars, exitVars>>

(* Take the child's mutex, terminate the tree, answer. *)
CancelTerminate ==
  /\ AppAlive
  /\ cancelCall = "locking" /\ ~ChildLocked(jobId)
  /\ \E ok \in BOOLEAN :
       /\ TerminateTree(jobId, ok)
       /\ cancelCall' = IF ok THEN "ok" ELSE "err"
  /\ UNCHANGED <<uiVars, starts, startCall, events, published, jobVars, exitVars>>

-----------------------------------------------------------------------------
(* The exit handler: terminate_managed_children -> project::terminate_all. *)

(* RunEvent::ExitRequested, and RunEvent::Exit if that attempt failed. *)
ExitRequested ==
  /\ exitCall \in {"idle", "retry"} /\ exitTries < 2
  /\ exitCall' = "flagged"
  /\ exitTries' = exitTries + 1
  /\ shuttingDown' = TRUE
  /\ exitFailed' = FALSE
  /\ UNCHANGED <<uiVars, callVars, events, procVars, jobVars, toKill, refused>>

(* The snapshot of the registry, taken under its lock. *)
ExitSnapshot ==
  /\ exitCall = "flagged"
  /\ exitCall' = "killing"
  /\ toKill' = registered
  /\ UNCHANGED <<uiVars, callVars, events, procVars, jobVars, shuttingDown, exitTries,
                 exitFailed, refused>>

(* One job of the snapshot: its mutex, its tree, its request file. *)
ExitTerminate(j) ==
  /\ exitCall = "killing"
  /\ j \in toKill /\ ~ChildLocked(j)
  /\ toKill' = toKill \ {j}
  /\ \E ok \in BOOLEAN :
       /\ TerminateTree(j, ok)
       /\ exitFailed' = (exitFailed \/ ~ok)
  /\ reqFile' = reqFile \ {j}
  /\ UNCHANGED <<uiVars, callVars, events, published, waiter, readOk, registered, verdict,
                 shuttingDown, exitCall, exitTries>>

ExitReturn ==
  /\ exitCall = "killing" /\ toKill = {}
  /\ exitCall' = IF exitFailed THEN "retry" ELSE "done"
  /\ UNCHANGED <<uiVars, callVars, events, procVars, jobVars, shuttingDown, exitTries,
                 toKill, exitFailed, refused>>

(* The event loop ends; every thread of the application dies with it. *)
AppGone ==
  /\ exitCall = "done" \/ (exitCall = "retry" /\ exitTries = 2)
  /\ exitCall' = "gone"
  /\ UNCHANGED <<uiVars, callVars, events, procVars, jobVars, shuttingDown, exitTries,
                 toKill, exitFailed, refused>>

-----------------------------------------------------------------------------
(* The engine process of job j, as far as the controller can tell. *)

(* The create-only rename of the finished output directory. *)
EnginePublish(j) ==
  /\ child[j] = "alive" /\ ~published[j]
  /\ published' = [published EXCEPT ![j] = TRUE]
  /\ UNCHANGED <<uiVars, callVars, events, child, jobVars, exitVars, refused>>

EngineSucceed(j) ==
  /\ child[j] = "alive" /\ published[j]
  /\ readOk[j]
  /\ child' = [child EXCEPT ![j] = "ok"]
  /\ UNCHANGED <<uiVars, callVars, events, published, jobVars, exitVars, refused>>

(* A failed run; also the broken pipe once the reader gave up on stdout. *)
EngineFail(j) ==
  /\ child[j] = "alive"
  /\ child' = [child EXCEPT ![j] = "failed"]
  /\ UNCHANGED <<uiVars, callVars, events, published, jobVars, exitVars, refused>>

-----------------------------------------------------------------------------
Hook == \/ StartRun \/ ReceiveReceipt \/ LaunchFailed \/ DeliverTerminal
        \/ CancelRun \/ CancelConfirmed \/ CancelRejected \/ ClearSources
StartCommand == StartAdmit \/ StartRefused \/ StartSpawn \/ StartRegister \/ StartAbort
Waiter(j)    == WaiterRead(j) \/ WaiterReap(j) \/ WaiterRetire(j) \/ WaiterReport(j)
CancelCommand == CancelLookup \/ CancelTerminate
ExitHandler  == \/ ExitRequested \/ ExitSnapshot \/ ExitReturn \/ AppGone
                \/ \E j \in Jobs : ExitTerminate(j)
Engine(j)    == EnginePublish(j) \/ EngineSucceed(j) \/ EngineFail(j)

Next == \/ Hook \/ StartCommand \/ CancelCommand \/ ExitHandler
        \/ \E j \in Jobs : Waiter(j) \/ WaiterOverrun(j) \/ Engine(j)

(* Threads and the event loop are scheduled; the user is not, and an engine *)
(* owes an exit only once it was killed or lost its pipe.                   *)
Fairness ==
  /\ WF_vars(ReceiveReceipt) /\ WF_vars(LaunchFailed) /\ WF_vars(DeliverTerminal)
  /\ WF_vars(CancelConfirmed) /\ WF_vars(CancelRejected)
  /\ WF_vars(StartCommand) /\ WF_vars(CancelCommand)
  /\ \A j \in Jobs : WF_vars(Waiter(j))
  /\ \A j \in Jobs : WF_vars(EngineFail(j) /\ ~readOk[j])

Spec     == Init /\ [][Next]_vars
FairSpec == Spec /\ Fairness
-----------------------------------------------------------------------------
(* Properties. *)

(* A run shown as completed, failed or cancelled has no engine process left *)
(* that could still write: the reason the hook may offer "start" again.     *)
(* Only a child the platform refused to kill while quitting escapes.        *)
SettledRunStopped ==
  runStatus \in Settled =>
    /\ starts > 0
    /\ child[starts] = "alive" => shuttingDown /\ starts \in refused

(* COMPLETED is shown only for the job the user launched last, and only if  *)
(* that engine exited successfully with its output in place and the waiter  *)
(* revalidated it: no stale, buffered or racing event can fake it.          *)
CompletedIsValidated ==
  runStatus = "COMPLETED" =>
    /\ jobId = starts
    /\ verdict[starts] = "complete"
    /\ child[starts] = "ok" /\ published[starts] /\ readOk[starts]

(* Two engines never run at once, whatever the order of launches,           *)
(* cancellations, late events and quits: each uses the whole machine.       *)
AtMostOneEngine ==
  \A i, j \in Jobs : child[i] = "alive" /\ child[j] = "alive" => i = j

(* A private request file always has someone who will delete it: the start  *)
(* command before registration, the registry entry after.                   *)
RequestFileOwned ==
  \A j \in reqFile : \/ j \in registered
                     \/ j = starts /\ startCall = "spawned"

(* After a terminate_all without failures the only live engine or request   *)
(* file is the one of a start command that has not reached its second       *)
(* shutdown test (or a child the platform refused to kill).                 *)
QuitLeavesNothing ==
  exitCall = "done" =>
    \A j \in Jobs : child[j] = "alive" \/ j \in reqFile =>
      \/ j = starts /\ startCall = "spawned"
      \/ j \in refused

(* An outcome, once shown, changes only by clearing the project or by a new *)
(* launch: no late event or late command reply overwrites it.               *)
SettledIsFinal ==
  [][(runStatus \in Settled /\ runStatus' # runStatus) =>
       (runStatus' = "IDLE" \/ starts' = starts + 1)]_vars

(* The engine is gone but the view still shows a busy run: the outcome must *)
(* reach the view, unless the application quits.  Stated for the first run  *)
(* of a session; FirstOutcomePreserved shows what a second one may lose.    *)
EndedRunSettles ==
  (starts = 1 /\ runStatus \in Busy /\ child[1] \in Dead)
    ~> (runStatus \notin Busy \/ shuttingDown)

(* A cancellation is answered, even while the waiter holds the child's      *)
(* mutex, unless the application quits.                                     *)
CancelAnswered == cancelling ~> (~cancelling \/ shuttingDown)

(* The comment on replayPendingRunEvents: the first terminal event of a run *)
(* is preserved across pending commands.  Once the waiter of the current    *)
(* job is done and nothing is in transit, the view shows an outcome.        *)
FirstOutcomePreserved ==
  (/\ jobId # NoJob /\ waiter[jobId] = "done"
   /\ \A k \in 1..Len(events) : events[k].job # jobId
   /\ ~launching /\ ~cancelling)
  => runStatus \in Settled
=============================================================================
