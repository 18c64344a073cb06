---------------------------- MODULE SolverAttempt ----------------------------
(***************************************************************************)
(* One call of a plate-solver adapter (solvers/astap.py and                *)
(* solvers/astrometry_net.py, solve) on POSIX: the input is copied to a    *)
(* private stage, an external solver is run on the copy by                 *)
(* SolverProcessRuntime.run (solvers/process.py) once or, for solve-field, *)
(* up to MaxAttempts times, and a copy with the verified WCS is published. *)
(*                                                                         *)
(* Concurrent with the adapter: the solver, a helper process it leaves in  *)
(* its process group, the thread that drains its pipe, edits of the source *)
(* file, and a SIGKILL of the engine.  A misbehaving solver may write to   *)
(* its staged input or leave a helper behind that does.                    *)
(***************************************************************************)
EXTENDS Naturals

CONSTANTS
  MaxAttempts,  \* attempts of the solve plan (1 for ASTAP)
  MaxEdits,     \* bound: edits of the source file
  PipeCap,      \* chunks the pipe holds
  TailCap,      \* chunks of log the capture keeps (_LOG_TAIL_BYTES)
  MaxLog        \* bound: chunks of log one attempt writes

ASSUME SolverAssumption ==
  /\ MaxAttempts \in Nat \ {0} /\ MaxEdits \in Nat
  /\ PipeCap \in Nat \ {0} /\ TailCap \in Nat \ {0} /\ MaxLog \in Nat

VARIABLES
  pc,         \* where the adapter stands
  source,     \* edits made to the source file so far
  captured,   \* the edit number in source_identity
  staged,     \* the staged input: as copied, or written to since
  attempt,    \* the number of the attempt
  child,      \* the solver; exited: not reaped yet; stuck: it ignores SIGKILL
  helper,     \* a process the solver started in its own group
  exitOk,     \* exit_code = 0
  confirmed,  \* this attempt's solved marker is written
  timedOut,   \* ProcessOutcome.timed_out
  spawnErr,   \* ProcessOutcome.spawn_error is set
  capture,    \* the thread in BoundedLogCapture.consume
  pipe,       \* chunks waiting in the pipe
  log,        \* chunks the attempt has written
  tail,       \* chunks the capture keeps
  output,     \* output_path: which staged input it was copied from
  kept,       \* an OS error left the output of a failed call in place
  result      \* what solve returned

vars == <<pc, source, captured, staged, attempt, child, helper, exitOk,
          confirmed, timedOut, spawnErr, capture, pipe, log, tail, output, kept, result>>
files   == <<source, captured, staged, output, kept>>
procs   == <<child, helper>>
outcome == <<exitOk, confirmed, timedOut, spawnErr>>
logs    == <<capture, pipe, log, tail>>

TypeOK ==
  /\ pc \in {"stage", "spawn", "wait", "reap", "close", "join", "identity",
             "check", "verify", "publish", "commit", "cleanup", "end", "killed"}
  /\ source \in 0..MaxEdits /\ captured \in 0..MaxEdits
  /\ staged \in {"none", "input", "modified"}
  /\ attempt \in 0..MaxAttempts
  /\ child \in {"none", "alive", "exited", "stuck", "reaped"}
  /\ helper \in {"none", "alive", "gone"}
  /\ exitOk \in BOOLEAN /\ confirmed \in BOOLEAN
  /\ timedOut \in BOOLEAN /\ spawnErr \in BOOLEAN
  /\ capture \in {"none", "reading", "eof", "closed"}
  /\ pipe \in 0..PipeCap /\ log \in 0..MaxLog /\ tail \in 0..TailCap
  /\ output \in {"absent", "input", "modified"} /\ kept \in BOOLEAN
  /\ result \in {"none", "solved", "failure"}

Init ==
  /\ pc = "stage" /\ source = 0 /\ captured = 0 /\ staged = "none"
  /\ attempt = 0 /\ child = "none" /\ helper = "none"
  /\ exitOk = FALSE /\ confirmed = FALSE /\ timedOut = FALSE /\ spawnErr = FALSE
  /\ capture = "none" /\ pipe = 0 /\ log = 0 /\ tail = 0
  /\ output = "absent" /\ kept = FALSE /\ result = "none"

-----------------------------------------------------------------------------
(* The solver, its helper, and the world around. *)

Writers == child = "alive" \/ helper = "alive"

EditSource ==
  /\ source < MaxEdits /\ result = "none"
  /\ source' = source + 1
  /\ UNCHANGED <<pc, captured, staged, attempt, procs, outcome, logs, output, kept, result>>

ModifyStaged ==
  /\ Writers /\ staged' = "modified"
  /\ UNCHANGED <<pc, source, captured, attempt, procs, outcome, logs, output, kept, result>>

(* PLTSOLVD=T in the .ini, or the binary .solved marker. *)
WriteMarker ==
  /\ Writers /\ confirmed' = TRUE
  /\ UNCHANGED <<pc, files, attempt, procs, exitOk, timedOut, spawnErr, logs, result>>

(* A full pipe blocks the writer. *)
WriteLog ==
  /\ Writers /\ capture = "reading" /\ pipe < PipeCap /\ log < MaxLog
  /\ pipe' = pipe + 1 /\ log' = log + 1
  /\ UNCHANGED <<pc, files, attempt, procs, outcome, capture, tail, result>>

StartHelper ==
  /\ child = "alive" /\ helper # "alive"
  /\ helper' = "alive"
  /\ UNCHANGED <<pc, files, attempt, child, outcome, logs, result>>

HelperExits ==
  /\ helper = "alive" /\ helper' = "gone"
  /\ UNCHANGED <<pc, files, attempt, child, outcome, logs, result>>

ChildExits ==
  /\ child = "alive" /\ child' = "exited"
  /\ exitOk' \in BOOLEAN
  /\ UNCHANGED <<pc, files, attempt, helper, confirmed, timedOut, spawnErr, logs, result>>

(* A killed child leaves its uninterruptible wait. *)
StuckDies ==
  /\ child = "stuck" /\ child' = "exited"
  /\ UNCHANGED <<pc, files, attempt, helper, outcome, logs, result>>

(* SIGKILL of the engine's process group.  The solver was started in a     *)
(* session of its own, so the signal does not reach it.                    *)
EngineKilled ==
  /\ result = "none" /\ pc # "killed"
  /\ pc' = "killed"
  /\ capture' = IF capture = "reading" THEN "closed" ELSE capture
  /\ UNCHANGED <<files, attempt, procs, outcome, pipe, log, tail, result>>

-----------------------------------------------------------------------------
(* BoundedLogCapture.consume. *)

Lesser(a, b) == IF a < b THEN a ELSE b

(* Every chunk is taken from the pipe; only the tail is kept. *)
Consume ==
  /\ capture = "reading" /\ pipe > 0
  /\ pipe' = pipe - 1
  /\ tail' = Lesser(tail + 1, TailCap)
  /\ UNCHANGED <<pc, files, attempt, procs, outcome, capture, log, result>>

(* The read returns nothing once every writer is gone. *)
ConsumeEnds ==
  /\ capture = "reading" /\ pipe = 0 /\ child # "stuck" /\ ~Writers
  /\ capture' = "eof"
  /\ UNCHANGED <<pc, files, attempt, procs, outcome, pipe, log, tail, result>>

-----------------------------------------------------------------------------
(* SolverProcessRuntime.run. *)

Goto(from, to) == pc = from /\ pc' = to

Spawn ==
  /\ Goto("spawn", "wait")
  /\ attempt' = attempt + 1
  /\ child' = "alive"
  /\ exitOk' = FALSE /\ confirmed' = FALSE /\ timedOut' = FALSE /\ spawnErr' = FALSE
  /\ capture' = "reading" /\ pipe' = 0 /\ log' = 0 /\ tail' = 0
  /\ UNCHANGED <<files, helper, result>>

(* Popen raises OSError: no process, nothing to close. *)
SpawnFails ==
  /\ Goto("spawn", "identity")
  /\ attempt' = attempt + 1
  /\ exitOk' = FALSE /\ confirmed' = FALSE /\ timedOut' = FALSE /\ spawnErr' = TRUE
  /\ UNCHANGED <<files, procs, logs, result>>

WaitReturns ==
  /\ Goto("wait", "close")
  /\ child = "exited" /\ child' = "reaped"
  /\ UNCHANGED <<files, attempt, helper, outcome, logs, result>>

(* Mutant: the wait has no time limit. *)
WaitForever == FALSE

(* The time limit passes: kill_process_tree reaps a child that has exited  *)
(* meanwhile, or kills its group.                                          *)
WaitTimesOut ==
  /\ Goto("wait", "reap")
  /\ timedOut' = TRUE
  /\ IF child = "exited"
       THEN child' = "reaped" /\ UNCHANGED <<helper, exitOk>>
       ELSE /\ child' \in {"exited", "stuck"} /\ exitOk' = FALSE
            /\ helper' = IF helper = "alive" THEN "gone" ELSE helper
  /\ UNCHANGED <<files, attempt, confirmed, spawnErr, logs, result>>

Reap ==
  /\ Goto("reap", "close")
  /\ child \in {"exited", "reaped"} /\ child' = "reaped"
  /\ UNCHANGED <<files, attempt, helper, outcome, logs, result>>

(* Both bounded waits for the killed child pass: recorded as spawn_error. *)
ReapTimesOut ==
  /\ Goto("reap", "close")
  /\ child = "stuck" /\ spawnErr' = TRUE
  /\ UNCHANGED <<files, attempt, procs, exitOk, confirmed, timedOut, logs, result>>

(* Mutant: the process group is not closed after the solver has exited. *)
CloseNothing ==
  /\ Goto("close", "join")
  /\ UNCHANGED <<files, attempt, procs, outcome, logs, result>>

(* kill_lingering_posix_group, in the finally clause. *)
CloseGroup ==
  /\ Goto("close", "join")
  /\ helper' = IF helper = "alive" THEN "gone" ELSE helper
  /\ UNCHANGED <<files, attempt, child, outcome, logs, result>>

Join ==
  /\ Goto("join", "identity")
  /\ capture = "eof"
  /\ UNCHANGED <<files, attempt, procs, outcome, logs, result>>

(* A capture that does not end in time has its stream closed under it,     *)
(* which may be recorded as an error.                                      *)
JoinTimesOut ==
  /\ Goto("join", "identity")
  /\ capture = "reading" /\ capture' = "closed"
  /\ spawnErr' \in {spawnErr, TRUE}
  /\ UNCHANGED <<files, attempt, procs, exitOk, confirmed, timedOut, pipe, log, tail, result>>

(* The executable is hashed again; EXECUTABLE_DRIFT ends the call (Fail). *)
Identity ==
  /\ Goto("identity", "check")
  /\ UNCHANGED <<files, attempt, procs, outcome, logs, result>>

-----------------------------------------------------------------------------
(* solve. *)

(* copy_source_to_stage: the copy and the identity belong together. *)
Stage ==
  /\ Goto("stage", "spawn")
  /\ captured' = source /\ staged' = "input"
  /\ UNCHANGED <<source, attempt, procs, outcome, logs, output, kept, result>>

Drift == source # captured \/ staged # "input"

(* Mutant: an attempt whose process could not be reaped is retried. *)
CheckRetriesAll ==
  /\ pc = "check"
  /\ LET confirmedExit == exitOk /\ confirmed /\ ~timedOut /\ ~spawnErr IN
     IF Drift \/ (~confirmedExit /\ attempt = MaxAttempts)
       THEN pc' = "end" /\ result' = "failure"
       ELSE pc' = (IF confirmedExit THEN "verify" ELSE "spawn") /\ UNCHANGED result
  /\ UNCHANGED <<files, attempt, procs, outcome, logs>>

(* Mutant: a timed out attempt that left a marker is accepted. *)
CheckMarkerOnly ==
  /\ pc = "check"
  /\ LET confirmedExit == confirmed IN
     IF Drift \/ spawnErr \/ (~confirmedExit /\ attempt = MaxAttempts)
       THEN pc' = "end" /\ result' = "failure"
       ELSE pc' = (IF confirmedExit THEN "verify" ELSE "spawn") /\ UNCHANGED result
  /\ UNCHANGED <<files, attempt, procs, outcome, logs>>

(* Drift of source or staged input and a spawn error end the call; without *)
(* a confirmed exit the next attempt of the plan is made.                  *)
Check ==
  /\ pc = "check"
  /\ LET confirmedExit == exitOk /\ confirmed /\ ~timedOut IN
     IF Drift \/ spawnErr \/ (~confirmedExit /\ attempt = MaxAttempts)
       THEN pc' = "end" /\ result' = "failure"
       ELSE pc' = (IF confirmedExit THEN "verify" ELSE "spawn") /\ UNCHANGED result
  /\ UNCHANGED <<files, attempt, procs, outcome, logs>>

(* WCS validity, agreement of .wcs and .new, catalog correspondences and   *)
(* the installed set; a failed gate ends the call (Fail).                  *)
Verify ==
  /\ Goto("verify", "publish")
  /\ UNCHANGED <<files, attempt, procs, outcome, logs, result>>

(* publish_solved_copy: a temporary copy of the staged input is linked.    *)
Publish ==
  /\ Goto("publish", "commit")
  /\ output' = staged
  /\ UNCHANGED <<source, captured, staged, kept, attempt, procs, outcome, logs, result>>

Commit ==
  /\ Goto("commit", "cleanup")
  /\ UNCHANGED <<files, attempt, procs, outcome, logs, result>>

(* Mutant: a failed sync leaves the linked output in place. *)
CommitFailsKeeping ==
  /\ Goto("commit", "end")
  /\ result' = "failure"
  /\ UNCHANGED <<files, attempt, procs, outcome, logs>>

(* The published identity differs or the directory cannot be synced: the   *)
(* link is removed again; an error of the removal is passed over.          *)
CommitFails ==
  /\ Goto("commit", "end")
  /\ kept' \in BOOLEAN
  /\ output' = IF kept' THEN output ELSE "absent"
  /\ result' = "failure"
  /\ UNCHANGED <<source, captured, staged, attempt, procs, outcome, logs>>

(* Leaving the with block removes the stage. *)
Cleanup ==
  /\ Goto("cleanup", "end")
  /\ result' = "solved"
  /\ UNCHANGED <<files, attempt, procs, outcome, logs>>

(* The stage cannot be removed: the exception turns the solved call into a *)
(* failure after its output was published.                                 *)
CleanupFails ==
  /\ Goto("cleanup", "end")
  /\ kept' = TRUE /\ result' = "failure"
  /\ UNCHANGED <<source, captured, staged, output, attempt, procs, outcome, logs>>

(* Any step of the adapter that raises before the link returns a failure. *)
Fail ==
  /\ pc \in {"stage", "spawn", "identity", "check", "verify", "publish"} /\ pc' = "end"
  /\ result' = "failure"
  /\ UNCHANGED <<files, attempt, procs, outcome, logs>>

Done == pc \in {"end", "killed"} /\ UNCHANGED vars

Adapter ==
  \/ Stage \/ Spawn \/ SpawnFails \/ WaitReturns \/ WaitTimesOut \/ Reap
  \/ ReapTimesOut \/ CloseGroup \/ Join \/ JoinTimesOut \/ Identity \/ Check
  \/ Verify \/ Publish \/ Commit \/ CommitFails \/ Cleanup \/ CleanupFails
  \/ Fail

World ==
  \/ EditSource \/ ModifyStaged \/ WriteMarker \/ WriteLog \/ StartHelper
  \/ HelperExits \/ ChildExits \/ StuckDies \/ EngineKilled
  \/ Consume \/ ConsumeEnds

Next == Adapter \/ World \/ Done

Spec == Init /\ [][Next]_vars

(* Only the adapter's own thread is owed progress: its waits are bounded,  *)
(* so nothing is asked of the solver, the helper or the capture.           *)
FairSpec == Spec /\ WF_vars(Adapter)

-----------------------------------------------------------------------------
(* Properties. *)

(* What is published holds the pixels that were staged from the source:    *)
(* "A solver is not allowed to leave helpers running that can mutate       *)
(* staged evidence after the parent has reported success."  The staged     *)
(* input is compared before it is read again for publication, so a helper  *)
(* that outlives the solver must be gone by then.                          *)
PublishedIsInput == output # "absent" => output = "input"

(* SOLVED is returned only for an attempt that exited by itself with code  *)
(* 0 in time and wrote its own marker, with the output in place, and with  *)
(* no process of it left.                                                  *)
SolvedIsSound ==
  result = "solved" =>
    /\ output = "input"
    /\ exitOk /\ confirmed /\ ~timedOut /\ ~spawnErr
    /\ child = "reaped" /\ helper # "alive"

(* A returned failure left no output behind for the next backend of the    *)
(* chain to trip over (unless the system refused a removal), and nothing   *)
(* of it still runs on the staged input.                                   *)
FailureLeavesNothing ==
  result = "failure" => (output = "absent" \/ kept) /\ ~Writers

(* Two attempts never run at once on the staged input, even when a killed  *)
(* solver cannot be reaped.                                                *)
AttemptsDoNotOverlap ==
  [][attempt' # attempt => child \in {"none", "reaped"} /\ helper # "alive"]_vars

(* Whatever the solver does, the call returns, unless the engine is        *)
(* killed.                                                                 *)
CallReturns == <>(result # "none" \/ pc = "killed")

(* Cancellation, by the comment in terminate_process_tree: "Force the      *)
(* verified private group in one step so a parent cannot exit after        *)
(* SIGTERM while a helper remains alive".                                  *)
CancelLeavesNoHelper == pc = "killed" => ~Writers
=============================================================================
