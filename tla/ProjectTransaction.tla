------------------------- MODULE ProjectTransaction -------------------------
(***************************************************************************)
(* run_project_e2e (workflows/project.py): one project, one outer          *)
(* transaction.  Everything is built in a private staging directory next   *)
(* to the requested one and is renamed once, without replacing anything,   *)
(* to OUTPUT (success) or to OUTPUT.unsolved (evidence of a failure).      *)
(*                                                                         *)
(* The targets of a mosaic are generators: each pauses once its reference  *)
(* stars are measured, all are placed together, then they resume.  A       *)
(* target is modelled by its contract (TargetContract): where it stands    *)
(* and which of its trees, inside the staging directory, exists.           *)
(*                                                                         *)
(* Around the run: sources are edited, a directory appears at OUTPUT or    *)
(* OUTPUT.unsolved, the process is killed, removing a tree or syncing a    *)
(* directory fails.                                                        *)
(***************************************************************************)
EXTENDS Naturals, Sequences

CONSTANTS
  N,         \* targets of the project; more than one make a mosaic
  MaxEdits   \* bound: edits of the sources while the run is going on

ASSUME ProjectAssumption == N \in Nat \ {0} /\ MaxEdits \in Nat

Targets == 1..N
IsMosaic == N > 1

VARIABLES
  pc,        \* where run_project_e2e stands
  src,       \* edits made to the sources so far
  captured,  \* the edit number in the captured identities
  reads,     \* edit numbers of what was read
  staging,   \* the private project directory
  output,    \* the requested directory
  evidence,  \* its .unsolved sibling
  sub,       \* sub[t]: where the run of target t stands
  tree,      \* tree[t]: what that run has inside the staging directory
  next,      \* the next target to start
  paused,    \* the paused runs, in the order they paused
  stuck,     \* close_paused met a run that failed to close
  error,     \* the class of the exception being handled
  code,      \* the code the failure receipt carries
  named,     \* the directory the result names
  result,    \* what the caller got
  unsynced   \* history: syncing the parent of a committed directory failed

vars == <<pc, src, captured, reads, staging, output, evidence, sub, tree,
          next, paused, stuck, error, code, named, result, unsynced>>
world   == <<src, captured, reads>>
dirs    == <<staging, output, evidence>>
subruns == <<sub, tree, next, paused, stuck>>
ending  == <<error, code, named, result, unsynced>>

(* The body of the try statement ... *)
Body == {"prepare", "canvas", "targets", "resume", "assemble", "align",
         "color", "verify", "publish", "sync", "drain", "stageVerify",
         "stageEvidence", "stageSync"}
(* ... and its handlers; closing is the one inside _run_target_panels. *)
Handlers == {"closing", "handler", "evidence", "evidenceSync"}

TypeOK ==
  /\ pc \in Body \cup Handlers \cup {"check", "end"}
  /\ src \in 0..MaxEdits /\ captured \in 0..MaxEdits
  /\ reads \subseteq 0..MaxEdits
  /\ staging \in {"absent", "private"}
  /\ output \in {"absent", "foreign", "solved"}
  /\ evidence \in {"absent", "foreign", "unsolved"}
  /\ sub \in [Targets -> {"idle", "running", "paused", "solved", "unsolved",
                          "raised", "closed"}]
  /\ tree \in [Targets -> {"none", "staging", "leftover", "product", "evidence"}]
  /\ next \in 1..(N + 1)
  /\ paused \in Seq(Targets)
  /\ stuck \in BOOLEAN
  /\ error \in {"none", "known", "other"}
  /\ code \in {"none", "STAGE", "ERROR", "SOURCE_CHANGED"}
  /\ named \in {"none", "output", "evidence", "staging"}
  /\ result \in {"none", "success", "failed", "raised", "killed"}
  /\ unsynced \in BOOLEAN

Init ==
  /\ pc = "check" /\ src = 0 /\ captured = 0 /\ reads = {}
  /\ staging = "absent" /\ output = "absent" /\ evidence = "absent"
  /\ sub = [t \in Targets |-> "idle"] /\ tree = [t \in Targets |-> "none"]
  /\ next = 1 /\ paused = <<>> /\ stuck = FALSE
  /\ error = "none" /\ code = "none" /\ named = "none" /\ result = "none"
  /\ unsynced = FALSE

-----------------------------------------------------------------------------
(* Around the run. *)

EditSource ==
  /\ src < MaxEdits /\ result = "none"
  /\ src' = src + 1
  /\ UNCHANGED <<pc, captured, reads, dirs, subruns, ending>>

ForeignDirectory ==
  /\ result = "none"
  /\ \/ output = "absent" /\ output' = "foreign" /\ UNCHANGED evidence
     \/ evidence = "absent" /\ evidence' = "foreign" /\ UNCHANGED output
  /\ UNCHANGED <<pc, world, staging, subruns, ending>>

(* SIGKILL (a cancellation of the desktop) or a crash: no handler runs. *)
Kill ==
  /\ result = "none"
  /\ pc' = "end" /\ result' = "killed"
  /\ UNCHANGED <<world, dirs, subruns, error, code, named, unsynced>>

-----------------------------------------------------------------------------
(* Before the targets. *)

Goto(from, to) == pc = from /\ pc' = to

ReadSources == reads' = reads \cup {src}

(* _check_project_request refuses before anything is created. *)
Refuse ==
  /\ Goto("check", "end")
  /\ result' = "raised"
  /\ UNCHANGED <<world, dirs, subruns, error, code, named, unsynced>>

(* The request is admitted, the sources are captured, staging is made.     *)
(* What follows before the try block (making details, the self-test) can   *)
(* raise and then leaves the private tree behind.                          *)
Check ==
  /\ pc = "check"
  /\ output = "absent" /\ evidence = "absent"
  /\ captured' = src /\ staging' = "private"
  /\ \/ pc' = "prepare" /\ UNCHANGED result
     \/ pc' = "end" /\ result' = "raised"
  /\ UNCHANGED <<src, reads, output, evidence, subruns, error, code, named, unsynced>>

PrepareCalibration ==
  /\ pc = "prepare" /\ pc' = IF IsMosaic THEN "canvas" ELSE "targets"
  /\ ReadSources
  /\ UNCHANGED <<src, captured, dirs, subruns, ending>>

(* _plan_canvas_stage; a MosaicStageError ends in evidence. *)
PlanCanvas ==
  /\ pc = "canvas" /\ pc' \in {"targets", "stageVerify"}
  /\ ReadSources
  /\ UNCHANGED <<src, captured, dirs, subruns, ending>>

-----------------------------------------------------------------------------
(* _run_target_panels. *)

NoneRunning == \A t \in Targets : sub[t] # "running"

(* _start_target_run and the first next() of the generator. *)
StartTarget ==
  /\ pc = "targets" /\ next \in Targets /\ NoneRunning
  /\ sub' = [sub EXCEPT ![next] = "running"]
  /\ tree' = [tree EXCEPT ![next] = "staging"]
  /\ next' = next + 1
  /\ UNCHANGED <<pc, world, dirs, paused, stuck, ending>>

(* The run yields its stars; only a mosaic panel not yet placed does. *)
TargetPauses(t) ==
  /\ pc = "targets" /\ IsMosaic
  /\ sub[t] = "running" /\ tree[t] = "staging"
  /\ sub' = [sub EXCEPT ![t] = "paused"]
  /\ paused' = Append(paused, t)
  /\ ReadSources
  /\ UNCHANGED <<pc, src, captured, dirs, tree, next, stuck, ending>>

(* The run renames its own staging; an unplaced panel has no product. *)
TargetPublishes(t) ==
  /\ pc \in {"targets", "resume"}
  /\ sub[t] = "running" /\ tree[t] = "staging"
  /\ \E kind \in {"product", "evidence"} :
       /\ (pc = "targets" /\ IsMosaic) => kind = "evidence"
       /\ tree' = [tree EXCEPT ![t] = kind]
  /\ ReadSources
  /\ UNCHANGED <<pc, src, captured, dirs, sub, next, paused, stuck, ending>>

(* finish(): a solved target is recorded, an unsolved one fails the        *)
(* project.                                                                *)
TargetReturns(t) ==
  /\ pc \in {"targets", "resume"}
  /\ sub[t] = "running" /\ tree[t] \in {"product", "evidence"}
  /\ IF tree[t] = "product"
       THEN sub' = [sub EXCEPT ![t] = "solved"] /\ pc' = pc
       ELSE sub' = [sub EXCEPT ![t] = "unsolved"] /\ pc' = "drain"
  /\ UNCHANGED <<world, dirs, tree, next, paused, stuck, ending>>

(* What is left of a run's staging when it ends without publishing. *)
Remains(t) ==
  IF tree[t] = "staging" THEN {"none", "leftover"} ELSE {tree[t]}

(* The run raises; the handler around the targets takes over. *)
TargetRaises(t) ==
  /\ pc \in {"targets", "resume"} /\ pc' = "closing"
  /\ sub[t] = "running"
  /\ sub' = [sub EXCEPT ![t] = "raised"]
  /\ \E left \in Remains(t) : tree' = [tree EXCEPT ![t] = left]
  /\ error' \in {"known", "other"}
  /\ UNCHANGED <<world, dirs, next, paused, stuck, code, named, result, unsynced>>

(* The next run is refused before it creates anything. *)
TargetRefused ==
  /\ pc = "targets" /\ pc' = "closing"
  /\ next \in Targets /\ NoneRunning
  /\ sub' = [sub EXCEPT ![next] = "raised"]
  /\ next' = next + 1
  /\ error' \in {"known", "other"}
  /\ UNCHANGED <<world, dirs, tree, paused, stuck, code, named, result, unsynced>>

(* Every target was started: a mosaic solves all placements together. *)
Place ==
  /\ pc = "targets" /\ next = N + 1 /\ NoneRunning
  /\ pc' = IF paused # <<>> THEN "resume" ELSE "assemble"
  /\ UNCHANGED <<world, dirs, subruns, ending>>

(* Mutant: a resumed run stays in the list of paused ones. *)
ResumeKeepsQueue ==
  /\ pc = "resume" /\ paused # <<>> /\ NoneRunning
  /\ sub' = [sub EXCEPT ![Head(paused)] = "running"]
  /\ UNCHANGED <<pc, world, dirs, tree, next, paused, stuck, ending>>

(* Mutant: the run is put back instead of being resumed. *)
ResumeRotates ==
  /\ pc = "resume" /\ paused # <<>> /\ NoneRunning
  /\ paused' = Append(Tail(paused), Head(paused))
  /\ UNCHANGED <<pc, world, dirs, sub, tree, next, stuck, ending>>

(* stages.send(placement): the runs resume in the order they paused. *)
ResumeTarget ==
  /\ pc = "resume" /\ paused # <<>> /\ NoneRunning
  /\ sub' = [sub EXCEPT ![Head(paused)] = "running"]
  /\ paused' = Tail(paused)
  /\ UNCHANGED <<pc, world, dirs, tree, next, stuck, ending>>

TargetsDone ==
  /\ Goto("resume", "assemble")
  /\ paused = <<>> /\ NoneRunning
  /\ UNCHANGED <<world, dirs, subruns, ending>>

(* close_paused(): the run paused last is closed first; a failure does not *)
(* keep the others open.                                                   *)
ClosePaused ==
  /\ pc \in {"drain", "closing"} /\ paused # <<>>
  /\ LET t == paused[Len(paused)] IN
       /\ sub' = [sub EXCEPT ![t] = "closed"]
       /\ \E left \in Remains(t) :
            /\ tree' = [tree EXCEPT ![t] = left]
            /\ stuck' = (stuck \/ left = "leftover")
       /\ paused' = SubSeq(paused, 1, Len(paused) - 1)
  /\ UNCHANGED <<pc, world, dirs, next, ending>>

(* Mutant: the failure of one target is published before the paused runs   *)
(* are closed.                                                             *)
DrainedAnyway ==
  /\ Goto("drain", "stageVerify")
  /\ UNCHANGED <<world, dirs, subruns, ending>>

(* The paused runs are closed; a failed close is raised instead. *)
Drained ==
  /\ pc = "drain" /\ paused = <<>>
  /\ pc' = IF stuck THEN "closing" ELSE "stageVerify"
  /\ error' = IF stuck THEN "known" ELSE error
  /\ UNCHANGED <<world, dirs, subruns, code, named, result, unsynced>>

(* The exception leaves _run_target_panels; failed closes are suppressed. *)
Closed ==
  /\ Goto("closing", "handler")
  /\ paused = <<>>
  /\ UNCHANGED <<world, dirs, subruns, ending>>

-----------------------------------------------------------------------------
(* Mosaics, alignment, previews and colour. *)

(* _canvas_mosaic_stage, where a gate ends in evidence, or the one panel. *)
Assemble ==
  /\ pc = "assemble"
  /\ pc' \in (IF IsMosaic THEN {"align", "stageVerify"} ELSE {"align"})
  /\ UNCHANGED <<world, dirs, subruns, ending>>

Align ==
  /\ Goto("align", "color")
  /\ UNCHANGED <<world, dirs, subruns, ending>>

RenderColor ==
  /\ Goto("color", "verify")
  /\ UNCHANGED <<world, dirs, subruns, ending>>

-----------------------------------------------------------------------------
(* Commit. *)

SourcesUnchanged == src = captured

(* Mutant: the sources are not rehashed at the commit. *)
VerifyNothing ==
  /\ Goto("verify", "publish")
  /\ UNCHANGED <<world, dirs, subruns, ending>>

(* _verify_and_publish up to the receipt; drift raises (Raise). *)
Verify ==
  /\ Goto("verify", "publish")
  /\ SourcesUnchanged
  /\ UNCHANGED <<world, dirs, subruns, ending>>

(* The create-only rename: from here on the success is committed. *)
Publish ==
  /\ Goto("publish", "sync")
  /\ output = "absent"
  /\ output' = "solved" /\ staging' = "absent"
  /\ UNCHANGED <<world, evidence, subruns, ending>>

Sync ==
  /\ Goto("sync", "end")
  /\ result' = "success" /\ named' = "output"
  /\ UNCHANGED <<world, dirs, subruns, error, code, unsynced>>

(* fsync of the parent raises after the rename of either directory. *)
SyncFails ==
  /\ pc \in {"sync", "stageSync"} /\ pc' = "handler"
  /\ unsynced' = TRUE /\ error' = "known"
  /\ UNCHANGED <<world, dirs, subruns, code, named, result>>

(* A stage that failed by its own verdict publishes evidence from inside   *)
(* the try block, once the sources are verified.                           *)
StageVerify ==
  /\ Goto("stageVerify", "stageEvidence")
  /\ SourcesUnchanged
  /\ code' = "STAGE"
  /\ UNCHANGED <<world, dirs, subruns, error, named, result, unsynced>>

StageEvidence ==
  /\ Goto("stageEvidence", "stageSync")
  /\ evidence = "absent"
  /\ evidence' = "unsolved" /\ staging' = "absent"
  /\ UNCHANGED <<world, output, subruns, ending>>

StageSync ==
  /\ Goto("stageSync", "end")
  /\ result' = "failed" /\ named' = "evidence"
  /\ UNCHANGED <<world, dirs, subruns, error, code, unsynced>>

(* Any other statement of the body raises: between two targets, and in     *)
(* finish(), the paused runs are closed on the way out.                    *)
Raise ==
  /\ pc \in Body \ {"sync", "stageSync"} /\ NoneRunning
  /\ pc' = IF pc \in {"targets", "resume", "drain"} THEN "closing" ELSE "handler"
  /\ error' \in {"known", "other"}
  /\ UNCHANGED <<world, dirs, subruns, code, named, result, unsynced>>

(* Mutant: the handler publishes evidence whether or not staging exists. *)
HandleAlways ==
  /\ Goto("handler", "evidence")
  /\ code' = IF SourcesUnchanged THEN "ERROR" ELSE "SOURCE_CHANGED"
  /\ UNCHANGED <<world, dirs, subruns, error, named, result, unsynced>>

(* Both except clauses: nothing private left means re-raise, and so does a *)
(* diagnostic of an unexpected error that cannot be written; otherwise a   *)
(* source that changed replaces the code.                                  *)
Handle ==
  /\ pc = "handler"
  /\ \/ /\ staging = "absent" \/ error = "other"
        /\ pc' = "end" /\ result' = "raised" /\ UNCHANGED code
     \/ /\ staging # "absent"
        /\ pc' = "evidence" /\ UNCHANGED result
        /\ code' = IF SourcesUnchanged THEN "ERROR" ELSE "SOURCE_CHANGED"
  /\ UNCHANGED <<world, dirs, subruns, error, named, unsynced>>

PublishEvidence ==
  /\ Goto("evidence", "evidenceSync")
  /\ evidence = "absent"
  /\ evidence' = "unsolved" /\ staging' = "absent"
  /\ UNCHANGED <<world, output, subruns, ending>>

SyncEvidence ==
  /\ Goto("evidenceSync", "end")
  /\ result' = "failed" /\ named' = "evidence"
  /\ UNCHANGED <<world, dirs, subruns, error, code, unsynced>>

(* _failure_result raises inside a handler.  The clause for known errors   *)
(* lets it out; the clause for unexpected ones reports the private tree.   *)
EvidenceFails ==
  /\ pc \in {"evidence", "evidenceSync"} /\ pc' = "end"
  /\ unsynced' = (unsynced \/ pc = "evidenceSync")
  /\ IF error = "known"
       THEN result' = "raised" /\ UNCHANGED named
       ELSE result' = "failed" /\ named' = "staging"
  /\ UNCHANGED <<world, dirs, subruns, error, code>>

Done == pc = "end" /\ UNCHANGED vars

Step ==
  \/ Refuse \/ Check \/ PrepareCalibration \/ PlanCanvas
  \/ StartTarget \/ TargetRefused
  \/ \E t \in Targets : TargetPauses(t) \/ TargetPublishes(t)
                        \/ TargetReturns(t) \/ TargetRaises(t)
  \/ Place \/ ResumeTarget \/ TargetsDone \/ ClosePaused \/ Drained \/ Closed
  \/ Assemble \/ Align \/ RenderColor
  \/ Verify \/ Publish \/ Sync \/ SyncFails
  \/ StageVerify \/ StageEvidence \/ StageSync
  \/ Raise \/ Handle \/ PublishEvidence \/ SyncEvidence \/ EvidenceFails

Next == Step \/ EditSource \/ ForeignDirectory \/ Kill \/ Done

Spec == Init /\ [][Next]_vars

(* The workflow is one sequential program: a step that can be taken is.    *)
FairSpec == Spec /\ WF_vars(Step)

-----------------------------------------------------------------------------
(* Properties. *)

(* A run never publishes both directories, whatever raises on the way from *)
(* the commit to the handlers.                                             *)
OnePublication == ~(output = "solved" /\ evidence = "unsolved")

(* The success directory appears only complete: every target returned      *)
(* solved with its product, none is paused or open, and everything was     *)
(* read from the sources the receipt names.  Holds at every instant, so    *)
(* also when the process is killed.                                        *)
SuccessComplete ==
  output = "solved" =>
    /\ paused = <<>>
    /\ \A t \in Targets : sub[t] = "solved" /\ tree[t] = "product"
    /\ reads \subseteq {captured}

(* Evidence is published only after every paused panel run was closed: no  *)
(* run is alive in the published tree, and a panel's private staging is in *)
(* it only if its removal failed ("The paused runs' staging must be gone   *)
(* before the evidence is published").                                     *)
EvidenceClean ==
  evidence = "unsolved" =>
    /\ paused = <<>>
    /\ \A t \in Targets : sub[t] \notin {"running", "paused"} /\ tree[t] # "staging"

(* Evidence that does not say SOURCE_CHANGED was built from the captured   *)
(* sources only.                                                           *)
DriftReported ==
  (evidence = "unsolved" /\ code # "SOURCE_CHANGED") => reads \subseteq {captured}

(* The result tells the truth about the disk, unless syncing a committed   *)
(* directory failed: success names a published directory, any failure left *)
(* no success behind, and a reported failure names a directory that        *)
(* exists.                                                                 *)
ReportsOutcome ==
  /\ result = "success" => output = "solved" /\ named = "output"
  /\ (result \in {"failed", "raised"} /\ ~unsynced) => output # "solved"
  /\ (result = "failed" /\ ~unsynced) =>
       \/ named = "evidence" /\ evidence = "unsolved"
       \/ named = "staging" /\ staging = "private"

(* What a directory of evidence promises: quiescent, and of one version of *)
(* the sources unless it says otherwise.                                   *)
EvidenceSound == EvidenceClean /\ DriftReported

(* How a run ends on the disk and in its result.                           *)
EndsHonestly == OnePublication /\ ReportsOutcome

(* A directory that was there is never replaced, although the run tests    *)
(* for it only at its start.                                               *)
NeverReplaces ==
  [][/\ (output # "absent" => output' = output)
     /\ (evidence # "absent" => evidence' = evidence)]_<<output, evidence>>

Contract(t) == INSTANCE TargetContract WITH phase <- sub[t], tree <- tree[t]

(* The project drives every target within the contract its run keeps.      *)
DrivesByContract ==
  [][\A t \in Targets : [Contract(t)!Next]_<<sub[t], tree[t]>>]_<<sub, tree>>

(* A run ends with a result, and unless it was killed every panel run it   *)
(* paused has by then been resumed or closed, on whichever path it ended   *)
(* (close_paused, the handlers of run_project_e2e).                        *)
PausedRunEnds ==
  <>[](/\ result # "none"
       /\ result # "killed" => \A t \in Targets : sub[t] # "paused")

(* "failurePublishesUnsolvedEvidenceOnly": what the receipt of every       *)
(* project promises of a run that does not report success.                 *)
FailurePublishesNoSuccess ==
  result \in {"failed", "raised"} => output # "solved"
=============================================================================
