------------------------------- MODULE Workbench -------------------------------
(***************************************************************************)
(* The desk before a run (useWorkflow.ts): files are imported, their       *)
(* calibration is checked in the background, the Lights are measured and   *)
(* reviewed, and the run is asked for with the proof of its review, which  *)
(* the controller compares with the session it measured                    *)
(* (validate_blink_review).  RunLifecycle goes on from there.              *)
(***************************************************************************)
EXTENDS BlinkReview

CONSTANTS
  MinimumKept,  \* MINIMUM_KEPT_PER_CHANNEL
  MaxImports

ASSUME WorkbenchAssumption == MinimumKept \in Nat /\ MaxImports \in Nat

VARIABLES
  step,      \* the view shown
  lights,    \* the Lights imported
  masters,   \* whether calibration files are
  revision,  \* calibrationRevision
  inventory, \* the import under way
  asked,     \* calibration checks without an answer, by their key
  verdict,   \* calibrationResult
  run        \* the run asked for

deskVars == <<step, lights, masters, revision, inventory, asked, verdict, run>>
vars == <<sessionVars, reviewVars, deskVars>>

NoVerdict == [key |-> <<>>, ready |-> FALSE]
NoRun == [phase |-> "idle"]

WorkbenchInit ==
  /\ SessionInit /\ ReviewInit
  /\ step = "import" /\ lights = {} /\ masters = FALSE /\ revision = 0 /\ inventory = {}
  /\ asked = {} /\ verdict = NoVerdict /\ run = NoRun

(* calibrationCheckKey *)
Key == <<revision, lights, masters>>

MasterFile == 0  \* an imported calibration file

Measuring == measure.phase # "idle"
Importing == inventory # {}
Locked == run.phase \in {"asked", "accepted"}

-----------------------------------------------------------------------------
(* importPaths.  The effect asks for a check as soon as the import is in.  *)
Import ==
  /\ step = "import" /\ ~Importing /\ ~Measuring /\ ~Locked /\ revision < MaxImports
  /\ \E kinds \in (SUBSET (Lights \cup {MasterFile})) \ {{}} : inventory' = kinds
  /\ UNCHANGED <<sessionVars, reviewVars, step, lights, masters, revision, asked, verdict, run>>

(* A Light among the files ends the review of the others. *)
ImportAnswers ==
  /\ Importing /\ inventory' = {}
  /\ lights' = lights \cup (inventory \cap Lights)
  /\ masters' = (masters \/ MasterFile \in inventory)
  /\ revision' = revision + 1 /\ verdict' = NoVerdict
  /\ asked' = IF lights' # {} THEN asked \cup {<<revision', lights', masters'>>} ELSE asked
  /\ IF inventory \cap Lights # {} THEN Clear /\ UNCHANGED faults ELSE UNCHANGED reviewVars
  /\ UNCHANGED <<sessionVars, step, run>>

ImportFails ==
  /\ Importing /\ inventory' = {}
  /\ UNCHANGED <<sessionVars, reviewVars, step, lights, masters, revision, asked, verdict, run>>

(* inspectCalibration answers; only the last check is listened to. *)
CheckAnswers(key) ==
  /\ asked' = asked \ {key}
  /\ IF key = Key /\ ~Importing THEN \E ready \in BOOLEAN : verdict' = [key |-> key, ready |-> ready]
     ELSE UNCHANGED verdict
  /\ UNCHANGED <<sessionVars, reviewVars, step, lights, masters, revision, inventory, run>>

CalibrationReady == ~Importing /\ verdict.key = Key /\ verdict.ready

ClearSources ==
  /\ ~Importing /\ ~Measuring /\ ~Locked
  /\ lights # {}
  /\ lights' = {} /\ masters' = FALSE /\ step' = "import"
  /\ Clear /\ run' = NoRun
  /\ UNCHANGED <<sessionVars, faults, revision, inventory, asked, verdict>>

-----------------------------------------------------------------------------
(* blinkSessionCovers: the Lights measured are the Lights imported, all in *)
(* the manifest, and no two alike.                                         *)
Covers ==
  /\ session.id # 0 /\ lights # {} /\ lights \subseteq Frames
  /\ \A f, g \in Frames : f # g => Digest[f] # Digest[g]

(* runBlink opens a session that still covers the Lights or measures them. *)
OpenReview ==
  /\ step # "blink" /\ ~Importing /\ ~Measuring /\ ~Locked /\ Covers
  /\ step' = "blink" /\ Mount
  /\ UNCHANGED <<sessionVars, lights, masters, revision, inventory, asked, verdict, run>>

Measure ==
  /\ ~Importing /\ ~Locked /\ lights # {} /\ ~Covers
  /\ BeginMeasure(lights)
  /\ UNCHANGED <<reviewVars, deskVars>>

(* The answer of blink_measure: installBlinkSession, or an error message. *)
Measured ==
  /\ measure.phase = "answered"
  /\ measure' = NoMeasure /\ step' = "blink"
  /\ Install(measure.manifest)
  /\ UNCHANGED <<disk, named, others, measures, faults>>
  /\ UNCHANGED <<lights, masters, revision, inventory, asked, verdict, run>>

MeasureFailed ==
  /\ measure.phase = "refused" /\ measure' = NoMeasure
  /\ UNCHANGED <<disk, named, others, measures, reviewVars, deskVars>>

LeaveReview ==
  /\ step = "blink" /\ step' = "import" /\ Unmount
  /\ UNCHANGED <<sessionVars, lights, masters, revision, inventory, asked, verdict, run>>

Review ==
  /\ step = "blink" /\ ReviewStep
  /\ UNCHANGED <<sessionVars, deskVars>>

-----------------------------------------------------------------------------
Kept(c) == {f \in InChannel(c) : decisions[f] = "KEEP"}

(* canStart: no blocker, and the review complete. *)
CanStart ==
  /\ ~Locked /\ ~Importing /\ ~Measuring
  /\ CalibrationReady
  /\ Covers /\ ReviewDone
  /\ \A c \in Channels(session) : Cardinality(Kept(c)) >= MinimumKept

(* startRun: selectionForRun and the proof of the review. *)
StartRun ==
  /\ CanStart
  /\ step' = "run" /\ Unmount
  /\ run' = [phase |-> "asked", session |-> session, lights |-> lights, decisions |-> decisions,
             viewed |-> viewed, confirmed |-> confirmed]
  /\ UNCHANGED <<sessionVars, lights, masters, revision, inventory, asked, verdict>>

(* validate_blink_review: the session is on disk, and all of it was seen,  *)
(* confirmed and decided.                                                  *)
ReviewValid ==
  LET s == run.session
  IN /\ s.id \in disk
     /\ \A f, g \in s.frames : f # g => Digest[f] # Digest[g]
     /\ run.viewed = s.frames /\ DOMAIN run.decisions = s.frames
     /\ run.confirmed = Channels(s)
     /\ run.lights = s.frames
     /\ \A f \in s.broken : run.decisions[f] # "KEEP"

ControllerStarts ==
  /\ run.phase = "asked"
  /\ run' = [run EXCEPT !.phase = IF ReviewValid THEN "accepted" ELSE "refused"]
  /\ UNCHANGED <<sessionVars, reviewVars>>
  /\ UNCHANGED <<step, lights, masters, revision, inventory, asked, verdict>>

InWindow ==
  \/ Import \/ ImportAnswers \/ ImportFails \/ \E key \in asked : CheckAnswers(key)
  \/ ClearSources \/ OpenReview \/ Measure \/ Measured \/ MeasureFailed \/ LeaveReview \/ Review
  \/ StartRun

Elsewhere ==
  \/ SessionStep /\ UNCHANGED <<reviewVars, deskVars>>
  \/ ControllerStarts

WorkbenchNext == InWindow \/ Elsewhere

WorkbenchSpec == WorkbenchInit /\ [][WorkbenchNext]_vars

-----------------------------------------------------------------------------
(* A run that starts processes the Lights imported, with the calibration   *)
(* that was checked, and decides each as it stood when the user confirmed  *)
(* its channel: no undo, range, night, import or new measurement comes in  *)
(* between (invalidateReviewedChannels, blinkSessionCovers).               *)
StartBindsReview ==
  run.phase = "accepted" =>
    /\ run.session.frames = lights /\ verdict.key = Key /\ verdict.ready
    /\ \A c \in Channels(run.session) :
         \A f \in run.session.frames : Channel[f] = c => approved[c][f] = run.decisions[f]

(* What the webview thinks complete the controller thinks complete: it     *)
(* refuses a run only because another window pruned its session.           *)
RefusedOnlyIfGone == run.phase = "refused" => run.session.id \notin disk

(* "An unreadable preview can only leave the review through an explicit    *)
(* drop" (useWorkflow.ts): a Light the run keeps was on the stage.         *)
KeptWasSeen ==
  run.phase = "accepted" =>
    \A f \in run.session.frames : run.decisions[f] = "KEEP" => f \in displayed
=============================================================================
