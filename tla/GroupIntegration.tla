--------------------------- MODULE GroupIntegration ---------------------------
(***************************************************************************)
(* run_portable_pipeline_fits (stacking/pipeline.py) after its plan: the    *)
(* masters, the calibrate-and-register jobs of the Lights, the output      *)
(* groups with their normalization fits on CPU or Metal, the publication   *)
(* of the staging directory and its removal.                               *)
(*                                                                         *)
(* Threads: the run's own, a pool of light workers, a pool of groups and   *)
(* one or more helpers that fit.  A plan says what _plan_run, the tuning   *)
(* table and the parameters settled:                                       *)
(*   lights, workers      the Lights, in input order, and their threads    *)
(*   groups, concurrency  the number of output groups, and how many        *)
(*                        integrate at a time                              *)
(*   schedule             the positions of the groups in submission order  *)
(*   build                whether raw calibration groups are integrated    *)
(*   device               whether a Metal executor is opened               *)
(*   accelerated          the groups Metal reduces when it is open         *)
(*   masks                whether the proper coadd needs rejection masks   *)
(*   crop                 whether the groups share a large enough rectangle *)
(***************************************************************************)
EXTENDS Naturals, Sequences, FiniteSets

VARIABLES
  step,      \* where run_portable_pipeline_fits stands
  plan,      \* the plan, above
  job,       \* Light -> queued, running, done, failed, cancelled
  fit,       \* position -> none, queued, running, done, failed, cancelled
  group,     \* position -> where _integrate_group stands, or its error
  observed,  \* the groups whose tile observers saw every row
  metal,     \* _MetalSession: none, open, dropped
  staging,   \* none, open, published, removed
  code       \* the error on its way out, "" for none

passVars == <<step, plan, job, fit, group, observed, metal, staging, code>>

NoPlan ==
  [lights |-> {}, workers |-> 1, groups |-> 0, concurrency |-> 1, schedule |-> <<>>,
   build |-> FALSE, device |-> FALSE, accelerated |-> {}, masks |-> FALSE,
   crop |-> TRUE]

Positions == 1..plan.groups
GroupErrors ==
  {"NORMALIZATION", "INTEGRATION", "OUTPUT_EXISTS", "PROPER_COADD_REJECTION_UNAVAILABLE", "PRODUCTS"}
Integrating == {"fit", "metal", "cpu", "fallback", "products"}

Failed(i)     == group[i] \in GroupErrors
Ended(i)      == group[i] = "done" \/ Failed(i)
SideBySide    == plan.concurrency > 1
RunningJobs   == {f \in plan.lights : job[f] = "running"}
RunningFits   == {i \in Positions : fit[i] = "running"}
RunningGroups == {i \in Positions : group[i] \in Integrating}

PassInit ==
  /\ step = "idle" /\ plan = NoPlan /\ job = <<>> /\ fit = <<>> /\ group = <<>>
  /\ observed = {} /\ metal = "none" /\ staging = "none" /\ code = ""

(* The staging directory is made once the plan is accepted. *)
StartPass(p) ==
  /\ step = "idle" /\ step' = "masters"
  /\ plan' = p /\ staging' = "open" /\ code' = "" /\ metal' = "none" /\ observed' = {}
  /\ job' = [f \in p.lights |-> "queued"]
  /\ fit' = [i \in 1..p.groups |-> "none"]
  /\ group' = [i \in 1..p.groups |-> "waiting"]

Raised(error) == step' = "closing" /\ code' = error

(* _build_calibration_masters; masters trusted from the registration are   *)
(* reused without a pixel being read.                                      *)
BuildMasters ==
  /\ step = "masters"
  /\ \/ step' = "lights" /\ UNCHANGED code
     \/ plan.build /\ Raised("MASTERS")
  /\ UNCHANGED <<plan, job, fit, group, observed, metal, staging>>

-----------------------------------------------------------------------------
(* _calibrate_and_register_frames: Lights start in input order; the run    *)
(* reads their results in that order and cancels what has not started when *)
(* it meets a failure.                                                     *)

StartLight ==
  \E f \in plan.lights :
    /\ step = "lights" /\ job[f] = "queued"
    /\ \A g \in plan.lights : job[g] = "queued" => f <= g
    /\ Cardinality(RunningJobs) < plan.workers
    /\ plan.workers = 1 => \A g \in plan.lights : job[g] # "failed"
    /\ job' = [job EXCEPT ![f] = "running"]
    /\ UNCHANGED <<step, plan, fit, group, observed, metal, staging, code>>

EndLight ==
  \E f \in plan.lights : \E outcome \in {"done", "failed"} :
    /\ step \in {"lights", "lightsFailed"} /\ job[f] = "running"
    /\ job' = [job EXCEPT ![f] = outcome]
    /\ UNCHANGED <<step, plan, fit, group, observed, metal, staging, code>>

MeetFailedLight ==
  /\ step = "lights" /\ step' = "lightsFailed" /\ code' = "LIGHT_JOB"
  /\ \E f \in plan.lights : job[f] = "failed" /\ \A g \in plan.lights : g < f => job[g] = "done"
  /\ job' = [f \in plan.lights |-> IF job[f] = "queued" THEN "cancelled" ELSE job[f]]
  /\ UNCHANGED <<plan, fit, group, observed, metal, staging>>

JoinLightPool ==
  /\ step = "lightsFailed" /\ RunningJobs = {}
  /\ step' = "closing"
  /\ UNCHANGED <<plan, job, fit, group, observed, metal, staging, code>>

(* The Lights are registered: metal.open, _shared_auto_crop, and for       *)
(* concurrent groups prefetch_all.                                         *)
StartGroups ==
  /\ step = "lights" /\ \A f \in plan.lights : job[f] = "done"
  /\ metal' = IF plan.device THEN "open" ELSE "none"
  /\ \/ /\ plan.crop /\ step' = "groups" /\ UNCHANGED code
        /\ fit' = IF SideBySide THEN [i \in Positions |-> "queued"] ELSE fit
     \/ ~plan.crop /\ Raised("AUTOCROP") /\ UNCHANGED fit
  /\ UNCHANGED <<plan, job, group, observed, staging>>

-----------------------------------------------------------------------------
(* The groups.  One at a time, a group that starts has the next group's    *)
(* fit prefetched; side by side they start in schedule order.              *)

Rank(i) == CHOOSE r \in DOMAIN plan.schedule : plan.schedule[r] = i
Sooner(i, j) == IF SideBySide THEN Rank(i) < Rank(j) ELSE i < j

StartGroup ==
  \E i \in Positions :
    /\ step = "groups" /\ group[i] = "waiting"
    /\ \A j \in Positions : group[j] = "waiting" /\ j # i => Sooner(i, j)
    /\ IF SideBySide THEN Cardinality(RunningGroups) < plan.concurrency
                     ELSE \A j \in Positions : j < i => group[j] = "done"
    /\ group' = [group EXCEPT ![i] = "fit"]
    /\ fit' = IF ~SideBySide /\ i + 1 \in Positions THEN [fit EXCEPT ![i + 1] = "queued"] ELSE fit
    /\ UNCHANGED <<step, plan, job, observed, metal, staging, code>>

(* The helpers of _NormalizationFits. *)
StartFit ==
  \E i \in Positions :
    /\ fit[i] = "queued" /\ step = "groups"
    /\ \A j \in Positions : fit[j] = "queued" /\ j # i => Sooner(i, j)
    /\ Cardinality(RunningFits) < plan.concurrency
    /\ fit' = [fit EXCEPT ![i] = "running"]
    /\ UNCHANGED <<step, plan, job, group, observed, metal, staging, code>>

EndFit ==
  \E i \in Positions : \E outcome \in {"done", "failed"} :
    /\ fit[i] = "running"
    /\ fit' = [fit EXCEPT ![i] = outcome]
    /\ UNCHANGED <<step, plan, job, group, observed, metal, staging, code>>

Reduce(i) ==
  group' = [group EXCEPT ![i] = IF metal = "open" /\ i \in plan.accelerated THEN "metal" ELSE "cpu"]

(* fits.fit: the group waits for its prefetched fit, or fits inline. *)
TakeFit ==
  \E i \in Positions :
    /\ step = "groups" /\ group[i] = "fit"
    /\ \/ fit[i] \in {"none", "done"} /\ Reduce(i)
       \/ fit[i] \in {"none", "failed"} /\ group' = [group EXCEPT ![i] = "NORMALIZATION"]
    /\ UNCHANGED <<step, plan, job, fit, observed, metal, staging, code>>

(* integrate_registered_group on Metal: published, rejected, rejected      *)
(* after its master was published, when the CPU refuses to overwrite it,   *)
(* or failed.  Metal never calls the tile observers.                       *)
MetalOutcomes == {"products", "fallback", "OUTPUT_EXISTS", "INTEGRATION"}

LeaveMetal(outcome) ==
  \E i \in Positions :
    /\ step = "groups" /\ group[i] = "metal"
    /\ group' = [group EXCEPT ![i] = outcome]
    /\ UNCHANGED <<step, plan, job, fit, observed, metal, staging, code>>

(* The CPU reducer; after a rejection the session drops its executor for   *)
(* the rest of the run (_MetalSession.observe).                            *)
EndCpu ==
  \E i \in Positions :
    /\ step = "groups" /\ group[i] \in {"cpu", "fallback"}
    /\ \/ /\ group' = [group EXCEPT ![i] = "products"] /\ observed' = observed \cup {i}
          /\ metal' = IF group[i] = "fallback" THEN "dropped" ELSE metal
       \/ group' = [group EXCEPT ![i] = "INTEGRATION"] /\ UNCHANGED <<observed, metal>>
    /\ UNCHANGED <<step, plan, job, fit, staging, code>>

(* Crop, proper coadd, maps and preview. *)
FinishGroup ==
  \E i \in Positions :
    /\ step = "groups" /\ group[i] = "products"
    /\ group' = [group EXCEPT ![i] =
                   IF plan.masks /\ i \notin observed
                   THEN "PROPER_COADD_REJECTION_UNAVAILABLE" ELSE "done"]
    /\ UNCHANGED <<step, plan, job, fit, observed, metal, staging, code>>

FailProducts ==
  \E i \in Positions :
    /\ step = "groups" /\ group[i] = "products"
    /\ group' = [group EXCEPT ![i] = "PRODUCTS"]
    /\ UNCHANGED <<step, plan, job, fit, observed, metal, staging, code>>

(* One at a time the first failure ends the run; side by side every group  *)
(* ends first.  The failure raised is the first in group order.            *)
FirstFailure == CHOOSE i \in Positions : Failed(i) /\ \A j \in Positions : Failed(j) => i <= j

CollectFailure ==
  /\ step = "groups" /\ \E i \in Positions : Failed(i)
  /\ SideBySide => \A i \in Positions : Ended(i)
  /\ Raised(group[FirstFailure])
  /\ UNCHANGED <<plan, job, fit, group, observed, metal, staging>>

(* Every group is done: the receipt is written and the directory renamed,  *)
(* or a source changed or the target appeared meanwhile.                   *)
Publish ==
  /\ step = "groups" /\ \A i \in Positions : group[i] = "done"
  /\ RunningFits = {}
  /\ \/ step' = "closing" /\ staging' = "published" /\ UNCHANGED code
     \/ Raised("PUBLICATION") /\ UNCHANGED staging
  /\ UNCHANGED <<plan, job, fit, group, observed, metal>>

-----------------------------------------------------------------------------
(* The finally clause: fits.shutdown(cancel=True), which waits for the     *)
(* running fits; metal.close; the directory is removed unless published.   *)
(* First the mutant: a shutdown that does not wait.                        *)

FitsStoppedNever == TRUE

FitsStopped == RunningFits = {}

CancelFits ==
  /\ step = "closing" /\ step' = "joining"
  /\ fit' = [i \in Positions |-> IF fit[i] = "queued" THEN "cancelled" ELSE fit[i]]
  /\ UNCHANGED <<plan, job, group, observed, metal, staging, code>>

CloseRun ==
  /\ step = "joining" /\ FitsStopped
  /\ step' = "closed" /\ metal' = "none"
  /\ staging' = IF staging = "published" THEN staging ELSE "removed"
  /\ UNCHANGED <<plan, job, fit, group, observed, code>>

HostStep ==
  \/ BuildMasters \/ StartLight \/ EndLight \/ MeetFailedLight \/ JoinLightPool \/ StartGroups
  \/ StartGroup \/ StartFit \/ EndFit \/ TakeFit \/ EndCpu \/ FinishGroup
  \/ FailProducts \/ CollectFailure \/ Publish \/ CancelFits \/ CloseRun

(* The caller removes the directory of a discarded pass, or keeps it. *)
ResetPass ==
  /\ step = "closed" /\ step' = "idle"
  /\ plan' = NoPlan /\ job' = <<>> /\ fit' = <<>> /\ group' = <<>> /\ observed' = {}
  /\ metal' = "none" /\ staging' = "none" /\ code' = ""

-----------------------------------------------------------------------------
(* "A fit still running for a later group must finish before the staging   *)
(* tree it reads is removed" (groups.py), and the same for the Light jobs  *)
(* and the groups: once the directory is gone or renamed, no thread works  *)
(* in it.                                                                  *)
StagingQuiet ==
  staging \in {"removed", "published"} =>
    RunningJobs = {} /\ RunningFits = {} /\ RunningGroups = {}

(* "The Metal executor is one per run" (_group_concurrency): two groups    *)
(* are never on it, and none is once it was dropped or closed.             *)
MetalExclusive ==
  /\ \A i, j \in Positions : group[i] = "metal" /\ group[j] = "metal" => i = j
  /\ \A i \in Positions : group[i] = "metal" => metal = "open"
=============================================================================
