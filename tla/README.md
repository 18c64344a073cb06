# Ultra-Fast WBPP: specifications, model checks and proofs

Ultra-Fast WBPP calibrates, registers, integrates and plate-solves astronomical
Lights. A Tauri/React desktop application starts a Python engine as a child
process; the engine builds everything in private directories and publishes
with one create-only rename, either a solved project or evidence of why there
is none. This directory holds TLA+ specifications of the parts in which order,
failure, concurrency or an intricate decision table decide about correctness,
the TLC runs that check them on small instances, and TLAPS proofs for every
size.

Paths below are relative to the repository; `engine/` stands for
`packages/engine/src/ufwbpp/`, `desktop/` for `apps/desktop/src/`, `tauri/` for
`apps/desktop/src-tauri/src/` and `qc/` for the package `light-frame-qc`.

## 1. Inventory

| Component | State it keeps | Operations | What makes it correct |
| --- | --- | --- | --- |
| Desktop run protocol: hook `desktop/useWorkflow.ts`, controller `tauri/project/execution.rs`, `tauri/lib.rs` | refs for the followed job, the pending terminal event, flags of launch and cancel; registry of children, request files, shutdown flag | start, receive receipt, terminal events, cancel, clear, waiter thread, exit handler | one engine at a time; a settled run has no live engine; COMPLETED only for a validated newest job; no outcome lost; quitting leaves nothing |
| Desktop before a run: the import, calibration and review steps of `useWorkflow.ts`, `BlinkView.tsx`, `tauri/sidecar/blink.rs`, `engine/blink` | Lights and calibration files, checks under way, session, decisions with their history, images, marks, confirmations; sessions on disk | import, check, measure, decide, undo, confirm, start, prune | a run starts only as it was reviewed and checked, and is refused only when its session is gone |
| Project transaction: `engine/workflows/project.py`, `mosaic.py` | staging, OUTPUT, OUTPUT.unsolved, captured source identities, list of paused panel generators | prepare, plan the canvas, start / pause / resume / close panels, assemble, colour, verify, publish; nested handlers | one public directory, complete at every instant; every paused run resumed or closed; the result agrees with the disk |
| Target run: `engine/workflows/single_target.py` with `screening`, `registration`, `canvas`, `integration`, `products`, `solve`, `sources` | its own staging and public directories, worker pool, solutions in the product files | capture, screen, calibrate, register, measure, pause, integrate, solve, inherit, unify, refit, cross-check, verify, publish | only judged solutions are published; everything computed from the captured bytes |
| Light frame quality gate: `qc/` | process or thread pool, cache, thumbnails and previews | measure in parallel, fall back to threads, group, register, gate | what is said of a frame is true of its bytes whichever pool or cache answered; a defect once raised is not lost |
| Frame selection and reintegration: `engine/selection`, `workflows/review.py`, `screening.py`, `integration.py` | gated frames, admitted frames, pass number, excluded frames | admit by one of four routes; integrate, judge, exclude, repeat | no defective Light is admitted unless a reviewer kept it; passes keep two Lights of each panel |
| Calibration planning: `engine/calibration`, `planning.py`, `inventory.py`, `runtime.py` | none (pure), but evaluated at three times | inspect, plan, prepare, pair masters with Lights | bias and dark are removed once; what the inspection calls ready is not refused hours later |
| Registration: `ufwbpp_registration` | none (pure) | match stars, bridge over an anchor, refine, judge | an accepted transform is the true one |
| Stacking and kernels: `engine/stacking`, `native` | threads of a pass, fits, the Metal executor and its queues, staging | calibrate and register, normalize, integrate groups on CPU or Metal, crop, reject | no thread works in a directory that is gone; every row once and in order; the native kernel decides as the reference |
| Solver chain: `engine/workflows/solve.py`, `products.py` | per filter: backend reached, file at the product path, attempts | pool of threads; try backend, judge, discard, promote, collect | solved means the file of the backend that passed every gate; rejected files never reach the next backend; no thread outlives the call |
| Solver adapters and processes: `engine/solvers/process.py`, `astap.py`, `astrometry_net.py`, `catalog_correspondence.py` | stage copy, child, its process group, log captures, outcome | stage, spawn, wait with limit, kill, reap, close group, join captures, check, verify, publish | published pixels are the staged ones; attempts do not overlap; what passes the gates can be relied on |
| Solver catalogs: `engine/solvers/catalogs.py`, `tauri/catalog.rs`, the hook | installed files, partial downloads, receipts, running installations | install with resume, bundled install, verify, snapshot, cancel | a downloaded file is the manifest's; a solve read only unchanged files; the view comes to an end |
| Mosaic stages: `engine/workflows/mosaic.py`, `canvas.py`, `engine/mosaic` | none of their own (pure), called from the project between panel runs | survey and plan the canvas, place the panels, match photometry and sky, blend, judge, assemble every filter | a published mosaic has every filter and every panel, judged and verified; a bright object in an overlap is shown by one panel |
| Progress accounting, single-product publication, image I/O, build | - | numbers shown, one link, floating point, byte formats | not modelled, section 5 |

Interactions. The hook calls commands of the controller and listens to its
events; replies and events travel separately and may overtake each other. The
controller spawns the engine, reads one JSON answer from its pipe and kills its
process group to cancel. The engine runs `run_project_e2e`, which drives one
generator per target; a mosaic panel yields its measured reference and waits for
`send(placement)` or `close()`. A target screens its Lights on a pool, pairs
calibration files, registers, integrates in passes, and hands each filter's
master to the solver chain on a thread pool; each chain calls adapters, each
adapter runs an external process in a session of its own and compares its answer
with the catalog files. All of them share the file system with the user, who may
edit sources or create directories meanwhile, and with other windows.

The hard behaviours follow from this: events that overtake replies, cancellation
against completion, exit against start; a run of hours between the test for a
directory and the rename onto it; sources edited between two stages that read
them; generators that must be resumed or closed on every path; exceptions while
an exception is handled; a pool that breaks; a solver that hangs, floods its pipe
or leaves helpers; a review that changes while a start is on its way; SIGKILL at
any moment; and tables of codes, gates and ties in which one wrong line is not
seen by a test. Each is listed with its source line and the properties that cover
it under `hazards` in `PROJECT.json`.

## 2. Modules

| Module | Models | Composition |
| --- | --- | --- |
| `RunLifecycle` | desktop run protocol | - |
| `BlinkSession` | a session on disk: measurement, controller, pruning by any window | extended by `BlinkReview` |
| `BlinkReview` | the review of a session in the webview | extended by `Workbench` |
| `Workbench` | import, calibration check, review and start | ends where `RunLifecycle` begins |
| `ProjectTransaction` | `run_project_e2e` | every target by `TargetContract`; the mosaic stages are verdicts, in detail in `MosaicProject` |
| `MosaicCanvas` | survey, canvas plan, windows | extended by the next two |
| `MosaicPhotometry` | overlaps, components, scales, levels, the sky | extended by `MosaicBlend`, `MosaicPlacement` |
| `MosaicBlend` | weights, protected objects, the blend | extended by `MosaicAssembly` |
| `MosaicAssembly` | the gates and all filters | part of `MosaicProject` |
| `MosaicPlacement` | measuring the references, the joint fit, its refusals | part of `MosaicProject` |
| `MosaicProject` | a project whose mosaic stages compute on a night's sky | composes `ProjectTransaction` and the five above; implements the former |
| `TargetContract` | what a target run promises its caller (abstract) | implemented by `TargetRun`, used by `ProjectTransaction` |
| `TargetRun` | `run_e2e_stages` | its pixel stages are verdicts, in detail in `PixelRun`; its `Solve` step in `SolverChain` |
| `FrameMeasurement` | `measure_paths`: pool, fallback, cache, previews | part of `Screening` |
| `FrameAnalysis` | grouping, references, registration levels | part of `Screening` |
| `QualityGate` | `evaluate_quality_gate` | part of `FrameSelection` |
| `FrameSelection` | policies, approvals, blink flags, counterfactual exclusions | part of `Screening` |
| `Screening` | `_screen_lights` | part of `PixelRun` |
| `CalibrationPlan`, `RunPreparation` | libraries, pairing, subtraction; inspection, plan and preparation | part of `PixelRun` |
| `FrameRegistration`, `StarMatching` | routes to the reference; matching of stars | part of `PixelRun` |
| `CommonCrop` | `crop.py` | part of `PixelRun` |
| `GroupIntegration`, `MetalReduction`, `RejectionKernel` | one pass and its threads; a group on Metal; the samples of a band | part of `PixelRun` |
| `PixelRun` | the pixel stages of a target in order, with the passes of `_integrate_admitted_lights` | composes the ten above |
| `SolverEvidence` | what adapters compute and gates ask | part of `SolverChain` |
| `SolverChain` | `_solve_candidates`, `_solve_one` | its `Call` abstracts `SolverAttempt` |
| `SolverAttempt` | one adapter call and `SolverProcessRuntime.run` | - |
| `CatalogInstall` | writers and readers of the managed directory | extended by `CatalogDesktop` |
| `CatalogDesktop` | registry of installers, view | - |
| `MC*` | entry points of TLC with the model values, where a configuration cannot hold them | - |
| `*_proof` | theorems | extend the module they prove about |

In every module a handler or a stretch of code between two points where another
actor can interfere is one action; `pc`, `stage`, `step` or a `...Call` variable
says where a thread stands. Definitions marked *mutant* are broken variants of the
definition below them, used to show that the properties can fail; no
specification uses them.

**RunLifecycle.** The variables of the hook are its refs by name. `startCall`,
`cancelCall`, `exitCall` and `waiter[j]` are the program counters of the start
and cancel commands, the exit handler and the waiter thread of job j; `child[j]`
is the engine process; `events` the emitted and undelivered terminal events.
A job is the ordinal of its launch. `refused` remembers children the platform
could not kill. Progress events carry no outcome and are left out; so are the
Windows job object and the content of the validated answer (one verdict).

**Workbench, BlinkReview, BlinkSession.** `disk` are the sessions under the root,
shared by all windows; `measure` is the command under way from the engine to the
webview's answer. Images, failures, viewed and confirmed marks are those of the
view, by frame and layer; the effect that reports a failure for the frame on the
stage is part of every step that moves the stage. `asked` holds the calibration
checks without an answer, by the key they were asked with; `run` is the run asked
for, with the decisions that were sent. The two display modes of a frame are one;
decisions are keyed by frame. Cache eviction by size, playback, the compare pane,
the preflight of a single frame and the recheck button are left out. The other
windows only measure and prune.

**ProjectTransaction.** `sub[t]` and `tree[t]` are the state of the contract of
target t, `paused` the list of paused generators, `error`, `code` and `named`
the exception being handled, the code of the receipt and the directory the
result names. `Kill` is SIGKILL at any moment; removing a tree and syncing a
directory may fail. `unsynced` records that a sync after a commit failed.

**MosaicProject and the five modules it composes.** In `ProjectTransaction` the
canvas plan, the placement and the assembly end one way or the other;
`MosaicProject` conjoins to `PlanCanvas`, `Place` and `Assemble` the outcome that
the code computes from the data, and leaves every other step alone (`OtherStep`).
The data is a *night*: where the panels' Lights lie, the stars, the indexes
installed, what each reference shows, gains, backgrounds and noise. The sky is a
line of integer columns, a Light a stretch of it with a scale and a direction, a
panel's solution one offset, brightness logarithmic in thirds (a triangle of
overlaps has its least-squares solution among them). Left out are rotation and
distortion, with the choice between SIP orders; gain and background terms that
vary across a panel; pixel values, of which a column of a mosaic keeps only which
panels its light and its small scales come from; and the taper beyond the last
whole block. Fractions of a weight are rounded down to `TaperUnit`.
`AssembleNext` assembles one filter per step, the reference filter first, whose
sky the others follow; `AssembleOnSky` is the stage's end, a refusal included.
A placement that is refused raises, so that only `Raise` is left.

**TargetRun.** The run is sequential, so `pc` walks through the steps of the try
block. A source is the number of edits made to it; `reads` collects the numbers
that the pixel stages saw. A WCS is named by the fit it comes from: a filter's
own solve, the refit, or the canvas window. `accepted`, `near` and `kept` are the
result of the solver chains: filters solved, filters with a solve that missed
only the RMS limit, unsolved filters with a file left behind. Everything
numerical is a nondeterministic verdict. `Raise` is possible at every step of
the try block. `Close` is `GeneratorExit` at the yield.

**PixelRun.** The same run seen from its pixels. `stage` names the stretch of
`run_e2e_stages`; each stage has the variables of its module. The measurement
interleaves its workers with the user who replaces files; a file is its version
number, a stat the number of an edit. The gate reads a record in which each
number is replaced by its place between the thresholds of the policy, which
leaves the decision table exact and the numerics out. The selection reads widths
and transparencies in percent. Calibration files carry the traits the code
compares; temperatures are known, and metadata overrides of calibration files,
backends, CFA confirmations and the path budget are left out. Stars lie on a
line, where a similarity is a scale, a half turn and a shift, so the estimation
runs unchanged with exact fractions; RANSAC takes any of the best pairs;
anisotropy and warp validation are left out. A pass is the schedule of its threads:
Light jobs, groups, fits that run ahead, the closing; a group on Metal goes
through the tile pipeline with its two queues. The rejection kernel works on
integers with doubled medians; the factor 1.4826 is part of the clip limit, so
what floating point rounds is out, and so are transient corridors and the
reweighted fits. `manifest` holds the Lights that trusted masters are bound to;
that the files of these masters stay the same is checked by the code and not
modelled.

**SolverEvidence, SolverChain.** The sky is a line and an image a row of pixels; a
header puts pixel x at `place + determinant * x`, so that parity, scale,
residuals and the centre are what they are in the code. A solve is a record of
everything one call met: how its processes ended, the header and its copy, the
rows of the tables, detections, index files and the file at the path; `Calls` is
the set of them. `MissedGates` computes from it what `_solve_one` refuses. In the
chain one thread per filter has its place in `_solve_one`; the file at its path is
absent, raw or stamped, and `writer` remembers the backend that put it there. The
caller collects in filter order as `pool.map` does, cancels what has not begun
after an exception and leaves the pool only when it is idle.

**SolverAttempt.** The adapter, the solver process, one helper in its group, and
the capture thread interleave. `staged` says whether the staged input was
written to. A killed solver may be `stuck` (uninterruptible). The helper stays in
the solver's process group: one that makes a session of its own escapes the code
and is not modelled. `kept` records that the system refused to remove an output,
or that removing the stage raised after the publication.

**CatalogInstall, CatalogDesktop.** `partial[a]` is a sequence of chunks, each the
provider version it came from; `dest[a]` the published file with the number of the
edit that made it as its identity. One holder of the lock walks through `at`; the
solve reads without the lock. `edits` counts what the user changed. In
`CatalogDesktop` `job[j]` is the host's side of installation j, `events` the
messages emitted and not delivered, `answers` those of start commands; `status`,
`ref`, `jobId`, `cancelling`, `pending` and `finishing` are the refs and states of
the view by their meaning, and `overtaken` remembers that an answer of an earlier
job was taken for the current one's, which is then left out of `InstallSettles`.

## 3. Runs

Alone and on two workers every run ends within two minutes. The number of distinct states is
in the last column.

| Run | Module, configuration | What it asks | States |
| --- | --- | --- | --- |
| `run_lifecycle` | `RunLifecycle`, `RunLifecycle.cfg` | two launches with cancellations, quits, buffered and late events: `SettledRunStopped`, `CompletedIsValidated`, `AtMostOneEngine`, `QuitLeavesNothing`, `SettledIsFinal`, `EndedRunSettles`, `CancelAnswered` | 840 k |
| `target` | `MCTargetRun`, `Target.cfg` | an ordinary target of three filters or a mosaic panel, one edit, failures at every step: `PublishedVerified`, `EvidenceHonest`, `PublishedFromCaptured`, the refinement `ImplementsContract` | 290 k |
| `project_mosaic` | `MCMosaicProject`, `ProjectMosaic.cfg` | three panels on sixteen nights, one edit, foreign directories, a kill anywhere: `SuccessWhole`, `EvidenceSound`, `EndsHonestly`, `ObjectsAreWhole`, `DrivesByContract`, `PausedRunEnds` | 373 k |
| `solver_attempts` | `SolverAttempt`, `SolverAttempts.cfg` | one call with a fallback attempt against a hostile solver: `PublishedIsInput`, `SolvedIsSound`, `FailureLeavesNothing`, `AttemptsDoNotOverlap`, `CallReturns` | 24 k |
| `solver_chain` | `MCSolverChain`, `SolverChain.cfg` | three filters, two threads, two backends: `SolvedIsVerified`, `SolvedIsTrustworthy`, `NothingLeftBehind`, `CallerAnswered` | 550 k |
| `catalogs` | `MCCatalog`, `Catalogs.cfg` | installers, a bundled installation, verifications, a solve and the desktop: `DownloadedIsManifest`, `BoundSolveUsedManifestBytes`, `InstallSettles` | 510 k |
| `pixel_run` | `MCPixelRun`, `PixelRun.cfg` | the pixel stages of one target: `MeasurementSound`, `DefectsStayOut`, `CalibrationSound`, `RegistrationIsTrue`, `CropIsLargest`, `KernelIsReference`, `StagingQuiet`, `ReductionWhole`, `ReintegrationSound` | 839 k |
| `workbench` | `MCWorkbench`, `Workbench.cfg` | import, review and start beside another window: `StartBindsReview`, `RefusedOnlyIfGone` | 1.22 M |
| `run_lost_outcome` | `RunLifecycle`, `RunLostOutcome.cfg` | violation of `FirstOutcomePreserved` | |
| `project_sync_failure` | `ProjectTransaction`, `ProjectSyncFailure.cfg` | violation of `FailurePublishesNoSuccess` | |
| `solver_orphan` | `SolverAttempt`, `SolverOrphan.cfg` | violation of `CancelLeavesNoHelper` | |
| `blink_unseen` | `MCWorkbench`, `BlinkUnseen.cfg` | violation of `KeptWasSeen` | |

**Foci.** Modules with many independent stages are checked in one run whose
behaviours each have a *focus*, chosen at the start and never changed. The stage of
the focus meets all its cases; the others take one plain way through, so that
every behaviour runs from the first step to the last without the product of all
their cases. In `pixel_run` the foci are the measurement with the ways through the
screening, the calibration, the registration with its stars, the crop, the
rejection kernel, the integration passes, and the Metal pipeline; in `workbench`
they are the review of a session and the traffic of sessions on disk. The proofs
know no focus: they hold for `Spec`, of which every focus is a restriction.

**Bounds and why they are enough.**

* `run_lifecycle`: `MaxJobs` = 2. The hazards are between one run and the next; a
  third launch meets nothing a second does not, and the safety properties are
  proved for any number.
* `target`: three filters are the least with an accepted, a near and an unsolved
  one at once, which is what inheritance, unification and the refit tell apart.
* `project_mosaic`: three panels give a reference, one resumed and one still paused
  when something fails; one edit separates before from after. Three of the nights
  succeed: a row of panels, a pile in which all overlap and bright stars crowd, and
  a row that falls into two components because an overlap has no star. On each of
  the others one stage refuses: the survey, the plan, the placement, a gate, or
  the verification on the catalog. A triangle is the
  least in which scales can contradict each other. Bounds: two clippings and two
  rematches of the placement, two refits of the sky, offsets of one column
  (`MaximumOffset`), scales and levels up to three (`MaximumLevel`).
* `solver_attempts`: two attempts for an overlap; a pipe and a tail of one block
  with a log of two are the least in which the pipe fills and the tail drops.
* `solver_chain`: three filters on two threads leave one queued. The first filter
  meets some sixty solves of both adapters, each a good one changed in one to three
  respects; the others meet a good one and a failing one. Pairs of defects that
  could hide each other are among the sixty; that no other combination passes is
  what `SolvedTrustworthy` proves. The image is eight pixels wide and three
  matches are enough.
* `catalogs`: two artifacts, of which one is already there or half there; two
  versions at the provider and two edits by the user, because a change that is
  undone takes two. The three quotas `desktop`, `resume` and `solve` choose which
  of the processes act.
* `pixel_run`: seven Lights of two filters (five and two), of which three are
  measured under edits and a breaking pool and the others are plain; three passes;
  images of four by three pixels with every footprint of one Light; a sky of five
  stars with similarities, a half turn and spurious detections; bands of two rows of
  four pixels of up to four frames in every order the claims of two threads allow,
  with chunks of 1, 2, 3, 5 and 8 pixels; four memory plans of the Metal machine,
  from all tiles at once to none. Thresholds that count stars or frames are scaled
  down (four for twelve matches), with every comparison kept.
* `workbench`: five Lights in two channels, two or three of them under review; two
  sessions of this window and two measurements by the other, a history of one step,
  one failing preview, two imports. A history of one is the least in which undo,
  redo and the dropping of old steps all occur.

**Deadlock** is checked except in `run_lifecycle` and `run_lost_outcome` (the
application has quit), `catalogs` (all jobs are done and the user may go), and
`workbench` and `blink_unseen` (the user may stop anywhere). The other
specifications have an explicit stutter where the program has ended.

**Fairness.** It is stated only for code that a scheduler runs on its own.

* `RunLifecycle`: the commands, the waiter threads and the event loop of the
  webview are weakly fair; the user and the engine owe nothing, except that an
  engine whose pipe was lost exits (its next write fails).
* `ProjectTransaction`, `MosaicProject`: one thread, weakly fair; `Kill` and the user
  are not part of it. Assembling one more filter changes no variable of the project
  and is not among the fair steps: an assembly that never ended would still be one
  that may raise.
* `SolverAttempt`: the adapter only. The solver may hang for ever, which is why
  `CallReturns` depends on the time limit, the kill and the bounded joins.
* `SolverChain`: each thread of the pool and the caller; that a backend call comes
  back is `CallReturns` of `SolverAttempt`.
* `CatalogDesktop`: the engine processes, the waiter and cancel threads of the host
  and the event loop of the view.

**Mutants.** Each property of a passing run has a mutant in `PROJECT.json`: a
definition of the code changed as a plausible bug would change it, with which the
run finds the property violated. The mutated definitions stand before the true
ones in the modules and are not used by them.

## 4. Proofs

The eight `_proof` modules state the theorems for every value of the constants
that the assumptions admit. `PROJECT.json` lists them under `theorems`. Each
follows one scheme: an inductive invariant, made of named parts; `Init` implies
it; every action of `Next` preserves it, with one step per action; the property
is read off. TLC checked each invariant before it was proved.

**Assumptions on the constants.** `MaxJobsAssumption`, `ProjectAssumption`,
`SolverAssumption`, `DesktopAssumption`, `SessionAssumption`, `ReviewAssumption`,
`WorkbenchAssumption`: numbers are numbers, and what is counted from one is not
zero. `TargetAssumption`: a finite, nonempty set of filters distinct from the
names of the two derived solutions and of none. `CatalogAssumption`: the
processes are told apart and an artifact has at least one chunk.
`MeasurementAssumption`: there are a worker and finitely many files.
`EvidenceAssumption`: positive limits of the gates. `ChainAssumption`: there are
filters, backends and workers, and what a call may meet lies in `Calls`.
`PixelAssumption`: finitely many Lights, every output name listed once, a
memory plan with at least one of everything, which the code clamps, and a
footprint with one run of columns per row; a library is a finite set of
calibration files, workflows and recipes are those of the code, and a Light has
the traits of one. `CalibrationAssumption`: calibration files are numbered and
have the traits the code reads. `CropAssumption`: an image has a column.
For the mosaic, `ProjectMosaicAssumption`, `CanvasAssumption`,
`PhotometryAssumption`, `PlacementAssumption`, `BlendAssumption` and
`AssemblyAssumption` say that there is a night and that limits are numbers, with
units that are not zero; `FilterAssumption` that every filter has its place in the
order of names; `SkyAssumption` that columns and brightness are whole numbers and
stars are finitely many. `LatticeAssumption` says that the lattice planned and the
offsets found are whole numbers as well: they come out of sums by folds, which the
provers cannot type, and TLC evaluates it on all sixteen nights.

* **`RunLifecycle_proof`** proves type correctness, `SettledRunStopped`,
  `CompletedIsValidated`, `AtMostOneEngine`, `QuitLeavesNothing`,
  `SettledIsFinal`. The invariant ties the flags of the hook to the point the
  commands have reached (`LaunchShape`, `CancelShape`), the followed job to the
  newest (`FollowedJob`), the registry to the waiters (`WaiterShape`) and every
  event in transit to its waiter's verdict (`EventsGenuine`). `LiveEngine` is the
  heart: a live engine is the newest job's, or one that could not be killed while
  quitting, after which nothing is spawned.
* **`TargetRun_proof`** proves `PublishedVerified`, `EvidenceHonest`,
  `PublishedFromCaptured` and the refinement `ImplementsContract`.
  `DirectoryShape` fixes which directory exists at which step; `SourceWindow`
  says that what was read lies between capture and now, so that equality at the
  end vouches for all of it; `SolutionShape` that a product is genuine or an
  inherited one on trial; `VerdictShape` that none is on trial after the
  cross-check.
* **`ProjectTransaction_proof`** proves of `ProjectTransaction` `SuccessComplete`,
  `EvidenceSound`, `EndsHonestly`, `DrivesByContract`, and, checked by no run, that no
  step replaces a directory that was there. Every paused run is in the list and the
  list holds paused runs once (`PausedListed`, `QueueShape`); draining the list
  therefore closes them all. Then `MosaicImplements`: whatever the sky, `MosaicSpec`
  implements `ProjectTransaction!Spec`, so that all of this holds of it
  (`SafeUnderEverySky`). `PublishesWhole` proves `SuccessWhole`: the filters that are
  assembled and those still pending share out the night's (`StagesShape`), the
  components of a filter share out its panels (`PartsPartition`, `FilterShared`: the
  least closed set of overlaps), and one failed gate of one component refuses the
  stage. `ObjectsStayWhole` proves `ObjectsAreWhole` for every sky, every set of panels
  and all limits (`BlendIsWhole`): clusters of protected objects whose footprints
  meet are merged, so footprints of different clusters share no column and the
  panel chosen for a column is its own; the ramp is full exactly on the footprint
  (`RampIs`), where nothing of the mean is left; and one panel is heaviest
  (`OneHeaviest`).
* **`SolverAttempt_proof`** proves `PublishedIsInput`, `SolvedIsSound`,
  `FailureLeavesNothing`, `AttemptsDoNotOverlap`. `ProcessShape` confines live
  processes to the steps between spawn and the closing of the group; hence the
  staged input cannot change after it was compared (`OutputShape`).
* **`SolverChain_proof`** proves `SolvedIsVerified`, `NothingLeftBehind` and
  `SolvedIsTrustworthy`. `FileShape`: the file at a path
  was put there by the backend the chain is at; `CallerShape`: once the caller is
  leaving nothing is queued. The last theorem has two halves. `SolveShape` says
  that a stamped file belongs to a solve without a missed gate. `GatesAreEnough`
  says that a solve without a missed gate has evidence to rely on: its pairs are
  one to one and enough of them, they come from an index that did not change
  between the two looks at it, the residuals are within the limit, and the
  image lies at the hint. For astrometry.net the pairs are rows of a table from
  which repeated ones are dropped; that no star and no catalog entry is left twice
  (`KeptRowsOneToOne`) is an induction over the rows. For the others the pairs are
  mutual best matches (`MeasuredDistinct`), and the hint test speaks of half pixels
  (`HintedIsNear`).
* **`CatalogDesktop_proof`** proves type correctness, `DownloadedIsManifest` and
  `BoundSolveUsedManifestBytes`. Whoever links a file holds the lock and has
  hashed what it links (`LinkHashed`). For the solve, which has no lock: a stat
  identity is never used again, so that a file read after the snapshot that is not
  the snapshot's bytes makes the second look differ (`SnapshotAges`,
  `BadReadIsStale`). `MessagesOK`: every message on the wire is the answer of the
  job it names.
* **`Workbench_proof`** proves `StartBindsReview` and `RefusedOnlyIfGone`.
  Decisions, views and confirmations belong to the session on the desk
  (`ApprovedOK`, `FailuresOK`); a measurement in transit carries the revision it
  was asked at (`MeasureOK`), as does a calibration check (`ChecksOK`); sessions on
  disk keep the order of their names (`SessionOK`); the run holds what was sent
  (`RunOK`) for the session it was sent for (`RunBound`).
* **`PixelRun_proof`** proves, each by an invariant of its own stage:
  `MeasurementSound` (`MeasureInv`: every result on its way is that of the bytes
  its stat was taken of); `DefectsStayOut` (with lemma `HardIsKept`: no group, guard
  or cap of the selection takes a hard finding back, and `DefaultsAreAccepted`);
  `StagingQuiet` (`PassInv`: who may still be in the staging directory in each
  phase of a pass, and `InTurn`, `CpuSideBySide`, `MetalOpen` for the order of
  groups); that two groups are never on the Metal executor, checked by no run;
  `ReductionWhole` (`ReductionInv`: tiles leave in order, rows in the layout of the
  plan add up to those written, `MetalLayoutOK`: a plan that was accepted keeps
  the queues within the budget); and `ReintegrationSound` (`RunInv` and
  `ManifestInv`: an exclusion keeps two Lights in a panel, `PanelKeepsTwo`, under
  the guard, `GuardHolds`, needs no new pairing, `PairingsWithin`,
  `MastersCovered`, and the Lights present are those of the manifest). Then
  `CropIsLargest`. The crop is two recursive functions, over the columns of a row
  (`Scan`) and over the rows (`Rows`). After the columns up to x (`ScanOK`) the
  stack holds bars of rising height, each reaching back to the first column where
  the heights allow it and forward to x, and no bar that ended before x is larger
  than the best rectangle so far; the zero height after the last column ends all.
  After the rows up to y (`Counted`, `CropOK`) a height counts the valid rows that
  end at y, so a covered rectangle is a bar of its lowest row. Last,
  `CalibrationSound`, for every library, recipe and set of Lights. Its first half
  reads the subtraction off the pairing: the best group exists and is one of the
  library (`ChoiceIs`, `ChosenOf`), whatever group is missing or off in exposure
  has left its warning, and the units the scales divide by are known and equal
  (`LightWarned`, `FlatWarned`). Its second half follows the two sets of rules side
  by side. An inspection that found nothing blocks neither the plan
  (`PlanAgrees`) nor the preparation (`PreparationForeseen`), and for any part of
  its Lights each refusal of the pairing is excluded or listed in `Unforeseen`
  (`SourceForeseen`, `CompatiblePairs`, `StrictForeseen`, together `RunForeseen`).
  `CalibrationInv` says that a run which failed with a calibration code was refused
  by one of these functions, for Lights it had, and with the library and recipe it
  was inspected with; that the codes of trusted masters are not among them takes
  `MastersCovered` and `ManifestInv`.

**What is only model-checked.**

* Liveness: `EndedRunSettles`, `CancelAnswered`, `PausedRunEnds`, `CallReturns`,
  `InstallSettles`, `CallerAnswered`. The prover does not reason about fairness and
  ENABLED.
* `RegistrationIsTrue`: a fact about the given skies. Nothing keeps an arbitrary
  sky from having two transforms of equal support.
* `KernelIsReference`: two algorithms agree on the samples of a pixel, both sorted,
  trimmed and clipped in loops; see section 7.
* The values of a mosaic's scales, levels and placements: least squares over sums.
  The run checks them only by the gates they pass on its nights.
* The four violations, which are traces.
* That `TargetRun!Solve` covers what `SolverChain` returns, and `SolverChain!Call`
  what `SolverAttempt` returns, holds by their common vocabulary and is not
  checked.

Induction over data is done without the library's induction theorems: a predicate
on numbers is written as a function into the Booleans, and the lemma `Induction` of
`SolverChain_proof` and `PixelRun_proof` derives induction for it from the least
number of a set.

## 5. Not modelled

* Numerics: the arithmetic of stacking, weights, drizzle, proper coaddition,
  the geometry of a mosaic beyond one dimension, WCS fits, descriptors and warps.
  Their verdicts are nondeterministic choices or data of the run.
* Byte formats and parsing: FITS and XISF, JSON of requests, plans and receipts,
  index files of the solvers, command lines.
* Windows process handling; executables' discovery.
* Progress accounting: numbers shown that no decision reads.
* Publication of single products: one create-only link with its retries.
* The views apart from what a run is started with; the build, the packaging and
  the tools.

Simplifications a reader should know of:

* `RunPreparation`: temperatures are known; backends, CFA confirmations, the
  binding of metadata overrides and the path budget are left out. The inspection
  and the execution read the calibration files by different rules, and
  `docs/architecture.md:346` allows for it. The codes an execution may end with
  although the inspection was content are listed in `Unforeseen`, each with its
  condition: several Bias sources with mono masters (`BIAS_SOURCE_AMBIGUOUS`), an
  unused Flat without a filter (`FILTER_UNKNOWN`), groups of the strict workflow
  that differ only by keyword (`*_AMBIGUOUS`, `DARK_EXPOSURE_MISMATCH`,
  `BIAS_REQUIRED_FOR_CALIBRATION`), numeric units the inspection does not read, a
  strict run whose Bias is not required. Three were found by the proof, not by a
  run: a recipe that does not require Flats (`NO_FLATS`, `MASTER_FLAT_MISSING`), a
  raw Flat whose Bias has another keyword, and Darks of one exposure and different
  temperatures, of which the inspection compares a Light with the best and the run
  with the first of the group (`CALIBRATION_PROFILE_MISMATCH`). The libraries of
  `pixel_run` now hold each of them. `CalibrationSound` says there are no others.
* `PixelRun`: a Light whose metadata the request overrides and which a later pass
  excludes makes that pass end with
  `RAW_FRAME_METADATA_OVERRIDE_SOURCE_AMBIGUOUS`, as in the code.
  `validate_trusted_generated_master`, the check of the masters' files, is left out.
* `StarMatching` and `SolverEvidence`: the sky is one-dimensional.
* `RejectionKernel`: exact integers; transient corridors and the reweighted fits
  are left out.
* `SolverAttempt`: a helper that makes a session of its own escapes the code's
  kill; it is not modelled. So does the reuse of a process number (hazards).
* `Workbench`: two display modes of a frame are one; cache eviction by size,
  playback, the compare pane, the single preflight and the recheck button are out.

## 6. Findings

* `run_lost_outcome`: while a launch is pending the hook keeps the first terminal
  event it receives without looking at its job. The late error event of a
  cancelled run takes the slot, the new run's own early outcome is dropped, and
  the view stays RUNNING.
* `project_sync_failure`: syncing the parent directory comes after the rename that
  publishes the success directory; if it fails, the run is reported as failed
  although the success directory is in place, while the receipt promises
  `failurePublishesUnsolvedEvidenceOnly`.
* `solver_orphan`: cancellation kills the engine's process group; a solver that is
  running has a session of its own and goes on, although the comment at the kill
  speaks of not leaving a helper alive.
* `blink_unseen`: dropping a frame whose preview failed marks it viewed. Undo
  restores KEEP and leaves the mark, a retry clears the failure before anything is
  loaded, and the run is accepted with a kept frame that was never displayed.

## 7. Plan

Done: every part of section 2, with a theorem for each safety property of a run
but two.

Next, in order:

1. `KernelIsReference`: that two threads' claims cut the band without overlap and
   without a gap, for any grains; the decision of one pixel after that.
2. One abstract solve step that `SolverChain` implements and `TargetRun` uses, and
   one abstract call that `SolverAttempt` implements.
