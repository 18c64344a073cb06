------------------------------ MODULE TargetRun ------------------------------
(***************************************************************************)
(* run_e2e_stages (workflows/single_target.py): the run of one target with *)
(* all of its filters, from the capture of the sources to the atomic       *)
(* publication of the solved products or of the UNSOLVED evidence.  The    *)
(* run is sequential; around it the sources may be edited, somebody else   *)
(* may create the directory it is about to publish, and the project that   *)
(* drives a mosaic panel may resume or close it while it is paused.        *)
(*                                                                         *)
(* Pixels, headers and receipts are abstract.  A source is the number of   *)
(* edits made to it, so size, mtime and digest agree exactly when the      *)
(* numbers do.  A WCS is named by the fit it comes from: the own solve of  *)
(* a filter, the refit on catalog stars, or the canvas window.             *)
(***************************************************************************)
EXTENDS Naturals, FiniteSets

CONSTANTS
  Filters,       \* the filters the target was shot in
  CatalogRefit,  \* request.catalog_refit
  MaxEdits       \* bound: edits of the sources while the run is going on

ASSUME TargetAssumption ==
  /\ IsFiniteSet(Filters) /\ Filters # {}
  /\ CatalogRefit \in BOOLEAN
  /\ MaxEdits \in Nat
  /\ {"none", "refit", "canvas"} \cap Filters = {}

VARIABLES
  pc,         \* where the generator stands
  src,        \* edits made to the sources so far
  captured,   \* the edit number in the captured identities
  reads,      \* edit numbers of what the pixel stages read
  staging,    \* the private staging directory; leftover: its removal failed
  output,     \* the requested directory
  evidence,   \* the directory of UNSOLVED evidence
  pool,       \* the frame runner's worker processes
  accepted,   \* filters whose own solve (or canvas check) passed every gate
  near,       \* filters whose best solve missed only the RMS gate
  kept,       \* unsolved filters whose chain left a file it could not
              \* promote or discard (SolverChain)
  grid,       \* masters with evidence of the one pixel grid they share
  wcs,        \* wcs[f]: the solution in the product file of f, if one was
              \* accepted or inherited
  inherited,  \* filters given a solve of another master, not yet verified
  unified,    \* same_grid_unification["status"]
  checked,    \* masters on whose own pixels the refit was verified
  allSolved,  \* all_solved
  products,   \* product_paths_staged
  closing,    \* the pending exception is GeneratorExit
  mosaic,     \* request.mosaic_canvas is set: the run pauses to be placed
  result      \* what the caller got

vars == <<pc, src, captured, reads, staging, output, evidence, pool, accepted,
          near, kept, grid, wcs, inherited, unified, checked, allSolved, products,
          closing, mosaic, result>>
dirs  == <<staging, output, evidence>>
solve == <<accepted, near, kept, grid, wcs, inherited, unified, checked, allSolved,
           products>>

Solutions == {"none", "refit", "canvas"} \cup Filters

(* The steps inside the try block, in their order. *)
TrySteps == {"screen", "calibrate", "register", "measure", "place",
             "integrate", "solve", "inherit", "unify", "refit", "settle",
             "cross", "unsolved", "evidence", "syncEvidence", "preview",
             "verify", "publish", "sync"}

TypeOK ==
  /\ pc \in TrySteps \cup {"capture", "paused", "handler", "end"}
  /\ src \in 0..MaxEdits /\ captured \in 0..MaxEdits
  /\ reads \subseteq 0..MaxEdits
  /\ staging \in {"absent", "private", "leftover"}
  /\ output \in {"absent", "foreign", "solved"}
  /\ evidence \in {"absent", "foreign", "unsolved"}
  /\ pool \in {"closed", "open"}
  /\ accepted \subseteq Filters /\ near \subseteq Filters /\ kept \subseteq Filters
  /\ grid \subseteq Filters
  /\ wcs \in [Filters -> Solutions]
  /\ inherited \subseteq Filters /\ checked \subseteq Filters
  /\ unified \in {"NOT_APPLICABLE", "APPLIED", "MISMATCH"}
  /\ allSolved \in BOOLEAN
  /\ products \subseteq Filters
  /\ closing \in BOOLEAN /\ mosaic \in BOOLEAN
  /\ result \in {"none", "solved", "unsolved", "raised", "closed"}

Init ==
  /\ pc = "capture" /\ src = 0 /\ captured = 0 /\ reads = {}
  /\ staging = "absent" /\ output = "absent" /\ evidence = "absent"
  /\ pool = "closed"
  /\ accepted = {} /\ near = {} /\ kept = {} /\ grid = {}
  /\ wcs = [f \in Filters |-> "none"]
  /\ inherited = {} /\ unified = "NOT_APPLICABLE" /\ checked = {}
  /\ allSolved = FALSE /\ products = {} /\ closing = FALSE
  /\ mosaic \in BOOLEAN
  /\ result = "none"

-----------------------------------------------------------------------------
(* Around the run. *)

EditSource ==
  /\ src < MaxEdits /\ result = "none"
  /\ src' = src + 1
  /\ UNCHANGED <<pc, captured, reads, dirs, pool, solve, closing, mosaic, result>>

(* Another program, or an earlier run, puts a directory where this run     *)
(* means to publish.                                                       *)
ForeignDirectory ==
  /\ result = "none"
  /\ \/ output = "absent" /\ output' = "foreign" /\ UNCHANGED evidence
     \/ evidence = "absent" /\ evidence' = "foreign" /\ UNCHANGED output
  /\ UNCHANGED <<pc, src, captured, reads, staging, pool, solve, closing, mosaic, result>>

-----------------------------------------------------------------------------
(* Capture, screening, calibration and registration. *)

Goto(from, to) == pc = from /\ pc' = to

(* _validate_request and _validated_sources, before the try block: nothing *)
(* exists yet.                                                             *)
Refuse ==
  /\ Goto("capture", "end")
  /\ result' = "raised"
  /\ UNCHANGED <<src, captured, reads, dirs, pool, solve, closing, mosaic>>

(* The identities are captured, the staging directory made and the frame   *)
(* runner created.                                                         *)
Capture ==
  /\ Goto("capture", "screen")
  /\ output = "absent" /\ evidence = "absent"
  /\ captured' = src
  /\ staging' = "private" /\ pool' = "open"
  /\ UNCHANGED <<src, reads, output, evidence, solve, closing, mosaic, result>>

ReadSources == reads' = reads \cup {src}

(* Fewer than two admitted Lights in some panel end in evidence. *)
Screen ==
  /\ pc = "screen" /\ pc' \in {"calibrate", "unsolved"}
  /\ ReadSources
  /\ UNCHANGED <<src, captured, dirs, pool, solve, closing, mosaic, result>>

Calibrate ==
  /\ Goto("calibrate", "register")
  /\ ReadSources
  /\ UNCHANGED <<src, captured, dirs, pool, solve, closing, mosaic, result>>

(* Full-resolution transforms, then the worker pool is closed. *)
Register ==
  /\ pc = "register" /\ pc' = IF mosaic THEN "measure" ELSE "integrate"
  /\ ReadSources
  /\ pool' = "closed"
  /\ UNCHANGED <<src, captured, dirs, solve, closing, mosaic, result>>

(* A mosaic panel solves and measures its reference, then yields. *)
Measure ==
  /\ Goto("measure", "paused")
  /\ ReadSources
  /\ UNCHANGED <<src, captured, dirs, pool, solve, closing, mosaic, result>>

(* stages.send(placement) *)
Resume ==
  /\ Goto("paused", "place")
  /\ UNCHANGED <<src, captured, reads, dirs, pool, solve, closing, mosaic, result>>

(* stages.close(): GeneratorExit at the yield. *)
Close ==
  /\ Goto("paused", "handler")
  /\ closing' = TRUE
  /\ UNCHANGED <<src, captured, reads, dirs, pool, solve, mosaic, result>>

Place ==
  /\ Goto("place", "integrate")
  /\ UNCHANGED <<src, captured, reads, dirs, pool, solve, closing, mosaic, result>>

(* Every integration pass, then the candidates and their coverage gates. *)
Integrate ==
  /\ Goto("integrate", "solve")
  /\ ReadSources
  /\ grid' \in SUBSET Filters
  /\ UNCHANGED <<src, captured, dirs, pool, accepted, near, kept, wcs, inherited,
                 unified, checked, allSolved, products, closing, mosaic, result>>

-----------------------------------------------------------------------------
(* Astrometry: solve, inherit, unify, refit, cross-check. *)

(* _solve_candidates, or _verify_canvas_candidates for a mosaic panel.     *)
(* The filters run concurrently, each in its own directory; the records    *)
(* are assembled once all are done.                                        *)
Solve ==
  /\ Goto("solve", "inherit")
  /\ \E good, close, left \in SUBSET Filters :
       /\ good \cap (close \cup left) = {}
       /\ mosaic => close = {} /\ left = {}
       /\ accepted' = good /\ near' = close /\ kept' = left
       /\ wcs' = [f \in Filters |-> IF f \notin good THEN "none"
                                    ELSE IF mosaic THEN "canvas" ELSE f]
       /\ products' = good
       /\ allSolved' = (good = Filters)
  /\ UNCHANGED <<src, captured, reads, dirs, pool, grid, inherited, unified,
                 checked, closing, mosaic, result>>

(* _inherit_same_grid_solution: every unsolved master is given the best    *)
(* accepted solve or, with none, the best solve that missed only the RMS   *)
(* gate, provided all of them are on its grid and none has a file already  *)
(* (UNEXPECTED_OUTPUT_EXISTS, Raise).                                      *)
Inherit ==
  /\ Goto("inherit", "unify")
  /\ IF ~allSolved /\ CatalogRefit /\ ~mosaic
       THEN LET donors == IF accepted # {} THEN accepted ELSE near IN
            \/ \E adopted \in donors :
                 /\ {adopted} \cup (Filters \ accepted) \subseteq grid
                 /\ kept = {}
                 /\ inherited' = Filters \ accepted
                 /\ wcs' = [f \in Filters |-> IF f \in accepted THEN wcs[f] ELSE adopted]
                 /\ allSolved' = TRUE
            \/ /\ donors = {} \/ ~(donors \cup (Filters \ accepted) \subseteq grid)
               /\ UNCHANGED <<inherited, wcs>> /\ allSolved' = FALSE
       ELSE UNCHANGED <<inherited, wcs, allSolved>>
  /\ UNCHANGED <<src, captured, reads, dirs, pool, accepted, near, kept, grid,
                 unified, checked, products, closing, mosaic, result>>

(* _unify_same_grid_solutions over the masters with a solve of their own:  *)
(* all must agree before any of them is rewritten.                         *)
Unify ==
  /\ Goto("unify", "refit")
  /\ IF allSolved /\ Cardinality(accepted) > 1 /\ accepted \subseteq grid
       THEN \E agree \in BOOLEAN, adopted \in accepted :
              /\ unified' = IF agree THEN "APPLIED" ELSE "MISMATCH"
              /\ allSolved' = agree
              /\ wcs' = [f \in Filters |->
                           IF agree /\ f \in accepted THEN wcs[adopted] ELSE wcs[f]]
       ELSE UNCHANGED <<unified, allSolved, wcs>>
  /\ UNCHANGED <<src, captured, reads, dirs, pool, accepted, near, kept, grid,
                 inherited, checked, products, closing, mosaic, result>>

RefitApplies ==
  /\ CatalogRefit /\ ~mosaic /\ allSolved
  /\ (Cardinality(accepted) > 1 => unified = "APPLIED")

(* Mutant: the refit is written as soon as one master verifies it. *)
RefitAnyVerified ==
  /\ Goto("refit", "settle")
  /\ IF RefitApplies
       THEN \E good \in SUBSET Filters :
              /\ checked' = good
              /\ wcs' = [f \in Filters |-> IF good # {} THEN "refit" ELSE wcs[f]]
       ELSE UNCHANGED <<checked, wcs>>
  /\ UNCHANGED <<src, captured, reads, dirs, pool, accepted, near, kept, grid,
                 inherited, unified, allSolved, products, closing, mosaic, result>>

(* _refine_solved_wcs: every master is verified with the refit before any  *)
(* of them is rewritten; without that the solver's solutions stay.         *)
Refit ==
  /\ Goto("refit", "settle")
  /\ IF RefitApplies
       THEN \E good \in SUBSET Filters :
              /\ checked' = good
              /\ wcs' = [f \in Filters |-> IF good = Filters THEN "refit" ELSE wcs[f]]
       ELSE UNCHANGED <<checked, wcs>>
  /\ UNCHANGED <<src, captured, reads, dirs, pool, accepted, near, kept, grid,
                 inherited, unified, allSolved, products, closing, mosaic, result>>

RefitApplied == RefitApplies /\ checked = Filters

(* Mutant: inherited solutions the refit did not verify stay in place. *)
SettleKeepsInherited ==
  /\ Goto("settle", "cross")
  /\ products' = IF RefitApplied THEN products \cup inherited ELSE products
  /\ allSolved' = (allSolved /\ (inherited # {} => RefitApplied))
  /\ UNCHANGED <<src, captured, reads, dirs, pool, accepted, near, kept, grid, wcs,
                 inherited, unified, checked, closing, mosaic, result>>

(* Inherited masters are solved once the refit verified on them; otherwise *)
(* _withdraw_inherited_solutions removes their product files.              *)
SettleInherited ==
  /\ Goto("settle", "cross")
  /\ IF inherited # {} /\ ~RefitApplied
       THEN /\ wcs' = [f \in Filters |-> IF f \in inherited THEN "none" ELSE wcs[f]]
            /\ allSolved' = FALSE
            /\ UNCHANGED products
       ELSE /\ products' = products \cup inherited
            /\ UNCHANGED <<wcs, allSolved>>
  /\ UNCHANGED <<src, captured, reads, dirs, pool, accepted, near, kept, grid,
                 inherited, unified, checked, closing, mosaic, result>>

(* _validate_cross_filter_wcs: masters that carry one solution agree by    *)
(* construction, solutions of their own are compared over the field.       *)
CrossCheck ==
  /\ pc = "cross"
  /\ \E agree \in BOOLEAN :
       /\ ((\A f, g \in Filters : wcs[f] = wcs[g]) => agree)
       /\ allSolved' = (allSolved /\ agree)
  /\ pc' = IF allSolved' THEN "preview" ELSE "unsolved"
  /\ UNCHANGED <<src, captured, reads, dirs, pool, accepted, near, kept, grid, wcs,
                 inherited, unified, checked, products, closing, mosaic, result>>

-----------------------------------------------------------------------------
(* Publication. *)

(* Proper coadds are promoted and previews rendered. *)
Preview ==
  /\ Goto("preview", "verify")
  /\ UNCHANGED <<src, captured, reads, dirs, pool, solve, closing, mosaic, result>>

SourcesUnchanged == src = captured

(* Mutant: success is published without rehashing the sources. *)
VerifyNothing ==
  /\ Goto("verify", "publish")
  /\ UNCHANGED <<src, captured, reads, dirs, pool, solve, closing, mosaic, result>>

(* _verify_sources; a changed source raises SOURCE_CHANGED (Raise). *)
Verify ==
  /\ Goto("verify", "publish")
  /\ SourcesUnchanged
  /\ UNCHANGED <<src, captured, reads, dirs, pool, solve, closing, mosaic, result>>

(* The receipt is complete; the create-only rename commits. *)
Publish ==
  /\ Goto("publish", "sync")
  /\ output = "absent"
  /\ output' = "solved" /\ staging' = "absent"
  /\ UNCHANGED <<src, captured, reads, evidence, pool, solve, closing, mosaic, result>>

(* The parent directory is synced, published is set, the run returns and   *)
(* the finally block closes the pool.                                      *)
Sync ==
  /\ Goto("sync", "end")
  /\ result' = "solved" /\ pool' = "closed"
  /\ UNCHANGED <<src, captured, reads, dirs, solve, closing, mosaic>>

(* Evidence also needs unchanged sources. *)
VerifyForEvidence ==
  /\ Goto("unsolved", "evidence")
  /\ SourcesUnchanged
  /\ UNCHANGED <<src, captured, reads, dirs, pool, solve, closing, mosaic, result>>

(* _failure_result up to its create-only rename. *)
PublishEvidence ==
  /\ Goto("evidence", "syncEvidence")
  /\ evidence = "absent"
  /\ evidence' = "unsolved" /\ staging' = "absent"
  /\ UNCHANGED <<src, captured, reads, output, pool, solve, closing, mosaic, result>>

SyncEvidence ==
  /\ Goto("syncEvidence", "end")
  /\ result' = "unsolved" /\ pool' = "closed"
  /\ UNCHANGED <<src, captured, reads, dirs, solve, closing, mosaic>>

(* Any step of the try block can raise, a refused rename, a changed source *)
(* and a failed sync of the parent directory included.                     *)
Raise ==
  /\ pc \in TrySteps /\ pc' = "handler"
  /\ UNCHANGED <<src, captured, reads, dirs, pool, solve, closing, mosaic, result>>

Removed == {"absent"} \cup (IF staging = "private" THEN {"leftover"} ELSE {})

(* Mutant: the handler lists only Exception, so a close skips the cleanup. *)
HandlerExceptionOnly ==
  /\ Goto("handler", "end")
  /\ staging' \in (IF closing THEN {staging} ELSE Removed)
  /\ pool' = "closed"
  /\ result' = IF closing THEN "closed" ELSE "raised"
  /\ UNCHANGED <<src, captured, reads, output, evidence, solve, closing, mosaic>>

(* except (Exception, GeneratorExit): the private tree is removed, which   *)
(* can fail itself; finally closes the pool.                               *)
Handler ==
  /\ Goto("handler", "end")
  /\ staging' \in Removed
  /\ pool' = "closed"
  /\ result' = IF closing THEN "closed" ELSE "raised"
  /\ UNCHANGED <<src, captured, reads, output, evidence, solve, closing, mosaic>>

Done == pc = "end" /\ UNCHANGED vars

Next ==
  \/ EditSource \/ ForeignDirectory
  \/ Refuse \/ Capture \/ Screen \/ Calibrate \/ Register
  \/ Measure \/ Resume \/ Close \/ Place \/ Integrate
  \/ Solve \/ Inherit \/ Unify \/ Refit \/ SettleInherited \/ CrossCheck
  \/ Preview \/ Verify \/ Publish \/ Sync
  \/ VerifyForEvidence \/ PublishEvidence \/ SyncEvidence
  \/ Raise \/ Handler \/ Done

Spec == Init /\ [][Next]_vars

-----------------------------------------------------------------------------
(* Properties. *)

(* A solution is genuine for f when it was judged on f's own pixels: its   *)
(* own accepted solve, the accepted solve of a master that agreed with it, *)
(* the canvas check, or the refit verified on it.                          *)
Genuine(f) ==
  \/ wcs[f] = "refit" /\ f \in checked
  \/ f \in accepted /\ wcs[f] \in accepted \cup {"canvas"}

(* Success is published only when every filter has a product whose WCS was *)
(* judged on its own pixels; a solve that missed the RMS gate, or was      *)
(* inherited and not verified, and a file a solver chain could not discard *)
(* never reach the published directory                                     *)
(* (inheritance, withdrawal and refit in run_e2e_stages).                  *)
PublishedVerified ==
  output = "solved" => /\ products = Filters /\ kept = {}
                       /\ \A f \in Filters : Genuine(f)

(* A product file in the UNSOLVED evidence is stamped SOLVED, so only one  *)
(* whose solution is genuine may be there: inherited files must be gone    *)
(* (what a failed promotion left is accounted for in SolverChain).         *)
EvidenceHonest ==
  evidence = "unsolved" => \A f \in Filters : wcs[f] # "none" => Genuine(f)

(* Whatever was published was computed from the bytes the receipt names:   *)
(* the sources are hashed once at the start and again at the commit, with  *)
(* every pixel stage in between.                                           *)
PublishedFromCaptured ==
  (output = "solved" \/ evidence = "unsolved") => reads \subseteq {captured}

(* The abstract view of the run. *)
PhaseBar ==
  IF result # "none" THEN result
  ELSE IF pc = "capture" THEN "idle"
  ELSE IF pc = "paused" \/ closing THEN "paused" ELSE "running"

TreeBar ==
  IF output = "solved" THEN "product"
  ELSE IF evidence = "unsolved" THEN "evidence"
  ELSE IF staging = "private" THEN "staging"
  ELSE IF staging = "leftover" THEN "leftover" ELSE "none"

Contract == INSTANCE TargetContract WITH phase <- PhaseBar, tree <- TreeBar

(* The run implements its contract: one public directory at most, success  *)
(* returned only with the product in place, and an aborted or closed run   *)
(* leaves nothing but a private tree whose removal failed.                 *)
ImplementsContract == Contract!Spec
=============================================================================
