--------------------------- MODULE TargetRun_proof ---------------------------
(***************************************************************************)
(* Safety of TargetRun for every set of filters, and the proof that the    *)
(* run implements TargetContract.                                          *)
(***************************************************************************)
EXTENDS TargetRun, TLAPS

-----------------------------------------------------------------------------
(* The inductive invariant. *)

Unpublished == output # "solved" /\ evidence # "unsolved"

(* The private tree exists until one of the two renames; the pending       *)
(* exception of a closed run is met only while nothing was published.      *)
DirectoryShape ==
  /\ pc \in (TrySteps \ {"sync", "syncEvidence"}) \cup {"paused"} =>
       staging = "private" /\ Unpublished
  /\ pc = "capture" => staging = "absent" /\ Unpublished
  /\ pc = "sync" => staging = "absent" /\ output = "solved" /\ evidence # "unsolved"
  /\ pc = "syncEvidence" => staging = "absent" /\ evidence = "unsolved" /\ output # "solved"
  /\ pc = "handler" => IF Unpublished THEN staging = "private" ELSE staging = "absent"
  /\ ~(output = "solved" /\ evidence = "unsolved")
  /\ closing => pc \in {"handler", "end"} /\ Unpublished
  /\ result # "none" <=> pc = "end"

(* What was read lies between the capture and now. *)
SourceWindow ==
  /\ captured <= src
  /\ pc = "capture" => reads = {}
  /\ \A v \in reads : captured <= v /\ v <= src
  /\ pc \in {"publish", "evidence"} \/ ~Unpublished => reads \subseteq {captured}

(* Before the solves no product exists. *)
Unsolved == {"capture", "screen", "calibrate", "register", "measure", "paused",
             "place", "integrate", "solve"}

(* Every product in place is genuine or is an inherited one still to be    *)
(* judged. *)
SolutionShape ==
  /\ pc \in Unsolved =>
       /\ accepted = {} /\ inherited = {} /\ checked = {} /\ kept = {}
       /\ \A f \in Filters : wcs[f] = "none"
  /\ pc = "inherit" => inherited = {} /\ (allSolved => accepted = Filters)
  /\ pc \in {"inherit", "unify", "refit"} => checked = {}
  /\ pc \in {"inherit", "unify", "refit", "settle"} =>
       products = accepted /\ (allSolved => accepted \cup inherited = Filters)
  /\ \A f \in Filters : wcs[f] # "none" => Genuine(f) \/ f \in inherited
  /\ \A f \in accepted : Genuine(f)
  /\ inherited \cap accepted = {}
  /\ kept \cap accepted = {}
  /\ inherited # {} => kept = {}
  /\ inherited # {} => CatalogRefit /\ ~mosaic
  /\ checked # {} => CatalogRefit /\ ~mosaic
  /\ pc = "settle" =>
       /\ RefitApplied => \A f \in Filters : wcs[f] = "refit"
       /\ checked = Filters => RefitApplies

(* From the cross-check on nothing inherited is left unjudged, and only a  *)
(* complete set of products goes on to publication. *)
VerdictShape ==
  /\ pc \in {"cross", "preview", "verify", "publish", "sync", "unsolved", "evidence",
             "syncEvidence"} \/ ~Unpublished =>
       \A f \in Filters : wcs[f] # "none" => Genuine(f)
  /\ (pc = "cross" /\ allSolved) \/ pc \in {"preview", "verify", "publish", "sync"}
       \/ output = "solved" =>
       products = Filters /\ kept = {} /\ \A f \in Filters : Genuine(f)

IInv ==
  TypeOK /\ DirectoryShape /\ SourceWindow /\ SolutionShape /\ VerdictShape

-----------------------------------------------------------------------------
(* Each part is preserved by every step. *)

(* Type correctness of one step. *)
LEMMA NextTypeOK == ASSUME TypeOK, [Next]_vars PROVE TypeOK'
<1> USE DEF vars, dirs, solve, Goto, TypeOK, TrySteps, ReadSources, Solutions
<1>1. CASE EditSource
  <2>1. src' \in 0..MaxEdits
    BY <1>1, TargetAssumption DEF EditSource
  <2> QED
    BY <1>1, <2>1 DEF EditSource
<1>2. CASE ForeignDirectory
  BY <1>2 DEF ForeignDirectory
<1>3. CASE Done
  BY <1>3 DEF Done
<1>4. CASE Refuse
  BY <1>4 DEF Refuse
<1>5. CASE Capture
  BY <1>5 DEF Capture
<1>6. CASE Screen
  BY <1>6 DEF Screen
<1>7. CASE Calibrate
  BY <1>7 DEF Calibrate
<1>8. CASE Register
  BY <1>8 DEF Register
<1>9. CASE Measure
  BY <1>9 DEF Measure
<1>10. CASE Resume
  BY <1>10 DEF Resume
<1>11. CASE Close
  BY <1>11 DEF Close
<1>12. CASE Place
  BY <1>12 DEF Place
<1>13. CASE Integrate
  BY <1>13 DEF Integrate
<1>14. CASE Solve
  BY <1>14 DEF Solve
<1>15. CASE Inherit
  <2>1. wcs' \in [Filters -> Solutions]
    BY <1>15 DEF Inherit
  <2>2. inherited' \subseteq Filters
    BY <1>15 DEF Inherit
  <2>3. allSolved' \in BOOLEAN
    BY <1>15 DEF Inherit
  <2> QED
    BY <1>15, <2>1, <2>2, <2>3 DEF Inherit
<1>16. CASE Unify
  BY <1>16 DEF Unify
<1>17. CASE Refit
  BY <1>17 DEF Refit
<1>18. CASE SettleInherited
  <2>1. wcs' \in [Filters -> Solutions]
    BY <1>18 DEF SettleInherited
  <2>2. products' \subseteq Filters
    BY <1>18 DEF SettleInherited
  <2>3. allSolved' \in BOOLEAN
    BY <1>18 DEF SettleInherited
  <2> QED
    BY <1>18, <2>1, <2>2, <2>3 DEF SettleInherited
<1>19. CASE CrossCheck
  BY <1>19 DEF CrossCheck
<1>20. CASE Preview
  BY <1>20 DEF Preview
<1>21. CASE Verify
  BY <1>21 DEF Verify
<1>22. CASE Publish
  BY <1>22 DEF Publish
<1>23. CASE Sync
  BY <1>23 DEF Sync
<1>24. CASE VerifyForEvidence
  BY <1>24 DEF VerifyForEvidence
<1>25. CASE PublishEvidence
  BY <1>25 DEF PublishEvidence
<1>26. CASE SyncEvidence
  BY <1>26 DEF SyncEvidence
<1>27. CASE Raise
  BY <1>27 DEF Raise
<1>28. CASE Handler
  BY <1>28 DEF Handler, Removed
<1>29. CASE UNCHANGED vars
  BY <1>29
<1> QED
  BY <1>1, <1>2, <1>3, <1>4, <1>5, <1>6, <1>7, <1>8, <1>9, <1>10, <1>11, <1>12,
     <1>13, <1>14, <1>15, <1>16, <1>17, <1>18, <1>19, <1>20, <1>21, <1>22, <1>23, <1>24,
     <1>25, <1>26, <1>27, <1>28, <1>29 DEF Next

(* The directories move with the control point. *)
LEMMA NextDirectory == ASSUME TypeOK, DirectoryShape, [Next]_vars PROVE DirectoryShape'
<1> USE DEF vars, dirs, solve, Goto, DirectoryShape, TrySteps, Unpublished
<1>1. CASE EditSource \/ ForeignDirectory \/ Done
  BY <1>1 DEF EditSource, ForeignDirectory, Done
<1>2. CASE Refuse \/ Capture \/ Screen \/ Calibrate \/ Register
  BY <1>2 DEF Refuse, Capture, Screen, Calibrate, Register
<1>3. CASE Measure \/ Resume \/ Close \/ Place \/ Integrate
  BY <1>3 DEF Measure, Resume, Close, Place, Integrate
<1>4. CASE Solve
  BY <1>4 DEF Solve
<1>5. CASE Inherit
  BY <1>5 DEF Inherit
<1>6. CASE Unify
  BY <1>6 DEF Unify
<1>7. CASE Refit
  BY <1>7 DEF Refit
<1>8. CASE SettleInherited
  BY <1>8 DEF SettleInherited
<1>9. CASE CrossCheck
  BY <1>9 DEF CrossCheck
<1>10. CASE Preview \/ Verify \/ Publish \/ Sync
  BY <1>10 DEF Preview, Verify, Publish, Sync
<1>11. CASE VerifyForEvidence \/ PublishEvidence \/ SyncEvidence
  BY <1>11 DEF VerifyForEvidence, PublishEvidence, SyncEvidence
<1>12. CASE Raise
  BY <1>12 DEF Raise
<1>13. CASE Handler
  BY <1>13 DEF Handler, Removed
<1>14. CASE UNCHANGED vars
  BY <1>14
<1> QED
  BY <1>1, <1>2, <1>3, <1>4, <1>5, <1>6, <1>7, <1>8, <1>9, <1>10, <1>11, <1>12,
     <1>13, <1>14 DEF Next

(* Reads happen only between the capture and the verification. *)
LEMMA NextWindow ==
  ASSUME TypeOK, DirectoryShape, SourceWindow, [Next]_vars
  PROVE SourceWindow'
<1> USE DEF vars, dirs, solve, Goto, SourceWindow, DirectoryShape, TrySteps, ReadSources,
       SourcesUnchanged, Unpublished
<1>t. src \in Nat /\ captured \in Nat /\ reads \subseteq Nat
  BY DEF TypeOK
<1>1. CASE EditSource
  BY <1>1, <1>t DEF EditSource
<1>2. CASE ForeignDirectory
  BY <1>2, <1>t DEF ForeignDirectory
<1>3. CASE Done
  BY <1>3, <1>t DEF Done
<1>4. CASE Refuse
  BY <1>4, <1>t DEF Refuse
<1>5. CASE Capture
  BY <1>5, <1>t DEF Capture
<1>6. CASE Screen
  BY <1>6, <1>t DEF Screen
<1>7. CASE Calibrate
  BY <1>7, <1>t DEF Calibrate
<1>8. CASE Register
  BY <1>8, <1>t DEF Register
<1>9. CASE Measure
  BY <1>9, <1>t DEF Measure
<1>10. CASE Resume
  BY <1>10, <1>t DEF Resume
<1>11. CASE Close
  BY <1>11, <1>t DEF Close
<1>12. CASE Place
  BY <1>12, <1>t DEF Place
<1>13. CASE Integrate
  BY <1>13, <1>t DEF Integrate
<1>14. CASE Solve
  BY <1>14, <1>t DEF Solve
<1>15. CASE Inherit
  BY <1>15, <1>t DEF Inherit
<1>16. CASE Unify
  BY <1>16, <1>t DEF Unify
<1>17. CASE Refit
  BY <1>17, <1>t DEF Refit
<1>18. CASE SettleInherited
  BY <1>18, <1>t DEF SettleInherited
<1>19. CASE CrossCheck
  BY <1>19, <1>t DEF CrossCheck
<1>20. CASE Preview
  BY <1>20, <1>t DEF Preview
<1>21. CASE Verify
  BY <1>21, <1>t DEF Verify
<1>22. CASE Publish
  BY <1>22, <1>t DEF Publish
<1>23. CASE Sync
  BY <1>23, <1>t DEF Sync
<1>24. CASE VerifyForEvidence
  BY <1>24, <1>t DEF VerifyForEvidence
<1>25. CASE PublishEvidence
  BY <1>25, <1>t DEF PublishEvidence
<1>26. CASE SyncEvidence
  BY <1>26, <1>t DEF SyncEvidence
<1>27. CASE Raise
  BY <1>27, <1>t DEF Raise
<1>28. CASE Handler
  BY <1>28, <1>t DEF Handler
<1>29. CASE UNCHANGED vars
  BY <1>29
<1> QED
  BY <1>1, <1>2, <1>3, <1>4, <1>5, <1>6, <1>7, <1>8, <1>9, <1>10, <1>11, <1>12,
     <1>13, <1>14, <1>15, <1>16, <1>17, <1>18, <1>19, <1>20, <1>21, <1>22, <1>23, <1>24,
     <1>25, <1>26, <1>27, <1>28, <1>29 DEF Next

(* The astrometry steps keep every product genuine or on trial. *)
LEMMA NextSolution == ASSUME TypeOK, SolutionShape, [Next]_vars PROVE SolutionShape'
<1> USE DEF vars, dirs, solve, Goto, SolutionShape, Unsolved, TrySteps, Genuine,
       RefitApplied, RefitApplies
<1>t. /\ DOMAIN wcs = Filters /\ accepted \subseteq Filters /\ inherited \subseteq Filters
       /\ checked \subseteq Filters /\ near \subseteq Filters
  BY DEF TypeOK
<1>a. {"none", "refit", "canvas"} \cap Filters = {} /\ Filters # {}
  BY TargetAssumption
<1>1. CASE EditSource \/ ForeignDirectory \/ Done
  BY <1>1, <1>t, <1>a DEF EditSource, ForeignDirectory, Done
<1>2. CASE Refuse \/ Screen \/ Calibrate
  BY <1>2, <1>t, <1>a DEF Refuse, Screen, Calibrate
<1>3. CASE Capture
  BY <1>3, <1>t, <1>a DEF Capture
<1>4. CASE Register
  BY <1>4, <1>t, <1>a DEF Register
<1>5. CASE Measure \/ Resume \/ Place
  BY <1>5, <1>t, <1>a DEF Measure, Resume, Place
<1>6. CASE Close
  BY <1>6, <1>t, <1>a DEF Close
<1>7. CASE Integrate
  BY <1>7, <1>t, <1>a DEF Integrate
<1>8. CASE Solve
  <2>1. PICK good \in SUBSET Filters :
          /\ accepted' = good /\ products' = good /\ allSolved' = (good = Filters)
          /\ wcs' = [f \in Filters |-> IF f \notin good THEN "none"
                                       ELSE IF mosaic THEN "canvas" ELSE f]
    BY <1>8 DEF Solve
  <2>2. pc = "solve" /\ pc' = "inherit" /\ inherited' = {} /\ checked' = {}
    BY <1>8 DEF Solve
  <2>3. allSolved' => accepted' = Filters
    BY <2>1
  <2>5. kept' \cap accepted' = {}
    BY <1>8 DEF Solve
  <2>4. \A f \in Filters : (wcs'[f] # "none" => Genuine(f)') /\ (f \in accepted' => Genuine(f)')
    BY <2>1, <1>a
  <2> QED
    BY <2>1, <2>2, <2>3, <2>4, <2>5, <1>t, <1>a
<1>9. CASE Inherit
  BY <1>9, <1>t, <1>a DEF Inherit
<1>10. CASE Unify
  BY <1>10, <1>t, <1>a DEF Unify
<1>11. CASE Refit
  BY <1>11, <1>t, <1>a DEF Refit
<1>12. CASE SettleInherited
  <2>1. \A f \in Filters : (wcs'[f] # "none" => Genuine(f)' \/ f \in inherited')
    BY <1>12, <1>t, <1>a DEF SettleInherited
  <2>2. \A f \in accepted' : Genuine(f)'
    <3>1. inherited \cap accepted = {}
      BY <1>12, <1>t
    <3> QED
      BY <1>12, <3>1, <1>t, <1>a DEF SettleInherited
  <2>3. pc' = "cross" /\ UNCHANGED <<inherited, checked, accepted, kept, mosaic>>
    BY <1>12 DEF SettleInherited
  <2> QED
    BY <2>1, <2>2, <2>3, <1>t
<1>13. CASE CrossCheck
  BY <1>13, <1>t, <1>a DEF CrossCheck
<1>14. CASE Preview \/ Verify \/ Publish
  BY <1>14, <1>t, <1>a DEF Preview, Verify, Publish
<1>15. CASE Sync
  BY <1>15, <1>t, <1>a DEF Sync
<1>16. CASE VerifyForEvidence \/ PublishEvidence \/ SyncEvidence
  BY <1>16, <1>t, <1>a DEF VerifyForEvidence, PublishEvidence, SyncEvidence
<1>17. CASE Raise
  BY <1>17, <1>t, <1>a DEF Raise
<1>18. CASE Handler
  BY <1>18, <1>t, <1>a DEF Handler
<1>19. CASE UNCHANGED vars
  BY <1>19
<1> QED
  BY <1>1, <1>2, <1>3, <1>4, <1>5, <1>6, <1>7, <1>8, <1>9, <1>10, <1>11, <1>12,
     <1>13, <1>14, <1>15, <1>16, <1>17, <1>18, <1>19 DEF Next

(* Only judged products reach the cross-check and what follows it. *)
LEMMA NextVerdict ==
  ASSUME TypeOK, DirectoryShape, SolutionShape, VerdictShape, [Next]_vars
  PROVE VerdictShape'
<1> USE DEF vars, dirs, solve, Goto, VerdictShape, TrySteps, Genuine, Unpublished
<1>t. DOMAIN wcs = Filters /\ accepted \subseteq Filters /\ inherited \subseteq Filters
  BY DEF TypeOK
<1>a. {"none", "refit", "canvas"} \cap Filters = {} /\ Filters # {}
  BY TargetAssumption
<1>1. CASE EditSource \/ ForeignDirectory \/ Done
  BY <1>1, <1>t, <1>a DEF EditSource, ForeignDirectory, Done
<1>2. CASE Refuse \/ Calibrate \/ Register
  BY <1>2, <1>t, <1>a DEF Refuse, Calibrate, Register
<1>3. CASE Capture
  BY <1>3, <1>t, <1>a DEF Capture, DirectoryShape, SolutionShape, Unsolved, RefitApplied,
       RefitApplies
<1>4. CASE Screen
  BY <1>4, <1>t, <1>a DEF Screen, DirectoryShape, SolutionShape, Unsolved, RefitApplied,
       RefitApplies
<1>5. CASE Measure \/ Resume \/ Close \/ Place
  BY <1>5, <1>t, <1>a DEF Measure, Resume, Close, Place
<1>6. CASE Integrate
  BY <1>6, <1>t, <1>a DEF Integrate, DirectoryShape, SolutionShape, Unsolved,
       RefitApplied, RefitApplies
<1>7. CASE Solve
  BY <1>7, <1>t, <1>a DEF Solve, DirectoryShape, SolutionShape, Unsolved, RefitApplied,
       RefitApplies
<1>8. CASE Inherit
  BY <1>8, <1>t, <1>a DEF Inherit, DirectoryShape, SolutionShape, Unsolved, RefitApplied,
       RefitApplies
<1>9. CASE Unify
  BY <1>9, <1>t, <1>a DEF Unify, DirectoryShape, SolutionShape, Unsolved, RefitApplied,
       RefitApplies
<1>10. CASE Refit
  BY <1>10, <1>t, <1>a DEF Refit, DirectoryShape, SolutionShape, Unsolved, RefitApplied,
       RefitApplies
<1>11. CASE SettleInherited
  <2>1. \A f \in Filters : wcs'[f] # "none" => Genuine(f)'
    BY <1>11, <1>t, <1>a DEF SettleInherited, SolutionShape, RefitApplied, RefitApplies
  <2>2. allSolved' => /\ products' = Filters
                      /\ \A f \in Filters : Genuine(f)'
    BY <1>11, <1>t, <1>a DEF SettleInherited, SolutionShape, RefitApplied, RefitApplies
  <2>3. allSolved' => kept' = {}
    <3>k. kept \subseteq Filters
      BY DEF TypeOK
    <3> QED
      BY <1>11, <1>t, <3>k DEF SettleInherited, SolutionShape
  <2>4. pc' = "cross" /\ Unpublished'
    BY <1>11 DEF SettleInherited, DirectoryShape
  <2> QED
    BY <2>1, <2>2, <2>3, <2>4
<1>12. CASE CrossCheck
  BY <1>12, <1>t, <1>a DEF CrossCheck
<1>13. CASE Preview \/ Verify \/ Publish \/ Sync
  BY <1>13, <1>t, <1>a DEF Preview, Verify, Publish, Sync
<1>14. CASE VerifyForEvidence \/ PublishEvidence \/ SyncEvidence
  BY <1>14, <1>t, <1>a DEF VerifyForEvidence, PublishEvidence, SyncEvidence
<1>15. CASE Raise \/ Handler
  BY <1>15, <1>t, <1>a DEF Raise, Handler
<1>16. CASE UNCHANGED vars
  BY <1>16
<1> QED
  BY <1>1, <1>2, <1>3, <1>4, <1>5, <1>6, <1>7, <1>8, <1>9, <1>10, <1>11, <1>12,
     <1>13, <1>14, <1>15, <1>16 DEF Next

-----------------------------------------------------------------------------
(* The invariant and what follows from it. *)

LEMMA InitIInv == Init => IInv
<1> SUFFICES ASSUME Init PROVE IInv
  OBVIOUS
<1> USE DEF Init
<1>1. TypeOK
  <2>1. 0 \in 0..MaxEdits
    BY TargetAssumption
  <2> QED
    BY <2>1 DEF TypeOK, TrySteps, Solutions
<1>2. DirectoryShape /\ SourceWindow
  BY DEF DirectoryShape, SourceWindow, TrySteps, Unpublished
<1>3. SolutionShape /\ VerdictShape
  BY TargetAssumption DEF SolutionShape, VerdictShape, Unpublished, Unsolved
<1> QED
  BY <1>1, <1>2, <1>3 DEF IInv

LEMMA NextIInv == IInv /\ [Next]_vars => IInv'
BY NextTypeOK, NextDirectory, NextWindow, NextSolution, NextVerdict DEF IInv

(* IInv holds in every reachable state, for every set of filters. *)
THEOREM Safety == Spec => []IInv
<1>1. QED
  BY InitIInv, NextIInv, PTL DEF Spec

(* Only products whose WCS was judged on their own pixels are published as *)
(* a success, one for every filter.                                        *)
THEOREM VerifiedSuccess == Spec => []PublishedVerified
<1>1. IInv => PublishedVerified
  BY DEF IInv, VerdictShape, PublishedVerified
<1> QED
  BY <1>1, Safety, PTL

(* No unjudged solution is left in the evidence of a failure.              *)
THEOREM HonestEvidence == Spec => []EvidenceHonest
<1>1. IInv => EvidenceHonest
  BY DEF IInv, VerdictShape, EvidenceHonest, Unpublished
<1> QED
  BY <1>1, Safety, PTL

(* Everything published was read from the captured sources.                *)
THEOREM FromCaptured == Spec => []PublishedFromCaptured
<1>1. IInv => PublishedFromCaptured
  BY DEF IInv, SourceWindow, PublishedFromCaptured, Unpublished
<1> QED
  BY <1>1, Safety, PTL

-----------------------------------------------------------------------------
(* Refinement. *)

(* Every step of the run is a step of the contract or changes nothing    *)
(* the contract sees.                                                      *)
LEMMA StepRefines == ASSUME IInv, [Next]_vars PROVE [Contract!Next]_(Contract!vars)
<1> USE DEF vars, dirs, solve, Goto, TrySteps, IInv, DirectoryShape, Unpublished,
       PhaseBar, TreeBar, Contract!vars, Contract!Next
<1>1. CASE EditSource \/ ForeignDirectory \/ Done
  BY <1>1 DEF EditSource, ForeignDirectory, Done
<1>2. CASE Screen \/ Calibrate \/ Register
  BY <1>2 DEF Screen, Calibrate, Register
<1>3. CASE Refuse
  BY <1>3 DEF Refuse, Contract!Refuse
<1>4. CASE Capture
  BY <1>4 DEF Capture, Contract!Begin
<1>5. CASE Close \/ Place \/ Integrate
  BY <1>5 DEF Close, Place, Integrate
<1>6. CASE Measure
  BY <1>6 DEF Measure, Contract!Pause
<1>7. CASE Resume
  BY <1>7 DEF Resume, Contract!Resume
<1>8. CASE Solve
  BY <1>8 DEF Solve
<1>9. CASE Inherit
  BY <1>9 DEF Inherit
<1>10. CASE Unify
  BY <1>10 DEF Unify
<1>11. CASE Refit
  BY <1>11 DEF Refit
<1>12. CASE SettleInherited
  BY <1>12 DEF SettleInherited
<1>13. CASE CrossCheck
  BY <1>13 DEF CrossCheck
<1>14. CASE Preview \/ Verify
  BY <1>14 DEF Preview, Verify
<1>15. CASE Publish
  BY <1>15 DEF Publish, Contract!Publish
<1>16. CASE Sync
  BY <1>16 DEF Sync, Contract!Succeed
<1>17. CASE VerifyForEvidence
  BY <1>17 DEF VerifyForEvidence
<1>18. CASE PublishEvidence
  BY <1>18 DEF PublishEvidence, Contract!Publish
<1>19. CASE SyncEvidence
  BY <1>19 DEF SyncEvidence, Contract!Report
<1>20. CASE Raise
  BY <1>20 DEF Raise
<1>21. CASE Handler
  BY <1>21 DEF Handler, Removed, Contract!Abort, TypeOK
<1>22. CASE UNCHANGED vars
  BY <1>22
<1> QED
  BY <1>1, <1>2, <1>3, <1>4, <1>5, <1>6, <1>7, <1>8, <1>9, <1>10, <1>11, <1>12,
     <1>13, <1>14, <1>15, <1>16, <1>17, <1>18, <1>19, <1>20, <1>21, <1>22 DEF Next

(* run_e2e_stages implements the contract its callers rely on, for every   *)
(* set of filters, mosaic panel or not.                                    *)
THEOREM Refinement == Spec => ImplementsContract
<1>1. Init => Contract!Init
  BY DEF Init, Contract!Init, PhaseBar, TreeBar
<1>2. IInv /\ [Next]_vars => [Contract!Next]_(Contract!vars)
  BY StepRefines
<1> QED
  BY <1>1, <1>2, Safety, PTL DEF Spec, ImplementsContract, Contract!Spec
====
