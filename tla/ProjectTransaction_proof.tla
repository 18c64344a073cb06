---------------------- MODULE ProjectTransaction_proof ----------------------
(***************************************************************************)
(* Safety of ProjectTransaction for every number of targets and of edits:  *)
(* the inductive invariant IInv, its proof, and the theorems.  Then the    *)
(* same for MosaicProject: its steps are the project's, and StagesShape,   *)
(* with IInv, is what makes a published mosaic whole and its protected     *)
(* objects of one panel, for all nights, panels, filters and stars.        *)
(***************************************************************************)
EXTENDS MosaicProject, FiniteSetTheorems, TLAPS

-----------------------------------------------------------------------------
(* The inductive invariant. *)

(* Where each directory can exist: the private tree until one of the two   *)
(* renames, each public one only on the path that renamed it.              *)
DirectoryShape ==
  /\ pc \in (Body \ {"sync", "stageSync"}) \cup {"closing", "evidence"} =>
       staging = "private"
  /\ output = "solved" => staging = "absent" /\ pc \in {"sync", "handler", "end"}
  /\ evidence = "unsolved" =>
       staging = "absent" /\ pc \in {"stageSync", "handler", "evidenceSync", "end"}
  /\ ~(output = "solved" /\ evidence = "unsolved")
  /\ pc = "sync" => output = "solved"
  /\ pc \in {"stageSync", "evidenceSync"} => evidence = "unsolved"
  /\ pc = "handler" /\ staging = "absent" => unsynced

(* What was read lies between the capture and now, so an unchanged source  *)
(* at the verification vouches for every read before it.                   *)
SourceWindow ==
  /\ captured <= src
  /\ pc = "check" => reads = {}
  /\ \A v \in reads : captured <= v /\ v <= src
  /\ pc \in {"publish", "stageEvidence", "stageSync"} \/ output = "solved" =>
       reads \subseteq {captured}
  /\ pc = "evidence" /\ code # "SOURCE_CHANGED" => reads \subseteq {captured}

(* How far the targets have come at each point of the project. *)
Placing == {"check", "prepare", "canvas", "targets"}
TargetShape ==
  /\ \A t \in Targets :
       /\ tree[t] = "staging" => sub[t] \in {"running", "paused"}
       /\ sub[t] = "solved" => tree[t] = "product"
       /\ pc \in Placing /\ t >= next => sub[t] = "idle"
       /\ pc \in Placing /\ t < next => sub[t] \in {"running", "paused", "solved"}
       /\ pc = "resume" => sub[t] \in {"running", "paused", "solved"}
       /\ pc \in {"assemble", "align", "color", "verify", "publish"} \/ output = "solved" =>
            sub[t] = "solved"
       /\ sub[t] = "running" => pc \in {"targets", "resume", "end"}
  /\ \A t, u \in Targets : sub[t] = "running" /\ sub[u] = "running" => t = u

(* Every paused run is in the list, and the list is empty outside the loop *)
(* over the targets and the two places that empty it.                      *)
InPaused(t) == \E i \in 1..Len(paused) : paused[i] = t
PausedListed ==
  /\ \A t \in Targets : sub[t] = "paused" => InPaused(t)
  /\ pc \notin {"targets", "resume", "drain", "closing", "end"} \/ output = "solved"
       \/ evidence = "unsolved" => paused = <<>>

(* The list holds paused runs only, each once. *)
QueueShape ==
  \A i \in 1..Len(paused) :
    /\ sub[paused[i]] = "paused"
    /\ \A j \in 1..Len(paused) : paused[i] = paused[j] => i = j

(* An evidence tree is at rest. *)
EvidenceAtRest == evidence = "unsolved" => NoneRunning

ResultShape == result # "none" <=> pc = "end"

IInv ==
  /\ TypeOK /\ DirectoryShape /\ SourceWindow /\ TargetShape /\ PausedListed /\ QueueShape
  /\ EvidenceAtRest /\ ResultShape /\ DriftReported /\ ReportsOutcome

-----------------------------------------------------------------------------
(* Each part is preserved by every step. *)

(* Both ends of a list of paused runs are targets. *)
LEMMA SeqEnds == ASSUME NEW S, NEW q \in Seq(S), q # <<>>
                 PROVE Head(q) \in S /\ q[Len(q)] \in S /\ Len(q) \in Nat \ {0}
<1>1. Len(q) \in Nat \ {0}
  OBVIOUS
<1>2. q[1] \in S /\ q[Len(q)] \in S
  BY <1>1
<1> QED
  BY <1>1, <1>2

(* The directories move with the control point. *)
LEMMA NextDirectory == ASSUME TypeOK, DirectoryShape, [Next]_vars PROVE DirectoryShape'
<1> USE DEF vars, world, dirs, subruns, ending, Goto, DirectoryShape, Body, Handlers
<1>1. CASE EditSource \/ ForeignDirectory \/ Kill \/ Done
  BY <1>1 DEF EditSource, ForeignDirectory, Kill, Done
<1>2. CASE Refuse \/ Check \/ PrepareCalibration \/ PlanCanvas
  BY <1>2 DEF Refuse, Check, PrepareCalibration, PlanCanvas
<1>3. CASE StartTarget \/ TargetRefused \/ Place \/ ResumeTarget \/ TargetsDone
  BY <1>3 DEF StartTarget, TargetRefused, Place, ResumeTarget, TargetsDone
<1>4. CASE ClosePaused \/ Drained \/ Closed
  BY <1>4 DEF ClosePaused, Drained, Closed
<1>5. CASE Assemble \/ Align \/ RenderColor \/ Raise
  BY <1>5 DEF Assemble, Align, RenderColor, Raise
<1>6. CASE Verify \/ Publish \/ Sync \/ SyncFails
  BY <1>6 DEF Verify, Publish, Sync, SyncFails
<1>7. CASE StageVerify \/ StageEvidence \/ StageSync
  BY <1>7 DEF StageVerify, StageEvidence, StageSync
<1>8. CASE PublishEvidence \/ SyncEvidence \/ EvidenceFails
  BY <1>8 DEF PublishEvidence, SyncEvidence, EvidenceFails
<1>9. CASE Handle
  BY <1>9 DEF Handle, TypeOK
<1>10. ASSUME NEW t \in Targets,
         TargetPauses(t) \/ TargetPublishes(t) \/ TargetReturns(t) \/ TargetRaises(t)
       PROVE DirectoryShape'
  BY <1>10 DEF TargetPauses, TargetPublishes, TargetReturns, TargetRaises, Remains
<1>11. CASE UNCHANGED vars
  BY <1>11
<1> QED
  BY <1>1, <1>2, <1>3, <1>4, <1>5, <1>6, <1>7, <1>8, <1>9, <1>10, <1>11
  DEF Next, Step

(* A result is given exactly at the end. *)
LEMMA NextResult == ASSUME ResultShape, [Next]_vars PROVE ResultShape'
<1> USE DEF vars, world, dirs, subruns, ending, Goto, ResultShape, Body
<1>1. CASE EditSource \/ ForeignDirectory \/ Kill \/ Done
  BY <1>1 DEF EditSource, ForeignDirectory, Kill, Done
<1>2. CASE Refuse \/ Check \/ PrepareCalibration \/ PlanCanvas
  BY <1>2 DEF Refuse, Check, PrepareCalibration, PlanCanvas
<1>3. CASE StartTarget \/ TargetRefused \/ Place \/ ResumeTarget \/ TargetsDone
  BY <1>3 DEF StartTarget, TargetRefused, Place, ResumeTarget, TargetsDone
<1>4. CASE ClosePaused \/ Drained \/ Closed
  BY <1>4 DEF ClosePaused, Drained, Closed
<1>5. CASE Assemble \/ Align \/ RenderColor \/ Raise
  BY <1>5 DEF Assemble, Align, RenderColor, Raise
<1>6. CASE Verify \/ Publish \/ Sync \/ SyncFails
  BY <1>6 DEF Verify, Publish, Sync, SyncFails
<1>7. CASE StageVerify \/ StageEvidence \/ StageSync
  BY <1>7 DEF StageVerify, StageEvidence, StageSync
<1>8. CASE Handle \/ PublishEvidence \/ SyncEvidence \/ EvidenceFails
  BY <1>8 DEF Handle, PublishEvidence, SyncEvidence, EvidenceFails
<1>9. ASSUME NEW t \in Targets,
         TargetPauses(t) \/ TargetPublishes(t) \/ TargetReturns(t) \/ TargetRaises(t)
       PROVE ResultShape'
  BY <1>9 DEF TargetPauses, TargetPublishes, TargetReturns, TargetRaises, Remains
<1>10. CASE UNCHANGED vars
  BY <1>10
<1> QED
  BY <1>1, <1>2, <1>3, <1>4, <1>5, <1>6, <1>7, <1>8, <1>9, <1>10
  DEF Next, Step

(* Reads happen only between the capture and the verification. *)
LEMMA NextWindow ==
  ASSUME TypeOK, DirectoryShape, SourceWindow, [Next]_vars
  PROVE SourceWindow'
<1> USE DEF vars, world, dirs, subruns, ending, Goto, SourceWindow, DirectoryShape, Body,
       ReadSources, SourcesUnchanged
<1>t. src \in Nat /\ captured \in Nat /\ reads \subseteq Nat
  BY DEF TypeOK
<1>1. CASE EditSource
  BY <1>1, <1>t DEF EditSource
<1>2. CASE ForeignDirectory
  BY <1>2, <1>t DEF ForeignDirectory
<1>3. CASE Kill
  BY <1>3, <1>t DEF Kill
<1>4. CASE Done
  BY <1>4, <1>t DEF Done
<1>5. CASE Refuse
  BY <1>5, <1>t DEF Refuse
<1>6. CASE Check
  BY <1>6, <1>t DEF Check
<1>7. CASE PrepareCalibration
  BY <1>7, <1>t DEF PrepareCalibration
<1>8. CASE PlanCanvas
  BY <1>8, <1>t DEF PlanCanvas
<1>9. CASE StartTarget
  BY <1>9, <1>t DEF StartTarget
<1>10. CASE TargetRefused
  BY <1>10, <1>t DEF TargetRefused
<1>11. CASE Place
  BY <1>11, <1>t DEF Place
<1>12. CASE ResumeTarget
  BY <1>12, <1>t DEF ResumeTarget
<1>13. CASE TargetsDone
  BY <1>13, <1>t DEF TargetsDone
<1>14. CASE ClosePaused
  BY <1>14, <1>t DEF ClosePaused
<1>15. CASE Drained
  BY <1>15, <1>t DEF Drained
<1>16. CASE Closed
  BY <1>16, <1>t DEF Closed
<1>17. CASE Assemble
  BY <1>17, <1>t DEF Assemble
<1>18. CASE Align
  BY <1>18, <1>t DEF Align
<1>19. CASE RenderColor
  BY <1>19, <1>t DEF RenderColor
<1>20. CASE Raise
  BY <1>20, <1>t DEF Raise
<1>21. CASE Verify
  BY <1>21, <1>t DEF Verify
<1>22. CASE Publish
  BY <1>22, <1>t DEF Publish
<1>23. CASE Sync
  BY <1>23, <1>t DEF Sync
<1>24. CASE SyncFails
  BY <1>24, <1>t DEF SyncFails
<1>25. CASE StageVerify
  BY <1>25, <1>t DEF StageVerify
<1>26. CASE StageEvidence
  BY <1>26, <1>t DEF StageEvidence
<1>27. CASE StageSync
  BY <1>27, <1>t DEF StageSync
<1>28. CASE Handle
  BY <1>28, <1>t DEF Handle
<1>29. CASE PublishEvidence
  BY <1>29, <1>t DEF PublishEvidence
<1>30. CASE SyncEvidence
  BY <1>30, <1>t DEF SyncEvidence
<1>31. CASE EvidenceFails
  BY <1>31, <1>t DEF EvidenceFails
<1>32. ASSUME NEW t \in Targets, TargetPauses(t) PROVE SourceWindow'
  BY <1>32, <1>t DEF TargetPauses, Remains
<1>33. ASSUME NEW t \in Targets, TargetPublishes(t) PROVE SourceWindow'
  BY <1>33, <1>t DEF TargetPublishes, Remains
<1>34. ASSUME NEW t \in Targets, TargetReturns(t) PROVE SourceWindow'
  BY <1>34, <1>t DEF TargetReturns, Remains
<1>35. ASSUME NEW t \in Targets, TargetRaises(t) PROVE SourceWindow'
  BY <1>35, <1>t DEF TargetRaises, Remains
<1>36. CASE UNCHANGED vars
  BY <1>36
<1> QED
  BY <1>1, <1>2, <1>3, <1>4, <1>5, <1>6, <1>7, <1>8, <1>9, <1>10, <1>11, <1>12,
     <1>13, <1>14, <1>15, <1>16, <1>17, <1>18, <1>19, <1>20, <1>21, <1>22, <1>23, <1>24,
     <1>25, <1>26, <1>27, <1>28, <1>29, <1>30, <1>31, <1>32, <1>33, <1>34, <1>35, <1>36
  DEF Next, Step

(* Evidence that does not name the drift was built from one version. *)
LEMMA NextDrift ==
  ASSUME DirectoryShape, SourceWindow, DriftReported, [Next]_vars
  PROVE DriftReported'
<1> USE DEF vars, world, dirs, subruns, ending, Goto, SourceWindow, DirectoryShape,
       DriftReported, Body, ReadSources
<1>1. CASE EditSource \/ ForeignDirectory \/ Kill \/ Done
  BY <1>1 DEF EditSource, ForeignDirectory, Kill, Done
<1>2. CASE Refuse \/ Check \/ PrepareCalibration \/ PlanCanvas
  BY <1>2 DEF Refuse, Check, PrepareCalibration, PlanCanvas
<1>3. CASE StartTarget \/ TargetRefused \/ Place \/ ResumeTarget \/ TargetsDone
  BY <1>3 DEF StartTarget, TargetRefused, Place, ResumeTarget, TargetsDone
<1>4. CASE ClosePaused \/ Drained \/ Closed
  BY <1>4 DEF ClosePaused, Drained, Closed
<1>5. CASE Assemble \/ Align \/ RenderColor \/ Raise
  BY <1>5 DEF Assemble, Align, RenderColor, Raise
<1>6. CASE Verify \/ Publish \/ Sync \/ SyncFails
  BY <1>6 DEF Verify, Publish, Sync, SyncFails
<1>7. CASE StageVerify \/ StageEvidence \/ StageSync
  BY <1>7 DEF StageVerify, StageEvidence, StageSync
<1>8. CASE Handle \/ PublishEvidence \/ SyncEvidence \/ EvidenceFails
  BY <1>8 DEF Handle, PublishEvidence, SyncEvidence, EvidenceFails
<1>9. ASSUME NEW t \in Targets,
         TargetPauses(t) \/ TargetPublishes(t) \/ TargetReturns(t) \/ TargetRaises(t)
       PROVE DriftReported'
  BY <1>9 DEF TargetPauses, TargetPublishes, TargetReturns, TargetRaises, Remains
<1>10. CASE UNCHANGED vars
  BY <1>10
<1> QED
  BY <1>1, <1>2, <1>3, <1>4, <1>5, <1>6, <1>7, <1>8, <1>9, <1>10
  DEF Next, Step

(* The result agrees with the directories. *)
LEMMA NextReports ==
  ASSUME DirectoryShape, ResultShape, ReportsOutcome, [Next]_vars
  PROVE ReportsOutcome'
<1> USE DEF vars, world, dirs, subruns, ending, Goto, ResultShape, DirectoryShape,
       ReportsOutcome, Body
<1>1. CASE EditSource \/ ForeignDirectory \/ Kill \/ Done
  BY <1>1 DEF EditSource, ForeignDirectory, Kill, Done
<1>2. CASE Refuse \/ Check \/ PrepareCalibration \/ PlanCanvas
  BY <1>2 DEF Refuse, Check, PrepareCalibration, PlanCanvas
<1>3. CASE StartTarget \/ TargetRefused \/ Place \/ ResumeTarget \/ TargetsDone
  BY <1>3 DEF StartTarget, TargetRefused, Place, ResumeTarget, TargetsDone
<1>4. CASE ClosePaused \/ Drained \/ Closed
  BY <1>4 DEF ClosePaused, Drained, Closed
<1>5. CASE Assemble \/ Align \/ RenderColor \/ Raise
  BY <1>5 DEF Assemble, Align, RenderColor, Raise
<1>6. CASE Verify \/ Publish \/ Sync \/ SyncFails
  BY <1>6 DEF Verify, Publish, Sync, SyncFails
<1>7. CASE StageVerify \/ StageEvidence \/ StageSync
  BY <1>7 DEF StageVerify, StageEvidence, StageSync
<1>8. CASE Handle \/ PublishEvidence \/ SyncEvidence \/ EvidenceFails
  BY <1>8 DEF Handle, PublishEvidence, SyncEvidence, EvidenceFails
<1>9. ASSUME NEW t \in Targets,
         TargetPauses(t) \/ TargetPublishes(t) \/ TargetReturns(t) \/ TargetRaises(t)
       PROVE ReportsOutcome'
  BY <1>9 DEF TargetPauses, TargetPublishes, TargetReturns, TargetRaises, Remains
<1>10. CASE UNCHANGED vars
  BY <1>10
<1> QED
  BY <1>1, <1>2, <1>3, <1>4, <1>5, <1>6, <1>7, <1>8, <1>9, <1>10
  DEF Next, Step

(* The targets advance one at a time. *)
LEMMA NextTargets ==
  ASSUME TypeOK, DirectoryShape, TargetShape, PausedListed, [Next]_vars
  PROVE TargetShape'
<1> USE DEF vars, world, dirs, subruns, ending, Goto, TargetShape, DirectoryShape, Body,
       Targets, Placing, NoneRunning
<1>n. /\ N \in Nat /\ next \in 1..(N + 1)
       /\ DOMAIN sub = Targets /\ DOMAIN tree = Targets
  BY ProjectAssumption DEF TypeOK
<1>p. paused = <<>> => \A t \in Targets : sub[t] # "paused"
  BY DEF PausedListed, InPaused
<1>q. paused # <<>> => Head(paused) \in Targets /\ paused[Len(paused)] \in Targets
  <2>1. paused \in Seq(Targets)
    BY DEF TypeOK
  <2> QED
    BY <2>1, SeqEnds
<1>1. CASE EditSource \/ ForeignDirectory \/ Kill \/ Done
  BY <1>1, <1>n DEF EditSource, ForeignDirectory, Kill, Done
<1>2. CASE Refuse \/ Check \/ PrepareCalibration \/ PlanCanvas
  BY <1>2, <1>n DEF Refuse, Check, PrepareCalibration, PlanCanvas
<1>3. CASE StartTarget
  BY <1>3, <1>n DEF StartTarget
<1>4. CASE TargetRefused
  BY <1>4, <1>n DEF TargetRefused
<1>5. CASE Place
  BY <1>5, <1>n, <1>p DEF Place
<1>6. CASE ResumeTarget
  BY <1>6, <1>n, <1>q DEF ResumeTarget
<1>7. CASE TargetsDone
  BY <1>7, <1>p DEF TargetsDone
<1>8. CASE Drained \/ Closed
  BY <1>8, <1>n DEF Drained, Closed
<1>9. CASE ClosePaused
  BY <1>9, <1>n, <1>q DEF ClosePaused, Remains
<1>10. CASE Assemble \/ Align \/ RenderColor \/ Raise
  BY <1>10, <1>n DEF Assemble, Align, RenderColor, Raise
<1>11. CASE Verify \/ Publish \/ Sync \/ SyncFails
  BY <1>11, <1>n DEF Verify, Publish, Sync, SyncFails
<1>12. CASE StageVerify \/ StageEvidence \/ StageSync
  BY <1>12, <1>n DEF StageVerify, StageEvidence, StageSync
<1>13. CASE Handle \/ PublishEvidence \/ SyncEvidence \/ EvidenceFails
  BY <1>13, <1>n DEF Handle, PublishEvidence, SyncEvidence, EvidenceFails
<1>14. ASSUME NEW t \in Targets, TargetPauses(t) PROVE TargetShape'
  BY <1>14, <1>n DEF TargetPauses, Remains
<1>15. ASSUME NEW t \in Targets, TargetPublishes(t) PROVE TargetShape'
  BY <1>15, <1>n DEF TargetPublishes, Remains
<1>16. ASSUME NEW t \in Targets, TargetReturns(t) PROVE TargetShape'
  BY <1>16, <1>n DEF TargetReturns, Remains
<1>17. ASSUME NEW t \in Targets, TargetRaises(t) PROVE TargetShape'
  BY <1>17, <1>n DEF TargetRaises, Remains
<1>18. CASE UNCHANGED vars
  BY <1>18
<1> QED
  BY <1>1, <1>2, <1>3, <1>4, <1>5, <1>6, <1>7, <1>8, <1>9, <1>10, <1>11, <1>12,
     <1>13, <1>14, <1>15, <1>16, <1>17, <1>18
  DEF Next, Step

(* The list of paused runs loses a run only when it is resumed or closed. *)
LEMMA NextPaused ==
  ASSUME TypeOK, DirectoryShape, PausedListed, [Next]_vars
  PROVE PausedListed'
<1> USE DEF vars, world, dirs, subruns, ending, Goto, DirectoryShape, PausedListed,
       InPaused, Body
<1>t. DOMAIN sub = Targets /\ paused \in Seq(Targets)
  BY DEF TypeOK
<1>1. CASE EditSource \/ ForeignDirectory \/ Kill \/ Done
  BY <1>1, <1>t DEF EditSource, ForeignDirectory, Kill, Done
<1>2. CASE Refuse \/ Check \/ PrepareCalibration \/ PlanCanvas
  BY <1>2, <1>t DEF Refuse, Check, PrepareCalibration, PlanCanvas
<1>3. CASE Place \/ TargetsDone
  BY <1>3, <1>t DEF Place, TargetsDone
<1>4. CASE StartTarget
  BY <1>4, <1>t DEF StartTarget
<1>5. CASE TargetRefused
  BY <1>5, <1>t DEF TargetRefused
<1>6. CASE ResumeTarget
  BY <1>6, <1>t DEF ResumeTarget
<1>7. CASE Drained \/ Closed
  BY <1>7, <1>t DEF Drained, Closed
<1>8. CASE ClosePaused
  BY <1>8, <1>t DEF ClosePaused
<1>9. CASE Assemble \/ Align \/ RenderColor \/ Raise
  BY <1>9, <1>t DEF Assemble, Align, RenderColor, Raise
<1>10. CASE Verify \/ Publish \/ Sync \/ SyncFails
  BY <1>10, <1>t DEF Verify, Publish, Sync, SyncFails
<1>11. CASE StageVerify \/ StageEvidence \/ StageSync
  BY <1>11, <1>t DEF StageVerify, StageEvidence, StageSync
<1>12. CASE Handle \/ PublishEvidence \/ SyncEvidence \/ EvidenceFails
  BY <1>12, <1>t DEF Handle, PublishEvidence, SyncEvidence, EvidenceFails
<1>13. ASSUME NEW t \in Targets, TargetPauses(t) PROVE PausedListed'
  BY <1>13, <1>t DEF TargetPauses, Remains
<1>14. ASSUME NEW t \in Targets, TargetPublishes(t) PROVE PausedListed'
  BY <1>14, <1>t DEF TargetPublishes, Remains
<1>15. ASSUME NEW t \in Targets, TargetReturns(t) PROVE PausedListed'
  BY <1>15, <1>t DEF TargetReturns, Remains
<1>16. ASSUME NEW t \in Targets, TargetRaises(t) PROVE PausedListed'
  BY <1>16, <1>t DEF TargetRaises, Remains
<1>17. CASE UNCHANGED vars
  BY <1>17
<1> QED
  BY <1>1, <1>2, <1>3, <1>4, <1>5, <1>6, <1>7, <1>8, <1>9, <1>10, <1>11, <1>12,
     <1>13, <1>14, <1>15, <1>16, <1>17
  DEF Next, Step

(* A run enters the list when it pauses and leaves it before it changes. *)
LEMMA NextQueue == ASSUME TypeOK, TargetShape, QueueShape, [Next]_vars PROVE QueueShape'
<1> USE DEF vars, world, dirs, subruns, ending, Goto, QueueShape
<1>t. DOMAIN sub = Targets /\ paused \in Seq(Targets)
  BY DEF TypeOK
<1>n. pc = "targets" /\ next \in Targets => sub[next] = "idle"
  BY DEF TypeOK, TargetShape, Placing, Targets
<1>1. CASE EditSource \/ ForeignDirectory \/ Kill \/ Done
  BY <1>1, <1>t DEF EditSource, ForeignDirectory, Kill, Done
<1>2. CASE Refuse \/ Check \/ PrepareCalibration \/ PlanCanvas
  BY <1>2, <1>t DEF Refuse, Check, PrepareCalibration, PlanCanvas
<1>3. CASE Place \/ TargetsDone
  BY <1>3, <1>t DEF Place, TargetsDone
<1>4. CASE StartTarget
  BY <1>4, <1>t, <1>n DEF StartTarget
<1>5. CASE TargetRefused
  BY <1>5, <1>t, <1>n DEF TargetRefused
<1>6. CASE ResumeTarget
  BY <1>6, <1>t DEF ResumeTarget
<1>7. CASE Drained \/ Closed
  BY <1>7, <1>t DEF Drained, Closed
<1>8. CASE ClosePaused
  BY <1>8, <1>t DEF ClosePaused
<1>9. CASE Assemble \/ Align \/ RenderColor \/ Raise
  BY <1>9, <1>t DEF Assemble, Align, RenderColor, Raise
<1>10. CASE Verify \/ Publish \/ Sync \/ SyncFails
  BY <1>10, <1>t DEF Verify, Publish, Sync, SyncFails
<1>11. CASE StageVerify \/ StageEvidence \/ StageSync
  BY <1>11, <1>t DEF StageVerify, StageEvidence, StageSync
<1>12. CASE Handle \/ PublishEvidence \/ SyncEvidence \/ EvidenceFails
  BY <1>12, <1>t DEF Handle, PublishEvidence, SyncEvidence, EvidenceFails
<1>13. ASSUME NEW t \in Targets, TargetPauses(t) PROVE QueueShape'
  BY <1>13, <1>t DEF TargetPauses, Remains
<1>14. ASSUME NEW t \in Targets, TargetPublishes(t) PROVE QueueShape'
  BY <1>14, <1>t DEF TargetPublishes, Remains
<1>15. ASSUME NEW t \in Targets, TargetReturns(t) PROVE QueueShape'
  BY <1>15, <1>t DEF TargetReturns, Remains
<1>16. ASSUME NEW t \in Targets, TargetRaises(t) PROVE QueueShape'
  BY <1>16, <1>t DEF TargetRaises, Remains
<1>17. CASE UNCHANGED vars
  BY <1>17
<1> QED
  BY <1>1, <1>2, <1>3, <1>4, <1>5, <1>6, <1>7, <1>8, <1>9, <1>10, <1>11, <1>12,
     <1>13, <1>14, <1>15, <1>16, <1>17
  DEF Next, Step

(* Evidence appears only when no target is running. *)
LEMMA NextAtRest ==
  ASSUME TypeOK, DirectoryShape, TargetShape, EvidenceAtRest, [Next]_vars
  PROVE EvidenceAtRest'
<1> USE DEF vars, world, dirs, subruns, ending, Goto, DirectoryShape, TargetShape,
       EvidenceAtRest, NoneRunning, Body
<1>1. CASE EditSource \/ ForeignDirectory \/ Kill \/ Done
  BY <1>1 DEF EditSource, ForeignDirectory, Kill, Done
<1>2. CASE Refuse \/ Check \/ PrepareCalibration \/ PlanCanvas
  BY <1>2 DEF Refuse, Check, PrepareCalibration, PlanCanvas
<1>3. CASE StartTarget \/ TargetRefused \/ Place \/ ResumeTarget \/ TargetsDone
  BY <1>3 DEF StartTarget, TargetRefused, Place, ResumeTarget, TargetsDone
<1>4. CASE ClosePaused \/ Drained \/ Closed
  BY <1>4 DEF ClosePaused, Drained, Closed
<1>5. CASE Assemble \/ Align \/ RenderColor \/ Raise
  BY <1>5 DEF Assemble, Align, RenderColor, Raise
<1>6. CASE Verify \/ Publish \/ Sync \/ SyncFails
  BY <1>6 DEF Verify, Publish, Sync, SyncFails
<1>7. CASE StageVerify \/ StageEvidence \/ StageSync
  BY <1>7 DEF StageVerify, StageEvidence, StageSync
<1>8. CASE Handle \/ PublishEvidence \/ SyncEvidence \/ EvidenceFails
  BY <1>8 DEF Handle, PublishEvidence, SyncEvidence, EvidenceFails
<1>9. ASSUME NEW t \in Targets,
         TargetPauses(t) \/ TargetPublishes(t) \/ TargetReturns(t) \/ TargetRaises(t)
       PROVE EvidenceAtRest'
  BY <1>9 DEF TargetPauses, TargetPublishes, TargetReturns, TargetRaises, Remains
<1>10. CASE UNCHANGED vars
  BY <1>10
<1> QED
  BY <1>1, <1>2, <1>3, <1>4, <1>5, <1>6, <1>7, <1>8, <1>9, <1>10
  DEF Next, Step

(* Type correctness of one step. *)
LEMMA NextTypeOK == ASSUME TypeOK, [Next]_vars PROVE TypeOK'
<1> USE DEF vars, world, dirs, subruns, ending, Goto, TypeOK, Body, Handlers
<1>1. CASE ForeignDirectory \/ Done
  <2>1. CASE ForeignDirectory
    BY <2>1 DEF ForeignDirectory
  <2>2. CASE Done
    BY <2>2 DEF Done
  <2> QED
    BY <1>1, <2>1, <2>2
<1>2. CASE EditSource
  <2>1. src' \in 0..MaxEdits
    BY <1>2, ProjectAssumption DEF EditSource
  <2> QED
    BY <1>2, <2>1 DEF EditSource
<1>3. CASE Kill
  BY <1>3 DEF Kill
<1>4. CASE Refuse
  BY <1>4 DEF Refuse
<1>5. CASE Check
  BY <1>5 DEF Check
<1>6. CASE PrepareCalibration
  BY <1>6 DEF PrepareCalibration, ReadSources
<1>7. CASE PlanCanvas
  BY <1>7 DEF PlanCanvas, ReadSources
<1>8. CASE StartTarget
  <2>1. next' \in 1..(N + 1)
    BY <1>8, ProjectAssumption DEF StartTarget, Targets
  <2> QED
    BY <1>8, <2>1 DEF StartTarget
<1>9. CASE TargetRefused
  <2>1. next' \in 1..(N + 1)
    BY <1>9, ProjectAssumption DEF TargetRefused, Targets
  <2> QED
    BY <1>9, <2>1 DEF TargetRefused
<1>10. CASE Place
  BY <1>10 DEF Place
<1>11. CASE ResumeTarget
  <2>1. Head(paused) \in Targets /\ Tail(paused) \in Seq(Targets)
    BY <1>11, SeqEnds DEF ResumeTarget
  <2> QED
    BY <1>11, <2>1 DEF ResumeTarget
<1>12. CASE TargetsDone
  BY <1>12 DEF TargetsDone
<1>13. CASE Closed
  BY <1>13 DEF Closed
<1>14. CASE ClosePaused
  <2>1. SubSeq(paused, 1, Len(paused) - 1) \in Seq(Targets)
    <3>1. Len(paused) \in Nat \ {0} /\ paused \in Seq(Targets)
      BY <1>14, SeqEnds DEF ClosePaused
    <3> QED
      BY <3>1
  <2> QED
    BY <1>14, <2>1 DEF ClosePaused, Remains
<1>15. CASE Drained
  BY <1>15 DEF Drained
<1>16. CASE Assemble
  BY <1>16 DEF Assemble
<1>17. CASE Align
  BY <1>17 DEF Align
<1>18. CASE RenderColor
  BY <1>18 DEF RenderColor
<1>19. CASE Raise
  BY <1>19 DEF Raise
<1>20. CASE Verify \/ Publish \/ Sync
  <2>1. CASE Verify
    BY <2>1 DEF Verify
  <2>2. CASE Publish
    BY <2>2 DEF Publish
  <2>3. CASE Sync
    BY <2>3 DEF Sync
  <2> QED
    BY <1>20, <2>1, <2>2, <2>3
<1>21. CASE SyncFails
  BY <1>21 DEF SyncFails
<1>22. CASE StageVerify \/ StageEvidence \/ StageSync
  <2>1. CASE StageVerify
    BY <2>1 DEF StageVerify
  <2>2. CASE StageEvidence
    BY <2>2 DEF StageEvidence
  <2>3. CASE StageSync
    BY <2>3 DEF StageSync
  <2> QED
    BY <1>22, <2>1, <2>2, <2>3
<1>23. CASE PublishEvidence \/ SyncEvidence
  <2>1. CASE PublishEvidence
    BY <2>1 DEF PublishEvidence
  <2>2. CASE SyncEvidence
    BY <2>2 DEF SyncEvidence
  <2> QED
    BY <1>23, <2>1, <2>2
<1>24. CASE Handle
  BY <1>24 DEF Handle
<1>25. CASE EvidenceFails
  BY <1>25 DEF EvidenceFails
<1>26. ASSUME NEW t \in Targets, TargetPauses(t) PROVE TypeOK'
  <2>1. Append(paused, t) \in Seq(Targets)
    OBVIOUS
  <2> QED
    BY <1>26, <2>1 DEF TargetPauses, ReadSources
<1>27. ASSUME NEW t \in Targets, TargetPublishes(t) PROVE TypeOK'
  BY <1>27 DEF TargetPublishes, ReadSources, Remains
<1>28. ASSUME NEW t \in Targets, TargetReturns(t) PROVE TypeOK'
  BY <1>28 DEF TargetReturns, Remains
<1>29. ASSUME NEW t \in Targets, TargetRaises(t) PROVE TypeOK'
  BY <1>29 DEF TargetRaises, Remains
<1>30. CASE UNCHANGED vars
  BY <1>30
<1> QED
  BY <1>1, <1>2, <1>3, <1>4, <1>5, <1>6, <1>7, <1>8, <1>9, <1>10, <1>11, <1>12,
     <1>13, <1>14, <1>15, <1>16, <1>17, <1>18, <1>19, <1>20, <1>21, <1>22, <1>23, <1>24,
     <1>25, <1>26, <1>27, <1>28, <1>29, <1>30
  DEF Next, Step

-----------------------------------------------------------------------------
(* The invariant and what follows from it. *)

LEMMA InitIInv == Init => IInv
<1> SUFFICES ASSUME Init PROVE IInv
  OBVIOUS
<1> USE DEF Init
<1>1. TypeOK
  <2>1. 0 \in 0..MaxEdits /\ 1 \in 1..(N + 1)
    BY ProjectAssumption
  <2>2. <<>> \in Seq(Targets)
    OBVIOUS
  <2> QED
    BY <2>1, <2>2, Zenon DEF TypeOK, Body, Handlers
<1>2. DirectoryShape /\ ResultShape /\ DriftReported /\ ReportsOutcome /\ EvidenceAtRest
  BY DEF DirectoryShape, ResultShape, DriftReported, ReportsOutcome, EvidenceAtRest, Body
<1>3. SourceWindow
  BY DEF SourceWindow
<1>4. TargetShape /\ PausedListed /\ QueueShape
  BY ProjectAssumption DEF TargetShape, PausedListed, QueueShape, Placing, Targets
<1> QED
  BY <1>1, <1>2, <1>3, <1>4 DEF IInv

LEMMA NextIInv == IInv /\ [Next]_vars => IInv'
<1> SUFFICES ASSUME IInv, [Next]_vars PROVE IInv'
  OBVIOUS
<1> USE DEF IInv
<1>1. TypeOK' /\ DirectoryShape' /\ SourceWindow'
  BY NextTypeOK, NextDirectory, NextWindow
<1>2. TargetShape' /\ PausedListed' /\ QueueShape' /\ EvidenceAtRest'
  BY NextTargets, NextPaused, NextQueue, NextAtRest
<1>3. ResultShape' /\ DriftReported' /\ ReportsOutcome'
  BY NextResult, NextDrift, NextReports
<1> QED
  BY <1>1, <1>2, <1>3

(* IInv holds in every reachable state, for every number of targets. *)
THEOREM Safety == Spec => []IInv
<1>1. QED
  BY InitIInv, NextIInv, PTL DEF Spec

(* The project never publishes the success directory and the evidence of a *)
(* failure in one run.                                                     *)
THEOREM OneDirectory == Spec => []OnePublication
<1>1. IInv => OnePublication
  BY DEF IInv, DirectoryShape, OnePublication
<1> QED
  BY <1>1, Safety, PTL

(* The success directory is complete from the instant it appears: every    *)
(* target solved, no run paused, one version of the sources.               *)
THEOREM CompleteSuccess == Spec => []SuccessComplete
<1>1. IInv => SuccessComplete
  BY DEF IInv, TargetShape, PausedListed, SourceWindow, SuccessComplete
<1> QED
  BY <1>1, Safety, PTL

(* Evidence is published only when every panel run is closed.              *)
THEOREM CleanEvidence == Spec => []EvidenceClean
<1>1. IInv => EvidenceClean
  BY DEF IInv, TargetShape, PausedListed, EvidenceAtRest, NoneRunning, InPaused, EvidenceClean
<1> QED
  BY <1>1, Safety, PTL

(* Evidence without SOURCE_CHANGED comes from the captured sources.        *)
THEOREM DriftNamed == Spec => []DriftReported
<1>1. IInv => DriftReported
  BY DEF IInv
<1> QED
  BY <1>1, Safety, PTL

(* The result agrees with the directories while syncing succeeds.          *)
THEOREM TruthfulResult == Spec => []ReportsOutcome
<1>1. IInv => ReportsOutcome
  BY DEF IInv
<1> QED
  BY <1>1, Safety, PTL

(* The evidence of a failed run is quiescent and of one version of the     *)
(* sources, or says SOURCE_CHANGED.                                        *)
THEOREM SoundEvidence == Spec => []EvidenceSound
<1> QED
  BY CleanEvidence, DriftNamed, PTL DEF EvidenceSound

(* One directory at most, and a result that agrees with it.                *)
THEOREM HonestEnd == Spec => []EndsHonestly
<1> QED
  BY OneDirectory, TruthfulResult, PTL DEF EndsHonestly

(* Type correctness of the project transaction.                            *)
THEOREM TypeCorrect == Spec => []TypeOK
<1>1. IInv => TypeOK
  BY DEF IInv
<1> QED
  BY <1>1, Safety, PTL

(* What the contract sees of target u.                                     *)
LEMMA StepDrives ==
  ASSUME IInv, [Next]_vars, NEW u \in Targets
  PROVE  [Contract(u)!Next]_<<sub[u], tree[u]>>
<1> USE DEF vars, world, dirs, subruns, ending, Goto, Contract!Next
<1>t. /\ sub \in [Targets -> {"idle", "running", "paused", "solved", "unsolved", "raised", "closed"}]
      /\ tree \in [Targets -> {"none", "staging", "leftover", "product", "evidence"}]
  BY DEF IInv, TypeOK
<1>n. pc = "targets" /\ next \in Targets => sub[next] = "idle"
  BY DEF IInv, TypeOK, TargetShape, Placing, Targets
<1>q. paused # <<>> => sub[Head(paused)] = "paused" /\ sub[paused[Len(paused)]] = "paused"
  <2>1. paused \in Seq(Targets)
    BY DEF IInv, TypeOK
  <2>2. ASSUME paused # <<>> PROVE Len(paused) \in Nat \ {0} /\ Head(paused) = paused[1]
    BY <2>1, <2>2, SeqEnds
  <2> QED
    BY <2>1, <2>2 DEF IInv, QueueShape
<1>1. CASE UNCHANGED <<sub, tree>>
  BY <1>1
<1>2. CASE StartTarget
  BY <1>2, <1>t, <1>n DEF StartTarget, Contract!Begin
<1>3. CASE TargetRefused
  BY <1>3, <1>t, <1>n DEF TargetRefused, Contract!Refuse
<1>4. CASE ResumeTarget
  BY <1>4, <1>t, <1>q DEF ResumeTarget, Contract!Resume
<1>5. CASE ClosePaused
  BY <1>5, <1>t, <1>q DEF ClosePaused, Remains, Contract!Abort
<1>6. ASSUME NEW t \in Targets, TargetPauses(t)
      PROVE  [Contract(u)!Next]_<<sub[u], tree[u]>>
  BY <1>6, <1>t DEF TargetPauses, Contract!Pause
<1>7. ASSUME NEW t \in Targets, TargetPublishes(t)
      PROVE  [Contract(u)!Next]_<<sub[u], tree[u]>>
  BY <1>7, <1>t DEF TargetPublishes, Contract!Publish
<1>8. ASSUME NEW t \in Targets, TargetReturns(t)
      PROVE  [Contract(u)!Next]_<<sub[u], tree[u]>>
  BY <1>8, <1>t DEF TargetReturns, Contract!Succeed, Contract!Report
<1>9. ASSUME NEW t \in Targets, TargetRaises(t)
      PROVE  [Contract(u)!Next]_<<sub[u], tree[u]>>
  BY <1>9, <1>t DEF TargetRaises, Remains, Contract!Abort
<1>10. CASE \/ Refuse \/ Check \/ PrepareCalibration \/ PlanCanvas \/ Place \/ TargetsDone
            \/ Drained \/ Closed \/ Assemble \/ Align \/ RenderColor \/ Verify \/ Publish
            \/ Sync \/ SyncFails \/ StageVerify \/ StageEvidence \/ StageSync \/ Raise
            \/ Handle \/ PublishEvidence \/ SyncEvidence \/ EvidenceFails
            \/ EditSource \/ ForeignDirectory \/ Kill \/ Done
  BY <1>1, <1>10
  DEF Refuse, Check, PrepareCalibration, PlanCanvas, Place, TargetsDone, Drained, Closed,
      Assemble, Align, RenderColor, Verify, Publish, Sync, SyncFails, StageVerify,
      StageEvidence, StageSync, Raise, Handle, PublishEvidence, SyncEvidence,
      EvidenceFails, EditSource, ForeignDirectory, Kill, Done
<1>11. CASE UNCHANGED vars
  BY <1>1, <1>11
<1> QED
  BY <1>2, <1>3, <1>4, <1>5, <1>6, <1>7, <1>8, <1>9, <1>10, <1>11 DEF Next, Step

(* The project moves every target only along its contract, for any number  *)
(* of targets: what TargetRun_proof shows of one run may be used for all.  *)
THEOREM DrivesContract == Spec => DrivesByContract
<1>1. IInv /\ [Next]_vars =>
        [\A t \in Targets : [Contract(t)!Next]_<<sub[t], tree[t]>>]_<<sub, tree>>
  BY StepDrives
<1> QED
  BY <1>1, Safety, PTL DEF Spec, DrivesByContract

(* No step replaces a directory that exists.                               *)
THEOREM NothingReplaced == Spec => NeverReplaces
<1>1. [Next]_vars => [/\ (output # "absent" => output' = output)
                      /\ (evidence # "absent" => evidence' = evidence)]_<<output, evidence>>
  BY DEF Next, Step, vars, dirs, world, subruns, ending, EditSource, ForeignDirectory,
     Kill, Done, Refuse, Check, PrepareCalibration, PlanCanvas, StartTarget,
     TargetRefused, TargetPauses, TargetPublishes, TargetReturns, TargetRaises, Place,
     ResumeTarget, TargetsDone, ClosePaused, Drained, Closed, Assemble, Align,
     RenderColor, Verify, Publish, Sync, SyncFails, StageVerify, StageEvidence,
     StageSync, Raise, Handle, PublishEvidence, SyncEvidence, EvidenceFails
<1> QED
  BY <1>1, PTL DEF Spec, NeverReplaces

-----------------------------------------------------------------------------
(* Least and greatest of a finite set. *)

SmallerNat == {ss \in Nat \X Nat : ss[1] < ss[2]}

LEMMA HasLeast ==
  ASSUME NEW S, S \subseteq Nat, S # {} PROVE \E m \in S : \A k \in S : m <= k
<1>1. IsWellFoundedOn(SmallerNat, Nat)
  BY NatLessThanWellFounded DEF OpToRel, SmallerNat
<1>2. PICK m \in S : \A k \in S : ~(<<k, m>> \in SmallerNat)
  BY <1>1, WFMin
<1>3. ASSUME NEW k \in S PROVE m <= k
  <2>1. k \in Nat /\ m \in Nat
    OBVIOUS
  <2>2. k < m => <<k, m>> \in SmallerNat
    BY <2>1 DEF SmallerNat
  <2>3. ~(k < m)
    BY <1>2, <2>2
  <2> QED BY <2>1, <2>3
<1> QED BY <1>3


(* Induction over a predicate that is a function. *)
LEMMA Induction ==
  ASSUME NEW P, P[0], \A n \in Nat : P[n] => P[n + 1] PROVE \A n \in Nat : P[n]
<1> DEFINE T == {n \in Nat : ~P[n]}
<1> SUFFICES ASSUME T # {} PROVE FALSE
  OBVIOUS
<1>1. T \in SUBSET Nat
  OBVIOUS
<1> HIDE DEF T
<1>2. PICK x \in T : \A y \in T : x <= y
  BY <1>1, HasLeast
<1>3. x \in Nat /\ ~P[x]
  BY DEF T
<1>4. x # 0
  BY <1>3
<1>5. x - 1 \in Nat /\ x = (x - 1) + 1 /\ ~(x <= x - 1)
  BY <1>3, <1>4
<1>6. P[x - 1]
  BY <1>2, <1>5 DEF T
<1> QED
  BY <1>3, <1>5, <1>6

(* A finite set has a largest element under a transitive, irreflexive       *)
(* relation.                                                                *)
LEMMA FiniteLargest ==
  ASSUME NEW T, IsFiniteSet(T), T # {}, NEW R,
         \A a, b, c \in T : <<a, b>> \in R /\ <<b, c>> \in R => <<a, c>> \in R,
         \A a \in T : <<a, a>> \notin R
  PROVE  \E a \in T : \A b \in T : <<b, a>> \notin R
<1> DEFINE Has(n) == \A S \in SUBSET T : S # {} /\ Cardinality(S) = n =>
                       \E a \in S : \A b \in S : <<b, a>> \notin R
           P == [n \in Nat |-> Has(n)]
<1>1. Has(0)
  BY FS_Subset, FS_EmptySet
<1>2. ASSUME NEW n \in Nat, Has(n) PROVE Has(n + 1)
  <2> SUFFICES ASSUME NEW S \in SUBSET T, S # {}, Cardinality(S) = n + 1
               PROVE  \E a \in S : \A b \in S : <<b, a>> \notin R
    OBVIOUS
  <2>1. PICK c \in S : TRUE
    OBVIOUS
  <2> DEFINE U == S \ {c}
  <2>2. U \in SUBSET T /\ Cardinality(U) = n
    <3>1. IsFiniteSet(S)
      BY FS_Subset
    <3>2. Cardinality(U) = Cardinality(S) - 1
      BY <2>1, <3>1, FS_RemoveElement
    <3>3. Cardinality(U) = n
      BY <3>2
    <3> QED
      BY <3>3
  <2>3. CASE U = {}
    <3>1. S = {c}
      BY <2>3
    <3> QED
      BY <3>1
  <2>4. CASE U # {}
    <3>1. PICK a \in U : \A b \in U : <<b, a>> \notin R
      BY <1>2, <2>2, <2>4
    <3>2. CASE <<c, a>> \notin R
      BY <3>1, <3>2
    <3>3. CASE <<c, a>> \in R
      <4>1. \A b \in S : b = c \/ b \in U
        OBVIOUS
      <4>2. \A b \in U : <<b, c>> \notin R
        BY <3>1, <3>3
      <4> QED
        BY <4>1, <4>2
    <3> QED
      BY <3>2, <3>3
  <2> QED
    BY <2>3, <2>4
<1>3. \A n \in Nat : P[n] <=> Has(n)
  OBVIOUS
<1> HIDE DEF P, Has
<1>4. P[0]
  BY <1>1, <1>3
<1>5. \A n \in Nat : P[n] => P[n + 1]
  BY <1>2, <1>3
<1>6. \A n \in Nat : Has(n)
  BY <1>3, <1>4, <1>5, Induction
<1>7. Cardinality(T) \in Nat
  BY FS_CardinalityType
<1> QED
  BY <1>6, <1>7 DEF Has


LEMMA MaxIs ==
  ASSUME NEW T \in SUBSET Int, IsFiniteSet(T), T # {}
  PROVE  Max(T) \in T /\ \A y \in T : Max(T) >= y
<1> DEFINE R == {p \in Int \X Int : p[1] > p[2]}
<1>1. \A a, b \in Int : <<a, b>> \in R <=> a > b
  OBVIOUS
<1> HIDE DEF R
<1>2. \E a \in T : \A b \in T : <<b, a>> \notin R
  <2>1. \A a, b, c \in T : <<a, b>> \in R /\ <<b, c>> \in R => <<a, c>> \in R
    BY <1>1
  <2>2. \A a \in T : <<a, a>> \notin R
    BY <1>1
  <2> QED
    BY <2>1, <2>2, FiniteLargest
<1>3. \E a \in T : \A b \in T : a >= b
  <2>1. \A a, b \in T : <<b, a>> \notin R => a >= b
    BY <1>1
  <2> QED
    BY <1>2, <2>1
<1> QED
  BY <1>3 DEF Max

LEMMA MinIs ==
  ASSUME NEW T \in SUBSET Int, IsFiniteSet(T), T # {}
  PROVE  Min(T) \in T /\ \A y \in T : Min(T) <= y
<1> DEFINE R == {p \in Int \X Int : p[1] < p[2]}
<1>1. \A a, b \in Int : <<a, b>> \in R <=> a < b
  OBVIOUS
<1> HIDE DEF R
<1>2. \E a \in T : \A b \in T : <<b, a>> \notin R
  <2>1. \A a, b, c \in T : <<a, b>> \in R /\ <<b, c>> \in R => <<a, c>> \in R
    BY <1>1
  <2>2. \A a \in T : <<a, a>> \notin R
    BY <1>1
  <2> QED
    BY <2>1, <2>2, FiniteLargest
<1>3. \E a \in T : \A b \in T : a <= b
  <2>1. \A a, b \in T : <<b, a>> \notin R => a <= b
    BY <1>1
  <2> QED
    BY <1>2, <2>1
<1> QED
  BY <1>3 DEF Min


-----------------------------------------------------------------------------
(* Every step of a project under a sky is a step of the project alone: the *)
(* data only choose among the outcomes ProjectTransaction allows.          *)
LEMMA StepOfProject == [MosaicNext]_mosaicVars => [Next]_vars
<1> SUFFICES ASSUME [MosaicNext]_mosaicVars PROVE [Next]_vars
  OBVIOUS
<1>1. CASE PlanOnSky
  BY <1>1 DEF PlanOnSky, Next, Step
<1>2. CASE PlaceOnSky
  BY <1>2 DEF PlaceOnSky, Next, Step
<1>3. CASE AssembleOnSky
  BY <1>3 DEF AssembleOnSky, Next, Step
<1>4. CASE AssembleNext
  BY <1>4 DEF AssembleNext
<1>5. CASE OtherStep
  BY <1>5 DEF OtherStep, Next, Step
<1>6. CASE OutsideStep
  BY <1>6 DEF OutsideStep, Next
<1>7. CASE UNCHANGED mosaicVars
  BY <1>7 DEF mosaicVars
<1> QED
  BY <1>1, <1>2, <1>3, <1>4, <1>5, <1>6, <1>7 DEF MosaicNext, ProjectStep

(* The project whose stages are computed from the sky implements the       *)
(* project whose stages may end in any way.                                *)
THEOREM MosaicImplements == MosaicSpec => Spec
<1>1. MosaicInit => Init
  BY DEF MosaicInit
<1> QED
  BY <1>1, StepOfProject, PTL DEF MosaicSpec, Spec

(* What was proved of the project holds under every sky: at most one of    *)
(* the directories, a result that agrees with it, evidence at rest and of  *)
(* one version of the sources, every panel driven within its contract.     *)
THEOREM SafeUnderEverySky ==
  MosaicSpec => [](EvidenceSound /\ EndsHonestly) /\ DrivesByContract
<1> QED
  BY MosaicImplements, SoundEvidence, HonestEnd, DrivesContract, PTL

-----------------------------------------------------------------------------
(* The parts of a graph. *)

LEMMA LinkedIsClosed ==
  ASSUME NEW S, NEW links, NEW k \in S
  PROVE  k \in Linked(S, links, k) /\ ClosedUnder(Linked(S, links, k), S, links)
BY DEF Linked, ClosedUnder

(* What is linked is linked back: the others of a closed set are closed. *)
LEMMA LinkedBack ==
  ASSUME NEW S, NEW links, NEW k \in S, NEW j \in Linked(S, links, k)
  PROVE  k \in Linked(S, links, j)
<1> SUFFICES ASSUME NEW C \in SUBSET S, j \in C, ClosedUnder(C, S, links), k \notin C PROVE FALSE
  BY DEF Linked
<1>1. ClosedUnder(S \ C, S, links)
  <2> SUFFICES ASSUME NEW a \in S \ C, NEW b \in S, {a, b} \in links PROVE b \notin C
    BY DEF ClosedUnder
  <2>1. {b, a} \in links
    <3>1. {b, a} = {a, b}
      OBVIOUS
    <3> QED BY <3>1
  <2> QED BY <2>1 DEF ClosedUnder
<1>2. S \ C \in SUBSET S /\ k \in S \ C
  OBVIOUS
<1> QED BY <1>1, <1>2 DEF Linked

LEMMA LinkedOn ==
  ASSUME NEW S, NEW links, NEW k \in S, NEW j \in Linked(S, links, k)
  PROVE  Linked(S, links, j) \subseteq Linked(S, links, k)
BY DEF Linked

LEMMA LinkedAlike ==
  ASSUME NEW S, NEW links, NEW k \in S, NEW j \in Linked(S, links, k)
  PROVE  Linked(S, links, j) = Linked(S, links, k)
<1>1. j \in S
  BY DEF Linked
<1>2. k \in Linked(S, links, j)
  BY LinkedBack
<1> QED BY <1>1, <1>2, LinkedOn

(* The parts share a set out among them, and linked elements are in one.   *)
LEMMA PartsPartition ==
  ASSUME NEW S, NEW links
  PROVE  /\ UNION Parts(S, links) = S
         /\ \A C, D \in Parts(S, links) : C \cap D # {} => C = D
         /\ \A C \in Parts(S, links) : C \subseteq S /\ C # {}
         /\ \A C, D \in Parts(S, links) : \A a \in C, b \in D : {a, b} \in links => C = D
<1>1. \A C \in Parts(S, links) : C \subseteq S
  BY DEF Parts, Linked
<1>2. \A C \in Parts(S, links) : C # {}
  BY LinkedIsClosed DEF Parts
<1>3. \A C, D \in Parts(S, links) : \A a : a \in C /\ a \in D => C = D
  <2> SUFFICES ASSUME NEW k \in S, NEW l \in S, NEW a \in Linked(S, links, k), a \in Linked(S, links, l)
               PROVE  Linked(S, links, k) = Linked(S, links, l)
    BY DEF Parts
  <2> QED BY LinkedAlike
<1>4. S \subseteq UNION Parts(S, links)
  <2> SUFFICES ASSUME NEW k \in S PROVE k \in UNION Parts(S, links)
    OBVIOUS
  <2>1. k \in Linked(S, links, k) /\ Linked(S, links, k) \in Parts(S, links)
    BY LinkedIsClosed DEF Parts
  <2> QED BY <2>1
<1>5. ASSUME NEW C \in Parts(S, links), NEW D \in Parts(S, links), NEW a \in C, NEW b \in D,
             {a, b} \in links
      PROVE  C = D
  <2>1. PICK k \in S : C = Linked(S, links, k)
    BY DEF Parts
  <2>2. a \in S /\ b \in S
    BY <1>1
  <2>3. b \in C
    BY <1>5, <2>1, <2>2, LinkedIsClosed DEF ClosedUnder
  <2> QED BY <1>3, <2>3
<1>6. UNION Parts(S, links) \subseteq S
  BY <1>1
<1> QED BY <1>1, <1>2, <1>3, <1>4, <1>5, <1>6

-----------------------------------------------------------------------------
(* A published mosaic is whole. *)

LEMMA ComponentOf ==
  ASSUME NEW P, NEW E, NEW scene, NEW frame, NEW verifier, NEW sky
  PROVE  /\ AssembleComponent(P, E, scene, frame, verifier, sky).panels = Keys(P)
         /\ AssembleComponent(P, E, scene, frame, verifier, sky).blobs = BlendFilter(P, E, scene, frame).blobs
         /\ AssembleComponent(P, E, scene, frame, verifier, sky).columns
              = BlendFilter(P, E, scene, frame).columns
BY DEF AssembleComponent, BlendedComponent, GatedComponent, Component

(* What assemble_filter makes of a part C of a filter's panels.            *)
CanvasOf(P, E, frame, C) == IF C = LargestComponent(P, E) THEN frame ELSE Boundary(Members(P, C))
PartOf(P, E, scene, frame, verifier, sky, C) ==
  AssembleComponent(Members(P, C), Within(E, C), scene, CanvasOf(P, E, frame, C), verifier, sky)

LEMMA PartHasItsPanels ==
  ASSUME NEW P, NEW E, NEW scene, NEW frame, NEW verifier, NEW sky, NEW C \in Components(P, E)
  PROVE  PartOf(P, E, scene, frame, verifier, sky, C).panels = C
<1>1. C \subseteq Keys(P)
  BY PartsPartition DEF Components
<1>2. Keys(Members(P, C)) = C
  BY <1>1 DEF Keys, Members
<1> QED BY <1>2, ComponentOf DEF PartOf

(* The components of a filter share out its panels.                        *)
SharedOut(m, P) ==
  /\ UNION {c.panels : c \in m.components} = Keys(P)
  /\ \A c, d \in m.components : c.panels \cap d.panels # {} => c = d
  /\ m.failed = (\E c \in m.components : Failed(c))

LEMMA FilterShared ==
  ASSUME NEW P, NEW scene, NEW noise, NEW frame, NEW verifier, NEW sky
  PROVE  SharedOut(AssembleFilter(P, scene, noise, frame, verifier, sky), P)
<1> DEFINE m == AssembleFilter(P, scene, noise, frame, verifier, sky)
           E == Edges(P, scene, noise)
           Part(C) == PartOf(P, E, scene, frame, verifier, sky, C)
           parts == Components(P, E)
<1>1. m.components = {Part(C) : C \in parts} /\ m.failed = (\E c \in m.components : Failed(c))
  BY DEF AssembleFilter, AssembleEdges, AssembleParts, FilterOf, PartOf, CanvasOf
<1>2. \A C \in parts : Part(C).panels = C
  BY PartHasItsPanels
<1>3. UNION parts = Keys(P) /\ \A C, D \in parts : C \cap D # {} => C = D
  BY PartsPartition DEF Components
<1> HIDE DEF m, Part, parts, E
<1>4. {c.panels : c \in m.components} = parts
  BY <1>1, <1>2
<1>5. ASSUME NEW c \in m.components, NEW d \in m.components, c.panels \cap d.panels # {} PROVE c = d
  <2>1. PICK C \in parts : c = Part(C)
    BY <1>1
  <2>2. PICK D \in parts : d = Part(D)
    BY <1>1
  <2> QED BY <1>2, <1>3, <1>5, <2>1, <2>2
<1>6. SharedOut(m, P)
  BY <1>1, <1>3, <1>4, <1>5 DEF SharedOut
<1> QED BY <1>6 DEF m

(* Where the stages stand: nothing is assembled before the panels are      *)
(* placed, every mosaic is that of its filter on the canvas as it is, and  *)
(* what follows the assembly follows only if nothing was refused.          *)
Assembled(f) == \E sky : mosaics[f] = Mosaic(night, canvas, f, sky)
StagesShape ==
  /\ night \in Nights /\ pending \subseteq FiltersOf(night)
  /\ canvas.plan \in {NoPlan, Planned[night].plan} /\ canvas.shift \in {NoShift, Solved[night].shift}
  /\ DOMAIN canvas = {"plan", "shift"}
  /\ DOMAIN mosaics = FiltersOf(night) \ pending
  /\ pc \in Placing \cup {"resume"} => DOMAIN mosaics = {}
  /\ \A f \in DOMAIN mosaics : Assembled(f)
  /\ IsMosaic /\ (pc \in {"align", "color", "verify", "publish"} \/ output = "solved") =>
       pending = {} /\ AssemblyRefusal(mosaics) = "none"

MosaicInv == IInv /\ StagesShape

LEMMA InitStages == MosaicInit => StagesShape
BY DEF MosaicInit, Init, StagesShape, Placing, IsMosaic, NoCanvas

(* The steps that leave the stages alone reach the end of the project only *)
(* from where it already was.                                              *)
LEMMA PointOfProject ==
  ASSUME IInv, OtherStep \/ OutsideStep
  PROVE  /\ pc' \in Placing \cup {"resume"} => pc \in Placing \cup {"resume"}
         /\ pc' \in {"align", "color", "verify", "publish"} \/ output' = "solved" =>
              pc \in {"align", "color", "verify", "publish"} \/ output = "solved"
BY DEF IInv, TypeOK, DirectoryShape, Placing, Body, OtherStep, OutsideStep, vars, dirs, world,
     subruns, ending, Goto, EditSource, ForeignDirectory,
     Kill, Done, Refuse, Check, PrepareCalibration, StartTarget,
     TargetRefused, TargetPauses, TargetPublishes, TargetReturns, TargetRaises,
     ResumeTarget, TargetsDone, ClosePaused, Drained, Closed, Align,
     RenderColor, Verify, Publish, Sync, SyncFails, StageVerify, StageEvidence,
     StageSync, Raise, Handle, PublishEvidence, SyncEvidence, EvidenceFails

(* The filter assembled next is one that is still to be assembled.         *)
LEMMA NextIsPending ==
  ASSUME night \in Nights, pending \subseteq FiltersOf(night), pending # {}
  PROVE  NextFilter(FiltersOf(night), pending) \in pending
<1> DEFINE I == {i \in DOMAIN Alphabet : Alphabet[i] \in pending}
<1>1. I \subseteq Nat /\ I # {}
  BY FilterAssumption
<1>2. Min(I) \in I
  <2>1. \E i \in I : \A j \in I : i <= j
    BY <1>1, HasLeast
  <2> QED BY <2>1 DEF Min
<1>3. First(Alphabet, pending) \in pending
  BY <1>2 DEF First
<1> QED BY <1>3 DEF NextFilter

LEMMA NextStages ==
  ASSUME IInv, StagesShape, [MosaicNext]_mosaicVars PROVE StagesShape'
<1>d. /\ pc = "assemble" \/ pc = "canvas" \/ pc = "targets" => output # "solved"
      /\ pc \in Placing => DOMAIN mosaics = {}
  BY DEF IInv, DirectoryShape, StagesShape
<1>1. CASE PlanOnSky
  <2>1. pc = "canvas" /\ pc' \in {"targets", "stageVerify"} /\ UNCHANGED <<night, pending, mosaics, output>>
    BY <1>1 DEF PlanOnSky, PlanCanvas, dirs
  <2>2. /\ DOMAIN canvas' = {"plan", "shift"} /\ canvas'.shift = canvas.shift
        /\ canvas'.plan = Planned[night].plan
    BY <1>1 DEF PlanOnSky, StagesShape
  <2> QED BY <1>d, <2>1, <2>2 DEF StagesShape, Placing
<1>2. CASE PlaceOnSky
  <2>1. pc = "targets" /\ pc' \in {"resume", "assemble"} /\ UNCHANGED <<night, pending, mosaics, output>>
    BY <1>2 DEF PlaceOnSky, Place, dirs
  <2>2. /\ DOMAIN canvas' = {"plan", "shift"} /\ canvas'.plan = canvas.plan
        /\ canvas'.shift \in {canvas.shift, Solved[night].shift}
    BY <1>2 DEF PlaceOnSky, StagesShape
  <2> QED BY <1>d, <2>1, <2>2 DEF StagesShape, Placing
<1>3. CASE AssembleNext
  <2> DEFINE filter == NextFilter(FiltersOf(night), pending)
  <2>1. /\ pc = "assemble" /\ pc' = pc /\ UNCHANGED <<night, canvas, output>>
        /\ pending' = pending \ {filter}
        /\ \E sky : mosaics' = [f \in DOMAIN mosaics \cup {filter} |->
                                  IF f = filter THEN Mosaic(night, canvas, f, sky) ELSE mosaics[f]]
    BY <1>3 DEF AssembleNext, vars
  <2>2. filter \in pending
    BY <1>3, NextIsPending DEF AssembleNext, StagesShape
  <2> HIDE DEF filter
  <2>3. \A f \in DOMAIN mosaics' : Assembled(f)'
    <3> SUFFICES ASSUME NEW f \in DOMAIN mosaics' PROVE \E sky : mosaics'[f] = Mosaic(night', canvas', f, sky)
      BY DEF Assembled
    <3>1. PICK s : mosaics' = [g \in DOMAIN mosaics \cup {filter} |->
                                  IF g = filter THEN Mosaic(night, canvas, g, s) ELSE mosaics[g]]
      BY <2>1
    <3>2. CASE f = filter
      BY <2>1, <3>1, <3>2
    <3>3. CASE f # filter
      <4>1. f \in DOMAIN mosaics /\ mosaics'[f] = mosaics[f]
        BY <3>1, <3>3
      <4> QED BY <2>1, <4>1 DEF StagesShape, Assembled
    <3> QED BY <3>2, <3>3
  <2>4. DOMAIN mosaics' = DOMAIN mosaics \cup {filter}
    BY <2>1
  <2>5. DOMAIN mosaics' = FiltersOf(night') \ pending' /\ pending' \subseteq FiltersOf(night')
    BY <2>1, <2>2, <2>4 DEF StagesShape
  <2> QED BY <1>d, <2>1, <2>3, <2>5 DEF StagesShape, Placing
<1>4. CASE AssembleOnSky
  <2>1. /\ pc = "assemble" /\ pc' \in {"align", "stageVerify"} /\ UNCHANGED <<stages, output>>
        /\ IsMosaic => pending = {} /\ (pc' = "align" => AssemblyRefusal(mosaics) = "none")
    BY <1>4 DEF AssembleOnSky, Assemble, dirs
  <2> QED BY <1>d, <2>1 DEF StagesShape, Placing, stages, Assembled
<1>5. CASE OtherStep \/ OutsideStep
  <2>1. UNCHANGED stages
    BY <1>5 DEF OtherStep, OutsideStep
  <2> QED BY <1>5, <2>1, PointOfProject DEF StagesShape, stages, Assembled
<1>6. CASE UNCHANGED mosaicVars
  BY <1>6 DEF mosaicVars, vars, stages, StagesShape, Assembled
<1> QED BY <1>1, <1>2, <1>3, <1>4, <1>5, <1>6 DEF MosaicNext, ProjectStep

LEMMA InvOfMosaic == MosaicSpec => []MosaicInv
<1>1. MosaicInit => MosaicInv
  BY InitIInv, InitStages DEF MosaicInit, MosaicInv
<1>2. MosaicInv /\ [MosaicNext]_mosaicVars => MosaicInv'
  BY NextIInv, StepOfProject, NextStages DEF MosaicInv
<1> QED BY <1>1, <1>2, PTL DEF MosaicSpec

(* A mosaic is published only whole and gated.                             *)
LEMMA PublishedWhole == MosaicInv => MosaicComplete
<1> SUFFICES ASSUME MosaicInv, output = "solved", IsMosaic, NEW f \in FiltersOf(night)
             PROVE  /\ f \in DOMAIN mosaics
                    /\ UNION {c.panels : c \in mosaics[f].components} = PanelsIn(night, f)
                    /\ \A c, d \in mosaics[f].components : c.panels \cap d.panels # {} => c = d
                    /\ \A c \in mosaics[f].components : ~Failed(c)
                    /\ Verified(mosaics[f])
  BY DEF MosaicComplete
<1>1. f \in DOMAIN mosaics /\ AssemblyRefusal(mosaics) = "none" /\ Assembled(f)
  BY DEF MosaicInv, StagesShape
<1>2. ~mosaics[f].failed /\ Verified(mosaics[f])
  BY <1>1 DEF AssemblyRefusal
<1>3. PICK sky : mosaics[f] = AssembleFilter(Masters(night, canvas, f), Scene(night, canvas, f),
                                Sky[night].noise[f], CanvasFrame(night, canvas), Sky[night].verifier, sky)
  BY <1>1 DEF Assembled, Mosaic
<1>4. Keys(Masters(night, canvas, f)) = PanelsIn(night, f)
  <2>1. \A k : Master(night, canvas, f, k).key = k
    BY DEF Master
  <2> QED BY <2>1 DEF Masters, Keys
<1>5. SharedOut(mosaics[f], Masters(night, canvas, f))
  BY <1>3, FilterShared
<1> QED BY <1>1, <1>2, <1>4, <1>5 DEF SharedOut

(* A success directory holds the products of every panel, and the mosaic   *)
(* of every filter: assembled from all panels that have it, no gate failed *)
(* in any component, its WCS verified by the catalog (_canvas_mosaic_stage,*)
(* _assemble_canvas_mosaics).                                              *)
THEOREM PublishesWhole == MosaicSpec => []SuccessWhole
<1>1. MosaicInv => SuccessWhole
  BY PublishedWhole DEF MosaicInv, IInv, TargetShape, PausedListed, SourceWindow, SuccessComplete, SuccessWhole
<1> QED BY <1>1, InvOfMosaic, PTL

-----------------------------------------------------------------------------
(* Protected objects (mosaic/protect.py, mosaic/blend.py). *)

LEMMA FiniteImage ==
  ASSUME NEW S, IsFiniteSet(S), NEW g
  PROVE  IsFiniteSet({g[x] : x \in S})
<1>1. [x \in S |-> g[x]] \in Surjection(S, {g[x] : x \in S})
  BY DEF Surjection
<1> QED BY <1>1, FS_Surjection

LEMMA MaxOfTwo ==
  ASSUME NEW a \in Int, NEW b \in Int
  PROVE  Max({a, b}) \in {a, b} /\ Max({a, b}) >= a /\ Max({a, b}) >= b
<1>1. \E m \in {a, b} : \A y \in {a, b} : m >= y
  OBVIOUS
<1> QED BY <1>1 DEF Max

LEMMA AtLeastOne == ASSUME NEW b \in Int PROVE Max({1, b}) \in Nat \ {0}
<1>1. Max({1, b}) \in {1, b} /\ Max({1, b}) >= 1
  BY MaxOfTwo
<1> QED BY <1>1

LEMMA MinOfTwo ==
  ASSUME NEW a \in Int, NEW b \in Int
  PROVE  Min({a, b}) \in {a, b} /\ Min({a, b}) <= a /\ Min({a, b}) <= b
<1>1. \E m \in {a, b} : \A y \in {a, b} : m <= y
  OBVIOUS
<1> QED BY <1>1 DEF Min

(* A column is nowhere away from a set it is in, and away from any other.  *)
LEMMA AwayIs ==
  ASSUME NEW S, S \subseteq Int, S # {}, NEW x \in Int
  PROVE  Away(x, S) \in Nat /\ (Away(x, S) = 0 <=> x \in S)
<1> DEFINE D == {Distance(x, y) : y \in S}
<1>1. \A y \in S : Distance(x, y) \in Nat /\ (Distance(x, y) = 0 <=> x = y)
  BY DEF Distance
<1>2. D \subseteq Nat /\ D # {}
  BY <1>1
<1>3. Min(D) \in D /\ \A d \in D : Min(D) <= d
  <2>1. \E m \in D : \A d \in D : m <= d
    BY <1>2, HasLeast
  <2> QED BY <2>1 DEF Min
<1>4. Away(x, S) = Min(D)
  BY DEF Away
<1>5. ASSUME x \in S PROVE Min(D) = 0
  <2>1. 0 \in D
    BY <1>1, <1>5
  <2>2. Min(D) <= 0 /\ Min(D) \in Nat
    BY <1>2, <1>3, <2>1
  <2> QED BY <2>2
<1>6. ASSUME Min(D) = 0 PROVE x \in S
  BY <1>1, <1>3, <1>6
<1> QED BY <1>2, <1>3, <1>4, <1>5, <1>6

(* The median of numbers is one. *)
LEMMA MedianIs ==
  ASSUME NEW f, IsFiniteSet(DOMAIN f), DOMAIN f # {}, \A x \in DOMAIN f : f[x] \in Int
  PROVE  MedianOf(f) \in Int
<1> DEFINE D == DOMAIN f
           T == {f[x] : x \in D}
           Half == {y \in D : 100 * Cardinality({z \in D : f[z] <= f[y]}) >= 50 * Cardinality(D)}
           M == {f[x] : x \in Half}
<1>1. T \in SUBSET Int /\ IsFiniteSet(T) /\ T # {}
  BY FiniteImage
<1>2. PICK y \in D : \A z \in D : f[z] <= f[y]
  <2>1. Max(T) \in T /\ \A t \in T : Max(T) >= t
    BY <1>1, MaxIs
  <2>2. PICK y \in D : Max(T) = f[y]
    BY <2>1
  <2>3. \A z \in D : f[z] \in T
    OBVIOUS
  <2>4. \A z \in D : f[z] <= f[y]
    BY <2>1, <2>2, <2>3
  <2> QED BY <2>4
<1>3. {z \in D : f[z] <= f[y]} = D
  BY <1>2
<1>4. y \in Half
  <2>1. Cardinality(D) \in Nat
    BY FS_CardinalityType
  <2>2. 100 * Cardinality(D) >= 50 * Cardinality(D)
    BY <2>1
  <2> QED BY <1>3, <2>2
<1>5. M \subseteq T /\ M # {}
  BY <1>4
<1>6. Min(M) \in M
  <2>1. M \in SUBSET Int /\ IsFiniteSet(M)
    BY <1>1, <1>5, FS_Subset
  <2> QED BY <1>5, <2>1, MinIs
<1>7. MedianOf(f) = Min(M)
  BY DEF MedianOf, Percentile
<1> QED BY <1>1, <1>5, <1>6, <1>7

(* What the panels, overlaps and scene of a filter are. *)
IsPanel(p) ==
  /\ p.key \in Nat /\ p.lo \in Int /\ p.hi \in Int /\ p.gain \in Int /\ p.fwhm \in Nat
  /\ DOMAIN p.depth = p.lo .. (p.hi - 1) /\ \A x \in DOMAIN p.depth : p.depth[x] \in Nat
ArePanels(P) ==
  /\ IsFiniteSet(P) /\ \A p \in P : IsPanel(p)
  /\ \A p, q \in P : p.key = q.key => p = q
AreEdges(E) == IsFiniteSet(E) /\ \A e \in E : e.width \in Int
IsFrame(frame) == frame.lo \in Int /\ frame.hi \in Int
IsScene(scene) == \A x \in DOMAIN scene.stars : scene.stars[x] \in Int

LEMMA TaperLengthIs ==
  ASSUME NEW p, NEW E, AreEdges(E)
  PROVE  TaperLength(p, E) \in Nat \ {0}
<1> DEFINE F == {e \in E : e.pixels > 0 /\ p.key \in {e.left, e.right}}
           g == [e \in F |-> (2 * e.width) \div 5]
           W == {MaximumTaper} \cup {g[e] : e \in F}
<1>1. IsFiniteSet(F) /\ \A e \in F : e.width \in Int
  BY FS_Subset DEF AreEdges
<1>2. \A e \in F : g[e] \in Int
  BY <1>1
<1>3. IsFiniteSet({g[e] : e \in F})
  <2> HIDE DEF g
  <2> QED BY <1>1, FiniteImage
<1>4. W \in SUBSET Int /\ IsFiniteSet(W) /\ W # {}
  <2>1. IsFiniteSet(W)
    BY <1>3, FS_Union, FS_Singleton
  <2>2. {g[e] : e \in F} \subseteq Int
    BY <1>2
  <2>3. MaximumTaper \in Int
    BY BlendAssumption
  <2> QED BY <2>1, <2>2, <2>3
<1>5. Min(W) \in Int
  BY <1>4, MinIs
<1>6. TaperLength(p, E) = Max({1, Min(W)})
  BY DEF TaperLength
<1> HIDE DEF W
<1>7. Max({1, Min(W)}) \in Nat \ {0}
  BY <1>5, AtLeastOne
<1> QED BY <1>6, <1>7

LEMMA MedianCountIs ==
  ASSUME NEW p, IsPanel(p), NEW x \in Columns(p)
  PROVE  MedianCount(p) \in Nat \ {0}
<1>1. IsFiniteSet(DOMAIN p.depth) /\ DOMAIN p.depth # {} /\ \A y \in DOMAIN p.depth : p.depth[y] \in Int
  <2>1. DOMAIN p.depth = p.lo .. (p.hi - 1) /\ p.lo \in Int /\ p.hi - 1 \in Int
    BY DEF IsPanel
  <2>2. IsFiniteSet(DOMAIN p.depth)
    BY <2>1, FS_Interval
  <2> QED BY <2>1, <2>2 DEF IsPanel, Columns
<1>2. MedianOf(p.depth) \in Int
  BY <1>1, MedianIs
<1>3. Max({1, MedianOf(p.depth)}) \in Nat \ {0}
  BY <1>2, AtLeastOne
<1> QED BY <1>3 DEF MedianCount

LEMMA TaperIs ==
  ASSUME NEW p, IsPanel(p), NEW x \in Columns(p)
  PROVE  Taper(p, x) \in Nat
<1>1. \A y \in Int : Block(p, y) \in Int
  BY BlendAssumption DEF Block, IsPanel
<1>2. Columns(p) \subseteq Int
  BY DEF Columns, IsPanel
<1>3. OpenBlocks(p) \subseteq Int /\ -1 \in OpenBlocks(p)
  <2>1. p.hi - 1 \in Int
    BY DEF IsPanel
  <2> QED BY <1>1, <1>2, <2>1 DEF OpenBlocks
<1>4. Block(p, x) \in Int
  BY <1>1, <1>2
<1> DEFINE D == {Distance(b, Block(p, x)) : b \in OpenBlocks(p)}
<1>5. D \subseteq Nat /\ D # {}
  BY <1>3, <1>4 DEF Distance
<1>6. Min(D) \in D
  <2>1. \E m \in D : \A d \in D : m <= d
    BY <1>5, HasLeast
  <2> QED BY <2>1 DEF Min
<1>7. Taper(p, x) = TaperBinning * Min(D)
  BY DEF Taper
<1>8. Min(D) \in Nat /\ TaperBinning \in Nat
  BY <1>5, <1>6, BlendAssumption
<1> HIDE DEF D
<1> QED BY <1>7, <1>8

LEMMA WeightsAre ==
  ASSUME NEW P, ArePanels(P), NEW E, AreEdges(E), NEW frame
  PROVE  /\ DOMAIN Weights(P, E, frame) = Keys(P)
         /\ \A k \in Keys(P) :
              /\ DOMAIN Weights(P, E, frame)[k] = Columns(frame)
              /\ \A x \in Columns(frame) : Weights(P, E, frame)[k][x] \in Int
<1>1. DOMAIN Weights(P, E, frame) = Keys(P)
  BY DEF Weights
<1> SUFFICES ASSUME NEW k \in Keys(P)
             PROVE  /\ DOMAIN Weights(P, E, frame)[k] = Columns(frame)
                    /\ \A x \in Columns(frame) : Weights(P, E, frame)[k][x] \in Int
  BY <1>1
<1> DEFINE p == PanelOf(P, k)
           length == TaperLength(p, E)
           Weight(x) == (TaperUnit * Min({Taper(p, x), length}) * p.depth[x]) \div (length * MedianCount(p))
<1>2. p \in P /\ IsPanel(p)
  BY DEF PanelOf, Keys, ArePanels
<1>3. Weights(P, E, frame)[k] = [x \in Columns(frame) |-> IF x \in Valid(p) THEN Weight(x) ELSE 0]
  BY DEF Weights
<1>4. ASSUME NEW x \in Valid(p) PROVE Weight(x) \in Int
  <2>1. x \in Columns(p)
    BY DEF Valid
  <2>2. length \in Nat \ {0} /\ MedianCount(p) \in Nat \ {0} /\ Taper(p, x) \in Nat
    BY <1>2, <2>1, TaperLengthIs, MedianCountIs, TaperIs
  <2>3. p.depth[x] \in Nat
    BY <1>2, <2>1 DEF IsPanel, Columns
  <2>4. Min({Taper(p, x), length}) \in Int
    <3> DEFINE t == Taper(p, x)
    <3> HIDE DEF t, length
    <3>1. t \in Int /\ length \in Int
      BY <2>2 DEF t
    <3>2. Min({t, length}) \in Int
      BY <3>1, MinOfTwo
    <3> QED BY <3>2 DEF t
  <2>5. TaperUnit \in Nat
    BY BlendAssumption
  <2> HIDE DEF length, p
  <2>6. TaperUnit * Min({Taper(p, x), length}) * p.depth[x] \in Int
    BY <2>3, <2>4, <2>5
  <2>7. length * MedianCount(p) \in Nat \ {0}
    BY <2>2
  <2> QED BY <2>6, <2>7
<1> QED BY <1>3, <1>4

LEMMA WingRadiusIs ==
  ASSUME NEW peak \in Int, NEW width \in Nat PROVE WingRadius(peak, width) \in Nat
<1>1. (width * peak) \div ProtectPeak \in Int /\ MaximumRadius \div 2 \in Int
  <2>1. ProtectPeak \in Nat \ {0} /\ MaximumRadius \in Nat
    BY BlendAssumption
  <2>2. width * peak \in Int
    OBVIOUS
  <2> QED BY <2>1, <2>2
<1> DEFINE a == (width * peak) \div ProtectPeak
           b == MaximumRadius \div 2
           c == Min({a, b})
           d == 2 * width
<1>2. d \in Nat
  OBVIOUS
<1>3. WingRadius(peak, width) = Max({d, c})
  BY DEF WingRadius
<1> HIDE DEF a, b, d
<1>4. c \in Int
  <2>1. a \in Int /\ b \in Int
    BY <1>1 DEF a, b
  <2> QED BY <2>1, MinOfTwo
<1> HIDE DEF c
<1>5. Max({d, c}) \in {d, c} /\ Max({d, c}) >= d
  BY <1>2, <1>4, MaxOfTwo
<1> QED BY <1>2, <1>3, <1>4, <1>5

(* An object holds its peak. *)
LEMMA FootprintIs ==
  ASSUME NEW at \in Int, NEW peak \in Int, NEW width \in Nat, NEW differing
  PROVE  at \in Footprint(at, peak, width, differing) /\ Footprint(at, peak, width, differing) \subseteq Int
<1>1. WingRadius(peak, width) \in Nat
  BY WingRadiusIs
<1>2. \A n \in Nat : at \in Around(at, n) /\ Around(at, n) \subseteq Int
  BY DEF Around
<1> QED BY <1>1, <1>2 DEF Footprint

(* What a seed is. *)
IsSeed(s, frame) ==
  /\ s.at \in Columns(frame) /\ s.peak \in Int
  /\ s.at \in s.footprint /\ s.footprint \subseteq Int

LEMMA PairSeedsAre ==
  ASSUME NEW P, ArePanels(P), NEW l \in P, NEW r \in P, NEW scene, IsScene(scene),
         NEW frame, IsFrame(frame), NEW weights,
         DOMAIN weights[l.key] = Columns(frame)
  PROVE  /\ IsFiniteSet(PairSeeds(l, r, scene, weights))
         /\ \A s \in PairSeeds(l, r, scene, weights) : IsSeed(s, frame)
<1> DEFINE held  == {x \in DOMAIN weights[l.key] : {l.key, r.key} \subseteq Weighing(weights, x)}
           width == Max({l.fwhm, r.fwhm})
           Peak(x) == IF x \in DOMAIN scene.stars
                        THEN Max({0, scene.stars[x] - l.gain, scene.stars[x] - r.gain}) ELSE 0
           peak == [x \in held |-> Peak(x)]
           maxima == {x \in held : /\ peak[x] >= ProtectPeak
                                   /\ \A y \in held \cap Around(x, PeakReach) : peak[y] <= peak[x]}
           differing == IF l.fwhm = r.fwhm /\ l.shift = r.shift THEN {}
                   ELSE {x \in held : \E y \in held : peak[y] > 0 /\ Distance(x, y) <= WingRadius(peak[y], width)}
           seed == [x \in maxima |->
                     [pair |-> <<l.key, r.key>>, at |-> x, peak |-> peak[x],
                      footprint |-> Footprint(x, peak[x], width, differing)]]
<1>1. PairSeeds(l, r, scene, weights) = {seed[x] : x \in maxima}
  BY DEF PairSeeds
<1>2. maxima \subseteq Columns(frame) /\ maxima \subseteq held
  OBVIOUS
<1>3. IsFiniteSet(maxima) /\ maxima \subseteq Int
  <2>1. frame.lo \in Int /\ frame.hi - 1 \in Int
    BY DEF IsFrame
  <2>2. IsFiniteSet(Columns(frame)) /\ Columns(frame) \subseteq Int
    BY <2>1, FS_Interval DEF Columns
  <2> QED BY <1>2, <2>2, FS_Subset
<1>4. width \in Nat
  <2>1. l.fwhm \in Nat /\ r.fwhm \in Nat
    BY DEF ArePanels, IsPanel
  <2>2. \A a, b \in Nat : Max({a, b}) \in Nat
    BY MaxOfTwo
  <2> QED BY <2>1, <2>2
<1>5. \A x : Peak(x) \in Int
  <2> SUFFICES ASSUME NEW x \in DOMAIN scene.stars
               PROVE  Max({0, scene.stars[x] - l.gain, scene.stars[x] - r.gain}) \in Int
    OBVIOUS
  <2> DEFINE a == scene.stars[x] - l.gain
             b == scene.stars[x] - r.gain
  <2>1. a \in Int /\ b \in Int
    BY DEF IsScene, ArePanels, IsPanel
  <2> HIDE DEF a, b
  <2>2. \E m \in {0, a, b} : \A y \in {0, a, b} : m >= y
    BY <2>1
  <2>3. Max({0, a, b}) \in {0, a, b}
    BY <2>2 DEF Max
  <2>4. Max({0, a, b}) \in Int
    BY <2>1, <2>3
  <2> QED BY <2>4 DEF a, b
<1> HIDE DEF Peak
<1>6. \A x \in held : peak[x] \in Int
  BY <1>5
<1> HIDE DEF peak, width, differing, held
<1>7. \A x \in maxima : /\ seed[x].at = x /\ seed[x].peak = peak[x]
                        /\ seed[x].footprint = Footprint(x, peak[x], width, differing)
  OBVIOUS
<1> HIDE DEF seed, maxima
<1>8. \A x \in maxima : IsSeed(seed[x], frame)
  BY <1>2, <1>3, <1>4, <1>6, <1>7, FootprintIs DEF IsSeed
<1>9. IsFiniteSet({seed[x] : x \in maxima})
  BY <1>3, FiniteImage
<1> QED BY <1>1, <1>8, <1>9

LEMMA SeedsAre ==
  ASSUME NEW P, ArePanels(P), NEW scene, IsScene(scene), NEW frame, IsFrame(frame), NEW weights,
         \A k \in Keys(P) : DOMAIN weights[k] = Columns(frame)
  PROVE  /\ IsFiniteSet(Seeds(P, scene, weights))
         /\ \A s \in Seeds(P, scene, weights) : IsSeed(s, frame)
<1> DEFINE pairs == {q \in P \X P : q[1].key < q[2].key}
           of == [pair \in pairs |-> PairSeeds(pair[1], pair[2], scene, weights)]
<1>1. Seeds(P, scene, weights) = UNION {of[pair] : pair \in pairs}
  BY DEF Seeds
<1>2. \A pair \in pairs : IsFiniteSet(of[pair]) /\ \A s \in of[pair] : IsSeed(s, frame)
  <2> SUFFICES ASSUME NEW l \in P, NEW r \in P
               PROVE  /\ IsFiniteSet(PairSeeds(l, r, scene, weights))
                      /\ \A s \in PairSeeds(l, r, scene, weights) : IsSeed(s, frame)
    OBVIOUS
  <2>1. DOMAIN weights[l.key] = Columns(frame)
    BY DEF Keys
  <2> QED BY <2>1, PairSeedsAre
<1>3. IsFiniteSet(pairs)
  <2>1. IsFiniteSet(P \X P)
    BY FS_Product DEF ArePanels
  <2> QED BY <2>1, FS_Subset
<1> HIDE DEF of, pairs
<1>4. IsFiniteSet({of[pair] : pair \in pairs})
  BY <1>3, FiniteImage
<1>5. IsFiniteSet(UNION {of[pair] : pair \in pairs})
  BY <1>2, <1>4, FS_UNION
<1> QED BY <1>1, <1>2, <1>5

LEMMA BrightestIs ==
  ASSUME NEW C, IsFiniteSet(C), C # {}, NEW frame, \A s \in C : IsSeed(s, frame)
  PROVE  Brightest(C) \in C
<1> DEFINE T == {s.peak : s \in C}
           peak == [s \in C |-> s.peak]
<1>1. IsFiniteSet(T)
  <2>1. T = {peak[s] : s \in C}
    OBVIOUS
  <2> HIDE DEF peak
  <2> QED BY <2>1, FiniteImage
<1>2. T \in SUBSET Int /\ T # {}
  BY DEF IsSeed
<1>3. Max(T) \in T /\ \A t \in T : Max(T) >= t
  BY <1>1, <1>2, MaxIs
<1>4. PICK s \in C : s.peak = Max(T)
  BY <1>3
<1>5. \A t \in C : t.peak \in T
  OBVIOUS
<1>6. \A t \in C : t.peak <= s.peak
  BY <1>2, <1>3, <1>4, <1>5
<1> QED BY <1>6 DEF Brightest

(* What a protected object is: a part C of the seeds, shown by the one     *)
(* panel that weighs most where it is brightest, among those that weigh in *)
(* everywhere on it.                                                       *)
LEMMA BlobIs ==
  ASSUME NEW C, IsFiniteSet(C), C # {}, NEW frame, IsFrame(frame), \A s \in C : IsSeed(s, frame),
         NEW weights, NEW b \in Blobs(C, frame, weights)
  PROVE  /\ b.footprint = ClusterFootprint(C, frame)
         /\ b.footprint # {} /\ b.footprint \subseteq Columns(frame)
         /\ b.ramp = Ramp(b.footprint, weights[b.panel], frame)
         /\ b.panel \in HeaviestAt(CoveringPanels(b.footprint, frame, weights), weights, Brightest(C).at)
         /\ b.panel \in DOMAIN weights /\ \A x \in b.footprint : weights[b.panel][x] > 0
<1> DEFINE footprint == ClusterFootprint(C, frame)
           covering == CoveringPanels(footprint, frame, weights)
<1>1. PICK k \in HeaviestAt(covering, weights, Brightest(C).at) :
         b = [footprint |-> footprint, panel |-> k, ramp |-> Ramp(footprint, weights[k], frame)]
  BY DEF Blobs
<1>2. b.footprint = footprint /\ b.panel = k /\ b.ramp = Ramp(footprint, weights[k], frame)
  BY <1>1
<1>3. footprint \subseteq Columns(frame)
  BY DEF ClusterFootprint
<1>4. footprint # {}
  <2>1. PICK s \in C : IsSeed(s, frame)
    OBVIOUS
  <2>2. s.at \in s.footprint /\ s.at \in Columns(frame)
    BY <2>1 DEF IsSeed
  <2> QED BY <2>2 DEF ClusterFootprint
<1>5. k \in CoveringPanels(footprint, frame, weights)
  BY DEF HeaviestAt
<1>6. Columns(frame) \subseteq Int
  BY DEF Columns, IsFrame
<1> HIDE DEF footprint, covering
<1>7. k \in DOMAIN weights /\ \A x \in footprint : weights[k][x] > 0
  <2> DEFINE ramp == {x \in Columns(frame) : Away(x, footprint) <= RampColumns}
  <2>1. footprint \subseteq ramp
    <3> SUFFICES ASSUME NEW x \in footprint PROVE Away(x, footprint) <= RampColumns
      BY <1>3
    <3>1. Away(x, footprint) = 0
      BY <1>3, <1>4, <1>6, AwayIs
    <3> QED BY <3>1, BlendAssumption
  <2>2. CASE \A x \in ramp : weights[k][x] > 0
    BY <1>5, <2>1, <2>2 DEF CoveringPanels
  <2>3. CASE \E x \in ramp : ~(weights[k][x] > 0)
    BY <1>5, <2>3 DEF CoveringPanels
  <2> QED BY <2>2, <2>3
<1>8. k \in HeaviestAt(CoveringPanels(footprint, frame, weights), weights, Brightest(C).at)
  BY DEF covering
<1>9. footprint = ClusterFootprint(C, frame)
  BY DEF footprint
<1> QED BY <1>2, <1>3, <1>4, <1>7, <1>8, <1>9

(* The ramp of an object is full just where the object is. *)
LEMMA RampIs ==
  ASSUME NEW footprint, NEW frame, IsFrame(frame), footprint \subseteq Columns(frame), footprint # {},
         NEW weight, NEW x \in Columns(frame)
  PROVE  /\ Ramp(footprint, weight, frame)[x] \in 0 .. RampColumns
         /\ Ramp(footprint, weight, frame)[x] = RampColumns => x \in footprint
         /\ x \in footprint /\ weight[x] > 0 => Ramp(footprint, weight, frame)[x] = RampColumns
<1>1. footprint \subseteq Int /\ x \in Int
  BY DEF Columns, IsFrame
<1>2. Away(x, footprint) \in Nat /\ (Away(x, footprint) = 0 <=> x \in footprint)
  BY <1>1, AwayIs
<1> QED BY <1>2, BlendAssumption DEF Ramp

(* Of numbers with an order of keys, one is heaviest. *)
LEMMA OneHeaviest ==
  ASSUME NEW keys, NEW weights, NEW x, \A k \in keys : k \in Nat /\ weights[k][x] \in Int,
         NEW j \in HeaviestAt(keys, weights, x), NEW k \in HeaviestAt(keys, weights, x)
  PROVE  j = k
BY DEF HeaviestAt

(* However footprints and ramps of other objects reach in, the columns of  *)
(* an object take their small scales from the panel chosen for it.         *)
LEMMA BlendIsWhole ==
  ASSUME NEW P, ArePanels(P), NEW E, AreEdges(E), NEW scene, IsScene(scene),
         NEW frame, IsFrame(frame),
         NEW b \in BlendFilter(P, E, scene, frame).blobs, NEW x \in b.footprint
  PROVE  BlendFilter(P, E, scene, frame).columns[x].sharp = {b.panel}
<1> DEFINE weights == Weights(P, E, frame)
           seeds == Seeds(P, scene, weights)
           clusters == Clusters(seeds)
           blobs == BlendFilter(P, E, scene, frame).blobs
<1>1. /\ DOMAIN weights = Keys(P)
      /\ \A k \in Keys(P) : DOMAIN weights[k] = Columns(frame)
      /\ \A k \in Keys(P) : \A y \in Columns(frame) : weights[k][y] \in Int
  BY WeightsAre
<1>2. blobs = UNION {Blobs(C, frame, weights) : C \in clusters}
  BY DEF BlendFilter, BlendWith, Blended, ProtectedSet
<1>3. BlendFilter(P, E, scene, frame).columns = [y \in Columns(frame) |-> Column(weights, blobs, y)]
  BY <1>2 DEF BlendFilter, BlendWith, Blended, ProtectedSet, ColumnsOf
<1> HIDE DEF weights
<1>4. IsFiniteSet(seeds) /\ \A s \in seeds : IsSeed(s, frame)
  BY <1>1, SeedsAre
<1>5. /\ \A C \in clusters : C \subseteq seeds /\ C # {}
      /\ \A C, D \in clusters : \A s \in C, t \in D : {s, t} \in TouchLinks(seeds) => C = D
  BY PartsPartition DEF Clusters
<1> HIDE DEF clusters, seeds, blobs
<1>6. \A C \in clusters : IsFiniteSet(C) /\ C # {} /\ \A s \in C : IsSeed(s, frame)
  BY <1>4, <1>5, FS_Subset
<1>7. ASSUME NEW C \in clusters, NEW o \in Blobs(C, frame, weights)
      PROVE  /\ o.footprint = ClusterFootprint(C, frame)
             /\ o.footprint # {} /\ o.footprint \subseteq Columns(frame)
             /\ o.ramp = Ramp(o.footprint, weights[o.panel], frame)
             /\ o.panel \in HeaviestAt(CoveringPanels(o.footprint, frame, weights), weights, Brightest(C).at)
             /\ o.panel \in DOMAIN weights /\ \A y \in o.footprint : weights[o.panel][y] > 0
  BY <1>6, <1>7, BlobIs
<1>8. PICK C \in clusters : b \in Blobs(C, frame, weights)
  BY <1>2 DEF blobs
<1>9. x \in Columns(frame) /\ b.panel \in DOMAIN weights /\ weights[b.panel][x] > 0
  BY <1>7, <1>8
<1>10. b.panel \in Weighing(weights, x)
  BY <1>9 DEF Weighing
<1>ramp. ASSUME NEW D \in clusters, NEW o \in Blobs(D, frame, weights)
      PROVE  /\ o.ramp[x] \in 0 .. RampColumns
             /\ o.ramp[x] = RampColumns => x \in o.footprint
             /\ x \in o.footprint => o.ramp[x] = RampColumns
  <2> DEFINE F == o.footprint
             w == weights[o.panel]
  <2>1. F # {} /\ F \subseteq Columns(frame) /\ o.ramp = Ramp(F, w, frame) /\ \A y \in F : w[y] > 0
    BY <1>7
  <2> HIDE DEF F, w
  <2>2. /\ Ramp(F, w, frame)[x] \in 0 .. RampColumns
        /\ Ramp(F, w, frame)[x] = RampColumns => x \in F
        /\ x \in F /\ w[x] > 0 => Ramp(F, w, frame)[x] = RampColumns
    BY <1>9, <2>1, RampIs
  <2> QED BY <2>1, <2>2 DEF F
<1>11. \A o \in blobs : o.ramp[x] \in 0 .. RampColumns
  <2> SUFFICES ASSUME NEW D \in clusters, NEW o \in Blobs(D, frame, weights)
               PROVE  o.ramp[x] \in 0 .. RampColumns
    BY <1>2 DEF blobs
  <2> QED BY <1>ramp
<1>12. b.ramp[x] = RampColumns
  BY <1>8, <1>ramp
<1>13. b \in Owners(blobs, x)
  <2>1. b \in blobs /\ RampColumns \in Nat \ {0}
    BY BlendAssumption DEF blobs
  <2> QED BY <1>11, <1>12, <2>1 DEF Owners
<1>14. ASSUME NEW o \in Owners(blobs, x) PROVE o.ramp[x] = RampColumns /\ o.panel = b.panel
  <2>1. o \in blobs /\ b \in blobs /\ b.ramp[x] <= o.ramp[x]
    BY <1>13 DEF Owners
  <2>2. o.ramp[x] = RampColumns
    BY <1>11, <1>12, <2>1, BlendAssumption
  <2>3. PICK D \in clusters : o \in Blobs(D, frame, weights)
    BY <1>2, <2>1
  <2>4. x \in o.footprint
    BY <1>ramp, <2>2, <2>3
  <2>5. PICK s \in C : x \in s.footprint
    BY <1>7, <1>8 DEF ClusterFootprint
  <2>6. PICK t \in D : x \in t.footprint
    BY <1>7, <2>3, <2>4 DEF ClusterFootprint
  <2>7. {s, t} \in TouchLinks(seeds)
    <3>1. x \in Int
      BY <1>9 DEF Columns, IsFrame
    <3>2. Touching(s, t)
      BY <2>5, <2>6, <3>1 DEF Touching, Distance
    <3>3. s \in seeds /\ t \in seeds
      BY <1>5
    <3> DEFINE touching == {q \in seeds \X seeds : Touching(q[1], q[2])}
    <3>4. <<s, t>> \in touching
      BY <3>2, <3>3
    <3>5. TouchLinks(seeds) = {{q[1], q[2]} : q \in touching}
      BY DEF TouchLinks
    <3> HIDE DEF touching
    <3>6. \A q \in touching : {q[1], q[2]} \in TouchLinks(seeds)
      BY <3>5
    <3> QED BY <3>4, <3>6
  <2>8. C = D
    BY <1>5, <2>7
  <2>9. o.footprint = b.footprint
    BY <1>7, <1>8, <2>3, <2>8
  <2> DEFINE at == Brightest(C).at
             covering == CoveringPanels(b.footprint, frame, weights)
  <2>10. at \in Columns(frame)
    BY <1>6, BrightestIs DEF IsSeed
  <2>11. covering \subseteq Keys(P)
    BY <1>1 DEF CoveringPanels
  <2>12. \A k \in covering : k \in Nat /\ weights[k][at] \in Int
    <3>1. Keys(P) \subseteq Nat
      BY DEF Keys, ArePanels, IsPanel
    <3> QED BY <1>1, <2>10, <2>11, <3>1
  <2>13. o.panel \in HeaviestAt(covering, weights, at) /\ b.panel \in HeaviestAt(covering, weights, at)
    BY <1>7, <1>8, <2>3, <2>8, <2>9
  <2> HIDE DEF at, covering
  <2>14. o.panel = b.panel
    BY <2>12, <2>13, OneHeaviest
  <2> QED BY <2>2, <2>14
<1>15. Owner(blobs, x) \in Owners(blobs, x)
  BY <1>13 DEF Owner
<1>16. Column(weights, blobs, x).sharp = {b.panel}
  BY <1>10, <1>13, <1>14, <1>15 DEF Column
<1> QED BY <1>3, <1>9, <1>16

(* The canvas a project is on, before and after it is planned and placed.  *)
IsCanvas(c) == IsLattice(c.plan) /\ \A k \in Targets : c.shift[k] \in Int

LEMMA CanvasIs == ASSUME StagesShape PROVE IsCanvas(canvas)
BY LatticeAssumption DEF StagesShape, IsCanvas, NoPlan, NoShift, IsLattice

LEMMA PixelsAre ==
  ASSUME NEW plan, IsLattice(plan), NEW x \in Int
  PROVE  PixelBelow(plan, x) \in Int /\ PixelAbove(plan, x) \in Int
<1> DEFINE a == plan.parity * (x - plan.tangent)
           b == plan.scale
<1>1. a \in Int /\ b \in Nat \ {0}
  BY DEF IsLattice
<1> HIDE DEF a, b
<1>2. a \div b \in Int /\ -((-a) \div b) \in Int
  BY <1>1
<1> QED BY <1>2 DEF a, b, PixelBelow, PixelAbove, FloorOf, CeilingOf

LEMMA WindowIs ==
  ASSUME NEW plan, IsLattice(plan), NEW S, S \subseteq Int, IsFiniteSet(S), S # {}
  PROVE  CanvasWindow(plan, S).origin \in Int /\ CanvasWindow(plan, S).width \in Int
<1> DEFINE low == [x \in S |-> PixelBelow(plan, x)]
           high == [x \in S |-> PixelAbove(plan, x)]
           L == {low[x] : x \in S}
           H == {high[x] : x \in S}
<1>1. \A x \in S : low[x] \in Int /\ high[x] \in Int
  BY PixelsAre
<1>2. CanvasWindow(plan, S).origin = Min(L) - 1 - plan.zero
  BY DEF CanvasWindow, Reach
<1>3. CanvasWindow(plan, S).width = (Max(H) + 1) - (Min(L) - 1) + 1
  BY DEF CanvasWindow, Reach
<1> HIDE DEF low, high
<1>4. IsFiniteSet(L) /\ IsFiniteSet(H)
  BY FiniteImage
<1>5. L \in SUBSET Int /\ H \in SUBSET Int /\ L # {} /\ H # {}
  BY <1>1
<1>6. Min(L) \in Int /\ Max(H) \in Int
  BY <1>4, <1>5, MinIs, MaxIs
<1>7. plan.zero \in Int
  BY DEF IsLattice
<1> HIDE DEF L, H
<1> QED BY <1>2, <1>3, <1>6, <1>7

(* The Lights of a panel that has some. *)
LEMMA LightsAre ==
  ASSUME NEW n \in Nights, NEW k \in Targets
  PROVE  /\ ToSet(Sky[n].lights[k]) \subseteq LightFrame /\ IsFiniteSet(ToSet(Sky[n].lights[k]))
         /\ IsFiniteSet(DOMAIN Sky[n].lights[k])
         /\ \A i \in DOMAIN Sky[n].lights[k] : Sky[n].lights[k][i] \in ToSet(Sky[n].lights[k])
<1> DEFINE L == Sky[n].lights[k]
<1>1. L \in Seq(LightFrame)
  BY SkyAssumption
<1> HIDE DEF L
<1>2. DOMAIN L = 1 .. Len(L) /\ Len(L) \in Nat /\ \A i \in DOMAIN L : L[i] \in LightFrame
  BY <1>1
<1>3. IsFiniteSet(DOMAIN L)
  <2>1. 1 \in Int /\ Len(L) \in Int
    BY <1>2
  <2>2. IsFiniteSet(1 .. Len(L))
    BY <2>1, FS_Interval
  <2> QED BY <1>2, <2>2
<1>4. ToSet(L) = {L[i] : i \in DOMAIN L}
  BY DEF ToSet
<1>5. IsFiniteSet(ToSet(L))
  BY <1>3, <1>4, FiniteImage
<1> QED BY <1>2, <1>3, <1>4, <1>5 DEF L

LEMMA PanelWindowIs ==
  ASSUME NEW n \in Nights, NEW c, IsCanvas(c), NEW k \in Targets, ToSet(Sky[n].lights[k]) # {}
  PROVE  Window(n, c, k).origin \in Int /\ Window(n, c, k).width \in Int
<1> DEFINE lights == ToSet(Sky[n].lights[k])
           shift == c.shift[k]
           ends == [g \in lights |-> {Placed(g, shift).lo + WarpMargin, Placed(g, shift).hi - WarpMargin}]
           S == UNION {ends[g] : g \in lights}
<1>1. lights \subseteq LightFrame /\ IsFiniteSet(lights) /\ shift \in Int /\ WarpMargin \in Nat
  BY LightsAre, ProjectMosaicAssumption DEF IsCanvas
<1>2. ASSUME NEW g \in lights
      PROVE  ends[g] \subseteq Int /\ ends[g] # {} /\ IsFiniteSet(ends[g])
  <2> DEFINE a == Placed(g, shift).lo + WarpMargin
             b == Placed(g, shift).hi - WarpMargin
  <2>1. Placed(g, shift).lo = g.lo + shift /\ Placed(g, shift).hi = g.hi + shift
    BY <1>1 DEF Placed, LightFrame
  <2>2. g.lo \in Int /\ g.hi \in Int
    BY <1>1 DEF LightFrame
  <2>3. a \in Int /\ b \in Int
    BY <1>1, <2>1, <2>2
  <2>4. ends[g] = {a, b}
    OBVIOUS
  <2> HIDE DEF a, b, ends
  <2>5. IsFiniteSet({a} \cup {b})
    BY FS_Singleton, FS_Union
  <2>6. {a} \cup {b} = {a, b}
    OBVIOUS
  <2> QED BY <2>3, <2>4, <2>5, <2>6
<1>3. CanvasWindow(c.plan, S) = Window(n, c, k)
  BY DEF Window, PanelWindow
<1> HIDE DEF ends, lights
<1>4. S \subseteq Int /\ S # {}
  BY <1>2 DEF lights
<1>5. IsFiniteSet(S)
  <2>1. IsFiniteSet({ends[g] : g \in lights})
    BY <1>1, FiniteImage
  <2> QED BY <1>2, <2>1, FS_UNION
<1>6. IsLattice(c.plan)
  BY DEF IsCanvas
<1> HIDE DEF S
<1> QED BY <1>3, <1>4, <1>5, <1>6, WindowIs

LEMMA MasterIs ==
  ASSUME NEW n \in Nights, NEW c, IsCanvas(c), NEW f \in FiltersOf(n), NEW k \in PanelsIn(n, f)
  PROVE  IsPanel(Master(n, c, f, k)) /\ Master(n, c, f, k).key = k
<1> DEFINE w == Window(n, c, k)
           lo == w.origin
           hi == w.origin + w.width
           Reached(i) == {Pixel(c, x) : x \in Columns(Placed(Sky[n].lights[k][i], c.shift[k]))}
           m == Master(n, c, f, k)
<1>1. k \in Targets /\ LightsIn(n, f, k) # {}
  BY DEF PanelsIn
<1>2. lo \in Int /\ hi \in Int
  <2>1. ToSet(Sky[n].lights[k]) # {}
    BY <1>1, LightsAre DEF LightsIn
  <2>2. w.origin \in Int /\ w.width \in Int
    BY <1>1, <2>1, PanelWindowIs
  <2> HIDE DEF w
  <2> QED BY <2>2
<1>3. /\ m.key = k /\ m.lo = lo /\ m.hi = hi /\ m.gain = Sky[n].gain[f][k] /\ m.fwhm = Sky[n].fwhm[k]
      /\ m.depth = [x \in lo .. (hi - 1) |-> Cardinality({i \in LightsIn(n, f, k) : x \in Reached(i)})]
  BY DEF Master
<1>4. \A x : Cardinality({i \in LightsIn(n, f, k) : x \in Reached(i)}) \in Nat
  <2>1. IsFiniteSet(LightsIn(n, f, k))
    BY <1>1, LightsAre, FS_Subset DEF LightsIn
  <2> HIDE DEF Reached
  <2>2. \A x : IsFiniteSet({i \in LightsIn(n, f, k) : x \in Reached(i)})
    BY <2>1, FS_Subset
  <2> QED BY <2>2, FS_CardinalityType
<1> HIDE DEF w, m, Reached
<1>5. DOMAIN m.depth = m.lo .. (m.hi - 1) /\ \A x \in DOMAIN m.depth : m.depth[x] \in Nat
  BY <1>3, <1>4
<1>6. k \in Nat /\ Sky[n].gain[f][k] \in Int /\ Sky[n].fwhm[k] \in Nat
  BY <1>1, SkyAssumption, ProjectAssumption DEF Targets
<1> QED BY <1>2, <1>3, <1>5, <1>6 DEF IsPanel, m

LEMMA MastersAre ==
  ASSUME NEW n \in Nights, NEW c, IsCanvas(c), NEW f \in FiltersOf(n)
  PROVE  ArePanels(Masters(n, c, f)) /\ Masters(n, c, f) # {}
<1> DEFINE of == [k \in PanelsIn(n, f) |-> Master(n, c, f, k)]
<1>1. IsFiniteSet(PanelsIn(n, f))
  <2>1. IsFiniteSet(Targets)
    BY ProjectAssumption, FS_Interval DEF Targets
  <2> QED BY <2>1, FS_Subset DEF PanelsIn
<1>2. Masters(n, c, f) = {of[k] : k \in PanelsIn(n, f)}
  BY DEF Masters
<1>3. \A k \in PanelsIn(n, f) : IsPanel(of[k]) /\ of[k].key = k
  BY MasterIs
<1>4. PanelsIn(n, f) # {}
  <2>0. PICK k \in Targets : \E i \in ToSet(Sky[n].lights[k]) : i.filter = f
    BY DEF FiltersOf
  <2>1. PICK i \in ToSet(Sky[n].lights[k]) : i.filter = f
    BY <2>0
  <2>2. PICK j \in DOMAIN Sky[n].lights[k] : Sky[n].lights[k][j] = i
    BY DEF ToSet
  <2>3. j \in LightsIn(n, f, k)
    BY <2>1, <2>2 DEF LightsIn
  <2> QED BY <2>3 DEF PanelsIn
<1> HIDE DEF of
<1>5. IsFiniteSet({of[k] : k \in PanelsIn(n, f)})
  BY <1>1, FiniteImage
<1> QED BY <1>2, <1>3, <1>4, <1>5 DEF ArePanels

LEMMA BoundaryIs ==
  ASSUME NEW P, P # {}, IsFiniteSet(P), \A p \in P : p.lo \in Int /\ p.hi \in Int
  PROVE  IsFrame(Boundary(P))
<1> DEFINE lo == [p \in P |-> p.lo]
           hi == [p \in P |-> p.hi]
           L == {lo[p] : p \in P}
           H == {hi[p] : p \in P}
<1>1. Boundary(P) = [lo |-> Min(L), hi |-> Max(H)]
  BY DEF Boundary
<1>2. L \in SUBSET Int /\ H \in SUBSET Int /\ L # {} /\ H # {}
  OBVIOUS
<1> HIDE DEF lo, hi
<1>3. IsFiniteSet(L) /\ IsFiniteSet(H)
  BY FiniteImage
<1>4. Min(L) \in Int /\ Max(H) \in Int
  BY <1>2, <1>3, MinIs, MaxIs
<1> HIDE DEF L, H
<1> QED BY <1>1, <1>4 DEF IsFrame

LEMMA CanvasFrameIs ==
  ASSUME NEW n \in Nights, NEW c, IsCanvas(c), NEW f \in FiltersOf(n)
  PROVE  IsFrame(CanvasFrame(n, c))
<1> DEFINE of == [g \in FiltersOf(n) |-> Masters(n, c, g)]
           P == UNION {of[g] : g \in FiltersOf(n)}
<1>1. \A g \in FiltersOf(n) : of[g] # {} /\ IsFiniteSet(of[g]) /\ \A p \in of[g] : p.lo \in Int /\ p.hi \in Int
  BY MastersAre DEF ArePanels, IsPanel
<1>2. IsFiniteSet(FiltersOf(n))
  <2> DEFINE lights == [k \in Targets |-> ToSet(Sky[n].lights[k])]
             all == UNION {lights[k] : k \in Targets}
             filter == [i \in all |-> i.filter]
  <2>1. FiltersOf(n) = {filter[i] : i \in all}
    BY DEF FiltersOf
  <2>2. \A k \in Targets : IsFiniteSet(lights[k])
    BY LightsAre
  <2>3. IsFiniteSet(Targets)
    BY ProjectAssumption, FS_Interval DEF Targets
  <2> HIDE DEF lights
  <2>4. IsFiniteSet({lights[k] : k \in Targets})
    BY <2>3, FiniteImage
  <2>5. IsFiniteSet(all)
    BY <2>2, <2>4, FS_UNION
  <2> HIDE DEF all, filter
  <2> QED BY <2>1, <2>5, FiniteImage
<1>3. CanvasFrame(n, c) = Boundary(P)
  BY DEF CanvasFrame
<1> HIDE DEF of
<1>4. IsFiniteSet({of[g] : g \in FiltersOf(n)})
  BY <1>2, FiniteImage
<1>5. IsFiniteSet(P) /\ P # {} /\ \A p \in P : p.lo \in Int /\ p.hi \in Int
  BY <1>1, <1>4, FS_UNION
<1> HIDE DEF P
<1> QED BY <1>3, <1>5, BoundaryIs

LEMMA SceneIs ==
  ASSUME NEW n \in Nights, NEW c, NEW f
  PROVE  IsScene(Scene(n, c, f))
<1> DEFINE stars == DOMAIN Sky[n].stars
           At(x) == {t \in stars : Pixel(c, t) = x}
           shown == Sky[n].stars
           Light(x) == {shown[s] : s \in At(x)}
<1>1. Scene(n, c, f).stars = [x \in {Pixel(c, s) : s \in stars} |-> Max(Light(x))]
  BY DEF Scene
<1>2. IsFiniteSet(stars) /\ \A s \in stars : shown[s] \in Int
  BY SkyAssumption
<1> HIDE DEF shown
<1>3. ASSUME NEW x \in {Pixel(c, s) : s \in stars} PROVE Max(Light(x)) \in Int
  <2>1. IsFiniteSet(At(x)) /\ At(x) # {} /\ At(x) \subseteq stars
    BY <1>2, FS_Subset
  <2> HIDE DEF At
  <2>2. IsFiniteSet(Light(x))
    BY <2>1, FiniteImage
  <2>3. Light(x) \in SUBSET Int /\ Light(x) # {}
    BY <1>2, <2>1
  <2> QED BY <2>2, <2>3, MaxIs
<1> HIDE DEF Light, stars
<1> QED BY <1>1, <1>3 DEF IsScene

LEMMA EdgesAre ==
  ASSUME NEW P, ArePanels(P), NEW scene, NEW noise
  PROVE  AreEdges(Edges(P, scene, noise))
<1> DEFINE pairs == {q \in P \X P : /\ q[1].key < q[2].key
                                    /\ Shared(q[1], q[2]).hi - Shared(q[1], q[2]).lo >= BinPixels}
           edge == [pair \in pairs |-> MeasureEdge(pair[1], pair[2], scene, noise)]
<1>1. Edges(P, scene, noise) = {edge[pair] : pair \in pairs}
  BY DEF Edges
<1>2. IsFiniteSet(pairs)
  <2>1. IsFiniteSet(P \X P)
    BY FS_Product DEF ArePanels
  <2> QED BY <2>1, FS_Subset
<1>3. \A l, r \in P : MeasureEdge(l, r, scene, noise).width \in Int
  BY DEF MeasureEdge, Shared, ArePanels, IsPanel
<1>4. \A pair \in pairs : edge[pair].width \in Int
  <2>1. \A pair \in pairs : pair[1] \in P /\ pair[2] \in P
    OBVIOUS
  <2>2. \A pair \in pairs : edge[pair] = MeasureEdge(pair[1], pair[2], scene, noise)
    OBVIOUS
  <2> HIDE DEF pairs, edge
  <2> QED BY <1>3, <2>1, <2>2
<1> HIDE DEF pairs, edge
<1>5. IsFiniteSet({edge[pair] : pair \in pairs})
  BY <1>2, FiniteImage
<1> QED BY <1>1, <1>4, <1>5 DEF AreEdges

LEMMA ObjectsWhole == StagesShape => ObjectsAreWhole
<1> SUFFICES ASSUME StagesShape, NEW f \in DOMAIN mosaics, NEW c \in mosaics[f].components,
                    NEW b \in c.blobs, NEW x \in b.footprint
             PROVE  c.columns[x].sharp = {b.panel}
  BY DEF ObjectsAreWhole
<1> DEFINE P == Masters(night, canvas, f)
           scene == Scene(night, canvas, f)
           noise == Sky[night].noise[f]
           frame == CanvasFrame(night, canvas)
           verifier == Sky[night].verifier
           E == Edges(P, scene, noise)
<1>1. night \in Nights /\ f \in FiltersOf(night) /\ IsCanvas(canvas)
  BY CanvasIs DEF StagesShape
<1>2. PICK sky : mosaics[f] = AssembleFilter(P, scene, noise, frame, verifier, sky)
  BY DEF StagesShape, Assembled, Mosaic
<1>3. ArePanels(P) /\ IsScene(scene) /\ IsFrame(frame)
  BY <1>1, MastersAre, SceneIs, CanvasFrameIs
<1> HIDE DEF P, scene, noise, frame, verifier
<1>4. PICK C \in Components(P, E) : c = PartOf(P, E, scene, frame, verifier, sky, C)
  BY <1>2 DEF AssembleFilter, AssembleEdges, AssembleParts, FilterOf, PartOf, CanvasOf
<1> DEFINE Q == Members(P, C)
           F == Within(E, C)
           own == CanvasOf(P, E, frame, C)
<1>5. c.blobs = BlendFilter(Q, F, scene, own).blobs /\ c.columns = BlendFilter(Q, F, scene, own).columns
  BY <1>4, ComponentOf DEF PartOf
<1>6. ArePanels(Q) /\ Q # {}
  <2>1. ArePanels(Q)
    BY <1>3, FS_Subset DEF Members, ArePanels
  <2>2. C \subseteq Keys(P) /\ C # {}
    BY PartsPartition DEF Components
  <2> QED BY <2>1, <2>2 DEF Keys, Members
<1>7. AreEdges(F)
  <2>1. AreEdges(E)
    BY <1>3, EdgesAre
  <2> QED BY <2>1, FS_Subset DEF AreEdges, Within
<1>8. IsFrame(own)
  <2>1. IsFrame(Boundary(Q))
    BY <1>6, BoundaryIs DEF ArePanels, IsPanel
  <2> QED BY <1>3, <2>1 DEF CanvasOf
<1> HIDE DEF Q, F, own
<1> QED BY <1>3, <1>5, <1>6, <1>7, <1>8, BlendIsWhole

(* However many panels, filters, stars and overlaps, and wherever the      *)
(* footprints and ramps of bright objects run into each other, every       *)
(* protected object is drawn from one panel (ProtectedSet, blend_filter).  *)
THEOREM ObjectsStayWhole == MosaicSpec => []ObjectsAreWhole
<1>1. MosaicInv => ObjectsAreWhole
  BY ObjectsWhole DEF MosaicInv
<1> QED BY <1>1, InvOfMosaic, PTL
=============================================================================
