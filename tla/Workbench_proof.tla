---------------------------- MODULE Workbench_proof ----------------------------
(***************************************************************************)
(* What the desk keeps true for any set of Lights, channels and digests,   *)
(* whatever fails in a review and whoever else measures: a run that starts *)
(* is the run that was reviewed, and it is refused only because its        *)
(* session is gone.                                                        *)
(*                                                                         *)
(* Between the question and the answer of the controller nothing of the    *)
(* review, the import or the calibration check moves (RunBound), which     *)
(* rests on the checks that are still under way never being for the key    *)
(* that was answered (ChecksOK).  That the controller finds nothing to     *)
(* refuse but a missing session rests on what the two programs know of a   *)
(* Light without a preview: it was seen only as a reported failure, and is *)
(* dropped before the review is complete (FailuresOK).                     *)
(***************************************************************************)
EXTENDS Workbench, SequenceTheorems, TLAPS

ManifestOK(s) ==
  /\ s.broken \subseteq s.frames
  /\ s.layered \subseteq s.frames \ s.broken
  /\ s.inline \subseteq s.frames \ s.broken

Decisions(s) == [s.frames -> {"KEEP", "DROP"}]

ImageSets(s) ==
  [loading : SUBSET (s.frames \ s.broken), ready : SUBSET (s.frames \ s.broken),
   failed : SUBSET (s.frames \ s.broken), bypass : SUBSET s.frames]

(* A Light without a preview is reported as soon as it is on the stage,    *)
(* and stays so.                                                           *)
FailuresOK ==
  /\ \A f \in session.broken : <<f, "background">> \notin failures
  /\ \A f \in session.broken \cap viewed : <<f, "field">> \in failures

ApprovedOK ==
  \A c \in confirmed : \A f \in InChannel(c) : approved[c][f] = decisions[f]

ReviewOK ==
  /\ ManifestOK(session)
  /\ images \in ImageSets(session)
  /\ decisions \in Decisions(session)
  /\ history \in Seq(Decisions(session))
  /\ viewed \subseteq Frames
  /\ confirmed \subseteq Channels(session)
  /\ FailuresOK
  /\ ApprovedOK

-----------------------------------------------------------------------------
(* The stage. *)
LEMMA SettleOK ==
  ASSUME ManifestOK(session), NEW i \in ImageSets(session), NEW f, NEW reports,
         Settle(i, f, reports)
  PROVE  /\ images' \in ImageSets(session)
         /\ \A g \in session.broken : /\ <<g, "background">> \notin reports => <<g, "background">> \notin failures'
                                      /\ <<g, "field">> \in reports => <<g, "field">> \in failures'
<1>1. images' = Ensured(i, session, f) /\ failures' = Reported(images', session, f, reports)
  BY DEF Settle
<1>2. images' \in ImageSets(session)
  <2>1. CASE f = 0
    BY <1>1, <2>1 DEF Ensured
  <2>2. CASE f # 0
    <3> DEFINE more == {g \in session.frames : /\ Channel[g] = Channel[f] /\ g \notin session.broken
                                               /\ g \notin session.inline \cup i.ready \cup i.failed}
    <3>1. images' = [i EXCEPT !.loading = @ \cup more]
      BY <1>1, <2>2 DEF Ensured
    <3>2. more \subseteq session.frames \ session.broken
      OBVIOUS
    <3> HIDE DEF more
    <3> QED BY <3>1, <3>2 DEF ImageSets
  <2> QED BY <2>1, <2>2
<1>3. ASSUME NEW g \in session.broken
      PROVE  /\ <<g, "background">> \notin reports => <<g, "background">> \notin failures'
             /\ <<g, "field">> \in reports => <<g, "field">> \in failures'
  <2>1. \/ failures' = reports \/ failures' = reports \cup {<<f, "field">>}
        \/ f \notin session.broken /\ failures' = reports \ {<<f, "field">>}
    BY <1>1 DEF Reported, Unreadable
  <2>2. <<g, "background">> # <<f, "field">>
    OBVIOUS
  <2>3. f \notin session.broken => <<g, "field">> # <<f, "field">>
    OBVIOUS
  <2> QED BY <2>1, <2>2, <2>3
<1> QED BY <1>2, <1>3

(* A step of the review that leaves the decisions alone.                   *)
LEMMA StageInv ==
  ASSUME ReviewOK, NEW i \in ImageSets(session), NEW f,
         Settle(i, f, failures), UNCHANGED reviewed
  PROVE  ReviewOK'
<1>1. /\ UNCHANGED <<session, decisions, history, viewed, confirmed, approved>>
      /\ ManifestOK(session)
  BY DEF reviewed, ReviewOK
<1>2. images' \in ImageSets(session)' /\ FailuresOK'
  BY <1>1, SettleOK DEF ReviewOK, FailuresOK
<1> QED BY <1>1, <1>2 DEF ReviewOK, ApprovedOK, Frames, InChannel

LEMMA NoImagesOK == ASSUME NEW s PROVE NoImages \in ImageSets(s)
BY DEF NoImages, ImageSets

LEMMA ImagesInv ==
  ASSUME ReviewOK, NEW f \in Frames,
         Select(f) \/ ImageLoads(f) \/ ImageMissing(f) \/ ImageCorrupt(f) \/ Retry
  PROVE  ReviewOK' /\ session' = session
<1>1. images \in ImageSets(session) /\ ManifestOK(session)
  BY DEF ReviewOK
<1>2. PICK i, g : Settle(i, g, failures) /\ UNCHANGED reviewed
        /\ \/ i = images
           \/ f \in images.loading /\ i = [images EXCEPT !.loading = @ \ {f}, !.ready = @ \cup {f}]
           \/ f \in images.loading /\ i = [images EXCEPT !.loading = @ \ {f}, !.failed = @ \cup {f}]
           \/ Shows(images, f)
                /\ i = [images EXCEPT !.ready = @ \ {f}, !.failed = @ \cup {f}, !.bypass = @ \cup {f}]
           \/ onStage \in images.failed
                /\ i = [images EXCEPT !.failed = @ \ {onStage}, !.ready = @ \ {onStage},
                                      !.bypass = @ \cup {onStage}, !.loading = @ \cup {onStage}]
  BY DEF Select, ImageLoads, ImageMissing, ImageCorrupt, Retry
<1>3. i \in ImageSets(session)
  <2>1. Shows(images, f) => f \in session.frames \ session.broken
    BY <1>1 DEF Shows, ManifestOK, ImageSets
  <2>2. ASSUME NEW h \in session.frames \ session.broken
        PROVE  /\ [images EXCEPT !.loading = @ \ {h}, !.ready = @ \cup {h}] \in ImageSets(session)
               /\ [images EXCEPT !.loading = @ \ {h}, !.failed = @ \cup {h}] \in ImageSets(session)
               /\ [images EXCEPT !.ready = @ \ {h}, !.failed = @ \cup {h}, !.bypass = @ \cup {h}]
                    \in ImageSets(session)
               /\ [images EXCEPT !.failed = @ \ {h}, !.ready = @ \ {h}, !.bypass = @ \cup {h},
                                 !.loading = @ \cup {h}] \in ImageSets(session)
    BY <1>1 DEF ImageSets
  <2>3. images.loading \cup images.failed \subseteq session.frames \ session.broken
    BY <1>1 DEF ImageSets
  <2> QED BY <1>1, <1>2, <2>1, <2>2, <2>3
<1>4. session' = session
  BY <1>2 DEF reviewed
<1> QED BY <1>2, <1>3, <1>4, StageInv

-----------------------------------------------------------------------------
(* What was painted, and what a drop acknowledges.                         *)
LEMMA MarkedOK ==
  ASSUME NEW f, NEW layers, Marked(f, layers) PROVE viewed \subseteq viewed' /\ viewed' \subseteq viewed \cup {f}
BY DEF Marked

LEMMA PaintInv ==
  ASSUME ReviewOK, Paint \/ PaintBackground \/ BackgroundFails
  PROVE  ReviewOK' /\ session' = session
<1>1. UNCHANGED <<session, decisions, history, confirmed, approved, images>>
  BY DEF Paint, PaintBackground, BackgroundFails, reviewed
<1>2. images \in ImageSets(session) /\ ManifestOK(session) /\ viewed \subseteq Frames /\ FailuresOK
  BY DEF ReviewOK
<1>3. onStage \in Frames \ session.broken
  BY <1>2 DEF Paint, PaintBackground, BackgroundFails, Shows, ManifestOK, ImageSets, Frames
<1>4. viewed' \subseteq viewed \cup {onStage}
  BY MarkedOK DEF Paint, PaintBackground, BackgroundFails, reviewed
<1>5. /\ failures' \in {failures, failures \ {<<onStage, "background">>},
                        failures \cup {<<onStage, "background">>}}
  BY DEF Paint, PaintBackground, BackgroundFails
<1>6. FailuresOK'
  <2>1. \A g \in session.broken : <<g, "background">> # <<onStage, "background">>
    BY <1>3
  <2>2. \A g : <<g, "field">> # <<onStage, "background">>
    OBVIOUS
  <2> QED BY <1>1, <1>2, <1>3, <1>4, <1>5, <2>1, <2>2 DEF FailuresOK
<1>7. viewed' \subseteq Frames'
  BY <1>1, <1>2, <1>3, <1>4 DEF Frames
<1> QED BY <1>1, <1>6, <1>7 DEF ReviewOK, ApprovedOK, InChannel, Frames

-----------------------------------------------------------------------------
(* The decisions.  A channel stays confirmed as long as its decisions are  *)
(* those it was confirmed with.                                            *)
LEMMA ConfirmOK ==
  ASSUME ApprovedOK, NEW new, Confirm(StillConfirmed(new)), decisions' = new, session' = session
  PROVE  ApprovedOK' /\ confirmed' \subseteq confirmed
<1>1. confirmed' = StillConfirmed(new) /\ approved' = [c \in confirmed' |-> approved[c]]
  BY DEF Confirm
<1>2. ASSUME NEW c \in confirmed', NEW f \in InChannel(c)' PROVE approved'[c][f] = new[f]
  <2>1. c \in confirmed /\ f \in InChannel(c) /\ new[f] = decisions[f]
    BY <1>1, <1>2 DEF StillConfirmed, InChannel, Frames
  <2> QED BY <1>1, <1>2, <2>1 DEF ApprovedOK
<1> QED BY <1>1, <1>2 DEF ApprovedOK, StillConfirmed

LEMMA CommitOK ==
  ASSUME ReviewOK, NEW new \in Decisions(session), CommitDecisions(new), session' = session
  PROVE  /\ ApprovedOK' /\ confirmed' \subseteq confirmed /\ decisions' = new
         /\ history' \in Seq(Decisions(session))
<1>1. decisions' = new /\ Confirm(StillConfirmed(new))
  BY DEF CommitDecisions
<1>2. Append(history, decisions) \in Seq(Decisions(session)) /\ Append(history, decisions) # <<>>
  BY AppendProperties DEF ReviewOK
<1>3. Tail(Append(history, decisions)) \in Seq(Decisions(session))
  BY <1>2, HeadTailProperties
<1>4. history' \in Seq(Decisions(session))
  BY <1>2, <1>3 DEF CommitDecisions
<1> QED BY <1>1, <1>4, ConfirmOK DEF ReviewOK

(* setDecision, for a frame on the stage.                                  *)
LEMMA SetDecisionOK ==
  ASSUME ReviewOK, NEW f \in Frames, NEW d \in {"KEEP", "DROP"}, SetDecision(f, d), session' = session
  PROVE  /\ ApprovedOK' /\ confirmed' \subseteq confirmed /\ decisions' \in Decisions(session)
         /\ history' \in Seq(Decisions(session))
         /\ viewed' \subseteq Frames
         /\ \A g \in session.broken \cap viewed' : <<g, "field">> \in failures
<1>1. /\ ApprovedOK' /\ confirmed' \subseteq confirmed /\ decisions' \in Decisions(session)
      /\ history' \in Seq(Decisions(session))
  <2>1. CASE decisions[f] = d
    BY <2>1 DEF SetDecision, ReviewOK, ApprovedOK, InChannel, Frames
  <2>2. CASE decisions[f] # d
    <3>1. [decisions EXCEPT ![f] = d] \in Decisions(session)
      BY DEF ReviewOK, Decisions
    <3> QED BY <2>2, <3>1, CommitOK DEF SetDecision
  <2> QED BY <2>1, <2>2
<1>2. viewed' \subseteq viewed \cup {f} /\ (viewed' = viewed \/ Failed(f))
  BY MarkedOK DEF SetDecision
<1>3. \A g \in session.broken \cap viewed' : <<g, "field">> \in failures
  BY <1>2 DEF ReviewOK, FailuresOK, Failed
<1> QED BY <1>1, <1>2, <1>3 DEF ReviewOK

LEMMA DecideInv ==
  ASSUME ReviewOK, Toggle \/ \E d \in {"KEEP", "DROP"} : DecideAndNext(d)
  PROVE  ReviewOK' /\ session' = session
<1>1. PICK d \in {"KEEP", "DROP"} : SetDecision(onStage, d)
  BY DEF Toggle, DecideAndNext
<1>2. onStage \in Frames /\ session' = session
  BY DEF Toggle, DecideAndNext
<1>3. /\ ApprovedOK' /\ confirmed' \subseteq confirmed /\ decisions' \in Decisions(session)
      /\ history' \in Seq(Decisions(session))
      /\ viewed' \subseteq Frames
      /\ \A g \in session.broken \cap viewed' : <<g, "field">> \in failures
  BY <1>1, <1>2, SetDecisionOK
<1>4. UNCHANGED <<images, failures>> \/ \E f : Settle(images, f, failures)
  BY DEF Toggle, DecideAndNext
<1>5. images' \in ImageSets(session) /\ FailuresOK'
  BY <1>2, <1>3, <1>4, SettleOK DEF ReviewOK, FailuresOK
<1> QED BY <1>2, <1>3, <1>5 DEF ReviewOK, Frames

LEMMA BulkInv ==
  ASSUME ReviewOK, DecideMany PROVE ReviewOK' /\ session' = session
<1>1. PICK frames, d : Bulk(frames, d) /\ d \in {"KEEP", "DROP"}
  <2>1. CASE \E d \in {"KEEP", "DROP"} : Bulk(InChannel(Channel[onStage]), d)
    BY <2>1
  <2>2. CASE Bulk({f \in InChannel(Channel[onStage]) : Night[f] = Night[onStage]}, "DROP")
    BY <2>2
  <2> QED BY <2>1, <2>2 DEF DecideMany
<1>2. UNCHANGED <<session, painted, viewed, failures, onStage, images, faults, displayed>>
  BY <1>1 DEF Bulk
<1>3. PICK new \in Decisions(session) : CommitDecisions(new)
  <2>1. [f \in Frames |-> IF f \in frames THEN d ELSE decisions[f]] \in Decisions(session)
    BY <1>1 DEF ReviewOK, Decisions, Frames
  <2> QED BY <1>1, <2>1 DEF Bulk
<1>4. /\ ApprovedOK' /\ confirmed' \subseteq confirmed /\ decisions' = new
      /\ history' \in Seq(Decisions(session))
  BY <1>2, <1>3, CommitOK
<1> QED BY <1>2, <1>4 DEF ReviewOK, FailuresOK, Frames

LEMMA UndoInv ==
  ASSUME ReviewOK, Undo PROVE ReviewOK' /\ session' = session
<1>1. UNCHANGED <<session, painted, viewed, failures, onStage, images, faults, displayed>>
  BY DEF Undo
<1>2. history \in Seq(Decisions(session)) /\ history # <<>>
  BY DEF ReviewOK, Undo
<1>3. Len(history) \in Nat /\ Len(history) > 0
  BY <1>2, EmptySeq, LenProperties
<1>4. history[Len(history)] \in Decisions(session)
  BY <1>2, <1>3, ElementOfSeq
<1>5. history' \in Seq(Decisions(session))
  <2>1. \A i \in 1..(Len(history) - 1) : history[i] \in Decisions(session)
    BY <1>2, <1>3, ElementOfSeq
  <2>2. SubSeq(history, 1, Len(history) - 1) \in Seq(Decisions(session))
    BY <1>3, <2>1, SubSeqProperties
  <2> QED BY <2>2 DEF Undo
<1>6. ApprovedOK' /\ confirmed' \subseteq confirmed
  BY <1>1, ConfirmOK DEF Undo, ReviewOK
<1> QED BY <1>1, <1>4, <1>5, <1>6 DEF ReviewOK, FailuresOK, Frames, Undo

LEMMA ConfirmInv ==
  ASSUME ReviewOK, ConfirmChannel PROVE ReviewOK' /\ session' = session
<1>1. UNCHANGED <<session, decisions, history, viewed>> /\ onStage \in Frames
  BY DEF ConfirmChannel
<1>2. PICK c \in Channels(session) :
        /\ confirmed' = confirmed \cup {c}
        /\ approved' = [d \in confirmed \cup {c} |->
                          IF d = c THEN [f \in InChannel(c) |-> decisions[f]] ELSE approved[d]]
  BY <1>1 DEF ConfirmChannel, Channels, Frames
<1>3. ApprovedOK'
  BY <1>1, <1>2 DEF ApprovedOK, ReviewOK, InChannel, Frames
<1>4. PICK f : Settle(images, f, failures)
  BY DEF ConfirmChannel
<1>5. images' \in ImageSets(session) /\ FailuresOK'
  BY <1>1, <1>4, SettleOK DEF ReviewOK, FailuresOK
<1> QED BY <1>1, <1>2, <1>3, <1>5 DEF ReviewOK, Frames

LEMMA ReviewStepInv ==
  ASSUME ReviewOK, ReviewStep PROVE ReviewOK' /\ session' = session
<1>1. CASE Retry
  <2>1. onStage \in Frames
    BY <1>1 DEF Retry, ReviewOK, ImageSets, Frames
  <2> QED BY <1>1, <2>1, ImagesInv
<1>2. CASE Paint \/ PaintBackground \/ BackgroundFails
  BY <1>2, PaintInv
<1>3. CASE Toggle \/ \E d \in {"KEEP", "DROP"} : DecideAndNext(d)
  BY <1>3, DecideInv
<1>4. ASSUME NEW f \in Frames, Select(f) \/ ImageLoads(f) \/ ImageMissing(f) \/ ImageCorrupt(f)
      PROVE  ReviewOK' /\ session' = session
  BY <1>4, ImagesInv
<1> QED BY <1>1, <1>2, <1>3, <1>4, BulkInv, UndoInv, ConfirmInv DEF ReviewStep

-----------------------------------------------------------------------------
(* The view comes and goes, and a new session is installed.                *)
LEMMA MountInv ==
  ASSUME ReviewOK, Mount \/ Unmount
  PROVE  /\ ReviewOK'
         /\ UNCHANGED <<session, decisions, viewed, confirmed, approved>>
<1>1. CASE Mount
  BY <1>1, NoImagesOK, StageInv DEF Mount, reviewed
<1>2. CASE Unmount
  <2>1. UNCHANGED <<session, decisions, history, viewed, confirmed, approved, failures>> /\ images' = NoImages
    BY <1>2 DEF Unmount, reviewed
  <2>2. images' \in ImageSets(session)
    BY <2>1, NoImagesOK
  <2> QED BY <2>1, <2>2 DEF ReviewOK, FailuresOK, ApprovedOK, InChannel, Frames
<1> QED BY <1>1, <1>2

LEMMA InstallInv ==
  ASSUME NEW s, ManifestOK(s), Install(s) PROVE ReviewOK' /\ session' = s
<1>1. /\ session' = s /\ decisions' = [f \in s.frames |-> "KEEP"] /\ history' = <<>>
      /\ viewed' = {} /\ confirmed' = {}
  BY DEF Install, ReviewReset
<1>2. PICK first : /\ images' = Ensured(NoImages, s, first)
                   /\ failures' = Reported(images', s, first, {})
  BY DEF Install
<1>3. images' \in ImageSets(s)
  <2>1. CASE first = 0
    BY <1>2, <2>1, NoImagesOK DEF Ensured
  <2>2. CASE first # 0
    <3> DEFINE more == {g \in s.frames : /\ Channel[g] = Channel[first] /\ g \notin s.broken
                                         /\ g \notin s.inline \cup NoImages.ready \cup NoImages.failed}
    <3>1. images' = [NoImages EXCEPT !.loading = @ \cup more]
      BY <1>2, <2>2 DEF Ensured
    <3>2. more \subseteq s.frames \ s.broken
      OBVIOUS
    <3> HIDE DEF more
    <3> QED BY <3>1, <3>2 DEF ImageSets, NoImages
  <2> QED BY <2>1, <2>2
<1>4. \A g : <<g, "background">> \notin failures'
  BY <1>2 DEF Reported
<1>5. decisions' \in Decisions(s) /\ history' \in Seq(Decisions(s))
  BY <1>1, EmptySeq DEF Decisions
<1> QED BY <1>1, <1>3, <1>4, <1>5 DEF ReviewOK, FailuresOK, ApprovedOK, Frames

LEMMA NoSessionOK == ManifestOK(NoSession) /\ NoSession.frames = {} /\ NoSession.id = 0
BY DEF ManifestOK, NoSession

-----------------------------------------------------------------------------
(* The measurement under way.                                              *)
Phases == {"engine", "created", "written", "answered", "failed", "refused"}

Bare == measure = [phase |-> measure.phase, lights |-> measure.lights, id |-> measure.id]

Full ==
  /\ measure = [phase |-> measure.phase, lights |-> measure.lights, id |-> measure.id,
                manifest |-> measure.manifest]
  /\ ManifestOK(measure.manifest) /\ measure.manifest.id = measure.id

MeasureOK ==
  /\ named \in Nat
  /\ measure = NoMeasure \/ (measure.phase \in Phases /\ measure.id \in 1..named /\ (Bare \/ Full))
  /\ measure.phase \in {"written", "answered"} => Full
  /\ measure.phase = "answered" => measure.manifest.frames = measure.lights

LEMMA NotMeasuring == NoMeasure.phase = "idle" /\ "idle" \notin Phases
BY DEF NoMeasure, Phases

LEMMA MeasuringOK == ASSUME MeasureOK PROVE Measuring <=> measure # NoMeasure
BY NotMeasuring DEF MeasureOK, Measuring

(* A phase follows another, and the rest of the measurement stays.         *)
LEMMA PhaseOK ==
  ASSUME MeasureOK, measure # NoMeasure, NEW place \in Phases,
         measure' = [measure EXCEPT !.phase = place], named' = named,
         place \in {"written", "answered"} => Full,
         place = "answered" => measure.manifest.frames = measure.lights
  PROVE  /\ MeasureOK' /\ measure' # NoMeasure
         /\ measure'.lights = measure.lights /\ measure'.phase = place
<1>1. CASE Bare /\ ~Full
  <2>1. measure' = [phase |-> place, lights |-> measure.lights, id |-> measure.id]
    BY <1>1 DEF Bare
  <2>2. measure'.phase = place /\ measure'.lights = measure.lights /\ measure'.id = measure.id
    BY <2>1
  <2> QED BY <1>1, <2>1, <2>2, NotMeasuring DEF MeasureOK, Bare
<1>2. CASE Full
  <2>1. measure' = [phase |-> place, lights |-> measure.lights, id |-> measure.id,
                    manifest |-> measure.manifest]
    BY <1>2 DEF Full
  <2>2. /\ measure'.phase = place /\ measure'.lights = measure.lights /\ measure'.id = measure.id
        /\ measure'.manifest = measure.manifest
    BY <2>1
  <2>3. Full'
    BY <1>2, <2>1, <2>2 DEF Full
  <2> QED BY <2>2, <2>3, NotMeasuring DEF MeasureOK
<1> QED BY <1>1, <1>2 DEF MeasureOK

(* A session has the number of its directory; no directory is named twice. *)
LEMMA MeasureStepInv ==
  ASSUME MeasureOK, SessionStep
  PROVE  /\ MeasureOK' /\ named <= named'
         /\ measure = NoMeasure <=> measure' = NoMeasure
         /\ measure # NoMeasure => measure'.lights = measure.lights
         /\ measure'.phase = "engine" => measure' = measure
         /\ \A i \in disk' \ disk : i > named \/ (measure.phase = "engine" /\ i = measure.id)
<1>1. CASE OtherMeasures
  <2>1. /\ named' = named + 1 /\ measure' = measure /\ disk' = Prune(MaxSessions - 1) \cup {named + 1}
    BY <1>1 DEF OtherMeasures
  <2>2. Prune(MaxSessions - 1) \subseteq disk
    BY DEF Prune
  <2>3. named \in Nat
    BY DEF MeasureOK
  <2>4. MeasureOK'
    <3>1. \A i \in 1..named : i \in 1..(named + 1)
      BY <2>3
    <3> QED BY <2>1, <2>3, <3>1 DEF MeasureOK, Bare, Full
  <2>5. \A i \in disk' \ disk : i > named
    BY <2>1, <2>2, <2>3
  <2> QED BY <2>1, <2>3, <2>4, <2>5
<1>2. ASSUME NEW place \in Phases \ {"engine"}, measure # NoMeasure,
             measure' = [measure EXCEPT !.phase = place], named' = named,
             place \in {"written", "answered"} => Full,
             place = "answered" => measure.manifest.frames = measure.lights,
             \A i \in disk' \ disk : measure.phase = "engine" /\ i = measure.id
      PROVE  /\ MeasureOK' /\ named <= named'
             /\ measure = NoMeasure <=> measure' = NoMeasure
             /\ measure # NoMeasure => measure'.lights = measure.lights
             /\ measure'.phase = "engine" => measure' = measure
             /\ \A i \in disk' \ disk : i > named \/ (measure.phase = "engine" /\ i = measure.id)
  <2>1. /\ MeasureOK' /\ measure' # NoMeasure
        /\ measure'.lights = measure.lights /\ measure'.phase # "engine"
    BY <1>2, PhaseOK
  <2>2. named <= named'
    BY <1>2 DEF MeasureOK
  <2> QED BY <1>2, <2>1, <2>2
<1>3. CASE EngineCreates
  <2>1. /\ measure # NoMeasure /\ measure' = [measure EXCEPT !.phase = "created"] /\ named' = named
        /\ disk' = disk \cup {measure.id} /\ measure.phase = "engine"
    BY <1>3, NotMeasuring DEF EngineCreates
  <2>2. "created" \in Phases \ {"engine"}
    BY DEF Phases
  <2> QED BY <1>2, <2>1, <2>2
<1>4. CASE EngineFails \/ ControllerRemoves
  <2>1. PICK place \in {"failed", "refused"} :
          /\ measure # NoMeasure /\ measure' = [measure EXCEPT !.phase = place] /\ named' = named
          /\ disk' \subseteq disk
    BY <1>4, NotMeasuring DEF EngineFails, ControllerRemoves
  <2>2. place \in Phases \ {"engine"}
    BY DEF Phases
  <2> QED BY <1>2, <2>1, <2>2
<1>5. CASE EngineFinishes
  <2>1. PICK look \in [measure.lights -> Looks], inline \in {{}, measure.lights} :
          \/ measure' = [measure EXCEPT !.phase = "failed"]
          \/ measure' = [phase |-> "written", lights |-> measure.lights, id |-> measure.id,
                         manifest |-> Manifest(CanonicalLights(measure.lights), look, inline)]
    BY <1>5 DEF EngineFinishes
  <2>2. measure # NoMeasure /\ named' = named /\ disk' = disk
    BY <1>5, NotMeasuring DEF EngineFinishes
  <2>3. CASE measure' = [measure EXCEPT !.phase = "failed"]
    <3>1. "failed" \in Phases \ {"engine"}
      BY DEF Phases
    <3> QED BY <1>2, <2>2, <2>3, <3>1
  <2>4. CASE measure' = [phase |-> "written", lights |-> measure.lights, id |-> measure.id,
                         manifest |-> Manifest(CanonicalLights(measure.lights), look, inline)]
    <3> DEFINE m == Manifest(CanonicalLights(measure.lights), look, inline)
    <3>1. ManifestOK(m) /\ m.id = measure.id
      BY DEF Manifest, Layered, Rendered, Specs, ManifestOK
    <3>2. measure' = [phase |-> "written", lights |-> measure.lights, id |-> measure.id, manifest |-> m]
      BY <2>4
    <3> HIDE DEF m
    <3>3. /\ measure'.phase = "written" /\ measure'.lights = measure.lights
          /\ measure'.id = measure.id /\ measure'.manifest = m
      BY <3>2
    <3>4. Full'
      BY <3>1, <3>2, <3>3 DEF Full
    <3>5. measure.id \in 1..named /\ named \in Nat
      BY <2>2 DEF MeasureOK
    <3>6. MeasureOK' /\ measure' # NoMeasure
      BY <2>2, <3>3, <3>4, <3>5, NotMeasuring DEF MeasureOK, Phases
    <3>7. named <= named'
      BY <2>2, <3>5
    <3> QED BY <2>2, <3>3, <3>6, <3>7
  <2> QED BY <2>1, <2>3, <2>4
<1>6. CASE ControllerChecks
  <2>1. /\ measure # NoMeasure /\ named' = named /\ disk' = disk /\ Full
    BY <1>6, NotMeasuring DEF ControllerChecks, MeasureOK
  <2>2. PICK place \in {"answered", "failed"} :
          /\ measure' = [measure EXCEPT !.phase = place]
          /\ place = "answered" => measure.manifest.frames = measure.lights
    BY <1>6 DEF ControllerChecks, ValidManifest
  <2>3. place \in Phases \ {"engine"}
    BY DEF Phases
  <2> QED BY <1>2, <2>1, <2>2, <2>3
<1> QED BY <1>1, <1>3, <1>4, <1>5, <1>6 DEF SessionStep

LEMMA BeginMeasureInv ==
  ASSUME MeasureOK, BeginMeasure(lights)
  PROVE  /\ MeasureOK' /\ named < named' /\ measure' # NoMeasure
         /\ measure'.lights = lights /\ measure'.id > named /\ disk' \subseteq disk
<1>1. /\ measure' = [phase |-> "engine", lights |-> lights, id |-> named + 1]
      /\ named' = named + 1 /\ disk' \subseteq disk /\ named \in Nat
  BY DEF BeginMeasure, Prune, MeasureOK
<1>2. measure'.phase = "engine" /\ measure'.lights = lights /\ measure'.id = named + 1
  BY <1>1
<1>3. Bare'
  BY <1>1, <1>2 DEF Bare
<1>4. measure'.id \in 1..named' /\ measure'.id > named /\ named < named' /\ named' \in Nat
  BY <1>1, <1>2
<1> QED BY <1>1, <1>2, <1>3, <1>4, NotMeasuring DEF MeasureOK, Phases
-----------------------------------------------------------------------------
(* The desk.  The session under review is of the Lights imported; a        *)
(* measurement holds the imports back; a check that is under way is not    *)
(* the one that was answered.                                              *)
SessionOK ==
  /\ session.id \in 0..named
  /\ session.id # 0 => Frames = lights
  /\ measure # NoMeasure => measure.lights = lights /\ inventory = {}

ChecksOK == verdict.key \notin asked /\ <<>> \notin asked

(* The run is one that was asked for, and its session cannot come back.    *)
RunOK ==
  /\ run.phase \in {"idle", "asked", "accepted", "refused"}
  /\ run.phase # "idle" =>
       /\ run = [phase |-> run.phase, session |-> run.session, lights |-> run.lights,
                 decisions |-> run.decisions, viewed |-> run.viewed, confirmed |-> run.confirmed]
       /\ run.session.id \in 1..named
       /\ measure.phase = "engine" => run.session.id # measure.id

(* From the question on nothing moves that the run was asked with.         *)
Reviewed ==
  /\ run.session = session /\ run.lights = lights /\ run.decisions = decisions
  /\ run.viewed = viewed /\ run.confirmed = confirmed
  /\ verdict.key = Key /\ verdict.ready
  /\ Covers /\ ReviewDone

RunBound ==
  Locked => step = "run" /\ inventory = {} /\ measure = NoMeasure /\ Reviewed

DeskInv ==
  ReviewOK /\ MeasureOK /\ SessionOK /\ ChecksOK /\ RunOK /\ RunBound /\ RefusedOnlyIfGone

-----------------------------------------------------------------------------
(* The run asked for, while something else happens.                        *)
LEMMA RunStays ==
  ASSUME MeasureOK, RunOK, RefusedOnlyIfGone, run' = run, named' \in Nat, named <= named',
         measure'.phase = "engine" => measure' = measure \/ measure'.id > named,
         \A i \in disk' \ disk : i > named \/ (measure.phase = "engine" /\ i = measure.id)
  PROVE  RunOK' /\ RefusedOnlyIfGone'
<1>1. named \in Nat
  BY DEF MeasureOK
<1>2. ASSUME run.phase # "idle"
      PROVE  /\ run.session.id \in 1..named' /\ ~(run.session.id > named)
             /\ measure'.phase = "engine" => run.session.id # measure'.id
  <2>1. run.session.id \in 1..named /\ (measure.phase = "engine" => run.session.id # measure.id)
    BY <1>2 DEF RunOK
  <2>2. run.session.id \in 1..named' /\ ~(run.session.id > named)
    BY <1>1, <2>1
  <2> QED BY <2>1, <2>2
<1>3. RunOK'
  BY <1>2 DEF RunOK
<1>4. RefusedOnlyIfGone'
  BY <1>2 DEF RefusedOnlyIfGone, RunOK
<1> QED BY <1>3, <1>4

LEMMA NotLocked == ASSUME run' = run, ~Locked PROVE RunBound'
BY DEF RunBound, Locked

(* Steps of the view and the calibration checks, while no run is asked for *)
(* or, for a check, the answer is not the one the run was asked with.      *)
LEMMA SameSession ==
  ASSUME DeskInv, UNCHANGED <<sessionVars, run>>
  PROVE  MeasureOK' /\ RunOK' /\ RefusedOnlyIfGone'
<1>1. UNCHANGED <<disk, named, measure, run>>
  BY DEF sessionVars
<1>2. MeasureOK'
  BY <1>1 DEF DeskInv, MeasureOK, Bare, Full
<1>3. RunOK' /\ RefusedOnlyIfGone'
  BY <1>1 DEF DeskInv, RunOK, RefusedOnlyIfGone
<1> QED BY <1>2, <1>3

LEMMA SameReview ==
  ASSUME ReviewOK, UNCHANGED reviewVars PROVE ReviewOK' /\ UNCHANGED session
<1>1. /\ UNCHANGED <<session, decisions, history, viewed, confirmed, approved, failures>>
      /\ images' = images
  BY DEF reviewVars
<1> QED BY <1>1 DEF ReviewOK, FailuresOK, ApprovedOK, InChannel, Frames

LEMMA ImportInv ==
  ASSUME DeskInv, Import \/ ImportFails PROVE DeskInv'
<1>1. /\ UNCHANGED <<sessionVars, reviewVars, lights, asked, verdict, run>>
      /\ Import => ~Measuring
      /\ inventory # {} \/ ~Locked
      /\ ImportFails => inventory' = {}
  BY DEF Import, ImportFails, Importing
<1>2. ~Locked
  BY <1>1 DEF DeskInv, RunBound
<1>3. ReviewOK' /\ session' = session
  BY <1>1, SameReview DEF DeskInv
<1>4. MeasureOK' /\ RunOK' /\ RefusedOnlyIfGone' /\ RunBound'
  BY <1>1, <1>2, SameSession, NotLocked
<1>5. measure' = measure /\ named' = named
  BY <1>1 DEF sessionVars
<1>6. SessionOK'
  BY <1>1, <1>3, <1>5, MeasuringOK DEF DeskInv, SessionOK, Frames
<1>7. ChecksOK'
  BY <1>1 DEF DeskInv, ChecksOK
<1> QED BY <1>3, <1>4, <1>6, <1>7 DEF DeskInv

(* A Light among the files ends the review; other files leave it.          *)
LEMMA ImportAnswersInv ==
  ASSUME DeskInv, ImportAnswers PROVE DeskInv'
<1>1. /\ UNCHANGED <<sessionVars, step, run>> /\ inventory # {} /\ inventory' = {}
      /\ lights' = lights \cup (inventory \cap Lights) /\ verdict' = NoVerdict
  BY DEF ImportAnswers, Importing
<1>2. measure = NoMeasure /\ UNCHANGED <<measure, named>>
  BY <1>1 DEF DeskInv, SessionOK, sessionVars
<1>3. ~Locked
  BY <1>1 DEF DeskInv, RunBound
<1>4. MeasureOK' /\ RunOK' /\ RefusedOnlyIfGone' /\ RunBound'
  BY <1>1, <1>3, SameSession, NotLocked
<1>5. ReviewOK' /\ SessionOK'
  <2>1. CASE inventory \cap Lights # {}
    <3>1. Clear
      BY <2>1 DEF ImportAnswers
    <3>2. ReviewOK' /\ session' = NoSession
      BY <3>1, NoSessionOK, InstallInv DEF Clear
    <3>3. 0 \in 0..named
      BY DEF DeskInv, MeasureOK
    <3> QED BY <1>2, <3>2, <3>3, NoSessionOK DEF SessionOK
  <2>2. CASE inventory \cap Lights = {}
    <3>1. UNCHANGED reviewVars /\ lights' = lights
      BY <1>1, <2>2 DEF ImportAnswers
    <3>2. ReviewOK' /\ session' = session
      BY <3>1, SameReview DEF DeskInv
    <3> QED BY <1>2, <3>1, <3>2 DEF DeskInv, SessionOK, Frames
  <2> QED BY <2>1, <2>2
<1>6. ChecksOK'
  <2>1. asked' \subseteq asked \cup {<<revision', lights', masters'>>}
    BY DEF ImportAnswers
  <2>2. <<>> \notin asked /\ verdict'.key = <<>>
    BY <1>1 DEF DeskInv, ChecksOK, NoVerdict
  <2>3. <<revision', lights', masters'>> # <<>>
    OBVIOUS
  <2> QED BY <2>1, <2>2, <2>3 DEF ChecksOK
<1> QED BY <1>4, <1>5, <1>6 DEF DeskInv

LEMMA CheckAnswersInv ==
  ASSUME DeskInv, NEW key \in asked, CheckAnswers(key) PROVE DeskInv'
<1>1. UNCHANGED <<sessionVars, reviewVars, step, lights, masters, revision, inventory, run>>
      /\ asked' = asked \ {key}
  BY DEF CheckAnswers
<1>2. verdict' = verdict \/ (key = Key /\ verdict'.key = key)
  BY DEF CheckAnswers
<1>3. ReviewOK' /\ session' = session
  BY <1>1, SameReview DEF DeskInv
<1>4. MeasureOK' /\ RunOK' /\ RefusedOnlyIfGone'
  BY <1>1, SameSession
<1>5. measure' = measure /\ named' = named
  BY <1>1 DEF sessionVars
<1>6. SessionOK'
  BY <1>1, <1>3, <1>5 DEF DeskInv, SessionOK, Frames
<1>7. ChecksOK'
  BY <1>1, <1>2 DEF DeskInv, ChecksOK
<1>8. RunBound'
  <2> SUFFICES ASSUME Locked PROVE (step = "run" /\ inventory = {} /\ measure = NoMeasure /\ Reviewed)'
    BY <1>1 DEF RunBound, Locked
  <2>1. step = "run" /\ inventory = {} /\ measure = NoMeasure /\ Reviewed
    BY DEF DeskInv, RunBound
  <2>2. verdict' = verdict
    BY <1>2, <2>1 DEF Reviewed, DeskInv, ChecksOK
  <2>3. UNCHANGED <<session, decisions, viewed, confirmed, failures>>
    BY <1>1 DEF reviewVars
  <2> QED BY <1>1, <1>5, <2>1, <2>2, <2>3 DEF Reviewed, Key, Covers, ReviewDone, Frames
<1> QED BY <1>3, <1>4, <1>6, <1>7, <1>8 DEF DeskInv

LEMMA ClearSourcesInv ==
  ASSUME DeskInv, ClearSources PROVE DeskInv'
<1>1. /\ UNCHANGED <<sessionVars, inventory, asked, verdict>> /\ Clear /\ run' = NoRun
      /\ inventory = {} /\ ~Measuring
  BY DEF ClearSources, Importing
<1>2. ReviewOK' /\ session' = NoSession
  BY <1>1, NoSessionOK, InstallInv DEF Clear
<1>3. UNCHANGED <<measure, named, disk>> /\ measure = NoMeasure /\ named \in Nat
  BY <1>1, MeasuringOK DEF DeskInv, sessionVars, MeasureOK
<1>4. MeasureOK'
  BY <1>3 DEF DeskInv, MeasureOK, Bare, Full
<1>5. SessionOK'
  <2>1. 0 \in 0..named
    BY <1>3
  <2> QED BY <1>2, <1>3, <2>1, NoSessionOK DEF SessionOK
<1>6. ChecksOK'
  BY <1>1 DEF DeskInv, ChecksOK
<1>7. run'.phase = "idle"
  BY <1>1 DEF NoRun
<1> QED BY <1>2, <1>4, <1>5, <1>6, <1>7 DEF DeskInv, RunOK, RunBound, Locked, RefusedOnlyIfGone

-----------------------------------------------------------------------------
(* The view of the review comes and goes.                                  *)
LEMMA ViewInv ==
  ASSUME DeskInv, OpenReview \/ LeaveReview \/ Review PROVE DeskInv'
<1>1. UNCHANGED <<sessionVars, lights, masters, revision, inventory, asked, verdict, run>>
  BY DEF OpenReview, LeaveReview, Review, deskVars
<1>2. ~Locked
  BY DEF OpenReview, LeaveReview, Review, DeskInv, RunBound
<1>3. ReviewOK' /\ session' = session
  BY MountInv, ReviewStepInv DEF DeskInv, OpenReview, LeaveReview, Review
<1>4. MeasureOK' /\ RunOK' /\ RefusedOnlyIfGone' /\ RunBound'
  BY <1>1, <1>2, SameSession, NotLocked
<1>5. measure' = measure /\ named' = named
  BY <1>1 DEF sessionVars
<1>6. SessionOK' /\ ChecksOK'
  BY <1>1, <1>3, <1>5 DEF DeskInv, SessionOK, ChecksOK, Frames
<1> QED BY <1>3, <1>4, <1>6 DEF DeskInv

LEMMA MeasureInv ==
  ASSUME DeskInv, Measure PROVE DeskInv'
<1>1. UNCHANGED <<reviewVars, deskVars>> /\ ~Locked /\ inventory = {} /\ BeginMeasure(lights)
  BY DEF Measure, Importing
<1>2. UNCHANGED <<lights, inventory, asked, verdict, run>>
  BY <1>1 DEF deskVars
<1>3. ReviewOK' /\ session' = session
  BY <1>1, SameReview DEF DeskInv
<1>4. /\ MeasureOK' /\ named < named' /\ measure' # NoMeasure
      /\ measure'.lights = lights /\ measure'.id > named /\ disk' \subseteq disk
  BY <1>1, BeginMeasureInv DEF DeskInv
<1>5. named \in Nat /\ named' \in Nat
  BY <1>4 DEF DeskInv, MeasureOK
<1>6. named <= named'
  BY <1>4, <1>5
<1>7. RunOK' /\ RefusedOnlyIfGone'
  BY <1>2, <1>4, <1>5, <1>6, RunStays DEF DeskInv
<1>8. RunBound'
  BY <1>1, <1>2, NotLocked
<1>9. SessionOK'
  <2>1. session.id \in 0..named'
    BY <1>5, <1>6 DEF DeskInv, SessionOK
  <2> QED BY <1>1, <1>2, <1>3, <1>4, <2>1 DEF DeskInv, SessionOK, Frames
<1>10. ChecksOK'
  BY <1>2 DEF DeskInv, ChecksOK
<1> QED BY <1>3, <1>4, <1>7, <1>8, <1>9, <1>10 DEF DeskInv

(* installBlinkSession: the manifest is of the Lights that were measured.  *)
LEMMA MeasuredInv ==
  ASSUME DeskInv, Measured \/ MeasureFailed PROVE DeskInv'
<1>1. /\ UNCHANGED <<disk, named, lights, masters, revision, inventory, asked, verdict, run>>
      /\ measure' = NoMeasure /\ measure # NoMeasure
  BY NotMeasuring DEF Measured, MeasureFailed, deskVars, Phases
<1>2. ~Locked
  BY <1>1 DEF DeskInv, RunBound
<1>3. named \in Nat /\ MeasureOK'
  BY <1>1, NotMeasuring DEF DeskInv, MeasureOK, Phases
<1>4. ReviewOK' /\ SessionOK'
  <2>1. CASE Measured
    <3>1. Install(measure.manifest) /\ Full /\ measure.manifest.frames = measure.lights
      BY <2>1 DEF Measured, DeskInv, MeasureOK
    <3>2. ReviewOK' /\ session' = measure.manifest
      BY <3>1, InstallInv DEF Full
    <3>3. session'.id \in 1..named
      BY <1>1, <3>1, <3>2 DEF Full, DeskInv, MeasureOK
    <3>4. session'.id \in 0..named
      BY <1>3, <3>3
    <3> QED BY <1>1, <3>1, <3>2, <3>4 DEF DeskInv, SessionOK, Frames
  <2>2. CASE MeasureFailed
    <3>1. ReviewOK' /\ session' = session
      BY <2>2, SameReview DEF DeskInv, MeasureFailed
    <3> QED BY <1>1, <3>1 DEF DeskInv, SessionOK, Frames
  <2> QED BY <2>1, <2>2
<1>5. named <= named'
  BY <1>1, <1>3
<1>6. RunOK' /\ RefusedOnlyIfGone'
  BY <1>1, <1>3, <1>5, NotMeasuring, RunStays DEF DeskInv
<1>7. RunBound' /\ ChecksOK'
  BY <1>1, <1>2, NotLocked DEF DeskInv, ChecksOK
<1> QED BY <1>3, <1>4, <1>6, <1>7 DEF DeskInv

-----------------------------------------------------------------------------
(* The run is asked for, and answered.                                     *)
LEMMA StartRunInv ==
  ASSUME DeskInv, StartRun PROVE DeskInv'
<1>1. /\ UNCHANGED <<sessionVars, lights, masters, revision, inventory, asked, verdict>>
      /\ step' = "run" /\ Unmount /\ CanStart
  BY DEF StartRun
<1>2. run' = [phase |-> "asked", session |-> session, lights |-> lights, decisions |-> decisions,
              viewed |-> viewed, confirmed |-> confirmed]
  BY DEF StartRun
<1>3. /\ run'.phase = "asked" /\ run'.session = session /\ run'.lights = lights
      /\ run'.decisions = decisions /\ run'.viewed = viewed /\ run'.confirmed = confirmed
  BY <1>2
<1>4. ReviewOK' /\ UNCHANGED <<session, decisions, viewed, confirmed>>
  BY <1>1, MountInv DEF DeskInv
<1>5. failures' = failures
  BY <1>1 DEF Unmount
<1>6. UNCHANGED <<disk, named, measure>>
  BY <1>1 DEF sessionVars
<1>7. measure = NoMeasure /\ inventory = {} /\ verdict.key = Key /\ verdict.ready /\ Covers /\ ReviewDone
  BY <1>1, MeasuringOK DEF CanStart, CalibrationReady, Importing, DeskInv
<1>8. MeasureOK' /\ SessionOK' /\ ChecksOK'
  BY <1>1, <1>4, <1>6 DEF DeskInv, MeasureOK, Bare, Full, SessionOK, ChecksOK, Frames
<1>9. RunOK'
  <2>1. session.id \in 1..named
    BY <1>7 DEF DeskInv, SessionOK, MeasureOK, Covers
  <2> QED BY <1>2, <1>3, <1>6, <1>7, <2>1, NotMeasuring DEF RunOK
<1>10. RunBound'
  <2>1. Reviewed'
    BY <1>1, <1>3, <1>4, <1>5, <1>7 DEF Reviewed, Key, Covers, ReviewDone, Frames
  <2> QED BY <1>1, <1>6, <1>7, <2>1 DEF RunBound
<1> QED BY <1>3, <1>4, <1>8, <1>9, <1>10 DEF DeskInv, RefusedOnlyIfGone

(* Whatever the controller compares holds, but for the session's files.    *)
LEMMA ReviewIsValid ==
  ASSUME ReviewOK, SessionOK, Reviewed, session.id \in disk PROVE ReviewValid
<1>1. /\ run.session = session /\ run.lights = lights /\ run.decisions = decisions
      /\ run.viewed = viewed /\ run.confirmed = confirmed /\ Covers /\ ReviewDone
  BY DEF Reviewed
<1>2. viewed = Frames /\ confirmed = Channels(session) /\ lights = Frames
  BY <1>1 DEF ReviewOK, ReviewDone, SessionOK, Covers
<1>3. DOMAIN decisions = Frames
  BY DEF ReviewOK, Decisions, Frames
<1>4. ASSUME NEW f \in session.broken PROVE decisions[f] # "KEEP"
  <2>1. <<f, "field">> \in failures
    BY <1>2 DEF ReviewOK, FailuresOK, ManifestOK, Frames
  <2>2. <<f, "field">>[1] \in {g \in Frames : decisions[g] = "DROP"}
    BY <1>1, <2>1 DEF ReviewDone
  <2> QED BY <2>2
<1> QED BY <1>1, <1>2, <1>3, <1>4 DEF ReviewValid, Covers, Frames

LEMMA ControllerStartsInv ==
  ASSUME DeskInv, ControllerStarts PROVE DeskInv'
<1>1. /\ UNCHANGED <<sessionVars, reviewVars>>
      /\ UNCHANGED <<step, lights, masters, revision, inventory, asked, verdict>>
      /\ run.phase = "asked"
  BY DEF ControllerStarts
<1>2. PICK place \in {"accepted", "refused"} :
        /\ run' = [run EXCEPT !.phase = place] /\ (ReviewValid => place = "accepted")
  BY DEF ControllerStarts
<1>3. run = [phase |-> run.phase, session |-> run.session, lights |-> run.lights,
             decisions |-> run.decisions, viewed |-> run.viewed, confirmed |-> run.confirmed]
  BY <1>1 DEF DeskInv, RunOK
<1>4. run' = [phase |-> place, session |-> run.session, lights |-> run.lights,
              decisions |-> run.decisions, viewed |-> run.viewed, confirmed |-> run.confirmed]
  BY <1>2, <1>3
<1>5. /\ run'.phase = place /\ run'.session = run.session /\ run'.lights = run.lights
      /\ run'.decisions = run.decisions /\ run'.viewed = run.viewed /\ run'.confirmed = run.confirmed
  BY <1>4
<1>6. ReviewOK' /\ UNCHANGED <<session, decisions, viewed, confirmed, failures>>
  BY <1>1, SameReview DEF DeskInv, reviewVars
<1>7. UNCHANGED <<disk, named, measure>>
  BY <1>1 DEF sessionVars
<1>8. MeasureOK' /\ SessionOK' /\ ChecksOK'
  BY <1>1, <1>6, <1>7 DEF DeskInv, MeasureOK, Bare, Full, SessionOK, ChecksOK, Frames
<1>9. step = "run" /\ inventory = {} /\ measure = NoMeasure /\ Reviewed
  BY <1>1 DEF DeskInv, RunBound, Locked
<1>10. RunOK'
  BY <1>1, <1>4, <1>5, <1>7 DEF DeskInv, RunOK
<1>11. RunBound'
  <2>1. Reviewed'
    BY <1>1, <1>5, <1>6, <1>9 DEF Reviewed, Key, Covers, ReviewDone, Frames
  <2> QED BY <1>1, <1>7, <1>9, <2>1 DEF RunBound
<1>12. RefusedOnlyIfGone'
  <2>1. session.id \in disk => ReviewValid
    BY <1>9, ReviewIsValid DEF DeskInv
  <2>2. run.session = session
    BY <1>9 DEF Reviewed
  <2> QED BY <1>2, <1>5, <1>7, <2>1, <2>2 DEF RefusedOnlyIfGone
<1> QED BY <1>6, <1>8, <1>10, <1>11, <1>12 DEF DeskInv

(* Engine, controller and other windows: sessions come under new names.    *)
LEMMA ElsewhereInv ==
  ASSUME DeskInv, SessionStep, UNCHANGED <<reviewVars, deskVars>> PROVE DeskInv'
<1>1. /\ MeasureOK' /\ named <= named'
      /\ measure = NoMeasure <=> measure' = NoMeasure
      /\ measure # NoMeasure => measure'.lights = measure.lights
      /\ measure'.phase = "engine" => measure' = measure
      /\ \A i \in disk' \ disk : i > named \/ (measure.phase = "engine" /\ i = measure.id)
  BY MeasureStepInv DEF DeskInv
<1>2. ReviewOK' /\ UNCHANGED <<session, decisions, viewed, confirmed, failures>>
  BY SameReview DEF DeskInv, reviewVars
<1>3. UNCHANGED <<step, lights, masters, revision, inventory, asked, verdict, run>>
  BY DEF deskVars
<1>4. named \in Nat /\ named' \in Nat
  BY <1>1 DEF DeskInv, MeasureOK
<1>5. SessionOK'
  <2>1. session.id \in 0..named'
    BY <1>1, <1>4 DEF DeskInv, SessionOK
  <2> QED BY <1>1, <1>2, <1>3, <2>1 DEF DeskInv, SessionOK, Frames
<1>6. ChecksOK'
  BY <1>3 DEF DeskInv, ChecksOK
<1>7. RunOK' /\ RefusedOnlyIfGone'
  BY <1>1, <1>3, <1>4, RunStays DEF DeskInv
<1>8. RunBound'
  BY <1>1, <1>2, <1>3 DEF DeskInv, RunBound, Locked, Reviewed, Key, Covers, ReviewDone, Frames
<1> QED BY <1>1, <1>2, <1>5, <1>6, <1>7, <1>8 DEF DeskInv

-----------------------------------------------------------------------------
(* Everything the desk keeps true, at every step of this window, of the    *)
(* engine, of the controller and of other windows.                         *)
THEOREM DeskInvariant == WorkbenchSpec => []DeskInv
<1>1. WorkbenchInit => DeskInv
  <2> SUFFICES ASSUME WorkbenchInit PROVE DeskInv
    OBVIOUS
  <2>1. /\ session = NoSession /\ decisions = <<>> /\ history = <<>> /\ viewed = {} /\ confirmed = {}
        /\ failures = {} /\ images = NoImages /\ named = 0 /\ measure = NoMeasure
        /\ lights = {} /\ asked = {} /\ run = NoRun
    BY DEF WorkbenchInit, SessionInit, ReviewInit
  <2>2. decisions \in Decisions(session) /\ history \in Seq(Decisions(session))
    BY <2>1, NoSessionOK, EmptySeq DEF Decisions
  <2>3. ReviewOK
    BY <2>1, <2>2, NoSessionOK, NoImagesOK DEF ReviewOK, FailuresOK, ApprovedOK
  <2>4. MeasureOK
    BY <2>1, NotMeasuring DEF MeasureOK
  <2>5. SessionOK
    BY <2>1, NoSessionOK DEF SessionOK
  <2>6. run.phase = "idle"
    BY <2>1 DEF NoRun
  <2> QED BY <2>1, <2>3, <2>4, <2>5, <2>6
           DEF DeskInv, ChecksOK, RunOK, RunBound, Locked, RefusedOnlyIfGone
<1>2. DeskInv /\ [WorkbenchNext]_vars => DeskInv'
  <2> SUFFICES ASSUME DeskInv, [WorkbenchNext]_vars PROVE DeskInv'
    OBVIOUS
  <2>1. CASE UNCHANGED vars
    <3>1. UNCHANGED <<sessionVars, reviewVars, deskVars>>
      BY <2>1 DEF vars
    <3>2. UNCHANGED <<disk, named, measure, step, lights, masters, revision, inventory, asked, verdict, run>>
      BY <3>1 DEF sessionVars, deskVars
    <3>3. ReviewOK' /\ UNCHANGED <<session, decisions, viewed, confirmed, failures>>
      BY <3>1, SameReview DEF DeskInv, reviewVars
    <3>4. MeasureOK' /\ RunOK' /\ RefusedOnlyIfGone'
      BY <3>1, <3>2, SameSession
    <3> QED BY <3>2, <3>3, <3>4 DEF DeskInv, SessionOK, ChecksOK, RunBound, Locked, Reviewed, Key,
                                    Covers, ReviewDone, Frames
  <2>2. CASE InWindow
    BY <2>2, ImportInv, ImportAnswersInv, CheckAnswersInv, ClearSourcesInv, ViewInv, MeasureInv,
       MeasuredInv, StartRunInv DEF InWindow
  <2>3. CASE Elsewhere
    BY <2>3, ElsewhereInv, ControllerStartsInv DEF Elsewhere
  <2> QED BY <2>1, <2>2, <2>3 DEF WorkbenchNext
<1> QED BY <1>1, <1>2, PTL DEF WorkbenchSpec

(* StartBindsReview: a run that starts has the Lights, the calibration     *)
(* check and the confirmed decisions of the review on the desk.            *)
THEOREM RunsAreReviewed == WorkbenchSpec => []StartBindsReview
<1>1. DeskInv => StartBindsReview
  <2> SUFFICES ASSUME DeskInv, run.phase = "accepted" PROVE StartBindsReview
    BY DEF StartBindsReview
  <2>1. Reviewed
    BY DEF DeskInv, RunBound, Locked
  <2>2. run.session = session /\ run.decisions = decisions /\ verdict.key = Key /\ verdict.ready
    BY <2>1 DEF Reviewed
  <2>3. Frames = lights /\ Channels(session) \subseteq confirmed
    BY <2>1 DEF Reviewed, Covers, ReviewDone, DeskInv, SessionOK
  <2>4. ApprovedOK
    BY DEF DeskInv, ReviewOK
  <2> QED BY <2>2, <2>3, <2>4 DEF StartBindsReview, ApprovedOK, InChannel, Frames
<1> QED BY <1>1, DeskInvariant, PTL

(* RefusedOnlyIfGone: validate_blink_review refuses a run of the desk only *)
(* because the session it was reviewed in is no longer on disk.            *)
THEOREM RefusedRunsAreGone == WorkbenchSpec => []RefusedOnlyIfGone
<1>1. DeskInv => RefusedOnlyIfGone
  BY DEF DeskInv
<1> QED BY <1>1, DeskInvariant, PTL
=============================================================================
