------------------------------ MODULE BlinkReview ------------------------------
(***************************************************************************)
(* The review of a blink session in the webview: the images BlinkView      *)
(* loads and paints, the decisions, their undo stack and the confirmation  *)
(* of channels of useWorkflow.  An image is painted and marked by the      *)
(* frame, a failed one is reported for the frame on the stage only; the    *)
(* view's effect that reports it runs after every step, and its end state  *)
(* is part of the step.                                                    *)
(***************************************************************************)
EXTENDS BlinkSession

CONSTANTS
  Night,         \* Night[f]
  HistoryLimit,  \* DECISION_HISTORY_LIMIT
  MaxFaults      \* images that fail to load or to decode

ASSUME ReviewAssumption == HistoryLimit \in Nat \ {0} /\ MaxFaults \in Nat

VARIABLES
  session,      \* the manifest under review
  decisions,    \* by frame, KEEP or DROP
  history,      \* decisionHistory
  painted,      \* paintedLayersRef: pairs of a frame and a layer
  viewed,       \* viewedFrames
  confirmed,    \* confirmedChannels
  failures,     \* previewLayerFailures: pairs of a frame and a layer
  onStage,      \* the frame on the stage
  images,       \* the caches of the view: frames loading, ready, failed, bypassing the inline image
  faults,       \* images that failed so far
  displayed,    \* for the properties: frames whose field was painted
  approved      \* for the properties: the decisions a confirmed channel was confirmed with

reviewVars ==
  <<session, decisions, history, painted, viewed, confirmed, failures, onStage, images, faults,
    displayed, approved>>

NoSession == [id |-> 0, frames |-> {}, broken |-> {}, layered |-> {}, inline |-> {}]
NoImages == [loading |-> {}, ready |-> {}, failed |-> {}, bypass |-> {}]

Frames == session.frames
Channels(s) == {Channel[f] : f \in s.frames}
InChannel(c) == {f \in Frames : Channel[f] = c}

(* A frame has an image to paint: inline or loaded, and not failed. *)
Shows(i, f) == f \notin i.failed /\ (f \in i.ready \/ f \in session.inline \ i.bypass)

-----------------------------------------------------------------------------
(* The effects of the view: the frames of the channel that have no image   *)
(* are asked for, and the failure of the frame on the stage is reported.   *)
Ensured(i, s, f) ==
  IF f = 0 THEN i
  ELSE [i EXCEPT !.loading = @ \cup
          {g \in s.frames : /\ Channel[g] = Channel[f] /\ g \notin s.broken
                            /\ g \notin s.inline \cup i.ready \cup i.failed}]

Unreadable(i, s, f) == f \in s.broken \/ f \in i.failed

Reported(i, s, f, reports) ==
  IF f = 0 THEN reports
  ELSE IF Unreadable(i, s, f) THEN reports \cup {<<f, "field">>}
  ELSE reports \ {<<f, "field">>}

Settle(i, f, reports) ==
  LET after == Ensured(i, session, f)
  IN images' = after /\ onStage' = f /\ failures' = Reported(after, session, f, reports)

Failed(f) == \E layer \in {"field", "background"} : <<f, layer>> \in failures

(* markFrameViewed: every layer of the frame was painted. *)
Marked(f, layers) ==
  LET seen == painted \cup {<<f, layer>> : layer \in layers}
      all  == <<f, "field">> \in seen /\ (f \in session.layered => <<f, "background">> \in seen)
  IN IF f \in viewed THEN UNCHANGED <<painted, viewed>>
     ELSE painted' = seen /\ viewed' = (IF all THEN viewed \cup {f} ELSE viewed)

reviewed == <<session, decisions, history, painted, viewed, confirmed, displayed, approved>>

-----------------------------------------------------------------------------
(* The stage. *)
Select(f) ==
  /\ f \in Frames /\ f # onStage
  /\ Settle(images, f, failures)
  /\ UNCHANGED <<reviewed, faults>>

ImageLoads(f) ==
  /\ f \in images.loading /\ session.id \in disk
  /\ Settle([images EXCEPT !.loading = @ \ {f}, !.ready = @ \cup {f}], onStage, failures)
  /\ UNCHANGED <<reviewed, faults>>

(* load_blink_preview_with answers an error: the session is gone or the    *)
(* file cannot be read.                                                    *)
ImageMissing(f) ==
  /\ f \in images.loading
  /\ faults' = IF session.id \in disk THEN faults + 1 ELSE faults
  /\ faults' <= MaxFaults
  /\ Settle([images EXCEPT !.loading = @ \ {f}, !.failed = @ \cup {f}], onStage, failures)
  /\ UNCHANGED reviewed

(* The webview cannot decode the image, on the stage or in the filmstrip. *)
ImageCorrupt(f) ==
  /\ Shows(images, f) /\ faults < MaxFaults /\ faults' = faults + 1
  /\ Settle([images EXCEPT !.ready = @ \ {f}, !.failed = @ \cup {f}, !.bypass = @ \cup {f}],
            onStage, failures)
  /\ UNCHANGED reviewed

(* usePreviewCache.retry: the error is forgotten before the image is here. *)
Retry ==
  /\ onStage \in images.failed
  /\ Settle([images EXCEPT !.failed = @ \ {onStage}, !.ready = @ \ {onStage},
                           !.bypass = @ \cup {onStage}, !.loading = @ \cup {onStage}],
            onStage, failures)
  /\ UNCHANGED <<reviewed, faults>>

Paint ==
  /\ Shows(images, onStage) /\ onStage \notin displayed \cap viewed
  /\ Marked(onStage, {"field"})
  /\ displayed' = displayed \cup {onStage}
  /\ UNCHANGED <<session, decisions, history, confirmed, failures, onStage, images, faults, approved>>

(* The diagnostic panel loads the background layer of the frame on stage. *)
PaintBackground ==
  /\ onStage \in session.layered /\ session.id \in disk
  /\ Marked(onStage, {"background"})
  /\ failures' = failures \ {<<onStage, "background">>}
  /\ UNCHANGED <<session, decisions, history, confirmed, onStage, images, faults, displayed, approved>>

BackgroundFails ==
  /\ onStage \in session.layered
  /\ faults' = IF session.id \in disk THEN faults + 1 ELSE faults
  /\ faults' <= MaxFaults
  /\ failures' = failures \cup {<<onStage, "background">>}
  /\ UNCHANGED <<reviewed, onStage, images>>

-----------------------------------------------------------------------------
(* The decisions.  invalidateReviewedChannels: a channel with a changed    *)
(* decision is no longer confirmed.                                        *)
StillConfirmed(new) ==
  {c \in confirmed : \A f \in InChannel(c) : new[f] = decisions[f]}

Confirm(channels) ==
  /\ confirmed' = channels
  /\ approved' = [c \in channels |-> approved[c]]

CommitDecisions(new) ==
  /\ Confirm(StillConfirmed(new))
  /\ decisions' = new
  /\ history' = LET all == Append(history, decisions)
                IN IF Len(all) > HistoryLimit THEN Tail(all) ELSE all

(* setDecision: dropping a failed image acknowledges that it is unseen. *)
SetDecision(f, d) ==
  /\ IF decisions[f] = d THEN UNCHANGED <<decisions, history, confirmed, approved>>
     ELSE CommitDecisions([decisions EXCEPT ![f] = d])
  /\ IF d = "DROP" /\ Failed(f) THEN Marked(f, {"field", "background"})
     ELSE UNCHANGED <<painted, viewed>>

Following(f) == {g \in InChannel(Channel[f]) : g > f}

(* decideAndNext: the keys K and D. *)
DecideAndNext(d) ==
  /\ onStage \in Frames
  /\ d = "KEEP" => onStage \in viewed /\ ~Failed(onStage)
  /\ SetDecision(onStage, d)
  /\ Settle(images, IF Following(onStage) = {} THEN onStage ELSE First(Following(onStage)), failures)
  /\ UNCHANGED <<session, faults, displayed>>

(* toggleDecision: the space bar. *)
Toggle ==
  /\ onStage \in Frames
  /\ SetDecision(onStage, IF decisions[onStage] = "KEEP" THEN "DROP" ELSE "KEEP")
  /\ UNCHANGED <<session, failures, onStage, images, faults, displayed>>

(* setDecisionsBulk and setNightDecision: a range of the filmstrip, a night *)
Bulk(frames, d) ==
  /\ \E f \in frames : decisions[f] # d
  /\ CommitDecisions([f \in Frames |-> IF f \in frames THEN d ELSE decisions[f]])
  /\ UNCHANGED <<session, painted, viewed, failures, onStage, images, faults, displayed>>

DecideMany ==
  /\ onStage \in Frames
  /\ \/ \E d \in {"KEEP", "DROP"} : Bulk(InChannel(Channel[onStage]), d)
     \/ Bulk({f \in InChannel(Channel[onStage]) : Night[f] = Night[onStage]}, "DROP")

(* undo; first its mutant, which leaves confirmed channels alone. *)
UndoSilently ==
  /\ history # <<>>
  /\ decisions' = history[Len(history)]
  /\ history' = SubSeq(history, 1, Len(history) - 1)
  /\ UNCHANGED <<session, painted, viewed, confirmed, approved>>
  /\ UNCHANGED <<failures, onStage, images, faults, displayed>>

Undo ==
  /\ history # <<>>
  /\ Confirm(StillConfirmed(history[Len(history)]))
  /\ decisions' = history[Len(history)]
  /\ history' = SubSeq(history, 1, Len(history) - 1)
  /\ UNCHANGED <<session, painted, viewed, failures, onStage, images, faults, displayed>>

(* confirmBlinkChannel, then the first pending channel. *)
ConfirmChannel ==
  /\ onStage \in Frames
  /\ LET c == Channel[onStage]
         pending == {f \in Frames : Channel[f] \notin confirmed \cup {c}}
     IN /\ c \notin confirmed
        /\ \A f \in InChannel(c) : f \in viewed /\ (Failed(f) => decisions[f] = "DROP")
        /\ confirmed' = confirmed \cup {c}
        /\ approved' = [d \in confirmed \cup {c} |->
                          IF d = c THEN [f \in InChannel(c) |-> decisions[f]] ELSE approved[d]]
        /\ Settle(images, IF pending = {} THEN onStage ELSE First(pending), failures)
  /\ UNCHANGED <<session, decisions, history, painted, viewed, faults, displayed>>

-----------------------------------------------------------------------------
(* resetBlinkReview, for clearBlinkSession and installBlinkSession; first   *)
(* its mutant, which does not forget what the last review saw.             *)
ReviewKept(s) ==
  /\ session' = s
  /\ decisions' = [f \in s.frames |-> "KEEP"]
  /\ history' = <<>> /\ painted' = painted /\ viewed' = viewed
  /\ confirmed' = {} /\ approved' = <<>> /\ displayed' = {}

ReviewReset(s) ==
  /\ session' = s
  /\ decisions' = [f \in s.frames |-> "KEEP"]
  /\ history' = <<>> /\ painted' = {} /\ viewed' = {}
  /\ confirmed' = {} /\ approved' = <<>> /\ displayed' = {}

(* The view of a new session is mounted on its first frame. *)
Install(s) ==
  LET first == IF s.frames = {} THEN 0 ELSE First(s.frames)
      fresh == Ensured(NoImages, s, first)
  IN ReviewReset(s) /\ images' = fresh /\ onStage' = first
     /\ failures' = Reported(fresh, s, first, {})

Clear == Install(NoSession)

(* BlinkView leaves the screen with its caches, and comes back. *)
Unmount ==
  /\ onStage' = 0 /\ images' = NoImages
  /\ UNCHANGED <<reviewed, failures, faults>>

Mount ==
  /\ Settle(NoImages, IF Frames = {} THEN 0 ELSE First(Frames), failures)
  /\ UNCHANGED <<reviewed, faults>>

ReviewInit ==
  /\ session = NoSession /\ decisions = <<>> /\ history = <<>> /\ painted = {} /\ viewed = {}
  /\ confirmed = {} /\ failures = {} /\ onStage = 0 /\ images = NoImages /\ faults = 0
  /\ displayed = {} /\ approved = <<>>

ReviewStep ==
  \/ \E f \in Frames : Select(f) \/ ImageLoads(f) \/ ImageMissing(f) \/ ImageCorrupt(f)
  \/ Retry \/ Paint \/ PaintBackground \/ BackgroundFails
  \/ \E d \in {"KEEP", "DROP"} : DecideAndNext(d)
  \/ Toggle \/ DecideMany \/ Undo \/ ConfirmChannel

(* blinkReviewComplete but for the session: blinkSessionCovers is below. *)
ReviewDone ==
  /\ Frames # {}
  /\ Channels(session) \subseteq confirmed /\ Frames \subseteq viewed
  /\ \A report \in failures : report[1] \in {f \in Frames : decisions[f] = "DROP"}
=============================================================================
