---------------------------- MODULE PixelRun_proof ----------------------------
EXTENDS PixelRun, FiniteSetTheorems, SequenceTheorems, TLAPS

-----------------------------------------------------------------------------
(* The measurement (light-frame-qc).  A task is somewhere on the way of    *)
(* _measure_task.                                                          *)
Places ==
  {"wait", "key", "replay", "replayed", "measure", "decode", "linear", "verify", "store", "done"}
Task    == [at : Places, key : Nat, identity : Nat, stat : Nat, decoded : Nat]
Codes   == {"", "READ", "THUMBNAIL_EXISTS", "LINEAR_PREVIEW_EXISTS", "FILE_CHANGED_DURING_MEASUREMENT"}
Outcome == [status : {"NONE", "MEASURED", "ERROR"}, code : Codes, identity : Nat, decoded : Nat]

MeasureTyped ==
  /\ batch \in {"run", "preflight", "blink"}
  /\ version \in [Frames -> Nat] /\ stamp \in [Frames -> Nat] /\ edits \in Nat
  /\ task \in [Frames -> Task] /\ measured \in [Frames -> Outcome]
  /\ thumbnail \subseteq Frames /\ linear \subseteq Frames
  /\ cache \subseteq Frames \X Nat \X Nat

(* A stat names one state of its file: it is the number of an edit, and    *)
(* every edit has a number of its own.                                     *)
StatsPast(f) == stamp[f] <= edits /\ task[f].stat <= stamp[f]

(* While the stat a worker took is still that of the file, what the worker *)
(* read is what the file holds.                                            *)
SeenHolds(f) ==
  task[f].stat = stamp[f] =>
    /\ task[f].at \in {"decode", "linear", "verify"} => task[f].identity = version[f]
    /\ task[f].at \in {"linear", "verify"} => task[f].decoded = version[f]

(* The cache and the linear previews belong to the callers that ask.       *)
FromCache(f) ==
  /\ task[f].at = "linear" => HasLinear
  /\ task[f].at \in {"key", "replay", "replayed"} => HasCache
  /\ task[f].at \in {"replay", "replayed"} => <<f, task[f].identity, task[f].decoded>> \in cache

(* Which step may find which preview written.  After the process pool      *)
(* broke, a frame may meet the previews of its own first attempt.          *)
OwnPreviews(f) ==
  executor # "fallback" =>
    /\ f \in thumbnail =>
         HasThumbnail /\ task[f].at \in {"replayed", "linear", "verify", "store", "done"}
    /\ f \in linear => HasLinear /\ task[f].at \in {"replayed", "verify", "store", "done"}

(* The answer for a decodable file nobody touched. *)
Answered(f) ==
  task[f].at \in {"store", "done"} /\ stamp[f] = 0 /\ Decodable(f) =>
    \/ measured[f].status = "MEASURED"
    \/ /\ executor = "fallback"
       /\ measured[f].code \in {"THUMBNAIL_EXISTS", "LINEAR_PREVIEW_EXISTS"}

Bound(f) ==
  measured[f].status = "MEASURED" =>
    \/ measured[f].decoded = measured[f].identity
    \/ HasCache /\ <<f, measured[f].identity, measured[f].decoded>> \in cache

FrameOK(f) ==
  StatsPast(f) /\ SeenHolds(f) /\ FromCache(f) /\ OwnPreviews(f) /\ Answered(f) /\ Bound(f)

MeasureInv == MeasureTyped /\ \A f \in Frames : FrameOK(f)

(* What the steps of one worker have in common. *)
OnlyFrame(f) ==
  /\ UNCHANGED <<batch, executor, version, stamp, edits>>
  /\ \E t \in Task : task' = [task EXCEPT ![f] = t]
  /\ \E m \in Outcome : measured' = [measured EXCEPT ![f] = m]
  /\ thumbnail' \subseteq Frames /\ thumbnail' \ {f} = thumbnail \ {f}
  /\ linear' \subseteq Frames /\ linear' \ {f} = linear \ {f}
  /\ cache \subseteq cache' /\ cache' \subseteq Frames \X Nat \X Nat

LEMMA OneFrame ==
  ASSUME MeasureInv, NEW f \in Frames, OnlyFrame(f), FrameOK(f)' PROVE MeasureInv'
<1>1. MeasureTyped'
  BY DEF MeasureInv, MeasureTyped, OnlyFrame
<1>2. ASSUME NEW g \in Frames, g # f PROVE FrameOK(g)'
  <2>1. /\ UNCHANGED <<batch, executor, version[g], stamp[g], edits, task[g], measured[g]>>
        /\ g \in thumbnail' <=> g \in thumbnail
        /\ g \in linear' <=> g \in linear
        /\ cache \subseteq cache'
    BY <1>2 DEF MeasureInv, MeasureTyped, OnlyFrame
  <2>2. FrameOK(g)
    BY DEF MeasureInv
  <2>3. (StatsPast(g) /\ SeenHolds(g) /\ FromCache(g))'
    BY <2>1, <2>2 DEF FrameOK, StatsPast, SeenHolds, FromCache, HasCache, HasLinear
  <2>4. (OwnPreviews(g) /\ Answered(g) /\ Bound(g))'
    BY <2>1, <2>2 DEF FrameOK, OwnPreviews, Answered, Bound, HasCache, HasThumbnail, HasLinear, Decodable
  <2> QED BY <2>3, <2>4 DEF FrameOK
<1> QED BY <1>1, <1>2 DEF MeasureInv

(* A worker that only goes on to another place. *)
LEMMA Gone ==
  ASSUME MeasureInv, NEW f \in Frames, NEW p \in Places, Goto(f, p)
  PROVE  /\ task' = [task EXCEPT ![f] = [task[f] EXCEPT !.at = p]]
         /\ [task[f] EXCEPT !.at = p] \in Task
BY DEF Goto, MeasureInv, MeasureTyped, Task

LEMMA Here ==
  ASSUME MeasureInv, NEW f \in Frames
  PROVE  MeasureTyped /\ FrameOK(f) /\ task[f] \in Task /\ measured[f] \in Outcome
BY DEF MeasureInv, MeasureTyped

(* The actions of one worker, one lemma each. *)
LEMMA StartTaskInv ==
  ASSUME MeasureInv, NEW f \in Frames, StartTask(f) PROVE MeasureInv'
<1>1. UNCHANGED <<batch, executor, version, stamp, edits, thumbnail, linear, cache, measured>>
  BY DEF StartTask, fileVars
<1>2. PICK p \in {"key", "measure"} : Goto(f, p) /\ (p = "key" => HasCache)
  BY DEF StartTask, Goto
<1>3. MeasureTyped /\ FrameOK(f) /\ task[f] \in Task /\ measured[f] \in Outcome /\ task[f].at = "wait"
  BY Here DEF StartTask, At
<1>4. task' = [task EXCEPT ![f] = [task[f] EXCEPT !.at = p]] /\ [task[f] EXCEPT !.at = p] \in Task
  BY <1>2, Gone DEF Places
<1>5. OnlyFrame(f)
  BY <1>1, <1>3, <1>4 DEF OnlyFrame, MeasureTyped
<1>6. FrameOK(f)'
  BY <1>1, <1>2, <1>3, <1>4 DEF FrameOK, MeasureTyped, StatsPast, SeenHolds, FromCache, OwnPreviews, Answered, Bound,
     HasCache, HasThumbnail, HasLinear, Decodable, Task
<1> QED BY <1>5, <1>6, OneFrame

LEMMA LoadCacheInv ==
  ASSUME MeasureInv, NEW f \in Frames, LoadCache(f) PROVE MeasureInv'
<1>1. UNCHANGED <<batch, executor, version, stamp, edits, thumbnail, linear, cache, measured>>
  BY DEF LoadCache, fileVars
<1>3. MeasureTyped /\ FrameOK(f) /\ task[f] \in Task /\ measured[f] \in Outcome /\ task[f].at = "key"
  BY Here DEF LoadCache, At
<1> DEFINE Asked == [task[f] EXCEPT !.at = "measure", !.key = version[f]]
           Found(d) == [at |-> "replay", key |-> version[f], identity |-> version[f],
                        stat |-> stamp[f], decoded |-> d]
<1>4. CASE task' = [task EXCEPT ![f].at = "measure", ![f].key = FileIdentity(f)]
  <2>1. task' = [task EXCEPT ![f] = Asked] /\ Asked \in Task
    BY <1>3, <1>4 DEF MeasureTyped, Task, Places, FileIdentity
  <2>2. OnlyFrame(f)
    BY <1>1, <1>3, <2>1 DEF OnlyFrame, MeasureTyped
  <2>3. FrameOK(f)'
    BY <1>1, <1>3, <2>1 DEF FrameOK, MeasureTyped, StatsPast, SeenHolds, FromCache, OwnPreviews, Answered, Bound,
       HasCache, HasThumbnail, HasLinear, Decodable, Task
  <2> QED BY <2>2, <2>3, OneFrame
<1>5. CASE \E entry \in cache :
             /\ entry[1] = f /\ entry[2] = FileIdentity(f)
             /\ task' = [task EXCEPT ![f] = [at |-> "replay", key |-> FileIdentity(f),
                                             identity |-> FileIdentity(f), stat |-> stamp[f],
                                             decoded |-> entry[3]]]
  <2>1. PICK d \in Nat : <<f, version[f], d>> \in cache /\ task' = [task EXCEPT ![f] = Found(d)]
    <3>1. PICK entry \in cache : /\ entry[1] = f /\ entry[2] = version[f]
                                 /\ task' = [task EXCEPT ![f] = Found(entry[3])]
      BY <1>5 DEF FileIdentity
    <3>2. entry \in Frames \X Nat \X Nat
      BY <1>3 DEF MeasureTyped
    <3>3. entry = <<f, version[f], entry[3]>> /\ entry[3] \in Nat
      BY <3>1, <3>2
    <3> QED BY <3>1, <3>3
  <2>2. Found(d) \in Task /\ task'[f] = Found(d)
    BY <1>3, <2>1 DEF MeasureTyped, Task, Places
  <2>3. OnlyFrame(f)
    BY <1>1, <1>3, <2>1, <2>2 DEF OnlyFrame, MeasureTyped
  <2>4. HasCache
    BY <1>3 DEF FrameOK, FromCache
  <2>5. FrameOK(f)'
    BY <1>1, <1>3, <2>1, <2>2, <2>4 DEF FrameOK, MeasureTyped, StatsPast, SeenHolds, FromCache, OwnPreviews, Answered, Bound,
       HasCache, HasThumbnail, HasLinear, Decodable, Task
  <2> QED BY <2>3, <2>5, OneFrame
<1> QED BY <1>4, <1>5 DEF LoadCache

LEMMA ReplayPreviewsInv ==
  ASSUME MeasureInv, NEW f \in Frames, ReplayPreviews(f) PROVE MeasureInv'
<1>1. UNCHANGED <<batch, executor, version, stamp, edits, cache, measured>>
  BY DEF ReplayPreviews, fileVars
<1>2. MeasureTyped /\ FrameOK(f) /\ task[f] \in Task /\ measured[f] \in Outcome /\ task[f].at = "replay"
  BY Here DEF ReplayPreviews, At
<1>3. PICK p \in {"replayed", "measure"} :
        /\ Goto(f, p)
        /\ p = "replayed" =>
             /\ thumbnail' = thumbnail \cup (IF HasThumbnail THEN {f} ELSE {})
             /\ linear' = linear \cup (IF HasLinear THEN {f} ELSE {})
        /\ p = "measure" => thumbnail' = thumbnail \ {f} /\ linear' = linear \ {f}
  BY DEF ReplayPreviews, SaveThumbnail, SaveLinear
<1>4. task' = [task EXCEPT ![f] = [task[f] EXCEPT !.at = p]] /\ [task[f] EXCEPT !.at = p] \in Task
  BY <1>3, Gone DEF Places
<1>5. OnlyFrame(f)
  BY <1>1, <1>2, <1>3, <1>4 DEF OnlyFrame, MeasureTyped
<1>6. FrameOK(f)'
  BY <1>1, <1>2, <1>3, <1>4 DEF FrameOK, MeasureTyped, StatsPast, SeenHolds, FromCache, OwnPreviews,
     Answered, Bound, HasCache, HasThumbnail, HasLinear, Decodable, Task
<1> QED BY <1>5, <1>6, OneFrame

(* What a worker answers with. *)
LEMMA Answers ==
  ASSUME MeasureInv, NEW f \in Frames, NEW m \in Outcome, Answer(f, m)
  PROVE  /\ measured' = [measured EXCEPT ![f] = m]
         /\ task' = [task EXCEPT ![f] = [task[f] EXCEPT !.at = "done"]]
         /\ [task[f] EXCEPT !.at = "done"] \in Task
BY Gone DEF Answer, Places

LEMMA VerifyReplayInv ==
  ASSUME MeasureInv, NEW f \in Frames, VerifyReplay(f) PROVE MeasureInv'
<1>1. UNCHANGED <<batch, executor, version, stamp, edits, cache>>
  BY DEF VerifyReplay, fileVars
<1>2. MeasureTyped /\ FrameOK(f) /\ task[f] \in Task /\ measured[f] \in Outcome /\ task[f].at = "replayed"
  BY Here DEF VerifyReplay, At
<1> DEFINE Hit == [status |-> "MEASURED", code |-> "", identity |-> task[f].identity,
                   decoded |-> task[f].decoded]
<1>3. CASE IdentityHolds(f)
  <2>1. Hit \in Outcome /\ Answer(f, Hit) /\ UNCHANGED <<thumbnail, linear>>
    <3>1. Hit \in Outcome
      BY <1>2 DEF Outcome, Task, Codes
    <3>2. Answer(f, Hit) /\ UNCHANGED <<thumbnail, linear>>
      BY <1>3 DEF VerifyReplay
    <3> QED BY <3>1, <3>2
  <2>2. /\ measured' = [measured EXCEPT ![f] = Hit]
        /\ task' = [task EXCEPT ![f] = [task[f] EXCEPT !.at = "done"]]
        /\ [task[f] EXCEPT !.at = "done"] \in Task
    BY <2>1, Answers
  <2>3. OnlyFrame(f)
    BY <1>1, <1>2, <2>1, <2>2 DEF OnlyFrame, MeasureTyped
  <2>4. FrameOK(f)'
    BY <1>1, <1>2, <2>1, <2>2 DEF FrameOK, MeasureTyped, StatsPast, SeenHolds, FromCache, OwnPreviews,
       Answered, Bound, HasCache, HasThumbnail, HasLinear, Decodable, Task
  <2> QED BY <2>3, <2>4, OneFrame
<1>4. CASE ~IdentityHolds(f)
  <2>1. /\ thumbnail' = thumbnail \ {f} /\ linear' = linear \ {f} /\ UNCHANGED measured
        /\ Goto(f, "measure")
    BY <1>4 DEF VerifyReplay
  <2>2. /\ task' = [task EXCEPT ![f] = [task[f] EXCEPT !.at = "measure"]]
        /\ [task[f] EXCEPT !.at = "measure"] \in Task
    BY <2>1, Gone DEF Places
  <2>3. OnlyFrame(f)
    BY <1>1, <1>2, <2>1, <2>2 DEF OnlyFrame, MeasureTyped
  <2>4. FrameOK(f)'
    BY <1>1, <1>2, <2>1, <2>2 DEF FrameOK, MeasureTyped, StatsPast, SeenHolds, FromCache, OwnPreviews,
       Answered, Bound, HasCache, HasThumbnail, HasLinear, Decodable, Task
  <2> QED BY <2>3, <2>4, OneFrame
<1> QED BY <1>3, <1>4

LEMMA IdentifyInv ==
  ASSUME MeasureInv, NEW f \in Frames, Identify(f) PROVE MeasureInv'
<1>1. UNCHANGED <<batch, executor, version, stamp, edits, thumbnail, linear, cache, measured>>
  BY DEF Identify, fileVars
<1>2. MeasureTyped /\ FrameOK(f) /\ task[f] \in Task /\ measured[f] \in Outcome /\ task[f].at = "measure"
  BY Here DEF Identify, At
<1> DEFINE Seen == [task[f] EXCEPT !.identity = version[f], !.stat = stamp[f], !.at = "decode"]
<1>3. task' = [task EXCEPT ![f] = Seen] /\ Seen \in Task
  BY <1>2 DEF Identify, FileIdentity, MeasureTyped, Task, Places
<1>4. OnlyFrame(f)
  BY <1>1, <1>2, <1>3 DEF OnlyFrame, MeasureTyped
<1>5. FrameOK(f)'
  BY <1>1, <1>2, <1>3 DEF FrameOK, MeasureTyped, StatsPast, SeenHolds, FromCache, OwnPreviews,
     Answered, Bound, HasCache, HasThumbnail, HasLinear, Decodable, Task
<1> QED BY <1>4, <1>5, OneFrame

(* A frame that fails answers with an error: because of its file, because  *)
(* the file changed, or because of a preview the pool before it left.      *)
LEMMA FailsInv ==
  ASSUME MeasureInv, NEW f \in Frames, NEW c \in Codes, FailMeasurement(f, c),
         UNCHANGED <<batch, executor, version, stamp, edits, thumbnail, linear, cache>>,
         task[f].at \in {"decode", "linear", "verify"},
         \/ ~Decodable(f) \/ ~IdentityHolds(f)
         \/ c = "THUMBNAIL_EXISTS" /\ f \in thumbnail /\ task[f].at = "decode"
         \/ c = "LINEAR_PREVIEW_EXISTS" /\ f \in linear /\ task[f].at = "linear"
  PROVE  MeasureInv'
<1>1. MeasureTyped /\ FrameOK(f) /\ task[f] \in Task /\ measured[f] \in Outcome
  BY Here
<1> DEFINE said == IF IdentityHolds(f) THEN c ELSE "FILE_CHANGED_DURING_MEASUREMENT"
           m == ErrorMeasurement(f, said)
<1>2. m \in Outcome /\ m.status = "ERROR" /\ m.code = said /\ Answer(f, m)
  <2>1. Unstarted \in Outcome /\ version[f] \in Nat /\ said \in Codes
    BY <1>1 DEF Unstarted, Outcome, Codes, MeasureTyped
  <2>2. m \in Outcome /\ m.status = "ERROR" /\ m.code = said
    BY <2>1 DEF ErrorMeasurement, Outcome
  <2> QED BY <2>2 DEF FailMeasurement
<1> HIDE DEF m
<1>3. /\ measured' = [measured EXCEPT ![f] = m]
      /\ task' = [task EXCEPT ![f] = [task[f] EXCEPT !.at = "done"]]
      /\ [task[f] EXCEPT !.at = "done"] \in Task
  BY <1>2, Answers
<1>4. OnlyFrame(f)
  BY <1>1, <1>2, <1>3 DEF OnlyFrame, MeasureTyped
<1>5. StatsPast(f)' /\ SeenHolds(f)' /\ FromCache(f)' /\ OwnPreviews(f)' /\ Bound(f)'
  BY <1>1, <1>2, <1>3 DEF FrameOK, MeasureTyped, StatsPast, SeenHolds, FromCache, OwnPreviews,
     Bound, HasCache, HasThumbnail, HasLinear, Task, Outcome
<1>6. Answered(f)'
  <2>1. measured'[f] = m /\ m.code = said /\ (Decodable(f)' <=> Decodable(f))
    BY <1>1, <1>2, <1>3 DEF MeasureTyped, Decodable
  <2>2. CASE ~Decodable(f)
    BY <2>1, <2>2 DEF Answered
  <2>3. CASE ~IdentityHolds(f)
    BY <1>1, <2>3 DEF Answered, IdentityHolds, FrameOK, StatsPast, MeasureTyped, Task
  <2>4. CASE IdentityHolds(f) /\ c \in {"THUMBNAIL_EXISTS", "LINEAR_PREVIEW_EXISTS"} /\ executor = "fallback"
    BY <2>1, <2>4 DEF Answered
  <2>5. executor = "fallback" \/ ~(\/ f \in thumbnail /\ task[f].at = "decode"
                                   \/ f \in linear /\ task[f].at = "linear")
    BY <1>1 DEF FrameOK, OwnPreviews
  <2> QED BY <2>2, <2>3, <2>4, <2>5
<1> QED BY <1>4, <1>5, <1>6, OneFrame DEF FrameOK

LEMMA DecodeInv ==
  ASSUME MeasureInv, NEW f \in Frames, Decode(f) PROVE MeasureInv'
<1>1. UNCHANGED <<batch, executor, version, stamp, edits, linear, cache>> /\ task[f].at = "decode"
  BY DEF Decode, fileVars, At
<1>2. MeasureTyped /\ FrameOK(f) /\ task[f] \in Task /\ measured[f] \in Outcome
  BY Here
<1>3. CASE ~Decodable(f) /\ FailMeasurement(f, "READ") /\ UNCHANGED thumbnail
  BY <1>1, <1>3, FailsInv DEF Codes
<1>4. CASE /\ f \in thumbnail /\ FailMeasurement(f, "THUMBNAIL_EXISTS")
           /\ UNCHANGED thumbnail
  BY <1>1, <1>4, FailsInv DEF Codes
<1> DEFINE p == IF HasLinear THEN "linear" ELSE "verify"
           Seen == [task[f] EXCEPT !.decoded = version[f], !.at = p]
<1>5. CASE /\ thumbnail' = thumbnail \cup (IF HasThumbnail THEN {f} ELSE {})
           /\ task' = [task EXCEPT ![f].decoded = version[f], ![f].at = p]
           /\ UNCHANGED measured
  <2>1. task' = [task EXCEPT ![f] = Seen] /\ Seen \in Task
    BY <1>2, <1>5 DEF MeasureTyped, Task, Places
  <2>2. OnlyFrame(f)
    <3>1. /\ thumbnail' \subseteq Frames /\ thumbnail' \ {f} = thumbnail \ {f}
          /\ linear' \subseteq Frames /\ linear' \ {f} = linear \ {f}
      BY <1>1, <1>2, <1>5 DEF MeasureTyped
    <3>2. measured' = [measured EXCEPT ![f] = measured[f]]
      BY <1>2, <1>5 DEF MeasureTyped
    <3>3. cache \subseteq cache' /\ cache' \subseteq Frames \X Nat \X Nat
      BY <1>1, <1>2 DEF MeasureTyped
    <3> QED BY <1>1, <1>2, <2>1, <3>1, <3>2, <3>3 DEF OnlyFrame
  <2>3. FrameOK(f)'
    BY <1>1, <1>2, <1>5, <2>1 DEF FrameOK, MeasureTyped, StatsPast, SeenHolds, FromCache, OwnPreviews,
       Answered, Bound, HasCache, HasThumbnail, HasLinear, Decodable, Task
  <2> QED BY <2>2, <2>3, OneFrame
<1> QED BY <1>3, <1>4, <1>5 DEF Decode, SaveThumbnail

LEMMA WriteLinearInv ==
  ASSUME MeasureInv, NEW f \in Frames, WriteLinear(f) PROVE MeasureInv'
<1>1. UNCHANGED <<batch, executor, version, stamp, edits, thumbnail, cache>> /\ task[f].at = "linear"
  BY DEF WriteLinear, fileVars, At
<1>2. MeasureTyped /\ FrameOK(f) /\ task[f] \in Task /\ measured[f] \in Outcome
  BY Here
<1>3. CASE f \in linear /\ FailMeasurement(f, "LINEAR_PREVIEW_EXISTS") /\ UNCHANGED linear
  BY <1>1, <1>3, FailsInv DEF Codes
<1>4. CASE SaveLinear(f) /\ Goto(f, "verify") /\ UNCHANGED measured
  <2>1. /\ task' = [task EXCEPT ![f] = [task[f] EXCEPT !.at = "verify"]]
        /\ [task[f] EXCEPT !.at = "verify"] \in Task
    BY <1>4, Gone DEF Places
  <2>2. OnlyFrame(f)
    BY <1>1, <1>2, <1>4, <2>1 DEF OnlyFrame, MeasureTyped, SaveLinear
  <2>3. /\ task'[f] = [task[f] EXCEPT !.at = "verify"] /\ measured'[f] = measured[f]
        /\ f \in thumbnail' <=> f \in thumbnail
        /\ linear' = linear \cup {f}
    BY <1>1, <1>2, <1>4, <2>1 DEF MeasureTyped, SaveLinear
  <2>4. (StatsPast(f) /\ SeenHolds(f) /\ FromCache(f) /\ Answered(f) /\ Bound(f))'
    BY <1>1, <1>2, <2>3 DEF FrameOK, StatsPast, SeenHolds, FromCache, Answered, Bound, HasCache,
       HasLinear, Decodable, Task
  <2>5. HasLinear
    BY <1>1, <1>2 DEF FrameOK, FromCache
  <2>6. OwnPreviews(f)'
    BY <1>1, <1>2, <2>3, <2>5 DEF FrameOK, OwnPreviews, HasThumbnail, HasLinear, Task
  <2> QED BY <2>2, <2>4, <2>6, OneFrame DEF FrameOK
<1> QED BY <1>3, <1>4 DEF WriteLinear

LEMMA VerifyMeasurementInv ==
  ASSUME MeasureInv, NEW f \in Frames, VerifyMeasurement(f) PROVE MeasureInv'
<1>1. /\ UNCHANGED <<batch, executor, version, stamp, edits, thumbnail, linear, cache>>
      /\ task[f].at = "verify"
  BY DEF VerifyMeasurement, fileVars, At
<1>2. MeasureTyped /\ FrameOK(f) /\ task[f] \in Task /\ measured[f] \in Outcome
  BY Here
<1>3. CASE ~IdentityHolds(f)
  BY <1>1, <1>3, FailsInv DEF VerifyMeasurement, Codes
<1> DEFINE Whole == [status |-> "MEASURED", code |-> "", identity |-> task[f].identity,
                     decoded |-> task[f].decoded]
           p == IF HasCache THEN "store" ELSE "done"
<1>4. CASE IdentityHolds(f)
  <2>1. measured' = [measured EXCEPT ![f] = Whole] /\ Goto(f, p)
    BY <1>4 DEF VerifyMeasurement
  <2>2. Whole \in Outcome
    BY <1>2 DEF Outcome, Task, Codes
  <2>3. task' = [task EXCEPT ![f] = [task[f] EXCEPT !.at = p]] /\ [task[f] EXCEPT !.at = p] \in Task
    BY <2>1, Gone DEF Places
  <2>4. OnlyFrame(f)
    BY <1>1, <1>2, <2>1, <2>2, <2>3 DEF OnlyFrame, MeasureTyped
  <2>5. FrameOK(f)'
    BY <1>1, <1>2, <1>4, <2>1, <2>3 DEF FrameOK, MeasureTyped, StatsPast, SeenHolds, FromCache,
       OwnPreviews, Answered, Bound, HasCache, HasThumbnail, HasLinear, Decodable, Task, IdentityHolds
  <2> QED BY <2>4, <2>5, OneFrame
<1> QED BY <1>3, <1>4

LEMMA StoreCacheInv ==
  ASSUME MeasureInv, NEW f \in Frames, StoreCache(f) PROVE MeasureInv'
<1>1. /\ UNCHANGED <<batch, executor, version, stamp, edits, thumbnail, linear, measured>>
      /\ task[f].at = "store" /\ Goto(f, "done")
  BY DEF StoreCache, fileVars, At
<1>2. MeasureTyped /\ FrameOK(f) /\ task[f] \in Task /\ measured[f] \in Outcome
  BY Here
<1>3. cache \subseteq cache' /\ cache' \subseteq Frames \X Nat \X Nat
  BY <1>2 DEF StoreCache, MeasureTyped, Task
<1>4. task' = [task EXCEPT ![f] = [task[f] EXCEPT !.at = "done"]] /\ [task[f] EXCEPT !.at = "done"] \in Task
  BY <1>1, Gone DEF Places
<1>5. OnlyFrame(f)
  BY <1>1, <1>2, <1>3, <1>4 DEF OnlyFrame, MeasureTyped
<1>6. FrameOK(f)'
  BY <1>1, <1>2, <1>3, <1>4 DEF FrameOK, MeasureTyped, StatsPast, SeenHolds, FromCache, OwnPreviews,
     Answered, Bound, HasCache, HasThumbnail, HasLinear, Decodable, Task
<1> QED BY <1>5, <1>6, OneFrame

LEMMA WorkerInv == ASSUME MeasureInv, NEW f \in Frames, Worker(f) PROVE MeasureInv'
BY StartTaskInv, LoadCacheInv, ReplayPreviewsInv, VerifyReplayInv, IdentifyInv, DecodeInv,
   WriteLinearInv, VerifyMeasurementInv, StoreCacheInv DEF Worker

(* A replaced file has a stat no worker took. *)
LEMMA ReplaceFileInv ==
  ASSUME MeasureInv, NEW f \in Frames, ReplaceFile(f) PROVE MeasureInv'
<1>1. UNCHANGED <<batch, executor, task, thumbnail, linear, cache, measured>> /\ edits' = edits + 1
  BY DEF ReplaceFile
<1>2. PICK v \in Versions : version' = [version EXCEPT ![f] = v] /\ stamp' = [stamp EXCEPT ![f] = edits + 1]
  BY DEF ReplaceFile
<1>3. v \in Nat
  BY MeasurementAssumption DEF Versions
<1>4. MeasureTyped
  BY DEF MeasureInv
<1>5. MeasureTyped'
  BY <1>1, <1>2, <1>3, <1>4 DEF MeasureTyped
<1>6. ASSUME NEW g \in Frames PROVE FrameOK(g)'
  <2>1. FrameOK(g) /\ task[g] \in Task
    BY <1>4 DEF MeasureInv, MeasureTyped
  <2>2. StatsPast(g)' /\ SeenHolds(g)' /\ Answered(g)'
    BY <1>1, <1>2, <1>3, <1>4, <2>1 DEF FrameOK, MeasureTyped, StatsPast, SeenHolds, Answered,
       Decodable, Task
  <2>3. FromCache(g)' /\ OwnPreviews(g)' /\ Bound(g)'
    BY <1>1, <2>1 DEF FrameOK, FromCache, OwnPreviews, Bound, HasCache, HasThumbnail, HasLinear
  <2> QED BY <2>2, <2>3 DEF FrameOK
<1> QED BY <1>5, <1>6 DEF MeasureInv

(* A batch that starts, and one that starts again. *)
LEMMA FreshBatch ==
  ASSUME MeasureTyped, task = [f \in Frames |-> Waiting], measured = [f \in Frames |-> Unstarted],
         \A f \in Frames : stamp[f] <= edits,
         executor = "fallback" \/ (thumbnail = {} /\ linear = {})
  PROVE  MeasureInv
<1>1. ASSUME NEW f \in Frames PROVE FrameOK(f)
  <2>1. task[f] = Waiting /\ measured[f] = Unstarted /\ stamp[f] \in Nat /\ stamp[f] <= edits
    BY DEF MeasureTyped
  <2>2. Waiting.at = "wait" /\ Waiting.stat = 0 /\ Unstarted.status = "NONE"
    BY DEF Waiting, Unstarted
  <2>3. StatsPast(f) /\ SeenHolds(f)
    BY <2>1, <2>2 DEF StatsPast, SeenHolds
  <2>4. FromCache(f) /\ OwnPreviews(f) /\ Answered(f) /\ Bound(f)
    BY <2>1, <2>2 DEF FromCache, OwnPreviews, Answered, Bound
  <2> QED BY <2>3, <2>4 DEF FrameOK
<1> QED BY <1>1 DEF MeasureInv

LEMMA FreshAgain ==
  ASSUME MeasureTyped', task' = [f \in Frames |-> Waiting], measured' = [f \in Frames |-> Unstarted],
         \A f \in Frames : stamp'[f] <= edits',
         executor' = "fallback" \/ (thumbnail' = {} /\ linear' = {})
  PROVE  MeasureInv'
<1>1. ASSUME NEW f \in Frames PROVE FrameOK(f)'
  <2>1. task'[f] = Waiting /\ measured'[f] = Unstarted /\ stamp'[f] \in Nat /\ stamp'[f] <= edits'
    BY DEF MeasureTyped
  <2>2. Waiting.at = "wait" /\ Waiting.stat = 0 /\ Unstarted.status = "NONE"
    BY DEF Waiting, Unstarted
  <2>3. StatsPast(f)' /\ SeenHolds(f)'
    BY <2>1, <2>2 DEF StatsPast, SeenHolds
  <2>4. FromCache(f)' /\ OwnPreviews(f)' /\ Answered(f)' /\ Bound(f)'
    BY <2>1, <2>2 DEF FromCache, OwnPreviews, Answered, Bound
  <2> QED BY <2>3, <2>4 DEF FrameOK
<1> QED BY <1>1 DEF MeasureInv

LEMMA BatchTyped ==
  [f \in Frames |-> Waiting] \in [Frames -> Task] /\ [f \in Frames |-> Unstarted] \in [Frames -> Outcome]
BY DEF Waiting, Unstarted, Task, Outcome, Places, Codes

LEMMA FallBackInv == ASSUME MeasureInv, FallBackToThreads PROVE MeasureInv'
<1>1. /\ UNCHANGED <<batch, version, stamp, edits, thumbnail, linear, cache>>
      /\ executor' = "fallback" /\ task' = [f \in Frames |-> Waiting]
      /\ measured' = [f \in Frames |-> Unstarted]
  BY DEF FallBackToThreads, fileVars
<1>2. MeasureTyped'
  BY <1>1, BatchTyped DEF MeasureInv, MeasureTyped
<1>3. \A f \in Frames : stamp'[f] <= edits'
  BY <1>1 DEF MeasureInv, FrameOK, StatsPast
<1> QED BY <1>1, <1>2, <1>3, FreshAgain

LEMMA MeasureStepInv == ASSUME MeasureInv, MeasureStep PROVE MeasureInv'
BY WorkerInv, ReplaceFileInv, FallBackInv DEF MeasureStep, MeasureNext

LEMMA CollectInv == ASSUME MeasureInv, CollectMeasurements PROVE MeasureInv'
<1>1. /\ batch' = batch /\ executor' = "sequential" /\ task' = [f \in Frames |-> Waiting]
      /\ measured' = [f \in Frames |-> Unstarted]
      /\ thumbnail' = {} /\ linear' = {} /\ cache' = {}
      /\ version' = [f \in Frames |-> 1] /\ stamp' = [f \in Frames |-> 0] /\ edits' = 0
  BY DEF CollectMeasurements
<1>2. MeasureTyped'
  BY <1>1, BatchTyped DEF MeasureInv, MeasureTyped
<1> QED BY <1>1, <1>2, FreshAgain

LEMMA MeasureInitInv == ASSUME PixelInit PROVE MeasureInv
<1>1. /\ batch \in {"run", "preflight", "blink"} /\ task = [f \in Frames |-> Waiting]
      /\ measured = [f \in Frames |-> Unstarted]
      /\ thumbnail = {} /\ linear = {} /\ cache \subseteq EarlierEntries
      /\ version = [f \in Frames |-> 1] /\ stamp = [f \in Frames |-> 0] /\ edits = 0
  BY DEF PixelInit, ScreenInit, MeasureInit
<1>2. 1 \in Frames
  BY MeasurementAssumption, FS_CardinalityType, FS_EmptySet
<1>3. MeasureTyped
  <2>1. cache \subseteq Frames \X Nat \X Nat
    BY <1>1, <1>2 DEF EarlierEntries
  <2> QED BY <1>1, <2>1, BatchTyped DEF MeasureTyped
<1> QED BY <1>1, <1>3, FreshBatch

LEMMA MeasureKept == ASSUME MeasureInv, UNCHANGED measureVars PROVE MeasureInv'
<1>1. UNCHANGED <<batch, executor, version, stamp, edits, task, thumbnail, linear, cache, measured>>
  BY DEF measureVars, fileVars
<1>2. MeasureTyped'
  BY <1>1 DEF MeasureInv, MeasureTyped
<1>3. ASSUME NEW f \in Frames PROVE FrameOK(f)'
  BY <1>1 DEF MeasureInv, FrameOK, StatsPast, SeenHolds, FromCache, OwnPreviews, Answered, Bound,
     HasCache, HasThumbnail, HasLinear, Decodable
<1> QED BY <1>2, <1>3 DEF MeasureInv

LEMMA MeasureInvNext == MeasureInv /\ [PixelNext]_vars => MeasureInv'
<1> SUFFICES ASSUME MeasureInv, [PixelNext]_vars PROVE MeasureInv'
  OBVIOUS
<1>1. CASE ScreenStep
  BY <1>1, MeasureStepInv, CollectInv, MeasureKept DEF ScreenStep, AnalyzeAndGate, Admit
<1>2. CASE PrepareRun \/ BuildRegistrationMasters \/ RegisterLights \/ StartIntegration
  BY <1>2, MeasureKept DEF PrepareRun, BuildRegistrationMasters, RegisterLights, StartIntegration
<1>3. CASE StartNextPass \/ IntegrationStep \/ PassFails \/ AfterPass
  BY <1>3, MeasureKept DEF StartNextPass, IntegrationStep, PassFails, AfterPass
<1>4. CASE Done \/ UNCHANGED vars
  BY <1>4, MeasureKept DEF Done, vars
<1> QED BY <1>1, <1>2, <1>3, <1>4 DEF PixelNext

(* MeasurementSound: what a measurement says is true of its file.          *)
THEOREM MeasurementsAreSound == PixelSpec => []MeasurementSound
<1>1. PixelInit => MeasureInv
  BY MeasureInitInv
<1>2. MeasureInv => MeasurementSound
  BY DEF MeasureInv, FrameOK, Answered, Bound, MeasurementSound, MeasurementBoundToBytes,
     ExecutorChangesNoValue, At
<1> QED BY <1>1, <1>2, MeasureInvNext, PTL DEF PixelSpec

-----------------------------------------------------------------------------
(* The pass (run_portable_pipeline_fits), for every plan: any number of    *)
(* Lights, workers and groups, any schedule.  That the staging directory   *)
(* is quiet once it is renamed or removed, and that the one Metal executor *)
(* serves one group at a time, is not inductive.  Each pool is idle        *)
(* outside the steps that feed it (LightsIdle, GroupsIdle, FitsIdle);      *)
(* CollectFailure leaves the groups with none running because a sequential *)
(* run never starts a group before the earlier ones are done (InTurn); and *)
(* the executor is never dropped under a group because groups that run     *)
(* side by side never reach it (CpuSideBySide).                            *)

Steps == {"idle", "masters", "lights", "lightsFailed", "groups", "closing", "joining", "closed"}
Phases == {"none", "queued", "running", "done", "failed", "cancelled"}
GroupStates == {"waiting", "done"} \cup Integrating \cup GroupErrors

(* Groups integrate side by side only on the CPU (_group_concurrency).     *)
PlanOK(p) == p.groups \in Nat /\ (p.concurrency > 1 => p.accelerated = {})

PassTypeOK ==
  /\ step \in Steps
  /\ PlanOK(plan)
  /\ job \in [plan.lights -> Phases]
  /\ fit \in [Positions -> Phases]
  /\ group \in [Positions -> GroupStates]
  /\ metal \in {"none", "open", "dropped"}
  /\ staging \in {"none", "open", "published", "removed"}

LightsIdle == step \notin {"lights", "lightsFailed"} => RunningJobs = {}
GroupsIdle == step # "groups" => RunningGroups = {}
FitsIdle   == step \notin {"groups", "closing", "joining"} => RunningFits = {}
StagingEnds ==
  /\ staging = "removed" => step = "closed"
  /\ staging = "published" => step \in {"closing", "joining", "closed"} /\ RunningFits = {}

InTurn ==
  ~SideBySide => \A i \in Positions : group[i] # "waiting" => \A j \in 1..(i - 1) : group[j] = "done"
CpuSideBySide == SideBySide => \A i \in Positions : group[i] \notin {"metal", "fallback"}
MetalOpen == \A i \in Positions : group[i] = "metal" => metal = "open"

PassInv ==
  /\ PassTypeOK
  /\ LightsIdle
  /\ GroupsIdle
  /\ FitsIdle
  /\ StagingEnds
  /\ InTurn
  /\ CpuSideBySide
  /\ MetalOpen

-----------------------------------------------------------------------------
(* No plan: the run holds nothing. *)
LEMMA NoPlanIsPlan ==
  PlanOK(NoPlan) /\ NoPlan.lights = {} /\ NoPlan.groups = 0 /\ NoPlan.concurrency = 1
BY DEF PlanOK, NoPlan

LEMMA ResetPassInv ==
  ASSUME ResetPass PROVE PassInv'
<1>1. step' = "idle" /\ plan' = NoPlan /\ job' = <<>> /\ fit' = <<>> /\ group' = <<>>
  BY DEF ResetPass
<1>2. Positions' = {} /\ plan'.lights = {}
  BY <1>1, NoPlanIsPlan DEF Positions
<1>3. PassTypeOK'
  <2>1. PlanOK(plan)' /\ step' \in Steps
    BY <1>1, NoPlanIsPlan DEF Steps, PlanOK
  <2>2. metal' = "none" /\ staging' = "none"
    BY DEF ResetPass
  <2>3. job' \in [{} -> Phases] /\ fit' \in [{} -> Phases] /\ group' \in [{} -> GroupStates]
    BY <1>1
  <2> QED BY <1>2, <2>1, <2>2, <2>3 DEF PassTypeOK
<1>4. RunningJobs' = {} /\ RunningFits' = {} /\ RunningGroups' = {}
  BY <1>2 DEF RunningJobs, RunningGroups, RunningFits
<1>5. LightsIdle' /\ GroupsIdle' /\ FitsIdle' /\ StagingEnds'
  BY <1>4 DEF LightsIdle, GroupsIdle, FitsIdle, StagingEnds, ResetPass
<1>6. InTurn' /\ CpuSideBySide' /\ MetalOpen'
  BY <1>2 DEF InTurn, CpuSideBySide, MetalOpen
<1> QED BY <1>3, <1>5, <1>6 DEF PassInv

LEMMA PassInvInit ==
  ASSUME PassInit PROVE PassInv
<1>1. step = "idle" /\ plan = NoPlan /\ job = <<>> /\ fit = <<>> /\ group = <<>>
  BY DEF PassInit
<1>2. Positions = {} /\ plan.lights = {}
  BY <1>1, NoPlanIsPlan DEF Positions
<1>3. PassTypeOK
  <2>1. PlanOK(plan) /\ step \in Steps
    BY <1>1, NoPlanIsPlan DEF Steps
  <2>2. metal = "none" /\ staging = "none"
    BY DEF PassInit
  <2>3. job \in [{} -> Phases] /\ fit \in [{} -> Phases] /\ group \in [{} -> GroupStates]
    BY <1>1
  <2> QED BY <1>2, <2>1, <2>2, <2>3 DEF PassTypeOK
<1>4. RunningJobs = {} /\ RunningFits = {} /\ RunningGroups = {}
  BY <1>2 DEF RunningJobs, RunningGroups, RunningFits
<1>5. LightsIdle /\ GroupsIdle /\ FitsIdle /\ StagingEnds
  BY <1>4 DEF LightsIdle, GroupsIdle, FitsIdle, StagingEnds, PassInit
<1>6. InTurn /\ CpuSideBySide /\ MetalOpen
  BY <1>2 DEF InTurn, CpuSideBySide, MetalOpen
<1> QED BY <1>3, <1>5, <1>6 DEF PassInv

-----------------------------------------------------------------------------
(* One lemma per part of the run. *)

LEMMA StartPassInv ==
  ASSUME PassInv, NEW p, PlanOK(p), StartPass(p) PROVE PassInv'
<1>1. Positions' = 1..p.groups /\ plan'.lights = p.lights /\ p.groups \in Nat
  BY DEF StartPass, Positions, PlanOK
<1>2. PassTypeOK'
  BY <1>1 DEF StartPass, PassInv, PassTypeOK, Steps, Phases, GroupStates
<1>3. RunningJobs' = {} /\ RunningFits' = {} /\ RunningGroups' = {}
  BY <1>1 DEF StartPass, RunningJobs, RunningFits, RunningGroups, Integrating
<1>4. (LightsIdle /\ GroupsIdle /\ FitsIdle /\ StagingEnds)'
  BY <1>3 DEF StartPass, LightsIdle, GroupsIdle, FitsIdle, StagingEnds
<1>5. \A i \in Positions' : group'[i] = "waiting"
  BY <1>1 DEF StartPass
<1>6. (InTurn /\ CpuSideBySide /\ MetalOpen)'
  BY <1>5 DEF InTurn, CpuSideBySide, MetalOpen
<1> QED BY <1>2, <1>4, <1>6 DEF PassInv

(* The masters and the Lights touch no group. *)
LEMMA LightsInv ==
  ASSUME PassInv, BuildMasters \/ StartLight \/ EndLight \/ MeetFailedLight \/ JoinLightPool
  PROVE  PassInv'
<1> USE DEF PassInv
<1>1. /\ UNCHANGED <<plan, fit, group, metal, staging>>
      /\ step \in {"masters", "lights", "lightsFailed"}
      /\ step' \in {"lights", "lightsFailed", "closing"}
  BY DEF BuildMasters, StartLight, EndLight, MeetFailedLight, JoinLightPool, Raised
<1>2. job' \in [plan.lights -> Phases]
  BY DEF BuildMasters, StartLight, EndLight, MeetFailedLight, JoinLightPool, PassTypeOK, Phases
<1>3. UNCHANGED <<Positions, RunningFits, RunningGroups, SideBySide>>
  BY <1>1 DEF Positions, RunningFits, RunningGroups, SideBySide
<1>4. PassTypeOK'
  BY <1>1, <1>2, <1>3 DEF PassTypeOK, Steps
<1>5. LightsIdle'
  <2>1. CASE BuildMasters
    BY <2>1 DEF BuildMasters, LightsIdle, RunningJobs, Raised
  <2>2. CASE JoinLightPool
    BY <2>2 DEF JoinLightPool, LightsIdle, RunningJobs
  <2>3. CASE StartLight \/ EndLight \/ MeetFailedLight
    BY <2>3 DEF StartLight, EndLight, MeetFailedLight, LightsIdle
  <2> QED BY <2>1, <2>2, <2>3
<1>6. (GroupsIdle /\ FitsIdle /\ StagingEnds)'
  BY <1>1, <1>3 DEF GroupsIdle, FitsIdle, StagingEnds
<1>7. (InTurn /\ CpuSideBySide /\ MetalOpen)'
  BY <1>1, <1>3 DEF InTurn, CpuSideBySide, MetalOpen
<1> QED BY <1>4, <1>5, <1>6, <1>7

(* The fits. *)
LEMMA FitsInv ==
  ASSUME PassInv, StartFit \/ EndFit PROVE PassInv'
<1> USE DEF PassInv
<1>1. UNCHANGED <<step, plan, job, group, metal, staging>>
  BY DEF StartFit, EndFit
<1>2. UNCHANGED <<Positions, RunningJobs, RunningGroups, SideBySide>>
  BY <1>1 DEF Positions, RunningJobs, RunningGroups, SideBySide
<1>3. fit' \in [Positions -> Phases]
  BY DEF StartFit, EndFit, PassTypeOK, Phases
<1>4. PassTypeOK'
  BY <1>1, <1>2, <1>3 DEF PassTypeOK
<1>5. (step = "groups" /\ staging # "published") \/ RunningFits' \subseteq RunningFits
  <2>1. CASE StartFit
    BY <2>1 DEF StartFit, StagingEnds
  <2>2. CASE EndFit
    BY <2>2, <1>2, <1>3 DEF EndFit, RunningFits, PassTypeOK
  <2> QED BY <2>1, <2>2
<1>6. (LightsIdle /\ GroupsIdle /\ FitsIdle /\ StagingEnds)'
  BY <1>1, <1>2, <1>5 DEF LightsIdle, GroupsIdle, FitsIdle, StagingEnds
<1>7. (InTurn /\ CpuSideBySide /\ MetalOpen)'
  BY <1>1, <1>2 DEF InTurn, CpuSideBySide, MetalOpen
<1> QED BY <1>4, <1>6, <1>7

(* The groups begin: the pools of the Lights are empty, none is started. *)
LEMMA StartGroupsInv ==
  ASSUME PassInv, StartGroups PROVE PassInv'
<1> USE DEF PassInv
<1>1. /\ UNCHANGED <<plan, job, group, staging>>
      /\ step = "lights" /\ step' \in {"groups", "closing"}
  BY DEF StartGroups, Raised
<1>2. UNCHANGED <<Positions, RunningJobs, RunningGroups, SideBySide>>
  BY <1>1 DEF Positions, RunningJobs, RunningGroups, SideBySide
<1>3. fit' \in [Positions -> Phases] /\ metal' \in {"none", "open"}
  BY DEF StartGroups, PassTypeOK, Phases
<1>4. PassTypeOK'
  BY <1>1, <1>2, <1>3 DEF PassTypeOK, Steps
<1>5. RunningJobs = {} /\ RunningGroups = {}
  BY DEF StartGroups, RunningJobs, GroupsIdle
<1>6. (LightsIdle /\ GroupsIdle /\ FitsIdle /\ StagingEnds)'
  BY <1>1, <1>2, <1>5 DEF LightsIdle, GroupsIdle, FitsIdle, StagingEnds
<1>7. \A i \in Positions : group[i] \notin {"metal", "fallback"}
  BY <1>5 DEF RunningGroups, Integrating
<1>8. (InTurn /\ CpuSideBySide /\ MetalOpen)'
  BY <1>1, <1>2, <1>7 DEF InTurn, CpuSideBySide, MetalOpen
<1> QED BY <1>4, <1>6, <1>8

(* A group that starts follows, when they come one by one, only groups     *)
(* that are done.                                                          *)
LEMMA StartGroupInv ==
  ASSUME PassInv, StartGroup PROVE PassInv'
<1> USE DEF PassInv
<1>1. UNCHANGED <<step, plan, job, metal, staging>> /\ step = "groups"
  BY DEF StartGroup
<1>2. UNCHANGED <<Positions, RunningJobs, SideBySide>> /\ Positions = 1..plan.groups /\ plan.groups \in Nat
  BY <1>1 DEF Positions, RunningJobs, SideBySide, PassTypeOK, PlanOK
<1>3. PICK i \in Positions :
        /\ group[i] = "waiting"
        /\ ~SideBySide => \A j \in Positions : j < i => group[j] = "done"
        /\ group' = [group EXCEPT ![i] = "fit"]
        /\ fit' = IF ~SideBySide /\ i + 1 \in Positions THEN [fit EXCEPT ![i + 1] = "queued"] ELSE fit
  BY DEF StartGroup
<1>4. PassTypeOK'
  BY <1>1, <1>2, <1>3 DEF PassTypeOK, Phases, GroupStates, Integrating
<1>5. RunningFits' \subseteq RunningFits
  BY <1>2, <1>3 DEF RunningFits, PassTypeOK
<1>6. (LightsIdle /\ GroupsIdle /\ FitsIdle /\ StagingEnds)'
  BY <1>1, <1>2, <1>5 DEF LightsIdle, GroupsIdle, FitsIdle, StagingEnds
<1>7. InTurn'
  <2> SUFFICES ASSUME ~SideBySide, NEW k \in Positions, group'[k] # "waiting", NEW j \in 1..(k - 1)
               PROVE  group'[j] = "done"
    BY <1>2 DEF InTurn
  <2>1. j \in Positions /\ j < k /\ i \in Nat
    BY <1>2
  <2>2. CASE k = i
    BY <2>1, <2>2, <1>3 DEF PassTypeOK
  <2>3. CASE k # i
    BY <2>1, <2>3, <1>3 DEF PassTypeOK, InTurn
  <2> QED BY <2>2, <2>3
<1>8. (CpuSideBySide /\ MetalOpen)'
  BY <1>1, <1>2, <1>3 DEF PassTypeOK, CpuSideBySide, MetalOpen
<1> QED BY <1>4, <1>6, <1>7, <1>8

(* What TakeFit, LeaveMetal, EndCpu, FinishGroup and FailProducts have in    *)
(* common: one running group moves on, or fails, and none starts.          *)
GroupMoves(i) ==
  /\ step = "groups" /\ group[i] \in Integrating
  /\ UNCHANGED <<step, plan, job, fit, staging>>
  /\ \E to \in (Integrating \ {"fit"}) \cup {"done"} \cup GroupErrors :
       /\ group' = [group EXCEPT ![i] = to]
       /\ to = "metal" => group[i] = "fit" /\ metal = "open" /\ i \in plan.accelerated
       /\ to = "fallback" => group[i] = "metal"
  /\ metal' # metal => group[i] = "fallback" /\ metal' = "dropped"

LEMMA GroupSteps ==
  ASSUME PassInv,
         TakeFit \/ EndCpu \/ FinishGroup \/ FailProducts
           \/ \E outcome \in MetalOutcomes : LeaveMetal(outcome)
  PROVE  \E i \in Positions : GroupMoves(i)
<1> USE DEF GroupMoves, Integrating, GroupErrors
<1>1. CASE TakeFit
  BY <1>1 DEF TakeFit, Reduce
<1>2. CASE \E outcome \in MetalOutcomes : LeaveMetal(outcome)
  BY <1>2 DEF LeaveMetal, MetalOutcomes
<1>3. CASE EndCpu
  BY <1>3 DEF EndCpu
<1>4. CASE FinishGroup
  BY <1>4 DEF FinishGroup
<1>5. CASE FailProducts
  BY <1>5 DEF FailProducts
<1> QED BY <1>1, <1>2, <1>3, <1>4, <1>5

(* One by one, at most one group is under way. *)
LEMMA OneUnderWay ==
  ASSUME PassInv, ~SideBySide, NEW i \in Positions, NEW j \in Positions,
         group[i] \notin {"waiting", "done"}, group[j] \notin {"waiting", "done"}
  PROVE  i = j
<1>1. Positions \subseteq Nat /\ \A k \in Positions, l \in Positions : l < k => l \in 1..(k - 1)
  BY DEF Positions, PassInv, PassTypeOK, PlanOK
<1> QED BY <1>1 DEF PassInv, InTurn

LEMMA GroupMovesInv ==
  ASSUME PassInv, NEW i \in Positions, GroupMoves(i) PROVE PassInv'
<1> USE DEF PassInv
<1>1. step = "groups" /\ UNCHANGED <<step, plan, job, fit, staging>>
  BY DEF GroupMoves
<1>2. UNCHANGED <<Positions, RunningJobs, RunningFits, SideBySide>>
  BY <1>1 DEF Positions, RunningJobs, RunningFits, SideBySide
<1>3. PICK to \in (Integrating \ {"fit"}) \cup {"done"} \cup GroupErrors :
        /\ group' = [group EXCEPT ![i] = to]
        /\ to = "metal" => group[i] = "fit" /\ metal = "open" /\ i \in plan.accelerated
        /\ to = "fallback" => group[i] = "metal"
  BY DEF GroupMoves
<1>4. metal' = metal \/ (group[i] = "fallback" /\ metal' = "dropped")
  BY DEF GroupMoves
<1>5. PassTypeOK'
  BY <1>1, <1>2, <1>3, <1>4 DEF PassTypeOK, GroupStates
<1>6. (LightsIdle /\ GroupsIdle /\ FitsIdle /\ StagingEnds)'
  BY <1>1, <1>2 DEF LightsIdle, GroupsIdle, FitsIdle, StagingEnds
<1>7. group[i] \notin {"waiting", "done"} /\ to # "waiting"
  BY <1>3 DEF GroupMoves, Integrating, GroupErrors
<1>8. InTurn'
  <2> SUFFICES ASSUME ~SideBySide, NEW k \in Positions, group'[k] # "waiting", NEW j \in 1..(k - 1)
               PROVE  group'[j] = "done"
    BY <1>2 DEF InTurn
  <2>1. group[k] # "waiting"
    BY <1>3, <1>7 DEF PassTypeOK
  <2>2. group[j] = "done"
    BY <2>1 DEF InTurn
  <2> QED BY <2>2, <1>3, <1>7, <1>1 DEF PassTypeOK
<1>9. CpuSideBySide'
  <2> SUFFICES ASSUME SideBySide PROVE \A k \in Positions : group'[k] \notin {"metal", "fallback"}
    BY <1>2 DEF CpuSideBySide
  <2>1. plan.accelerated = {}
    BY DEF SideBySide, PassTypeOK, PlanOK
  <2> QED BY <2>1, <1>3 DEF PassTypeOK, CpuSideBySide
<1>10. MetalOpen'
  <2>1. CASE metal' = metal
    BY <2>1, <1>2, <1>3 DEF MetalOpen, PassTypeOK
  <2>2. CASE group[i] = "fallback"
    <3>1. ~SideBySide /\ to # "metal"
      BY <2>2, <1>3 DEF CpuSideBySide
    <3>2. \A k \in Positions : group[k] = "metal" => k = i
      BY <3>1, <1>7, OneUnderWay
    <3> QED BY <2>2, <3>1, <3>2, <1>2, <1>3 DEF MetalOpen, PassTypeOK
  <2> QED BY <2>1, <2>2, <1>4
<1> QED BY <1>5, <1>6, <1>8, <1>9, <1>10

(* The run leaves its groups: none is under way. *)
LEMMA LeaveGroupsInv ==
  ASSUME PassInv, CollectFailure \/ Publish PROVE PassInv'
<1> USE DEF PassInv
<1>1. /\ UNCHANGED <<plan, job, fit, group, metal>>
      /\ step = "groups" /\ step' = "closing"
      /\ UNCHANGED staging \/ (staging' = "published" /\ RunningFits = {})
  BY DEF CollectFailure, Publish, Raised
<1>2. UNCHANGED <<Positions, RunningJobs, RunningFits, RunningGroups, SideBySide>>
  BY <1>1 DEF Positions, RunningJobs, RunningFits, RunningGroups, SideBySide
<1>3. RunningGroups = {}
  <2>1. CASE Publish
    BY <2>1 DEF Publish, RunningGroups, Integrating
  <2>2. CASE CollectFailure /\ SideBySide
    BY <2>2 DEF CollectFailure, RunningGroups, Integrating, Ended, Failed, GroupErrors
  <2>3. CASE CollectFailure /\ ~SideBySide
    <3>1. PICK i \in Positions : Failed(i)
      BY <2>3 DEF CollectFailure
    <3>2. \A j \in Positions : group[j] \in Integrating => j = i
      BY <2>3, <3>1, OneUnderWay DEF Failed, GroupErrors, Integrating
    <3> QED BY <3>1, <3>2 DEF RunningGroups, Failed, GroupErrors, Integrating
  <2> QED BY <2>1, <2>2, <2>3
<1>4. PassTypeOK'
  BY <1>1, <1>2 DEF PassTypeOK, Steps
<1>5. (LightsIdle /\ GroupsIdle /\ FitsIdle /\ StagingEnds)'
  BY <1>1, <1>2, <1>3 DEF LightsIdle, GroupsIdle, FitsIdle, StagingEnds
<1>6. (InTurn /\ CpuSideBySide /\ MetalOpen)'
  BY <1>1, <1>2 DEF InTurn, CpuSideBySide, MetalOpen
<1> QED BY <1>4, <1>5, <1>6

(* The finally clause: what is queued is cancelled, what runs is awaited. *)
LEMMA ClosingInv ==
  ASSUME PassInv, CancelFits \/ CloseRun PROVE PassInv'
<1> USE DEF PassInv
<1>1. /\ UNCHANGED <<plan, job, group>>
      /\ step \in {"closing", "joining"} /\ step' \in {"joining", "closed"}
      /\ metal' = metal \/ metal' = "none"
      /\ step' = "joining" => UNCHANGED <<staging, metal>>
      /\ step' = "closed" => /\ RunningFits = {}
                             /\ staging' = IF staging = "published" THEN staging ELSE "removed"
  BY DEF CancelFits, CloseRun, FitsStopped
<1>2. UNCHANGED <<Positions, RunningJobs, RunningGroups, SideBySide>>
  BY <1>1 DEF Positions, RunningJobs, RunningGroups, SideBySide
<1>3. fit' \in [Positions -> Phases] /\ RunningFits' \subseteq RunningFits
  BY <1>2 DEF CancelFits, CloseRun, PassTypeOK, Phases, RunningFits
<1>4. PassTypeOK'
  BY <1>1, <1>2, <1>3 DEF PassTypeOK, Steps
<1>5. (LightsIdle /\ GroupsIdle /\ FitsIdle /\ StagingEnds)'
  BY <1>1, <1>2, <1>3 DEF LightsIdle, GroupsIdle, FitsIdle, StagingEnds
<1>6. \A i \in Positions : group[i] # "metal"
  BY <1>1 DEF GroupsIdle, RunningGroups, Integrating
<1>7. (InTurn /\ CpuSideBySide /\ MetalOpen)'
  BY <1>1, <1>2, <1>6 DEF InTurn, CpuSideBySide, MetalOpen
<1> QED BY <1>4, <1>5, <1>7

-----------------------------------------------------------------------------
LEMMA PassKept == ASSUME PassInv, UNCHANGED passVars PROVE PassInv'
<1>1. UNCHANGED <<Positions, RunningJobs, RunningFits, RunningGroups, SideBySide>>
  BY DEF passVars, Positions, RunningJobs, RunningFits, RunningGroups, SideBySide
<1> QED BY <1>1 DEF passVars, PassInv, PassTypeOK, PlanOK, LightsIdle, GroupsIdle, FitsIdle,
                    StagingEnds, InTurn, CpuSideBySide, MetalOpen

LEMMA HostStepInv == ASSUME PassInv, HostStep PROVE PassInv'
BY LightsInv, StartGroupsInv, StartGroupInv, FitsInv, GroupSteps, GroupMovesInv, LeaveGroupsInv,
   ClosingInv DEF HostStep

LEMMA LeaveMetalInv ==
  ASSUME PassInv, NEW outcome \in MetalOutcomes, LeaveMetal(outcome) PROVE PassInv'
BY GroupSteps, GroupMovesInv

(* The plans of a run are such plans: what Metal may reduce is reduced one *)
(* group at a time.                                                        *)

-----------------------------------------------------------------------------
(* Numbers and finite sets. *)

SmallerNat == {ss \in Nat \X Nat : ss[1] < ss[2]}

LEMMA HasLeast ==
  ASSUME NEW S, S \subseteq Nat, S # {} PROVE \E m \in S : \A k \in S : m <= k
<1>1. IsWellFoundedOn(SmallerNat, Nat)
  BY NatLessThanWellFounded DEF OpToRel, SmallerNat
<1>2. PICK m \in S : \A k \in S : ~(<<k, m>> \in SmallerNat)
  BY <1>1, WFMin
<1>3. ASSUME NEW k \in S PROVE m <= k
  <2>1. k \in Nat /\ m \in Nat
    OBVIOUS
  <2>2. k < m => <<k, m>> \in SmallerNat
    BY <2>1 DEF SmallerNat
  <2>3. ~(k < m)
    BY <1>2, <2>2
  <2> QED BY <2>1, <2>3
<1> QED BY <1>3

LEMMA HasGreatest ==
  ASSUME NEW n \in Nat, NEW S, S \subseteq 0..n, S # {} PROVE \E m \in S : \A k \in S : k <= m
<1> DEFINE T == {n - k : k \in S}
<1>1. T \subseteq Nat /\ T # {}
  <2>1. \A k \in S : n - k \in Nat
    OBVIOUS
  <2> QED BY <2>1
<1>2. PICK d \in T : \A e \in T : d <= e
  BY <1>1, HasLeast
<1>3. PICK m \in S : d = n - m
  BY <1>2
<1>4. ASSUME NEW k \in S PROVE k <= m
  <2>1. n - m <= n - k
    BY <1>2, <1>3
  <2> QED BY <2>1
<1> QED BY <1>3, <1>4

LEMMA FiniteImage ==
  ASSUME NEW S, IsFiniteSet(S), NEW g
  PROVE  IsFiniteSet({g[x] : x \in S}) /\ Cardinality({g[x] : x \in S}) <= Cardinality(S)
<1>1. [x \in S |-> g[x]] \in Surjection(S, {g[x] : x \in S})
  BY DEF Surjection
<1> QED BY <1>1, FS_Surjection

(* Two elements are enough for a set of two. *)
LEMMA TwoOf ==
  ASSUME NEW S, IsFiniteSet(S), NEW x \in S, NEW y \in S, x # y PROVE Cardinality(S) >= 2
<1>1. IsFiniteSet({x}) /\ Cardinality({x}) = 1
  BY FS_Singleton
<1>2. IsFiniteSet({x} \cup {y}) /\ Cardinality({x} \cup {y}) = 2
  <2>1. y \notin {x}
    OBVIOUS
  <2> QED BY <1>1, <2>1, FS_AddElement
<1>3. {x} \cup {y} \in SUBSET S
  OBVIOUS
<1> QED BY <1>2, <1>3, FS_Subset, FS_CardinalityType

LEMMA LightsAreNumbers == Lights \subseteq Nat /\ IsFiniteSet(Lights)
<1>1. Frames \subseteq Nat /\ IsFiniteSet(Frames)
  BY MeasurementAssumption, FS_CardinalityType
<1> QED BY <1>1, PixelAssumption, FS_Union DEF Lights

-----------------------------------------------------------------------------
(* The passes of a run.  Its plans are plans of the kind above: what Metal *)
(* may reduce is reduced one group at a time.                              *)
LEMMA OutputsAreFinite ==
  ASSUME NEW frames \in SUBSET Lights PROVE Cardinality(OutputNamesOf(frames)) \in Nat
<1>1. IsFiniteSet(frames)
  BY LightsAreNumbers, FS_Subset
<1>2. IsFiniteSet(Names(frames))
  BY <1>1, FiniteImage DEF Names
<1>3. IsFiniteSet({"R"} \cup {"G"} \cup {"B"})
  <2>1. \A x : IsFiniteSet({x})
    BY FS_Singleton
  <2>2. IsFiniteSet({"R"} \cup {"G"})
    BY <2>1, FS_Union
  <2> QED BY <2>1, <2>2, FS_Union
<1>4. IsFiniteSet(Names(frames) \cup ({"R"} \cup {"G"} \cup {"B"}))
  BY <1>2, <1>3, FS_Union
<1>5. OutputNamesOf(frames) \in SUBSET (Names(frames) \cup ({"R"} \cup {"G"} \cup {"B"}))
  BY DEF OutputNamesOf, OutputNames
<1> QED BY <1>4, <1>5, FS_Subset, FS_CardinalityType

LEMMA PassPlanOK ==
  ASSUME NEW frames \in SUBSET Lights, NEW match PROVE PlanOK(PassPlan(frames, match))
<1> DEFINE p == PassPlan(frames, match)
<1>1. p.groups = Cardinality(OutputNamesOf(frames)) /\ p.concurrency = GroupConcurrency(p.groups)
  BY DEF PassPlan
<1>2. p.groups \in Nat
  BY <1>1, OutputsAreFinite
<1>3. OnCpu => p.accelerated = {}
  BY DEF PassPlan
<1>4. ~OnCpu => p.concurrency = 1
  BY <1>1 DEF GroupConcurrency
<1> QED BY <1>2, <1>3, <1>4 DEF PlanOK

LEMMA PassInvNext ==
  ASSUME PassInv, stage = "pass" => present \subseteq Lights, [PixelNext]_vars PROVE PassInv'
<1>1. CASE PrepareRun \/ ScreenStep \/ BuildRegistrationMasters \/ RegisterLights \/ StartIntegration
  BY <1>1, PassKept DEF PrepareRun, ScreenStep, BuildRegistrationMasters, RegisterLights, StartIntegration
<1>2. CASE StartNextPass
  <2>1. CASE UNCHANGED passVars
    BY <2>1, PassKept
  <2>2. CASE \E match : StartPass(PassPlan(present, match[present]))
    <3>1. present \in SUBSET Lights
      BY <1>2 DEF StartNextPass
    <3>2. PICK match : StartPass(PassPlan(present, match[present]))
      BY <2>2
    <3>3. PlanOK(PassPlan(present, match[present]))
      BY <3>1, PassPlanOK
    <3> QED BY <3>2, <3>3, StartPassInv
  <2> QED BY <1>2, <2>1, <2>2 DEF StartNextPass
<1>3. CASE IntegrationStep
  <2>1. CASE HostStep
    BY <2>1, HostStepInv
  <2>2. CASE ReduceOnMetal \/ UNCHANGED passVars
    BY <2>2, PassKept DEF ReduceOnMetal
  <2>3. CASE EndReduction
    <3>1. MetalOutcome[flow] \in MetalOutcomes
      BY <2>3 DEF EndReduction, Endings, MetalOutcome, MetalOutcomes
    <3> QED BY <2>3, <3>1, LeaveMetalInv DEF EndReduction
  <2> QED BY <1>3, <2>1, <2>2, <2>3 DEF IntegrationStep
<1>4. CASE PassFails
  BY <1>4, ResetPassInv DEF PassFails
<1>5. CASE AfterPass
  <2>1. CASE UNCHANGED passVars
    BY <2>1, PassKept
  <2>2. CASE ResetPass
    BY <2>2, ResetPassInv
  <2> QED BY <1>5, <2>1, <2>2 DEF AfterPass, Integrated, IntegrateAgain
<1>6. CASE Done \/ UNCHANGED vars
  BY <1>6, PassKept DEF Done, vars
<1> QED BY <1>1, <1>2, <1>3, <1>4, <1>5, <1>6 DEF PixelNext

-----------------------------------------------------------------------------
(* The gate (evaluate_quality_gate).  In every family the codes of a hard  *)
(* defect stand above the others, the combined cloud code apart, so that   *)
(* the one item _add_family keeps of a family is hard if any of it was.    *)
LEMMA HardCodesOnTop ==
  ASSUME NEW family \in DOMAIN Ladder, NEW i \in DOMAIN Ladder[family],
         Ladder[family][i] \in HardGateCodes
  PROVE  \A j \in DOMAIN Ladder[family] : j >= i => Ladder[family][j] \in HardGateCodes
BY DEF Ladder, HardGateCodes, HardCodes

LEMMA HardCodesHaveFamilies ==
  ASSUME NEW c \in HardGateCodes
  PROVE  \E family \in DOMAIN Ladder : \E i \in DOMAIN Ladder[family] : Ladder[family][i] = c
BY DEF Ladder, HardGateCodes, HardCodes

LEMMA LaddersAreFinite ==
  ASSUME NEW family \in DOMAIN Ladder PROVE \E n \in Nat : DOMAIN Ladder[family] = 1..n
<1>1. Len(Ladder[family]) \in Nat /\ DOMAIN Ladder[family] = 1..Len(Ladder[family])
  BY DEF Ladder
<1> QED BY <1>1

LEMMA HardIsKept ==
  ASSUME NEW raised, raised \cap HardGateCodes # {} PROVE Keep(raised) \cap HardGateCodes # {}
<1>1. PICK c \in raised : c \in HardGateCodes
  OBVIOUS
<1>2. PICK family \in DOMAIN Ladder : \E i \in DOMAIN Ladder[family] : Ladder[family][i] = c
  BY <1>1, HardCodesHaveFamilies
<1>3. PICK i \in DOMAIN Ladder[family] : Ladder[family][i] = c
  BY <1>2
<1>4. PICK n \in Nat : DOMAIN Ladder[family] = 1..n
  BY LaddersAreFinite
<1> DEFINE S == {j \in 1..n : Ladder[family][j] \in raised}
<1>5. PICK m \in S : \A j \in S : j <= m
  <2>1. S \subseteq 0..n /\ i \in S
    BY <1>1, <1>3, <1>4
  <2> QED BY <2>1, HasGreatest
<1>6. Ladder[family][m] \in HardGateCodes
  BY <1>1, <1>3, <1>4, <1>5, HardCodesOnTop
<1>7. \A j \in DOMAIN Ladder[family] : j > m => Ladder[family][j] \notin raised
  BY <1>4, <1>5
<1>8. Ladder[family][m] \in Keep(raised)
  BY <1>4, <1>5, <1>7 DEF Keep
<1> QED BY <1>6, <1>8

-----------------------------------------------------------------------------
(* What the gate leaves of a Light, for every route of the selection. *)
Graded ==
  /\ DOMAIN results = Lights
  /\ \A f \in Lights : /\ results[f].evidence = Keep(results[f].raised)
                       /\ results[f].disposition = Disposition(results[f].evidence)

Sound(f) == results[f].raised \cap HardGateCodes = {}

LEMMA GradedInv == ASSUME AnalyzeAndGate PROVE Graded'
<1>1. PICK look : \E analysis : results' = [f \in Lights |-> FrameResult(look, analysis, f)]
  BY DEF AnalyzeAndGate
<1>2. PICK analysis : results' = [f \in Lights |-> FrameResult(look, analysis, f)]
  BY <1>1
<1>3. ASSUME NEW f \in Lights
      PROVE  /\ results'[f].evidence = Keep(results'[f].raised)
             /\ results'[f].disposition = Disposition(results'[f].evidence)
  <2>1. results'[f] = FrameResult(look, analysis, f)
    BY <1>2
  <2> QED BY <2>1 DEF FrameResult, Gate, Gated
<1> QED BY <1>2, <1>3 DEF Graded

LEMMA PassIsSound ==
  ASSUME Graded, NEW f \in Lights, results[f].disposition # "HARD_FAIL" PROVE Sound(f)
<1>1. results[f].evidence \cap HardCodes = {}
  BY DEF Graded, Disposition
<1>2. Keep(results[f].raised) \cap HardGateCodes = {}
  BY <1>1 DEF Graded, HardGateCodes
<1> QED BY <1>2, HardIsKept DEF Sound

(* decide: no frame it keeps is a hard exclusion. *)
LEMMA DecideKeepsSound ==
  ASSUME Graded, NEW reviewed, NEW policy, NEW f \in Lights, Decide(results, reviewed, policy)[f].keep
  PROVE  Sound(f)
<1> SUFFICES ASSUME ~Sound(f) PROVE FALSE
  OBVIOUS
<1>1. Keep(results[f].raised) \cap HardGateCodes # {}
  BY HardIsKept DEF Sound
<1>2. HardExclusion(results, f)
  BY <1>1 DEF Graded, HardExclusion
<1> DEFINE first == [g \in DOMAIN results |-> DecideFrame(results, reviewed, policy, g)]
           soft == {g \in DOMAIN results : first[g].soft}
<1>3. first[f] = Excluded(FALSE)
  BY <1>2 DEF DecideFrame, Graded
<1>4. first[f].soft = FALSE /\ first[f].keep = FALSE
  BY <1>3 DEF Excluded
<1>5. Decide(results, reviewed, policy) =
        IF 100 * Cardinality(soft) > SoftGuard * Cardinality(DOMAIN results)
        THEN [g \in DOMAIN results |-> IF g \in soft THEN [Kept(5000) EXCEPT !.soft = TRUE] ELSE first[g]]
        ELSE first
  BY DEF Decide
<1>6. f \notin soft /\ f \in DOMAIN results
  BY <1>4 DEF Graded
<1>7. Decide(results, reviewed, policy)[f] = first[f]
  <2> HIDE DEF soft
  <2> QED BY <1>5, <1>6
<1> QED BY <1>4, <1>7

LEMMA AdmittedIs == ASSUME NEW set PROVE Admitted(set).admitted = set /\ Admitted(set).code = ""
BY DEF Admitted

(* Every route but the reviewer's. *)
LEMMA RoutesAdmitSound ==
  ASSUME Graded, NEW policy, policy # "explicit", NEW digest, NEW approvals, NEW selected,
         ApplyApprovals(results, digest, approvals).code = ""
  PROVE  LET reviewed == ApplyApprovals(results, digest, approvals).admitted
             passed == AdmittedLights(results, policy, reviewed, selected,
                                      Decide(results, reviewed, policy))
         IN \A f \in passed : f \in Lights /\ Sound(f)
<1> DEFINE reviewed == ApplyApprovals(results, digest, approvals).admitted
           decisions == Decide(results, reviewed, policy)
           passed == AdmittedLights(results, policy, reviewed, selected, decisions)
<1> SUFFICES \A f \in passed : f \in Lights /\ Sound(f)
  OBVIOUS
<1>1. \A f \in reviewed : f \in DOMAIN results /\ results[f].disposition = "REVIEW"
  <2> DEFINE named(a) == {f \in DOMAIN results : digest[f] = a.digest}
             all == UNION {named(a) : a \in approvals}
  <2>1. /\ Refused("REVIEW_APPROVAL_DUPLICATE").code # ""
        /\ Refused("REVIEW_APPROVAL_POLICY_DRIFT").code # ""
        /\ Refused("REVIEW_APPROVAL_REQUEST_DRIFT").code # ""
        /\ Refused("REVIEW_APPROVAL_SOURCE_AMBIGUOUS").code # ""
        /\ Refused("REVIEW_APPROVAL_SOURCE_NOT_REVIEW").code # ""
        /\ Refused("REVIEW_APPROVAL_UNREGISTRABLE").code # ""
    BY DEF Refused
  <2>2. ~\E f \in all : results[f].disposition # "REVIEW"
    BY <2>1 DEF ApplyApprovals
  <2>3. ApplyApprovals(results, digest, approvals) = Admitted(all)
    BY <2>1 DEF ApplyApprovals
  <2>4. reviewed = all
    BY <2>3, AdmittedIs
  <2> QED BY <2>2, <2>4
<1>2. \A f \in passed : f \in DOMAIN results
  BY <1>1 DEF AdmittedLights
<1>3. CASE policy \in {"unattended", "include-all"}
  <2>1. \A f \in passed : decisions[f].keep
    BY <1>3 DEF AdmittedLights
  <2> HIDE DEF passed, reviewed
  <2> QED BY <1>2, <2>1, DecideKeepsSound DEF Graded
<1>4. CASE policy \notin {"unattended", "include-all"}
  <2>1. \A f \in passed : results[f].disposition \in {"PASS", "REVIEW"}
    BY <1>1, <1>4 DEF AdmittedLights
  <2> HIDE DEF passed
  <2> QED BY <1>2, <2>1, PassIsSound DEF Graded
<1> QED BY <1>3, <1>4

LEMMA SelectionAccepted ==
  ASSUME NEW b, NEW digest, NEW selection, selection.undecided # "KEEP",
         \A f \in DOMAIN b : digest[f] \in selection.keep \cup selection.drop,
         \A f \in DOMAIN b : digest[f] \in selection.keep => ~(b[f].registration < 2),
         \A d \in selection.keep \cup selection.drop :
           /\ ~(Cardinality({f \in DOMAIN b : digest[f] = d}) > 1)
           /\ \E f \in DOMAIN b : digest[f] = d
  PROVE  ApplySelection(b, digest, selection) = Admitted({f \in DOMAIN b : digest[f] \in selection.keep})
<1> DEFINE kept == {f \in DOMAIN b : digest[f] \in selection.keep}
           undecided == {f \in DOMAIN b : digest[f] \notin selection.keep \cup selection.drop}
<1>1. undecided = {}
  OBVIOUS
<1>2. kept \cup (IF selection.undecided = "KEEP" THEN undecided ELSE {}) = kept
  OBVIOUS
<1>3. ~\E f \in kept : b[f].registration < 2
  OBVIOUS
<1> HIDE DEF undecided
<1> QED BY <1>1, <1>2, <1>3 DEF ApplySelection, undecided

(* The explicit selection of a reviewer who changes nothing (compute_flags). *)
LEMMA DefaultsAreAccepted ==
  ASSUME Graded
  PROVE  LET digest == [f \in Lights |-> f]
             drops == DefaultDrops(results)
             answer == ApplySelection(results, digest, [keep |-> Lights \ drops, drop |-> drops,
                                                        undecided |-> "ERROR"])
         IN /\ answer = Admitted(Lights \ drops)
            /\ \A f \in answer.admitted : results[f].disposition # "HARD_FAIL"
<1> DEFINE digest == [f \in Lights |-> f]
           drops == DefaultDrops(results)
           choices == [keep |-> Lights \ drops, drop |-> drops, undecided |-> "ERROR"]
           answer == ApplySelection(results, digest, choices)
<1> SUFFICES /\ answer = Admitted(Lights \ drops)
             /\ \A f \in answer.admitted : results[f].disposition # "HARD_FAIL"
  OBVIOUS
<1>1. DOMAIN results = Lights /\ drops \subseteq Lights
  BY DEF Graded, DefaultDrops
<1>2. \A f \in Lights \ drops : ~(results[f].registration < 2)
  <2>1. \A f \in Lights : results[f].registration < 2 => "UNREGISTRABLE" \in ExcludeFlags(results, f)
    BY DEF ExcludeFlags, Raise
  <2> QED BY <1>1, <2>1 DEF DefaultDrops
<1>3. ASSUME NEW d \in Lights
      PROVE  /\ ~(Cardinality({f \in DOMAIN results : digest[f] = d}) > 1)
             /\ \E f \in DOMAIN results : digest[f] = d
  <2>1. {f \in DOMAIN results : digest[f] = d} = {d}
    BY <1>1
  <2> HIDE DEF digest
  <2>2. Cardinality({d}) = 1
    BY FS_Singleton
  <2>3. ~(Cardinality({f \in DOMAIN results : digest[f] = d}) > 1)
    BY <2>1, <2>2
  <2> QED BY <2>1, <2>3
<1>4. answer = Admitted(Lights \ drops)
  <2> HIDE DEF drops
  <2>1. {f \in DOMAIN results : digest[f] \in choices.keep} = Lights \ drops
    BY <1>1
  <2>2. choices.undecided # "KEEP" /\ \A d \in choices.keep \cup choices.drop : d \in Lights
    BY <1>1
  <2>3. \A f \in DOMAIN results : digest[f] \in choices.keep \cup choices.drop
    BY <1>1
  <2>4. \A f \in DOMAIN results : digest[f] \in choices.keep => ~(results[f].registration < 2)
    BY <1>1, <1>2
  <2>5. \A d \in choices.keep \cup choices.drop :
          /\ ~(Cardinality({f \in DOMAIN results : digest[f] = d}) > 1)
          /\ \E f \in DOMAIN results : digest[f] = d
    BY <1>3, <2>2
  <2> HIDE DEF digest, choices
  <2>6. answer = Admitted({f \in DOMAIN results : digest[f] \in choices.keep})
    BY <2>2, <2>3, <2>4, <2>5, SelectionAccepted
  <2> QED BY <2>1, <2>6
<1>5. \A f \in Lights \ drops : results[f].disposition # "HARD_FAIL"
  <2> SUFFICES ASSUME NEW f \in Lights, results[f].disposition = "HARD_FAIL" PROVE f \in drops
    OBVIOUS
  <2>1. results[f].evidence \cap HardCodes # {}
    BY DEF Graded, Disposition
  <2>2. HardCodes \subseteq GateFlagExclude
    BY DEF HardCodes, GateFlagExclude
  <2>3. ExcludeFlags(results, f) # {}
    BY <2>1, <2>2 DEF ExcludeFlags
  <2> QED BY <1>1, <2>3 DEF DefaultDrops
<1> HIDE DEF drops, answer
<1> QED BY <1>4, <1>5, AdmittedIs

-----------------------------------------------------------------------------
(* The counterfactual exclusions (_counterfactual_exclusions). *)

LEMMA EarlierFinite ==
  ASSUME NEW frames, frames \subseteq Nat, IsFiniteSet(frames), NEW f \in Nat
  PROVE  /\ {g \in frames : g < f} \in SUBSET frames /\ IsFiniteSet({g \in frames : g < f})
         /\ Earlier(frames, f) \in Nat
BY FS_Subset, FS_CardinalityType DEF Earlier

LEMMA EarlierGrows ==
  ASSUME NEW frames, frames \subseteq Nat, IsFiniteSet(frames), NEW f \in frames, NEW h \in frames,
         f < h
  PROVE  Earlier(frames, f) < Earlier(frames, h)
<1> DEFINE A == {g \in frames : g < f}
           B == {g \in frames : g < h}
<1>1. A \subseteq B /\ f \in B /\ f \notin A
  <2>1. f \in Nat /\ h \in Nat
    OBVIOUS
  <2>2. ASSUME NEW g \in frames, g < f PROVE g < h
    <3>1. g \in Nat
      OBVIOUS
    <3> QED BY <2>1, <2>2, <3>1
  <2>3. A \subseteq B
    BY <2>2
  <2>4. f \in B /\ f \notin A
    BY <2>1
  <2> QED BY <2>3, <2>4
<1>2. IsFiniteSet(B) /\ Earlier(frames, f) \in Nat /\ Earlier(frames, h) \in Nat
  BY EarlierFinite
<1>3. Cardinality(A) <= Cardinality(B) /\ Cardinality(A) # Cardinality(B)
  <2> HIDE DEF A, B
  <2> QED BY <1>1, <1>2, FS_Subset
<1> QED BY <1>2, <1>3 DEF Earlier

(* At most as many frames are taken as there is an allowance for. *)
LEMMA FirstOnesFew ==
  ASSUME NEW frames, frames \subseteq Nat, IsFiniteSet(frames), NEW most \in Int
  PROVE  /\ FirstOnes(frames, most) \subseteq frames
         /\ FirstOnes(frames, most) # {} => Cardinality(FirstOnes(frames, most)) <= most
<1> DEFINE F == FirstOnes(frames, most)
<1>1. F \subseteq frames /\ \A f \in F : Earlier(frames, f) < most
  BY DEF FirstOnes
<1>2. \A f \in F : f \in Nat /\ Earlier(frames, f) \in Nat
  BY <1>1, EarlierFinite
<1>3. CASE F # {}
  <2>1. most \in Nat /\ most > 0
    BY <1>1, <1>2, <1>3
  <2>2. \A f \in F : Earlier(frames, f) \in 0..(most - 1)
    BY <1>1, <1>2
  <2>3. \A f \in F, h \in F : Earlier(frames, f) = Earlier(frames, h) => f = h
    <3> SUFFICES ASSUME NEW f \in F, NEW h \in F, f # h PROVE Earlier(frames, f) # Earlier(frames, h)
      OBVIOUS
    <3>1. f \in frames /\ h \in frames /\ f \in Nat /\ h \in Nat
      BY <1>1, <1>2
    <3>2. f < h \/ h < f
      BY <3>1
    <3>3. Earlier(frames, f) \in Nat /\ Earlier(frames, h) \in Nat
      BY <1>2
    <3>4. Earlier(frames, f) < Earlier(frames, h) \/ Earlier(frames, h) < Earlier(frames, f)
      BY <3>1, <3>2, EarlierGrows
    <3> QED BY <3>3, <3>4
  <2> DEFINE r == [f \in F |-> Earlier(frames, f)]
  <2>4. r \in Injection(F, 0..(most - 1))
    <3> HIDE DEF F
    <3>1. r \in [F -> 0..(most - 1)]
      BY <2>2
    <3>2. \A f \in F, h \in F : r[f] = r[h] => f = h
      BY <2>3
    <3> HIDE DEF r
    <3> QED BY <3>1, <3>2 DEF Injection, IsInjective
  <2>5. IsFiniteSet(0..(most - 1)) /\ Cardinality(0..(most - 1)) = most
    BY <2>1, FS_Interval
  <2>6. Cardinality(F) <= Cardinality(0..(most - 1))
    BY <2>4, <2>5, FS_Injection
  <2> QED BY <1>1, <2>5, <2>6
<1> QED BY <1>1, <1>3

InPanel(frames, panel, p) == {g \in frames : panel[g] = p}

(* Of the Lights of a panel that had two, two remain. *)
LEMMA PanelKeepsTwo ==
  ASSUME NEW present_ \in SUBSET Lights, NEW harmful \in SUBSET present_, NEW references, NEW panel, NEW p,
         Cardinality(InPanel(present_, panel, p)) >= 2
  PROVE  Cardinality(InPanel(present_ \ Removable(harmful, present_, references, panel), panel, p)) >= 2
<1> DEFINE first == harmful \ references
           K == {g \in present_ \ first : panel[g] = p}
           F == {g \in first : panel[g] = p}
           gone == Removable(harmful, present_, references, panel)
           Q == {g \in present_ \ gone : panel[g] = p}
<1>1. /\ IsFiniteSet(K) /\ IsFiniteSet(F) /\ IsFiniteSet(Q)
      /\ K \subseteq Nat /\ F \subseteq Nat /\ gone \subseteq first
  <2>1. K \in SUBSET Lights /\ F \in SUBSET Lights /\ Q \in SUBSET Lights
    OBVIOUS
  <2>2. gone \subseteq first
    BY DEF Removable
  <2> HIDE DEF K, F, Q, gone
  <2> QED BY <2>1, <2>2, LightsAreNumbers, FS_Subset
<1>2. K \subseteq Q
  BY <1>1
<1>3. ASSUME NEW f \in F, Cardinality(K) + Earlier(F, f) < 2 PROVE f \in Q
  <2>1. {g \in first : panel[g] = panel[f]} = F /\ {g \in present_ \ first : panel[g] = panel[f]} = K
    OBVIOUS
  <2>2. f \in gone => Cardinality(K) + Earlier(F, f) >= 2
    BY <2>1 DEF Removable
  <2>3. Cardinality(K) \in Nat /\ Earlier(F, f) \in Nat
    <3> HIDE DEF K, F
    <3>1. f \in Nat
      BY <1>1
    <3> QED BY <1>1, <3>1, EarlierFinite, FS_CardinalityType
  <2>4. f \notin gone
    <3> HIDE DEF K, F, gone
    <3> QED BY <1>3, <2>2, <2>3
  <2> QED BY <2>4
<1>4. Cardinality(K) + Cardinality(F) >= 2
  <2>1. {g \in present_ : panel[g] = p} = K \cup F /\ K \cap F = {}
    OBVIOUS
  <2> HIDE DEF K, F
  <2>2. Cardinality(K \cup F) = Cardinality(K) + Cardinality(F) - Cardinality(K \cap F)
    BY <1>1, FS_Union
  <2>3. Cardinality(K \cap F) = 0
    BY <2>1, FS_EmptySet
  <2>4. Cardinality(K \cup F) >= 2
    BY <2>1 DEF InPanel
  <2>5. Cardinality(K) \in Nat /\ Cardinality(F) \in Nat
    BY <1>1, FS_CardinalityType
  <2> QED BY <2>2, <2>3, <2>4, <2>5
<1> SUFFICES Cardinality(Q) >= 2
  BY DEF InPanel
<1> HIDE DEF K, F, Q, gone, first
<1>5. Cardinality(K) \in Nat /\ Cardinality(F) \in Nat /\ Cardinality(Q) \in Nat
  BY <1>1, FS_CardinalityType
<1>6. \A f \in F : (\A g \in F : f <= g) => Earlier(F, f) = 0
  <2> SUFFICES ASSUME NEW f \in F, \A g \in F : f <= g PROVE Cardinality({g \in F : g < f}) = 0
    BY DEF Earlier
  <2>1. {g \in F : g < f} = {}
    <3> SUFFICES ASSUME NEW g \in F, g < f PROVE FALSE
      OBVIOUS
    <3>1. g \in Nat /\ f \in Nat /\ f <= g
      BY <1>1
    <3> QED BY <3>1
  <2> QED BY <2>1, FS_EmptySet
<1>7. CASE Cardinality(K) >= 2
  <2>1. Cardinality(K) <= Cardinality(Q)
    BY <1>1, <1>2, FS_Subset
  <2> QED BY <1>5, <1>7, <2>1
<1>8. CASE Cardinality(K) = 1
  <2>1. F # {}
    BY <1>4, <1>8, FS_EmptySet
  <2>2. PICK m \in F : \A g \in F : m <= g
    BY <1>1, <2>1, HasLeast
  <2>3. m \in Q
    BY <1>3, <1>6, <1>8, <2>2
  <2>4. PICK x : K = {x}
    BY <1>1, <1>8, FS_Singleton
  <2>5. x \in Q /\ x # m
    BY <1>2, <2>4 DEF K, F
  <2> QED BY <1>1, <2>3, <2>5, TwoOf
<1>9. CASE Cardinality(K) = 0
  <2>1. F # {}
    BY <1>4, <1>9, FS_EmptySet
  <2>2. PICK m \in F : \A g \in F : m <= g
    BY <1>1, <2>1, HasLeast
  <2>3. F \ {m} # {}
    <3>1. F = {m} => Cardinality(F) = 1
      BY FS_Singleton
    <3> QED BY <1>4, <1>9, <2>2, <3>1
  <2>4. PICK n \in F \ {m} : \A g \in F \ {m} : n <= g
    <3>1. F \ {m} \subseteq Nat
      BY <1>1
    <3> QED BY <2>3, <3>1, HasLeast
  <2>5. Earlier(F, n) = 1
    <3>1. {g \in F : g < n} = {m}
      <4>1. m \in Nat /\ n \in Nat /\ m < n
        BY <1>1, <2>2, <2>4
      <4>2. ASSUME NEW g \in F, g < n PROVE g = m
        BY <1>1, <2>4, <4>2
      <4> QED BY <4>1, <4>2
    <3> QED BY <3>1, FS_Singleton DEF Earlier
  <2>6. m \in Q /\ n \in Q
    BY <1>3, <1>6, <1>9, <2>2, <2>4, <2>5
  <2> QED BY <1>1, <2>4, <2>6, TwoOf
<1> QED BY <1>5, <1>7, <1>8, <1>9

(* The guard holds of all passes together: SoftGuard percent of the Lights *)
(* admitted at the start.                                                  *)
LEMMA GuardHolds ==
  ASSUME NEW A \in Nat, NEW gone \in Nat, gone <= (SoftGuard * A) \div 100
  PROVE  100 * gone <= SoftGuard * A
<1>1. SoftGuard * A \in Nat
  BY PixelAssumption
<1>2. ASSUME NEW x \in Nat, gone <= x \div 100 PROVE 100 * gone <= x
  BY <1>2
<1> QED BY <1>1, <1>2

-----------------------------------------------------------------------------
(* The run around its passes (run_e2e_stages, _integrate_admitted_lights). *)

PresentOK ==
  /\ present \subseteq admitted /\ Range(reference) \subseteq present
  /\ \A f \in admitted : Cardinality({g \in present : Panel[g] = Panel[f]}) >= 2
  /\ 100 * Cardinality(admitted \ present) <= SoftGuard * Cardinality(admitted)
  /\ request \in {start.request : start \in Starts}

RunInv ==
  /\ admitted \subseteq Lights
  /\ stage \in {"gated", "admitted"} => Graded
  /\ stage = "admitted" /\ route # "explicit" => \A f \in admitted : Sound(f)
  /\ stage \in {"admitted", "calibrated", "registered", "pass"} =>
       PanelsBelowMinimum(Panel, Lights, admitted) = {}
  /\ stage \in {"registered", "pass"} => Range(reference) \subseteq admitted
  /\ stage = "pass" => PresentOK

LEMMA AgainInv ==
  ASSUME RunInv, stage = "pass", NEW harmful \in SUBSET present,
         IntegrateAgain(CounterfactualExclusions(harmful, present, Range(reference), Panel,
                                                 Cardinality(admitted)))
  PROVE  PresentOK'
<1> DEFINE R == Removable(harmful, present, Range(reference), Panel)
           most == CounterfactualAllowance(present, Cardinality(admitted))
           gone == FirstOnes(R, most)
<1>1. /\ present' = present \ gone
      /\ UNCHANGED <<admitted, reference, request>>
  BY DEF IntegrateAgain, CounterfactualExclusions, screenVars
<1>2. PresentOK /\ admitted \in SUBSET Lights /\ present \in SUBSET Lights /\ R \in SUBSET harmful
      /\ R \cap Range(reference) = {}
  BY DEF RunInv, PresentOK, Removable
<1>3. /\ IsFiniteSet(admitted) /\ IsFiniteSet(present) /\ IsFiniteSet(R) /\ R \subseteq Nat
      /\ Cardinality(admitted) \in Nat /\ Cardinality(present) \in Nat
  <2>1. R \in SUBSET Lights
    BY <1>2
  <2> HIDE DEF R
  <2> QED BY <1>2, <2>1, LightsAreNumbers, FS_Subset, FS_CardinalityType
<1> HIDE DEF R
<1>4. most \in Int
  <2>1. SoftGuard * Cardinality(admitted) \in Nat
    BY <1>3, PixelAssumption
  <2> QED BY <1>3, <2>1 DEF CounterfactualAllowance
<1> HIDE DEF most
<1>5. gone \subseteq R /\ (gone # {} => Cardinality(gone) <= most)
  BY <1>3, <1>4, FirstOnesFew
<1> HIDE DEF gone
<1>6. present' \subseteq admitted' /\ Range(reference)' \subseteq present'
  BY <1>1, <1>2, <1>5 DEF PresentOK
<1>7. ASSUME NEW f \in admitted PROVE Cardinality({g \in present' : Panel[g] = Panel[f]}) >= 2
  <2> DEFINE P == {g \in present \ R : Panel[g] = Panel[f]}
             Q == {g \in present \ gone : Panel[g] = Panel[f]}
  <2>1. Cardinality({g \in present : Panel[g] = Panel[f]}) >= 2
    BY <1>2 DEF PresentOK
  <2>2. Cardinality(P) >= 2
    <3>1. Cardinality({g \in present \ Removable(harmful, present, Range(reference), Panel) :
                         Panel[g] = Panel[f]}) >= 2
      <4>1. present \in SUBSET Lights /\ harmful \in SUBSET present
        BY <1>2
      <4>2. Cardinality(InPanel(present, Panel, Panel[f])) >= 2
        BY <2>1 DEF InPanel
      <4>3. Cardinality(InPanel(present \ Removable(harmful, present, Range(reference), Panel),
                                Panel, Panel[f])) >= 2
        BY <4>1, <4>2, PanelKeepsTwo
      <4> QED BY <4>3 DEF InPanel
    <3> QED BY <3>1 DEF R
  <2>3. P \in SUBSET Q /\ Q \in SUBSET present /\ P \in SUBSET present
    BY <1>5
  <2>4. Cardinality(Q) >= 2
    <3> HIDE DEF P, Q
    <3>1. IsFiniteSet(Q) /\ IsFiniteSet(P)
      BY <1>3, <2>3, FS_Subset
    <3>2. Cardinality(P) <= Cardinality(Q)
      BY <2>3, <3>1, FS_Subset
    <3>3. Cardinality(P) \in Nat /\ Cardinality(Q) \in Nat
      BY <3>1, FS_CardinalityType
    <3> QED BY <2>2, <3>2, <3>3
  <2> QED BY <1>1, <2>4
<1>8. 100 * Cardinality(admitted \ present') <= SoftGuard * Cardinality(admitted)
  <2>1. CASE gone = {}
    <3>1. present' = present
      BY <1>1, <2>1
    <3> QED BY <1>2, <3>1 DEF PresentOK
  <2>2. CASE gone # {}
    <3>1. /\ admitted \ present' = (admitted \ present) \cup gone /\ (admitted \ present) \cap gone = {}
          /\ admitted \ present \in SUBSET admitted /\ gone \in SUBSET admitted
          /\ admitted \cap present = present
      BY <1>1, <1>2, <1>5 DEF PresentOK
    <3>2. IsFiniteSet(admitted \ present) /\ IsFiniteSet(gone)
      BY <1>3, <3>1, FS_Subset
    <3>3. /\ Cardinality(admitted \ present) \in Nat /\ Cardinality(gone) \in Nat
          /\ Cardinality(admitted \ present) = Cardinality(admitted) - Cardinality(present)
      BY <1>3, <3>1, <3>2, FS_Difference, FS_CardinalityType
    <3>4. Cardinality((admitted \ present) \cap gone) = 0
      BY <3>1, FS_EmptySet
    <3>5. Cardinality(admitted \ present') = Cardinality(admitted \ present) + Cardinality(gone)
      <4>1. Cardinality((admitted \ present) \cup gone) =
              Cardinality(admitted \ present) + Cardinality(gone) - Cardinality((admitted \ present) \cap gone)
        BY <3>2, FS_Union
      <4>2. Cardinality(admitted \ present') = Cardinality((admitted \ present) \cup gone)
        BY <3>1
      <4> QED BY <3>3, <3>4, <4>1, <4>2
    <3>6. Cardinality(gone) <= ((SoftGuard * Cardinality(admitted)) \div 100)
                                 - (Cardinality(admitted) - Cardinality(present))
      BY <1>5, <2>2 DEF most, CounterfactualAllowance
    <3>7. (SoftGuard * Cardinality(admitted)) \div 100 \in Nat
      <4>1. SoftGuard * Cardinality(admitted) \in Nat
        BY <1>3, PixelAssumption
      <4> QED BY <4>1
    <3>8. /\ Cardinality(admitted \ present') \in Nat
          /\ Cardinality(admitted \ present') <= (SoftGuard * Cardinality(admitted)) \div 100
      BY <1>3, <3>3, <3>5, <3>6, <3>7
    <3> QED BY <1>3, <3>8, GuardHolds
  <2> QED BY <2>1, <2>2
<1> QED BY <1>1, <1>2, <1>6, <1>7, <1>8 DEF PresentOK

(* The first pass takes every Light. *)
LEMMA StartInv ==
  ASSUME RunInv, StartIntegration PROVE PresentOK'
<1>1. /\ present' = admitted /\ UNCHANGED <<admitted, reference>>
      /\ request' \in {start.request : start \in Starts}
  BY DEF StartIntegration
<1>2. Range(reference) \subseteq admitted /\ PanelsBelowMinimum(Panel, Lights, admitted) = {}
      /\ admitted \in SUBSET Lights
  BY DEF RunInv, StartIntegration
<1>3. ASSUME NEW f \in admitted PROVE Cardinality({g \in admitted : Panel[g] = Panel[f]}) >= 2
  <2>1. Panel[f] \in {Panel[g] : g \in Lights}
    BY <1>2
  <2>2. ~(Cardinality({g \in admitted : Panel[g] = Panel[f]}) < 2)
    BY <1>2, <2>1 DEF PanelsBelowMinimum
  <2>3. Cardinality({g \in admitted : Panel[g] = Panel[f]}) \in Nat
    <3>1. {g \in admitted : Panel[g] = Panel[f]} \in SUBSET Lights
      BY <1>2
    <3> QED BY <3>1, LightsAreNumbers, FS_Subset, FS_CardinalityType
  <2> QED BY <2>2, <2>3
<1>4. 100 * Cardinality(admitted \ admitted) <= SoftGuard * Cardinality(admitted)
  <2>1. Cardinality(admitted \ admitted) = 0
    <3>1. admitted \ admitted = {}
      OBVIOUS
    <3> QED BY <3>1, FS_EmptySet
  <2>2. Cardinality(admitted) \in Nat
    BY <1>2, LightsAreNumbers, FS_Subset, FS_CardinalityType
  <2>3. SoftGuard * Cardinality(admitted) \in Nat
    BY <2>2, PixelAssumption
  <2> QED BY <2>1, <2>3
<1> QED BY <1>1, <1>2, <1>3, <1>4 DEF PresentOK

LEMMA SelectionWithin ==
  ASSUME NEW b, NEW digest, NEW selection
  PROVE  ApplySelection(b, digest, selection).admitted \subseteq DOMAIN b
<1> DEFINE keep == {f \in DOMAIN b : digest[f] \in selection.keep}
                     \cup (IF selection.undecided = "KEEP"
                           THEN {f \in DOMAIN b : digest[f] \notin selection.keep \cup selection.drop}
                           ELSE {})
<1>1. keep \subseteq DOMAIN b
  OBVIOUS
<1>2. /\ Refused("SELECTION_SOURCE_AMBIGUOUS").admitted = {} /\ Refused("SELECTION_SOURCE_UNKNOWN").admitted = {}
      /\ Refused("SELECTION_UNREGISTRABLE").admitted = {} /\ Refused("SELECTION_INCOMPLETE").admitted = {}
  BY DEF Refused
<1>3. Admitted(keep).admitted = keep
  BY AdmittedIs
<1>4. \/ ApplySelection(b, digest, selection) \in
           {Refused("SELECTION_SOURCE_AMBIGUOUS"), Refused("SELECTION_SOURCE_UNKNOWN"),
            Refused("SELECTION_UNREGISTRABLE"), Refused("SELECTION_INCOMPLETE")}
      \/ ApplySelection(b, digest, selection) = Admitted(keep)
  BY DEF ApplySelection
<1> HIDE DEF keep
<1> QED BY <1>1, <1>2, <1>3, <1>4

-----------------------------------------------------------------------------
(* Fewer Lights need no more masters: a Light is paired on its own, and the *)
(* raw Flats without the Lights (match_calibration).                       *)

LEMMA PairingsWithin ==
  ASSUME NEW S, NEW T, S \subseteq T, NEW biases, NEW darks, NEW flats, NEW limit, NEW leaving
  PROVE  Pairings(MatchGroups(Headers(S), biases, darks, flats, limit, leaving))
           \subseteq Pairings(MatchGroups(Headers(T), biases, darks, flats, limit, leaving))
<1> DEFINE P(f) == PairLight(Header[f], biases, darks, flats, leaving)
           M(X) == MatchGroups(Headers(X), biases, darks, flats, limit, leaving)
           Q == [g \in {h \in flats : ~Supplied(h)} |-> PairFlat(Traits(g), biases, darks, limit, leaving)]
<1>1. ASSUME NEW X
      PROVE  M(X).lights = [f \in X |-> P(f)] /\ M(X).flats = Q
  <2>1. DOMAIN Headers(X) = X /\ \A f \in X : Headers(X)[f] = Header[f]
    BY DEF Headers
  <2>2. M(X).lights = [f \in DOMAIN Headers(X) |-> PairLight(Headers(X)[f], biases, darks, flats, leaving)]
    BY DEF MatchGroups
  <2>3. M(X).flats = Q
    BY DEF MatchGroups
  <2> QED BY <2>1, <2>2, <2>3
<1>2. ASSUME NEW X
      PROVE  Pairings(M(X)) = {P(f) : f \in X} \cup {Q[g] : g \in DOMAIN Q}
  <2> HIDE DEF M, P, Q
  <2>1. DOMAIN M(X).lights = X /\ \A f \in X : M(X).lights[f] = P(f)
    <3> DEFINE lights == M(X).lights
    <3>1. lights = [f \in X |-> P(f)]
      BY <1>1
    <3> HIDE DEF lights
    <3>2. DOMAIN lights = X /\ \A f \in X : lights[f] = P(f)
      BY <3>1
    <3> QED BY <3>2 DEF lights
  <2>2. M(X).flats = Q
    BY <1>1
  <2> QED BY <2>1, <2>2 DEF Pairings
<1>3. Pairings(M(S)) \subseteq Pairings(M(T))
  <2> HIDE DEF M, P, Q
  <2> QED BY <1>2
<1> QED BY <1>3

LEMMA MastersCovered ==
  ASSUME NEW S, NEW T, S \subseteq T
  PROVE  RawUsed(Matched(S)) \subseteq RawUsed(Matched(T))
<1> DEFINE G == [kind \in Kinds |-> GroupCalibration(Supply, kind)]
           limit == IF workflow = MonoStandard THEN FlatDarkLimit ELSE 0
           M(X) == MatchGroups(Headers(X), G["BIAS"], G["DARK"], G["FLAT"], limit,
                               Leaving(Supply, workflow))
<1>1. ASSUME NEW X PROVE Matched(X) = M(X)
  BY DEF Matched, MatchCalibration, MatchLibrary
<1>2. Pairings(M(S)) \subseteq Pairings(M(T))
  BY PairingsWithin
<1> HIDE DEF M
<1>3. Pairings(Matched(S)) \subseteq Pairings(Matched(T))
  BY <1>1, <1>2
<1> QED BY <1>3 DEF RawUsed, UsedGroups

-----------------------------------------------------------------------------
(* One lemma per step of the run. *)

LEMMA RunKept == ASSUME RunInv, UNCHANGED <<screenVars, pixelVars>> PROVE RunInv'
<1>1. UNCHANGED <<stage, results, route, admitted, reference, present, request>>
  BY DEF screenVars, pixelVars
<1> QED BY <1>1 DEF RunInv, Graded, Sound, PresentOK

LEMMA RunFailsInv == ASSUME RunInv, NEW error, RunFails(error) PROVE RunInv'
<1>1. stage' = "failed" /\ UNCHANGED <<results, route, admitted, reference, present, request>>
  BY DEF RunFails, pixelVars
<1> QED BY <1>1 DEF RunInv

LEMMA AdmitByInv ==
  ASSUME RunInv, stage = "gated", NEW policy, NEW reviewed, NEW decisions, NEW passed,
         AdmitBy(policy, reviewed, decisions, passed), UNCHANGED pixelVars,
         passed \subseteq Lights, policy # "explicit" => \A f \in passed : Sound(f)
  PROVE  RunInv'
<1>1. /\ route' = policy /\ admitted' = passed /\ UNCHANGED results
      /\ failure' = IF PanelsBelowMinimum(Panel, Lights, passed) = {} THEN ""
                    ELSE "REGISTRATION_MINIMUM"
      /\ stage' = IF failure' = "" THEN "admitted" ELSE "evidence"
  BY ZenonT(60) DEF AdmitBy
<1>2. stage' = "admitted" => PanelsBelowMinimum(Panel, Lights, passed) = {}
  BY <1>1
<1>3. stage' \in {"admitted", "evidence"}
  BY <1>1
<1>4. Graded'
  BY <1>1 DEF RunInv, Graded
<1>5. route' # "explicit" => \A f \in admitted' : Sound(f)'
  BY <1>1 DEF Sound
<1> QED BY <1>1, <1>2, <1>3, <1>4, <1>5 DEF RunInv

LEMMA AdmitInv ==
  ASSUME RunInv, Admit, UNCHANGED pixelVars PROVE RunInv'
<1>1. stage = "gated" /\ Graded
  BY DEF Admit, RunInv
<1>2. ASSUME NEW error, Fail(error) PROVE RunInv'
  <2>1. stage' = "failed" /\ UNCHANGED <<results, route, admitted, reference, present, request>>
    BY <1>2 DEF Fail, pixelVars
  <2> QED BY <2>1 DEF RunInv
<1>3. ASSUME NEW digest, NEW policy, NEW approvals, NEW selection,
             ApplyApprovals(results, digest, approvals).code = "",
             AdmitBy(policy, ApplyApprovals(results, digest, approvals).admitted,
                     Decide(results, ApplyApprovals(results, digest, approvals).admitted, policy),
                     AdmittedLights(results, policy, ApplyApprovals(results, digest, approvals).admitted,
                                    ApplySelection(results, digest, selection).admitted,
                                    Decide(results, ApplyApprovals(results, digest, approvals).admitted,
                                           policy)))
      PROVE  RunInv'
  <2> DEFINE reviewed == ApplyApprovals(results, digest, approvals).admitted
             chosen == ApplySelection(results, digest, selection).admitted
             decisions == Decide(results, reviewed, policy)
             passed == AdmittedLights(results, policy, reviewed, chosen, decisions)
  <2>1. policy # "explicit" => \A f \in passed : f \in Lights /\ Sound(f)
    BY <1>1, <1>3, RoutesAdmitSound
  <2>2. policy = "explicit" => passed \subseteq Lights
    <3>1. chosen \subseteq Lights
      BY <1>1, SelectionWithin DEF Graded
    <3> HIDE DEF reviewed, chosen, decisions
    <3> QED BY <3>1 DEF AdmittedLights
  <2>3. AdmitBy(policy, reviewed, decisions, passed)
    BY <1>3
  <2> HIDE DEF reviewed, decisions, passed
  <2>4. passed \subseteq Lights
    BY <2>1, <2>2
  <2>5. policy # "explicit" => \A f \in passed : Sound(f)
    BY <2>1
  <2> QED BY <1>1, <2>3, <2>4, <2>5, AdmitByInv
<1>4. PICK digest, policy, approvals, selection :
        AdmitWith(policy, ApplyApprovals(results, digest, approvals),
                  ApplySelection(results, digest, selection))
  BY DEF Admit
<1> DEFINE approval == ApplyApprovals(results, digest, approvals)
           chosen == ApplySelection(results, digest, selection)
<1>5. \/ \E error : Fail(error)
      \/ /\ approval.code = ""
         /\ AdmitBy(policy, approval.admitted, Decide(results, approval.admitted, policy),
                    AdmittedLights(results, policy, approval.admitted, chosen.admitted,
                                   Decide(results, approval.admitted, policy)))
  <2>1. AdmitWith(policy, approval, chosen)
    BY <1>4
  <2> HIDE DEF approval, chosen
  <2> QED BY <2>1 DEF AdmitWith
<1> QED BY <1>2, <1>3, <1>5

LEMMA ReferencesAreAdmitted ==
  ASSUME NEW filter, NEW frames, NEW candidates, NEW r \in NormalizationReferences(frames, filter, candidates)
  PROVE  Range(r) \subseteq frames
BY DEF NormalizationReferences, Range

LEMMA RunInvInit == ASSUME PixelInit PROVE RunInv
BY DEF PixelInit, ScreenInit, RunInv

LEMMA RunInvNext == ASSUME RunInv, [PixelNext]_vars PROVE RunInv'
<1>1. CASE PrepareRun
  <2>1. CASE \E refusal : RunFails(refusal)
    BY <2>1, RunFailsInv
  <2>2. CASE UNCHANGED screenVars /\ UNCHANGED <<reference, request, present>>
    BY <2>2 DEF RunInv, Graded, Sound, PresentOK, screenVars
  <2> QED BY <1>1, <2>1, <2>2 DEF PrepareRun
<1>2. CASE ScreenStep
  <2>1. UNCHANGED pixelVars
    BY <1>2 DEF ScreenStep
  <2>2. CASE MeasureStep
    BY <2>1, <2>2, RunKept DEF MeasureStep
  <2>3. CASE CollectMeasurements
    <3>1. stage' = "measured" /\ UNCHANGED <<results, route, admitted>>
      BY <2>3 DEF CollectMeasurements
    <3> QED BY <2>1, <3>1 DEF RunInv, pixelVars
  <2>4. CASE AnalyzeAndGate
    <3>1. stage' = "gated" /\ UNCHANGED <<route, admitted>>
      BY <2>4 DEF AnalyzeAndGate
    <3>2. Graded'
      BY <2>4, GradedInv
    <3> QED BY <2>1, <3>1, <3>2 DEF RunInv, pixelVars
  <2>5. CASE Admit
    BY <2>1, <2>5, AdmitInv
  <2> QED BY <1>2, <2>2, <2>3, <2>4, <2>5 DEF ScreenStep
<1>3. CASE BuildRegistrationMasters
  <2>1. CASE \E refusal : RunFails(refusal)
    BY <2>1, RunFailsInv
  <2>2. CASE stage = "admitted" /\ stage' = "calibrated" /\ UNCHANGED admitted
    BY <2>2 DEF RunInv
  <2> QED BY <1>3, <2>1, <2>2 DEF BuildRegistrationMasters
<1>4. CASE RegisterLights
  <2>1. CASE \E refusal : RunFails(refusal)
    BY <2>1, RunFailsInv
  <2>2. CASE /\ stage = "calibrated" /\ stage' = "registered" /\ UNCHANGED admitted
             /\ reference' \in NormalizationReferences(admitted, Filter, anchors)
    <3>1. Range(reference') \subseteq admitted
      BY <2>2, ReferencesAreAdmitted
    <3> QED BY <2>2, <3>1 DEF RunInv
  <2> QED BY <1>4, <2>1, <2>2, ZenonT(60) DEF RegisterLights
<1>5. CASE StartIntegration
  <2>1. PresentOK'
    BY <1>5, StartInv
  <2>2. stage = "registered" /\ stage' = "pass" /\ UNCHANGED <<admitted, reference>>
    BY <1>5 DEF StartIntegration
  <2> QED BY <2>1, <2>2 DEF RunInv
<1>6. CASE StartNextPass
  <2>1. CASE \E refusal : RunFails(refusal)
    BY <2>1, RunFailsInv
  <2>2. CASE UNCHANGED <<screenVars, pixelVars>>
    BY <2>2, RunKept
  <2> QED BY <1>6, <2>1, <2>2 DEF StartNextPass
<1>7. CASE IntegrationStep
  BY <1>7, RunKept DEF IntegrationStep
<1>8. CASE PassFails
  BY <1>8, RunFailsInv DEF PassFails
<1>9. CASE AfterPass
  <2>1. CASE Integrated
    <3>1. stage' = "integrated" /\ UNCHANGED admitted
      BY <2>1 DEF Integrated
    <3> QED BY <3>1 DEF RunInv
  <2>2. CASE \E harmful \in SUBSET present :
               IntegrateAgain(CounterfactualExclusions(harmful, present, Range(reference), Panel,
                                                       Cardinality(admitted)))
    <3>1. PresentOK'
      BY <1>9, <2>2, AgainInv DEF AfterPass
    <3>2. UNCHANGED <<screenVars, reference>>
      BY <2>2 DEF IntegrateAgain
    <3> QED BY <3>1, <3>2, <1>9 DEF RunInv, AfterPass, screenVars
  <2>3. \A bad, kind : Harmful(bad, kind) \in SUBSET present
    BY DEF Harmful
  <2> QED BY <1>9, <2>1, <2>2, <2>3 DEF AfterPass
<1>10. CASE Done \/ UNCHANGED vars
  BY <1>10, RunKept DEF Done, vars
<1> QED BY <1>1, <1>2, <1>3, <1>4, <1>5, <1>6, <1>7, <1>8, <1>9, <1>10 DEF PixelNext

-----------------------------------------------------------------------------
(* The passes and the run around them, together: a pass only integrates    *)
(* Lights the run admitted.                                                *)
LEMMA PresentAreLights == ASSUME RunInv PROVE stage = "pass" => present \subseteq Lights
BY DEF RunInv, PresentOK

LEMMA RunsOfPasses == PixelSpec => [](PassInv /\ RunInv)
<1>1. PixelInit => PassInv /\ RunInv
  BY PassInvInit, RunInvInit DEF PixelInit
<1>2. PassInv /\ RunInv /\ [PixelNext]_vars => (PassInv /\ RunInv)'
  BY PassInvNext, RunInvNext, PresentAreLights
<1> QED BY <1>1, <1>2, PTL DEF PixelSpec

(* Whatever the plan, the schedule and the failures, once the staging      *)
(* directory of a pass is renamed or removed no Light job, no              *)
(* normalization fit and no group works in it (run_portable_pipeline_fits, *)
(* groups.py).                                                             *)
THEOREM StagingIsQuiet == PixelSpec => []StagingQuiet
<1>1. PassInv => StagingQuiet
  BY DEF PassInv, StagingEnds, LightsIdle, GroupsIdle, FitsIdle, StagingQuiet
<1> QED BY <1>1, RunsOfPasses, PTL

(* In no pass of a run are two groups on the Metal executor at once, and   *)
(* none is on it after the session dropped or closed it (_MetalSession,    *)
(* _group_concurrency).                                                    *)
THEOREM MetalIsExclusive == PixelSpec => []MetalExclusive
<1>1. PassInv => MetalExclusive
  <2> SUFFICES ASSUME PassInv, NEW i \in Positions, NEW j \in Positions,
                      group[i] = "metal", group[j] = "metal"
               PROVE  i = j
    BY DEF PassInv, MetalOpen, MetalExclusive
  <2>1. ~SideBySide
    BY DEF PassInv, CpuSideBySide
  <2> QED BY <2>1, OneUnderWay
<1> QED BY <1>1, RunsOfPasses, PTL

(* Whatever the gate raised, the approvals, the policy and the soft guard, *)
(* no Light with hard evidence of a defect reaches the registration unless *)
(* a reviewer kept it, and the decisions a reviewer starts from are        *)
(* accepted and keep out every Light the gate failed (_screen_lights).     *)
THEOREM DefectsAreOut == PixelSpec => []DefectsStayOut
<1>1. RunInv => DefectsStayOut
  <2> SUFFICES ASSUME RunInv PROVE DefectsStayOut
    OBVIOUS
  <2>1. stage = "admitted" /\ route # "explicit" => \A f \in admitted : Sound(f)
    BY DEF RunInv
  <2>2. stage = "gated" => Graded
    BY DEF RunInv
  <2> QED BY <2>1, <2>2, DefaultsAreAccepted DEF DefectsStayOut, Sound
<1> QED BY <1>1, RunsOfPasses, PTL

(* The trusted masters are bound to the Lights of the pass.                *)
ManifestInv == stage = "pass" => manifest = Captured(request.mode, present)

(* What the manifest and its Lights are made from changes only where a     *)
(* pass is about to start.                                                 *)
ManifestRests == UNCHANGED <<stage, manifest, request, present, landing, library, recipe>>

LEMMA ManifestSteps ==
  ASSUME [PixelNext]_vars, stage' = "pass"
  PROVE  StartIntegration \/ (\E removed : stage = "pass" /\ IntegrateAgain(removed)) \/ ManifestRests
<1>1. CASE PrepareRun
  <2>1. ~ \E refusal : RunFails(refusal)
    BY DEF RunFails
  <2>2. CASE UNCHANGED screenVars /\ UNCHANGED <<library, recipe, request, present, landing, manifest>>
    BY <2>2 DEF ManifestRests, screenVars
  <2> QED BY <1>1, <2>1, <2>2 DEF PrepareRun
<1>2. CASE ScreenStep
  <2>1. UNCHANGED pixelVars
    BY <1>2 DEF ScreenStep
  <2>2. CASE MeasureStep
    BY <2>1, <2>2 DEF MeasureStep, ManifestRests, pixelVars, screenVars
  <2>3. ~CollectMeasurements /\ ~AnalyzeAndGate
    BY DEF CollectMeasurements, AnalyzeAndGate
  <2>4. ~Admit
    BY DEF Admit, AdmitWith, AdmitBy, Fail
  <2> QED BY <1>2, <2>2, <2>3, <2>4 DEF ScreenStep
<1>3. ~BuildRegistrationMasters
  BY DEF BuildRegistrationMasters, RunFails
<1>4. ~RegisterLights
  BY DEF RegisterLights, RunFails
<1>5. CASE StartNextPass
  <2>1. ~ \E refusal : RunFails(refusal)
    BY DEF RunFails
  <2>2. UNCHANGED <<screenVars, pixelVars>>
    BY <1>5, <2>1 DEF StartNextPass
  <2> QED BY <2>2 DEF ManifestRests, screenVars, pixelVars
<1>6. CASE IntegrationStep
  BY <1>6 DEF IntegrationStep, ManifestRests, screenVars, pixelVars
<1>7. ~PassFails
  BY DEF PassFails, RunFails
<1>8. CASE AfterPass
  BY <1>8 DEF AfterPass, Integrated
<1>9. CASE Done \/ UNCHANGED vars
  BY <1>9 DEF Done, vars, screenVars, pixelVars, ManifestRests
<1> QED BY <1>1, <1>2, <1>3, <1>4, <1>5, <1>6, <1>7, <1>8, <1>9 DEF PixelNext

LEMMA ManifestInvNext == ASSUME ManifestInv, [PixelNext]_vars PROVE ManifestInv'
<1> SUFFICES ASSUME stage' = "pass" PROVE ManifestInv'
  BY DEF ManifestInv
<1>1. CASE StartIntegration
  <2>1. PICK start \in Starts : request' = start.request /\ manifest' = Captured(start.request.mode, admitted)
    BY <1>1 DEF StartIntegration
  <2>2. present' = admitted /\ UNCHANGED <<library, recipe>>
    BY <1>1 DEF StartIntegration
  <2> QED BY <2>1, <2>2 DEF ManifestInv, Captured, TrustsMasters, Supply
<1>2. ASSUME NEW removed, stage = "pass", IntegrateAgain(removed) PROVE ManifestInv'
  BY <1>2 DEF ManifestInv, IntegrateAgain, Captured, TrustsMasters, Supply
<1>3. CASE ManifestRests
  BY <1>3 DEF ManifestInv, ManifestRests, Captured, TrustsMasters, Supply
<1> QED BY <1>1, <1>2, <1>3, ManifestSteps

LEMMA ManifestsAreBound == PixelSpec => []ManifestInv
<1>1. PixelInit => ManifestInv
  BY DEF PixelInit, ScreenInit, ManifestInv
<1> QED BY <1>1, ManifestInvNext, PTL DEF PixelSpec

(* However many passes, a run that integrates again keeps two Lights in    *)
(* each panel and its normalization references, excludes no more than the  *)
(* soft guard allows of the Lights it started with, needs no master the    *)
(* registration did not make, and trusts masters only for the Lights it    *)
(* reads (_integrate_admitted_lights).                                     *)
THEOREM ReintegrationIsSound == PixelSpec => []ReintegrationSound
<1>1. RunInv /\ ManifestInv => ReintegrationSound
  <2> SUFFICES ASSUME RunInv, ManifestInv, stage = "pass", step = "idle", pass > 1
               PROVE  /\ Range(reference) \subseteq present
                      /\ \A f \in admitted : Cardinality({g \in present : Panel[g] = Panel[f]}) >= 2
                      /\ 100 * Cardinality(admitted \ present) <= SoftGuard * Cardinality(admitted)
                      /\ RawUsed(Matched(present)) \subseteq RawUsed(Matched(admitted))
                      /\ Trusted => manifest = present
    BY DEF ReintegrationSound
  <2>1. PresentOK
    BY DEF RunInv
  <2>2. RawUsed(Matched(present)) \subseteq RawUsed(Matched(admitted))
    BY <2>1, MastersCovered DEF PresentOK
  <2>3. Trusted => manifest = present
    BY DEF ManifestInv, Trusted, Captured
  <2> QED BY <2>1, <2>2, <2>3 DEF PresentOK
<1> QED BY <1>1, RunsOfPasses, ManifestsAreBound, PTL

-----------------------------------------------------------------------------
(* A group reduced on Metal (integrate_registered_group).  Tiles are       *)
(* written, submitted and prepared in order, so the three queues are       *)
(* consecutive runs of numbers: the tiles up to w are written, the next p  *)
(* are with the GPU, the next q with the readers.                          *)

Run(a, n) == [i \in 1..n |-> a + i]

LEMMA RunIs ==
  ASSUME NEW a \in Int, NEW n \in Nat
  PROVE  /\ Run(a, n) \in Seq(Int) /\ Len(Run(a, n)) = n
         /\ (Run(a, n) = <<>> <=> n = 0)
         /\ n > 0 => /\ Head(Run(a, n)) = a + 1 /\ Last(Run(a, n)) = a + n
                     /\ Tail(Run(a, n)) = Run(a + 1, n - 1)
         /\ Append(Run(a, n), a + n + 1) = Run(a, n + 1)
<1>1. Run(a, n) \in Seq(Int) /\ Len(Run(a, n)) = n /\ \A i \in 1..n : Run(a, n)[i] = a + i
  BY DEF Run
<1>2. Run(a, n) = <<>> <=> n = 0
  BY <1>1, EmptySeq
<1>3. ASSUME n > 0
      PROVE  /\ Head(Run(a, n)) = a + 1 /\ Last(Run(a, n)) = a + n
             /\ Tail(Run(a, n)) = Run(a + 1, n - 1)
  <2>1. Head(Run(a, n)) = a + 1 /\ Last(Run(a, n)) = a + n
    BY <1>1, <1>2, <1>3, HeadTailProperties DEF Last
  <2>2. /\ Tail(Run(a, n)) \in Seq(Int) /\ Len(Tail(Run(a, n))) = n - 1
        /\ \A i \in 1..(n - 1) : Tail(Run(a, n))[i] = a + 1 + i
    BY <1>1, <1>2, <1>3, HeadTailProperties
  <2>3. /\ Run(a + 1, n - 1) \in Seq(Int) /\ Len(Run(a + 1, n - 1)) = n - 1
        /\ \A i \in 1..(n - 1) : Run(a + 1, n - 1)[i] = a + 1 + i
    BY <1>3 DEF Run
  <2>4. Tail(Run(a, n)) = Run(a + 1, n - 1)
    BY <2>2, <2>3, SeqEqual
  <2> QED BY <2>1, <2>4
<1>4. Append(Run(a, n), a + n + 1) = Run(a, n + 1)
  <2>1. /\ Append(Run(a, n), a + n + 1) \in Seq(Int) /\ Len(Append(Run(a, n), a + n + 1)) = n + 1
        /\ \A i \in 1..(n + 1) : Append(Run(a, n), a + n + 1)[i] = a + i
    BY <1>1, AppendProperties
  <2>2. /\ Run(a, n + 1) \in Seq(Int) /\ Len(Run(a, n + 1)) = n + 1
        /\ \A i \in 1..(n + 1) : Run(a, n + 1)[i] = a + i
    BY DEF Run
  <2> DEFINE s == Append(Run(a, n), a + n + 1)
             r == Run(a, n + 1)
  <2> HIDE DEF s, r
  <2>3. s \in Seq(Int) /\ r \in Seq(Int) /\ Len(s) = Len(r) /\ \A i \in 1..Len(s) : s[i] = r[i]
    BY <2>1, <2>2 DEF s, r
  <2>4. s = r
    BY <2>3, SeqEqual
  <2> QED BY <2>4 DEF s, r
<1> QED BY <1>1, <1>2, <1>3, <1>4

(* The least and the greatest of a few numbers. *)
LEMMA MinOfTwo ==
  ASSUME NEW a \in Int, NEW b \in Int
  PROVE  Min({a, b}) \in {a, b} /\ Min({a, b}) <= a /\ Min({a, b}) <= b
<1>1. \E x \in {a, b} : \A y \in {a, b} : x <= y
  OBVIOUS
<1> QED BY <1>1 DEF Min

LEMMA MinOfThree ==
  ASSUME NEW a \in Int, NEW b \in Int, NEW c \in Int
  PROVE  /\ Min({a, b, c}) \in {a, b, c}
         /\ Min({a, b, c}) <= a /\ Min({a, b, c}) <= b /\ Min({a, b, c}) <= c
<1>1. \E x \in {a, b, c} : \A y \in {a, b, c} : x <= y
  OBVIOUS
<1> QED BY <1>1 DEF Min

LEMMA MaxOfTwo ==
  ASSUME NEW a \in Int, NEW b \in Int
  PROVE  Max({a, b}) \in {a, b} /\ Max({a, b}) >= a /\ Max({a, b}) >= b
<1>1. \E x \in {a, b} : \A y \in {a, b} : x >= y
  OBVIOUS
<1> QED BY <1>1 DEF Max

LEMMA Monotone ==
  ASSUME NEW a \in Nat, NEW b \in Nat, NEW c \in Nat, a <= b PROVE c * a <= c * b
OBVIOUS

LEMMA DivisionFits == ASSUME NEW a \in Nat, NEW b \in Nat, b > 0 PROVE b * (a \div b) <= a
OBVIOUS

LEMMA DivisionIsNat == ASSUME NEW a \in Nat, NEW b \in Nat, b > 0 PROVE a \div b \in Nat
OBVIOUS

LEMMA DivisionAtLeastOne == ASSUME NEW a \in Nat, NEW b \in Nat, b > 0, b <= a PROVE a \div b >= 1
OBVIOUS

LEMMA BytesAre ==
  ASSUME NEW frames \in Nat, NEW workers \in Nat, NEW buffers \in Nat
  PROVE  BytesPerRow(frames, workers, buffers) \in Nat \ {0}
<1>1. 24 * workers + 14 * buffers \in Nat
  OBVIOUS
<1> DEFINE each == 24 * workers + 14 * buffers
<1> HIDE DEF each
<1>2. frames * each \in Nat
  BY <1>1 DEF each
<1>3. frames * each + 96 \in Nat \ {0}
  BY <1>2
<1> QED BY <1>3 DEF BytesPerRow, PreparationBytes, InflightBytes, FixedBytes, each

LEMMA BytesGrow ==
  ASSUME NEW frames \in Nat, NEW workers \in Nat, NEW buffers \in Nat, NEW p \in Nat, NEW q \in Nat,
         q <= workers, p <= buffers
  PROVE  BytesPerRow(frames, q, p) <= BytesPerRow(frames, workers, buffers)
<1> DEFINE a == 24 * q + 14 * p
           b == 24 * workers + 14 * buffers
<1>1. a \in Nat /\ b \in Nat /\ a <= b
  OBVIOUS
<1> HIDE DEF a, b
<1>2. frames * a \in Nat /\ frames * b \in Nat /\ frames * a <= frames * b
  BY <1>1, Monotone
<1>3. frames * a + 96 <= frames * b + 96
  BY <1>2
<1> QED BY <1>3 DEF BytesPerRow, PreparationBytes, InflightBytes, FixedBytes, a, b

Machines ==
  [workers : Nat \ {0}, buffers : Nat \ {0}, rows : Nat \ {0}, height : Nat \ {0}, budget : Nat]

LEMMA MetalWorkersAre ==
  ASSUME NEW machine \in Machines, NEW frames PROVE MetalWorkers(machine, frames) \in Nat \ {0}
<1> DEFINE S == {1} \cup {w \in 1..machine.workers :
                            BytesPerRow(frames, w, machine.buffers) * Min({machine.height, machine.rows})
                              <= machine.budget}
<1>1. machine.workers \in Nat /\ machine.workers >= 1
  BY DEF Machines
<1>2. S \subseteq 0..machine.workers /\ S # {} /\ S \subseteq Nat \ {0}
  BY <1>1
<1> SUFFICES Max(S) \in Nat \ {0}
  BY DEF MetalWorkers
<1> HIDE DEF S
<1>3. \E m \in S : \A k \in S : k <= m
  BY <1>1, <1>2, HasGreatest
<1>4. \E m \in S : \A k \in S : m >= k
  BY <1>2, <1>3
<1>5. Max(S) \in S
  BY <1>4 DEF Max
<1> QED BY <1>2, <1>5

(* The plan fits the budget, and has a tile for every worker. *)
LayoutOK(l) ==
  /\ l.tiles \in Nat \ {0} /\ l.workers \in Nat \ {0} /\ l.workers <= l.tiles
  /\ l.buffers \in Nat /\ l.rows \in Nat /\ l.frames \in Nat /\ l.budget \in Nat
  /\ l.rows * BytesPerRow(l.frames, l.workers, l.buffers) <= l.budget

LEMMA MetalLayoutOK ==
  ASSUME NEW machine \in Machines, NEW frames \in Nat, ~PlanRefused(machine, frames)
  PROVE  LayoutOK(MetalLayout(machine, frames))
<1> DEFINE l == MetalLayout(machine, frames)
           workers == MetalWorkers(machine, frames)
           bytes == BytesPerRow(frames, workers, machine.buffers)
           share == machine.budget \div bytes
           low == Min({machine.height, machine.rows, share})
           rows == Max({1, low})
           tiles == (machine.height + rows - 1) \div rows
<1>1. /\ machine.height \in Nat \ {0} /\ machine.rows \in Nat \ {0}
      /\ machine.buffers \in Nat /\ machine.budget \in Nat
  BY DEF Machines
<1>2. workers \in Nat \ {0}
  BY MetalWorkersAre
<1>3. /\ l.tiles = tiles /\ l.workers = Min({workers, tiles}) /\ l.buffers = machine.buffers
      /\ l.rows = rows /\ l.frames = frames /\ l.budget = machine.budget
  BY DEF MetalLayout
<1> HIDE DEF l, workers
<1>4. bytes \in Nat \ {0} /\ bytes <= machine.budget
  <2>1. bytes \in Nat \ {0}
    BY <1>1, <1>2, BytesAre
  <2>2. ~(bytes > machine.budget)
    BY DEF PlanRefused, workers
  <2> HIDE DEF bytes
  <2> QED BY <1>1, <2>1, <2>2
<1> HIDE DEF bytes
<1>5. share \in Nat /\ share >= 1 /\ bytes * share <= machine.budget
  BY <1>1, <1>4, DivisionIsNat, DivisionAtLeastOne, DivisionFits
<1> HIDE DEF share
<1>6. low \in Nat /\ low >= 1 /\ low <= share
  <2>1. machine.height \in Int /\ machine.rows \in Int /\ share \in Int
    BY <1>1, <1>5
  <2>2. low \in {machine.height, machine.rows, share} /\ low <= share
    BY <2>1, MinOfThree, Zenon
  <2> HIDE DEF low
  <2>3. \A x \in {machine.height, machine.rows, share} : x \in Nat /\ x >= 1
    BY <1>1, <1>5
  <2> QED BY <2>2, <2>3
<1> HIDE DEF low
<1>7. rows \in Nat /\ rows >= 1 /\ rows <= share
  <2>1. 1 \in Int /\ low \in Int
    BY <1>6
  <2>2. rows \in {1, low} /\ rows >= 1
    BY <2>1, MaxOfTwo, Zenon
  <2> HIDE DEF rows
  <2> QED BY <1>5, <1>6, <2>2
<1> HIDE DEF rows
<1>8. tiles \in Nat /\ tiles >= 1
  <2>1. machine.height + rows - 1 \in Nat /\ rows <= machine.height + rows - 1
    BY <1>1, <1>7
  <2> QED BY <1>7, <2>1, DivisionIsNat, DivisionAtLeastOne
<1> HIDE DEF tiles
<1>9. l.workers \in Nat \ {0} /\ l.workers <= workers /\ l.workers <= tiles
  <2>1. workers \in Int /\ tiles \in Int
    BY <1>2, <1>8
  <2> DEFINE least == Min({workers, tiles})
  <2>2. least \in {workers, tiles} /\ least <= workers /\ least <= tiles
    BY <2>1, MinOfTwo, Zenon
  <2>3. l.workers = least
    BY <1>3
  <2> HIDE DEF least
  <2> QED BY <1>2, <1>8, <2>2, <2>3
<1>10. rows * BytesPerRow(frames, l.workers, machine.buffers) <= machine.budget
  <2> DEFINE fewer == BytesPerRow(frames, l.workers, machine.buffers)
  <2>1. fewer \in Nat /\ fewer <= bytes
    <3>1. /\ workers \in Nat /\ l.workers \in Nat /\ l.workers <= workers
          /\ machine.buffers \in Nat /\ machine.buffers <= machine.buffers
      BY <1>1, <1>2, <1>9
    <3>2. fewer \in Nat \ {0}
      BY <3>1, BytesAre, Zenon
    <3>3. fewer <= bytes
      BY <3>1, BytesGrow, Zenon DEF bytes
    <3> QED BY <3>2, <3>3
  <2> HIDE DEF fewer
  <2>2. rows * fewer \in Nat /\ rows * bytes \in Nat /\ rows * fewer <= rows * bytes
    BY <1>4, <1>7, <2>1, Monotone
  <2>3. bytes * rows <= bytes * share /\ bytes * share \in Nat /\ bytes * rows = rows * bytes
    BY <1>4, <1>5, <1>7, Monotone
  <2>4. rows * fewer <= machine.budget
    BY <1>1, <1>5, <2>2, <2>3
  <2> QED BY <2>4 DEF fewer
<1>11. LayoutOK(l)
  BY <1>1, <1>3, <1>7, <1>8, <1>9, <1>10 DEF LayoutOK
<1> QED BY <1>11 DEF l

-----------------------------------------------------------------------------
FlowStates      == {"idle", "tiles", "joining", "published", "rejected", "overwritten", "raised"}
SamplingStates  == {"none", "running", "done", "rejected", "raised"}
ReductionStates == {"none", "running", "exact", "drift", "miscount", "error"}
Verdicts        == {"", "rejected", "raised"}

ReductionTypeOK ==
  /\ flow \in FlowStates /\ verdict \in Verdicts /\ layout.tiles \in Nat
  /\ sampling \in [Tiles -> SamplingStates] /\ reducing \in [Tiles -> ReductionStates]

Fine(t) == reducing[t] \in {"exact", "drift"} /\ (Rechecked(t) => reducing[t] = "exact")

InOrder(w, p, q) ==
  /\ written = Run(0, w) /\ pending = Run(w, p) /\ prepared = Run(w + p, q)
  /\ w + p + q <= layout.tiles /\ (q = 0 => w + p = layout.tiles)
  /\ q <= layout.workers /\ p <= layout.buffers
  /\ \A t \in Tiles : t <= w => Fine(t)
  /\ \A t \in Tiles : w < t /\ t <= w + p => reducing[t] # "none"

Rested ==
  layout = NoLayout /\ prepared = <<>> /\ sampling = <<>> /\ pending = <<>> /\ reducing = <<>>
    /\ written = <<>> /\ verdict = ""

ReductionInv ==
  /\ ReductionTypeOK
  /\ \E w, p, q \in Nat : InOrder(w, p, q)
  /\ flow = "idle" => Rested
  /\ flow = "tiles" => LayoutOK(layout) /\ verdict = ""
  /\ (flow = "joining" /\ verdict = "") \/ flow = "published" => Len(written) = layout.tiles
  /\ flow \in Endings => Samplers = {} /\ Reducers = {}

LEMMA RestedInv ==
  Rested /\ flow \in {"idle", "rejected", "raised"} => ReductionInv
<1> SUFFICES ASSUME Rested, flow \in {"idle", "rejected", "raised"} PROVE ReductionInv
  OBVIOUS
<1>1. layout.tiles = 0 /\ layout.workers = 1 /\ layout.buffers = 1
  BY DEF Rested, NoLayout
<1>2. Tiles = {}
  BY <1>1 DEF Tiles
<1>3. ReductionTypeOK
  <2>1. sampling \in [{} -> SamplingStates] /\ reducing \in [{} -> ReductionStates]
    <3>1. sampling = <<>> /\ reducing = <<>>
      BY DEF Rested
    <3> QED BY <3>1
  <2>2. verdict \in Verdicts /\ flow \in FlowStates
    BY DEF Rested, FlowStates, Verdicts
  <2> QED BY <1>1, <1>2, <2>1, <2>2 DEF ReductionTypeOK
<1>4. InOrder(0, 0, 0)
  <2>1. Run(0, 0) = <<>> /\ Run(0 + 0, 0) = <<>>
    BY RunIs
  <2>2. written = <<>> /\ pending = <<>> /\ prepared = <<>>
    BY DEF Rested
  <2> QED BY <1>1, <1>2, <2>1, <2>2 DEF InOrder
<1>5. Samplers = {} /\ Reducers = {}
  BY <1>2 DEF Samplers, Reducers
<1>6. \E w, p, q \in Nat : InOrder(w, p, q)
  BY <1>4
<1> QED BY <1>3, <1>5, <1>6 DEF ReductionInv

LEMMA RestedNext ==
  (Rested /\ flow \in {"idle", "rejected", "raised"})' => ReductionInv'
BY RestedInv, PTL

LEMMA StartReductionInv ==
  ASSUME ReductionInv, NEW machine \in Machines, NEW frames \in Nat, StartReduction(machine, frames)
  PROVE  ReductionInv'
<1>1. Rested
  BY DEF ReductionInv, StartReduction
<1>2. CASE flow' \in {"rejected", "raised"} /\ UNCHANGED <<layout, prepared, sampling, reducing>>
  <2>1. Rested'
    BY <1>1, <1>2 DEF Rested, StartReduction
  <2>2. (Rested /\ flow \in {"idle", "rejected", "raised"})'
    BY <1>2, <2>1
  <2> QED BY <2>2, RestedNext
<1>3. CASE /\ ~PlanRefused(machine, frames) /\ flow' = "tiles"
           /\ layout' = MetalLayout(machine, frames)
           /\ prepared' = [t \in 1..layout'.workers |-> t]
           /\ sampling' = [t \in 1..layout'.tiles |-> IF t <= layout'.workers THEN "running" ELSE "none"]
           /\ reducing' = [t \in 1..layout'.tiles |-> "none"]
  <2>1. LayoutOK(layout')
    BY <1>3, MetalLayoutOK
  <2>2. pending' = <<>> /\ written' = <<>> /\ verdict' = ""
    BY <1>1 DEF Rested, StartReduction
  <2>3. ReductionTypeOK'
    <3>1. layout'.tiles \in Nat /\ Tiles' = 1..layout'.tiles
      BY <2>1 DEF LayoutOK, Tiles
    <3>2. /\ "running" \in SamplingStates /\ "none" \in SamplingStates /\ "none" \in ReductionStates
          /\ "" \in Verdicts /\ "tiles" \in FlowStates
      BY DEF SamplingStates, ReductionStates, Verdicts, FlowStates
    <3>3. sampling' \in [Tiles' -> SamplingStates]
      BY <1>3, <3>1, <3>2
    <3>4. reducing' \in [Tiles' -> ReductionStates]
      BY <1>3, <3>1, <3>2
    <3> QED BY <1>3, <2>2, <3>1, <3>2, <3>3, <3>4 DEF ReductionTypeOK
  <2>4. PICK n \in Nat : n = layout'.workers
    BY <2>1 DEF LayoutOK
  <2>5. InOrder(0, 0, n)'
    <3>1. n \in Nat \ {0} /\ n <= layout'.tiles /\ layout'.buffers \in Nat /\ layout'.tiles \in Nat
      BY <2>1, <2>4 DEF LayoutOK
    <3>2. prepared' = [t \in 1..n |-> t] /\ Run(0 + 0, n) = [t \in 1..n |-> t]
      BY <1>3, <2>4, <3>1 DEF Run
    <3>3. Run(0, 0) = <<>>
      BY RunIs
    <3>4. \A t \in Tiles' : ~(t <= 0) /\ ~(0 < t /\ t <= 0 + 0)
      BY <3>1 DEF Tiles
    <3>5. written' = Run(0, 0) /\ pending' = Run(0, 0) /\ prepared' = Run(0 + 0, n)
      BY <2>2, <3>2, <3>3
    <3>6. /\ 0 + 0 + n <= layout'.tiles /\ ~(n = 0) /\ n <= layout'.workers /\ 0 <= layout'.buffers
      BY <2>4, <3>1
    <3> QED BY <3>4, <3>5, <3>6 DEF InOrder
  <2>6. \E w, p, q \in Nat : InOrder(w, p, q)'
    BY <2>4, <2>5
  <2> QED BY <1>3, <2>1, <2>2, <2>3, <2>6 DEF ReductionInv, Endings
<1> QED BY <1>2, <1>3 DEF StartReduction

LEMMA RestedIsEmpty == ASSUME Rested PROVE Tiles = {}
<1>1. layout.tiles = 0
  BY DEF Rested, NoLayout
<1> QED BY <1>1 DEF Tiles

LEMMA EndPreparationInv == ASSUME ReductionInv, EndPreparation PROVE ReductionInv'
<1>1. PICK t \in Samplers : \E outcome \in {"done", "rejected", "raised"} :
        sampling' = [sampling EXCEPT ![t] = outcome]
  BY DEF EndPreparation
<1>2. PICK outcome \in {"done", "rejected", "raised"} : sampling' = [sampling EXCEPT ![t] = outcome]
  BY <1>1
<1>3. UNCHANGED <<flow, layout, prepared, pending, reducing, written, verdict>>
  BY DEF EndPreparation
<1>4. Samplers # {} /\ flow \notin Endings
  BY DEF ReductionInv
<1>5. Tiles' = Tiles
  BY <1>3 DEF Tiles
<1>6. ReductionTypeOK'
  <2>1. outcome \in SamplingStates /\ sampling \in [Tiles -> SamplingStates]
    BY DEF SamplingStates, ReductionInv, ReductionTypeOK
  <2>2. sampling' \in [Tiles -> SamplingStates]
    BY <1>2, <2>1
  <2> QED BY <1>3, <1>5, <2>2 DEF ReductionInv, ReductionTypeOK
<1>7. (\E w, p, q \in Nat : InOrder(w, p, q))'
  <2>1. PICK w \in Nat, p \in Nat, q \in Nat : InOrder(w, p, q)
    BY DEF ReductionInv
  <2>2. InOrder(w, p, q)'
    BY <1>3, <1>5, <2>1 DEF InOrder, Fine, Rechecked
  <2> QED BY <2>2
<1>8. flow # "idle"
  <2>1. Rested => Tiles = {}
    BY RestedIsEmpty
  <2>2. Tiles # {}
    BY <1>4 DEF Samplers
  <2> QED BY <2>1, <2>2 DEF ReductionInv
<1> QED BY <1>3, <1>4, <1>6, <1>7, <1>8 DEF ReductionInv

LEMMA EndTileInv == ASSUME ReductionInv, EndTile PROVE ReductionInv'
<1>1. PICK t \in Reducers : \E outcome \in {"exact", "drift", "miscount", "error"} :
        reducing' = [reducing EXCEPT ![t] = outcome]
  BY DEF EndTile
<1>2. PICK outcome \in {"exact", "drift", "miscount", "error"} : reducing' = [reducing EXCEPT ![t] = outcome]
  BY <1>1
<1>3. UNCHANGED <<flow, layout, prepared, pending, sampling, written, verdict>>
  BY DEF EndTile
<1>4. Reducers # {} /\ flow \notin Endings
  BY DEF ReductionInv
<1>5. Tiles' = Tiles
  BY <1>3 DEF Tiles
<1>6. outcome \in ReductionStates /\ outcome # "none" /\ reducing \in [Tiles -> ReductionStates]
      /\ t \in Tiles /\ reducing[t] = "running"
  BY <1>1 DEF ReductionStates, ReductionInv, ReductionTypeOK, Reducers
<1>7. reducing' \in [Tiles -> ReductionStates] /\ \A s \in Tiles : s # t => reducing'[s] = reducing[s]
  BY <1>2, <1>6
<1>8. reducing'[t] = outcome
  BY <1>2, <1>6
<1>9. ReductionTypeOK'
  BY <1>3, <1>5, <1>7 DEF ReductionInv, ReductionTypeOK
<1>10. (\E w, p, q \in Nat : InOrder(w, p, q))'
  <2>1. PICK w \in Nat, p \in Nat, q \in Nat : InOrder(w, p, q)
    BY DEF ReductionInv
  <2>2. ~(t <= w)
    <3>1. t <= w => Fine(t)
      BY <1>6, <2>1 DEF InOrder
    <3> QED BY <1>6, <3>1 DEF Fine
  <2>3. \A s \in Tiles : s <= w => Fine(s)'
    <3> SUFFICES ASSUME NEW s \in Tiles, s <= w PROVE Fine(s)'
      OBVIOUS
    <3>1. Fine(s) /\ reducing'[s] = reducing[s]
      BY <1>7, <2>1, <2>2 DEF InOrder
    <3> QED BY <1>3, <3>1 DEF Fine, Rechecked
  <2>4. \A s \in Tiles : w < s /\ s <= w + p => reducing'[s] # "none"
    BY <1>6, <1>7, <1>8, <2>1 DEF InOrder
  <2>5. InOrder(w, p, q)'
    BY <1>3, <1>5, <2>1, <2>3, <2>4 DEF InOrder
  <2> QED BY <2>5
<1>11. flow # "idle"
  <2>1. Rested => Tiles = {}
    BY RestedIsEmpty
  <2> QED BY <1>6, <2>1 DEF ReductionInv
<1> QED BY <1>3, <1>4, <1>9, <1>10, <1>11 DEF ReductionInv

LEMMA LeaveTilesInv ==
  ASSUME ReductionInv, flow = "tiles", NEW ending \in {"rejected", "raised"}, Leave(ending),
         UNCHANGED <<layout, prepared, sampling, pending, reducing, written>>
  PROVE  ReductionInv'
<1>1. flow' = "joining" /\ verdict' = ending
  BY DEF Leave
<1>2. ReductionTypeOK'
  BY <1>1 DEF ReductionInv, ReductionTypeOK, FlowStates, Verdicts, Tiles
<1>3. (\E w, p, q \in Nat : InOrder(w, p, q))'
  <2>1. PICK w \in Nat, p \in Nat, q \in Nat : InOrder(w, p, q)
    BY DEF ReductionInv
  <2>2. InOrder(w, p, q)'
    BY <2>1 DEF InOrder, Fine, Rechecked, Tiles
  <2> QED BY <2>2
<1> QED BY <1>1, <1>2, <1>3 DEF ReductionInv, Endings

LEMMA TakePreparationInv == ASSUME ReductionInv, TakePreparation PROVE ReductionInv'
<1>1. flow = "tiles" /\ prepared # <<>> /\ Len(pending) < layout.buffers /\ UNCHANGED <<layout, written>>
  BY DEF TakePreparation, MayTake
<1>2. PICK w \in Nat, p \in Nat, q \in Nat : InOrder(w, p, q)
  BY DEF ReductionInv
<1> DEFINE t == Head(prepared)
           next == Last(prepared) + 1
<1>3. /\ q > 0 /\ p < layout.buffers
      /\ t = w + p + 1 /\ next = w + p + q + 1 /\ Tail(prepared) = Run(w + p + 1, q - 1)
  <2>1. prepared = Run(w + p, q) /\ pending = Run(w, p)
    BY <1>2 DEF InOrder
  <2>2. Len(pending) = p /\ q # 0
    BY <1>1, <2>1, RunIs
  <2>3. /\ Head(Run(w + p, q)) = w + p + 1 /\ Last(Run(w + p, q)) = w + p + q
        /\ Tail(Run(w + p, q)) = Run(w + p + 1, q - 1)
    <3>1. w + p \in Int /\ q > 0
      BY <2>2
    <3> QED BY <3>1, RunIs
  <2>4. Last(prepared) + 1 = w + p + q + 1
    BY <2>1, <2>3
  <2> QED BY <1>1, <2>1, <2>2, <2>3, <2>4
<1> HIDE DEF t, next
<1>4. ReductionTypeOK /\ layout.tiles \in Nat /\ t \in Tiles
  <2>1. ReductionTypeOK /\ layout.tiles \in Nat
    BY DEF ReductionInv, ReductionTypeOK
  <2>2. w + p + q <= layout.tiles
    BY <1>2 DEF InOrder
  <2>3. t \in 1..layout.tiles
    BY <1>3, <2>1, <2>2
  <2> QED BY <2>1, <2>3 DEF Tiles
<1>5. layout.buffers \in Nat /\ layout.workers \in Nat
  BY <1>1 DEF ReductionInv, LayoutOK
<1>6. CASE sampling[t] \in {"rejected", "raised"} /\ Leave(sampling[t])
           /\ UNCHANGED <<prepared, sampling, pending, reducing>>
  BY <1>1, <1>6, LeaveTilesInv
<1>7. CASE /\ prepared' = IF next \in Tiles THEN Append(Tail(prepared), next) ELSE Tail(prepared)
           /\ sampling' = IF next \in Tiles THEN [sampling EXCEPT ![next] = "running"] ELSE sampling
           /\ pending' = Append(pending, t) /\ reducing' = [reducing EXCEPT ![t] = "running"]
           /\ UNCHANGED <<flow, verdict>>
  <2>1. Tiles' = Tiles
    BY <1>1 DEF Tiles
  <2>2. sampling' \in [Tiles -> SamplingStates]
    <3>1. sampling \in [Tiles -> SamplingStates] /\ "running" \in SamplingStates
      BY <1>4 DEF ReductionTypeOK, SamplingStates
    <3> QED BY <1>7, <3>1
  <2>3. reducing' \in [Tiles -> ReductionStates] /\ reducing'[t] = "running"
        /\ \A s \in Tiles : s # t => reducing'[s] = reducing[s]
    <3>1. reducing \in [Tiles -> ReductionStates] /\ "running" \in ReductionStates
      BY <1>4 DEF ReductionTypeOK, ReductionStates
    <3> QED BY <1>4, <1>7, <3>1
  <2>4. ReductionTypeOK'
    BY <1>1, <1>4, <1>7, <2>1, <2>2, <2>3 DEF ReductionTypeOK
  <2>5. pending' = Run(w, p + 1)
    <3>1. pending = Run(w, p) /\ pending' = Append(pending, w + p + 1)
      BY <1>2, <1>3, <1>7 DEF InOrder
    <3>2. w \in Int /\ p \in Nat
      OBVIOUS
    <3>3. Append(Run(w, p), w + p + 1) = Run(w, p + 1)
      BY <3>2, RunIs
    <3> QED BY <3>1, <3>3
  <2>6. \A s \in Tiles : s <= w => Fine(s)'
    <3> SUFFICES ASSUME NEW s \in Tiles, s <= w PROVE Fine(s)'
      OBVIOUS
    <3>1. s # t
      BY <1>3 DEF Tiles
    <3>2. Fine(s) /\ reducing'[s] = reducing[s]
      BY <1>2, <2>3, <3>1 DEF InOrder
    <3> QED BY <1>1, <3>2 DEF Fine, Rechecked
  <2>7. \A s \in Tiles : w < s /\ s <= w + (p + 1) => reducing'[s] # "none"
    <3> SUFFICES ASSUME NEW s \in Tiles, w < s, s <= w + (p + 1), s # t PROVE reducing'[s] # "none"
      BY <2>3
    <3>1. s <= w + p
      BY <1>3 DEF Tiles
    <3>2. reducing[s] # "none"
      BY <1>2, <3>1 DEF InOrder
    <3> QED BY <2>3, <3>2
  <2>8. written' = Run(0, w) /\ w + p + q <= layout.tiles /\ q <= layout.workers
        /\ layout' = layout
    BY <1>1, <1>2 DEF InOrder
  <2>9. CASE next \in Tiles
    <3>1. prepared' = Run(w + (p + 1), q)
      <4>1. prepared' = Append(Run(w + p + 1, q - 1), (w + p + 1) + (q - 1) + 1)
        <5>1. next = (w + p + 1) + (q - 1) + 1
          BY <1>3
        <5>2. prepared' = Append(Run(w + p + 1, q - 1), next)
          BY <1>3, <1>7, <2>9
        <5> QED BY <5>1, <5>2
      <4>2. w + p + 1 \in Int /\ q - 1 \in Nat /\ (q - 1) + 1 = q /\ w + p + 1 = w + (p + 1)
        BY <1>3
      <4>3. Append(Run(w + p + 1, q - 1), (w + p + 1) + (q - 1) + 1) = Run(w + p + 1, (q - 1) + 1)
        BY <4>2, RunIs
      <4> QED BY <4>1, <4>2, <4>3
    <3>2. /\ w + (p + 1) + q <= layout'.tiles /\ (q = 0 => w + (p + 1) = layout'.tiles)
          /\ q <= layout'.workers /\ p + 1 <= layout'.buffers
      <4>1. next <= layout.tiles
        BY <1>4, <2>9 DEF Tiles
      <4>2. w + (p + 1) + q <= layout.tiles /\ p + 1 <= layout.buffers /\ ~(q = 0)
        BY <1>3, <1>4, <1>5, <4>1
      <4> QED BY <2>8, <4>2
    <3>3. InOrder(w, p + 1, q)'
      BY <2>1, <2>5, <2>6, <2>7, <2>8, <3>1, <3>2 DEF InOrder
    <3>4. (\E ww, pp, qq \in Nat : InOrder(ww, pp, qq))'
      BY <3>3
    <3> QED BY <1>1, <1>7, <2>4, <3>4 DEF ReductionInv, Endings
  <2>10. CASE next \notin Tiles
    <3>1. prepared' = Run(w + (p + 1), q - 1)
      BY <1>3, <1>7, <2>10
    <3>2. /\ w + (p + 1) + (q - 1) <= layout'.tiles /\ (q - 1 = 0 => w + (p + 1) = layout'.tiles)
          /\ q - 1 <= layout'.workers /\ p + 1 <= layout'.buffers
      <4>1. ~(next <= layout.tiles)
        BY <1>3, <1>4, <2>10 DEF Tiles
      <4>2. w + (p + 1) + (q - 1) = layout.tiles /\ p + 1 <= layout.buffers
        BY <1>3, <1>4, <1>5, <2>8, <4>1
      <4>3. q - 1 = 0 => w + (p + 1) = layout.tiles
        BY <4>2
      <4>4. q - 1 <= layout.workers
        BY <1>5, <2>8
      <4>5. w + (p + 1) + (q - 1) <= layout.tiles
        BY <1>4, <4>2
      <4> QED BY <2>8, <4>2, <4>3, <4>4, <4>5
    <3>3. InOrder(w, p + 1, q - 1)'
      BY <2>1, <2>5, <2>6, <2>7, <2>8, <3>1, <3>2 DEF InOrder
    <3>4. (\E ww, pp, qq \in Nat : InOrder(ww, pp, qq))'
      <4>1. q - 1 \in Nat
        BY <1>3
      <4> QED BY <3>3, <4>1
    <3> QED BY <1>1, <1>7, <2>4, <3>4 DEF ReductionInv, Endings
  <2> QED BY <2>9, <2>10
<1> QED BY <1>6, <1>7 DEF TakePreparation, t, next

LEMMA ConsumeTileInv == ASSUME ReductionInv, ConsumeTile PROVE ReductionInv'
<1>1. /\ flow = "tiles" /\ pending # <<>> /\ UNCHANGED <<layout, prepared, sampling, reducing>>
      /\ \/ Leave("rejected") /\ UNCHANGED <<pending, written>>
         \/ /\ reducing[Head(pending)] # "running" /\ ~TileRefused(Head(pending))
            /\ written' = Append(written, Head(pending)) /\ pending' = Tail(pending)
            /\ UNCHANGED <<flow, verdict>>
  BY DEF ConsumeTile
<1>2. CASE Leave("rejected") /\ UNCHANGED <<pending, written>>
  BY <1>1, <1>2, LeaveTilesInv
<1>3. CASE /\ reducing[Head(pending)] # "running" /\ ~TileRefused(Head(pending))
           /\ written' = Append(written, Head(pending)) /\ pending' = Tail(pending)
           /\ UNCHANGED <<flow, verdict>>
  <2>1. PICK w \in Nat, p \in Nat, q \in Nat : InOrder(w, p, q)
    BY DEF ReductionInv
  <2>2. written = Run(0, w) /\ pending = Run(w, p) /\ prepared = Run(w + p, q)
    BY <2>1 DEF InOrder
  <2>3. p > 0
    BY <1>1, <2>2, RunIs
  <2>4. Head(pending) = w + 1 /\ Tail(pending) = Run(w + 1, p - 1)
    <3>1. w \in Int
      OBVIOUS
    <3>2. Head(Run(w, p)) = w + 1 /\ Tail(Run(w, p)) = Run(w + 1, p - 1)
      BY <2>3, <3>1, RunIs
    <3> QED BY <2>2, <3>2
  <2>5. /\ reducing[w + 1] # "running" /\ ~TileRefused(w + 1)
        /\ written' = Append(Run(0, w), w + 1) /\ pending' = Run(w + 1, p - 1)
    BY <1>3, <2>2, <2>4
  <2>6. Append(Run(0, w), 0 + w + 1) = Run(0, w + 1)
    <3>1. 0 \in Int
      OBVIOUS
    <3> QED BY <3>1, RunIs
  <2>7. /\ written' = Run(0, w + 1) /\ w + 1 + (p - 1) = w + p /\ p - 1 \in Nat /\ w + 1 \in Nat
        /\ prepared' = Run(w + 1 + (p - 1), q)
    <3>1. 0 + w + 1 = w + 1 /\ w + 1 + (p - 1) = w + p /\ p - 1 \in Nat /\ w + 1 \in Nat
      BY <2>3
    <3> QED BY <1>1, <2>2, <2>5, <2>6, <3>1
  <2>8. ReductionTypeOK /\ layout.tiles \in Nat /\ layout.buffers \in Nat
    BY <1>1 DEF ReductionInv, ReductionTypeOK, LayoutOK
  <2>9. w + 1 \in Tiles
    <3>1. w + p + q <= layout.tiles
      BY <2>1 DEF InOrder
    <3>2. w + 1 \in 1..layout.tiles
      BY <2>3, <2>8, <3>1
    <3> QED BY <3>2 DEF Tiles
  <2>10. Fine(w + 1)
    <3>1. w < w + 1 /\ w + 1 <= w + p
      BY <2>3
    <3>2. reducing[w + 1] # "none"
      BY <2>1, <2>9, <3>1 DEF InOrder
    <3>3. reducing[w + 1] \in ReductionStates
      BY <2>8, <2>9 DEF ReductionTypeOK
    <3> QED BY <2>5, <3>2, <3>3 DEF ReductionStates, TileRefused, Fine
  <2>11. /\ Tiles' = Tiles /\ \A t \in Tiles : Fine(t) => Fine(t)'
    BY <1>1 DEF Tiles, Fine, Rechecked
  <2>12. \A t \in Tiles : t <= w + 1 => Fine(t)'
    <3> SUFFICES ASSUME NEW t \in Tiles, t <= w + 1 PROVE Fine(t)
      BY <2>11
    <3>1. t <= w \/ t = w + 1
      BY DEF Tiles
    <3> QED BY <2>1, <2>10, <3>1 DEF InOrder
  <2>13. \A t \in Tiles : w + 1 < t /\ t <= w + 1 + (p - 1) => reducing'[t] # "none"
    <3> SUFFICES ASSUME NEW t \in Tiles, w + 1 < t, t <= w + 1 + (p - 1) PROVE reducing[t] # "none"
      BY <1>1
    <3>1. w < t /\ t <= w + p
      BY DEF Tiles
    <3> QED BY <2>1, <3>1 DEF InOrder
  <2>14. /\ w + 1 + (p - 1) + q <= layout'.tiles /\ (q = 0 => w + 1 + (p - 1) = layout'.tiles)
         /\ q <= layout'.workers /\ p - 1 <= layout'.buffers
    <3>1. /\ w + p + q <= layout.tiles /\ (q = 0 => w + p = layout.tiles)
          /\ q <= layout.workers /\ p <= layout.buffers
      BY <2>1 DEF InOrder
    <3>2. p - 1 <= layout.buffers
      BY <2>8, <3>1
    <3> QED BY <1>1, <2>7, <3>1, <3>2
  <2>15. InOrder(w + 1, p - 1, q)'
    BY <2>5, <2>7, <2>11, <2>12, <2>13, <2>14 DEF InOrder
  <2>16. (\E ww, pp, qq \in Nat : InOrder(ww, pp, qq))'
    BY <2>7, <2>15
  <2>17. ReductionTypeOK'
    BY <1>1, <1>3, <2>8 DEF ReductionTypeOK, Tiles
  <2> QED BY <1>1, <1>3, <2>16, <2>17 DEF ReductionInv, Endings
<1> QED BY <1>1, <1>2, <1>3

LEMMA EndTilesInv == ASSUME ReductionInv, EndTiles PROVE ReductionInv'
<1>1. /\ flow = "tiles" /\ prepared = <<>> /\ pending = <<>> /\ flow' = "joining" /\ verdict' = ""
      /\ UNCHANGED <<layout, prepared, sampling, pending, reducing, written>>
  BY DEF EndTiles, Leave
<1>2. PICK w \in Nat, p \in Nat, q \in Nat : InOrder(w, p, q)
  BY DEF ReductionInv
<1>3. written = Run(0, w) /\ pending = Run(w, p) /\ prepared = Run(w + p, q)
      /\ (q = 0 => w + p = layout.tiles)
  BY <1>2 DEF InOrder
<1>4. p = 0 /\ q = 0
  <2>1. w \in Int /\ w + p \in Int
    OBVIOUS
  <2>2. Run(w, p) = <<>> /\ Run(w + p, q) = <<>>
    BY <1>1, <1>3
  <2>3. p = 0
    BY <2>1, <2>2, RunIs
  <2>4. q = 0
    BY <2>1, <2>2, RunIs
  <2> QED BY <2>3, <2>4
<1>5. Len(written) = layout.tiles
  <2>1. Len(written) = w
    BY <1>3, RunIs
  <2> QED BY <1>3, <1>4, <2>1
<1>6. ReductionTypeOK'
  BY <1>1 DEF ReductionInv, ReductionTypeOK, FlowStates, Verdicts, Tiles
<1>7. InOrder(w, p, q)'
  BY <1>1, <1>2 DEF InOrder, Fine, Rechecked, Tiles
<1>8. (\E ww, pp, qq \in Nat : InOrder(ww, pp, qq))'
  BY <1>7
<1> QED BY <1>1, <1>5, <1>6, <1>8 DEF ReductionInv, Endings

LEMMA JoinPoolsInv == ASSUME ReductionInv, JoinPools PROVE ReductionInv'
<1>1. /\ flow = "joining" /\ Samplers = {} /\ Reducers = {}
      /\ UNCHANGED <<layout, prepared, sampling, pending, reducing, written, verdict>>
      /\ flow' \in IF verdict # "" THEN {verdict} ELSE Endings
  BY DEF JoinPools
<1>2. verdict \in {"", "rejected", "raised"}
  BY DEF ReductionInv, ReductionTypeOK, Verdicts
<1>3. flow' \in Endings /\ flow' \in FlowStates /\ (flow' = "published" => verdict = "")
  BY <1>1, <1>2 DEF Endings, FlowStates
<1>4. ReductionTypeOK'
  BY <1>1, <1>3 DEF ReductionInv, ReductionTypeOK, Tiles
<1>5. PICK w \in Nat, p \in Nat, q \in Nat : InOrder(w, p, q)
  BY DEF ReductionInv
<1>6. InOrder(w, p, q)'
  BY <1>1, <1>5 DEF InOrder, Fine, Rechecked, Tiles
<1>7. (\E ww, pp, qq \in Nat : InOrder(ww, pp, qq))'
  BY <1>6
<1>8. Samplers' = {} /\ Reducers' = {}
  BY <1>1 DEF Samplers, Reducers, Tiles
<1>9. flow' = "published" => Len(written') = layout'.tiles
  BY <1>1, <1>3 DEF ReductionInv
<1>10. flow' \notin {"idle", "tiles", "joining"}
  BY <1>3 DEF Endings
<1> QED BY <1>4, <1>7, <1>8, <1>9, <1>10 DEF ReductionInv

LEMMA ReductionKept == ASSUME ReductionInv, UNCHANGED reductionVars PROVE ReductionInv'
<1>1. UNCHANGED <<flow, layout, prepared, sampling, pending, reducing, written, verdict>>
  BY DEF reductionVars
<1>2. PICK w \in Nat, p \in Nat, q \in Nat : InOrder(w, p, q)
  BY DEF ReductionInv
<1>3. InOrder(w, p, q)'
  BY <1>1, <1>2 DEF InOrder, Fine, Rechecked, Tiles
<1>4. (\E ww, pp, qq \in Nat : InOrder(ww, pp, qq))'
  BY <1>3
<1>5. ReductionTypeOK' /\ (Rested => Rested')
  BY <1>1 DEF ReductionInv, ReductionTypeOK, Tiles, Rested
<1>6. Samplers' = Samplers /\ Reducers' = Reducers
  BY <1>1 DEF Samplers, Reducers, Tiles
<1> QED BY <1>1, <1>4, <1>5, <1>6 DEF ReductionInv

LEMMA ResetReductionInv == ASSUME ResetReduction PROVE ReductionInv'
<1>1. (Rested /\ flow \in {"idle", "rejected", "raised"})'
  BY DEF ResetReduction, Rested
<1> QED BY <1>1, RestedNext

(* A group is reduced on a machine of the memory plan, and has as many     *)
(* frames as Lights.                                                       *)
LEMMA ReduceOnMetalInv == ASSUME ReductionInv, RunInv, stage = "pass", ReduceOnMetal PROVE ReductionInv'
<1>1. PICK i \in Positions :
        StartReduction(request.metal, Cardinality(Members(present, OutputGroups(present)[i])))
  BY DEF ReduceOnMetal
<1>2. request \in {start.request : start \in Starts} /\ present \subseteq Lights
  BY DEF RunInv, PresentOK
<1>3. request.metal \in Machines
  BY <1>2, PixelAssumption DEF Machines
<1>4. Cardinality(Members(present, OutputGroups(present)[i])) \in Nat
  <2>1. Members(present, OutputGroups(present)[i]) \in SUBSET Lights
    BY <1>2 DEF Members
  <2> QED BY <2>1, LightsAreNumbers, FS_Subset, FS_CardinalityType
<1> QED BY <1>1, <1>3, <1>4, StartReductionInv

LEMMA ReductionInvNext == ASSUME ReductionInv, RunInv, [PixelNext]_vars PROVE ReductionInv'
<1>1. CASE UNCHANGED reductionVars
  BY <1>1, ReductionKept
<1>2. CASE IntegrationStep
  <2>1. CASE HostStep /\ UNCHANGED reductionVars
    BY <1>1, <2>1
  <2>2. CASE ReduceOnMetal
    BY <1>2, <2>2, ReduceOnMetalInv DEF IntegrationStep
  <2>3. CASE TileStep
    BY <2>3, EndPreparationInv, EndTileInv, TakePreparationInv, ConsumeTileInv, EndTilesInv, JoinPoolsInv
       DEF TileStep
  <2>4. CASE EndReduction
    BY <2>4, ResetReductionInv DEF EndReduction
  <2> QED BY <1>2, <2>1, <2>2, <2>3, <2>4 DEF IntegrationStep
<1>3. CASE Done \/ UNCHANGED vars
  BY <1>1, <1>3 DEF Done, vars
<1>4. CASE PrepareRun \/ ScreenStep \/ BuildRegistrationMasters \/ RegisterLights \/ StartIntegration
           \/ StartNextPass \/ PassFails \/ AfterPass
  BY <1>1, <1>4 DEF PrepareRun, ScreenStep, BuildRegistrationMasters, RegisterLights, StartIntegration,
     StartNextPass, PassFails, AfterPass
<1> QED BY <1>2, <1>3, <1>4 DEF PixelNext

LEMMA ReductionInvInit == ASSUME PixelInit PROVE ReductionInv
<1>1. Rested /\ flow \in {"idle", "rejected", "raised"}
  BY DEF PixelInit, ReductionInit, Rested
<1> QED BY <1>1, RestedInv

LEMMA ReductionIsWhole == ASSUME ReductionInv PROVE ReductionWhole
<1>1. PICK w \in Nat, p \in Nat, q \in Nat : InOrder(w, p, q)
  BY DEF ReductionInv
<1>2. /\ written = Run(0, w) /\ pending = Run(w, p) /\ prepared = Run(w + p, q)
      /\ q <= layout.workers /\ p <= layout.buffers
      /\ \A t \in Tiles : t <= w => Fine(t)
  BY <1>1 DEF InOrder
<1>3. Len(written) = w /\ Len(pending) = p /\ Len(prepared) = q
  <2>1. w \in Int /\ w + p \in Int /\ 0 \in Int
    OBVIOUS
  <2>2. Len(Run(0, w)) = w /\ Len(Run(w, p)) = p /\ Len(Run(w + p, q)) = q
    BY <2>1, RunIs
  <2> QED BY <1>2, <2>2
<1>4. ASSUME flow = "published"
      PROVE  /\ Digested
             /\ \A t \in Tiles : reducing[t] \in {"exact", "drift"} /\ (Rechecked(t) => reducing[t] = "exact")
  <2>1. layout.tiles = w
    BY <1>3, <1>4 DEF ReductionInv
  <2>2. Digested
    <3>1. Run(0, w) = [t \in 1..w |-> t]
      BY DEF Run
    <3> QED BY <1>2, <2>1, <3>1 DEF Digested, Tiles
  <2>3. \A t \in Tiles : Fine(t)
    BY <1>2, <2>1 DEF Tiles
  <2> QED BY <2>2, <2>3 DEF Fine
<1>5. flow \in Endings => Samplers = {} /\ Reducers = {}
  BY DEF ReductionInv
<1>6. ASSUME flow = "tiles"
      PROVE  layout.rows * BytesPerRow(layout.frames, Len(prepared), Len(pending)) <= layout.budget
  <2>1. LayoutOK(layout)
    BY <1>6 DEF ReductionInv
  <2>2. /\ layout.workers \in Nat /\ layout.buffers \in Nat /\ layout.rows \in Nat /\ layout.frames \in Nat
        /\ layout.budget \in Nat
        /\ layout.rows * BytesPerRow(layout.frames, layout.workers, layout.buffers) <= layout.budget
    BY <2>1 DEF LayoutOK
  <2> DEFINE now == BytesPerRow(layout.frames, q, p)
             most == BytesPerRow(layout.frames, layout.workers, layout.buffers)
  <2>3. now \in Nat /\ most \in Nat
    BY <2>2, BytesAre
  <2>4. now <= most
    BY <1>2, <2>2, BytesGrow
  <2> HIDE DEF now, most
  <2>5. layout.rows * now \in Nat /\ layout.rows * most \in Nat /\ layout.rows * now <= layout.rows * most
    BY <2>2, <2>3, <2>4, Monotone
  <2>6. layout.rows * most <= layout.budget
    BY <2>2 DEF most
  <2>7. layout.rows * now <= layout.budget
    BY <2>2, <2>5, <2>6
  <2> QED BY <1>3, <2>7 DEF now
<1> QED BY <1>4, <1>5, <1>6 DEF ReductionWhole

(* However many tiles, readers and GPU buffers, a master reduced on Metal  *)
(* has every row, once and in order, none with counts or, where the CPU    *)
(* compares, values that are not the portable ones; both pools are joined  *)
(* before its files are published or removed; and the queues never hold    *)
(* more than the budget the memory plan was made for                       *)
(* (integrate_registered_group, _metal_memory_plan).                       *)
THEOREM ReductionsAreWhole == PixelSpec => []ReductionWhole
<1>1. PixelInit => RunInv /\ ReductionInv
  BY RunInvInit, ReductionInvInit
<1>2. RunInv /\ ReductionInv /\ [PixelNext]_vars => (RunInv /\ ReductionInv)'
  BY RunInvNext, ReductionInvNext
<1>3. ReductionInv => ReductionWhole
  BY ReductionIsWhole
<1> QED BY <1>1, <1>2, <1>3, PTL DEF PixelSpec

-----------------------------------------------------------------------------
(* The common crop (stacking/crop.py). *)

(* Induction over a predicate that is a function. *)
LEMMA Induction ==
  ASSUME NEW P, P[0], \A n \in Nat : P[n] => P[n + 1] PROVE \A n \in Nat : P[n]
<1> DEFINE T == {n \in Nat : ~P[n]}
<1> SUFFICES ASSUME T # {} PROVE FALSE
  OBVIOUS
<1>1. T \in SUBSET Nat
  OBVIOUS
<1> HIDE DEF T
<1>2. PICK x \in T : \A y \in T : x <= y
  BY <1>1, HasLeast
<1>3. x \in Nat /\ ~P[x]
  BY DEF T
<1>4. x # 0
  BY <1>3
<1>5. x - 1 \in Nat /\ x = (x - 1) + 1 /\ ~(x <= x - 1)
  BY <1>3, <1>4
<1>6. P[x - 1]
  BY <1>2, <1>5 DEF T
<1> QED
  BY <1>3, <1>5, <1>6

(* A finite set has a largest element under a transitive, irreflexive       *)
(* relation.                                                                *)
LEMMA FiniteLargest ==
  ASSUME NEW T, IsFiniteSet(T), T # {}, NEW R,
         \A a, b, c \in T : <<a, b>> \in R /\ <<b, c>> \in R => <<a, c>> \in R,
         \A a \in T : <<a, a>> \notin R
  PROVE  \E a \in T : \A b \in T : <<b, a>> \notin R
<1> DEFINE Has(n) == \A S \in SUBSET T : S # {} /\ Cardinality(S) = n =>
                       \E a \in S : \A b \in S : <<b, a>> \notin R
           P == [n \in Nat |-> Has(n)]
<1>1. Has(0)
  BY FS_Subset, FS_EmptySet
<1>2. ASSUME NEW n \in Nat, Has(n) PROVE Has(n + 1)
  <2> SUFFICES ASSUME NEW S \in SUBSET T, S # {}, Cardinality(S) = n + 1
               PROVE  \E a \in S : \A b \in S : <<b, a>> \notin R
    OBVIOUS
  <2>1. PICK c \in S : TRUE
    OBVIOUS
  <2> DEFINE U == S \ {c}
  <2>2. U \in SUBSET T /\ Cardinality(U) = n
    <3>1. IsFiniteSet(S)
      BY FS_Subset
    <3>2. Cardinality(U) = Cardinality(S) - 1
      BY <2>1, <3>1, FS_RemoveElement
    <3>3. Cardinality(U) = n
      BY <3>2
    <3> QED
      BY <3>3
  <2>3. CASE U = {}
    <3>1. S = {c}
      BY <2>3
    <3> QED
      BY <3>1
  <2>4. CASE U # {}
    <3>1. PICK a \in U : \A b \in U : <<b, a>> \notin R
      BY <1>2, <2>2, <2>4
    <3>2. CASE <<c, a>> \notin R
      BY <3>1, <3>2
    <3>3. CASE <<c, a>> \in R
      <4>1. \A b \in S : b = c \/ b \in U
        OBVIOUS
      <4>2. \A b \in U : <<b, c>> \notin R
        BY <3>1, <3>3
      <4> QED
        BY <4>1, <4>2
    <3> QED
      BY <3>2, <3>3
  <2> QED
    BY <2>3, <2>4
<1>3. \A n \in Nat : P[n] <=> Has(n)
  OBVIOUS
<1> HIDE DEF P, Has
<1>4. P[0]
  BY <1>1, <1>3
<1>5. \A n \in Nat : P[n] => P[n + 1]
  BY <1>2, <1>3
<1>6. \A n \in Nat : Has(n)
  BY <1>3, <1>4, <1>5, Induction
<1>7. Cardinality(T) \in Nat
  BY FS_CardinalityType
<1> QED
  BY <1>6, <1>7 DEF Has

LEMMA MaxIs ==
  ASSUME NEW T \in SUBSET Int, IsFiniteSet(T), T # {}
  PROVE  Max(T) \in T /\ \A y \in T : Max(T) >= y
<1> DEFINE R == {p \in Int \X Int : p[1] > p[2]}
<1>1. \A a, b \in Int : <<a, b>> \in R <=> a > b
  OBVIOUS
<1> HIDE DEF R
<1>2. \E a \in T : \A b \in T : <<b, a>> \notin R
  <2>1. \A a, b, c \in T : <<a, b>> \in R /\ <<b, c>> \in R => <<a, c>> \in R
    BY <1>1
  <2>2. \A a \in T : <<a, a>> \notin R
    BY <1>1
  <2> QED
    BY <2>1, <2>2, FiniteLargest
<1>3. \E a \in T : \A b \in T : a >= b
  <2>1. \A a, b \in T : <<b, a>> \notin R => a >= b
    BY <1>1
  <2> QED
    BY <1>2, <2>1
<1> QED
  BY <1>3 DEF Max

LEMMA MinIs ==
  ASSUME NEW T \in SUBSET Int, IsFiniteSet(T), T # {}
  PROVE  Min(T) \in T /\ \A y \in T : Min(T) <= y
<1> DEFINE R == {p \in Int \X Int : p[1] < p[2]}
<1>1. \A a, b \in Int : <<a, b>> \in R <=> a < b
  OBVIOUS
<1> HIDE DEF R
<1>2. \E a \in T : \A b \in T : <<b, a>> \notin R
  <2>1. \A a, b, c \in T : <<a, b>> \in R /\ <<b, c>> \in R => <<a, c>> \in R
    BY <1>1
  <2>2. \A a \in T : <<a, a>> \notin R
    BY <1>1
  <2> QED
    BY <2>1, <2>2, FiniteLargest
<1>3. \E a \in T : \A b \in T : a <= b
  <2>1. \A a, b \in T : <<b, a>> \notin R => a <= b
    BY <1>1
  <2> QED
    BY <1>2, <2>1
<1> QED
  BY <1>3 DEF Min

-----------------------------------------------------------------------------
(* The order of rectangles. *)
Tuples == Int \X Int \X Int \X Int \X Int

LEMMA LargerIs ==
  ASSUME NEW r \in Tuples, NEW s \in Tuples
  PROVE  Larger(r, s) <=>
           \/ r[1] > s[1]
           \/ r[1] = s[1] /\ r[2] > s[2]
           \/ r[1] = s[1] /\ r[2] = s[2] /\ r[3] > s[3]
           \/ r[1] = s[1] /\ r[2] = s[2] /\ r[3] = s[3] /\ r[4] > s[4]
           \/ r[1] = s[1] /\ r[2] = s[2] /\ r[3] = s[3] /\ r[4] = s[4] /\ r[5] > s[5]
<1>1. DOMAIN r = 1..5
  BY DEF Tuples
<1>2. \A i \in 1..5 : i = 1 \/ i = 2 \/ i = 3 \/ i = 4 \/ i = 5
  OBVIOUS
<1>3. /\ \A j \in 1..(1 - 1) : r[j] = s[j]
      /\ (\A j \in 1..(2 - 1) : r[j] = s[j]) <=> r[1] = s[1]
      /\ (\A j \in 1..(3 - 1) : r[j] = s[j]) <=> r[1] = s[1] /\ r[2] = s[2]
      /\ (\A j \in 1..(4 - 1) : r[j] = s[j]) <=> r[1] = s[1] /\ r[2] = s[2] /\ r[3] = s[3]
      /\ (\A j \in 1..(5 - 1) : r[j] = s[j]) <=>
           r[1] = s[1] /\ r[2] = s[2] /\ r[3] = s[3] /\ r[4] = s[4]
  <2>1. /\ \A j \in 1..0 : FALSE
        /\ \A j \in 1..1 : j = 1
        /\ \A j \in 1..2 : j = 1 \/ j = 2
        /\ \A j \in 1..3 : j = 1 \/ j = 2 \/ j = 3
        /\ \A j \in 1..4 : j = 1 \/ j = 2 \/ j = 3 \/ j = 4
    OBVIOUS
  <2> QED
    BY <2>1
<1>4. Larger(r, s) <=> \E i \in 1..5 : r[i] > s[i] /\ \A j \in 1..(i - 1) : r[j] = s[j]
  BY <1>1 DEF Larger
<1> DEFINE Beats(i) == r[i] > s[i] /\ \A j \in 1..(i - 1) : r[j] = s[j]
<1>5. Larger(r, s) <=> Beats(1) \/ Beats(2) \/ Beats(3) \/ Beats(4) \/ Beats(5)
  <2> HIDE DEF Beats
  <2>1. Larger(r, s) <=> \E i \in 1..5 : Beats(i)
    BY <1>4 DEF Beats
  <2> QED
    BY <1>2, <2>1
<1> QED
  BY <1>3, <1>5

LEMMA LargerOrder ==
  /\ \A a \in Tuples : ~Larger(a, a)
  /\ \A a, b, c \in Tuples : Larger(a, b) /\ Larger(b, c) => Larger(a, c)
  /\ \A a, b, c \in Tuples : ~Larger(a, b) /\ ~Larger(b, c) => ~Larger(a, c)
  /\ \A a, b \in Tuples : ~Larger(a, b) /\ ~Larger(b, a) => a = b
<1>1. \A a \in Tuples : a[1] \in Int /\ a[2] \in Int /\ a[3] \in Int /\ a[4] \in Int /\ a[5] \in Int
  BY DEF Tuples
<1>2. \A a \in Tuples : ~Larger(a, a)
  BY <1>1, LargerIs
<1>3. ASSUME NEW a \in Tuples, NEW b \in Tuples, NEW c \in Tuples
      PROVE  /\ Larger(a, b) /\ Larger(b, c) => Larger(a, c)
             /\ ~Larger(a, b) /\ ~Larger(b, c) => ~Larger(a, c)
  BY <1>1, LargerIs
<1>4. ASSUME NEW a \in Tuples, NEW b \in Tuples, ~Larger(a, b), ~Larger(b, a) PROVE a = b
  <2>1. a[1] = b[1] /\ a[2] = b[2] /\ a[3] = b[3] /\ a[4] = b[4] /\ a[5] = b[5]
    BY <1>1, <1>4, LargerIs
  <2>2. a = <<a[1], a[2], a[3], a[4], a[5]>> /\ b = <<b[1], b[2], b[3], b[4], b[5]>>
    BY DEF Tuples
  <2> QED
    BY <2>1, <2>2
<1> QED
  BY <1>2, <1>3, <1>4

LEMMA LargestIs ==
  ASSUME NEW T \in SUBSET Tuples, IsFiniteSet(T), T # {}
  PROVE  LargestOf(T) \in T /\ \A s \in T : ~Larger(s, LargestOf(T))
<1> DEFINE R == {p \in Tuples \X Tuples : Larger(p[1], p[2])}
<1>1. \A a, b \in Tuples : <<a, b>> \in R <=> Larger(a, b)
  OBVIOUS
<1> HIDE DEF R
<1>2. \E a \in T : \A b \in T : <<b, a>> \notin R
  <2>1. \A a, b, c \in T : <<a, b>> \in R /\ <<b, c>> \in R => <<a, c>> \in R
    BY <1>1, LargerOrder
  <2>2. \A a \in T : <<a, a>> \notin R
    BY <1>1, LargerOrder
  <2> QED
    BY <2>1, <2>2, FiniteLargest
<1>3. \E a \in T : \A b \in T : ~Larger(b, a)
  BY <1>1, <1>2
<1> QED
  BY <1>3 DEF LargestOf

(* The largest is the one element that no other exceeds. *)
LEMMA LargestUnique ==
  ASSUME NEW T \in SUBSET Tuples, NEW r \in T, \A s \in T : ~Larger(s, r)
  PROVE  LargestOf(T) = r
<1>1. LargestOf(T) \in T /\ ~Larger(r, LargestOf(T))
  BY DEF LargestOf
<1> QED
  BY <1>1, LargerOrder

-----------------------------------------------------------------------------
(* The scan of a histogram.  A bar of height k over the columns l to x - 1  *)
(* that ends in this row is a rectangle.                                   *)
Bar(row, l, x, k) == <<k * (x - l), (row + 1) - k, l, row + 1, x>>
Held(H, l, x, k)  == \A d \in l..(x - 1) : Level(H, d) >= k
Heights           == [1..Width -> Nat]
Positive          == Nat \ {0}

LEMMA BarTuple ==
  ASSUME NEW row \in Nat, NEW l \in Nat, NEW x \in Nat, NEW k \in Nat
  PROVE  Bar(row, l, x, k) \in Tuples
<1>1. k * (x - l) \in Int
  OBVIOUS
<1> QED
  BY <1>1 DEF Bar, Tuples

LEMMA Products ==
  ASSUME NEW a \in Positive, NEW b \in Positive, NEW v \in Positive, NEW w \in Positive,
         a <= b, v <= w
  PROVE  a * v <= b * w /\ (a * v = b * w => a = b /\ v = w)
<1>1. a * v \in Nat /\ b * v \in Nat /\ b * w \in Nat
  BY DEF Positive
<1>2. a * v <= b * v /\ (a # b => a * v < b * v)
  <2>1. b * v = (a * v) + ((b - a) * v)
    BY DEF Positive
  <2>2. (b - a) * v >= 0 /\ (a # b => (b - a) * v > 0)
    BY DEF Positive
  <2> QED
    BY <1>1, <2>1, <2>2 DEF Positive
<1>3. b * v <= b * w /\ (v # w => b * v < b * w)
  <2>1. b * w = (b * v) + (b * (w - v))
    BY DEF Positive
  <2>2. b * (w - v) >= 0 /\ (v # w => b * (w - v) > 0)
    BY DEF Positive
  <2> QED
    BY <1>1, <2>1, <2>2 DEF Positive
<1> QED
  BY <1>1, <1>2, <1>3

(* A bar that another covers is not larger. *)
LEMMA CoveredNotLarger ==
  ASSUME NEW row \in Nat, NEW l \in Nat, NEW m \in Nat, NEW x \in Nat, NEW z \in Nat,
         NEW k \in Positive, NEW h \in Positive, l < x, m <= l, x <= z, k <= h
  PROVE  ~Larger(Bar(row, l, x, k), Bar(row, m, z, h))
<1>1. Bar(row, l, x, k) \in Tuples /\ Bar(row, m, z, h) \in Tuples
  BY BarTuple DEF Positive
<1>2. x - l \in Positive /\ z - m \in Positive /\ x - l <= z - m
  BY DEF Positive
<1>3. k * (x - l) <= h * (z - m) /\ (k * (x - l) = h * (z - m) => k = h /\ x - l = z - m)
  BY <1>2, Products
<1>4. k * (x - l) \in Int /\ h * (z - m) \in Int
  BY DEF Positive
<1>5. CASE k * (x - l) < h * (z - m)
  BY <1>1, <1>4, <1>5, LargerIs DEF Bar
<1>6. CASE k * (x - l) = h * (z - m)
  <2>1. k = h /\ l = m /\ x = z
    BY <1>3, <1>6
  <2> QED
    BY <1>1, <2>1, LargerOrder
<1> QED
  BY <1>3, <1>4, <1>5, <1>6

LEMMA LevelIs ==
  ASSUME NEW H \in Heights, NEW x \in 0..Width
  PROVE  /\ Level(H, x) \in Nat
         /\ x = Width => Level(H, x) = 0
         /\ x # Width => Level(H, x) = H[x + 1]
BY CropAssumption DEF Level, Heights

(* The stack holds the bars that reach column x; every bar that does is    *)
(* inside one of them.                                                     *)
StackOK(H, x, stack) ==
  /\ stack \in Seq(Nat \X Positive)
  /\ \A i \in 1..Len(stack) :
       stack[i][1] <= x /\ \A d \in stack[i][1]..x : Level(H, d) >= stack[i][2]
  /\ \A i, j \in 1..Len(stack) :
       i <= j => stack[i][1] <= stack[j][1] /\ stack[i][2] <= stack[j][2]
  /\ \A c \in 0..x, k \in Positive :
       (\A d \in c..x : Level(H, d) >= k) =>
         \E i \in 1..Len(stack) : stack[i][2] >= k /\ stack[i][1] <= c

(* The best rectangle is a bar of the histogram, and exceeds or equals     *)
(* every bar that ends before column x.                                    *)
Genuine(H, row, best) ==
  \/ best = NoRectangle
  \/ \E l, x \in 0..Width, k \in Positive :
       l < x /\ Held(H, l, x, k) /\ best = Bar(row, l, x, k)

Compared(H, row, x, best) ==
  \A l, z \in 0..x, k \in Positive :
    l < z /\ Held(H, l, z, k) =>
      ~Larger(Bar(row, l, z, k), best) \/ \A d \in z..x : Level(H, d) >= k

ScanOK(H, row, x, state) ==
  StackOK(H, x, state.stack) /\ Genuine(H, row, state.best) /\ Compared(H, row, x, state.best)

LEMMA GenuineTuple ==
  ASSUME NEW H, NEW row \in Nat, NEW best, Genuine(H, row, best) PROVE best \in Tuples
<1>1. NoRectangle \in Tuples
  BY DEF NoRectangle, Tuples
<1>2. \A l, x \in 0..Width, k \in Positive : Bar(row, l, x, k) \in Tuples
  BY BarTuple, CropAssumption DEF Positive
<1> QED
  BY <1>1, <1>2 DEF Genuine

(* A column of the height of the last: nothing happens. *)
LEMMA SameHeight ==
  ASSUME NEW H \in Heights, NEW row \in Nat, NEW x \in 1..Width, NEW state,
         ScanOK(H, row, x - 1, state), Level(H, x) = Level(H, x - 1)
  PROVE  ScanOK(H, row, x, state)
<1> DEFINE stack == state.stack
<1>1. /\ stack \in Seq(Nat \X Positive) /\ Len(stack) \in Nat
      /\ \A i \in 1..Len(stack) : stack[i][1] \in Nat /\ stack[i][2] \in Positive
  BY DEF ScanOK, StackOK
<1>2. x \in Nat /\ x - 1 \in 0..x /\ Width \in Nat
  BY CropAssumption
<1>3. \A c \in Nat : \A d \in c..x : d \in c..(x - 1) \/ d = x
  BY <1>2
<1> HIDE DEF stack
<1>4. StackOK(H, x, stack)
  <2>0. StackOK(H, x - 1, stack)
    BY DEF ScanOK, stack
  <2>1. ASSUME NEW i \in 1..Len(stack)
        PROVE  stack[i][1] <= x /\ \A d \in stack[i][1]..x : Level(H, d) >= stack[i][2]
    <3>1. stack[i][1] <= x - 1 /\ \A d \in stack[i][1]..(x - 1) : Level(H, d) >= stack[i][2]
      BY <2>0 DEF StackOK
    <3>2. x - 1 \in stack[i][1]..(x - 1)
      BY <1>1, <1>2, <3>1
    <3> QED
      BY <1>1, <1>2, <1>3, <3>1, <3>2
  <2>2. ASSUME NEW c \in 0..x, NEW k \in Positive, \A d \in c..x : Level(H, d) >= k
        PROVE  \E i \in 1..Len(stack) : stack[i][2] >= k /\ stack[i][1] <= c
    <3> DEFINE b == IF c = x THEN x - 1 ELSE c
    <3>1. b \in 0..(x - 1) /\ b <= c
      BY <1>2
    <3>2. \A d \in b..(x - 1) : Level(H, d) >= k
      <4>1. CASE c = x
        <5>1. Level(H, x) >= k
          BY <2>2, <1>2
        <5>2. \A d \in b..(x - 1) : d = x - 1
          BY <4>1, <1>2
        <5> QED
          BY <5>1, <5>2
      <4>2. CASE c # x
        BY <2>2, <1>2, <4>2
      <4> QED
        BY <4>1, <4>2
    <3> HIDE DEF b
    <3>3. PICK i \in 1..Len(stack) : stack[i][2] >= k /\ stack[i][1] <= b
      BY <2>0, <3>1, <3>2 DEF StackOK
    <3>4. stack[i][1] <= c
      BY <1>1, <3>1, <3>3
    <3> QED
      BY <3>3, <3>4
  <2> QED
    BY <2>0, <2>1, <2>2 DEF StackOK
<1>5. Compared(H, row, x, state.best)
  <2> SUFFICES ASSUME NEW l \in 0..x, NEW z \in 0..x, NEW k \in Positive, l < z,
                      Held(H, l, z, k), Larger(Bar(row, l, z, k), state.best)
               PROVE  \A d \in z..x : Level(H, d) >= k
    BY DEF Compared
  <2>1. Level(H, x - 1) >= k
    <3>1. CASE z = x
      <4>1. x - 1 \in l..(z - 1)
        BY <3>1, <1>2
      <4> QED
        BY <4>1 DEF Held
    <3>2. CASE z # x
      <4>1. l \in 0..(x - 1) /\ z \in 0..(x - 1) /\ x - 1 \in z..(x - 1)
        BY <3>2, <1>2
      <4> QED
        BY <4>1 DEF ScanOK, Compared
    <3> QED
      BY <3>1, <3>2
  <2>2. \A d \in z..(x - 1) : Level(H, d) >= k
    <3>1. CASE z = x
      BY <3>1, <1>2
    <3>2. CASE z # x
      <4>1. l \in 0..(x - 1) /\ z \in 0..(x - 1)
        BY <3>2, <1>2
      <4> QED
        BY <4>1 DEF ScanOK, Compared
    <3> QED
      BY <3>1, <3>2
  <2>3. z \in Nat
    OBVIOUS
  <2> QED
    BY <1>3, <2>1, <2>2, <2>3
<1> QED
  BY <1>4, <1>5 DEF ScanOK, stack

(* A visit at column x. *)
LEMMA VisitOK ==
  ASSUME NEW H \in Heights, NEW row \in Nat, NEW x \in 0..Width, NEW state,
         ScanOK(H, row, x - 1, state)
  PROVE  ScanOK(H, row, x, Visit(state, x, Level(H, x), row))
<1> DEFINE stack == state.stack
           e == Level(H, x)
           n == Len(stack)
           below == {i \in DOMAIN stack : stack[i][2] <= e}
           kept == Max({0} \cup below)
           popped == {stack[i] : i \in (kept + 1)..n}
           ended == {<<p[2] * (x - p[1]), row - p[2] + 1, p[1], row + 1, x>> : p \in popped}
           rest == SubSeq(stack, 1, kept)
           start == IF kept = n THEN x ELSE stack[kept + 1][1]
           top == <<start, e>>
           best == LargestOf({state.best} \cup ended)
           grow == e > 0 /\ (kept = 0 \/ stack[kept][2] < e)
           new == IF grow THEN Append(rest, top) ELSE rest
<1>1. Visit(state, x, e, row) = [best |-> best, stack |-> new]
  BY DEF Visit
<1>2. StackOK(H, x - 1, stack)
  BY DEF ScanOK
<1>a. /\ \A i \in 1..n :
            stack[i][1] <= x - 1 /\ \A d \in stack[i][1]..(x - 1) : Level(H, d) >= stack[i][2]
      /\ \A i, j \in 1..n :
            i <= j => stack[i][1] <= stack[j][1] /\ stack[i][2] <= stack[j][2]
      /\ \A c \in 0..(x - 1), k \in Positive :
            (\A d \in c..(x - 1) : Level(H, d) >= k) =>
              \E i \in 1..n : stack[i][2] >= k /\ stack[i][1] <= c
  BY <1>2 DEF StackOK
<1>3. /\ stack \in Seq(Nat \X Positive) /\ n \in Nat /\ DOMAIN stack = 1..n
      /\ \A i \in 1..n : stack[i][1] \in Nat /\ stack[i][2] \in Positive /\ stack[i] \in Nat \X Positive
  BY <1>2 DEF StackOK
<1>4. /\ x \in Nat /\ x <= Width /\ Width \in Nat /\ e \in Nat
      /\ \A c \in Nat : \A d \in c..x : d \in c..(x - 1) \/ d = x
      /\ \A c \in Nat : \A d \in c..(x - 1) : d \in c..x
  BY CropAssumption, LevelIs
<1> HIDE DEF stack, n, e
<1>5. /\ kept \in 0..n
      /\ \A i \in 1..n : i > kept => stack[i][2] > e
      /\ \A i \in 1..n : i <= kept => stack[i][2] <= e
  <2>1. ({0} \cup below) \in SUBSET Int /\ IsFiniteSet({0} \cup below) /\ {0} \cup below # {}
    <3>1. {0} \cup below \subseteq 0..n
      BY <1>3
    <3>2. IsFiniteSet(0..n)
      BY <1>3, FS_Interval
    <3> HIDE DEF below
    <3> QED
      BY <1>3, <3>1, <3>2, FS_Subset
  <2>2. kept \in {0} \cup below /\ \A i \in {0} \cup below : kept >= i
    <3> HIDE DEF below
    <3> QED
      BY <2>1, MaxIs
  <2>3. kept \in 0..n
    BY <1>3, <2>2
  <2>4. ASSUME NEW i \in 1..n, i > kept PROVE stack[i][2] > e
    <3>1. ~(kept >= i)
      BY <1>3, <2>3, <2>4
    <3>2. ~(stack[i][2] <= e)
      BY <1>3, <2>2, <3>1
    <3>3. stack[i][2] \in Nat
      BY <1>3 DEF Positive
    <3> QED
      BY <1>4, <3>2, <3>3
  <2>5. ASSUME NEW i \in 1..n, i <= kept PROVE stack[i][2] <= e
    <3>1. kept \in 1..n /\ kept \in below
      BY <2>2, <2>3, <2>5
    <3>2. stack[i][2] <= stack[kept][2] /\ stack[kept][2] <= e
      BY <1>a, <2>5, <3>1
    <3> QED
      BY <1>3, <1>4, <3>1, <3>2 DEF Positive
  <2> QED
    BY <2>3, <2>4, <2>5
<1>6. /\ rest \in Seq(Nat \X Positive) /\ Len(rest) = kept
      /\ \A i \in 1..kept : rest[i] = stack[i]
  <2> HIDE DEF kept
  <2>1. kept \in Nat /\ kept <= n
    BY <1>3, <1>5
  <2> QED
    BY <1>3, <2>1 DEF n
<1>7. start \in Nat /\ start <= x
  <2>1. CASE kept = n
    BY <1>4, <2>1
  <2>2. CASE kept # n
    <3>1. kept + 1 \in 1..n /\ start = stack[kept + 1][1]
      BY <1>3, <1>5, <2>2
    <3>2. stack[kept + 1][1] <= x - 1
      BY <1>a, <3>1
    <3> QED
      BY <1>3, <1>4, <3>1, <3>2
  <2> QED
    BY <2>1, <2>2
<1>8. \A d \in start..x : Level(H, d) >= e
  <2>1. CASE kept = n
    <3>1. start = x
      BY <2>1
    <3>2. \A d \in x..x : d = x
      BY <1>4
    <3> QED
      BY <1>4, <3>1, <3>2 DEF e
  <2>2. CASE kept # n
    <3>1. kept + 1 \in 1..n /\ start = stack[kept + 1][1] /\ kept + 1 > kept
      BY <1>3, <1>5, <2>2
    <3>2. \A d \in start..(x - 1) : Level(H, d) >= stack[kept + 1][2]
      BY <1>a, <3>1
    <3>3. stack[kept + 1][2] > e /\ stack[kept + 1][2] \in Nat
      BY <1>3, <1>5, <3>1 DEF Positive
    <3>4. \A d \in start..(x - 1) : Level(H, d) \in Nat
      BY <1>4, <1>7, LevelIs
    <3>5. Level(H, x) = e /\ start \in Nat
      BY <1>7 DEF e
    <3> HIDE DEF start
    <3> QED
      BY <1>4, <3>2, <3>3, <3>4, <3>5
  <2> QED
    BY <2>1, <2>2
<1> HIDE DEF kept, below, rest, start, best
<1>9. e > 0 => top \in Nat \X Positive
  BY <1>4, <1>7 DEF Positive
<1>10. /\ new \in Seq(Nat \X Positive)
       /\ Len(new) = IF grow THEN kept + 1 ELSE kept
       /\ \A i \in 1..kept : new[i] = stack[i]
       /\ grow => new[kept + 1] = top
  <2> HIDE DEF top
  <2>1. CASE grow
    <3>1. new = Append(rest, top) /\ top \in Nat \X Positive /\ kept \in Nat
      BY <1>5, <1>9, <2>1
    <3> QED
      BY <1>5, <1>6, <2>1, <3>1
  <2>2. CASE ~grow
    BY <1>6, <2>2
  <2> QED
    BY <2>1, <2>2
<1> HIDE DEF new
<1>11. StackOK(H, x, new)
  <2>1. ASSUME NEW i \in 1..Len(new)
        PROVE  new[i][1] <= x /\ \A d \in new[i][1]..x : Level(H, d) >= new[i][2]
    <3>1. CASE i <= kept
      <4>1. i \in 1..kept /\ i \in 1..n /\ new[i] = stack[i]
        BY <1>3, <1>5, <1>10, <3>1
      <4>2. stack[i][1] <= x - 1 /\ \A d \in stack[i][1]..(x - 1) : Level(H, d) >= stack[i][2]
        BY <1>a, <4>1
      <4>3. stack[i][2] <= e
        BY <1>5, <3>1, <4>1
      <4> QED
        BY <1>3, <1>4, <4>1, <4>2, <4>3 DEF e
    <3>2. CASE i > kept
      <4>1. grow /\ i = kept + 1
        BY <1>5, <1>10, <3>2
      <4> QED
        BY <1>7, <1>8, <1>10, <4>1
    <3> QED
      BY <1>5, <3>1, <3>2
  <2>2. ASSUME NEW i \in 1..Len(new), NEW j \in 1..Len(new), i <= j
        PROVE  new[i][1] <= new[j][1] /\ new[i][2] <= new[j][2]
    <3>1. CASE j <= kept
      <4>1. i \in 1..kept /\ j \in 1..kept /\ i \in 1..n /\ j \in 1..n
        BY <1>3, <1>5, <2>2, <3>1
      <4> QED
        BY <1>a, <1>10, <2>2, <4>1
    <3>2. CASE j > kept
      <4>1. grow /\ j = kept + 1 /\ new[j][1] = start /\ new[j][2] = e
        BY <1>5, <1>10, <3>2
      <4>2. CASE i = j
        BY <1>4, <1>7, <4>1, <4>2
      <4>3. CASE i # j
        <5>1. i \in 1..kept /\ i \in 1..n /\ i <= kept /\ new[i] = stack[i]
          BY <1>3, <1>5, <1>10, <2>2, <4>1, <4>3
        <5>2. stack[i][2] <= e
          BY <1>5, <5>1
        <5>3. stack[i][1] <= start
          <6>1. CASE kept = n
            <7>1. start = x /\ stack[i][1] <= x - 1
              BY <1>a, <5>1, <6>1 DEF start
            <7> QED
              BY <1>3, <1>4, <5>1, <7>1
          <6>2. CASE kept # n
            <7>1. kept + 1 \in 1..n /\ start = stack[kept + 1][1] /\ i <= kept + 1
              BY <1>3, <1>5, <5>1, <6>2 DEF start
            <7> QED
              BY <1>a, <5>1, <7>1
          <6> QED
            BY <6>1, <6>2
        <5> QED
          BY <4>1, <5>1, <5>2, <5>3
      <4> QED
        BY <4>2, <4>3
    <3> QED
      BY <1>5, <3>1, <3>2
  <2>3. ASSUME NEW c \in 0..x, NEW k \in Positive, \A d \in c..x : Level(H, d) >= k
        PROVE  \E i \in 1..Len(new) : new[i][2] >= k /\ new[i][1] <= c
    <3>1. k <= e /\ e > 0 /\ k \in Nat /\ k > 0
      <4>1. Level(H, x) >= k
        BY <1>4, <2>3
      <4>2. e >= k
        BY <4>1 DEF e
      <4> QED
        BY <1>4, <4>2 DEF Positive
    <3>2. \/ grow /\ kept + 1 \in 1..Len(new) /\ new[kept + 1][1] = start /\ new[kept + 1][2] = e
          \/ kept \in 1..Len(new) /\ kept \in 1..n /\ new[kept] = stack[kept] /\ stack[kept][2] = e
      <4>1. CASE grow
        BY <1>5, <1>10, <4>1
      <4>2. CASE ~grow
        <5>1. kept # 0 /\ ~(stack[kept][2] < e)
          BY <3>1, <4>2
        <5>2. kept \in 1..n /\ kept \in 1..kept /\ Len(new) = kept
          BY <1>3, <1>5, <1>10, <4>2, <5>1
        <5>3. stack[kept][2] <= e /\ stack[kept][2] \in Nat /\ new[kept] = stack[kept]
          BY <1>3, <1>5, <1>10, <5>2 DEF Positive
        <5> QED
          BY <1>4, <5>1, <5>2, <5>3
      <4> QED
        BY <4>1, <4>2
    <3>3. CASE c = x
      <4>1. kept \in 1..n => stack[kept][1] <= x - 1 /\ stack[kept][1] \in Nat
        BY <1>a, <1>3
      <4> QED
        BY <1>4, <1>7, <3>1, <3>2, <3>3, <4>1
    <3>4. CASE c # x
      <4>1. c \in 0..(x - 1) /\ \A d \in c..(x - 1) : Level(H, d) >= k
        BY <1>4, <2>3, <3>4
      <4>2. PICK i \in 1..n : stack[i][2] >= k /\ stack[i][1] <= c
        BY <1>a, <4>1
      <4>3. CASE i <= kept
        <5>1. i \in 1..Len(new) /\ new[i] = stack[i]
          BY <1>3, <1>5, <1>10, <4>3
        <5> QED
          BY <4>2, <5>1
      <4>4. CASE i > kept
        <5>1. kept + 1 \in 1..n /\ kept + 1 <= i /\ kept # n
          BY <1>3, <1>5, <4>4
        <5>2. stack[kept + 1][1] <= stack[i][1]
          BY <1>a, <5>1
        <5>3. start = stack[kept + 1][1] /\ start <= c
          BY <1>3, <4>2, <5>1, <5>2 DEF start
        <5>4. kept \in 1..n => stack[kept][1] <= stack[kept + 1][1]
          BY <1>a, <1>5, <5>1
        <5>5. kept \in 1..n => stack[kept][1] <= c
          BY <1>3, <1>7, <5>3, <5>4
        <5> QED
          BY <3>1, <3>2, <5>3, <5>5
      <4> QED
        BY <1>5, <4>3, <4>4
    <3> QED
      BY <3>3, <3>4
  <2> QED
    BY <1>10, <2>1, <2>2, <2>3 DEF StackOK
<1>12. /\ ended \in SUBSET Tuples /\ IsFiniteSet(ended)
       /\ \A i \in (kept + 1)..n : Bar(row, stack[i][1], x, stack[i][2]) \in ended
       /\ \A r \in ended : \E i \in (kept + 1)..n : r = Bar(row, stack[i][1], x, stack[i][2])
  <2> DEFINE f == [i \in (kept + 1)..n |-> Bar(row, stack[i][1], x, stack[i][2])]
  <2>0. \A i \in (kept + 1)..n : i \in 1..n
    BY <1>3, <1>5
  <2>1. \A i \in (kept + 1)..n :
          <<stack[i][2] * (x - stack[i][1]), row - stack[i][2] + 1, stack[i][1], row + 1, x>>
            = Bar(row, stack[i][1], x, stack[i][2])
    <3> SUFFICES ASSUME NEW i \in (kept + 1)..n
                 PROVE  row - stack[i][2] + 1 = (row + 1) - stack[i][2]
      BY DEF Bar
    <3>1. stack[i][2] \in Int
      BY <1>3, <2>0 DEF Positive
    <3> QED
      BY <3>1
  <2>2. ended = {f[i] : i \in (kept + 1)..n}
    BY <2>1
  <2>3. IsFiniteSet((kept + 1)..n)
    BY <1>3, <1>5, FS_Interval
  <2>4. IsFiniteSet({f[i] : i \in (kept + 1)..n})
    <3> HIDE DEF f
    <3> QED
      BY <2>3, FiniteImage
  <2>5. \A i \in (kept + 1)..n : f[i] \in Tuples
    BY <1>3, <1>4, <2>0, BarTuple DEF Positive
  <2> HIDE DEF ended
  <2> QED
    BY <2>2, <2>4, <2>5
<1> HIDE DEF ended
<1>13. /\ best \in {state.best} \cup ended
       /\ \A r \in {state.best} \cup ended : ~Larger(r, best)
       /\ state.best \in Tuples
  <2>1. state.best \in Tuples
    BY GenuineTuple DEF ScanOK
  <2>2. IsFiniteSet({state.best} \cup ended)
    BY <1>12, FS_Singleton, FS_Union
  <2> QED
    BY <1>12, <2>1, <2>2, LargestIs DEF best
<1>14. Genuine(H, row, best)
  <2>1. CASE best = state.best
    BY <2>1 DEF ScanOK
  <2>2. CASE best \in ended
    <3>1. PICK i \in (kept + 1)..n : best = Bar(row, stack[i][1], x, stack[i][2])
      BY <1>12, <2>2
    <3>2. i \in 1..n /\ stack[i][1] \in Nat /\ stack[i][2] \in Positive
      BY <1>3, <1>5, <3>1
    <3>3. stack[i][1] <= x - 1 /\ \A d \in stack[i][1]..(x - 1) : Level(H, d) >= stack[i][2]
      BY <1>a, <3>2
    <3>4. stack[i][1] \in 0..Width /\ stack[i][1] < x /\ x \in 0..Width
      BY <1>4, <3>2, <3>3
    <3> QED
      BY <3>1, <3>2, <3>3, <3>4 DEF Genuine, Held
  <2> QED
    BY <1>13, <2>1, <2>2
<1>15. Compared(H, row, x, best)
  <2> SUFFICES ASSUME NEW l \in 0..x, NEW z \in 0..x, NEW k \in Positive, l < z, Held(H, l, z, k),
                      Larger(Bar(row, l, z, k), best)
               PROVE  \A d \in z..x : Level(H, d) >= k
    BY DEF Compared
  <2>0. Bar(row, l, z, k) \in Tuples /\ best \in Tuples /\ l \in Nat /\ z \in Nat /\ k \in Nat
    BY <1>12, <1>13, BarTuple DEF Positive
  <2>1. Larger(Bar(row, l, z, k), state.best)
    BY <1>13, <2>0, LargerOrder
  <2>2. \A d \in z..(x - 1) : Level(H, d) >= k
    <3>1. CASE z = x
      BY <3>1, <1>4
    <3>2. CASE z # x
      <4>1. l \in 0..(x - 1) /\ z \in 0..(x - 1)
        BY <3>2, <1>4
      <4> QED
        BY <2>1, <4>1 DEF ScanOK, Compared
    <3> QED
      BY <3>1, <3>2
  <2>3. \A d \in l..(x - 1) : Level(H, d) >= k
    <3>1. \A d \in l..(x - 1) : d \in l..(z - 1) \/ d \in z..(x - 1)
      BY <2>0, <1>4
    <3> QED
      BY <2>2, <3>1 DEF Held
  <2>4. l \in 0..(x - 1)
    BY <2>0, <1>4
  <2>5. PICK i \in 1..n : stack[i][2] >= k /\ stack[i][1] <= l
    BY <1>a, <2>3, <2>4
  <2>6. CASE i > kept
    <3>1. Bar(row, stack[i][1], x, stack[i][2]) \in ended
      BY <1>3, <1>5, <1>12, <2>6
    <3>2. ~Larger(Bar(row, l, z, k), Bar(row, stack[i][1], x, stack[i][2]))
      <4>1. z \in Nat /\ z <= x
        BY <1>4
      <4>2. stack[i][1] \in Nat /\ stack[i][2] \in Positive
        BY <1>3, <2>5
      <4>3. k <= stack[i][2] /\ stack[i][1] <= l
        BY <2>0, <2>5, <4>2 DEF Positive
      <4> QED
        BY <1>4, <2>0, <4>1, <4>2, <4>3, CoveredNotLarger
    <3>3. ~Larger(Bar(row, l, z, k), best)
      BY <1>12, <1>13, <2>0, <3>1, <3>2, LargerOrder
    <3> QED
      BY <3>3
  <2>7. CASE i <= kept
    <3>1. stack[i][2] <= e /\ stack[i][2] \in Nat
      BY <1>3, <1>5, <2>7 DEF Positive
    <3>2. Level(H, x) >= k
      BY <1>4, <2>0, <2>5, <3>1 DEF e
    <3> QED
      BY <1>4, <2>0, <2>2, <3>2
  <2> QED
    BY <1>5, <2>6, <2>7
<1> QED
  <2>1. Visit(state, x, Level(H, x), row) = [best |-> best, stack |-> new]
    BY <1>1 DEF e
  <2> QED
    BY <1>11, <1>14, <1>15, <2>1 DEF ScanOK

NoState == [best |-> NoRectangle, stack |-> <<>>]

(* The recursion of the scan. *)
LEMMA ScanStep ==
  ASSUME NEW H, NEW row
  PROVE  \A x \in 0..Width :
           LET before == IF x = 0 THEN NoState ELSE Scan(H, row)[x - 1]
           IN Scan(H, row)[x] = IF Boundary(H, x) THEN Visit(before, x, Level(H, x), row) ELSE before
<1> DEFINE Previous(g, x) == IF x = 0 THEN NoState ELSE g[x - 1]
           Body(g, x) == IF Boundary(H, x) THEN Visit(Previous(g, x), x, Level(H, x), row)
                         ELSE Previous(g, x)
           Upto(k) == \E g : g = [x \in 0..k |-> Body(g, x)]
           P == [k \in Nat |-> Upto(k)]
<1>k. Scan(H, row) = CHOOSE g : g = [x \in 0..Width |-> Body(g, x)]
  BY DEF Scan, NoState
<1>p. \A k \in Nat : P[k] <=> Upto(k)
  OBVIOUS
<1>1. Upto(0)
  <2> DEFINE g == [x \in 0..0 |-> Body(<<>>, x)]
  <2>1. \A x \in 0..0 : Body(g, x) = Body(<<>>, x)
    OBVIOUS
  <2> HIDE DEF Body
  <2>2. g = [x \in 0..0 |-> Body(g, x)]
    BY <2>1
  <2> HIDE DEF g
  <2> QED
    BY <2>2
<1>2. ASSUME NEW k \in Nat, Upto(k) PROVE Upto(k + 1)
  <2>1. PICK g : g = [x \in 0..k |-> Body(g, x)]
    BY <1>2
  <2> DEFINE h == [x \in 0..k + 1 |-> IF x <= k THEN g[x] ELSE Body(g, k + 1)]
  <2>2. ASSUME NEW x \in 0..k + 1 PROVE h[x] = Body(h, x)
    <3> HIDE DEF Body
    <3>1. Body(h, x) = Body(g, x)
      <4>1. x # 0 => x - 1 \in 0..k + 1 /\ x - 1 <= k
        OBVIOUS
      <4>2. x # 0 => h[x - 1] = g[x - 1]
        BY <4>1
      <4> HIDE DEF h
      <4> QED
        BY <4>2 DEF Body
    <3>2. h[x] = IF x <= k THEN g[x] ELSE Body(g, k + 1)
      OBVIOUS
    <3>3. x <= k => x \in 0..k
      OBVIOUS
    <3>4. ~(x <= k) => x = k + 1
      OBVIOUS
    <3>5. x \in 0..k => g[x] = Body(g, x)
      BY <2>1
    <3> HIDE DEF h
    <3> QED
      BY <3>1, <3>2, <3>3, <3>4, <3>5
  <2> HIDE DEF Body
  <2>3. h = [x \in 0..k + 1 |-> Body(h, x)]
    BY <2>2
  <2> HIDE DEF h
  <2> QED
    BY <2>3
<1> HIDE DEF Upto, P
<1>3. P[0] /\ \A k \in Nat : P[k] => P[k + 1]
  BY <1>1, <1>2, <1>p
<1>4. Upto(Width)
  BY <1>3, <1>p, Induction, CropAssumption
<1> DEFINE s == Scan(H, row)
<1>5. s = [x \in 0..Width |-> Body(s, x)]
  <2> HIDE DEF Body
  <2> QED
    BY <1>4, <1>k DEF Upto
<1> HIDE DEF s
<1>6. \A x \in 0..Width : s[x] = Body(s, x)
  <2> HIDE DEF Body
  <2> QED
    BY <1>5
<1>7. \A x \in 0..Width : s[x] = IF Boundary(H, x) THEN Visit(Previous(s, x), x, Level(H, x), row)
                                 ELSE Previous(s, x)
  BY <1>6
<1> QED
  BY <1>7 DEF s

(* histogram_rectangle returns the largest rectangle that ends in the row. *)
LEMMA HistogramIs ==
  ASSUME NEW H \in Heights, NEW row \in Nat
  PROVE  LET best == HistogramRectangle(H, row)
         IN /\ Genuine(H, row, best)
            /\ \A l, z \in 0..Width, k \in Positive :
                 l < z /\ Held(H, l, z, k) => ~Larger(Bar(row, l, z, k), best)
<1> DEFINE s == Scan(H, row)
           Through(x) == x <= Width => ScanOK(H, row, x, s[x])
           P == [x \in Nat |-> Through(x)]
<1>w. Width \in Nat /\ Width >= 1 /\ 0 \in 0..Width
  BY CropAssumption
<1>1. ScanOK(H, row, 0 - 1, NoState)
  <2>1. \A i \in 0..(0 - 1) : FALSE
    OBVIOUS
  <2>2. <<>> \in Seq(Nat \X Positive) /\ Len(<<>>) = 0 /\ \A i \in 1..0 : FALSE
    OBVIOUS
  <2>3. StackOK(H, 0 - 1, <<>>)
    BY <2>1, <2>2 DEF StackOK
  <2>4. Compared(H, row, 0 - 1, NoRectangle) /\ Genuine(H, row, NoRectangle)
    BY <2>1 DEF Compared, Genuine
  <2>5. NoState.stack = <<>> /\ NoState.best = NoRectangle
    BY DEF NoState
  <2> QED
    BY <2>3, <2>4, <2>5 DEF ScanOK
<1>2. Through(0)
  <2>1. s[0] = Visit(NoState, 0, Level(H, 0), row)
    BY <1>w, ScanStep DEF Boundary
  <2>2. ScanOK(H, row, 0, Visit(NoState, 0, Level(H, 0), row))
    BY <1>w, <1>1, VisitOK
  <2> HIDE DEF s
  <2> QED
    BY <2>1, <2>2
<1>3. ASSUME NEW x \in Nat, Through(x) PROVE Through(x + 1)
  <2> SUFFICES ASSUME x + 1 <= Width PROVE ScanOK(H, row, x + 1, s[x + 1])
    OBVIOUS
  <2>1. x + 1 \in 0..Width /\ x + 1 # 0 /\ (x + 1) - 1 = x /\ x \in 0..Width /\ x + 1 \in 1..Width
    BY <1>w
  <2>2. s[x + 1] = IF Boundary(H, x + 1) THEN Visit(s[x], x + 1, Level(H, x + 1), row) ELSE s[x]
    BY <2>1, ScanStep
  <2>3. ScanOK(H, row, (x + 1) - 1, s[x])
    BY <1>3, <1>w, <2>1
  <2> HIDE DEF s
  <2>4. CASE Boundary(H, x + 1)
    BY <2>1, <2>2, <2>3, <2>4, VisitOK
  <2>5. CASE ~Boundary(H, x + 1)
    <3>1. x + 1 # Width /\ x # Width /\ H[(x + 1) + 1] = H[x + 1]
      BY <1>w, <2>1, <2>5 DEF Boundary
    <3>2. Level(H, x + 1) = Level(H, x)
      BY <2>1, <3>1, LevelIs
    <3>3. Level(H, x + 1) = Level(H, (x + 1) - 1)
      BY <2>1, <3>2
    <3> QED
      BY <2>1, <2>2, <2>3, <2>5, <3>3, SameHeight
  <2> QED
    BY <2>4, <2>5
<1>4. \A x \in Nat : P[x] <=> Through(x)
  OBVIOUS
<1> HIDE DEF P, Through
<1>5. P[0] /\ \A x \in Nat : P[x] => P[x + 1]
  BY <1>2, <1>3, <1>4
<1>6. Through(Width)
  BY <1>4, <1>5, <1>w, Induction
<1>7. ScanOK(H, row, Width, s[Width])
  BY <1>6, <1>w DEF Through
<1> DEFINE best == HistogramRectangle(H, row)
<1>8. best = s[Width].best
  BY DEF HistogramRectangle
<1>9. Genuine(H, row, best) /\ Compared(H, row, Width, best)
  BY <1>7, <1>8 DEF ScanOK
<1> HIDE DEF best, s
<1>10. ASSUME NEW l \in 0..Width, NEW z \in 0..Width, NEW k \in Positive, l < z, Held(H, l, z, k)
       PROVE  ~Larger(Bar(row, l, z, k), best)
  <2>1. Width \in z..Width /\ Level(H, Width) = 0 /\ ~(0 >= k)
    BY <1>w, LevelIs DEF Positive
  <2> QED
    BY <1>9, <1>10, <2>1 DEF Compared
<1> QED
  BY <1>9, <1>10 DEF best

-----------------------------------------------------------------------------
(* The rows of _common_valid_crop. *)
NoRows == [heights |-> [c \in 1..Width |-> 0], best |-> NoRectangle]

RowAfter(before, footprints, y) ==
  LET heights == NextHeights(before.heights, CommonRun(footprints, y))
  IN [heights |-> heights, best |-> LargestOf({before.best, HistogramRectangle(heights, y - 1)})]

LEMMA RowsStep ==
  ASSUME NEW F, NEW height \in Nat
  PROVE  \A y \in 0..height :
           Rows(F, height)[y] = IF y = 0 THEN NoRows ELSE RowAfter(Rows(F, height)[y - 1], F, y)
<1> DEFINE Body(g, y) == IF y = 0 THEN NoRows ELSE RowAfter(g[y - 1], F, y)
           Upto(k) == \E g : g = [y \in 0..k |-> Body(g, y)]
           P == [k \in Nat |-> Upto(k)]
<1>k. Rows(F, height) = CHOOSE g : g = [y \in 0..height |-> Body(g, y)]
  BY DEF Rows, NoRows, RowAfter
<1>p. \A k \in Nat : P[k] <=> Upto(k)
  OBVIOUS
<1>1. Upto(0)
  <2> DEFINE g == [y \in 0..0 |-> Body(<<>>, y)]
  <2>1. \A y \in 0..0 : Body(g, y) = Body(<<>>, y)
    OBVIOUS
  <2> HIDE DEF Body
  <2>2. g = [y \in 0..0 |-> Body(g, y)]
    BY <2>1
  <2> HIDE DEF g
  <2> QED
    BY <2>2
<1>2. ASSUME NEW k \in Nat, Upto(k) PROVE Upto(k + 1)
  <2>1. PICK g : g = [y \in 0..k |-> Body(g, y)]
    BY <1>2
  <2> DEFINE h == [y \in 0..k + 1 |-> IF y <= k THEN g[y] ELSE Body(g, k + 1)]
  <2>2. ASSUME NEW y \in 0..k + 1 PROVE h[y] = Body(h, y)
    <3> HIDE DEF Body
    <3>1. Body(h, y) = Body(g, y)
      <4>1. y # 0 => y - 1 \in 0..k + 1 /\ y - 1 <= k
        OBVIOUS
      <4>2. y # 0 => h[y - 1] = g[y - 1]
        BY <4>1
      <4> HIDE DEF h
      <4> QED
        BY <4>2 DEF Body
    <3>2. h[y] = IF y <= k THEN g[y] ELSE Body(g, k + 1)
      OBVIOUS
    <3>3. y <= k => y \in 0..k
      OBVIOUS
    <3>4. ~(y <= k) => y = k + 1
      OBVIOUS
    <3>5. y \in 0..k => g[y] = Body(g, y)
      BY <2>1
    <3> HIDE DEF h
    <3> QED
      BY <3>1, <3>2, <3>3, <3>4, <3>5
  <2> HIDE DEF Body
  <2>3. h = [y \in 0..k + 1 |-> Body(h, y)]
    BY <2>2
  <2> HIDE DEF h
  <2> QED
    BY <2>3
<1> HIDE DEF Upto, P
<1>3. P[0] /\ \A k \in Nat : P[k] => P[k + 1]
  BY <1>1, <1>2, <1>p
<1>4. Upto(height)
  BY <1>3, <1>p, Induction
<1> DEFINE s == Rows(F, height)
<1>5. s = [y \in 0..height |-> Body(s, y)]
  <2> HIDE DEF Body
  <2> QED
    BY <1>4, <1>k DEF Upto
<1> HIDE DEF s
<1>6. \A y \in 0..height : s[y] = Body(s, y)
  <2> HIDE DEF Body
  <2> QED
    BY <1>5
<1> QED
  BY <1>6 DEF s

(* The pixels of a row that are valid in every frame. *)
Valid(F, y, c) == \A p \in F : p[y][1] <= c /\ c <= p[y][2]

LEMMA CommonRunIs ==
  ASSUME NEW height \in Nat, NEW F \in SUBSET [1..height -> Int \X Int], IsFiniteSet(F),
         NEW y \in 1..height, NEW c \in 0..(Width - 1)
  PROVE  /\ CommonRun(F, y).first \in Int /\ CommonRun(F, y).last \in Int
         /\ CommonRun(F, y).first <= c /\ c <= CommonRun(F, y).last <=> Valid(F, y, c)
<1> DEFINE firsts == {0} \cup {p[y][1] : p \in F}
           lasts  == {Width - 1} \cup {p[y][2] : p \in F}
           f == [p \in F |-> p[y][1]]
           g == [p \in F |-> p[y][2]]
<1>w. Width \in Nat /\ c \in Int
  BY CropAssumption
<1>1. \A p \in F : p[y][1] \in Int /\ p[y][2] \in Int
  OBVIOUS
<1>2. IsFiniteSet({f[p] : p \in F}) /\ IsFiniteSet({g[p] : p \in F})
  <2> HIDE DEF f, g
  <2> QED
    BY ONLY IsFiniteSet(F), FiniteImage, ZenonT(60)
<1>3. {f[p] : p \in F} = {p[y][1] : p \in F} /\ {g[p] : p \in F} = {p[y][2] : p \in F}
  OBVIOUS
<1>4. IsFiniteSet(firsts) /\ IsFiniteSet(lasts)
  BY <1>2, <1>3, FS_Singleton, FS_Union
<1>5. /\ firsts \in SUBSET Int /\ firsts # {} /\ 0 \in firsts /\ \A p \in F : p[y][1] \in firsts
      /\ lasts \in SUBSET Int /\ lasts # {} /\ Width - 1 \in lasts /\ \A p \in F : p[y][2] \in lasts
  BY <1>1, <1>w
<1>6. /\ \A a \in firsts : a = 0 \/ \E p \in F : a = p[y][1]
      /\ \A a \in lasts : a = Width - 1 \/ \E p \in F : a = p[y][2]
  OBVIOUS
<1>7. CommonRun(F, y).first = Max(firsts) /\ CommonRun(F, y).last = Min(lasts)
  BY DEF CommonRun
<1> HIDE DEF firsts, lasts
<1> DEFINE low == Max(firsts)
           high == Min(lasts)
<1>8. low \in firsts /\ \A a \in firsts : low >= a
  BY <1>4, <1>5, MaxIs
<1>9. high \in lasts /\ \A a \in lasts : high <= a
  BY <1>4, <1>5, MinIs
<1> HIDE DEF low, high
<1>10. low \in Int /\ high \in Int
  BY <1>5, <1>8, <1>9
<1>11. ASSUME low <= c, c <= high PROVE Valid(F, y, c)
  <2> SUFFICES ASSUME NEW p \in F PROVE p[y][1] <= c /\ c <= p[y][2]
    BY DEF Valid
  <2>1. low >= p[y][1] /\ high <= p[y][2]
    BY <1>5, <1>8, <1>9
  <2> QED
    BY <1>1, <1>10, <1>11, <1>w, <2>1
<1>12. ASSUME Valid(F, y, c) PROVE low <= c /\ c <= high
  <2>1. low <= c
    <3>1. CASE low = 0
      BY <3>1
    <3>2. CASE \E p \in F : low = p[y][1]
      BY <1>12, <3>2 DEF Valid
    <3> QED
      BY <1>6, <1>8, <3>1, <3>2
  <2>2. c <= high
    <3>1. CASE high = Width - 1
      BY <3>1, <1>w
    <3>2. CASE \E p \in F : high = p[y][2]
      BY <1>12, <3>2 DEF Valid
    <3> QED
      BY <1>6, <1>9, <3>1, <3>2
  <2> QED
    BY <2>1, <2>2
<1> QED
  BY <1>7, <1>10, <1>11, <1>12 DEF low, high

(* heights[c + 1] counts the valid rows that end in row y at column c. *)
Counted(F, y, H) ==
  /\ H \in Heights
  /\ \A c \in 0..(Width - 1), k \in Positive :
       H[c + 1] >= k <=> k <= y /\ \A r \in ((y + 1) - k)..y : Valid(F, r, c)

LEMMA NextCounted ==
  ASSUME NEW height \in Nat, NEW F \in SUBSET [1..height -> Int \X Int], IsFiniteSet(F),
         NEW y \in 1..height, NEW H, Counted(F, y - 1, H)
  PROVE  Counted(F, y, NextHeights(H, CommonRun(F, y)))
<1> DEFINE N == NextHeights(H, CommonRun(F, y))
<1>w. Width \in Nat /\ y \in Nat /\ H \in Heights
  BY CropAssumption DEF Counted
<1>1. \A c \in 0..(Width - 1) :
        c + 1 \in 1..Width /\ N[c + 1] = IF Valid(F, y, c) THEN H[c + 1] + 1 ELSE 0
  <2> SUFFICES ASSUME NEW c \in 0..(Width - 1)
               PROVE  c + 1 \in 1..Width /\ N[c + 1] = IF Valid(F, y, c) THEN H[c + 1] + 1 ELSE 0
    OBVIOUS
  <2> DEFINE run == CommonRun(F, y)
  <2>1. run.first \in Int /\ run.last \in Int /\ (run.first <= c /\ c <= run.last <=> Valid(F, y, c))
    BY CommonRunIs
  <2>2. c + 1 \in 1..Width /\ c \in Int
    BY <1>w
  <2>3. N[c + 1] = IF run.first + 1 <= c + 1 /\ c + 1 <= run.last + 1 THEN H[c + 1] + 1 ELSE 0
    BY <2>2 DEF NextHeights
  <2> HIDE DEF run, N
  <2>4. (run.first + 1 <= c + 1 /\ c + 1 <= run.last + 1) <=> Valid(F, y, c)
    BY <2>1, <2>2
  <2> QED
    BY <2>2, <2>3, <2>4
<1>2. N \in Heights
  <2>1. \A c \in 1..Width : H[c] + 1 \in Nat
    BY <1>w DEF Heights
  <2> QED
    BY <2>1 DEF NextHeights, Heights
<1> HIDE DEF N
<1>3. ASSUME NEW c \in 0..(Width - 1), NEW k \in Positive
      PROVE  N[c + 1] >= k <=> k <= y /\ \A r \in ((y + 1) - k)..y : Valid(F, r, c)
  <2>1. k \in Nat /\ k >= 1 /\ H[c + 1] \in Nat
    BY <1>1, <1>w DEF Positive, Heights
  <2>2. CASE ~Valid(F, y, c)
    <3>1. y \in ((y + 1) - k)..y
      BY <1>w, <2>1
    <3>2. N[c + 1] = 0
      BY <1>1, <2>2
    <3> QED
      BY <2>1, <2>2, <3>1, <3>2
  <2>3. CASE Valid(F, y, c)
    <3>1. N[c + 1] = H[c + 1] + 1
      BY <1>1, <2>3
    <3>2. CASE k = 1
      <4>1. \A r \in ((y + 1) - k)..y : r = y
        BY <1>w, <3>2
      <4> QED
        BY <1>w, <2>1, <2>3, <3>1, <3>2, <4>1
    <3>3. CASE k # 1
      <4>1. k - 1 \in Positive /\ (((y - 1) + 1) - (k - 1)) = (y + 1) - k /\ (k - 1 <= y - 1 <=> k <= y)
        BY <1>w, <2>1, <3>3 DEF Positive
      <4>2. H[c + 1] >= k - 1 <=>
              k - 1 <= y - 1 /\ \A r \in (((y - 1) + 1) - (k - 1))..(y - 1) : Valid(F, r, c)
        BY <4>1 DEF Counted
      <4>3. N[c + 1] >= k <=> H[c + 1] >= k - 1
        BY <2>1, <3>1
      <4>4. /\ \A r \in ((y + 1) - k)..y : r = y \/ r \in ((y + 1) - k)..(y - 1)
            /\ \A r \in ((y + 1) - k)..(y - 1) : r \in ((y + 1) - k)..y
        BY <1>w, <2>1
      <4>5. (\A r \in ((y + 1) - k)..y : Valid(F, r, c))
              <=> \A r \in ((y + 1) - k)..(y - 1) : Valid(F, r, c)
        BY <2>3, <4>4
      <4> QED
        BY <4>1, <4>2, <4>3, <4>5
    <3> QED
      BY <3>2, <3>3
  <2> QED
    BY <2>2, <2>3
<1> QED
  BY <1>2, <1>3 DEF Counted, N

Rect(t, l, b, z) == <<(b - t) * (z - l), t, l, b, z>>

LEMMA RectTuple ==
  ASSUME NEW t \in Int, NEW l \in Int, NEW b \in Int, NEW z \in Int
  PROVE  Rect(t, l, b, z) \in Tuples
<1>1. (b - t) * (z - l) \in Int
  OBVIOUS
<1> QED
  BY <1>1 DEF Rect, Tuples

LEMMA RectanglesAre ==
  ASSUME NEW height \in Nat
  PROVE  /\ \A t, b \in 0..height, l, z \in 0..Width :
              t < b /\ l < z => Rect(t, l, b, z) \in Rectangles(height)
         /\ \A r \in Rectangles(height) : \E t, b \in 0..height, l, z \in 0..Width :
              t < b /\ l < z /\ r = Rect(t, l, b, z)
         /\ Rectangles(height) \in SUBSET Tuples
<1>w. Width \in Nat
  BY CropAssumption
<1>1. ASSUME NEW t \in 0..height, NEW b \in 0..height, NEW l \in 0..Width, NEW z \in 0..Width,
             t < b, l < z
      PROVE  Rect(t, l, b, z) \in Rectangles(height)
  <2> DEFINE s == <<t, l, b, z>>
  <2>1. /\ s \in (0..height) \X (0..Width) \X (0..height) \X (0..Width)
        /\ s[1] = t /\ s[2] = l /\ s[3] = b /\ s[4] = z
    OBVIOUS
  <2>2. s[1] < s[3] /\ s[2] < s[4]
    BY <1>1, <2>1
  <2>3. Rect(t, l, b, z) = <<(s[3] - s[1]) * (s[4] - s[2]), s[1], s[2], s[3], s[4]>>
    BY DEF Rect
  <2> HIDE DEF s
  <2> QED
    BY <2>1, <2>2, <2>3 DEF Rectangles
<1>2. ASSUME NEW r \in Rectangles(height)
      PROVE  \E t, b \in 0..height, l, z \in 0..Width : t < b /\ l < z /\ r = Rect(t, l, b, z)
  <2>1. PICK s \in (0..height) \X (0..Width) \X (0..height) \X (0..Width) :
          s[1] < s[3] /\ s[2] < s[4] /\ r = <<(s[3] - s[1]) * (s[4] - s[2]), s[1], s[2], s[3], s[4]>>
    BY DEF Rectangles
  <2>2. s[1] \in 0..height /\ s[2] \in 0..Width /\ s[3] \in 0..height /\ s[4] \in 0..Width
    BY <2>1
  <2> QED
    BY <2>1, <2>2 DEF Rect
<1>3. ASSUME NEW r \in Rectangles(height) PROVE r \in Tuples
  <2>1. \A t, b \in 0..height, l, z \in 0..Width : Rect(t, l, b, z) \in Tuples
    BY <1>w, RectTuple
  <2> QED
    BY <1>2, <2>1
<1> QED
  BY <1>1, <1>2, <1>3

(* A rectangle whose pixels are valid is a bar of its lowest row. *)
LEMMA CoveredIsHeld ==
  ASSUME NEW height \in Nat, NEW F \in SUBSET [1..height -> Int \X Int],
         NEW t \in Nat, NEW b \in 0..height, NEW l \in 0..Width, NEW z \in 0..Width,
         t < b, l < z, NEW H, Counted(F, b, H)
  PROVE  /\ Covered(F, Rect(t, l, b, z)) <=> Held(H, l, z, b - t)
         /\ b - t \in Positive /\ b - 1 \in Nat
         /\ Rect(t, l, b, z) = Bar(b - 1, l, z, b - t)
<1>w. Width \in Nat /\ b \in Nat /\ l \in Nat /\ z \in Nat /\ z <= Width
  BY CropAssumption
<1>1. b - t \in Positive /\ b - 1 \in Nat /\ (b - 1) + 1 = b /\ b - (b - t) = t
      /\ (b + 1) - (b - t) = t + 1 /\ b - t <= b
  BY <1>w DEF Positive
<1>2. Rect(t, l, b, z) = Bar(b - 1, l, z, b - t)
  BY <1>1 DEF Rect, Bar
<1>3. Covered(F, Rect(t, l, b, z)) <=>
        \A p \in F : \A r \in (t + 1)..b : p[r][1] <= l /\ z - 1 <= p[r][2]
  BY DEF Covered, Rect
<1>4. Held(H, l, z, b - t) <=> \A c \in l..(z - 1) : \A r \in (t + 1)..b : Valid(F, r, c)
  <2>1. \A c \in l..(z - 1) : c \in 0..(Width - 1) /\ c \in 0..Width /\ c # Width
    BY <1>w
  <2>2. \A c \in l..(z - 1) : Level(H, c) = H[c + 1]
    BY <2>1, LevelIs DEF Counted
  <2>3. \A c \in l..(z - 1) : H[c + 1] >= b - t <=> \A r \in (t + 1)..b : Valid(F, r, c)
    BY <1>1, <2>1 DEF Counted
  <2> QED
    BY <2>2, <2>3 DEF Held
<1>5. ASSUME NEW p \in F, NEW r \in (t + 1)..b
      PROVE  p[r][1] <= l /\ z - 1 <= p[r][2] <=>
               \A c \in l..(z - 1) : p[r][1] <= c /\ c <= p[r][2]
  <2>1. r \in 1..height
    BY <1>w
  <2>2. p[r][1] \in Int /\ p[r][2] \in Int
    BY <2>1
  <2>3. l \in l..(z - 1) /\ z - 1 \in l..(z - 1)
    BY <1>w
  <2> QED
    BY <1>w, <2>2, <2>3
<1>6. (\A p \in F : \A r \in (t + 1)..b : p[r][1] <= l /\ z - 1 <= p[r][2])
        <=> \A c \in l..(z - 1) : \A r \in (t + 1)..b : Valid(F, r, c)
  BY <1>5 DEF Valid
<1> QED
  BY <1>1, <1>2, <1>3, <1>4, <1>6

(* After y rows the best rectangle is valid, and no valid one that ends in *)
(* these rows is larger.                                                   *)
CropOK(F, height, y, best) ==
  /\ best = NoRectangle \/ best \in {r \in Rectangles(height) : Covered(F, r)}
  /\ \A t, b \in 0..y, l, z \in 0..Width :
       t < b /\ l < z /\ Covered(F, Rect(t, l, b, z)) => ~Larger(Rect(t, l, b, z), best)

LEMMA NextCropOK ==
  ASSUME NEW height \in Nat, NEW F \in SUBSET [1..height -> Int \X Int], IsFiniteSet(F),
         NEW y \in 1..height, NEW before,
         Counted(F, y - 1, before.heights), CropOK(F, height, y - 1, before.best)
  PROVE  LET after == RowAfter(before, F, y)
         IN Counted(F, y, after.heights) /\ CropOK(F, height, y, after.best)
<1> DEFINE H == NextHeights(before.heights, CommonRun(F, y))
           hist == HistogramRectangle(H, y - 1)
           old == before.best
           best == LargestOf({old, hist})
<1>w. Width \in Nat /\ y \in Nat /\ y - 1 \in Nat
  BY CropAssumption
<1>1. RowAfter(before, F, y) = [heights |-> H, best |-> best]
  BY DEF RowAfter
<1>2. Counted(F, y, H)
  BY NextCounted
<1>3. /\ Genuine(H, y - 1, hist)
      /\ \A l, z \in 0..Width, k \in Positive :
           l < z /\ Held(H, l, z, k) => ~Larger(Bar(y - 1, l, z, k), hist)
  BY <1>2, <1>w, HistogramIs DEF Counted
<1> HIDE DEF H, hist
<1>4. NoRectangle \in Tuples
  BY DEF NoRectangle, Tuples
<1>5. old \in Tuples /\ hist \in Tuples
  BY <1>3, <1>4, <1>w, GenuineTuple, RectanglesAre DEF CropOK
<1>6. IsFiniteSet({old, hist})
  <2>1. {old, hist} = {old} \cup {hist} /\ IsFiniteSet({old})
    BY FS_Singleton
  <2>2. IsFiniteSet({old} \cup {hist})
    BY <2>1, FS_AddElement
  <2> QED
    BY <2>1, <2>2
<1>7. best \in {old, hist} /\ ~Larger(old, best) /\ ~Larger(hist, best) /\ best \in Tuples
  BY <1>5, <1>6, LargestIs
<1> HIDE DEF best
<1>8. hist = NoRectangle \/ hist \in {r \in Rectangles(height) : Covered(F, r)}
  <2> SUFFICES ASSUME NEW l \in 0..Width, NEW z \in 0..Width, NEW k \in Positive,
                      l < z, Held(H, l, z, k), hist = Bar(y - 1, l, z, k)
               PROVE  hist \in {r \in Rectangles(height) : Covered(F, r)}
    BY <1>3 DEF Genuine
  <2> DEFINE t == y - k
  <2>1. k <= y
    <3>1. l \in l..(z - 1) /\ l \in 0..(Width - 1) /\ l \in 0..Width /\ l # Width
      BY <1>w
    <3>2. H[l + 1] >= k
      BY <1>2, <3>1, LevelIs DEF Held, Counted
    <3> QED
      BY <1>2, <3>1, <3>2 DEF Counted
  <2>2. t \in Nat /\ t < y /\ y - t = k /\ t \in 0..height /\ y \in 0..height
    BY <1>w, <2>1 DEF Positive
  <2> HIDE DEF t
  <2>3. /\ Covered(F, Rect(t, l, y, z)) <=> Held(H, l, z, y - t)
        /\ Rect(t, l, y, z) = Bar(y - 1, l, z, y - t)
    <3>1. /\ height \in Nat /\ F \in SUBSET [1..height -> Int \X Int]
          /\ t \in Nat /\ y \in 0..height /\ l \in 0..Width /\ z \in 0..Width
          /\ t < y /\ l < z /\ Counted(F, y, H)
      BY <1>2, <2>2
    <3>2. Covered(F, Rect(t, l, y, z)) <=> Held(H, l, z, y - t)
      BY ONLY <3>1, CoveredIsHeld, Zenon
    <3>3. Rect(t, l, y, z) = Bar(y - 1, l, z, y - t)
      BY <1>w, <3>1 DEF Rect, Bar
    <3> QED
      BY <3>2, <3>3
  <2>4. hist = Rect(t, l, y, z) /\ Covered(F, hist)
    BY <2>2, <2>3
  <2>5. hist \in Rectangles(height)
    BY <2>2, <2>4, RectanglesAre
  <2> QED
    BY <2>4, <2>5
<1>9. ASSUME NEW t \in 0..y, NEW b \in 0..y, NEW l \in 0..Width, NEW z \in 0..Width,
             t < b, l < z, Covered(F, Rect(t, l, b, z))
      PROVE  ~Larger(Rect(t, l, b, z), best)
  <2>1. Rect(t, l, b, z) \in Tuples
    BY <1>w, RectTuple
  <2>2. CASE b = y
    <3>1. /\ height \in Nat /\ F \in SUBSET [1..height -> Int \X Int]
          /\ t \in Nat /\ b \in 0..height /\ l \in 0..Width /\ z \in 0..Width
          /\ t < b /\ l < z /\ Counted(F, b, H)
      BY <1>w, <1>2, <1>9, <2>2
    <3>3. /\ Held(H, l, z, b - t) /\ b - t \in Positive
          /\ Rect(t, l, b, z) = Bar(b - 1, l, z, b - t)
      <4>1. Covered(F, Rect(t, l, b, z)) <=> Held(H, l, z, b - t)
        BY ONLY <3>1, CoveredIsHeld, Zenon
      <4>2. b - t \in Positive
        BY <3>1 DEF Positive
      <4>3. Rect(t, l, b, z) = Bar(b - 1, l, z, b - t)
        BY <1>w, <3>1 DEF Rect, Bar
      <4> QED
        BY <1>9, <4>1, <4>2, <4>3
    <3>4. ~Larger(Rect(t, l, b, z), hist)
      BY <1>3, <1>9, <2>2, <3>3
    <3> QED
      BY <1>5, <1>7, <2>1, <3>4, LargerOrder
  <2>3. CASE b # y
    <3>1. t \in 0..(y - 1) /\ b \in 0..(y - 1)
      BY <1>w, <1>9, <2>3
    <3>2. ~Larger(Rect(t, l, b, z), old)
      BY <1>9, <3>1 DEF CropOK
    <3> QED
      BY <1>5, <1>7, <2>1, <3>2, LargerOrder
  <2> QED
    BY <2>2, <2>3
<1>10. CropOK(F, height, y, best)
  BY <1>7, <1>8, <1>9 DEF CropOK
<1> QED
  BY <1>1, <1>2, <1>10

(* The scan of _common_valid_crop finds the largest rectangle that every   *)
(* frame covers.                                                           *)
LEMMA CropIs ==
  ASSUME NEW height \in Nat, NEW F \in SUBSET [1..height -> Int \X Int], IsFiniteSet(F)
  PROVE  CommonValidCrop(F, height) = LargestCovered(F, height)
<1> DEFINE s == Rows(F, height)
           Through(y) == y <= height => Counted(F, y, s[y].heights) /\ CropOK(F, height, y, s[y].best)
           P == [y \in Nat |-> Through(y)]
<1>w. Width \in Nat
  BY CropAssumption
<1>1. Through(0)
  <2>1. s[0] = NoRows
    BY RowsStep
  <2>2. Counted(F, 0, NoRows.heights)
    <3>1. NoRows.heights \in Heights /\ \A c \in 0..(Width - 1) : NoRows.heights[c + 1] = 0
      BY <1>w DEF NoRows, Heights
    <3>2. \A k \in Positive : ~(k <= 0) /\ ~(0 >= k)
      BY DEF Positive
    <3> QED
      BY <3>1, <3>2 DEF Counted
  <2>3. CropOK(F, height, 0, NoRows.best)
    <3>1. \A t, b \in 0..0 : ~(t < b)
      OBVIOUS
    <3> QED
      BY <3>1 DEF CropOK, NoRows
  <2> HIDE DEF s
  <2> QED
    BY <2>1, <2>2, <2>3
<1>2. ASSUME NEW y \in Nat, Through(y) PROVE Through(y + 1)
  <2> SUFFICES ASSUME y + 1 <= height
               PROVE  Counted(F, y + 1, s[y + 1].heights) /\ CropOK(F, height, y + 1, s[y + 1].best)
    OBVIOUS
  <2>1. y + 1 \in 0..height /\ y + 1 \in 1..height /\ y + 1 # 0 /\ (y + 1) - 1 = y
    OBVIOUS
  <2>2. s[y + 1] = RowAfter(s[y], F, y + 1)
    BY <2>1, RowsStep
  <2> HIDE DEF s
  <2>3. Counted(F, (y + 1) - 1, s[y].heights) /\ CropOK(F, height, (y + 1) - 1, s[y].best)
    BY <1>2, <2>1
  <2> QED
    BY <2>1, <2>2, <2>3, NextCropOK
<1>3. \A y \in Nat : P[y] <=> Through(y)
  OBVIOUS
<1> HIDE DEF P, Through
<1>4. P[0] /\ \A y \in Nat : P[y] => P[y + 1]
  BY <1>1, <1>2, <1>3
<1>5. Through(height)
  BY <1>3, <1>4, Induction
<1> DEFINE best == CommonValidCrop(F, height)
           valid == {NoRectangle} \cup {r \in Rectangles(height) : Covered(F, r)}
<1>6. CropOK(F, height, height, best)
  BY <1>5 DEF Through, CommonValidCrop
<1> HIDE DEF best
<1>7. valid \in SUBSET Tuples /\ best \in valid
  <2>1. NoRectangle \in Tuples
    BY DEF NoRectangle, Tuples
  <2> QED
    BY <1>6, <2>1, RectanglesAre DEF CropOK
<1>8. ASSUME NEW r \in valid PROVE ~Larger(r, best)
  <2>1. CASE r = NoRectangle
    <3>1. ASSUME NEW t \in 0..height, NEW b \in 0..height, NEW l \in 0..Width, NEW z \in 0..Width,
                 t < b, l < z
          PROVE  ~Larger(NoRectangle, Rect(t, l, b, z))
      <4>1. b - t \in Positive /\ z - l \in Positive
        BY <1>w, <3>1 DEF Positive
      <4>2. (b - t) * (z - l) > 0 /\ (b - t) * (z - l) \in Int
        BY <4>1 DEF Positive
      <4>3. NoRectangle \in Tuples /\ NoRectangle[1] = 0
        BY DEF NoRectangle, Tuples
      <4>4. Rect(t, l, b, z) \in Tuples /\ Rect(t, l, b, z)[1] = (b - t) * (z - l)
        BY <1>w, RectTuple DEF Rect
      <4> QED
        BY <4>2, <4>3, <4>4, LargerIs
    <3>2. ~Larger(NoRectangle, NoRectangle)
      BY LargerOrder DEF NoRectangle, Tuples
    <3>3. best = NoRectangle \/ best \in Rectangles(height)
      BY <1>6 DEF CropOK
    <3> QED
      BY <2>1, <3>1, <3>2, <3>3, RectanglesAre
  <2>2. CASE r \in Rectangles(height) /\ Covered(F, r)
    <3>1. PICK t \in 0..height, b \in 0..height, l \in 0..Width, z \in 0..Width :
            t < b /\ l < z /\ r = Rect(t, l, b, z)
      BY <2>2, RectanglesAre
    <3> QED
      BY <1>6, <2>2, <3>1 DEF CropOK
  <2> QED
    BY <2>1, <2>2
<1>9. LargestOf(valid) = best
  BY <1>7, <1>8, LargestUnique
<1> QED
  BY <1>9 DEF LargestCovered, best

-----------------------------------------------------------------------------
(* The footprints of a run are rows of runs. *)
LandingInv == stage = "pass" => landing \in [Lights -> [1..Height -> Int \X Int]]

LEMMA LandingInvNext == ASSUME LandingInv, [PixelNext]_vars PROVE LandingInv'
<1> SUFFICES ASSUME stage' = "pass" PROVE LandingInv'
  BY DEF LandingInv
<1>1. CASE StartIntegration
  <2>1. PICK start \in Starts : landing' = start.landing
    BY <1>1 DEF StartIntegration
  <2> QED
    BY <2>1, PixelAssumption DEF LandingInv
<1>2. ASSUME NEW removed, stage = "pass", IntegrateAgain(removed) PROVE LandingInv'
  BY <1>2 DEF LandingInv, IntegrateAgain
<1>3. CASE ManifestRests
  BY <1>3 DEF LandingInv, ManifestRests
<1> QED
  BY <1>1, <1>2, <1>3, ManifestSteps

LEMMA LandingsAreRows == PixelSpec => []LandingInv
<1>1. PixelInit => LandingInv
  BY DEF PixelInit, ScreenInit, LandingInv
<1> QED
  BY <1>1, LandingInvNext, PTL DEF PixelSpec

(* However many Lights and rows, the rectangle a filter is cropped to is   *)
(* covered by every Light of it, and no rectangle that is comes before it  *)
(* by area and then by position (_common_valid_crop, histogram_rectangle). *)
THEOREM CropsAreLargest == PixelSpec => []CropIsLargest
<1>1. RunInv /\ LandingInv => CropIsLargest
  <2> SUFFICES ASSUME RunInv, LandingInv, stage = "pass", NEW name \in Names(present)
               PROVE  FilterCrop(present, name) =
                        LargestCovered({landing[f] : f \in {g \in present : Filter[g] = name}}, Height)
    BY DEF CropIsLargest
  <2> DEFINE frames == {g \in present : Filter[g] = name}
             F == {landing[f] : f \in frames}
  <2>1. frames \in SUBSET Lights /\ landing \in [Lights -> [1..Height -> Int \X Int]]
    BY PresentAreLights DEF LandingInv
  <2>2. IsFiniteSet(frames)
    BY <2>1, LightsAreNumbers, FS_Subset
  <2> HIDE DEF frames
  <2>3. F \in SUBSET [1..Height -> Int \X Int] /\ IsFiniteSet(F)
    BY <2>1, <2>2, FiniteImage
  <2>4. Height \in Nat
    BY PixelAssumption
  <2> HIDE DEF F
  <2>5. CommonValidCrop(F, Height) = LargestCovered(F, Height)
    BY <2>3, <2>4, CropIs
  <2> QED
    BY <2>5 DEF F, frames, FilterCrop
<1> QED
  BY <1>1, RunsOfPasses, LandingsAreRows, PTL
-----------------------------------------------------------------------------
(* Calibration: the groups of a library (group_calibration).               *)
Files == {c \in SUBSET DOMAIN Shot : IsFiniteSet(c)}

LEMMA FirstIs ==
  ASSUME NEW g \in SUBSET DOMAIN Shot, g # {}
  PROVE  FirstOf(g) \in g /\ \A d \in g : FirstOf(g) <= d
<1>1. \E c \in g : \A d \in g : c <= d
  BY CalibrationAssumption, HasLeast
<1> QED BY <1>1 DEF FirstOf

(* The groups before those of an equal key are left.                       *)
RawGroup(L, kind, c) == {d \in RawOf(L, kind) : GroupIdentity(Shot[d]) = GroupIdentity(Shot[c])}
AllGroups(L, kind) == {RawGroup(L, kind, c) : c \in RawOf(L, kind)} \cup {{c} : c \in MastersOf(L, kind)}

LEMMA GroupsAre ==
  ASSUME NEW L, NEW kind
  PROVE  GroupCalibration(L, kind) = {g \in AllGroups(L, kind) : ~Overwritten(g, AllGroups(L, kind))}
<1>1. /\ RawOf(L, kind) = {c \in {d \in L : Shot[d].kind = kind} : ~Shot[c].supplied}
      /\ MastersOf(L, kind) = {c \in L : Shot[c].kind = kind} \ RawOf(L, kind)
  BY DEF RawOf, MastersOf, OfKind
<1> QED BY <1>1 DEF GroupCalibration, AllGroups, RawGroup

LEMMA TraitsAre ==
  \A c \in DOMAIN Shot : Shot[c] \in TraitsOf(Kinds)
BY CalibrationAssumption

LEMMA GroupIs ==
  ASSUME NEW L \in SUBSET DOMAIN Shot, NEW kind, NEW g \in AllGroups(L, kind)
  PROVE  /\ g \in SUBSET OfKind(L, kind) /\ g # {} /\ FirstOf(g) \in g
         /\ Traits(g) \in TraitsOf(Kinds) /\ Traits(g).kind = kind
         /\ \A d \in g : Shot[d].supplied = Supplied(g)
                         /\ GroupIdentity(Shot[d]) = GroupIdentity(Traits(g))
         /\ Supplied(g) => g = {FirstOf(g)}
         /\ ~Supplied(g) => g = RawGroup(L, kind, FirstOf(g))
<1>1. /\ RawOf(L, kind) = {c \in L : Shot[c].kind = kind /\ ~Shot[c].supplied}
      /\ MastersOf(L, kind) = {c \in L : Shot[c].kind = kind /\ Shot[c].supplied}
  BY DEF RawOf, MastersOf, OfKind
<1>2. /\ g \in SUBSET OfKind(L, kind) /\ g # {}
      /\ \/ (\A d \in g : Shot[d].supplied) /\ \E c \in g : g = {c}
         \/ (\A d \in g : ~Shot[d].supplied) /\ \E c \in g : g = RawGroup(L, kind, c)
  <2>1. CASE \E c \in RawOf(L, kind) : g = RawGroup(L, kind, c)
    <3>1. PICK c \in RawOf(L, kind) : g = RawGroup(L, kind, c)
      BY <2>1
    <3>2. g \subseteq RawOf(L, kind) /\ c \in g
      BY <3>1 DEF RawGroup
    <3> QED BY <1>1, <3>1, <3>2 DEF OfKind
  <2>2. CASE \E c \in MastersOf(L, kind) : g = {c}
    BY <1>1, <2>2 DEF OfKind
  <2> QED BY <2>1, <2>2 DEF AllGroups
<1>3. g \in SUBSET DOMAIN Shot
  BY <1>2 DEF OfKind
<1>4. FirstOf(g) \in g
  BY <1>2, <1>3, FirstIs
<1>5. Traits(g) \in TraitsOf(Kinds) /\ Traits(g).kind = kind
  BY <1>2, <1>3, <1>4, TraitsAre DEF Traits, OfKind
<1>6. CASE (\A d \in g : Shot[d].supplied) /\ \E c \in g : g = {c}
  <2>1. g = {FirstOf(g)}
    BY <1>4, <1>6
  <2>2. \A d \in g : d = FirstOf(g)
    BY <2>1
  <2>3. Supplied(g) = Shot[FirstOf(g)].supplied
    BY DEF Supplied, Traits
  <2>4. Supplied(g)
    BY <1>4, <1>6, <2>3
  <2> QED BY <1>2, <1>4, <1>5, <2>1, <2>2, <2>3, <2>4 DEF Traits
<1>7. CASE (\A d \in g : ~Shot[d].supplied) /\ \E c \in g : g = RawGroup(L, kind, c)
  <2>1. PICK c \in g : g = RawGroup(L, kind, c)
    BY <1>7
  <2>2. \A d \in g : GroupIdentity(Shot[d]) = GroupIdentity(Shot[c])
    BY <2>1 DEF RawGroup
  <2>3. GroupIdentity(Shot[FirstOf(g)]) = GroupIdentity(Shot[c])
    BY <1>4, <2>2
  <2>4. RawGroup(L, kind, FirstOf(g)) = RawGroup(L, kind, c)
    BY <2>3 DEF RawGroup
  <2>5. g = RawGroup(L, kind, FirstOf(g))
    BY <2>1, <2>4, Zenon
  <2>6. \A d \in g : Shot[d].supplied = FALSE
    <3>1. \A d \in g : Shot[d].supplied \in BOOLEAN
      BY <1>3, TraitsAre DEF TraitsOf
    <3> QED BY <1>7, <3>1
  <2>7. Supplied(g) = FALSE
    BY <1>4, <2>6 DEF Supplied, Traits
  <2>8. \A d \in g : GroupIdentity(Shot[d]) = GroupIdentity(Traits(g))
    BY <2>2, <2>3 DEF Traits
  <2> QED BY <1>2, <1>4, <1>5, <2>5, <2>6, <2>7, <2>8
<1> QED BY <1>2, <1>6, <1>7

LEMMA GroupWith ==
  ASSUME NEW L \in SUBSET DOMAIN Shot, NEW kind, NEW c \in OfKind(L, kind)
  PROVE  \E g \in AllGroups(L, kind) : c \in g
<1>1. CASE Shot[c].supplied
  <2>1. {c} \in AllGroups(L, kind)
    BY <1>1 DEF AllGroups, MastersOf
  <2> QED BY <2>1
<1>2. CASE ~Shot[c].supplied
  <2>1. c \in RawOf(L, kind)
    BY <1>2 DEF RawOf, MastersOf
  <2>2. RawGroup(L, kind, c) \in AllGroups(L, kind) /\ c \in RawGroup(L, kind, c)
    BY <2>1 DEF AllGroups, RawGroup
  <2> QED BY <2>2
<1> QED BY <1>1, <1>2

LEMMA OneFirst ==
  ASSUME NEW L \in SUBSET DOMAIN Shot, NEW kind, NEW g \in AllGroups(L, kind), NEW h \in AllGroups(L, kind),
         FirstOf(g) = FirstOf(h)
  PROVE  g = h
<1>1. Supplied(g) = Supplied(h)
  BY DEF Supplied, Traits
<1>2. Supplied(g) => g = {FirstOf(g)} /\ h = {FirstOf(h)}
  BY <1>1, GroupIs
<1>3. ~Supplied(g) => g = RawGroup(L, kind, FirstOf(g)) /\ h = RawGroup(L, kind, FirstOf(h))
  BY <1>1, GroupIs
<1> QED BY <1>2, <1>3

LEMMA FirstsAreNumbers ==
  ASSUME NEW L \in SUBSET DOMAIN Shot, NEW kind
  PROVE  \A g \in AllGroups(L, kind) : FirstOf(g) \in Nat
BY CalibrationAssumption, GroupIs DEF OfKind

LEMMA GroupsAreFinite ==
  ASSUME NEW L \in Files, NEW kind
  PROVE  IsFiniteSet(AllGroups(L, kind))
<1>1. AllGroups(L, kind) \subseteq SUBSET L
  BY GroupIs DEF OfKind, Files
<1>2. IsFiniteSet(SUBSET L)
  BY FS_SUBSET DEF Files
<1> QED BY <1>1, <1>2, FS_Subset

(* Of the groups of one key one is left. *)
LEMMA Survivor ==
  ASSUME NEW L \in Files, NEW kind, NEW g \in AllGroups(L, kind)
  PROVE  \E h \in GroupCalibration(L, kind) : BaseName(h) = BaseName(g) /\ Label(h) = Label(g)
<1> DEFINE A == AllGroups(L, kind)
           T == {h \in A : BaseName(h) = BaseName(g) /\ Label(h) = Label(g)}
           R == {p \in T \X T : FirstOf(p[1]) > FirstOf(p[2])}
<1>1. L \in SUBSET DOMAIN Shot
  BY DEF Files
<1>2. IsFiniteSet(T) /\ T # {}
  BY GroupsAreFinite, FS_Subset
<1>3. \A a, b \in T : <<a, b>> \in R <=> FirstOf(a) > FirstOf(b)
  OBVIOUS
<1>4. \A a \in T : FirstOf(a) \in Nat
  BY <1>1, FirstsAreNumbers
<1>5. \E a \in T : \A b \in T : <<b, a>> \notin R
  <2> HIDE DEF T, R
  <2>1. \A a, b, c \in T : <<a, b>> \in R /\ <<b, c>> \in R => <<a, c>> \in R
    BY <1>3, <1>4
  <2>2. \A a \in T : <<a, a>> \notin R
    BY <1>3, <1>4
  <2> QED BY <1>2, <2>1, <2>2, FiniteLargest
<1>6. PICK a \in T : \A b \in T : ~(FirstOf(b) > FirstOf(a))
  BY <1>3, <1>5
<1>7. ~Overwritten(a, A)
  <2> SUFFICES ASSUME NEW other \in A, BaseName(other) = BaseName(a), Label(other) = Label(a),
                      FirstOf(a) < FirstOf(other)
               PROVE  FALSE
    BY DEF Overwritten
  <2>1. other \in T
    OBVIOUS
  <2> HIDE DEF T, A
  <2> QED BY <1>4, <1>6, <2>1
<1> QED BY <1>7, GroupsAre

-----------------------------------------------------------------------------
(* The choice of a group (_choose). *)
Suits(t, kind, g) == (kind = "FLAT" => Traits(g).filter = t.filter) /\ KeywordsCompatible(t, Traits(g))

Fitting(t, kind, groups, near) ==
  {g \in groups \cap near : Suits(t, kind, g) /\ PhysicallyCompatible(t, Traits(g))}

LEMMA ScoresAreTuples ==
  ASSUME NEW t \in TraitsOf(Kinds \cup {"LIGHT"}), NEW g, Traits(g) \in TraitsOf(Kinds)
  PROVE  Score(t, g) \in Tuples
<1>1. /\ t.exposure \in Nat /\ Traits(g).exposure \in Nat
  BY DEF TraitsOf
<1>2. ExposureDistance(t, Traits(g)) \in Int
  BY <1>1 DEF ExposureDistance
<1>3. \A b : One(b) \in Int /\ - One(b) \in Int
  BY DEF One
<1>4. (IF Traits(g).kind = "DARK" THEN ExposureDistance(t, Traits(g)) ELSE 0) \in Int
  BY <1>2
<1> QED BY <1>3, <1>4 DEF Score, Tuples

LEMMA SmallerIs ==
  ASSUME NEW r \in Tuples, NEW s \in Tuples PROVE Smaller(r, s) <=> Larger(s, r)
<1>1. DOMAIN r = 1..5 /\ DOMAIN s = 1..5
  BY DEF Tuples
<1>2. \A i \in 1..5 : r[i] \in Int /\ s[i] \in Int
  <2>1. \A i \in 1..5 : i = 1 \/ i = 2 \/ i = 3 \/ i = 4 \/ i = 5
    OBVIOUS
  <2> QED BY <2>1 DEF Tuples
<1>3. \A i \in 1..5 : \A j \in 1..(i - 1) : (r[j] = s[j]) <=> (s[j] = r[j])
  OBVIOUS
<1>4. \A i \in 1..5 : r[i] < s[i] <=> s[i] > r[i]
  BY <1>2
<1> QED BY <1>1, <1>3, <1>4 DEF Smaller, Larger

LEMMA BestIs ==
  ASSUME NEW score, IsFiniteSet(DOMAIN score), DOMAIN score # {},
         \A g \in DOMAIN score : score[g] \in Tuples /\ FirstOf(g) \in Nat,
         \A g, h \in DOMAIN score : FirstOf(g) = FirstOf(h) => g = h
  PROVE  /\ BestGroup(score) \in DOMAIN score
         /\ \A h \in DOMAIN score : ~Smaller(score[h], score[BestGroup(score)])
<1> DEFINE T == DOMAIN score
           B(g, h) == Better(score, g, h)
           R == {p \in T \X T : B(p[1], p[2])}
<1>1. \A g, h \in T : B(g, h) <=> \/ Larger(score[h], score[g])
                                  \/ score[g] = score[h] /\ FirstOf(g) < FirstOf(h)
  BY SmallerIs DEF Better
<1>2. \A a, b \in T : <<a, b>> \in R <=> B(a, b)
  OBVIOUS
<1> HIDE DEF B, R
<1>3. \A a \in T : ~B(a, a)
  BY <1>1, LargerOrder
<1>4. ASSUME NEW a \in T, NEW b \in T, NEW c \in T, B(a, b), B(b, c) PROVE B(a, c)
  <2>1. score[a] \in Tuples /\ score[b] \in Tuples /\ score[c] \in Tuples
    OBVIOUS
  <2>2. FirstOf(a) \in Nat /\ FirstOf(b) \in Nat /\ FirstOf(c) \in Nat
    OBVIOUS
  <2>3. CASE Larger(score[b], score[a]) /\ Larger(score[c], score[b])
    BY <1>1, <2>1, <2>3, LargerOrder
  <2>4. CASE score[a] = score[b] /\ score[b] = score[c]
    BY <1>1, <1>4, <2>1, <2>2, <2>4, LargerOrder
  <2>5. CASE score[a] = score[b] /\ Larger(score[c], score[b])
    BY <1>1, <2>5
  <2>6. CASE Larger(score[b], score[a]) /\ score[b] = score[c]
    BY <1>1, <2>6
  <2> QED BY <1>1, <1>4, <2>3, <2>4, <2>5, <2>6
<1>5. ASSUME NEW a \in T, NEW b \in T, a # b PROVE B(a, b) \/ B(b, a)
  <2>1. score[a] \in Tuples /\ score[b] \in Tuples
    OBVIOUS
  <2>2. FirstOf(a) < FirstOf(b) \/ FirstOf(b) < FirstOf(a)
    BY <1>5
  <2> QED BY <1>1, <2>1, <2>2, LargerOrder
<1>6. PICK a \in T : \A b \in T : <<b, a>> \notin R
  <2> HIDE DEF T
  <2>1. \A x, y, z \in T : <<x, y>> \in R /\ <<y, z>> \in R => <<x, z>> \in R
    BY <1>2, <1>4
  <2>2. \A x \in T : <<x, x>> \notin R
    BY <1>2, <1>3
  <2>3. IsFiniteSet(T) /\ T # {}
    BY DEF T
  <2> QED BY <2>1, <2>2, <2>3, FiniteLargest
<1>7. \A b \in T \ {a} : B(a, b)
  BY <1>2, <1>5, <1>6
<1>8. BestGroup(score) \in T /\ \A h \in T \ {BestGroup(score)} : B(BestGroup(score), h)
  BY <1>7 DEF BestGroup, B
<1> DEFINE best == BestGroup(score)
<1>9. ASSUME NEW h \in T PROVE ~Smaller(score[h], score[best])
  <2>0. score[h] \in Tuples /\ score[best] \in Tuples
    BY <1>8
  <2>1. CASE h = best
    BY <2>0, <2>1, SmallerIs, LargerOrder
  <2>2. CASE h # best
    <3>1. B(best, h)
      BY <1>8, <2>2
    <3>2. Larger(score[h], score[best]) \/ score[best] = score[h]
      BY <1>1, <1>8, <3>1
    <3> HIDE DEF best
    <3> QED BY <2>0, <3>2, SmallerIs, LargerOrder
  <2> QED BY <2>1, <2>2
<1> QED BY <1>8, <1>9

LEMMA ChoiceIs ==
  ASSUME NEW L \in Files, NEW kind, NEW groups \in SUBSET AllGroups(L, kind), NEW near,
         NEW t \in TraitsOf(Kinds \cup {"LIGHT"})
  PROVE  LET choice == Choose(t, kind, groups, near)
             fitting == Fitting(t, kind, groups, near)
         IN /\ fitting = {} =>
                 /\ choice.group = NoGroup /\ choice.warnings = {}
                 /\ choice.impossible <=>
                      \E g \in groups : Suits(t, kind, g) /\ ~PhysicallyCompatible(t, Traits(g))
            /\ fitting # {} =>
                 /\ choice.group \in fitting /\ choice.group # NoGroup /\ ~choice.impossible
                 /\ choice.warnings =
                      ChoiceWarnings(t, kind, Traits(choice.group),
                                     \E h \in fitting \ {choice.group} :
                                       Score(t, h) = Score(t, choice.group))
                 /\ \A h \in fitting : ~Smaller(Score(t, h), Score(t, choice.group))
<1> DEFINE matching == {g \in groups : Suits(t, kind, g)}
           fitting == Fitting(t, kind, groups, near)
           score == [g \in fitting |-> Score(t, g)]
           choice == Choose(t, kind, groups, near)
<1>1. choice = Choice(t, kind, matching, score)
  <2>1. fitting = {h \in matching \cap near : PhysicallyCompatible(t, Traits(h))}
    BY DEF Fitting
  <2> QED BY <2>1 DEF Choose, Suits
<1>2. L \in SUBSET DOMAIN Shot
  BY DEF Files
<1>3. CASE fitting = {}
  <2>1. score = <<>>
    BY <1>3
  <2>2. choice = NoChoice(t, matching)
    BY <1>1, <2>1 DEF Choice
  <2>3. /\ choice.group = NoGroup /\ choice.warnings = {}
        /\ choice.impossible <=> \E g \in matching : ~PhysicallyCompatible(t, Traits(g))
    BY <2>2 DEF NoChoice
  <2> QED BY <1>3, <2>3
<1>4. CASE fitting # {}
  <2>1. score # <<>>
    <3>1. DOMAIN score = fitting /\ DOMAIN <<>> = {}
      OBVIOUS
    <3> HIDE DEF score
    <3> QED BY <1>4, <3>1
  <2>2. choice = Chosen(t, kind, BestGroup(score), score)
    BY <1>1, <2>1 DEF Choice
  <2>3. BestGroup(score) \in fitting /\ \A h \in fitting : ~Smaller(Score(t, h), Score(t, BestGroup(score)))
    <3>1. fitting \subseteq AllGroups(L, kind)
      BY DEF Fitting
    <3>2. IsFiniteSet(fitting)
      BY <3>1, GroupsAreFinite, FS_Subset
    <3>3. \A g \in fitting : Score(t, g) \in Tuples /\ FirstOf(g) \in Nat
      BY <1>2, <3>1, GroupIs, FirstsAreNumbers, ScoresAreTuples
    <3>4. \A g, h \in fitting : FirstOf(g) = FirstOf(h) => g = h
      BY <1>2, <3>1, OneFirst
    <3>5. DOMAIN score = fitting /\ \A g \in fitting : score[g] = Score(t, g)
      OBVIOUS
    <3> HIDE DEF score, fitting
    <3>6. /\ BestGroup(score) \in DOMAIN score
          /\ \A h \in DOMAIN score : ~Smaller(score[h], score[BestGroup(score)])
      BY <1>4, <3>2, <3>3, <3>4, <3>5, BestIs
    <3> QED BY <3>5, <3>6
  <2> DEFINE best == BestGroup(score)
  <2>4. choice.group = best /\ choice.impossible = FALSE
        /\ choice.warnings = ChoiceWarnings(t, kind, Traits(best),
                                            \E h \in (DOMAIN score) \ {best} : score[h] = score[best])
    BY <2>2 DEF Chosen
  <2>5. (\E h \in (DOMAIN score) \ {best} : score[h] = score[best])
          <=> \E h \in fitting \ {best} : Score(t, h) = Score(t, best)
    <3>1. DOMAIN score = fitting /\ \A g \in fitting : score[g] = Score(t, g)
      OBVIOUS
    <3> HIDE DEF score, fitting
    <3> QED BY <2>3, <3>1
  <2>6. choice.warnings = ChoiceWarnings(t, kind, Traits(best),
                                         \E h \in fitting \ {best} : Score(t, h) = Score(t, best))
    <3> HIDE DEF best, score, fitting, choice
    <3> QED BY <2>4, <2>5 DEF ChoiceWarnings, Issue
  <2>7. best # NoGroup
    BY <1>2, <2>3, GroupIs DEF Fitting, NoGroup
  <2> HIDE DEF best, score, fitting, choice
  <2>8. best \in fitting /\ \A h \in fitting : ~Smaller(Score(t, h), Score(t, best))
    BY <2>3 DEF best
  <2> QED BY <1>4, <2>4, <2>6, <2>7, <2>8 DEF choice, fitting
<1> QED BY <1>3, <1>4

LEMMA ChosenFits ==
  ASSUME NEW L \in Files, NEW kind, NEW groups \in SUBSET AllGroups(L, kind), NEW near,
         NEW t \in TraitsOf(Kinds \cup {"LIGHT"})
  PROVE  /\ Choose(t, kind, groups, near).group # NoGroup =>
              Choose(t, kind, groups, near).group \in Fitting(t, kind, groups, near)
         /\ Fitting(t, kind, groups, near) # {} =>
              /\ Choose(t, kind, groups, near).group # NoGroup
              /\ \A h \in Fitting(t, kind, groups, near) :
                   ~Smaller(Score(t, h), Score(t, Choose(t, kind, groups, near).group))
<1> DEFINE choice == Choose(t, kind, groups, near)
           fitting == Fitting(t, kind, groups, near)
<1>1. /\ fitting = {} => choice.group = NoGroup
      /\ fitting # {} => /\ choice.group \in fitting /\ choice.group # NoGroup
                         /\ \A h \in fitting : ~Smaller(Score(t, h), Score(t, choice.group))
  BY ChoiceIs, ZenonT(60)
<1> QED BY <1>1, Zenon

LEMMA LightPairs ==
  ASSUME NEW t, NEW biases, NEW darks, NEW flats, NEW leaving
  PROVE  PairLight(t, biases, darks, flats, leaving) =
           LightPairing(Choose(t, "BIAS", biases, biases), Choose(t, "DARK", darks, darks),
                        Choose(t, "FLAT", flats, flats),
                        Choose(t, "DARK", darks, darks).group \in leaving, darks # {})
<1> DEFINE of == [BIAS |-> biases, DARK |-> darks, FLAT |-> flats]
           choice == [kind \in Kinds |-> Choose(t, kind, of[kind], of[kind])]
<1>1. PairLight(t, biases, darks, flats, leaving) =
        LightPairing(choice["BIAS"], choice["DARK"], choice["FLAT"], choice["DARK"].group \in leaving,
                     darks # {})
  BY DEF PairLight
<1>2. /\ choice["BIAS"] = Choose(t, "BIAS", biases, biases)
      /\ choice["DARK"] = Choose(t, "DARK", darks, darks)
      /\ choice["FLAT"] = Choose(t, "FLAT", flats, flats)
  BY DEF Kinds
<1> HIDE DEF choice
<1> QED BY <1>1, <1>2

NearDarks(t, biases, darks, limit) ==
  {g \in darks : biases # {} => ExposureDistance(t, Traits(g)) <= limit}

LEMMA FlatPairs ==
  ASSUME NEW t, NEW biases, NEW darks, NEW limit, NEW leaving
  PROVE  PairFlat(t, biases, darks, limit, leaving) =
           FlatPairing(Choose(t, "BIAS", biases, biases),
                       Choose(t, "DARK", darks, NearDarks(t, biases, darks, limit)), biases # {}, leaving)
<1> DEFINE of == [BIAS |-> biases, DARK |-> darks]
           near(kind) == {g \in of[kind] : kind = "DARK" /\ biases # {} =>
                                            ExposureDistance(t, Traits(g)) <= limit}
           choice == [kind \in DOMAIN of |-> Choose(t, kind, of[kind], near(kind))]
<1>1. PairFlat(t, biases, darks, limit, leaving) =
        FlatPairing(choice["BIAS"], choice["DARK"], biases # {}, leaving)
  BY DEF PairFlat
<1>2. of["BIAS"] = biases /\ of["DARK"] = darks /\ DOMAIN of = {"BIAS", "DARK"}
  OBVIOUS
<1>3. near("BIAS") = biases /\ near("DARK") = NearDarks(t, biases, darks, limit)
  BY <1>2 DEF NearDarks
<1>4. /\ choice["BIAS"] = Choose(t, "BIAS", biases, biases)
      /\ choice["DARK"] = Choose(t, "DARK", darks, NearDarks(t, biases, darks, limit))
  <2> HIDE DEF of, near
  <2> QED BY <1>2, <1>3
<1> HIDE DEF choice
<1> QED BY <1>1, <1>4

LEMMA LibraryMatches ==
  ASSUME NEW lights, NEW L, NEW limit, NEW leaving
  PROVE  LET match == MatchLibrary(lights, L, limit, leaving)
             biases == GroupCalibration(L, "BIAS")
             darks == GroupCalibration(L, "DARK")
             flats == GroupCalibration(L, "FLAT")
         IN /\ match.lights = [f \in DOMAIN lights |-> PairLight(lights[f], biases, darks, flats, leaving)]
            /\ match.flats = [g \in {h \in flats : ~Supplied(h)} |->
                                PairFlat(Traits(g), biases, darks, limit, leaving)]
<1> DEFINE G == [kind \in Kinds |-> GroupCalibration(L, kind)]
<1>1. MatchLibrary(lights, L, limit, leaving) = MatchGroups(lights, G["BIAS"], G["DARK"], G["FLAT"], limit, leaving)
  BY DEF MatchLibrary
<1>2. /\ G["BIAS"] = GroupCalibration(L, "BIAS") /\ G["DARK"] = GroupCalibration(L, "DARK")
      /\ G["FLAT"] = GroupCalibration(L, "FLAT")
  BY DEF Kinds
<1> HIDE DEF G
<1> QED BY <1>1, <1>2 DEF MatchGroups

-----------------------------------------------------------------------------
(* What is subtracted (numeric_application_scale, _calibrate_arrays). *)
LEMMA Unscaled ==
  ASSUME NEW u \in Nat, u # 0, NEW v \in Nat, NEW x \in Nat PROVE ((u * x) * v) \div u = x * v
<1> DEFINE n == x * v
<1>1. n \in Nat
  OBVIOUS
<1>2. (u * x) * v = u * n
  OBVIOUS
<1> HIDE DEF n
<1>3. (u * n) \div u = n
  BY <1>1
<1> QED BY <1>2, <1>3 DEF n

LEMMA MastersHold ==
  ASSUME NEW g, Traits(g) \in TraitsOf(Kinds), Traits(g).unit # 0,
         NEW t \in TraitsOf(Kinds \cup {"LIGHT"}), NEW W
  PROVE  /\ Traits(g).kind = "BIAS" => MasterFor(t, g, W) = [bias |-> t.unit, dark |-> 0]
         /\ Traits(g).kind = "DARK" =>
              MasterFor(t, g, W) = [bias |-> IF BiasIncluded(Traits(g), W) THEN t.unit ELSE 0,
                                    dark |-> Traits(g).exposure * t.unit]
<1> DEFINE u == Traits(g).unit   v == t.unit   e == Traits(g).exposure
<1>1. u \in Nat /\ v \in Nat /\ e \in Nat /\ u # 0
  BY DEF TraitsOf
<1>2. /\ ((u * 1) * v) \div u = v /\ ((u * 0) * v) \div u = 0 /\ ((u * e) * v) \div u = e * v
  <2> HIDE DEF u, v, e
  <2>1. ((u * 1) * v) \div u = 1 * v /\ ((u * 0) * v) \div u = 0 * v
    BY <1>1, Unscaled
  <2> QED BY <1>1, <2>1, Unscaled
<1>3. ASSUME NEW b, NEW d
      PROVE  Scaled(Pixels(Traits(g), b, d), Traits(g), t) =
               [bias |-> ((u * b) * v) \div u, dark |-> ((u * d) * v) \div u]
  BY DEF Scaled, Pixels
<1>4. ASSUME Traits(g).kind = "BIAS" PROVE MasterFor(t, g, W) = [bias |-> v, dark |-> 0]
  <2>1. Master(g, W) = Pixels(Traits(g), 1, 0)
    BY <1>4 DEF Master
  <2>2. MasterFor(t, g, W) = [bias |-> ((u * 1) * v) \div u, dark |-> ((u * 0) * v) \div u]
    BY <1>3, <2>1 DEF MasterFor
  <2> HIDE DEF u, v
  <2> QED BY <1>2, <2>2
<1>5. ASSUME Traits(g).kind = "DARK"
      PROVE  MasterFor(t, g, W) = [bias |-> IF BiasIncluded(Traits(g), W) THEN v ELSE 0, dark |-> e * v]
  <2>1. Master(g, W) = Pixels(Traits(g), One(BiasIncluded(Traits(g), W)), e)
    BY <1>5 DEF Master
  <2>2. MasterFor(t, g, W) = [bias |-> ((u * One(BiasIncluded(Traits(g), W))) * v) \div u,
                              dark |-> ((u * e) * v) \div u]
    BY <1>3, <2>1 DEF MasterFor
  <2> HIDE DEF u, v, e
  <2> QED BY <1>2, <2>2 DEF One
<1> QED BY <1>4, <1>5

(* A pairing whose groups are of their kinds and have units. *)
PairedOK(p) ==
  /\ p.bias # NoGroup =>
       Traits(p.bias) \in TraitsOf(Kinds) /\ Traits(p.bias).unit # 0 /\ Traits(p.bias).kind = "BIAS"
  /\ p.dark # NoGroup =>
       Traits(p.dark) \in TraitsOf(Kinds) /\ Traits(p.dark).unit # 0 /\ Traits(p.dark).kind = "DARK"

LEMMA SubtractedIs ==
  ASSUME NEW p, NEW t \in TraitsOf(Kinds \cup {"LIGHT"}), NEW W,
         Subtrahends(p, W) # {} => PairedOK(p)
  PROVE  LET x == Subtracted(t, p, W) IN
         /\ NeedsBias(p.dark, W) /\ p.bias = NoGroup => x.bias = t.unit
         /\ ~(NeedsBias(p.dark, W) /\ p.bias = NoGroup) => x.bias = 0
         /\ p.dark = NoGroup => x.dark = t.unit * t.exposure
         /\ p.dark # NoGroup => x.dark = t.unit * t.exposure - Traits(p.dark).exposure * t.unit
         /\ PairedOK(p) => CalibratedPreview(t, p, W) = x
<1> DEFINE v == t.unit   e == t.unit * t.exposure   zero == [bias |-> 0, dark |-> 0]
           off == [bias |-> v, dark |-> 0]
           x == Subtracted(t, p, W)
           k == Traits(p.dark).exposure * t.unit
           held == IF BiasIncluded(Traits(p.dark), W) THEN v ELSE 0
           partOf(g) == IF g \in Subtrahends(p, W) THEN MasterFor(t, g, W) ELSE Pixels(t, 0, 0)
<1>1. v \in Nat /\ e \in Nat /\ v * 1 = v /\ v * 0 = 0
  BY DEF TraitsOf
<1>2. Pixels(t, 0, 0) = zero /\ Raw(t) = [bias |-> v, dark |-> e]
  <2> HIDE DEF v
  <2>1. Pixels(t, 0, 0) = [bias |-> t.unit * 0, dark |-> t.unit * 0]
        /\ Raw(t) = [bias |-> t.unit * 1, dark |-> t.unit * t.exposure]
    BY DEF Pixels, Raw
  <2> QED BY <1>1, <2>1 DEF v
<1>3. x = Minus(Minus(Raw(t), partOf(p.bias)), partOf(p.dark))
  BY DEF Subtracted
<1>4. ~NeedsBias(p.dark, W) => p.dark # NoGroup /\ BiasIncluded(Traits(p.dark), W)
  BY DEF NeedsBias
<1>5. NeedsBias(p.dark, W) /\ p.dark # NoGroup => ~BiasIncluded(Traits(p.dark), W)
  BY DEF NeedsBias
<1>6. p.bias # NoGroup /\ PairedOK(p) => MasterFor(t, p.bias, W) = off
  BY MastersHold DEF PairedOK
<1>7. p.dark # NoGroup /\ PairedOK(p) => MasterFor(t, p.dark, W) = [bias |-> held, dark |-> k]
  BY MastersHold DEF PairedOK
<1>8. p.dark # NoGroup /\ PairedOK(p) => k \in Nat
  BY DEF PairedOK, TraitsOf
<1>9. p.dark # NoGroup => p.dark \in Subtrahends(p, W) /\ PairedOK(p)
  <2>1. p.dark # NoGroup => p.dark \in Subtrahends(p, W)
    BY DEF Subtrahends
  <2> QED BY <2>1
<1>10. p.bias # NoGroup /\ NeedsBias(p.dark, W) => p.bias \in Subtrahends(p, W) /\ PairedOK(p)
  <2>1. p.bias # NoGroup /\ NeedsBias(p.dark, W) => p.bias \in Subtrahends(p, W)
    BY DEF Subtrahends
  <2> QED BY <2>1
<1>11. p.bias # NoGroup /\ ~NeedsBias(p.dark, W) => p.bias \notin Subtrahends(p, W)
  <2> SUFFICES ASSUME p.bias # NoGroup, ~NeedsBias(p.dark, W) PROVE p.bias # p.dark
    BY DEF Subtrahends
  <2>1. PairedOK(p) /\ p.dark # NoGroup
    BY <1>4, <1>9
  <2> QED BY <2>1 DEF PairedOK
<1>12. NoGroup \notin Subtrahends(p, W)
  BY DEF Subtrahends
<1>13. partOf(p.bias) = IF p.bias # NoGroup /\ NeedsBias(p.dark, W) THEN off ELSE zero
  BY <1>2, <1>6, <1>10, <1>11, <1>12
<1>14. partOf(p.dark) = IF p.dark # NoGroup THEN [bias |-> held, dark |-> k] ELSE zero
  BY <1>2, <1>7, <1>9, <1>12
<1>15. CalibratedPreview(t, p, W) =
         LET bias == IF p.bias = NoGroup THEN zero ELSE MasterFor(t, p.bias, W)
             first == Minus(Raw(t), bias)
             dark == MasterFor(t, p.dark, W)
         IN IF p.dark = NoGroup THEN first
            ELSE IF p.bias # NoGroup /\ ~NeedsBias(p.dark, W) THEN Minus(first, Minus(dark, bias))
            ELSE Minus(first, dark)
  BY <1>2 DEF CalibratedPreview
<1>16. ~NeedsBias(p.dark, W) => held = v
  BY <1>4
<1>17. NeedsBias(p.dark, W) /\ p.dark # NoGroup => held = 0
  BY <1>5
<1> HIDE DEF partOf, x, v, e, k, held
<1>18. ASSUME NEW b \in Int, NEW d \in Int, NEW c \in Int, NEW f \in Int
       PROVE  Minus([bias |-> b, dark |-> d], [bias |-> c, dark |-> f]) = [bias |-> b - c, dark |-> d - f]
  BY DEF Minus
<1>19. CASE p.dark = NoGroup /\ p.bias = NoGroup
  <2>1. NeedsBias(p.dark, W)
    BY <1>19 DEF NeedsBias
  <2>2. x = Minus(Minus([bias |-> v, dark |-> e], zero), zero)
    BY <1>2, <1>3, <1>13, <1>14, <1>19
  <2>3. x = [bias |-> v, dark |-> e]
    BY <1>1, <1>18, <2>2
  <2>4. CalibratedPreview(t, p, W) = Minus([bias |-> v, dark |-> e], zero)
    BY <1>2, <1>15, <1>19
  <2>5. CalibratedPreview(t, p, W) = x
    BY <1>1, <1>18, <2>3, <2>4
  <2> QED BY <1>19, <2>1, <2>3, <2>5 DEF x, v, e
<1>20. CASE p.dark = NoGroup /\ p.bias # NoGroup
  <2>1. NeedsBias(p.dark, W)
    BY <1>20 DEF NeedsBias
  <2>2. x = Minus(Minus([bias |-> v, dark |-> e], off), zero)
    BY <1>2, <1>3, <1>13, <1>14, <1>20, <2>1
  <2>3. x = [bias |-> 0, dark |-> e]
    BY <1>1, <1>18, <2>2
  <2>4. CalibratedPreview(t, p, W) = Minus([bias |-> v, dark |-> e], off)
    BY <1>2, <1>6, <1>10, <1>15, <1>20, <2>1
  <2>5. CalibratedPreview(t, p, W) = x
    BY <1>1, <1>18, <2>3, <2>4
  <2> QED BY <1>20, <2>1, <2>3, <2>5 DEF x, v, e
<1>21. CASE p.dark # NoGroup
  <2>1. k \in Nat /\ MasterFor(t, p.dark, W) = [bias |-> held, dark |-> k] /\ held \in Int /\ PairedOK(p)
    <3>1. held \in Int
      BY <1>1 DEF held
    <3> QED BY <1>7, <1>8, <1>9, <1>21, <3>1 DEF held, k
  <2>2. CASE ~NeedsBias(p.dark, W)
    <3>1. x = Minus(Minus([bias |-> v, dark |-> e], zero), [bias |-> v, dark |-> k])
      BY <1>2, <1>3, <1>13, <1>14, <1>16, <1>21, <2>2
    <3>2. x = [bias |-> 0, dark |-> e - k]
      BY <1>1, <1>18, <2>1, <3>1
    <3>3. CalibratedPreview(t, p, W) = x
      <4>1. CASE p.bias = NoGroup
        <5>1. CalibratedPreview(t, p, W) = Minus(Minus([bias |-> v, dark |-> e], zero), [bias |-> v, dark |-> k])
          BY <1>2, <1>15, <1>16, <1>21, <2>1, <2>2, <4>1
        <5> QED BY <3>1, <5>1
      <4>2. CASE p.bias # NoGroup
        <5>1. CalibratedPreview(t, p, W) =
                Minus(Minus([bias |-> v, dark |-> e], off), Minus([bias |-> v, dark |-> k], off))
          BY <1>2, <1>6, <1>15, <1>16, <1>21, <2>1, <2>2, <4>2
        <5>2. CalibratedPreview(t, p, W) = Minus([bias |-> 0, dark |-> e], [bias |-> 0, dark |-> k])
          BY <1>1, <1>18, <2>1, <5>1
        <5> QED BY <1>1, <1>18, <2>1, <3>2, <5>2
      <4> QED BY <4>1, <4>2
    <3> QED BY <1>21, <2>2, <3>2, <3>3 DEF x, v, e, k
  <2>3. CASE NeedsBias(p.dark, W)
    <3> DEFINE y == IF p.bias # NoGroup THEN off ELSE zero
               w == IF p.bias # NoGroup THEN 0 ELSE v
    <3>1. x = Minus(Minus([bias |-> v, dark |-> e], y), [bias |-> 0, dark |-> k])
      BY <1>2, <1>3, <1>13, <1>14, <1>17, <1>21, <2>3
    <3>2. Minus([bias |-> v, dark |-> e], y) = [bias |-> w, dark |-> e]
      BY <1>1, <1>18
    <3>3. x = [bias |-> w, dark |-> e - k]
      BY <1>1, <1>18, <2>1, <3>1, <3>2
    <3>4. CalibratedPreview(t, p, W) = Minus(Minus([bias |-> v, dark |-> e], y), [bias |-> 0, dark |-> k])
      BY <1>2, <1>6, <1>15, <1>17, <1>21, <2>1, <2>3
    <3>5. CalibratedPreview(t, p, W) = x
      BY <3>1, <3>4
    <3> QED BY <1>21, <2>3, <3>3, <3>5 DEF x, v, e, k
  <2> QED BY <2>2, <2>3
<1> QED BY <1>19, <1>20, <1>21

-----------------------------------------------------------------------------
(* A pairing that the run accepts (pair_calibration,                       *)
(* numeric_application_scale).                                             *)
Incompatible == {"BIAS_INCOMPATIBLE", "DARK_INCOMPATIBLE", "FLAT_INCOMPATIBLE"}

LEMMA AcceptedIs ==
  ASSUME NEW lights, NEW L, NEW match, NEW W, CalibrationRefusal(lights, L, match, W) = ""
  PROVE  /\ \A f \in DOMAIN lights : match.lights[f].errors \cap Incompatible = {}
         /\ 0 \notin NeededUnits(match, W)
<1> DEFINE source == SourceRefusal({lights[f].unit : f \in DOMAIN lights}, L, W)
           errors == UNION {match.lights[f].errors : f \in DOMAIN lights}
           strict == StrictRefusal(lights, L, match, W)
<1>1. source = "" /\ MatchRefusal(lights, L, match, W) = ""
  BY DEF CalibrationRefusal
<1>2. PairingRefusal(match, errors, strict, W) = ""
  BY <1>1 DEF MatchRefusal
<1> HIDE DEF source, errors, strict
<1>3. errors \cap Incompatible = {} /\ 0 \notin NeededUnits(match, W)
  BY <1>2 DEF PairingRefusal, Incompatible
<1> QED BY <1>3 DEF errors

(* The groups of a pairing are groups of the library, of their kinds.      *)
LEMMA ChosenOf ==
  ASSUME NEW L \in Files, NEW kind, NEW near, NEW t \in TraitsOf(Kinds \cup {"LIGHT"})
  PROVE  LET choice == Choose(t, kind, GroupCalibration(L, kind), near) IN
         /\ choice.group \in GroupCalibration(L, kind) \cup {NoGroup}
         /\ choice.group # NoGroup =>
              /\ Traits(choice.group) \in TraitsOf(Kinds) /\ Traits(choice.group).kind = kind
              /\ kind = "DARK" /\ t.exposure # Traits(choice.group).exposure =>
                   "DARK_EXPOSURE_DIFFERS" \in choice.warnings
<1> DEFINE groups == GroupCalibration(L, kind)
           choice == Choose(t, kind, groups, near)
           fitting == Fitting(t, kind, groups, near)
<1>1. groups \in SUBSET AllGroups(L, kind) /\ L \in SUBSET DOMAIN Shot
  BY GroupsAre DEF Files
<1>2. CASE fitting = {}
  <2>1. choice.group = NoGroup
    BY <1>1, <1>2, ChoiceIs
  <2> QED BY <2>1
<1>3. CASE fitting # {}
  <2>1. /\ choice.group \in fitting
        /\ choice.warnings = ChoiceWarnings(t, kind, Traits(choice.group),
                                            \E h \in fitting \ {choice.group} :
                                              Score(t, h) = Score(t, choice.group))
    BY <1>1, <1>3, ChoiceIs
  <2>2. choice.group \in groups
    BY <2>1 DEF Fitting
  <2>3. Traits(choice.group) \in TraitsOf(Kinds) /\ Traits(choice.group).kind = kind
    <3> DEFINE g == choice.group
    <3>1. g \in AllGroups(L, kind)
      BY <1>1, <2>2
    <3> HIDE DEF g
    <3>2. Traits(g) \in TraitsOf(Kinds) /\ Traits(g).kind = kind
      BY <1>1, <3>1, GroupIs
    <3> QED BY <3>2 DEF g
  <2>4. ASSUME kind = "DARK", t.exposure # Traits(choice.group).exposure
        PROVE  "DARK_EXPOSURE_DIFFERS" \in choice.warnings
    <3> HIDE DEF choice
    <3> QED BY <2>1, <2>4 DEF ChoiceWarnings, Issue
  <2> QED BY <2>2, <2>3, <2>4
<1> QED BY <1>2, <1>3

LEMMA SameProduct == ASSUME NEW u \in Nat, NEW e \in Nat PROVE u * e - e * u = 0
<1>1. u * e = e * u
  OBVIOUS
<1>2. u * e \in Int
  OBVIOUS
<1> QED BY <1>1, <1>2

LEMMA LeavingIs ==
  ASSUME NEW L, NEW W, NEW g \in GroupCalibration(L, "DARK") \cup {NoGroup}
  PROVE  g \in Leaving(L, W) <=> NeedsBias(g, W)
BY DEF Leaving

LEMMA MatchIs ==
  ASSUME NEW lights, NEW L, NEW W
  PROVE  /\ DOMAIN MatchCalibration(lights, L, W).lights = DOMAIN lights
         /\ \A i \in DOMAIN lights :
              MatchCalibration(lights, L, W).lights[i] =
                PairLight(lights[i], GroupCalibration(L, "BIAS"), GroupCalibration(L, "DARK"),
                          GroupCalibration(L, "FLAT"), Leaving(L, W))
         /\ DOMAIN MatchCalibration(lights, L, W).flats = {h \in GroupCalibration(L, "FLAT") : ~Supplied(h)}
         /\ \A j \in DOMAIN MatchCalibration(lights, L, W).flats :
              MatchCalibration(lights, L, W).flats[j] =
                PairFlat(Traits(j), GroupCalibration(L, "BIAS"), GroupCalibration(L, "DARK"),
                         IF W = MonoStandard THEN FlatDarkLimit ELSE 0, Leaving(L, W))
<1> DEFINE limit == IF W = MonoStandard THEN FlatDarkLimit ELSE 0
<1>1. MatchCalibration(lights, L, W) = MatchLibrary(lights, L, limit, Leaving(L, W))
  BY DEF MatchCalibration
<1> HIDE DEF limit
<1>2. LET match == MatchLibrary(lights, L, limit, Leaving(L, W))
          biases == GroupCalibration(L, "BIAS")
          darks == GroupCalibration(L, "DARK")
          flats == GroupCalibration(L, "FLAT")
      IN /\ match.lights = [f \in DOMAIN lights |-> PairLight(lights[f], biases, darks, flats, Leaving(L, W))]
         /\ match.flats = [g \in {h \in flats : ~Supplied(h)} |->
                             PairFlat(Traits(g), biases, darks, limit, Leaving(L, W))]
  BY LibraryMatches
<1> DEFINE match == MatchLibrary(lights, L, limit, Leaving(L, W))
<1>3. /\ DOMAIN match.lights = DOMAIN lights
      /\ \A f \in DOMAIN lights :
           match.lights[f] = PairLight(lights[f], GroupCalibration(L, "BIAS"), GroupCalibration(L, "DARK"),
                                       GroupCalibration(L, "FLAT"), Leaving(L, W))
  <2> DEFINE m == match.lights
  <2>1. m = [f \in DOMAIN lights |-> PairLight(lights[f], GroupCalibration(L, "BIAS"), GroupCalibration(L, "DARK"),
                                              GroupCalibration(L, "FLAT"), Leaving(L, W))]
    BY <1>2
  <2> HIDE DEF m
  <2>2. /\ DOMAIN m = DOMAIN lights
        /\ \A f \in DOMAIN lights :
             m[f] = PairLight(lights[f], GroupCalibration(L, "BIAS"), GroupCalibration(L, "DARK"),
                              GroupCalibration(L, "FLAT"), Leaving(L, W))
    BY <2>1
  <2> QED BY <2>2 DEF m
<1>4. /\ DOMAIN match.flats = {h \in GroupCalibration(L, "FLAT") : ~Supplied(h)}
      /\ \A g \in DOMAIN match.flats :
           match.flats[g] = PairFlat(Traits(g), GroupCalibration(L, "BIAS"), GroupCalibration(L, "DARK"),
                                     limit, Leaving(L, W))
  <2> DEFINE m == match.flats
  <2>1. m = [g \in {h \in GroupCalibration(L, "FLAT") : ~Supplied(h)} |->
               PairFlat(Traits(g), GroupCalibration(L, "BIAS"), GroupCalibration(L, "DARK"), limit, Leaving(L, W))]
    BY <1>2
  <2> HIDE DEF m
  <2>2. /\ DOMAIN m = {h \in GroupCalibration(L, "FLAT") : ~Supplied(h)}
        /\ \A g \in DOMAIN m :
             m[g] = PairFlat(Traits(g), GroupCalibration(L, "BIAS"), GroupCalibration(L, "DARK"), limit,
                             Leaving(L, W))
    BY <2>1
  <2> QED BY <2>2 DEF m
<1> QED BY <1>1, <1>3, <1>4 DEF limit

(* What a frame keeps of its bias or dark current, a warning tells.        *)
LEMMA LightWarned ==
  ASSUME NEW L \in Files, NEW W, NEW lights, NEW f \in DOMAIN lights,
         lights[f] \in TraitsOf({"LIGHT"}),
         CalibrationRefusal(lights, L, MatchCalibration(lights, L, W), W) = ""
  PROVE  LET p == MatchCalibration(lights, L, W).lights[f]
             x == Subtracted(lights[f], p, W)
         IN ~SilentResidual(lights[f], p, x, L) /\ CalibratedPreview(lights[f], p, W) = x
<1> DEFINE match == MatchCalibration(lights, L, W)
           t == lights[f]
           p == match.lights[f]
           x == Subtracted(t, p, W)
           darks == GroupCalibration(L, "DARK")
           bias == Choose(t, "BIAS", GroupCalibration(L, "BIAS"), GroupCalibration(L, "BIAS"))
           dark == Choose(t, "DARK", darks, darks)
           flat == Choose(t, "FLAT", GroupCalibration(L, "FLAT"), GroupCalibration(L, "FLAT"))
           wanted == dark.group \in Leaving(L, W)
<1>0. f \in DOMAIN lights
  OBVIOUS
<1>1. p = LightPairing(bias, dark, flat, wanted, darks # {})
  <2>2. p = PairLight(t, GroupCalibration(L, "BIAS"), darks, GroupCalibration(L, "FLAT"), Leaving(L, W))
    BY ONLY <1>0, MatchIs
  <2> QED BY <2>2, LightPairs
<1>2. t \in TraitsOf(Kinds \cup {"LIGHT"})
  BY DEF TraitsOf
<1>3. /\ bias.group # NoGroup => Traits(bias.group) \in TraitsOf(Kinds) /\ Traits(bias.group).kind = "BIAS"
      /\ dark.group \in darks \cup {NoGroup}
      /\ dark.group # NoGroup =>
           /\ Traits(dark.group) \in TraitsOf(Kinds) /\ Traits(dark.group).kind = "DARK"
           /\ t.exposure # Traits(dark.group).exposure => "DARK_EXPOSURE_DIFFERS" \in dark.warnings
  BY ONLY L \in Files, <1>2, ChosenOf
<1>4. wanted <=> NeedsBias(dark.group, W)
  BY <1>3, LeavingIs
<1>5. p.errors \cap Incompatible = {} /\ 0 \notin NeededUnits(match, W)
  BY AcceptedIs
<1> HIDE DEF match, bias, dark, flat
<1>6. p.bias = bias.group /\ p.dark = dark.group
  <2> HIDE DEF p, wanted, darks
  <2> QED BY <1>1 DEF LightPairing
<1>7. DOMAIN match.lights = DOMAIN lights
  BY ONLY MatchIs DEF match
<1>8. /\ p.bias # NoGroup => Traits(p.bias).unit # 0
      /\ p.dark # NoGroup => Traits(p.dark).unit # 0
  <2>1. {p.bias, p.dark} \subseteq UNION {{match.lights[h].bias, match.lights[h].dark} : h \in DOMAIN match.lights}
    BY <1>7
  <2> QED BY <1>5, <2>1 DEF NeededUnits
<1>9. PairedOK(p)
  BY <1>3, <1>6, <1>8 DEF PairedOK
<1>10. /\ ~(NeedsBias(p.dark, W) /\ p.bias = NoGroup) => x.bias = 0
       /\ NeedsBias(p.dark, W) /\ p.bias = NoGroup => x.bias = t.unit
       /\ p.dark # NoGroup => x.dark = t.unit * t.exposure - Traits(p.dark).exposure * t.unit
       /\ CalibratedPreview(t, p, W) = x
  <2> HIDE DEF p, t
  <2> QED BY <1>2, <1>9, SubtractedIs
<1> HIDE DEF x, p
<1>11. NeedsBias(p.dark, W) /\ p.bias = NoGroup => "BIAS_MISSING" \in p.warnings
  BY <1>1, <1>4, <1>5, <1>6 DEF LightPairing, Issue, Incompatible
<1>12. p.dark = NoGroup /\ darks # {} => "DARK_MISSING" \in p.warnings
  BY <1>1, <1>5, <1>6 DEF LightPairing, Issue, Incompatible
<1>13. p.dark # NoGroup /\ x.dark # 0 => "DARK_EXPOSURE_DIFFERS" \in p.warnings
  <2> SUFFICES ASSUME p.dark # NoGroup, x.dark # 0 PROVE "DARK_EXPOSURE_DIFFERS" \in p.warnings
    OBVIOUS
  <2>1. t.exposure # Traits(p.dark).exposure
    <3> SUFFICES ASSUME t.exposure = Traits(p.dark).exposure PROVE FALSE
      OBVIOUS
    <3>1. t.unit \in Nat /\ t.exposure \in Nat
      BY <1>2 DEF TraitsOf
    <3>2. t.unit * t.exposure - t.exposure * t.unit = 0
      <4> DEFINE u == t.unit  e == t.exposure
      <4>1. u \in Nat /\ e \in Nat
        BY <3>1
      <4> HIDE DEF u, e
      <4>2. u * e - e * u = 0
        BY <4>1, SameProduct
      <4> QED BY <4>2 DEF u, e
    <3> QED BY <1>10, <3>2
  <2>2. "DARK_EXPOSURE_DIFFERS" \in dark.warnings
    BY <1>3, <1>6, <2>1
  <2> QED BY <1>1, <2>2 DEF LightPairing
<1>14. ~SilentResidual(t, p, x, L)
  BY <1>10, <1>11, <1>12, <1>13 DEF SilentResidual
<1> QED BY <1>10, <1>14 DEF x, p, match

LEMMA FlatWarned ==
  ASSUME NEW L \in Files, NEW W, NEW lights,
         CalibrationRefusal(lights, L, MatchCalibration(lights, L, W), W) = "",
         NEW g \in UsedGroups(MatchCalibration(lights, L, W)) \cap DOMAIN MatchCalibration(lights, L, W).flats
  PROVE  LET p == MatchCalibration(lights, L, W).flats[g]
             x == Subtracted(Traits(g), p, W)
         IN ~SilentResidual(Traits(g), p, [x EXCEPT !.dark = 0], L)
<1> DEFINE match == MatchCalibration(lights, L, W)
           t == Traits(g)
           p == match.flats[g]
           x == Subtracted(t, p, W)
           darks == GroupCalibration(L, "DARK")
           biases == GroupCalibration(L, "BIAS")
           flats == GroupCalibration(L, "FLAT")
           limit == IF W = MonoStandard THEN FlatDarkLimit ELSE 0
           bias == Choose(t, "BIAS", biases, biases)
           dark == Choose(t, "DARK", darks, NearDarks(t, biases, darks, limit))
<1>1. g \in DOMAIN match.flats
  OBVIOUS
<1>2. g \in flats /\ p = PairFlat(t, biases, darks, limit, Leaving(L, W))
  BY ONLY <1>1, MatchIs
<1>3. p = FlatPairing(bias, dark, biases # {}, Leaving(L, W))
  BY <1>2, FlatPairs
<1>4. t \in TraitsOf(Kinds)
  BY <1>2, GroupsAre, GroupIs DEF Files
<1>5. t \in TraitsOf(Kinds \cup {"LIGHT"})
  BY <1>4 DEF TraitsOf
<1>6. /\ bias.group # NoGroup => Traits(bias.group) \in TraitsOf(Kinds) /\ Traits(bias.group).kind = "BIAS"
      /\ dark.group \in darks \cup {NoGroup}
      /\ dark.group # NoGroup => Traits(dark.group) \in TraitsOf(Kinds) /\ Traits(dark.group).kind = "DARK"
  <2> HIDE DEF t, limit
  <2>1. bias.group # NoGroup => Traits(bias.group) \in TraitsOf(Kinds) /\ Traits(bias.group).kind = "BIAS"
    BY ONLY L \in Files, <1>5, ChosenOf
  <2>2. /\ dark.group \in darks \cup {NoGroup}
        /\ dark.group # NoGroup => Traits(dark.group) \in TraitsOf(Kinds) /\ Traits(dark.group).kind = "DARK"
    BY ONLY L \in Files, <1>5, ChosenOf
  <2> QED BY <2>1, <2>2
<1>7. dark.group \in Leaving(L, W) <=> NeedsBias(dark.group, W)
  BY <1>6, LeavingIs
<1>8. 0 \notin NeededUnits(match, W)
  BY AcceptedIs
<1>9. g \in UsedGroups(match) \cap DOMAIN match.flats
  OBVIOUS
<1> HIDE DEF match, bias, dark
<1>10. p.bias = bias.group /\ p.dark = dark.group
  <2> HIDE DEF p, biases
  <2> QED BY <1>3 DEF FlatPairing
<1>11. \A h \in Subtrahends(p, W) : Traits(h).unit # 0
  <2> SUFFICES ASSUME NEW h \in Subtrahends(p, W) PROVE Traits(h).unit # 0
    OBVIOUS
  <2>1. g \in {i \in UsedGroups(match) \cap DOMAIN match.flats : Subtrahends(match.flats[i], W) # {}}
    BY <1>9
  <2>2. h # NoGroup
    BY DEF Subtrahends
  <2> QED BY <1>8, <2>1, <2>2 DEF NeededUnits
<1> DEFINE q == [bias |-> IF NeedsBias(p.dark, W) THEN p.bias ELSE NoGroup, dark |-> p.dark]
<1>12. Subtrahends(q, W) = Subtrahends(p, W)
  BY DEF Subtrahends
<1>13. PairedOK(q)
  <2>1. q.bias # NoGroup => q.bias = p.bias /\ p.bias \in Subtrahends(p, W)
    BY DEF Subtrahends
  <2>2. q.dark = p.dark /\ (p.dark # NoGroup => p.dark \in Subtrahends(p, W))
    BY DEF Subtrahends
  <2> QED BY <1>6, <1>10, <1>11, <2>1, <2>2 DEF PairedOK
<1>14. x = Subtracted(t, q, W)
  <2> DEFINE partOf(i) == IF i \in Subtrahends(p, W) THEN MasterFor(t, i, W) ELSE Pixels(t, 0, 0)
             partIn(i) == IF i \in Subtrahends(q, W) THEN MasterFor(t, i, W) ELSE Pixels(t, 0, 0)
  <2>1. x = Minus(Minus(Raw(t), partOf(p.bias)), partOf(p.dark))
    BY DEF Subtracted
  <2>2. Subtracted(t, q, W) = Minus(Minus(Raw(t), partIn(q.bias)), partIn(q.dark))
    BY DEF Subtracted
  <2>3. partIn(q.dark) = partOf(p.dark)
    BY <1>12
  <2>4. partIn(q.bias) = partOf(p.bias)
    <3>1. CASE NeedsBias(p.dark, W)
      BY <1>12, <3>1
    <3>2. CASE ~NeedsBias(p.dark, W)
      <4>1. NoGroup \notin Subtrahends(p, W)
        BY DEF Subtrahends
      <4>2. p.dark # NoGroup
        BY <3>2 DEF NeedsBias
      <4>3. p.bias \notin Subtrahends(p, W)
        BY <1>6, <1>10, <3>2, <4>2 DEF Subtrahends
      <4> QED BY <1>12, <3>2, <4>1, <4>3
    <3> QED BY <3>1, <3>2
  <2> HIDE DEF partOf, partIn, q
  <2> QED BY <2>1, <2>2, <2>3, <2>4
<1>15. /\ ~(NeedsBias(p.dark, W) /\ p.bias = NoGroup) => x.bias = 0
       /\ NeedsBias(p.dark, W) /\ p.bias = NoGroup => x.bias = t.unit
  <2>1. q.dark = p.dark /\ (NeedsBias(p.dark, W) => q.bias = p.bias)
    OBVIOUS
  <2> HIDE DEF q, x
  <2>2. /\ ~(NeedsBias(q.dark, W) /\ q.bias = NoGroup) => Subtracted(t, q, W).bias = 0
        /\ NeedsBias(q.dark, W) /\ q.bias = NoGroup => Subtracted(t, q, W).bias = t.unit
    BY <1>5, <1>13, SubtractedIs
  <2> QED BY <1>14, <2>1, <2>2
<1> HIDE DEF x, p, q, biases
<1>16. NeedsBias(p.dark, W) /\ p.bias = NoGroup =>
         p.warnings \cap {"BIAS_MISSING", "FLAT_CALIBRATION_MISSING"} # {}
  BY <1>3, <1>7, <1>10 DEF FlatPairing, Issue
<1> DEFINE y == [x EXCEPT !.dark = 0]
<1>17. y.bias = x.bias /\ y.dark = 0
  <2>1. x = Minus(Minus(Raw(t), IF p.bias \in Subtrahends(p, W) THEN MasterFor(t, p.bias, W) ELSE Pixels(t, 0, 0)),
                  IF p.dark \in Subtrahends(p, W) THEN MasterFor(t, p.dark, W) ELSE Pixels(t, 0, 0))
    BY DEF Subtracted, x
  <2>2. DOMAIN x = {"bias", "dark"}
    BY <2>1 DEF Minus
  <2> QED BY <2>2
<1> HIDE DEF y
<1>18. ~SilentResidual(t, p, y, L)
  BY <1>15, <1>16, <1>17 DEF SilentResidual
<1> QED BY <1>18 DEF y, p, match, x

-----------------------------------------------------------------------------
(* What an inspection that finds nothing to block has established          *)
(* (inspect_calibration).                                                  *)
Demands == [need : [Kinds -> {"REQUIRED", "OPTIONAL", "DISABLED"}], masters : BOOLEAN]

LEMMA QuietIs ==
  ASSUME NEW lights, NEW lib \in SUBSET DOMAIN Shot, NEW rec \in Demands, NEW W,
         InspectionErrors(lights, lib, rec, W) = {}
  PROVE  /\ \A c \in lib : Shot[c].role # "other"
         /\ rec.masters \/ \A c \in lib : ~Shot[c].supplied
         /\ rec.need["FLAT"] # "DISABLED" /\ rec.need["BIAS"] # "DISABLED"
         /\ \A c \in OfKind(lib, "DARK") : Shot[c].exposure # 0
         /\ MatchErrors(lights, Requested(lib, rec), rec, W, Leaving(Requested(lib, rec), W)) = {}
         /\ W = Strict => StrictLibraryErrors(lights, lib) = {}
         /\ Planned(lib, rec) = Requested(lib, rec)
         /\ Planned(lib, rec) \subseteq lib
<1>1. /\ InventoryErrors(lib) = {} /\ RecipeErrors(lights, lib, rec) = {}
      /\ MatchErrors(lights, Planned(lib, rec), rec, W, Leaving(Planned(lib, rec), W)) = {}
      /\ W = Strict => StrictLibraryErrors(lights, lib) = {}
  BY DEF InspectionErrors
<1>2. \A c \in lib : Shot[c].role # "other"
  BY <1>1 DEF InventoryErrors, Issue
<1>3. /\ rec.masters \/ \A c \in lib : ~Shot[c].supplied
      /\ rec.need["FLAT"] # "DISABLED" /\ rec.need["BIAS"] # "DISABLED"
      /\ \A c \in OfKind(lib, "DARK") : Shot[c].exposure # 0
  BY <1>1 DEF RecipeErrors, Issue
<1>4. Planned(lib, rec) = Requested(lib, rec)
  <2>1. \A c \in lib : Shot[c].kind \in {"BIAS", "DARK", "FLAT"}
    BY TraitsAre DEF TraitsOf, Kinds
  <2> QED BY <1>3, <2>1 DEF Planned, Requested
<1>5. Planned(lib, rec) \subseteq lib
  BY DEF Planned
<1>6. MatchErrors(lights, Requested(lib, rec), rec, W, Leaving(Requested(lib, rec), W)) = {}
  <2> DEFINE P == Planned(lib, rec)   Q == Requested(lib, rec)
  <2>1. P = Q /\ MatchErrors(lights, P, rec, W, Leaving(P, W)) = {}
    BY <1>1, <1>4
  <2> HIDE DEF P, Q
  <2>2. MatchErrors(lights, Q, rec, W, Leaving(Q, W)) = {}
    BY <2>1
  <2> QED BY <2>2 DEF Q
<1> QED BY <1>1, <1>2, <1>3, <1>4, <1>5, <1>6

LEMMA MonoQuiet ==
  ASSUME NEW match, NEW rec, WbppErrors(match, rec) = {}, NEW h \in DOMAIN match.lights
  PROVE  /\ match.lights[h].errors = {}
         /\ \A k \in Kinds : rec.need[k] = "REQUIRED" => GroupOf(match.lights[h], k) # NoGroup
<1>1. match.lights[h].errors = {}
  BY DEF WbppErrors, PairingErrors
<1>2. ASSUME NEW k \in Kinds, rec.need[k] = "REQUIRED", Lacks(match.lights[h], k)
      PROVE  FALSE
  BY <1>2 DEF WbppErrors
<1>3. ASSUME NEW k \in Kinds, rec.need[k] = "REQUIRED", GroupOf(match.lights[h], k) = NoGroup
      PROVE  FALSE
  BY <1>1, <1>2, <1>3 DEF Lacks
<1> QED BY <1>1, <1>3

LEMMA StrictQuiet ==
  ASSUME NEW lights, NEW files, NEW rec, StrictErrors(lights, files, rec) = {}, NEW f \in DOMAIN lights,
         NEW kind \in Kinds, rec.need[kind] = "REQUIRED"
  PROVE  Candidates(lights[f], kind, files) # {}
BY DEF StrictErrors

LEMMA CandidateIs ==
  ASSUME NEW t, NEW kind, NEW files, Candidates(t, kind, files) # {}
  PROVE  \E c \in OfKind(files, kind) : Compatible(t, Shot[c]) /\ KeywordsCompatible(t, Shot[c])
BY DEF Candidates

(* One source per kind, exposure and filter; one profile.                  *)
OneSource(lib) ==
  /\ \A c, d \in OfKind(lib, "BIAS") : c # d => ~Shot[c].supplied
  /\ \A c, d \in OfKind(lib, "DARK") : c # d /\ Shot[c].exposure = Shot[d].exposure => ~Shot[c].supplied
  /\ \A c, d \in OfKind(lib, "FLAT") :
       c # d /\ Shot[c].filter = Shot[d].filter /\ Shot[c].night = Shot[d].night => ~Shot[c].supplied

Alike(lights, lib) ==
  LET all == {Shot[c] : c \in lib} \cup {lights[f] : f \in DOMAIN lights}
  IN \A t, c \in all : SameProfile(t, c)

LEMMA StrictIs ==
  ASSUME NEW lights, NEW lib, StrictLibraryErrors(lights, lib) = {}
  PROVE  /\ Alike(lights, lib) /\ OneSource(lib) /\ Undeclared(lib) = {}
         /\ OfKind(lib, "DARK") # {} =>
              \A f \in DOMAIN lights : \E c \in OfKind(lib, "DARK") : Compatible(lights[f], Shot[c])
         /\ \A c \in OfKind(lib, "FLAT") : \A d \in OfKind(lib, "DARK") :
              ~Shot[c].supplied /\ Shot[c].exposure = Shot[d].exposure => Compatible(Shot[c], Shot[d])
<1> DEFINE darks == OfKind(lib, "DARK")   flats == OfKind(lib, "FLAT")   biases == OfKind(lib, "BIAS")
           all == {Shot[c] : c \in lib} \cup {lights[f] : f \in DOMAIN lights}
           profile == Profile(lights, lib)
<1>1. /\ ~Mixed(biases) /\ \A t \in all : SameProfile(profile, t)
      /\ Undeclared(lib) = {} /\ DarkErrors(lights, darks) = {} /\ FlatErrors(flats, darks) = {}
  BY DEF StrictLibraryErrors, Issue
<1> HIDE DEF darks, flats, biases, profile
<1>2. Alike(lights, lib)
  BY <1>1 DEF Alike, SameProfile
<1>3. /\ darks # {} => \A f \in DOMAIN lights : \E c \in darks : Compatible(lights[f], Shot[c])
      /\ \A c, d \in darks : c # d /\ Shot[c].exposure = Shot[d].exposure => ~Shot[c].supplied
  BY <1>1 DEF DarkErrors, Issue
<1>4. \A c, d \in flats :
        c # d /\ Shot[c].filter = Shot[d].filter /\ Shot[c].night = Shot[d].night => ~Shot[c].supplied
  <2> SUFFICES ASSUME NEW c \in flats, NEW d \in flats, c # d, Shot[c].filter = Shot[d].filter,
                      Shot[c].night = Shot[d].night
               PROVE  ~Shot[c].supplied
    OBVIOUS
  <2>1. \A e \in flats : ~Mixed({i \in flats : /\ Shot[i].filter = Shot[e].filter
                                               /\ Shot[i].night = Shot[e].night})
    BY <1>1 DEF FlatErrors, Issue
  <2>2. {c, d} \subseteq {i \in flats : /\ Shot[i].filter = Shot[d].filter /\ Shot[i].night = Shot[d].night}
    OBVIOUS
  <2> QED BY <2>1, <2>2 DEF Mixed
<1>5. \A c \in flats : \A d \in darks :
        ~Shot[c].supplied /\ Shot[c].exposure = Shot[d].exposure => Compatible(Shot[c], Shot[d])
  BY <1>1 DEF FlatErrors, Issue
<1>6. \A c, d \in biases : c # d => ~Shot[c].supplied
  BY <1>1 DEF Mixed
<1> QED BY <1>1, <1>2, <1>3, <1>4, <1>5, <1>6 DEF OneSource, darks, flats, biases

LEMMA PartsAreAlike ==
  ASSUME NEW lights, NEW lib, NEW L \in SUBSET lib, NEW part, DOMAIN part \subseteq DOMAIN lights,
         \A f \in DOMAIN part : part[f] = lights[f]
  PROVE  /\ Alike(lights, lib) => Alike(part, L)
         /\ OneSource(lib) => OneSource(L)
<1>1. \A kind : OfKind(L, kind) \subseteq OfKind(lib, kind)
  BY DEF OfKind
<1>2. OneSource(lib) => OneSource(L)
  BY <1>1 DEF OneSource
<1>3. {Shot[c] : c \in L} \cup {part[f] : f \in DOMAIN part}
        \subseteq {Shot[c] : c \in lib} \cup {lights[f] : f \in DOMAIN lights}
  OBVIOUS
<1>4. Alike(lights, lib) => Alike(part, L)
  BY <1>3 DEF Alike
<1> QED BY <1>2, <1>4

-----------------------------------------------------------------------------
(* The choices of the strict workflow, where all files are of one profile. *)
NoNights(L) == \A c \in L : Shot[c].night = 0
Fits(t, L)  == \A d \in L : SameProfile(t, Shot[d])

LEMMA FitsOf ==
  ASSUME NEW L \in Files, NEW kind \in Kinds, NEW t, NEW c \in OfKind(L, kind),
         kind = "FLAT" => Shot[c].filter = t.filter, KeywordsCompatible(t, Shot[c]), Fits(t, L)
  PROVE  \E h \in Fitting(t, kind, GroupCalibration(L, kind), GroupCalibration(L, kind)) :
           kind = "DARK" => Traits(h).exposure = Shot[c].exposure
<1>1. L \in SUBSET DOMAIN Shot
  BY DEF Files
<1>2. PICK g \in AllGroups(L, kind) : c \in g
  BY <1>1, GroupWith
<1>3. PICK h \in GroupCalibration(L, kind) : BaseName(h) = BaseName(g) /\ Label(h) = Label(g)
  BY Survivor
<1>4. h \in AllGroups(L, kind)
  BY <1>3, GroupsAre
<1>5. GroupIdentity(Shot[c]) = GroupIdentity(Traits(g)) /\ Traits(g).kind = kind /\ Shot[c].kind = kind
  BY <1>1, <1>2, GroupIs DEF OfKind
<1>6. /\ Traits(g).night = Shot[c].night
      /\ kind = "DARK" => Traits(g).exposure = Shot[c].exposure
      /\ kind = "FLAT" => Traits(g).filter = Shot[c].filter
  BY <1>5 DEF GroupIdentity
<1>7. Traits(h).kind = kind /\ FirstOf(h) \in L
  BY <1>1, <1>4, GroupIs DEF OfKind
<1>8. /\ Traits(h).night = Traits(g).night
      /\ kind = "DARK" => Traits(h).exposure = Traits(g).exposure
      /\ kind = "FLAT" => Traits(h).filter = Traits(g).filter
  BY <1>3, <1>5, <1>7 DEF BaseName, Label
<1>9. Suits(t, kind, h)
  BY <1>6, <1>8 DEF Suits, KeywordsCompatible
<1>10. PhysicallyCompatible(t, Traits(h))
  BY <1>7 DEF Fits, SameProfile, PhysicallyCompatible, Traits
<1> QED BY <1>3, <1>6, <1>8, <1>9, <1>10 DEF Fitting

LEMMA SameKey ==
  ASSUME NEW L \in Files, NEW kind \in Kinds, NEW t, Fits(t, L), OneSource(L),
         NEW g \in GroupCalibration(L, kind), NEW h \in GroupCalibration(L, kind),
         Traits(g).night = Traits(h).night,
         kind = "DARK" => Traits(g).exposure = Traits(h).exposure,
         kind = "FLAT" => Traits(g).filter = Traits(h).filter
  PROVE  g = h
<1> DEFINE c == FirstOf(g)   d == FirstOf(h)
<1>1. L \in SUBSET DOMAIN Shot
  BY DEF Files
<1>2. g \in AllGroups(L, kind) /\ h \in AllGroups(L, kind)
  BY GroupsAre
<1>3. /\ c \in OfKind(L, kind) /\ d \in OfKind(L, kind) /\ Traits(g).kind = kind /\ Traits(h).kind = kind
      /\ ~Supplied(g) => g = RawGroup(L, kind, c)
      /\ ~Supplied(h) => h = RawGroup(L, kind, d)
  BY <1>1, <1>2, GroupIs
<1>4. CASE c = d
  BY <1>1, <1>2, <1>4, OneFirst
<1>5. CASE c # d
  <2>1. ~Shot[c].supplied /\ ~Shot[d].supplied
    BY <1>3, <1>5 DEF OneSource, Traits, Kinds
  <2>2. c \in L /\ d \in L
    BY <1>3 DEF OfKind
  <2>3. Traits(g).size = Traits(h).size /\ Traits(g).gain = Traits(h).gain
    BY <2>2 DEF Fits, SameProfile, Traits
  <2>4. GroupIdentity(Shot[c]) = GroupIdentity(Shot[d])
    BY <1>3, <2>3 DEF GroupIdentity, Traits
  <2>5. RawGroup(L, kind, c) = RawGroup(L, kind, d)
    BY <2>4 DEF RawGroup
  <2> QED BY <1>3, <2>1, <2>5 DEF Supplied, Traits
<1> QED BY <1>4, <1>5

LEMMA DistanceIs ==
  ASSUME NEW t, NEW c, t.exposure \in Nat, c.exposure \in Nat
  PROVE  ExposureDistance(t, c) \in Nat /\ (ExposureDistance(t, c) = 0 <=> t.exposure = c.exposure)
<1> DEFINE a == t.exposure   b == c.exposure
<1>1. a \in Nat /\ b \in Nat
  OBVIOUS
<1>2. ExposureDistance(t, c) = IF a > b THEN a - b ELSE b - a
  BY DEF ExposureDistance
<1> HIDE DEF a, b
<1>3. ExposureDistance(t, c) \in Nat /\ (ExposureDistance(t, c) = 0 <=> a = b)
  BY <1>1, <1>2
<1> QED BY <1>3 DEF a, b

AmbiguousCodes == {"BIAS_MATCH_AMBIGUOUS", "DARK_MATCH_AMBIGUOUS", "FLAT_MATCH_AMBIGUOUS"}

(* Where a Dark of the very exposure is chosen, no choice is ambiguous.    *)
LEMMA UntiedIs ==
  ASSUME NEW L \in Files, NEW kind \in Kinds, NEW near, NEW t \in TraitsOf(Kinds \cup {"LIGHT"}),
         Fits(t, L), OneSource(L), NoNights(L),
         kind = "DARK" /\ Choose(t, kind, GroupCalibration(L, kind), near).group # NoGroup =>
           t.exposure = Traits(Choose(t, kind, GroupCalibration(L, kind), near).group).exposure
  PROVE  Choose(t, kind, GroupCalibration(L, kind), near).warnings \cap AmbiguousCodes = {}
<1> DEFINE groups == GroupCalibration(L, kind)
           choice == Choose(t, kind, groups, near)
           fitting == Fitting(t, kind, groups, near)
           best == choice.group
           tied == \E h \in fitting \ {best} : Score(t, h) = Score(t, best)
<1>1. groups \in SUBSET AllGroups(L, kind) /\ L \in SUBSET DOMAIN Shot
  BY GroupsAre DEF Files
<1>2. CASE fitting = {}
  <2>1. choice.warnings = {}
    BY <1>1, <1>2, ChoiceIs
  <2> QED BY <2>1
<1>3. CASE fitting # {}
  <2>1. best \in fitting /\ best # NoGroup /\ choice.warnings = ChoiceWarnings(t, kind, Traits(best), tied)
    BY <1>1, <1>3, ChoiceIs
  <2>0. kind = "DARK" => t.exposure = Traits(best).exposure
    BY <2>1
  <2> HIDE DEF best, choice
  <2>2. ASSUME NEW h \in fitting
        PROVE  /\ h \in groups /\ Traits(h) \in TraitsOf(Kinds) /\ Traits(h).kind = kind
               /\ FirstOf(h) \in L /\ Traits(h).night = 0
               /\ kind = "FLAT" => Traits(h).filter = t.filter
    <3>1. h \in AllGroups(L, kind)
      BY <1>1 DEF Fitting
    <3>2. Traits(h) \in TraitsOf(Kinds) /\ Traits(h).kind = kind /\ FirstOf(h) \in L
      BY <1>1, <3>1, GroupIs DEF OfKind
    <3> QED BY <3>2 DEF NoNights, Traits, Fitting, Suits
  <2>3. ASSUME NEW h \in fitting, Score(t, h) = Score(t, best)
        PROVE  h = best
    <3>1. kind = "DARK" => ExposureDistance(t, Traits(h)) = ExposureDistance(t, Traits(best))
      BY <2>1, <2>2, <2>3 DEF Score
    <3>2. t.exposure \in Nat /\ Traits(h).exposure \in Nat /\ Traits(best).exposure \in Nat
      BY <2>1, <2>2 DEF TraitsOf
    <3>3. kind = "DARK" => Traits(h).exposure = Traits(best).exposure
      BY <2>0, <3>1, <3>2, DistanceIs
    <3> HIDE DEF groups, fitting
    <3>4. h \in groups /\ best \in groups /\ Traits(h).night = Traits(best).night
      BY <2>1, <2>2
    <3>5. kind = "FLAT" => Traits(h).filter = Traits(best).filter
      BY <2>1, <2>2
    <3> QED BY <3>3, <3>4, <3>5, SameKey DEF groups
  <2>4. ~tied
    BY <2>3
  <2>5. ~SettingsDiffer(t, Traits(best))
    BY <2>1, <2>2 DEF Fits, SameProfile, Traits, SettingsDiffer
  <2> HIDE DEF tied, fitting
  <2>6. choice.warnings \subseteq {"DARK_EXPOSURE_DIFFERS", "DARK_TEMPERATURE_DIFFERS"}
    BY <2>1, <2>4, <2>5 DEF ChoiceWarnings, Issue
  <2> QED BY <2>6 DEF AmbiguousCodes, choice
<1> QED BY <1>2, <1>3

LEMMA ExactDark ==
  ASSUME NEW L \in Files, NEW t \in TraitsOf(Kinds \cup {"LIGHT"}), Fits(t, L), NoNights(L),
         NEW c \in OfKind(L, "DARK"), Shot[c].exposure = t.exposure
  PROVE  LET choice == Choose(t, "DARK", GroupCalibration(L, "DARK"), GroupCalibration(L, "DARK"))
         IN choice.group # NoGroup /\ Traits(choice.group).exposure = t.exposure
<1> DEFINE groups == GroupCalibration(L, "DARK")
           choice == Choose(t, "DARK", groups, groups)
           fitting == Fitting(t, "DARK", groups, groups)
           best == choice.group
<1>1. groups \in SUBSET AllGroups(L, "DARK") /\ L \in SUBSET DOMAIN Shot
  BY GroupsAre DEF Files
<1>2. KeywordsCompatible(t, Shot[c])
  BY DEF NoNights, OfKind, KeywordsCompatible
<1>3. PICK h \in fitting : Traits(h).exposure = t.exposure
  <2>1. "DARK" \in Kinds /\ "DARK" # "FLAT"
    BY DEF Kinds
  <2> QED BY <1>2, <2>1, FitsOf
<1>4. best \in fitting /\ best # NoGroup /\ ~Smaller(Score(t, h), Score(t, best))
  BY <1>1, <1>3, ChosenFits
<1> HIDE DEF choice, best
<1>5. ASSUME NEW g \in fitting
      PROVE  /\ Traits(g) \in TraitsOf(Kinds) /\ Traits(g).kind = "DARK"
             /\ Traits(g).night = 0 /\ Traits(g).gain = t.gain
  <2>1. g \in AllGroups(L, "DARK")
    BY <1>1 DEF Fitting
  <2>2. Traits(g) \in TraitsOf(Kinds) /\ Traits(g).kind = "DARK" /\ FirstOf(g) \in L
    BY <1>1, <2>1, GroupIs DEF OfKind
  <2> QED BY <2>2 DEF NoNights, Fits, SameProfile, Traits
<1>6. ASSUME NEW g \in fitting
      PROVE  /\ Score(t, g) \in Tuples
             /\ Score(t, g)[1] = - One(t.night # 0 /\ t.night = 0)
             /\ Score(t, g)[2] = - One(t.gain # 0 /\ t.gain = t.gain)
             /\ Score(t, g)[3] = ExposureDistance(t, Traits(g))
  <2>1. Score(t, g) \in Tuples
    BY <1>5, ScoresAreTuples
  <2> QED BY <1>5, <2>1 DEF Score
<1>7. t.exposure \in Nat /\ Traits(h).exposure \in Nat /\ Traits(best).exposure \in Nat
  BY <1>4, <1>5 DEF TraitsOf
<1>8. ExposureDistance(t, Traits(h)) = 0 /\ ExposureDistance(t, Traits(best)) \in Nat
  BY <1>3, <1>7, DistanceIs
<1> DEFINE r == Score(t, h)   s == Score(t, best)
<1>9. r \in Tuples /\ s \in Tuples /\ r[1] = s[1] /\ r[2] = s[2] /\ r[3] = 0
      /\ s[3] = ExposureDistance(t, Traits(best)) /\ ~Smaller(r, s)
  BY <1>4, <1>6, <1>8
<1> HIDE DEF r, s
<1>10. ~(s[3] > 0)
  <2>1. ~Larger(s, r)
    BY <1>9, SmallerIs
  <2> QED BY <1>9, <2>1, LargerIs
<1>11. ExposureDistance(t, Traits(best)) = 0
  BY <1>8, <1>9, <1>10
<1>12. Traits(best).exposure = t.exposure
  BY <1>7, <1>11, DistanceIs
<1> QED BY <1>4, <1>12 DEF best, choice

-----------------------------------------------------------------------------
(* The refusals of the strict workflow that its inspection rules out       *)
(* (_assert_strict_pairings).                                              *)
LightReady(t, L, rec) ==
  /\ Fits(t, L)
  /\ OfKind(L, "DARK") # {} => \E c \in OfKind(L, "DARK") : Compatible(t, Shot[c])
  /\ \A kind \in {"BIAS", "FLAT"} : rec.need[kind] = "REQUIRED" =>
       \E c \in OfKind(L, kind) : Compatible(t, Shot[c]) /\ KeywordsCompatible(t, Shot[c])

FlatReady(t, L) ==
  /\ Fits(t, L)
  /\ \A d \in OfKind(L, "DARK") : t.exposure = Shot[d].exposure => Compatible(t, Shot[d])

SteadyDarks(L) ==
  \A c, d \in RawOf(L, "DARK") :
    Shot[c].exposure = Shot[d].exposure => Shot[c].temperature = Shot[d].temperature

LEMMA DarksAre ==
  ASSUME NEW L \in Files, NEW kind \in Kinds, NEW g \in GroupCalibration(L, kind)
  PROVE  FirstOf(g) \in OfKind(L, kind) /\ Traits(g) = Shot[FirstOf(g)]
         /\ Traits(g) \in TraitsOf(Kinds) /\ Traits(g).kind = kind
BY GroupsAre, GroupIs DEF Files, Traits

LEMMA GroupsOf ==
  ASSUME NEW L \in Files, NEW g \in UNION {GroupCalibration(L, kind) : kind \in Kinds}
  PROVE  Traits(g).kind \in Kinds /\ g \in GroupCalibration(L, Traits(g).kind)
<1>1. PICK kind \in Kinds : g \in GroupCalibration(L, kind)
  OBVIOUS
<1>2. Traits(g).kind = kind
  BY <1>1, DarksAre
<1> QED BY <1>1, <1>2

LEMMA LightExactDark ==
  ASSUME NEW L \in Files, NEW t \in TraitsOf(Kinds \cup {"LIGHT"}), NEW rec, LightReady(t, L, rec),
         NoNights(L), OfKind(L, "DARK") # {}
  PROVE  LET choice == Choose(t, "DARK", GroupCalibration(L, "DARK"), GroupCalibration(L, "DARK"))
         IN choice.group # NoGroup /\ Traits(choice.group).exposure = t.exposure
<1>1. PICK c \in OfKind(L, "DARK") : Compatible(t, Shot[c])
  BY DEF LightReady
<1>2. Shot[c].exposure = t.exposure
  BY <1>1 DEF Compatible, SameDark, OfKind
<1> QED BY <1>2, ExactDark DEF LightReady

LEMMA LightForeseen ==
  ASSUME NEW L \in Files, NEW W, NEW t \in TraitsOf({"LIGHT"}), NEW rec, LightReady(t, L, rec), OneSource(L)
  PROVE  LET p == PairLight(t, GroupCalibration(L, "BIAS"), GroupCalibration(L, "DARK"),
                            GroupCalibration(L, "FLAT"), Leaving(L, W))
             darks == \E g \in UNION {GroupCalibration(L, kind) : kind \in Kinds} : Traits(g).kind = "DARK"
             refusal == StrictLight(t, p, darks, W)
         IN \/ refusal = ""
            \/ refusal = "MASTER_FLAT_MISSING" /\ rec.need["FLAT"] # "REQUIRED"
            \/ refusal = "DARK_EXPOSURE_MISMATCH" /\ ~NoNights(L)
            \/ refusal = "CALIBRATION_PROFILE_MISMATCH" /\ ~SteadyDarks(L)
            \/ refusal = "BIAS_REQUIRED_FOR_CALIBRATION" /\ rec.need["BIAS"] # "REQUIRED"
<1> DEFINE GC(kind) == GroupCalibration(L, kind)
           choice(kind) == Choose(t, kind, GC(kind), GC(kind))
           p == PairLight(t, GC("BIAS"), GC("DARK"), GC("FLAT"), Leaving(L, W))
           darks == \E g \in UNION {GC(kind) : kind \in Kinds} : Traits(g).kind = "DARK"
           refusal == StrictLight(t, p, darks, W)
<1>1. p.bias = choice("BIAS").group /\ p.dark = choice("DARK").group /\ p.flat = choice("FLAT").group
  <2>1. p = LightPairing(choice("BIAS"), choice("DARK"), choice("FLAT"),
                         choice("DARK").group \in Leaving(L, W), GC("DARK") # {})
    BY LightPairs
  <2> HIDE DEF p, choice, GC
  <2> QED BY <2>1 DEF LightPairing
<1>2. t \in TraitsOf(Kinds \cup {"LIGHT"})
  BY DEF TraitsOf
<1>3. Kinds = {"BIAS", "DARK", "FLAT"}
  BY DEF Kinds
<1>4. ASSUME NEW kind \in {"BIAS", "FLAT"}, rec.need[kind] = "REQUIRED"
      PROVE  choice(kind).group # NoGroup
  <2>1. PICK c \in OfKind(L, kind) : Compatible(t, Shot[c]) /\ KeywordsCompatible(t, Shot[c])
    BY <1>4 DEF LightReady
  <2>2. kind = "FLAT" => Shot[c].filter = t.filter
    BY <2>1 DEF Compatible, OfKind
  <2>3. Fitting(t, kind, GC(kind), GC(kind)) # {}
    BY <1>3, <2>1, <2>2, FitsOf DEF LightReady
  <2>4. GC(kind) \in SUBSET AllGroups(L, kind)
    BY GroupsAre
  <2> QED BY <1>2, <2>3, <2>4, ChosenFits
<1>5. darks => OfKind(L, "DARK") # {}
  <2> SUFFICES ASSUME darks PROVE OfKind(L, "DARK") # {}
    OBVIOUS
  <2>1. PICK g \in UNION {GC(kind) : kind \in Kinds} : Traits(g).kind = "DARK"
    OBVIOUS
  <2>2. g \in GC("DARK")
    BY <2>1, GroupsOf
  <2> QED BY <1>3, <2>2, DarksAre
<1>6. darks /\ NoNights(L) => p.dark # NoGroup /\ t.exposure = Traits(p.dark).exposure
  BY <1>1, <1>2, <1>5, LightExactDark
<1>7. p.dark # NoGroup => p.dark \in GC("DARK")
  <2>1. choice("DARK").group \in GC("DARK") \cup {NoGroup}
    BY <1>2, ChosenOf
  <2> QED BY <1>1, <2>1
<1>8. p.dark # NoGroup => darks
  <2> SUFFICES ASSUME p.dark # NoGroup PROVE darks
    OBVIOUS
  <2>1. p.dark \in GC("DARK") /\ Traits(p.dark).kind = "DARK"
    BY <1>3, <1>7, DarksAre
  <2> HIDE DEF p
  <2> QED BY <1>3, <2>1
<1>9. p.dark # NoGroup /\ t.exposure = Traits(p.dark).exposure /\ SteadyDarks(L) => SameDark(t, Traits(p.dark))
  <2> SUFFICES ASSUME p.dark # NoGroup, t.exposure = Traits(p.dark).exposure, SteadyDarks(L)
               PROVE  SameDark(t, Traits(p.dark))
    OBVIOUS
  <2> DEFINE d == FirstOf(p.dark)
  <2>1. d \in OfKind(L, "DARK") /\ Traits(p.dark) = Shot[d]
    BY <1>3, <1>7, DarksAre
  <2>2. PICK c \in OfKind(L, "DARK") : Compatible(t, Shot[c])
    BY <2>1 DEF LightReady
  <2>3. Shot[c].exposure = t.exposure /\ ~TemperatureDiffers(t, Shot[c])
    BY <2>2 DEF Compatible, SameDark, OfKind
  <2> HIDE DEF d, p
  <2>4. ~TemperatureDiffers(t, Shot[d])
    <3>1. CASE c = d
      BY <2>3, <3>1
    <3>2. CASE c # d
      <4>1. ~Shot[c].supplied /\ ~Shot[d].supplied
        BY <2>1, <2>3, <3>2 DEF OneSource
      <4>2. c \in RawOf(L, "DARK") /\ d \in RawOf(L, "DARK")
        BY <2>1, <4>1 DEF RawOf, MastersOf
      <4>3. Shot[c].temperature = Shot[d].temperature
        BY <2>1, <2>3, <4>2 DEF SteadyDarks
      <4> QED BY <2>3, <4>3 DEF TemperatureDiffers
    <3> QED BY <3>1, <3>2
  <2>5. SameProfile(t, Shot[d])
    BY <2>1 DEF LightReady, Fits, OfKind
  <2> QED BY <2>1, <2>4, <2>5 DEF SameDark
<1> HIDE DEF p, darks
<1>10. \/ refusal = ""
       \/ refusal = "MASTER_FLAT_MISSING" /\ p.flat = NoGroup
       \/ /\ refusal = "DARK_EXPOSURE_MISMATCH"
          /\ darks /\ (p.dark = NoGroup \/ t.exposure # Traits(p.dark).exposure)
       \/ /\ refusal = "CALIBRATION_PROFILE_MISMATCH" /\ p.dark # NoGroup /\ ~SameDark(t, Traits(p.dark))
          /\ ~(darks /\ (p.dark = NoGroup \/ t.exposure # Traits(p.dark).exposure))
       \/ refusal = "BIAS_REQUIRED_FOR_CALIBRATION" /\ p.bias = NoGroup
  BY DEF StrictLight
<1> HIDE DEF refusal, choice
<1>11. \/ refusal = ""
       \/ refusal = "MASTER_FLAT_MISSING" /\ rec.need["FLAT"] # "REQUIRED"
       \/ refusal = "DARK_EXPOSURE_MISMATCH" /\ ~NoNights(L)
       \/ refusal = "CALIBRATION_PROFILE_MISMATCH" /\ ~SteadyDarks(L)
       \/ refusal = "BIAS_REQUIRED_FOR_CALIBRATION" /\ rec.need["BIAS"] # "REQUIRED"
  BY <1>1, <1>4, <1>6, <1>8, <1>9, <1>10
<1> QED BY <1>11 DEF refusal, darks, p

LEMMA FlatForeseen ==
  ASSUME NEW L \in Files, NEW leaving, NEW g \in GroupCalibration(L, "FLAT"), FlatReady(Traits(g), L),
         OfKind(L, "BIAS") # {}
  PROVE  LET biases == GroupCalibration(L, "BIAS")
             p == PairFlat(Traits(g), biases, GroupCalibration(L, "DARK"), 0, leaving)
             refusal == StrictFlat(Traits(g), p)
         IN /\ biases # {}
            /\ p.dark # NoGroup => Traits(g).exposure = Traits(p.dark).exposure
            /\ refusal = "" \/ (refusal = "BIAS_REQUIRED_FOR_CALIBRATION" /\ ~NoNights(L))
<1> DEFINE t == Traits(g)
           biases == GroupCalibration(L, "BIAS")
           darks == GroupCalibration(L, "DARK")
           near == NearDarks(t, biases, darks, 0)
           bias == Choose(t, "BIAS", biases, biases)
           dark == Choose(t, "DARK", darks, near)
           p == PairFlat(t, biases, darks, 0, leaving)
<1>1. p.bias = bias.group /\ p.dark = dark.group
  <2>1. p = FlatPairing(bias, dark, biases # {}, leaving)
    BY FlatPairs
  <2> HIDE DEF p, bias, dark, biases
  <2> QED BY <2>1 DEF FlatPairing
<1>2. Kinds = {"BIAS", "DARK", "FLAT"} /\ L \in SUBSET DOMAIN Shot
  BY DEF Kinds, Files
<1>3. t \in TraitsOf(Kinds) /\ t \in TraitsOf(Kinds \cup {"LIGHT"})
  <2>1. t \in TraitsOf(Kinds)
    BY <1>2, DarksAre
  <2> QED BY <2>1 DEF TraitsOf
<1>4. PICK c \in OfKind(L, "BIAS") : TRUE
  OBVIOUS
<1>5. biases # {}
  <2>1. PICK h \in AllGroups(L, "BIAS") : c \in h
    BY <1>2, GroupWith
  <2> QED BY Survivor
<1>6. NoNights(L) => bias.group # NoGroup
  <2> SUFFICES ASSUME NoNights(L) PROVE bias.group # NoGroup
    OBVIOUS
  <2>1. KeywordsCompatible(t, Shot[c])
    BY DEF NoNights, OfKind, KeywordsCompatible
  <2>2. Fitting(t, "BIAS", biases, biases) # {}
    BY <1>2, <2>1, FitsOf DEF FlatReady
  <2>3. biases \in SUBSET AllGroups(L, "BIAS")
    BY GroupsAre
  <2> QED BY <1>3, <2>2, <2>3, ChosenFits
<1>7. ASSUME dark.group # NoGroup
      PROVE  /\ dark.group \in darks /\ t.exposure = Traits(dark.group).exposure
             /\ SameDark(t, Traits(dark.group))
  <2>1. darks \in SUBSET AllGroups(L, "DARK")
    BY GroupsAre
  <2>2. dark.group \in Fitting(t, "DARK", darks, near)
    BY <1>3, <1>7, <2>1, ChosenFits
  <2> DEFINE h == dark.group
  <2>3. h \in darks /\ ExposureDistance(t, Traits(h)) <= 0
    BY <1>5, <2>2 DEF Fitting, NearDarks
  <2> HIDE DEF h, dark
  <2>4. /\ FirstOf(h) \in OfKind(L, "DARK") /\ Traits(h) = Shot[FirstOf(h)]
        /\ Traits(h) \in TraitsOf(Kinds) /\ Traits(h).kind = "DARK"
    BY <1>2, <2>3, DarksAre
  <2>5. t.exposure \in Nat /\ Traits(h).exposure \in Nat
    BY <1>3, <2>4 DEF TraitsOf
  <2>6. ExposureDistance(t, Traits(h)) \in Nat
    BY <2>5, DistanceIs
  <2>7. ExposureDistance(t, Traits(h)) = 0
    BY <2>3, <2>6
  <2>8. t.exposure = Traits(h).exposure
    BY <2>5, <2>7, DistanceIs
  <2>9. Compatible(t, Shot[FirstOf(h)])
    BY <2>4, <2>8 DEF FlatReady
  <2>10. SameDark(t, Traits(h))
    BY <2>4, <2>9 DEF Compatible
  <2> QED BY <2>3, <2>8, <2>10 DEF h
<1> HIDE DEF p, bias, dark, t
<1>8. StrictFlat(t, p) = "" \/ (StrictFlat(t, p) = "BIAS_REQUIRED_FOR_CALIBRATION" /\ {p.dark, p.bias} = {NoGroup})
  BY <1>1, <1>7 DEF StrictFlat
<1>9. StrictFlat(t, p) = "" \/ (StrictFlat(t, p) = "BIAS_REQUIRED_FOR_CALIBRATION" /\ ~NoNights(L))
  BY <1>1, <1>6, <1>8
<1> QED BY <1>1, <1>5, <1>7, <1>9 DEF p, t

LEMMA LightUntied ==
  ASSUME NEW L \in Files, NEW W, NEW t \in TraitsOf({"LIGHT"}), NEW rec, LightReady(t, L, rec), OneSource(L),
         NoNights(L)
  PROVE  PairLight(t, GroupCalibration(L, "BIAS"), GroupCalibration(L, "DARK"), GroupCalibration(L, "FLAT"),
                   Leaving(L, W)).warnings \cap AmbiguousCodes = {}
<1> DEFINE GC(kind) == GroupCalibration(L, kind)
           choice(kind) == Choose(t, kind, GC(kind), GC(kind))
           p == PairLight(t, GC("BIAS"), GC("DARK"), GC("FLAT"), Leaving(L, W))
<1>1. p = LightPairing(choice("BIAS"), choice("DARK"), choice("FLAT"),
                       choice("DARK").group \in Leaving(L, W), GC("DARK") # {})
  BY LightPairs
<1>2. t \in TraitsOf(Kinds \cup {"LIGHT"})
  BY DEF TraitsOf
<1>3. Kinds = {"BIAS", "DARK", "FLAT"}
  BY DEF Kinds
<1>4. choice("DARK").group # NoGroup => t.exposure = Traits(choice("DARK").group).exposure
  <2> SUFFICES ASSUME choice("DARK").group # NoGroup
               PROVE  t.exposure = Traits(choice("DARK").group).exposure
    OBVIOUS
  <2>1. choice("DARK").group \in GC("DARK")
    BY <1>2, ChosenOf
  <2>2. OfKind(L, "DARK") # {}
    BY <1>3, <2>1, DarksAre
  <2> QED BY <1>2, <2>2, LightExactDark
<1>5. choice("DARK").warnings \cap AmbiguousCodes = {}
  BY <1>2, <1>3, <1>4, UntiedIs DEF LightReady
<1>6. choice("BIAS").warnings \cap AmbiguousCodes = {}
  BY <1>2, <1>3, UntiedIs DEF LightReady
<1>7. choice("FLAT").warnings \cap AmbiguousCodes = {}
  BY <1>2, <1>3, UntiedIs DEF LightReady
<1> HIDE DEF p, choice, GC
<1>8. p.warnings \cap AmbiguousCodes = {}
  BY <1>1, <1>5, <1>6, <1>7 DEF LightPairing, Issue, AmbiguousCodes
<1> QED BY <1>8 DEF p, GC

LEMMA FlatUntied ==
  ASSUME NEW L \in Files, NEW leaving, NEW g \in GroupCalibration(L, "FLAT"), FlatReady(Traits(g), L),
         OfKind(L, "BIAS") # {}, OneSource(L), NoNights(L)
  PROVE  PairFlat(Traits(g), GroupCalibration(L, "BIAS"), GroupCalibration(L, "DARK"), 0, leaving).warnings
           \cap AmbiguousCodes = {}
<1> DEFINE t == Traits(g)
           biases == GroupCalibration(L, "BIAS")
           darks == GroupCalibration(L, "DARK")
           near == NearDarks(t, biases, darks, 0)
           bias == Choose(t, "BIAS", biases, biases)
           dark == Choose(t, "DARK", darks, near)
           p == PairFlat(t, biases, darks, 0, leaving)
<1>1. p = FlatPairing(bias, dark, biases # {}, leaving)
  BY FlatPairs
<1>2. p.dark = dark.group
  <2> HIDE DEF p, bias, dark, biases
  <2> QED BY <1>1 DEF FlatPairing
<1>3. Kinds = {"BIAS", "DARK", "FLAT"}
  BY DEF Kinds
<1>4. t \in TraitsOf(Kinds \cup {"LIGHT"})
  <2>1. t \in TraitsOf(Kinds)
    BY <1>3, DarksAre
  <2> QED BY <2>1 DEF TraitsOf
<1>5. p.dark # NoGroup => t.exposure = Traits(p.dark).exposure
  BY FlatForeseen
<1>6. dark.warnings \cap AmbiguousCodes = {}
  <2>1. dark.group # NoGroup => t.exposure = Traits(dark.group).exposure
    BY <1>2, <1>5
  <2> QED BY <1>3, <1>4, <2>1, UntiedIs DEF FlatReady
<1>7. bias.warnings \cap AmbiguousCodes = {}
  BY <1>3, <1>4, UntiedIs DEF FlatReady
<1> HIDE DEF p, bias, dark, biases
<1>8. p.warnings \cap AmbiguousCodes = {}
  BY <1>1, <1>6, <1>7 DEF FlatPairing, Issue, AmbiguousCodes
<1> QED BY <1>8 DEF p, biases

LEMMA SourcesAgree ==
  ASSUME NEW L \in Files, NEW t, Fits(t, L), OneSource(L), NoNights(L),
         NEW g \in UNION {GroupCalibration(L, kind) : kind \in Kinds},
         NEW h \in UNION {GroupCalibration(L, kind) : kind \in Kinds}, BaseName(g) = BaseName(h)
  PROVE  g = h
<1> DEFINE kind == Traits(g).kind
<1>1. kind \in Kinds /\ g \in GroupCalibration(L, kind)
  BY GroupsOf
<1>2. Traits(h).kind = kind
  BY DEF BaseName
<1>3. h \in GroupCalibration(L, kind)
  BY <1>2, GroupsOf
<1>4. /\ kind = "DARK" => Traits(g).exposure = Traits(h).exposure
      /\ kind = "FLAT" => Traits(g).filter = Traits(h).filter
  BY <1>2 DEF BaseName
<1> HIDE DEF kind
<1>5. Traits(g).night = 0 /\ Traits(h).night = 0
  BY <1>1, <1>3, DarksAre DEF NoNights, OfKind
<1> QED BY <1>1, <1>3, <1>4, <1>5, SameKey

(* The first refusal is one of the refusals.                               *)
LEMMA FirstLightRefusal ==
  ASSUME NEW codes, DOMAIN codes \subseteq Nat
  PROVE  \/ FirstRefusal(codes, LAMBDA f : f) = ""
         \/ \E x \in DOMAIN codes : FirstRefusal(codes, LAMBDA f : f) = codes[x]
<1> DEFINE refused == {x \in DOMAIN codes : codes[x] # ""}
<1>1. FirstRefusal(codes, LAMBDA f : f) =
        IF refused = {} THEN "" ELSE codes[CHOOSE x \in refused : \A y \in refused : x <= y]
  BY DEF FirstRefusal
<1>2. ASSUME refused # {}
      PROVE  (CHOOSE x \in refused : \A y \in refused : x <= y) \in refused
  <2>1. \E x \in refused : \A y \in refused : x <= y
    BY <1>2, HasLeast
  <2> HIDE DEF refused
  <2> QED BY <2>1
<1> QED BY <1>1, <1>2

LEMMA FirstFlatRefusal ==
  ASSUME NEW codes, \A g \in DOMAIN codes : FirstOf(g) \in Nat
  PROVE  \/ FirstRefusal(codes, FirstOf) = ""
         \/ \E x \in DOMAIN codes : FirstRefusal(codes, FirstOf) = codes[x]
<1> DEFINE refused == {x \in DOMAIN codes : codes[x] # ""}
<1>1. FirstRefusal(codes, FirstOf) =
        IF refused = {} THEN "" ELSE codes[CHOOSE x \in refused : \A y \in refused : FirstOf(x) <= FirstOf(y)]
  BY DEF FirstRefusal
<1>2. ASSUME refused # {}
      PROVE  (CHOOSE x \in refused : \A y \in refused : FirstOf(x) <= FirstOf(y)) \in refused
  <2> DEFINE S == {FirstOf(x) : x \in refused}
  <2>1. S \subseteq Nat /\ S # {}
    BY <1>2
  <2>2. \E m \in S : \A k \in S : m <= k
    BY <2>1, HasLeast
  <2>3. \E x \in refused : \A y \in refused : FirstOf(x) <= FirstOf(y)
    BY <2>2
  <2> HIDE DEF refused
  <2> QED BY <2>3
<1> QED BY <1>1, <1>2

IsLight(t) == t \in TraitsOf({"LIGHT"})

(* What is left of the strict refusals where each exception is one the     *)
(* comment of Unforeseen names.                                            *)
StrictLeft(refusal, L, rec) ==
  \/ refusal = ""
  \/ refusal = "SOURCE_AMBIGUOUS" /\ ~NoNights(L)
  \/ refusal = "MASTER_FLAT_MISSING" /\ rec.need["FLAT"] # "REQUIRED"
  \/ refusal = "DARK_EXPOSURE_MISMATCH" /\ ~NoNights(L)
  \/ refusal = "CALIBRATION_PROFILE_MISMATCH" /\ ~SteadyDarks(L)
  \/ refusal = "BIAS_REQUIRED_FOR_CALIBRATION" /\ (rec.need["BIAS"] # "REQUIRED" \/ ~NoNights(L))

LEMMA ProfilesAgree ==
  ASSUME NEW L, NEW lights, Alike(lights, L), NEW profile,
         (\E f \in DOMAIN lights : profile = lights[f]) \/ (\E c \in L : profile = Shot[c])
  PROVE  /\ \A c \in L : SameProfile(profile, Shot[c])
         /\ \A f \in DOMAIN lights : SameProfile(profile, lights[f])
<1> DEFINE all == {Shot[c] : c \in L} \cup {lights[f] : f \in DOMAIN lights}
<1>1. profile \in all
  OBVIOUS
<1>2. \A t, c \in all : SameProfile(t, c)
  BY DEF Alike
<1>3. (\A c \in L : Shot[c] \in all) /\ (\A f \in DOMAIN lights : lights[f] \in all)
  OBVIOUS
<1> HIDE DEF all
<1> QED BY <1>1, <1>2, <1>3

LEMMA StrictForeseen ==
  ASSUME NEW L \in Files, NEW lights, NEW rec, DOMAIN lights \subseteq Nat, DOMAIN lights # {},
         \A f \in DOMAIN lights : IsLight(lights[f]) /\ LightReady(lights[f], L, rec),
         \A c \in RawOf(L, "FLAT") : FlatReady(Shot[c], L),
         Alike(lights, L), OneSource(L), OfKind(L, "BIAS") # {}
  PROVE  StrictLeft(StrictRefusal(lights, L, MatchCalibration(lights, L, Strict), Strict), L, rec)
<1> DEFINE GC(kind) == GroupCalibration(L, kind)
           groups == UNION {GC(kind) : kind \in Kinds}
           match == MatchCalibration(lights, L, Strict)
           pairing == match.lights
           flats == match.flats
           firsts == {FirstOf(g) : g \in {h \in groups : Traits(h).kind = "BIAS"}}
           profile == IF firsts = {} THEN lights[FirstOf(DOMAIN lights)] ELSE Shot[FirstOf(firsts)]
           darks == \E g \in groups : Traits(g).kind = "DARK"
           lightCodes == [f \in DOMAIN lights |-> StrictLight(lights[f], pairing[f], darks, Strict)]
           flatCodes == [g \in DOMAIN flats |-> StrictFlat(Traits(g), flats[g])]
           light == FirstRefusal(lightCodes, LAMBDA f : f)
           flat == FirstRefusal(flatCodes, FirstOf)
           refusal == StrictRefusal(lights, L, match, Strict)
<1>1. refusal = StrictRefusalOf(lights, L, groups, profile, pairing, flats, Strict)
  BY DEF StrictRefusal
<1>2. Kinds = {"BIAS", "DARK", "FLAT"} /\ L \in SUBSET DOMAIN Shot
  BY DEF Kinds, Files
<1>3. (\E f \in DOMAIN lights : profile = lights[f]) \/ (\E c \in L : profile = Shot[c])
  <2>1. CASE firsts = {}
    <3> DEFINE D == DOMAIN lights
    <3>1. \E c \in D : \A d \in D : c <= d
      BY HasLeast
    <3> HIDE DEF D
    <3>2. FirstOf(D) \in D
      BY <3>1 DEF FirstOf
    <3> QED BY <2>1, <3>2 DEF D
  <2>2. CASE firsts # {}
    <3>1. firsts \subseteq L
      <4> SUFFICES ASSUME NEW g \in groups PROVE FirstOf(g) \in L
        OBVIOUS
      <4>1. Traits(g).kind \in Kinds /\ g \in GC(Traits(g).kind)
        BY GroupsOf
      <4> QED BY <4>1, DarksAre DEF OfKind
    <3>2. firsts \in SUBSET DOMAIN Shot
      BY <1>2, <3>1
    <3> HIDE DEF firsts
    <3>3. FirstOf(firsts) \in firsts
      BY <2>2, <3>2, FirstIs
    <3> QED BY <2>2, <3>1, <3>3
  <2> QED BY <2>1, <2>2
<1> HIDE DEF profile
<1>4. /\ \A c \in L : SameProfile(profile, Shot[c])
      /\ \A f \in DOMAIN lights : SameProfile(profile, lights[f])
  BY <1>3, ProfilesAgree
<1>5. /\ DOMAIN pairing = DOMAIN lights
      /\ \A f \in DOMAIN lights :
           pairing[f] = PairLight(lights[f], GC("BIAS"), GC("DARK"), GC("FLAT"), Leaving(L, Strict))
      /\ DOMAIN flats = {h \in GC("FLAT") : ~Supplied(h)}
      /\ \A g \in DOMAIN flats : flats[g] = PairFlat(Traits(g), GC("BIAS"), GC("DARK"), 0, Leaving(L, Strict))
  <2>1. (IF Strict = MonoStandard THEN FlatDarkLimit ELSE 0) = 0
    BY DEF Strict, MonoStandard
  <2> QED BY ONLY <2>1, MatchIs
<1>6. \A g \in DOMAIN flats : g \in GC("FLAT") /\ FlatReady(Traits(g), L)
  <2> SUFFICES ASSUME NEW g \in DOMAIN flats PROVE g \in GC("FLAT") /\ FlatReady(Traits(g), L)
    OBVIOUS
  <2>1. g \in GC("FLAT") /\ ~Supplied(g)
    BY <1>5
  <2>2. FirstOf(g) \in OfKind(L, "FLAT") /\ Traits(g) = Shot[FirstOf(g)]
    BY <1>2, <2>1, DarksAre
  <2>3. FirstOf(g) \in RawOf(L, "FLAT")
    BY <2>1, <2>2 DEF RawOf, MastersOf, Supplied
  <2> QED BY <2>1, <2>2, <2>3
<1>7. PICK f0 \in DOMAIN lights : Fits(lights[f0], L)
  BY DEF LightReady
<1>8. NoNights(L) => ~Ambiguous([lights |-> pairing, flats |-> flats])
  <2> SUFFICES ASSUME NoNights(L), NEW p \in Pairings([lights |-> pairing, flats |-> flats])
               PROVE  p.warnings \cap AmbiguousCodes = {}
    BY DEF Ambiguous, AmbiguousCodes
  <2>1. (\E f \in DOMAIN pairing : p = pairing[f]) \/ (\E g \in DOMAIN flats : p = flats[g])
    <3> HIDE DEF pairing, flats
    <3> QED BY DEF Pairings
  <2>2. ASSUME NEW f \in DOMAIN lights PROVE pairing[f].warnings \cap AmbiguousCodes = {}
    <3> DEFINE t == lights[f]
    <3>1. IsLight(t) /\ LightReady(t, L, rec)
      OBVIOUS
    <3>2. pairing[f] = PairLight(t, GC("BIAS"), GC("DARK"), GC("FLAT"), Leaving(L, Strict))
      BY <1>5
    <3> HIDE DEF t, pairing
    <3> QED BY <3>1, <3>2, LightUntied DEF IsLight
  <2>3. ASSUME NEW g \in DOMAIN flats PROVE flats[g].warnings \cap AmbiguousCodes = {}
    <3>1. g \in GC("FLAT") /\ FlatReady(Traits(g), L)
      BY <1>6
    <3>2. flats[g] = PairFlat(Traits(g), GC("BIAS"), GC("DARK"), 0, Leaving(L, Strict))
      BY <1>5
    <3> HIDE DEF flats
    <3> QED BY <3>1, <3>2, FlatUntied
  <2> QED BY <1>5, <2>1, <2>2, <2>3
<1>9. NoNights(L) => ~ \E g, h \in groups : BaseName(g) = BaseName(h) /\ Supplied(g) # Supplied(h)
  BY <1>7, SourcesAgree
<1>10. light = "" \/ \E f \in DOMAIN lights : light = StrictLight(lights[f], pairing[f], darks, Strict)
  <2> DEFINE codes == lightCodes
  <2>1. DOMAIN codes = DOMAIN lights /\ \A f \in DOMAIN lights : codes[f] = StrictLight(lights[f], pairing[f], darks, Strict)
    OBVIOUS
  <2>2. light = "" \/ \E x \in DOMAIN codes : light = codes[x]
    <3> HIDE DEF lightCodes
    <3> QED BY <2>1, FirstLightRefusal
  <2> HIDE DEF codes, lightCodes, light
  <2> QED BY <2>1, <2>2
<1>11. flat = "" \/ \E g \in DOMAIN flats : flat = StrictFlat(Traits(g), flats[g])
  <2> DEFINE codes == flatCodes
  <2>1. DOMAIN codes = DOMAIN flats /\ \A g \in DOMAIN flats : codes[g] = StrictFlat(Traits(g), flats[g])
    OBVIOUS
  <2>2. \A g \in DOMAIN codes : FirstOf(g) \in Nat
    BY <1>2, <1>6, <2>1, DarksAre, CalibrationAssumption DEF OfKind
  <2>3. flat = "" \/ \E x \in DOMAIN codes : flat = codes[x]
    <3> HIDE DEF flatCodes
    <3> QED BY <2>2, FirstFlatRefusal
  <2> HIDE DEF codes, flatCodes, flat
  <2> QED BY <2>1, <2>3
<1>12. StrictLeft(light, L, rec)
  <2> SUFFICES ASSUME light # "" PROVE StrictLeft(light, L, rec)
    BY DEF StrictLeft
  <2>1. PICK f \in DOMAIN lights : light = StrictLight(lights[f], pairing[f], darks, Strict)
    BY <1>10
  <2> DEFINE t == lights[f]
  <2>2. IsLight(t) /\ LightReady(t, L, rec)
    OBVIOUS
  <2>3. pairing[f] = PairLight(t, GC("BIAS"), GC("DARK"), GC("FLAT"), Leaving(L, Strict))
    BY <1>5
  <2>4. light = StrictLight(t, pairing[f], darks, Strict)
    BY <2>1
  <2> HIDE DEF t, pairing, light
  <2> DEFINE refused == StrictLight(t, PairLight(t, GC("BIAS"), GC("DARK"), GC("FLAT"), Leaving(L, Strict)),
                                    darks, Strict)
  <2>5. L \in Files /\ OneSource(L) /\ t \in TraitsOf({"LIGHT"})
    BY <2>2 DEF IsLight
  <2>6. \/ refused = ""
        \/ refused = "MASTER_FLAT_MISSING" /\ rec.need["FLAT"] # "REQUIRED"
        \/ refused = "DARK_EXPOSURE_MISMATCH" /\ ~NoNights(L)
        \/ refused = "CALIBRATION_PROFILE_MISMATCH" /\ ~SteadyDarks(L)
        \/ refused = "BIAS_REQUIRED_FOR_CALIBRATION" /\ rec.need["BIAS"] # "REQUIRED"
    BY ONLY <2>2, <2>5, LightForeseen
  <2>7. light = refused
    BY <2>3, <2>4
  <2> HIDE DEF refused
  <2> QED BY <2>6, <2>7 DEF StrictLeft
<1>13. StrictLeft(flat, L, rec)
  <2> SUFFICES ASSUME flat # "" PROVE StrictLeft(flat, L, rec)
    BY DEF StrictLeft
  <2>1. PICK g \in DOMAIN flats : flat = StrictFlat(Traits(g), flats[g])
    BY <1>11
  <2>2. g \in GC("FLAT") /\ FlatReady(Traits(g), L)
    BY <1>6
  <2>3. flats[g] = PairFlat(Traits(g), GC("BIAS"), GC("DARK"), 0, Leaving(L, Strict))
    BY <1>5
  <2> HIDE DEF flats, flat
  <2> DEFINE refused == StrictFlat(Traits(g), PairFlat(Traits(g), GC("BIAS"), GC("DARK"), 0, Leaving(L, Strict)))
  <2>4. L \in Files /\ OfKind(L, "BIAS") # {}
    OBVIOUS
  <2>5. refused = "" \/ (refused = "BIAS_REQUIRED_FOR_CALIBRATION" /\ ~NoNights(L))
    BY ONLY <2>2, <2>4, FlatForeseen
  <2>6. flat = refused
    BY <2>1, <2>3
  <2> HIDE DEF refused
  <2> QED BY <2>5, <2>6 DEF StrictLeft
<1> HIDE DEF light, flat, groups, pairing, flats, match, darks
<1>14. refusal =
         IF \/ \E c \in L : ~SameProfile(profile, Shot[c])
            \/ \E f \in DOMAIN lights : ~SameProfile(profile, lights[f])
         THEN "CALIBRATION_PROFILE_MISMATCH"
         ELSE IF \/ Ambiguous([lights |-> pairing, flats |-> flats])
                 \/ \E g, h \in groups : BaseName(g) = BaseName(h) /\ Supplied(g) # Supplied(h)
         THEN "SOURCE_AMBIGUOUS"
         ELSE IF light # "" THEN light ELSE flat
  BY <1>1 DEF StrictRefusalOf, light, flat, darks
<1> HIDE DEF refusal
<1>15. \/ refusal = "SOURCE_AMBIGUOUS" /\ ~NoNights(L)
       \/ refusal = light \/ refusal = flat
  BY <1>4, <1>8, <1>9, <1>14
<1>16. StrictLeft(refusal, L, rec)
  BY <1>12, <1>13, <1>15 DEF StrictLeft
<1> QED BY <1>16 DEF refusal, match

-----------------------------------------------------------------------------
(* What an inspection that finds nothing to block says of the run.         *)
LEMMA RequestedIs ==
  ASSUME NEW lib \in Files, NEW rec \in Demands
  PROVE  /\ Requested(lib, rec) \in Files /\ Requested(lib, rec) \subseteq lib
         /\ OfKind(Requested(lib, rec), "DARK") # {} => Requested(lib, rec) = lib
<1>1. Requested(lib, rec) \subseteq lib
  BY DEF Requested
<1>2. Requested(lib, rec) \in Files
  BY <1>1, FS_Subset DEF Files
<1>3. OfKind(Requested(lib, rec), "DARK") # {} => Requested(lib, rec) = lib
  BY DEF OfKind, Requested
<1> QED BY <1>1, <1>2, <1>3

LEMMA StrictReady ==
  ASSUME NEW lib \in Files, NEW lights, NEW rec \in Demands, InspectionErrors(lights, lib, rec, Strict) = {},
         NEW part, DOMAIN part \subseteq DOMAIN lights, \A f \in DOMAIN part : part[f] = lights[f]
  PROVE  LET L == Requested(lib, rec) IN
         /\ Alike(part, L) /\ OneSource(L) /\ Undeclared(lib) = {} /\ OneSource(lib)
         /\ \A f \in DOMAIN part : LightReady(part[f], L, rec)
         /\ \A c \in RawOf(L, "FLAT") : FlatReady(Shot[c], L)
<1> DEFINE L == Requested(lib, rec)
<1>1. lib \in SUBSET DOMAIN Shot /\ L \in SUBSET lib
  BY RequestedIs DEF Files
<1>2. /\ MatchErrors(lights, L, rec, Strict, Leaving(L, Strict)) = {}
      /\ StrictLibraryErrors(lights, lib) = {}
  <2>1. PICK W : W = Strict
    OBVIOUS
  <2>2. InspectionErrors(lights, lib, rec, W) = {} /\ lib \in SUBSET DOMAIN Shot
    BY <1>1, <2>1
  <2>3. /\ MatchErrors(lights, L, rec, W, Leaving(L, W)) = {}
        /\ W = Strict => StrictLibraryErrors(lights, lib) = {}
    BY <2>2, QuietIs
  <2> QED BY <2>1, <2>3
<1>3. StrictErrors(lights, L, rec) = {}
  <2>1. Strict # MonoStandard
    BY DEF Strict, MonoStandard
  <2> QED BY <1>2, <2>1 DEF MatchErrors
<1>4. /\ Alike(lights, lib) /\ OneSource(lib) /\ Undeclared(lib) = {}
      /\ OfKind(lib, "DARK") # {} =>
           \A f \in DOMAIN lights : \E c \in OfKind(lib, "DARK") : Compatible(lights[f], Shot[c])
      /\ \A c \in OfKind(lib, "FLAT") : \A d \in OfKind(lib, "DARK") :
           ~Shot[c].supplied /\ Shot[c].exposure = Shot[d].exposure => Compatible(Shot[c], Shot[d])
  BY <1>2, StrictIs
<1>5. OfKind(L, "DARK") # {} => L = lib
  BY RequestedIs
<1> HIDE DEF L
<1>6. Alike(part, L) /\ OneSource(L)
  BY <1>1, <1>4, PartsAreAlike
<1>7. ASSUME NEW f \in DOMAIN part PROVE LightReady(part[f], L, rec)
  <2> DEFINE t == part[f]
  <2>1. f \in DOMAIN lights /\ t = lights[f]
    OBVIOUS
  <2>2. Fits(t, L)
    <3>1. \A c \in L : Shot[c] \in {Shot[d] : d \in L} \cup {part[g] : g \in DOMAIN part}
      OBVIOUS
    <3>2. t \in {Shot[d] : d \in L} \cup {part[g] : g \in DOMAIN part}
      OBVIOUS
    <3> HIDE DEF t
    <3> QED BY <1>6, <3>1, <3>2 DEF Alike, Fits
  <2> HIDE DEF t
  <2>3. OfKind(L, "DARK") # {} => \E c \in OfKind(L, "DARK") : Compatible(t, Shot[c])
    BY <1>4, <1>5, <2>1
  <2>4. ASSUME NEW kind \in {"BIAS", "FLAT"}, rec.need[kind] = "REQUIRED"
        PROVE  \E c \in OfKind(L, kind) : Compatible(t, Shot[c]) /\ KeywordsCompatible(t, Shot[c])
    <3>1. Candidates(t, kind, L) # {}
      BY <1>3, <2>1, <2>4, StrictQuiet DEF Kinds
    <3> QED BY <3>1, CandidateIs
  <2>5. LightReady(t, L, rec)
    BY <2>2, <2>3, <2>4 DEF LightReady
  <2> QED BY <2>5 DEF t
<1>8. ASSUME NEW c \in RawOf(L, "FLAT") PROVE FlatReady(Shot[c], L)
  <2>1. c \in L /\ c \in OfKind(lib, "FLAT") /\ ~Shot[c].supplied
    BY <1>1 DEF RawOf, MastersOf, OfKind
  <2>2. Fits(Shot[c], L)
    BY <1>6, <2>1 DEF Alike, Fits
  <2>3. \A d \in OfKind(L, "DARK") : d \in OfKind(lib, "DARK")
    BY <1>1 DEF OfKind
  <2> QED BY <1>4, <2>1, <2>2, <2>3 DEF FlatReady
<1> QED BY <1>4, <1>6, <1>7, <1>8 DEF L

(* The pairing of a Light does not depend on the other Lights.             *)
LEMMA PairsAgree ==
  ASSUME NEW lights, NEW L, NEW W, NEW part, DOMAIN part \subseteq DOMAIN lights,
         \A f \in DOMAIN part : part[f] = lights[f], NEW h \in DOMAIN part
  PROVE  /\ h \in DOMAIN MatchCalibration(lights, L, W).lights
         /\ MatchCalibration(part, L, W).lights[h] = MatchCalibration(lights, L, W).lights[h]
<1>1. h \in DOMAIN part /\ h \in DOMAIN lights /\ part[h] = lights[h]
  OBVIOUS
<1> QED BY ONLY <1>1, MatchIs

LEMMA MonoMatch ==
  ASSUME NEW lights, NEW L, NEW rec
  PROVE  MatchErrors(lights, L, rec, MonoStandard, Leaving(L, MonoStandard)) =
           WbppErrors(MatchCalibration(lights, L, MonoStandard), rec)
BY DEF MatchErrors, MatchCalibration

(* What a recipe requires is there.                                        *)
LEMMA RequiredIsThere ==
  ASSUME NEW lib \in Files, NEW lights, DOMAIN lights # {}, \A f \in DOMAIN lights : IsLight(lights[f]),
         NEW rec \in Demands, NEW W \in {MonoStandard, Strict}, InspectionErrors(lights, lib, rec, W) = {},
         NEW kind \in Kinds, rec.need[kind] = "REQUIRED"
  PROVE  OfKind(Requested(lib, rec), kind) # {}
<1> DEFINE L == Requested(lib, rec)
<1>1. lib \in SUBSET DOMAIN Shot /\ L \in Files
  BY RequestedIs DEF Files
<1>2. MatchErrors(lights, L, rec, W, Leaving(L, W)) = {}
  BY <1>1, QuietIs
<1>3. PICK f \in DOMAIN lights : TRUE
  OBVIOUS
<1> DEFINE t == lights[f]
<1>4. IsLight(t)
  OBVIOUS
<1> HIDE DEF L
<1>5. CASE W = MonoStandard
  <2> DEFINE match == MatchCalibration(lights, L, W)
             p == match.lights[f]
             GC(k) == GroupCalibration(L, k)
  <2>1. WbppErrors(match, rec) = {}
    BY <1>2, <1>5, MonoMatch
  <2>2. f \in DOMAIN match.lights /\ p = PairLight(t, GC("BIAS"), GC("DARK"), GC("FLAT"), Leaving(L, W))
    BY ONLY <1>3, MatchIs
  <2>3. GroupOf(p, kind) # NoGroup
    <3> HIDE DEF match
    <3> QED BY <2>1, <2>2, MonoQuiet
  <2> DEFINE choice(k) == Choose(t, k, GC(k), GC(k))
  <2>4. p = LightPairing(choice("BIAS"), choice("DARK"), choice("FLAT"),
                         choice("DARK").group \in Leaving(L, W), GC("DARK") # {})
    BY <2>2, LightPairs
  <2> HIDE DEF p, match, choice, GC, t
  <2>5. GroupOf(p, kind) = choice(kind).group
    BY <2>4 DEF LightPairing, GroupOf, Kinds
  <2>6. t \in TraitsOf(Kinds \cup {"LIGHT"})
    BY <1>4 DEF IsLight, TraitsOf
  <2>7. choice(kind).group \in GC(kind)
    <3>1. choice(kind).group \in GC(kind) \cup {NoGroup}
      BY <1>1, <2>6, ChosenOf DEF choice, GC
    <3> QED BY <2>3, <2>5, <3>1
  <2> QED BY <1>1, <2>7, DarksAre DEF GC, L
<1>6. CASE W = Strict
  <2>1. StrictErrors(lights, L, rec) = {}
    <3>1. Strict # MonoStandard
      BY DEF Strict, MonoStandard
    <3> QED BY <1>2, <1>6, <3>1 DEF MatchErrors
  <2>2. Candidates(lights[f], kind, L) # {}
    BY <2>1, StrictQuiet
  <2> QED BY <2>2, CandidateIs DEF L
<1> QED BY <1>5, <1>6

LEMMA SourceForeseen ==
  ASSUME NEW lib \in Files, NEW lights, DOMAIN lights # {}, \A f \in DOMAIN lights : IsLight(lights[f]),
         NEW rec \in Demands, NEW W \in {MonoStandard, Strict}, InspectionErrors(lights, lib, rec, W) = {},
         NEW units
  PROVE  LET refusal == SourceRefusal(units, Requested(lib, rec), W) IN
         /\ refusal \notin CalibrationCodes \ Unforeseen(lib, rec, W)
         /\ refusal = "" /\ W = Strict => OfKind(Requested(lib, rec), "BIAS") # {}
<1> DEFINE L == Requested(lib, rec)
           refusal == SourceRefusal(units, L, W)
           shots(k) == {Shot[c] : c \in {d \in L : Shot[d].kind = k}}
<1>1. lib \in SUBSET DOMAIN Shot /\ L \subseteq lib
  BY RequestedIs DEF Files
<1>2. /\ \A c \in lib : Shot[c].role # "other"
      /\ \A c \in OfKind(lib, "DARK") : Shot[c].exposure # 0
      /\ W = Strict => StrictLibraryErrors(lights, lib) = {}
  <2>1. lib \in SUBSET DOMAIN Shot
    BY <1>1
  <2>2. InspectionErrors(lights, lib, rec, W) = {} /\ rec \in Demands
    OBVIOUS
  <2> QED BY ONLY <2>1, <2>2, QuietIs
<1>3. W = Strict => Undeclared(lib) = {}
  BY <1>2, StrictIs
<1>4. shots("BIAS") = {} <=> OfKind(L, "BIAS") = {}
  BY DEF OfKind
<1>5. \A t \in shots("DARK") : t.exposure # 0 /\ ~(t.supplied /\ ResolveDarkBias(t, W) = "unresolved")
  <2> SUFFICES ASSUME NEW c \in L, Shot[c].kind = "DARK"
               PROVE  Shot[c].exposure # 0 /\ ~(Shot[c].supplied /\ ResolveDarkBias(Shot[c], W) = "unresolved")
    OBVIOUS
  <2>1. c \in OfKind(lib, "DARK")
    BY <1>1 DEF OfKind
  <2>2. Shot[c].header \in BiasNotes /\ Shot[c].explicit \in BiasNotes
    BY <1>1, TraitsAre DEF TraitsOf
  <2>3. Shot[c].supplied /\ Shot[c].explicit = "none" => W # Strict
    BY <1>3, <2>1 DEF Undeclared, MastersOf
  <2> QED BY <1>2, <2>1, <2>2, <2>3 DEF ResolveDarkBias, BiasNotes, Strict, MonoStandard
<1>6. refusal =
         IF \E c \in L : Shot[c].role = "other" THEN "FRAME_ROLE_MISMATCH"
         ELSE IF W = Strict /\ shots("BIAS") = {} THEN "BIAS_SOURCE_AMBIGUOUS"
         ELSE IF \E t \in shots("DARK") : t.supplied /\ ResolveDarkBias(t, W) = "unresolved"
              THEN "MASTER_DARK_BIAS_SEMANTICS_REQUIRED"
         ELSE IF 0 \in units THEN "CALIBRATION_NUMERIC_DOMAIN_AMBIGUOUS"
         ELSE IF Cardinality(units) > 1 THEN "REGISTRATION_LIGHT_NUMERIC_DOMAIN_MIXED"
         ELSE IF \E t \in shots("DARK") : t.exposure = 0 THEN "DARK_EXPOSURE_UNKNOWN"
         ELSE IF \E t \in shots("FLAT") : t.filter = "" THEN "FILTER_UNKNOWN"
         ELSE ""
  BY DEF SourceRefusal
<1>7. (\E t \in shots("FLAT") : t.filter = "") => \E c \in OfKind(lib, "FLAT") : Shot[c].filter = ""
  BY <1>1 DEF OfKind
<1>8. W = Strict /\ OfKind(L, "BIAS") = {} => rec.need["BIAS"] # "REQUIRED"
  BY RequiredIsThere DEF Kinds
<1> HIDE DEF refusal, shots, L
<1>9. \/ refusal = ""
      \/ refusal = "FRAME_ROLE_MISMATCH" /\ \E c \in L : Shot[c].role = "other"
      \/ refusal = "BIAS_SOURCE_AMBIGUOUS" /\ W = Strict /\ shots("BIAS") = {}
      \/ /\ refusal = "MASTER_DARK_BIAS_SEMANTICS_REQUIRED"
         /\ \E t \in shots("DARK") : t.supplied /\ ResolveDarkBias(t, W) = "unresolved"
      \/ refusal \in {"CALIBRATION_NUMERIC_DOMAIN_AMBIGUOUS", "REGISTRATION_LIGHT_NUMERIC_DOMAIN_MIXED"}
      \/ refusal = "DARK_EXPOSURE_UNKNOWN" /\ \E t \in shots("DARK") : t.exposure = 0
      \/ refusal = "FILTER_UNKNOWN" /\ \E t \in shots("FLAT") : t.filter = ""
  BY <1>6
<1>10. refusal = "" /\ W = Strict => shots("BIAS") # {}
  BY <1>6
<1>11. \/ refusal = "" \/ refusal \in Unforeseen(lib, rec, W)
  <2>1. ~ \E c \in L : Shot[c].role = "other"
    BY <1>1, <1>2
  <2>2. \/ refusal = ""
        \/ refusal = "BIAS_SOURCE_AMBIGUOUS" /\ W = Strict /\ rec.need["BIAS"] # "REQUIRED"
        \/ refusal \in {"CALIBRATION_NUMERIC_DOMAIN_AMBIGUOUS", "REGISTRATION_LIGHT_NUMERIC_DOMAIN_MIXED"}
        \/ refusal = "FILTER_UNKNOWN" /\ \E c \in OfKind(lib, "FLAT") : Shot[c].filter = ""
    BY <1>4, <1>5, <1>7, <1>8, <1>9, <2>1
  <2> QED BY <2>2 DEF Unforeseen, Issue
<1>12. refusal \notin CalibrationCodes \ Unforeseen(lib, rec, W)
  BY <1>11 DEF CalibrationCodes
<1> QED BY <1>4, <1>10, <1>12 DEF refusal, L

(* No group that fits in its keywords is refused for its size.             *)
LEMMA Possible ==
  ASSUME NEW L \in Files, NEW kind, NEW t \in TraitsOf(Kinds \cup {"LIGHT"}), NEW near, Fits(t, L)
  PROVE  ~Choose(t, kind, GroupCalibration(L, kind), near).impossible
<1> DEFINE groups == GroupCalibration(L, kind)
<1>1. groups \in SUBSET AllGroups(L, kind) /\ L \in SUBSET DOMAIN Shot
  BY GroupsAre DEF Files
<1>2. \A g \in groups : PhysicallyCompatible(t, Traits(g))
  <2> SUFFICES ASSUME NEW g \in groups PROVE PhysicallyCompatible(t, Traits(g))
    OBVIOUS
  <2>1. FirstOf(g) \in L
    BY <1>1, GroupIs DEF OfKind
  <2> QED BY <2>1 DEF Fits, SameProfile, PhysicallyCompatible, Traits
<1>3. CASE Fitting(t, kind, groups, near) = {}
  <2> HIDE DEF groups
  <2>1. Choose(t, kind, groups, near).impossible <=>
          \E g \in groups : Suits(t, kind, g) /\ ~PhysicallyCompatible(t, Traits(g))
    BY <1>1, <1>3, ChoiceIs
  <2> QED BY <1>2, <2>1 DEF groups
<1>4. CASE Fitting(t, kind, groups, near) # {}
  BY <1>1, <1>4, ChoiceIs
<1> QED BY <1>3, <1>4

LEMMA CompatiblePairs ==
  ASSUME NEW lib \in Files, NEW lights, \A f \in DOMAIN lights : IsLight(lights[f]),
         NEW rec \in Demands, NEW W \in {MonoStandard, Strict}, InspectionErrors(lights, lib, rec, W) = {},
         NEW part, DOMAIN part \subseteq DOMAIN lights, \A f \in DOMAIN part : part[f] = lights[f],
         NEW h \in DOMAIN part
  PROVE  MatchCalibration(part, Requested(lib, rec), W).lights[h].errors = {}
<1> DEFINE L == Requested(lib, rec)
           match == MatchCalibration(lights, L, W)
           p == match.lights[h]
<1>1. lib \in SUBSET DOMAIN Shot /\ L \in Files
  BY RequestedIs DEF Files
<1>2. h \in DOMAIN match.lights /\ MatchCalibration(part, L, W).lights[h] = p
  <2> HIDE DEF L
  <2> QED BY PairsAgree
<1>3. CASE W = MonoStandard
  <2>1. MatchErrors(lights, L, rec, W, Leaving(L, W)) = {}
    BY <1>1, QuietIs
  <2> HIDE DEF L
  <2>2. WbppErrors(match, rec) = {}
    BY <1>3, <2>1, MonoMatch
  <2> HIDE DEF match
  <2> QED BY <1>2, <2>2, MonoQuiet DEF L
<1>4. CASE W = Strict
  <2>1. LightReady(part[h], L, rec)
    <3>1. InspectionErrors(lights, lib, rec, Strict) = {}
      BY <1>4
    <3> QED BY <3>1, StrictReady
  <2> DEFINE t == lights[h]
             GC(k) == GroupCalibration(L, k)
             choice(k) == Choose(t, k, GC(k), GC(k))
  <2> HIDE DEF L
  <2>2. h \in DOMAIN lights /\ part[h] = t /\ IsLight(t)
    OBVIOUS
  <2>3. p = PairLight(t, GC("BIAS"), GC("DARK"), GC("FLAT"), Leaving(L, W))
    BY ONLY <2>2, MatchIs
  <2>4. p = LightPairing(choice("BIAS"), choice("DARK"), choice("FLAT"),
                         choice("DARK").group \in Leaving(L, W), GC("DARK") # {})
    BY <2>3, LightPairs
  <2>5. Fits(t, L)
    BY <2>1, <2>2 DEF LightReady
  <2> HIDE DEF t
  <2>6. t \in TraitsOf(Kinds \cup {"LIGHT"})
    BY <2>2 DEF IsLight, TraitsOf
  <2>7. ~choice("BIAS").impossible /\ ~choice("DARK").impossible /\ ~choice("FLAT").impossible
    BY <1>1, <2>5, <2>6, Possible
  <2> HIDE DEF p, choice, GC
  <2>8. p.errors = {}
    BY <2>4, <2>7 DEF LightPairing, Issue
  <2> QED BY <1>2, <2>8 DEF L
<1> QED BY <1>3, <1>4

LEMMA RunForeseen ==
  ASSUME NEW lib \in Files, NEW lights, DOMAIN lights \subseteq Nat, \A f \in DOMAIN lights : IsLight(lights[f]),
         NEW rec \in Demands, NEW W \in {MonoStandard, Strict}, InspectionErrors(lights, lib, rec, W) = {},
         NEW part, DOMAIN part \subseteq DOMAIN lights, DOMAIN part # {},
         \A f \in DOMAIN part : part[f] = lights[f]
  PROVE  CalibrationRefusal(part, Requested(lib, rec), MatchCalibration(part, Requested(lib, rec), W), W)
           \notin CalibrationCodes \ Unforeseen(lib, rec, W)
<1> DEFINE L == Requested(lib, rec)
           match == MatchCalibration(part, L, W)
           source == SourceRefusal({part[f].unit : f \in DOMAIN part}, L, W)
           errors == UNION {match.lights[f].errors : f \in DOMAIN part}
           strict == StrictRefusal(part, L, match, W)
           paired == PairingRefusal(match, errors, strict, W)
           refusal == CalibrationRefusal(part, L, match, W)
<1>1. refusal = IF source # "" THEN source ELSE paired
  BY DEF CalibrationRefusal, MatchRefusal
<1>2. DOMAIN lights # {}
  OBVIOUS
<1>3. /\ source \notin CalibrationCodes \ Unforeseen(lib, rec, W)
      /\ source = "" /\ W = Strict => OfKind(L, "BIAS") # {}
  BY <1>2, SourceForeseen
<1>4. errors = {}
  <2>1. \A f \in DOMAIN part : match.lights[f].errors = {}
    BY CompatiblePairs
  <2> HIDE DEF match
  <2> QED BY <2>1
<1>5. paired = "" \/ paired = "CALIBRATION_NUMERIC_DOMAIN_AMBIGUOUS" \/ (W = Strict /\ paired = strict)
  <2>1. paired =
          IF "BIAS_INCOMPATIBLE" \in errors THEN "BIAS_INCOMPATIBLE"
          ELSE IF "DARK_INCOMPATIBLE" \in errors THEN "DARK_INCOMPATIBLE"
          ELSE IF "FLAT_INCOMPATIBLE" \in errors THEN "FLAT_INCOMPATIBLE"
          ELSE IF W = Strict /\ strict # "" THEN strict
          ELSE IF 0 \in NeededUnits(match, W) THEN "CALIBRATION_NUMERIC_DOMAIN_AMBIGUOUS"
          ELSE ""
    BY DEF PairingRefusal
  <2> HIDE DEF match, strict, errors, L, paired
  <2> QED BY <1>4, <2>1
<1>6. ASSUME W = Strict, source = "" PROVE strict \notin CalibrationCodes \ Unforeseen(lib, rec, W)
  <2>1. InspectionErrors(lights, lib, rec, Strict) = {} /\ OfKind(L, "BIAS") # {}
    BY <1>3, <1>6
  <2>2. /\ Alike(part, L) /\ OneSource(L)
        /\ \A f \in DOMAIN part : LightReady(part[f], L, rec)
        /\ \A c \in RawOf(L, "FLAT") : FlatReady(Shot[c], L)
    BY <2>1, StrictReady
  <2>3. L \in Files /\ L \subseteq lib
    BY RequestedIs
  <2>4. \A f \in DOMAIN part : IsLight(part[f])
    OBVIOUS
  <2>5. DOMAIN part \subseteq Nat /\ DOMAIN part # {}
    OBVIOUS
  <2>6. strict = StrictRefusal(part, L, MatchCalibration(part, L, Strict), Strict)
    BY <1>6
  <2> HIDE DEF L, strict
  <2>7. StrictLeft(strict, L, rec)
    BY ONLY <2>1, <2>2, <2>3, <2>4, <2>5, <2>6, StrictForeseen
  <2>8. ~NoNights(L) => \E c \in lib : Shot[c].night # 0
    BY <2>3 DEF NoNights
  <2>9. ~SteadyDarks(L) => \E c, d \in RawOf(lib, "DARK") : /\ Shot[c].exposure = Shot[d].exposure
                                                           /\ Shot[c].temperature # Shot[d].temperature
    BY <2>3 DEF SteadyDarks, RawOf, MastersOf, OfKind
  <2>10. strict = "" \/ strict \in Unforeseen(lib, rec, W)
    BY <1>6, <2>7, <2>8, <2>9 DEF StrictLeft, Unforeseen, Issue
  <2> QED BY <2>10 DEF CalibrationCodes
<1>7. "" \notin CalibrationCodes /\ "CALIBRATION_NUMERIC_DOMAIN_AMBIGUOUS" \in Unforeseen(lib, rec, W)
  BY DEF CalibrationCodes, Unforeseen
<1> HIDE DEF source, paired, strict, refusal
<1>8. refusal \notin CalibrationCodes \ Unforeseen(lib, rec, W)
  BY <1>1, <1>3, <1>5, <1>6, <1>7
<1> QED BY <1>8 DEF refusal, match, L

(* The plan pairs as if no Dark declared its bias; it asks for no more     *)
(* than the inspection did.                                                *)
LEMMA PlannedPairs ==
  ASSUME NEW lights, NEW L, NEW limit, NEW leaving, NEW f \in DOMAIN lights
  PROVE  /\ DOMAIN MatchLibrary(lights, L, limit, leaving).lights = DOMAIN lights
         /\ MatchLibrary(lights, L, limit, leaving).lights[f] =
              PairLight(lights[f], GroupCalibration(L, "BIAS"), GroupCalibration(L, "DARK"),
                        GroupCalibration(L, "FLAT"), leaving)
BY DEF MatchLibrary, MatchGroups, Kinds

LEMMA LaxMatch ==
  ASSUME NEW lights, NEW L, NEW rec, NEW limit, NEW S, NEW R, S \subseteq R,
         WbppErrors(MatchLibrary(lights, L, limit, R), rec) = {}
  PROVE  WbppErrors(MatchLibrary(lights, L, limit, S), rec) = {}
<1> DEFINE strict == MatchLibrary(lights, L, limit, R)
           lax == MatchLibrary(lights, L, limit, S)
<1>1. DOMAIN strict.lights = DOMAIN lights /\ DOMAIN lax.lights = DOMAIN lights
  BY DEF MatchLibrary, MatchGroups
<1>2. ASSUME NEW f \in DOMAIN lights
      PROVE  /\ lax.lights[f].errors = {}
             /\ \A k \in Kinds : rec.need[k] = "REQUIRED" => GroupOf(lax.lights[f], k) # NoGroup
  <2> DEFINE of(k) == Choose(lights[f], k, GroupCalibration(L, k), GroupCalibration(L, k))
             paired(set) == LightPairing(of("BIAS"), of("DARK"), of("FLAT"), of("DARK").group \in set,
                                         GroupCalibration(L, "DARK") # {})
  <2>1. strict.lights[f] = paired(R) /\ lax.lights[f] = paired(S)
    BY ONLY f \in DOMAIN lights, PlannedPairs, LightPairs
  <2> HIDE DEF strict
  <2>2. /\ strict.lights[f].errors = {}
        /\ \A k \in Kinds : rec.need[k] = "REQUIRED" => GroupOf(strict.lights[f], k) # NoGroup
    BY <1>1, MonoQuiet DEF strict
  <2> HIDE DEF lax, of
  <2> DEFINE any == GroupCalibration(L, "DARK") # {}
             d == of("DARK")
  <2>3. LightPairing(of("BIAS"), d, of("FLAT"), d.group \in R, any).errors = {}
    BY <2>1, <2>2
  <2>4. S \subseteq R
    OBVIOUS
  <2> HIDE DEF any, d
  <2>5. /\ LightPairing(of("BIAS"), d, of("FLAT"), d.group \in S, any).errors = {}
        /\ \A k : GroupOf(LightPairing(of("BIAS"), d, of("FLAT"), d.group \in S, any), k) =
                  GroupOf(LightPairing(of("BIAS"), d, of("FLAT"), d.group \in R, any), k)
    <3> DEFINE b == of("BIAS")   l == of("FLAT")
    <3>1. LightPairing(b, d, l, d.group \in R, any).errors = {}
      BY <2>3
    <3> HIDE DEF b, l
    <3>2. /\ LightPairing(b, d, l, d.group \in S, any).errors = {}
          /\ \A k : GroupOf(LightPairing(b, d, l, d.group \in S, any), k) =
                    GroupOf(LightPairing(b, d, l, d.group \in R, any), k)
      BY ONLY <2>4, <3>1 DEF LightPairing, Issue, GroupOf
    <3> QED BY <3>2 DEF b, l
  <2>6. paired(S).errors = {} /\ \A k : GroupOf(paired(S), k) = GroupOf(paired(R), k)
    BY <2>5 DEF any, d
  <2> HIDE DEF paired
  <2> QED BY <2>1, <2>2, <2>6
<1> HIDE DEF lax, strict
<1>3. PairingErrors(lax) = {}
  BY <1>1, <1>2 DEF PairingErrors
<1>4. \A k \in Kinds : rec.need[k] = "REQUIRED" => ~ \E f \in DOMAIN lax.lights : Lacks(lax.lights[f], k)
  BY <1>1, <1>2 DEF Lacks
<1> QED BY <1>3, <1>4 DEF WbppErrors, lax

LEMMA PlanAgrees ==
  ASSUME NEW lib \in Files, NEW lights, NEW rec \in Demands, NEW W \in {MonoStandard, Strict},
         InspectionErrors(lights, lib, rec, W) = {}
  PROVE  ContractErrors(lights, lib, rec, W) = {}
<1> DEFINE P == Planned(lib, rec)
<1>1. InventoryErrors(lib) = {} /\ MatchErrors(lights, P, rec, W, Leaving(P, W)) = {}
  BY DEF InspectionErrors
<1>2. {NoGroup} \subseteq Leaving(P, W)
  BY DEF Leaving, NeedsBias
<1> HIDE DEF P
<1>3. MatchErrors(lights, P, rec, W, {NoGroup}) = {}
  <2>1. CASE W = MonoStandard
    <3>1. WbppErrors(MatchLibrary(lights, P, FlatDarkLimit, Leaving(P, W)), rec) = {}
      BY <1>1, <2>1 DEF MatchErrors
    <3>2. WbppErrors(MatchLibrary(lights, P, FlatDarkLimit, {NoGroup}), rec) = {}
      BY <1>2, <3>1, LaxMatch
    <3> QED BY <2>1, <3>2 DEF MatchErrors
  <2>2. CASE W # MonoStandard
    BY <1>1, <2>2 DEF MatchErrors
  <2> QED BY <2>1, <2>2
<1> QED BY <1>1, <1>3 DEF ContractErrors, P

(* Nor does the preparation of the run.                                    *)
LEMMA PreparationForeseen ==
  ASSUME NEW lib \in Files, NEW lights, DOMAIN lights # {}, \A f \in DOMAIN lights : IsLight(lights[f]),
         NEW rec \in Demands, NEW W \in {MonoStandard, Strict}, InspectionErrors(lights, lib, rec, W) = {}
  PROVE  PreparationRefusal(lights, lib, rec, W) \notin CalibrationCodes \ Unforeseen(lib, rec, W)
<1> DEFINE refusal == InventoryRefusal(lib, rec, W)
<1>1. PreparationRefusal(lights, lib, rec, W) = refusal
  BY PlanAgrees DEF PreparationRefusal
<1>2. lib \in SUBSET DOMAIN Shot
  BY DEF Files
<1>3. /\ rec.masters \/ \A c \in lib : ~Shot[c].supplied
      /\ rec.need["FLAT"] # "DISABLED" /\ rec.need["BIAS"] # "DISABLED"
      /\ W = Strict => StrictLibraryErrors(lights, lib) = {}
  <2>1. InspectionErrors(lights, lib, rec, W) = {} /\ rec \in Demands
    OBVIOUS
  <2> QED BY ONLY <1>2, <2>1, QuietIs
<1>4. W = Strict => Undeclared(lib) = {} /\ ~Mixed(OfKind(lib, "BIAS"))
  <2>1. W = Strict => Undeclared(lib) = {} /\ OneSource(lib)
    BY <1>3, StrictIs
  <2> QED BY <2>1 DEF OneSource, Mixed
<1>5. \A kind \in Kinds : OfKind(lib, kind) = {} => rec.need[kind] # "REQUIRED"
  <2>1. \A kind \in Kinds : rec.need[kind] = "REQUIRED" => OfKind(Requested(lib, rec), kind) # {}
    BY RequiredIsThere
  <2> QED BY <2>1, RequestedIs DEF OfKind
<1>6. /\ OfKind(lib, "FLAT") = {} => rec.need["FLAT"] # "REQUIRED"
      /\ OfKind(lib, "BIAS") = {} => rec.need["BIAS"] # "REQUIRED"
      /\ ~(rec.need["DARK"] = "REQUIRED" /\ OfKind(lib, "DARK") = {})
  BY <1>5 DEF Kinds
<1>7. \/ refusal = ""
      \/ refusal = "NO_FLATS" /\ rec.need["FLAT"] # "REQUIRED"
      \/ /\ refusal = "BIAS_SOURCE_AMBIGUOUS"
         /\ \/ W = MonoStandard /\ Mixed(OfKind(lib, "BIAS"))
            \/ W = Strict /\ rec.need["BIAS"] # "REQUIRED"
  BY <1>3, <1>4, <1>6 DEF InventoryRefusal
<1> HIDE DEF refusal
<1>8. refusal = "" \/ refusal \in Unforeseen(lib, rec, W)
  BY <1>7 DEF Unforeseen, Issue
<1>9. refusal \notin CalibrationCodes \ Unforeseen(lib, rec, W)
  BY <1>8 DEF CalibrationCodes
<1> QED BY <1>1, <1>9
-----------------------------------------------------------------------------
(* The state: which calibration a run was refused for, or went ahead with. *)
Errors == {"", "MASTERS", "LIGHT_JOB", "AUTOCROP", "PUBLICATION"} \cup GroupErrors

CodeInv == code \in Errors

LEMMA FirstFailureFails ==
  ASSUME PassInv, NEW i \in Positions, Failed(i) PROVE group[FirstFailure] \in GroupErrors
<1> DEFINE S == {k \in Positions : Failed(k)}
<1>1. S \subseteq Nat /\ S # {}
  BY DEF Positions
<1>2. PICK m \in S : \A k \in S : m <= k
  BY <1>1, HasLeast
<1>3. Failed(FirstFailure)
  BY <1>2 DEF FirstFailure
<1> QED BY <1>3 DEF Failed

LEMMA HostCodes ==
  ASSUME PassInv, CodeInv, HostStep PROVE CodeInv'
<1>1. CASE BuildMasters
  BY <1>1 DEF BuildMasters, Raised, CodeInv, Errors
<1>2. CASE MeetFailedLight
  BY <1>2 DEF MeetFailedLight, CodeInv, Errors
<1>3. CASE StartGroups
  BY <1>3 DEF StartGroups, Raised, CodeInv, Errors
<1>4. CASE CollectFailure
  BY <1>4, FirstFailureFails DEF CollectFailure, Raised, CodeInv, Errors
<1>5. CASE Publish
  BY <1>5 DEF Publish, Raised, CodeInv, Errors
<1>6. CASE StartLight \/ EndLight \/ JoinLightPool \/ StartGroup \/ StartFit \/ EndFit
  BY <1>6 DEF StartLight, EndLight, JoinLightPool, StartGroup, StartFit, EndFit, CodeInv
<1>7. CASE TakeFit \/ EndCpu \/ FinishGroup \/ FailProducts \/ CancelFits \/ CloseRun
  BY <1>7 DEF TakeFit, EndCpu, FinishGroup, FailProducts, CancelFits, CloseRun, CodeInv
<1> QED BY <1>1, <1>2, <1>3, <1>4, <1>5, <1>6, <1>7 DEF HostStep

LEMMA CodeInvNext ==
  ASSUME PassInv, CodeInv, [PixelNext]_vars PROVE CodeInv'
<1>1. CASE UNCHANGED passVars
  BY <1>1 DEF passVars, CodeInv
<1>2. CASE ResetPass
  BY <1>2 DEF ResetPass, CodeInv, Errors
<1>3. CASE StartNextPass
  <2>1. CASE \E p : StartPass(p)
    BY <2>1 DEF StartPass, CodeInv, Errors
  <2> QED BY <1>1, <1>3, <2>1 DEF StartNextPass
<1>4. CASE IntegrationStep
  <2>1. CASE EndReduction
    BY <2>1 DEF EndReduction, LeaveMetal, CodeInv
  <2>2. ReduceOnMetal => UNCHANGED passVars
    BY DEF ReduceOnMetal
  <2> QED BY <1>1, <1>4, <2>1, <2>2, HostCodes DEF IntegrationStep
<1>5. CASE AfterPass
  BY <1>1, <1>2, <1>5 DEF AfterPass, Integrated, IntegrateAgain
<1> QED
  BY <1>1, <1>2, <1>3, <1>4, <1>5
     DEF PixelNext, PrepareRun, ScreenStep, BuildRegistrationMasters, RegisterLights,
         StartIntegration, PassFails, Done, vars

LEMMA CodesAreErrors == PixelSpec => []CodeInv
<1>1. PixelInit => CodeInv
  BY DEF PixelInit, PassInit, CodeInv, Errors
<1>2. PassInv /\ CodeInv /\ [PixelNext]_vars => CodeInv'
  BY CodeInvNext
<1> QED BY <1>1, <1>2, RunsOfPasses, PTL DEF PixelSpec

(* A run is refused for its calibration when it is prepared, or when some  *)
(* of its Lights are paired.                                               *)
RefusalFor(frames) == CalibrationRefusal(Headers(frames), Supply, Matched(frames), workflow)

Accounted(error) ==
  error \in CalibrationCodes =>
    \/ error = PreparationRefusal(Headers(Lights), library, recipe, workflow)
    \/ \E frames \in SUBSET Lights : frames # {} /\ error = RefusalFor(frames)

CalibrationInv ==
  /\ library \in Libraries /\ workflow \in Workflows /\ recipe \in Recipes
  /\ stage = "calibrated" => RefusalFor(admitted) = ""
  /\ stage = "failed" => Accounted(failure)

CalibrationRests == UNCHANGED <<library, workflow, recipe, stage, failure, admitted>>

LEMMA AccountedRests ==
  ASSUME NEW error, Accounted(error), UNCHANGED <<library, workflow, recipe>> PROVE Accounted(error)'
BY DEF Accounted, RefusalFor, Matched, Supply

LEMMA OtherErrors ==
  ASSUME NEW error,
         error \in Errors \cup {"FLAT_SIGNAL_INVALID", "REGISTRATION_FAILED",
                               "REGISTRATION_FULL_REFINEMENT_REJECTED", "REGISTRATION_MINIMUM"}
  PROVE  Accounted(error)
BY DEF Errors, GroupErrors, Accounted, CalibrationCodes

LEMMA FailsAccounted ==
  ASSUME CalibrationInv, NEW error, RunFails(error), Accounted(error) PROVE CalibrationInv'
<1>1. /\ stage' = "failed" /\ failure' = error
      /\ UNCHANGED <<library, workflow, recipe, admitted>>
  BY DEF RunFails, pixelVars
<1>2. Accounted(failure)'
  BY <1>1 DEF Accounted, RefusalFor, Matched, Supply
<1> QED BY <1>1, <1>2 DEF CalibrationInv

LEMMA CalibrationKept == ASSUME CalibrationInv, CalibrationRests PROVE CalibrationInv'
BY DEF CalibrationInv, CalibrationRests, Accounted, RefusalFor, Matched, Supply

(* The approvals and the selection are refused with codes of their own.    *)
LEMMA ReviewCodes ==
  ASSUME NEW b, NEW digest, NEW approvals, NEW selection
  PROVE  /\ ApplyApprovals(b, digest, approvals).code \notin CalibrationCodes
         /\ ApplySelection(b, digest, selection).code \notin CalibrationCodes
<1>1. ApplyApprovals(b, digest, approvals).code \in
        {"", "REVIEW_APPROVAL_DUPLICATE", "REVIEW_APPROVAL_POLICY_DRIFT", "REVIEW_APPROVAL_REQUEST_DRIFT",
         "REVIEW_APPROVAL_SOURCE_AMBIGUOUS", "REVIEW_APPROVAL_SOURCE_NOT_REVIEW",
         "REVIEW_APPROVAL_UNREGISTRABLE"}
  BY DEF ApplyApprovals, Refused, Admitted
<1>2. ApplySelection(b, digest, selection).code \in
        {"", "SELECTION_SOURCE_AMBIGUOUS", "SELECTION_SOURCE_UNKNOWN", "SELECTION_UNREGISTRABLE",
         "SELECTION_INCOMPLETE"}
  BY DEF ApplySelection, Refused, Admitted
<1> QED BY <1>1, <1>2 DEF CalibrationCodes

LEMMA AdmitAccounted == ASSUME CalibrationInv, Admit, UNCHANGED pixelVars PROVE CalibrationInv'
<1>1. UNCHANGED <<library, workflow, recipe>>
  BY DEF pixelVars
<1>2. ASSUME NEW error, error \notin CalibrationCodes, Fail(error) PROVE CalibrationInv'
  <2>1. stage' = "failed" /\ failure' = error
    BY <1>2 DEF Fail
  <2> QED BY <1>1, <1>2, <2>1 DEF CalibrationInv, Accounted
<1>3. ASSUME NEW policy, NEW reviewed, NEW decisions, NEW passed, AdmitBy(policy, reviewed, decisions, passed)
      PROVE  CalibrationInv'
  <2>1. stage' \in {"admitted", "evidence"}
    BY <1>3, ZenonT(60) DEF AdmitBy
  <2> QED BY <1>1, <2>1 DEF CalibrationInv
<1>4. PICK digest, policy, approvals, selection :
        AdmitWith(policy, ApplyApprovals(results, digest, approvals),
                  ApplySelection(results, digest, selection))
  BY DEF Admit
<1> DEFINE approval == ApplyApprovals(results, digest, approvals)
           chosen == ApplySelection(results, digest, selection)
<1>5. approval.code \notin CalibrationCodes /\ chosen.code \notin CalibrationCodes
  BY ReviewCodes
<1>6. AdmitWith(policy, approval, chosen)
  BY <1>4
<1> HIDE DEF approval, chosen
<1> QED BY <1>2, <1>3, <1>5, <1>6 DEF AdmitWith

LEMMA SomeAdmitted ==
  ASSUME RunInv, stage \in {"admitted", "calibrated", "registered", "pass"}
  PROVE  admitted # {} /\ (stage = "pass" => present # {} /\ present \subseteq Lights)
<1>1. PICK f \in Lights : TRUE
  BY MeasurementAssumption DEF Lights
<1>2. Cardinality({}) = 0
  BY FS_EmptySet
<1>3. PanelsBelowMinimum(Panel, Lights, admitted) = {}
  BY DEF RunInv
<1>4. Panel[f] \notin PanelsBelowMinimum(Panel, Lights, admitted)
  BY <1>3
<1>5. admitted # {}
  <2>1. ASSUME admitted = {} PROVE FALSE
    <3>1. {g \in admitted : Panel[g] = Panel[f]} = {}
      BY <2>1
    <3> QED BY <1>2, <1>4, <3>1 DEF PanelsBelowMinimum
  <2> QED BY <2>1
<1>6. ASSUME stage = "pass" PROVE present # {} /\ present \subseteq Lights
  <2>1. PresentOK
    BY <1>6 DEF RunInv
  <2>2. PICK g \in admitted : TRUE
    BY <1>5
  <2>3. Cardinality({h \in present : Panel[h] = Panel[g]}) >= 2
    BY <2>1, <2>2 DEF PresentOK
  <2>4. ASSUME present = {} PROVE FALSE
    <3>1. {h \in present : Panel[h] = Panel[g]} = {}
      BY <2>4
    <3> QED BY <1>2, <2>3, <3>1
  <2> QED BY <1>6, <2>4, PresentAreLights
<1> QED BY <1>5, <1>6

(* A pass is refused for its calibration only as its Lights are: the       *)
(* trusted masters cover it and are bound to it.                           *)
LEMMA PassAccounted ==
  ASSUME RunInv, ManifestInv, stage = "pass", NEW match,
         match = [frames \in {present, admitted} |-> Matched(frames)]
  PROVE  Accounted(PlanRefusal(present, match))
<1> DEFINE covered == RawUsed(match[present]) \subseteq RawUsed(match[admitted])
           error == RefusalOf(present, covered, RefusalFor(present))
<1>1. PlanRefusal(present, match) = error
  BY DEF PlanRefusal, RefusalFor
<1>2. present # {} /\ present \in SUBSET Lights
  BY SomeAdmitted
<1>3. covered
  <2>1. present \subseteq admitted
    BY DEF RunInv, PresentOK
  <2>2. RawUsed(Matched(present)) \subseteq RawUsed(Matched(admitted))
    BY <2>1, MastersCovered
  <2> QED BY <2>2
<1>4. ~SourceDrift(present)
  BY DEF ManifestInv, SourceDrift, Trusted, Captured
<1> HIDE DEF covered
<1>5. \/ error = RefusalFor(present)
      \/ error \in {"STELLAR_SCALE_HINT_REFERENCE_MISMATCH",
                    "RAW_FRAME_METADATA_OVERRIDE_SOURCE_AMBIGUOUS", "CFA_CHANNEL_GROUP_COLLISION",
                    "MOSAIC_REGION_WEIGHTS_UNSUPPORTED", "STELLAR_SCALE_HINT_FILTER_MISMATCH", ""}
  BY <1>3, <1>4 DEF RefusalOf
<1> HIDE DEF error
<1>6. error \in CalibrationCodes => error = RefusalFor(present)
  BY <1>5 DEF CalibrationCodes
<1> QED BY <1>1, <1>2, <1>6 DEF Accounted

LEMMA CalibrationInvNext ==
  ASSUME CalibrationInv, RunInv, ManifestInv, CodeInv, [PixelNext]_vars PROVE CalibrationInv'
<1>1. CASE PrepareRun
  <2>1. ASSUME NEW error, error = PreparationRefusal(Headers(Lights), library, recipe, workflow),
               RunFails(error)
        PROVE  CalibrationInv'
    BY <2>1, FailsAccounted DEF Accounted
  <2>2. CASE UNCHANGED <<library, workflow, recipe>> /\ UNCHANGED screenVars
    BY <2>2, CalibrationKept DEF CalibrationRests, screenVars
  <2> QED BY <1>1, <2>1, <2>2 DEF PrepareRun
<1>2. CASE ScreenStep
  <2>1. UNCHANGED pixelVars
    BY <1>2 DEF ScreenStep
  <2>2. CASE MeasureStep
    BY <2>1, <2>2, CalibrationKept DEF MeasureStep, CalibrationRests, screenVars, pixelVars
  <2>3. CASE CollectMeasurements \/ AnalyzeAndGate
    <3>1. stage' \in {"measured", "gated"}
      BY <2>3 DEF CollectMeasurements, AnalyzeAndGate
    <3> QED BY <2>1, <3>1 DEF CalibrationInv, pixelVars
  <2>4. CASE Admit
    BY <2>1, <2>4, AdmitAccounted
  <2> QED BY <1>2, <2>2, <2>3, <2>4 DEF ScreenStep
<1>3. CASE BuildRegistrationMasters
  <2>1. stage = "admitted"
    BY <1>3 DEF BuildRegistrationMasters
  <2>2. Accounted(RefusalFor(admitted))
    <3>1. admitted # {} /\ admitted \in SUBSET Lights
      BY <2>1, SomeAdmitted DEF RunInv
    <3> QED BY <3>1 DEF Accounted
  <2>3. CASE RunFails(RefusalFor(admitted))
    BY <2>2, <2>3, FailsAccounted
  <2>4. CASE RunFails("FLAT_SIGNAL_INVALID")
    BY <2>4, OtherErrors, FailsAccounted
  <2>5. CASE /\ RefusalFor(admitted) = "" /\ stage' = "calibrated"
             /\ UNCHANGED admitted /\ UNCHANGED pixelVars
    <3>1. UNCHANGED <<library, workflow, recipe, admitted>>
      BY <2>5 DEF pixelVars
    <3>2. RefusalFor(admitted)' = RefusalFor(admitted)
      BY <3>1 DEF RefusalFor, Matched, Supply
    <3> QED BY <2>5, <3>1, <3>2 DEF CalibrationInv
  <2> QED BY <1>3, <2>3, <2>4, <2>5 DEF BuildRegistrationMasters, RefusalFor, Matched
<1>4. CASE RegisterLights
  <2>1. ASSUME NEW error, error \in {"REGISTRATION_FAILED", "REGISTRATION_FULL_REFINEMENT_REJECTED"},
               RunFails(error)
        PROVE  CalibrationInv'
    BY <2>1, OtherErrors, FailsAccounted
  <2>2. CASE stage' = "registered" /\ UNCHANGED <<library, workflow, recipe>>
    BY <2>2 DEF CalibrationInv
  <2>3. PICK best, direct, bridged, stranded, refined :
          LET found == [direct |-> direct, bridged |-> bridged, stranded |-> stranded \ bridged,
                        refined |-> refined]
              refusal == RegistrationRefusal(admitted, Filter, best, found)
          IN \/ refusal # "" /\ RunFails(refusal)
             \/ stage' = "registered" /\ UNCHANGED <<library, workflow, recipe>>
    BY ONLY <1>4, ZenonT(60) DEF RegisterLights
  <2> DEFINE found == [direct |-> direct, bridged |-> bridged, stranded |-> stranded \ bridged,
                       refined |-> refined]
             refusal == RegistrationRefusal(admitted, Filter, best, found)
  <2>4. refusal \in {"", "REGISTRATION_FAILED", "REGISTRATION_FULL_REFINEMENT_REJECTED"}
    <3> HIDE DEF found
    <3> QED BY DEF RegistrationRefusal
  <2>5. \/ refusal # "" /\ RunFails(refusal)
        \/ stage' = "registered" /\ UNCHANGED <<library, workflow, recipe>>
    BY <2>3
  <2> HIDE DEF refusal
  <2> QED BY <2>1, <2>2, <2>4, <2>5
<1>5. CASE StartIntegration
  <2>1. stage' = "pass" /\ UNCHANGED <<library, workflow, recipe>>
    BY <1>5 DEF StartIntegration
  <2> QED BY <2>1 DEF CalibrationInv
<1>6. CASE StartNextPass
  <2>1. stage = "pass"
    BY <1>6 DEF StartNextPass
  <2>2. ASSUME NEW match, match = [frames \in {present, admitted} |-> Matched(frames)],
               RunFails(PlanRefusal(present, match))
        PROVE  CalibrationInv'
    BY <2>1, <2>2, PassAccounted, FailsAccounted
  <2>3. CASE UNCHANGED <<screenVars, pixelVars>>
    BY <2>3, CalibrationKept DEF CalibrationRests, screenVars, pixelVars
  <2> QED BY <1>6, <2>2, <2>3 DEF StartNextPass
<1>7. CASE IntegrationStep
  BY <1>7, CalibrationKept DEF IntegrationStep, CalibrationRests, screenVars, pixelVars
<1>8. CASE PassFails
  <2>1. RunFails(code)
    BY <1>8 DEF PassFails
  <2> QED BY <2>1, OtherErrors, FailsAccounted DEF CodeInv
<1>9. CASE AfterPass
  <2>1. CASE Integrated
    <3>1. stage' = "integrated" /\ UNCHANGED <<library, workflow, recipe>>
      BY <2>1 DEF Integrated, pixelVars
    <3> QED BY <3>1 DEF CalibrationInv
  <2>2. ASSUME NEW removed, IntegrateAgain(removed) PROVE CalibrationInv'
    BY <2>2, CalibrationKept DEF IntegrateAgain, CalibrationRests, screenVars
  <2> QED BY <1>9, <2>1, <2>2 DEF AfterPass
<1>10. CASE Done \/ UNCHANGED vars
  BY <1>10, CalibrationKept DEF Done, vars, CalibrationRests, screenVars, pixelVars
<1> QED BY <1>1, <1>2, <1>3, <1>4, <1>5, <1>6, <1>7, <1>8, <1>9, <1>10 DEF PixelNext

LEMMA CalibrationsAreAccounted == PixelSpec => []CalibrationInv
<1>1. PixelInit => CalibrationInv
  BY DEF PixelInit, ScreenInit, CalibrationInv
<1>2. CalibrationInv /\ RunInv /\ ManifestInv /\ CodeInv /\ [PixelNext]_vars => CalibrationInv'
  BY CalibrationInvNext
<1> QED BY <1>1, <1>2, RunsOfPasses, ManifestsAreBound, CodesAreErrors, PTL DEF PixelSpec

(* What the assumptions make of the library, the recipe and the Lights.    *)
LEMMA CalibrationTyped ==
  ASSUME CalibrationInv, NEW frames \in SUBSET Lights
  PROVE  /\ library \in Files /\ workflow \in {MonoStandard, Strict} /\ recipe \in Demands
         /\ DOMAIN Headers(frames) = frames /\ frames \subseteq Nat
         /\ \A f \in frames : Headers(frames)[f] = Header[f] /\ Header[f] \in TraitsOf({"LIGHT"})
BY PixelAssumption, LightsAreNumbers DEF CalibrationInv, Files, Demands, Headers

LEMMA ResidualsWarned ==
  ASSUME CalibrationInv, RunInv PROVE ResidualsAreWarned
<1> SUFFICES ASSUME stage = "calibrated"
             PROVE  /\ \A f \in admitted :
                         LET p == Matched(admitted).lights[f]
                             x == Subtracted(Header[f], p, workflow)
                         IN ~SilentResidual(Header[f], p, x, Supply) /\ CalibratedPreview(Header[f], p, workflow) = x
                    /\ \A g \in UsedGroups(Matched(admitted)) \cap DOMAIN Matched(admitted).flats :
                         LET p == Matched(admitted).flats[g]
                             x == Subtracted(Traits(g), p, workflow)
                         IN ~SilentResidual(Traits(g), p, [x EXCEPT !.dark = 0], Supply)
  BY DEF ResidualsAreWarned
<1> DEFINE H == Headers(admitted)
           L == Supply
<1>1. CalibrationRefusal(H, L, MatchCalibration(H, L, workflow), workflow) = ""
  BY DEF CalibrationInv, RefusalFor, Matched
<1>2. /\ DOMAIN H = admitted
      /\ \A f \in admitted : H[f] = Header[f] /\ Header[f] \in TraitsOf({"LIGHT"})
  <2>1. admitted \in SUBSET Lights
    BY DEF RunInv
  <2> QED BY <2>1, CalibrationTyped
<1>3. L \in Files
  <2>1. library \in Files /\ recipe \in Demands
    BY CalibrationTyped
  <2> QED BY <2>1, RequestedIs DEF Supply
<1>4. Matched(admitted) = MatchCalibration(H, L, workflow)
  BY DEF Matched
<1> HIDE DEF H, L
<1>5. ASSUME NEW f \in admitted
      PROVE  LET p == MatchCalibration(H, L, workflow).lights[f]
                 x == Subtracted(Header[f], p, workflow)
             IN ~SilentResidual(Header[f], p, x, L) /\ CalibratedPreview(Header[f], p, workflow) = x
  <2>1. f \in DOMAIN H /\ H[f] \in TraitsOf({"LIGHT"}) /\ H[f] = Header[f]
    BY <1>2
  <2>2. LET p == MatchCalibration(H, L, workflow).lights[f]
            x == Subtracted(H[f], p, workflow)
        IN ~SilentResidual(H[f], p, x, L) /\ CalibratedPreview(H[f], p, workflow) = x
    BY ONLY <1>1, <1>3, <2>1, LightWarned
  <2> QED BY <2>1, <2>2
<1>6. ASSUME NEW g \in UsedGroups(MatchCalibration(H, L, workflow)) \cap DOMAIN MatchCalibration(H, L, workflow).flats
      PROVE  LET p == MatchCalibration(H, L, workflow).flats[g]
                 x == Subtracted(Traits(g), p, workflow)
             IN ~SilentResidual(Traits(g), p, [x EXCEPT !.dark = 0], L)
  BY ONLY <1>1, <1>3, <1>6, FlatWarned
<1> QED BY <1>4, <1>5, <1>6 DEF L

LEMMA ReadyRuns ==
  ASSUME CalibrationInv PROVE ReadyIsRunnable
<1> SUFFICES ASSUME stage = "failed", failure \in CalibrationCodes \ Unforeseen(library, recipe, workflow),
                    InspectionErrors(Headers(Lights), library, recipe, workflow) = {}
             PROVE  FALSE
  BY DEF ReadyIsRunnable
<1> DEFINE H == Headers(Lights)
<1>1. /\ library \in Files /\ workflow \in {MonoStandard, Strict} /\ recipe \in Demands
      /\ DOMAIN H = Lights /\ Lights \subseteq Nat
      /\ \A f \in Lights : H[f] = Header[f] /\ Header[f] \in TraitsOf({"LIGHT"})
  BY CalibrationTyped
<1>2. DOMAIN H # {} /\ DOMAIN H \subseteq Nat
  BY <1>1, MeasurementAssumption DEF Lights
<1>3. \A f \in DOMAIN H : IsLight(H[f])
  BY <1>1 DEF IsLight
<1>4. InspectionErrors(H, library, recipe, workflow) = {}
  OBVIOUS
<1>5. Accounted(failure)
  BY DEF CalibrationInv
<1>6. CASE failure = PreparationRefusal(H, library, recipe, workflow)
  <2> HIDE DEF H
  <2>1. PreparationRefusal(H, library, recipe, workflow)
          \notin CalibrationCodes \ Unforeseen(library, recipe, workflow)
    BY ONLY <1>1, <1>2, <1>3, <1>4, PreparationForeseen
  <2> QED BY <1>6, <2>1
<1>7. ASSUME NEW frames \in SUBSET Lights, frames # {}, failure = RefusalFor(frames) PROVE FALSE
  <2> DEFINE part == Headers(frames)
  <2>1. /\ DOMAIN part = frames /\ DOMAIN part \subseteq DOMAIN H /\ DOMAIN part # {}
        /\ \A f \in DOMAIN part : part[f] = H[f]
    BY <1>1, <1>7 DEF Headers
  <2>2. failure = CalibrationRefusal(part, Requested(library, recipe),
                                     MatchCalibration(part, Requested(library, recipe), workflow), workflow)
    BY <1>7 DEF RefusalFor, Matched, Supply
  <2> HIDE DEF H, part
  <2>3. CalibrationRefusal(part, Requested(library, recipe),
                           MatchCalibration(part, Requested(library, recipe), workflow), workflow)
          \notin CalibrationCodes \ Unforeseen(library, recipe, workflow)
    BY ONLY <1>1, <1>2, <1>3, <1>4, <2>1, RunForeseen
  <2> QED BY <2>2, <2>3
<1> QED BY <1>5, <1>6, <1>7 DEF Accounted

(* Whatever the library, the workflow, the recipe and the Lights: the bias *)
(* and the dark current of a Light or a used raw Flat are subtracted once  *)
(* or a warning of its pairing says otherwise, the preview of the          *)
(* registration shows the same pixels, and a run whose inspection found    *)
(* nothing to block is refused for its calibration only with the codes     *)
(* listed as unforeseen (pairing.py, masters.py, preflight.py,             *)
(* _build_registration_masters).                                           *)
THEOREM CalibrationIsSound == PixelSpec => []CalibrationSound
<1>1. CalibrationInv /\ RunInv => CalibrationSound
  BY ResidualsWarned, ReadyRuns DEF CalibrationSound
<1> QED BY <1>1, CalibrationsAreAccounted, RunsOfPasses, PTL
=============================================================================
