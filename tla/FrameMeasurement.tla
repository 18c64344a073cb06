--------------------------- MODULE FrameMeasurement ---------------------------
(***************************************************************************)
(* measure_paths of light-frame-qc: every Light is hashed, decoded and      *)
(* measured by a worker of a process or thread pool, which also writes its *)
(* review thumbnail and, for a blink session, its linear preview.  Both    *)
(* are create-only.  An advisory cache on disk answers for bytes measured  *)
(* before.  A process pool that breaks is replaced by threads, and the     *)
(* whole batch is computed again.                                          *)
(*                                                                         *)
(* The bytes of a file are a version number; the user may replace a file   *)
(* at any time, or put the old bytes back, and the stat of the new file is *)
(* never that of an old one.                                               *)
(***************************************************************************)
EXTENDS Naturals, FiniteSets

CONSTANTS
  Frames,           \* the Lights of the batch: 1..n, in path order
  Workers,          \* worker processes or threads
  ProcessMinimum,   \* PROCESS_POOL_MINIMUM_ITEMS
  MaxEdits,         \* bound: replacements of input files
  Undecodable       \* <<f, v>>: version v of file f is not an image

ASSUME MeasurementAssumption ==
  /\ Frames # {} /\ IsFiniteSet(Frames) /\ Frames = 1..Cardinality(Frames)
  /\ {Workers, ProcessMinimum} \subseteq Nat \ {0}
  /\ MaxEdits \in Nat /\ Undecodable \subseteq Frames \X Nat

VARIABLES
  batch,     \* "run", "preflight" or "blink": who called measure_paths
  executor,  \* FrameRunner.parallelism; "fallback" for threads after a broken pool
  version,   \* version[f]: the bytes of file f
  stamp,     \* stamp[f]: its stat, the number of the edit that wrote it
  task,      \* task[f]: where f's worker stands and what it has seen
  thumbnail, \* the frames whose thumbnail destination exists
  linear,    \* the frames whose linear preview exists
  cache,     \* the measurement cache: <<frame, digest in the key, bytes measured>>
  measured,  \* measured[f]: the FrameMeasurement
  edits

fileVars == <<version, stamp, edits>>
measureVars == <<batch, executor, fileVars, task, thumbnail, linear, cache, measured>>

Waiting   == [at |-> "wait", key |-> 0, identity |-> 0, stat |-> 0, decoded |-> 0]
Unstarted == [status |-> "NONE", code |-> "", identity |-> 0, decoded |-> 0]
Versions  == 1..(MaxEdits + 1)

(* Only a run and a blink session pass cache_directory.  A blink session   *)
(* passes linear_directory and makes no thumbnails.                        *)
HasCache     == batch \in {"run", "blink"}
HasLinear    == batch = "blink"
HasThumbnail == batch # "blink"

(* choose_parallelism; requested is LIGHTFRAMEQC_PARALLELISM. *)
ChooseParallelism(workers, items, requested) ==
  IF workers <= 1 \/ items <= 1 THEN "sequential"
  ELSE IF requested \in {"threads", "processes"} THEN requested
  ELSE IF items >= ProcessMinimum THEN "processes" ELSE "threads"

(* What an earlier batch may have left.  StoreCache shows how an entry     *)
(* comes to describe other bytes than its key names: here, file 1's.       *)
EarlierEntries == {<<f, 1, 1>> : f \in Frames} \cup {<<1, 1, 2>>}

MeasureInit(callers) ==
  /\ batch \in callers
  /\ \E requested \in {"", "threads", "processes"} :
       executor = ChooseParallelism(Workers, Cardinality(Frames), requested)
  /\ version = [f \in Frames |-> 1] /\ stamp = [f \in Frames |-> 0]
  /\ task = [f \in Frames |-> Waiting]
  /\ thumbnail = {} /\ linear = {}   \* a fresh run token and session directory
  /\ cache \in SUBSET EarlierEntries
  /\ measured = [f \in Frames |-> Unstarted]
  /\ edits = 0

-----------------------------------------------------------------------------
(* One worker: _measure_task. *)

Busy       == {f \in Frames : task[f].at \notin {"wait", "done"}}
Concurrent == IF executor = "sequential" THEN 1 ELSE Workers

At(f, place)   == task[f].at = place
Goto(f, place) == task' = [task EXCEPT ![f].at = place]

Answer(f, result) ==
  /\ measured' = [measured EXCEPT ![f] = result] /\ Goto(f, "done")

(* _error_measurement: the identity is computed again, if it can be. *)
ErrorMeasurement(f, code) ==
  [Unstarted EXCEPT !.status = "ERROR", !.code = code, !.identity = version[f]]

(* compute_file_identity: the digest, and the stat it was stable under. *)
FileIdentity(f) == version[f]

(* verify_file_identity_stat *)
IdentityHolds(f) == stamp[f] = task[f].stat

(* read_frame_preview *)
Decodable(f) == <<f, version[f]>> \notin Undecodable

(* The pool hands out tasks in order. *)
StartTask(f) ==
  /\ At(f, "wait") /\ \A g \in Frames : g < f => ~At(g, "wait")
  /\ Cardinality(Busy) < Concurrent
  /\ Goto(f, IF HasCache THEN "key" ELSE "measure")
  /\ UNCHANGED <<batch, executor, fileVars, thumbnail, linear, cache, measured>>

(* The cache key binds the digest; an entry that cannot be read, or a key  *)
(* that cannot be computed, is a miss.                                     *)
LoadCache(f) ==
  /\ At(f, "key")
  /\ \/ \E entry \in cache :
          /\ entry[1] = f /\ entry[2] = FileIdentity(f)
          /\ task' = [task EXCEPT ![f] = [at |-> "replay", key |-> FileIdentity(f),
                                          identity |-> FileIdentity(f), stat |-> stamp[f],
                                          decoded |-> entry[3]]]
     \/ task' = [task EXCEPT ![f].at = "measure", ![f].key = FileIdentity(f)]
  /\ UNCHANGED <<batch, executor, fileVars, thumbnail, linear, cache, measured>>

(* The previews are create-only: THUMBNAIL_EXISTS, LINEAR_PREVIEW_EXISTS. *)
SaveThumbnail(f) == f \notin thumbnail /\ thumbnail' = thumbnail \cup {f}
SaveLinear(f)    == f \notin linear /\ linear' = linear \cup {f}

(* _replay_preview_side_effects: a hit still needs the preview images.  On *)
(* any failure the destinations are freed and the frame is measured.       *)
ReplayPreviews(f) ==
  /\ At(f, "replay")
  /\ \/ /\ Decodable(f)
        /\ IF HasThumbnail THEN SaveThumbnail(f) ELSE UNCHANGED thumbnail
        /\ IF HasLinear THEN SaveLinear(f) ELSE UNCHANGED linear
        /\ Goto(f, "replayed")
     \/ /\ ~Decodable(f) \/ (HasThumbnail /\ f \in thumbnail) \/ (HasLinear /\ f \in linear)
        /\ thumbnail' = thumbnail \ {f} /\ linear' = linear \ {f}
        /\ Goto(f, "measure")
  /\ UNCHANGED <<batch, executor, fileVars, cache, measured>>

VerifyReplay(f) ==
  /\ At(f, "replayed")
  /\ IF IdentityHolds(f)
     THEN /\ Answer(f, [status |-> "MEASURED", code |-> "",
                        identity |-> task[f].identity, decoded |-> task[f].decoded])
          /\ UNCHANGED <<thumbnail, linear>>
     ELSE /\ thumbnail' = thumbnail \ {f} /\ linear' = linear \ {f}
          /\ Goto(f, "measure") /\ UNCHANGED measured
  /\ UNCHANGED <<batch, executor, fileVars, cache>>

(* measure_frame: hash, decode and write the thumbnail, write the linear   *)
(* preview, verify the identity.                                           *)
Identify(f) ==
  /\ At(f, "measure")
  /\ task' = [task EXCEPT ![f].identity = FileIdentity(f), ![f].stat = stamp[f],
                          ![f].at = "decode"]
  /\ UNCHANGED <<batch, executor, fileVars, thumbnail, linear, cache, measured>>

FailMeasurement(f, code) ==
  Answer(f, ErrorMeasurement(f, IF IdentityHolds(f) THEN code
                                ELSE "FILE_CHANGED_DURING_MEASUREMENT"))

Decode(f) ==
  /\ At(f, "decode")
  /\ \/ /\ ~Decodable(f) /\ FailMeasurement(f, "READ")
        /\ UNCHANGED thumbnail
     \/ /\ Decodable(f) /\ HasThumbnail /\ f \in thumbnail
        /\ FailMeasurement(f, "THUMBNAIL_EXISTS") /\ UNCHANGED thumbnail
     \/ /\ Decodable(f)
        /\ IF HasThumbnail THEN SaveThumbnail(f) ELSE UNCHANGED thumbnail
        /\ task' = [task EXCEPT ![f].decoded = version[f],
                                ![f].at = IF HasLinear THEN "linear" ELSE "verify"]
        /\ UNCHANGED measured
  /\ UNCHANGED <<batch, executor, fileVars, linear, cache>>

WriteLinear(f) ==
  /\ At(f, "linear")
  /\ \/ SaveLinear(f) /\ Goto(f, "verify") /\ UNCHANGED measured
     \/ /\ f \in linear /\ FailMeasurement(f, "LINEAR_PREVIEW_EXISTS")
        /\ UNCHANGED linear
  /\ UNCHANGED <<batch, executor, fileVars, thumbnail, cache>>

(* Mutant: the identity is not verified after the pixels were read. *)
VerifyMeasurementNever(f) ==
  /\ At(f, "verify")
  /\ Answer(f, [status |-> "MEASURED", code |-> "",
                identity |-> task[f].identity, decoded |-> task[f].decoded])
  /\ UNCHANGED <<batch, executor, fileVars, thumbnail, linear, cache>>

VerifyMeasurement(f) ==
  /\ At(f, "verify")
  /\ IF ~IdentityHolds(f)
     THEN FailMeasurement(f, "")
     ELSE /\ measured' = [measured EXCEPT ![f] =
                            [status |-> "MEASURED", code |-> "",
                             identity |-> task[f].identity, decoded |-> task[f].decoded]]
          /\ Goto(f, IF HasCache THEN "store" ELSE "done")
  /\ UNCHANGED <<batch, executor, fileVars, thumbnail, linear, cache>>

(* FrameMeasurementCache.store: a failure to write is silent.  The key is  *)
(* that of the bytes LoadCache saw, whatever bytes were measured since.    *)
StoreCache(f) ==
  /\ At(f, "store")
  /\ Goto(f, "done")
  /\ \/ cache' = cache \cup {<<f, task[f].key, task[f].decoded>>}
     \/ UNCHANGED cache
  /\ UNCHANGED <<batch, executor, fileVars, thumbnail, linear, measured>>

-----------------------------------------------------------------------------
(* FrameRunner._fall_back_to_threads: the pool could not start, a worker   *)
(* died or one raised.  The pool is shut down, and every task of the batch *)
(* runs again, the finished ones too.  What the workers wrote stays.       *)
FallBackToThreads ==
  /\ executor = "processes" /\ \E f \in Frames : ~At(f, "done")
  /\ executor' = "fallback"
  /\ task' = [f \in Frames |-> Waiting]
  /\ measured' = [f \in Frames |-> Unstarted]
  /\ UNCHANGED <<batch, fileVars, thumbnail, linear, cache>>

(* The user replaces a file that is being screened. *)
ReplaceFile(f) ==
  /\ edits < MaxEdits /\ edits' = edits + 1
  /\ \E v \in Versions \ {version[f]} : version' = [version EXCEPT ![f] = v]
  /\ stamp' = [stamp EXCEPT ![f] = edits']
  /\ UNCHANGED <<batch, executor, task, thumbnail, linear, cache, measured>>

BatchDone == \A f \in Frames : At(f, "done")

Worker(f) ==
  \/ StartTask(f) \/ LoadCache(f) \/ ReplayPreviews(f) \/ VerifyReplay(f)
  \/ Identify(f) \/ Decode(f) \/ WriteLinear(f) \/ VerifyMeasurement(f) \/ StoreCache(f)

MeasureNext ==
  \/ \E f \in Frames : Worker(f) \/ ReplaceFile(f)
  \/ FallBackToThreads

-----------------------------------------------------------------------------
MeasureTypeOK ==
  /\ batch \in {"run", "preflight", "blink"}
  /\ executor \in {"sequential", "threads", "processes", "fallback"}
  /\ version \in [Frames -> Versions]
  /\ thumbnail \subseteq Frames /\ linear \subseteq Frames
  /\ cache \subseteq Frames \X Versions \X Versions
  /\ edits \in 0..MaxEdits

(* A measurement describes the file it names: the pixels measured are the  *)
(* bytes of the recorded digest, whoever replaced the file in between      *)
(* (measure_frame, _replay_preview_side_effects).  The cache is the one    *)
(* exception: an entry stored while its file was being replaced describes  *)
(* other bytes than its key, and answers for them when they come back.     *)
MeasurementBoundToBytes ==
  \A f \in Frames : measured[f].status = "MEASURED" =>
    \/ measured[f].decoded = measured[f].identity
    \/ HasCache /\ <<f, measured[f].identity, measured[f].decoded>> \in cache

(* "Every frame runs the same function either way, so the choice of        *)
(* executor never changes a value" (parallel.py): a decodable file nobody  *)
(* touched is measured whichever executor ran and whatever the cache held. *)
(* The one exception is a frame computed again after the process pool      *)
(* broke: its own create-only preview of the first attempt refuses it.     *)
ExecutorChangesNoValue ==
  \A f \in Frames : At(f, "done") /\ stamp[f] = 0 /\ Decodable(f) =>
    \/ measured[f].status = "MEASURED"
    \/ executor = "fallback"
         /\ measured[f].code \in {"THUMBNAIL_EXISTS", "LINEAR_PREVIEW_EXISTS"}

(* What a measurement says is true of its file, whichever way it came by.  *)
MeasurementSound == MeasurementBoundToBytes /\ ExecutorChangesNoValue
=============================================================================
