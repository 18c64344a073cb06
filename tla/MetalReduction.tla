---------------------------- MODULE MetalReduction ----------------------------
(***************************************************************************)
(* One output group reduced on Metal (integrate_registered_group,          *)
(* stacking/metal_integration.py).  The image is cut into tiles of rows.   *)
(* A pool of threads reads and rejects the samples of a tile, another      *)
(* submits tiles to the GPU, and the group's own thread moves each tile    *)
(* from the first to the second and writes what comes back.  Two queues    *)
(* bound the memory: prepared and pending.                                 *)
(*                                                                         *)
(* A machine gives the memory plan its numbers: configured workers, GPU    *)
(* buffers, target rows of a tile, height of the image and the budget, in  *)
(* bytes for one column of pixels.                                         *)
(***************************************************************************)
EXTENDS Integers, Sequences, FiniteSets, SequencesExt

VARIABLES
  flow,       \* idle, tiles, joining, or how the group ended: published,
              \* rejected (the CPU reduces it), overwritten, raised
  layout,     \* tiles, rows, workers, buffers, frames, budget
  prepared,   \* the tiles whose preparation was submitted, in order
  sampling,   \* tile -> none, running, done, rejected, raised
  pending,    \* the tiles submitted to the GPU, in order
  reducing,   \* tile -> none, running, exact, drift, miscount, error
  written,    \* the tiles whose rows were written, in order
  verdict     \* how the group ends once both pools are joined

reductionVars == <<flow, layout, prepared, sampling, pending, reducing, written, verdict>>

PreparationBytes == 24   \* PREPARATION_BYTES_PER_SAMPLE
InflightBytes    == 14   \* METAL_INFLIGHT_BYTES_PER_SAMPLE
FixedBytes       == 96   \* METAL_FIXED_BYTES_PER_PIXEL
Endings == {"published", "rejected", "overwritten", "raised"}

NoLayout == [tiles |-> 0, rows |-> 1, workers |-> 1, buffers |-> 1, frames |-> 0, budget |-> 0]

-----------------------------------------------------------------------------
(* _metal_memory_plan: fewer workers rather than lower tiles. *)
BytesPerRow(frames, workers, buffers) ==
  frames * (PreparationBytes * workers + InflightBytes * buffers) + FixedBytes

MetalWorkers(machine, frames) ==
  Max({1} \cup {w \in 1..machine.workers :
                  BytesPerRow(frames, w, machine.buffers) * Min({machine.height, machine.rows})
                    <= machine.budget})

PlanRefused(machine, frames) ==
  BytesPerRow(frames, MetalWorkers(machine, frames), machine.buffers) > machine.budget

MetalLayout(machine, frames) ==
  LET workers == MetalWorkers(machine, frames)
      bytes == BytesPerRow(frames, workers, machine.buffers)
      rows == Max({1, Min({machine.height, machine.rows, machine.budget \div bytes})})
      tiles == (machine.height + rows - 1) \div rows
  IN [tiles |-> tiles, rows |-> rows, workers |-> Min({workers, tiles}),
      buffers |-> machine.buffers, frames |-> frames, budget |-> machine.budget]

-----------------------------------------------------------------------------
Tiles == 1..layout.tiles

(* parity_first_rows: the tiles that the CPU reduces again. *)
Rechecked(t) == t \in {1, layout.tiles \div 2 + 1, layout.tiles}

(* run_masked_tile raises when the counts are not the portable ones, and   *)
(* when the values of a compared tile are beyond the gate.                 *)
TileRefused(t) == reducing[t] \in {"miscount", "error"} \/ (reducing[t] = "drift" /\ Rechecked(t))

Samplers == {t \in Tiles : sampling[t] = "running"}
Reducers == {t \in Tiles : reducing[t] = "running"}

ReductionInit ==
  /\ flow = "idle" /\ layout = NoLayout /\ prepared = <<>> /\ sampling = <<>>
  /\ pending = <<>> /\ reducing = <<>> /\ written = <<>> /\ verdict = ""

(* Weights, floor and transients may fail before a tile is read, or the    *)
(* plan does not fit.                                                      *)
StartReduction(machine, frames) ==
  /\ flow = "idle"
  /\ \/ /\ ~PlanRefused(machine, frames) /\ flow' = "tiles"
        /\ layout' = MetalLayout(machine, frames)
        /\ prepared' = [t \in 1..layout'.workers |-> t]
        /\ sampling' = [t \in 1..layout'.tiles |-> IF t <= layout'.workers THEN "running" ELSE "none"]
        /\ reducing' = [t \in 1..layout'.tiles |-> "none"]
     \/ /\ PlanRefused(machine, frames) /\ flow' = "rejected"
        /\ UNCHANGED <<layout, prepared, sampling, reducing>>
     \/ /\ flow' \in {"rejected", "raised"}
        /\ UNCHANGED <<layout, prepared, sampling, reducing>>
  /\ UNCHANGED <<pending, written, verdict>>

(* prepare and run_masked_tile, on the threads of the pools. *)
EndPreparation ==
  \E t \in Samplers : \E outcome \in {"done", "rejected", "raised"} :
    /\ sampling' = [sampling EXCEPT ![t] = outcome]
    /\ UNCHANGED <<flow, layout, prepared, pending, reducing, written, verdict>>

EndTile ==
  \E t \in Reducers : \E outcome \in {"exact", "drift", "miscount", "error"} :
    /\ reducing' = [reducing EXCEPT ![t] = outcome]
    /\ UNCHANGED <<flow, layout, prepared, sampling, pending, written, verdict>>

Leave(ending) ==
  /\ flow' = "joining" /\ verdict' = ending

(* The oldest preparation goes to the GPU and the next one is submitted.   *)
(* First the mutant: the group's thread writes only when the GPU has more  *)
(* tiles than buffers.                                                     *)
MayTakeOneMore == prepared # <<>> /\ Len(pending) <= layout.buffers

MayTake == prepared # <<>> /\ Len(pending) < layout.buffers

TakePreparation ==
  /\ flow = "tiles" /\ MayTake
  /\ \E t \in {Head(prepared)} : \E next \in {Last(prepared) + 1} :
       \/ /\ sampling[t] = "done"
          /\ prepared' = IF next \in Tiles THEN Append(Tail(prepared), next) ELSE Tail(prepared)
          /\ sampling' = IF next \in Tiles THEN [sampling EXCEPT ![next] = "running"] ELSE sampling
          /\ pending' = Append(pending, t) /\ reducing' = [reducing EXCEPT ![t] = "running"]
          /\ UNCHANGED <<flow, verdict>>
       \/ /\ sampling[t] \in {"rejected", "raised"} /\ Leave(sampling[t])
          /\ UNCHANGED <<prepared, sampling, pending, reducing>>
  /\ UNCHANGED <<layout, written>>

(* FitsFloatWriter: the digest of a file is known when its rows came once  *)
(* each, in order.                                                         *)
Digested == written = [t \in Tiles |-> t]

(* consume: the rows of the oldest tile, or the error of its future, or    *)
(* the disk is full.                                                       *)
ConsumeTile ==
  /\ flow = "tiles" /\ ~MayTake /\ pending # <<>>
  /\ \E t \in {Head(pending)} :
       /\ reducing[t] # "running"
       /\ \/ /\ ~TileRefused(t) /\ written' = Append(written, t) /\ pending' = Tail(pending)
             /\ UNCHANGED <<flow, verdict>>
          \/ Leave("rejected") /\ UNCHANGED <<pending, written>>
  /\ UNCHANGED <<layout, prepared, sampling, reducing>>

EndTiles ==
  /\ flow = "tiles" /\ prepared = <<>> /\ pending = <<>>
  /\ Leave("")
  /\ UNCHANGED <<layout, prepared, sampling, pending, reducing, written>>

(* Both pools are joined: what was submitted is done first.  Then no       *)
(* finite pixel is an error, and the master and its maps are published, of *)
(* which the first or a later one may fail.                                *)
JoinPools ==
  /\ flow = "joining" /\ Samplers = {} /\ Reducers = {}
  /\ flow' \in IF verdict # "" THEN {verdict} ELSE Endings
  /\ UNCHANGED <<layout, prepared, sampling, pending, reducing, written, verdict>>

TileStep ==
  EndPreparation \/ EndTile \/ TakePreparation \/ ConsumeTile \/ EndTiles \/ JoinPools

ResetReduction ==
  /\ flow \in Endings /\ flow' = "idle" /\ layout' = NoLayout /\ prepared' = <<>>
  /\ sampling' = <<>> /\ pending' = <<>> /\ reducing' = <<>> /\ written' = <<>> /\ verdict' = ""

-----------------------------------------------------------------------------
(* A master reduced on Metal has every row, written once and in order (the *)
(* writer's digest is of rows in order), no tile whose counts are not the  *)
(* portable ones, and no compared tile beyond the gate; its threads are    *)
(* joined before its files are published or removed; and what the two      *)
(* queues hold fits the budget the plan was made for                       *)
(* ("keeping the modeled peak under budget", _metal_memory_plan).          *)
ReductionWhole ==
  /\ flow = "published" =>
       /\ Digested
       /\ \A t \in Tiles : reducing[t] \in {"exact", "drift"} /\ (Rechecked(t) => reducing[t] = "exact")
  /\ flow \in Endings => Samplers = {} /\ Reducers = {}
  /\ flow = "tiles" =>
       layout.rows * BytesPerRow(layout.frames, Len(prepared), Len(pending)) <= layout.budget
=============================================================================
