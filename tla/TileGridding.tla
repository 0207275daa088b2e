---------------------------- MODULE TileGridding ----------------------------
(***************************************************************************)
(* A CPU proxy that grids and degrids with W-tiles: the W-tile cache, the  *)
(* Plan that drives it, the loop over jobs of CPU::do_gridding and         *)
(* CPU::do_degridding, and the tile buffer of OptimizedKernels.            *)
(*                                                                         *)
(* The cache runs ahead of the data.  While a plan is made, the cache      *)
(* decides for every subgrid which slot it will use, and logs the flushes  *)
(* and initializations this needs; only when the plan is executed, job by  *)
(* job, are the logged events applied to the tile buffer.  The two must    *)
(* stay in step over many plans, since tiles survive from plan to plan.    *)
(*                                                                         *)
(* Data are abstracted to what they are for: a tile or the grid counts the *)
(* subgrids of each coordinate that were added to it, the grid separately  *)
(* for each coordinate it was projected from, and an initialized tile      *)
(* carries the grid and coordinate it was cut from.                        *)
(***************************************************************************)
EXTENDS WTiles, Functions

CONSTANTS
  NrBaselines,      (* visibilities.shape(0) *)
  MaxGrids,         (* bound on the grids set during the life of the proxy *)
  FreshCacheForGrid,(* the client sets a grid only while no tile is cached *)
  FirstGroupInRange (* a baseline with subgrids has one of channel group 0 *)

ASSUME TileGriddingAssumption ==
  /\ NrBaselines \in Nat \ {0}
  /\ MaxGrids \in Nat \ {0}
  /\ FreshCacheForGrid \in BOOLEAN
  /\ FirstGroupInRange \in BOOLEAN

VARIABLES
  phase,          (* what the proxy is doing: see Phases                        *)
  mode,           (* the proxy's use since init_cache: see Modes                *)
  metadata,       (* Plan::metadata                                             *)
  subgridOffset,  (* Plan::subgrid_offset, one entry per baseline + sentinel    *)
  events,         (* wtile_flush_set or wtile_initialize_set of do_(de)gridding *)
  jobsize,        (* jobsize *)
  bl,             (* bl      *)
  job,            (* the call of run_adder_wtiles or run_splitter_wtiles        *)
  tileSums,       (* wtiles_buffer_ when gridding: id -> coordinate -> count    *)
  tileFill,       (* wtiles_buffer_ when degridding: id -> Fill                 *)
  gridSums,       (* the grid: projected from -> coordinate -> count            *)
  gridId,         (* which grid was set last                                    *)
  planned,        (* history: subgrids planned for this grid, per coordinate    *)
  reads           (* history: the tiles read by the last splitter iteration     *)

planVars == <<metadata, subgridOffset, events>>
jobVars  == <<jobsize, bl, job>>
dataVars == <<tileSums, tileFill, gridSums, gridId>>
vars     == <<wtilesVars, phase, mode, planVars, jobVars, dataVars, planned, reads>>

Phases == {"new", "idle", "plan", "run", "final"}
Modes  == {"gridding", "degridding"}

(* What an initialized tile holds; Blank after allocation. *)
Fill  == [grid : 0 .. MaxGrids, coordinates : SUBSET Coordinates]
Blank == [grid |-> 0, coordinates |-> {}]
FillFor(c) == [grid |-> gridId, coordinates |-> {c}]

NoSums == [c \in Coordinates |-> 0]
NoJob  == [first |-> 0, offset |-> 0, nr |-> 0, index |-> 0]

Init ==
  /\ EmptyCache
  /\ phase = "new"
  /\ mode = "gridding"
  /\ metadata = <<>> /\ subgridOffset = <<>> /\ events = <<>>
  /\ jobsize = 1 /\ bl = 0 /\ job = NoJob
  /\ tileSums = [t \in TileIds |-> NoSums]
  /\ tileFill = [t \in TileIds |-> Blank]
  /\ gridSums = [c \in Coordinates |-> NoSums]
  /\ gridId = 0
  /\ planned = NoSums
  /\ reads = {}

-----------------------------------------------------------------------------
(* The client: BufferSetImpl, or a program that uses the proxy directly. *)

(* BufferSetImpl::init: a new, zero grid and a new cache, for one use. *)
InitCache(m) ==
  /\ phase \in {"new", "idle", "final"}
  /\ gridId < MaxGrids
  /\ NewCache
  /\ phase' = "idle"
  /\ mode' = m
  /\ tileSums' = [t \in TileIds |-> NoSums]
  /\ tileFill' = [t \in TileIds |-> Blank]
  /\ gridSums' = [c \in Coordinates |-> NoSums]
  /\ gridId' = gridId + 1
  /\ planned' = NoSums
  /\ reads' = {}
  /\ UNCHANGED <<planVars, jobVars>>

(* BufferSetImpl::set_image: a new grid; the cache is not touched. *)
SetImage ==
  /\ phase = "idle"
  /\ mode = "degridding"
  /\ FreshCacheForGrid => ActiveWtiles = {}
  /\ gridId < MaxGrids
  /\ gridId' = gridId + 1
  /\ UNCHANGED <<wtilesVars, phase, mode, planVars, jobVars, tileSums, tileFill,
                 gridSums, planned, reads>>

-----------------------------------------------------------------------------
(* Making a plan: the "combine data structures" loop of Plan::initialize. *)

BeginPlan ==
  /\ phase \in {"idle", "final"}
  /\ subgridCount < MaxSubgrids
  /\ phase' = "plan"
  /\ metadata' = <<>>
  /\ subgridOffset' = <<0>>
  /\ events' = <<>>
  /\ reads' = {}
  /\ UNCHANGED <<wtilesVars, mode, jobVars, dataVars, planned>>

(* The metadata of the baseline that is being added. *)
CurrentBaseline ==
  {metadata[k] : k \in subgridOffset[Len(subgridOffset)] + 1 .. Len(metadata)}

(* Add a subgrid of the first or of a later channel group; a baseline's    *)
(* channel groups come in order.                                           *)
PlanSubgrid(c, firstGroup) ==
  /\ phase = "plan"
  /\ Len(subgridOffset) <= NrBaselines
  /\ IF firstGroup THEN \A m \in CurrentBaseline : m.firstGroup
                   ELSE FirstGroupInRange => CurrentBaseline # {}
  /\ AddSubgrid(Len(metadata), c)
  /\ metadata' = Append(metadata, [wtile_coordinate |-> c,
                                   wtile_index      |-> wtileId'[c],
                                   firstGroup       |-> firstGroup])
  /\ planned' = IF mode = "gridding" THEN [planned EXCEPT ![c] = @ + 1] ELSE planned
  /\ UNCHANGED <<phase, mode, subgridOffset, events, jobVars, dataVars, reads>>

(* The next baseline starts here; the last entry is the sentinel. *)
FinishBaseline ==
  /\ phase = "plan"
  /\ Len(subgridOffset) <= NrBaselines
  /\ subgridOffset' = Append(subgridOffset, Len(metadata))
  /\ UNCHANGED <<wtilesVars, phase, mode, metadata, events, jobVars, dataVars,
                 planned, reads>>

(* The plan takes the events out of the cache, and do_gridding or           *)
(* do_degridding starts with a copy of its own set and with a job size that *)
(* compute_jobsize derives from free memory.                                *)
FinishPlan ==
  /\ phase = "plan"
  /\ Len(subgridOffset) = NrBaselines + 1
  /\ TakeUpdateSets
  /\ events' = IF mode = "gridding" THEN flushSet ELSE initializeSet
  /\ \E n \in 1 .. NrBaselines : jobsize' = n
  /\ bl' = 0
  /\ job' = NoJob
  /\ phase' = "run"
  /\ UNCHANGED <<mode, metadata, subgridOffset, dataVars, planned, reads>>

-----------------------------------------------------------------------------
(* Executing a plan.  Baselines are 0 .. NrBaselines - 1. *)

Offset(b) == subgridOffset[b + 1]

(* Mutation of HasTimesteps: the first subgrid is left out. *)
HasTimestepsOffByOne(b) ==
  \E k \in Offset(b) + 2 .. Offset(b + 1) : metadata[k].firstGroup

(* get_nr_timesteps(b, 1) > 0: only the first channel group counts. *)
HasTimesteps(b) ==
  \E k \in Offset(b) + 1 .. Offset(b + 1) : metadata[k].firstGroup

JobDone == job.index >= job.nr

(* One iteration of the loop over bl: Plan::initialize_job, which skips     *)
(* leading baselines without timesteps, and the call of run_adder_wtiles or *)
(* run_splitter_wtiles unless no baseline is left in the job.               *)
StartJob ==
  /\ phase = "run"
  /\ JobDone
  /\ bl < NrBaselines
  /\ LET last == IF bl + jobsize > NrBaselines THEN NrBaselines ELSE bl + jobsize
     IN  \E first \in bl .. last :
           /\ \A b \in bl .. first - 1 : ~HasTimesteps(b)
           /\ first < last => HasTimesteps(first)
           /\ job' = IF first = last THEN NoJob
                     ELSE [first  |-> Offset(first),
                           offset |-> Offset(bl),
                           nr     |-> Offset(last) - Offset(first),
                           index  |-> 0]
  /\ bl' = bl + jobsize
  /\ UNCHANGED <<wtilesVars, phase, mode, planVars, jobsize, dataVars, planned, reads>>

(* The position of the job's next subgrid, as the loop computes it. *)
Position == job.index + job.offset

(* Mutation of EventIsDue: the subgrid offset of the job is forgotten. *)
EventIsDueInJob == events # <<>> /\ Head(events).subgrid_index = job.index

EventIsDue == events # <<>> /\ Head(events).subgrid_index = Position

EventsAfterDue == IF EventIsDue THEN Tail(events) ELSE events

DueTiles == IF EventIsDue THEN Head(events).tiles ELSE {}

(* Mutation of NrToProcess: events inside the job are not looked for. *)
NrToProcessWholeJob == job.nr - job.index

(* nr_subgrids_to_process: up to the next event or to the end of the job. *)
NrToProcess ==
  LET rest == job.nr - job.index
      upToEvent == Head(EventsAfterDue).subgrid_index - Position
  IN  IF EventsAfterDue # <<>> /\ upToEvent < rest THEN upToEvent ELSE rest

(* The metadata of the subgrids of this iteration. *)
Processed ==
  {k \in DOMAIN metadata :
     k - 1 - job.first \in job.index .. job.index + NrToProcess - 1}

NextSubgrids ==
  /\ events' = EventsAfterDue
  /\ job' = [job EXCEPT !.index = @ + NrToProcess]
  /\ UNCHANGED <<wtilesVars, phase, mode, metadata, subgridOffset, jobsize, bl,
                 gridId, planned>>

(* kernel_adder_wtiles_to_grid: project the tiles onto the grid, zero them. *)

(* Mutation of Projected below: a tile is stored, not added. *)
ProjectedOverGrid(grid, tiles) ==
  [d \in Coordinates |-> [c \in Coordinates |->
     LET ids == {t \in TileIds : <<d, t>> \in tiles}
     IN  IF ids = {} THEN grid[d][c] ELSE tileSums[CHOOSE t \in ids : TRUE][c]]]

Projected(grid, tiles) ==
  [d \in Coordinates |-> [c \in Coordinates |->
     LET ids == {t \in TileIds : <<d, t>> \in tiles}
     IN  IF ids = {} THEN grid[d][c]
         ELSE grid[d][c] + tileSums[CHOOSE t \in ids : TRUE][c]]]

(* Mutation of Zeroed: the tile keeps what was projected. *)
NotZeroed(tiles) == tileSums

Zeroed(tiles) ==
  [t \in TileIds |-> IF \E c \in Coordinates : <<c, t>> \in tiles
                     THEN NoSums ELSE tileSums[t]]

(* One iteration of run_adder_wtiles. *)
AdderIteration ==
  /\ phase = "run"
  /\ mode = "gridding"
  /\ ~JobDone
  /\ gridSums' = Projected(gridSums, DueTiles)
  /\ tileSums' = [t \in TileIds |-> [c \in Coordinates |->
       Zeroed(DueTiles)[t][c]
         + Cardinality({k \in Processed : /\ metadata[k].wtile_index = t
                                          /\ metadata[k].wtile_coordinate = c})]]
  /\ NextSubgrids
  /\ UNCHANGED <<tileFill, reads>>

(* kernel_splitter_wtiles_from_grid: cut the tiles out of the grid. *)
Filled(tiles) ==
  [t \in TileIds |->
     LET cs == {c \in Coordinates : <<c, t>> \in tiles}
     IN  IF cs = {} THEN tileFill[t] ELSE FillFor(CHOOSE c \in cs : TRUE)]

(* One iteration of run_splitter_wtiles. *)
SplitterIteration ==
  /\ phase = "run"
  /\ mode = "degridding"
  /\ ~JobDone
  /\ tileFill' = Filled(DueTiles)
  /\ reads' = {<<metadata[k].wtile_coordinate,
                 Filled(DueTiles)[metadata[k].wtile_index]>> : k \in Processed}
  /\ NextSubgrids
  /\ UNCHANGED <<tileSums, gridSums>>

(* do_gridding or do_degridding returns; the plan is destroyed. *)
EndRun ==
  /\ phase = "run"
  /\ JobDone
  /\ bl >= NrBaselines
  /\ phase' = "idle"
  /\ metadata' = <<>> /\ subgridOffset' = <<>> /\ events' = <<>>
  /\ jobsize' = 1 /\ bl' = 0 /\ job' = NoJob
  /\ reads' = {}
  /\ UNCHANGED <<wtilesVars, mode, dataVars, planned>>

(* CPU::get_final_grid: clear the cache and project what it held. *)
GetFinalGrid ==
  /\ phase = "idle"
  /\ mode = "gridding"
  /\ gridSums' = Projected(gridSums, TilesOf(ActiveWtiles))
  /\ tileSums' = Zeroed(TilesOf(ActiveWtiles))
  /\ ClearWtiles
  /\ phase' = "final"
  /\ UNCHANGED <<mode, planVars, jobVars, tileFill, gridId, planned, reads>>

RunStep == StartJob \/ AdderIteration \/ SplitterIteration \/ EndRun

Next ==
  \/ \E m \in Modes : InitCache(m)
  \/ SetImage
  \/ BeginPlan
  \/ \E c \in Coordinates, firstGroup \in BOOLEAN : PlanSubgrid(c, firstGroup)
  \/ FinishBaseline
  \/ FinishPlan
  \/ RunStep
  \/ GetFinalGrid

Spec == Init /\ [][Next]_vars

-----------------------------------------------------------------------------
Metadata ==
  [wtile_coordinate : Coordinates, wtile_index : TileIds, firstGroup : BOOLEAN]

Job == [first : Int, offset : Int, nr : Int, index : Int]

(* The type invariant. *)
TypeOK ==
  /\ WTilesTypeOK
  /\ phase \in Phases
  /\ mode \in Modes
  /\ metadata \in Seq(Metadata)
  /\ subgridOffset \in Seq(Nat)
  /\ phase = "run" => Len(subgridOffset) = NrBaselines + 1
  /\ events \in Seq(UpdateInfo)
  /\ jobsize \in 1 .. NrBaselines
  /\ bl \in Nat
  /\ job \in Job
  /\ tileSums \in [TileIds -> [Coordinates -> Nat]]
  /\ tileFill \in [TileIds -> Fill]
  /\ gridSums \in [Coordinates -> [Coordinates -> Nat]]
  /\ gridId \in 0 .. MaxGrids
  /\ planned \in [Coordinates -> Nat]
  /\ reads \in SUBSET (Coordinates \X Fill)

(* A tile never holds subgrids of two coordinates: it is projected, with    *)
(* the w term of one coordinate, before the first subgrid of another is     *)
(* added to its slot, although the cache reassigned the slot already when   *)
(* the plan was made.                                                       *)
TilesUnmixed ==
  \A t \in TileIds, c, d \in Coordinates :
    tileSums[t][c] > 0 /\ tileSums[t][d] > 0 => c = d

(* Between calls, every subgrid that was planned for the grid is in the     *)
(* grid or in a tile, once, whatever slots, events and jobs it went through: *)
(* no subgrid is skipped at a job boundary and none is added twice.         *)
NoSubgridLost ==
  phase \in {"idle", "final"} =>
    \A c \in Coordinates :
      gridSums[c][c] + SumFunction([t \in TileIds |-> tileSums[t][c]])
        = planned[c]

(* Degridding reads every subgrid from a tile that was cut from the grid    *)
(* that is set now, at the subgrid's own tile coordinate: the initialize    *)
(* events come in time, and no tile survives a change of grid.              *)
DegridsCurrentGrid ==
  \A r \in reads : r[2] = FillFor(r[1])

(* Every update event of a plan falls on the position of some subgrid of    *)
(* some job and is applied: none is left over when the last job ends.       *)
EventsAllApplied ==
  phase = "run" /\ JobDone /\ bl >= NrBaselines => events = <<>>

(* A flush or initialization is never applied to a slot that the cache      *)
(* still holds for the same coordinate, or after the fact: once a call is   *)
(* over, the tile buffer agrees with the cache, so the next plan can trust  *)
(* its slots.  Gridding leaves subgrids only in active tiles, and degridding *)
(* leaves every active tile filled for its coordinate.                      *)
BufferMatchesCache ==
  phase \in {"idle", "final"} =>
    \A t \in TileIds, c \in Coordinates :
      IF mode = "gridding"
      THEN tileSums[t][c] > 0 => wtileId[c] = t
      ELSE wtileId[c] = t => tileFill[t].coordinates = {c}

(* A call of do_gridding or do_degridding returns: the loop over a job has  *)
(* no other increment than the number of subgrids up to the next event, so  *)
(* an event that was reached and is not recognized as due, or one that lies *)
(* behind, would stop it for ever.                                          *)
CallsProgress == phase = "run" /\ ~JobDone => NrToProcess > 0

(* A job leaves out only baselines that have no subgrids ("Skip empty       *)
(* baselines", Plan.cpp:694).                                               *)
OnlyEmptyBaselinesSkipped ==
  [][StartJob => job'.nr = Offset(IF bl' < NrBaselines THEN bl' ELSE NrBaselines)
                             - Offset(bl)]_vars

(* What gridding with W-tiles promises: the accumulation of all subgrids on *)
(* the grid, each once and at its own coordinate, complete at delivery.     *)
Accumulation == INSTANCE GridAccumulation
                  WITH requested <- planned, grid <- gridSums,
                       delivered <- phase = "final"

ImplementsAccumulation == Accumulation!Spec
=============================================================================
