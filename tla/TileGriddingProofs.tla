-------------------------- MODULE TileGriddingProofs -------------------------
(***************************************************************************)
(* Proofs about the proxy that uses the W-tile cache, for any set of       *)
(* coordinates, any buffer size and retired fraction, any number of plans, *)
(* baselines and jobs, and any free memory: its types and slots, and then  *)
(* the control of its plans and jobs.                                      *)
(*                                                                         *)
(* ControlInv, the invariant of the control, says that what is left of the *)
(* plan's events is in the order of the subgrids that are left, and that   *)
(* no job skips a subgrid.                                                 *)
(***************************************************************************)
EXTENDS TileGridding, WTilesProofs

-----------------------------------------------------------------------------
(* The operators of the run. *)

(* Popping an event leaves a queue of events. *)
LEMMA EventsAfterDueType ==
  ASSUME TypeOK
  PROVE  EventsAfterDue \in Seq(UpdateInfo)
<1>1. CASE EventIsDue
  BY <1>1 DEF EventsAfterDue, EventIsDue, TypeOK
<1>2. CASE ~EventIsDue
  BY <1>2 DEF EventsAfterDue, TypeOK
<1> QED BY <1>1, <1>2

(* An iteration of the adder or splitter processes an integer number. *)
LEMMA NrToProcessType ==
  ASSUME TypeOK
  PROVE  NrToProcess \in Int
<1>1. job.nr - job.index \in Int /\ Position \in Int
  BY DEF TypeOK, Job, Position
<1>2. CASE EventsAfterDue # <<>>
  <2>1. Head(EventsAfterDue) \in UpdateInfo
    BY <1>2, EventsAfterDueType
  <2>2. Head(EventsAfterDue).subgrid_index \in Nat
    BY <2>1 DEF UpdateInfo
  <2> QED BY <1>1, <2>2 DEF NrToProcess
<1>3. CASE EventsAfterDue = <<>>
  BY <1>1, <1>3 DEF NrToProcess
<1> QED BY <1>2, <1>3

(* Projecting tiles leaves a grid of counts. *)
LEMMA ProjectedType ==
  ASSUME TypeOK, NEW tiles
  PROVE  Projected(gridSums, tiles) \in [Coordinates -> [Coordinates -> Nat]]
<1> SUFFICES ASSUME NEW d \in Coordinates, NEW c \in Coordinates
             PROVE  Projected(gridSums, tiles)[d][c] \in Nat
  BY DEF Projected
<1> DEFINE ids == {t \in TileIds : <<d, t>> \in tiles}
<1>1. gridSums[d][c] \in Nat
  BY DEF TypeOK
<1>2. CASE ids = {}
  BY <1>1, <1>2 DEF Projected
<1>3. CASE ids # {}
  <2>1. (CHOOSE t \in ids : TRUE) \in TileIds
    BY <1>3
  <2>2. tileSums[CHOOSE t \in ids : TRUE][c] \in Nat
    BY <2>1 DEF TypeOK
  <2> QED BY <1>1, <1>3, <2>2 DEF Projected
<1> QED BY <1>2, <1>3

(* Zeroing tiles leaves a tile buffer of counts. *)
LEMMA ZeroedType ==
  ASSUME TypeOK, NEW tiles
  PROVE  Zeroed(tiles) \in [TileIds -> [Coordinates -> Nat]]
BY DEF Zeroed, NoSums, TypeOK

(* Initializing tiles leaves every slot filled from some grid. *)
LEMMA FilledType ==
  ASSUME TypeOK, NEW tiles
  PROVE  Filled(tiles) \in [TileIds -> Fill]
<1> SUFFICES ASSUME NEW t \in TileIds
             PROVE  Filled(tiles)[t] \in Fill
  BY DEF Filled
<1> DEFINE cs == {c \in Coordinates : <<c, t>> \in tiles}
<1>1. CASE cs = {}
  BY <1>1 DEF Filled, TypeOK
<1>2. CASE cs # {}
  <2>1. (CHOOSE c \in cs : TRUE) \in Coordinates
    BY <1>2
  <2> QED BY <1>2, <2>1 DEF Filled, FillFor, Fill, TypeOK
<1> QED BY <1>1, <1>2

(* The subgrids of an iteration are finitely many. *)
LEMMA ProcessedFinite ==
  ASSUME TypeOK, NEW S \in SUBSET Processed
  PROVE  Cardinality(S) \in Nat
<1>1. DOMAIN metadata = 1 .. Len(metadata) /\ Len(metadata) \in Nat
  BY DEF TypeOK
<1>2. S \in SUBSET (1 .. Len(metadata))
  BY <1>1 DEF Processed
<1>3. IsFiniteSet(1 .. Len(metadata))
  BY <1>1, FS_Interval
<1> QED BY <1>2, <1>3, FS_Subset, FS_CardinalityType

(* What the adder and the splitter have in common keeps the types. *)
LEMMA NextSubgridsTypeOK ==
  ASSUME TypeOK, NextSubgrids
  PROVE  events' \in Seq(UpdateInfo) /\ job' \in Job
<1> DEFINE next == job.index + NrToProcess
<1>1. job \in Job
  BY DEF TypeOK
<1>2. next \in Int
  BY <1>1, NrToProcessType DEF Job
<1>3. job' = [job EXCEPT !.index = next]
  BY DEF NextSubgrids
<1> HIDE DEF next
<1>4. job' \in Job
  BY <1>1, <1>2, <1>3 DEF Job
<1> QED BY <1>4, EventsAfterDueType DEF NextSubgrids

(* initialize_job yields offsets of the plan's baselines. *)
LEMMA StartJobTypeOK ==
  ASSUME TypeOK, StartJob
  PROVE  job' \in Job /\ bl' \in Nat
<1> USE TileGriddingAssumption
<1> DEFINE last == IF bl + jobsize > NrBaselines THEN NrBaselines ELSE bl + jobsize
<1>1. bl' = bl + jobsize /\ phase = "run" /\ bl < NrBaselines
  BY DEF StartJob
<1>2. bl' \in Nat /\ last \in 0 .. NrBaselines /\ bl \in 0 .. NrBaselines
  BY <1>1 DEF TypeOK
<1>3. PICK first \in bl .. last :
        job' = IF first = last THEN NoJob
               ELSE [first |-> Offset(first), offset |-> Offset(bl),
                     nr |-> Offset(last) - Offset(first), index |-> 0]
  BY DEF StartJob
<1>4. first \in 0 .. NrBaselines
  BY <1>2
<1>5. \A b \in 0 .. NrBaselines : Offset(b) \in Nat
  BY <1>1 DEF TypeOK, Offset
<1>6. Offset(first) \in Nat /\ Offset(last) \in Nat /\ Offset(bl) \in Nat
  BY <1>2, <1>4, <1>5
<1> HIDE DEF last
<1> QED BY <1>2, <1>3, <1>6 DEF NoJob, Job

-----------------------------------------------------------------------------
(* Every variable keeps its type: in particular, a plan hands every subgrid *)
(* a slot of the tile buffer, and a job always has its baselines' offsets.  *)
THEOREM TypeCorrect == Spec => []TypeOK
<1> USE WTilesAssumption, TileGriddingAssumption
<1>1. Init => TypeOK
  <2> SUFFICES ASSUME Init PROVE TypeOK
    OBVIOUS
  <2>1. WTilesTypeOK
    BY EmptyCacheTypeOK DEF Init
  <2>2. /\ phase \in Phases /\ mode \in Modes /\ phase # "run"
        /\ metadata \in Seq(Metadata) /\ subgridOffset \in Seq(Nat)
        /\ events \in Seq(UpdateInfo)
        /\ jobsize \in 1 .. NrBaselines /\ bl \in Nat
        /\ gridId \in 0 .. MaxGrids /\ reads \in SUBSET (Coordinates \X Fill)
    BY DEF Init, Phases, Modes
  <2>3. job \in Job
    BY DEF Init, NoJob, Job
  <2>4. /\ tileSums \in [TileIds -> [Coordinates -> Nat]]
        /\ gridSums \in [Coordinates -> [Coordinates -> Nat]]
        /\ planned \in [Coordinates -> Nat]
    BY DEF Init, NoSums
  <2>5. tileFill \in [TileIds -> Fill]
    BY DEF Init, Blank, Fill
  <2> QED BY <2>1, <2>2, <2>3, <2>4, <2>5 DEF TypeOK
<1>2. TypeOK /\ [Next]_vars => TypeOK'
  <2> SUFFICES ASSUME TypeOK, [Next]_vars PROVE TypeOK'
    OBVIOUS
  <2>1. ASSUME NEW m \in Modes, InitCache(m) PROVE TypeOK'
    <3>1. WTilesTypeOK'
      BY <2>1, NewCacheTypeOK DEF InitCache
    <3>2. /\ tileSums' \in [TileIds -> [Coordinates -> Nat]]
          /\ gridSums' \in [Coordinates -> [Coordinates -> Nat]]
          /\ planned' \in [Coordinates -> Nat]
      BY <2>1 DEF InitCache, NoSums
    <3>3. tileFill' \in [TileIds -> Fill]
      BY <2>1 DEF InitCache, Blank, Fill
    <3>4. gridId' \in 0 .. MaxGrids /\ phase' = "idle" /\ mode' \in Modes /\ reads' = {}
      BY <2>1 DEF InitCache, TypeOK
    <3> QED BY <2>1, <3>1, <3>2, <3>3, <3>4
            DEF InitCache, TypeOK, Phases, planVars, jobVars
  <2>2. CASE SetImage
    BY <2>2 DEF SetImage, TypeOK, WTilesTypeOK, wtilesVars, planVars, jobVars
  <2>3. CASE BeginPlan
    <3>1. <<0>> \in Seq(Nat) /\ <<>> \in Seq(Metadata) /\ <<>> \in Seq(UpdateInfo)
      OBVIOUS
    <3> QED BY <2>3, <3>1 DEF BeginPlan, TypeOK, WTilesTypeOK, Phases, wtilesVars,
                              jobVars, dataVars
  <2>4. ASSUME NEW c \in Coordinates, NEW g \in BOOLEAN, PlanSubgrid(c, g)
        PROVE  TypeOK'
    <3>1. Len(metadata) \in Nat
      BY DEF TypeOK
    <3>2. WTilesTypeOK' /\ wtileId'[c] \in TileIds
      BY <2>4, <3>1, AddSubgridTypeOK DEF PlanSubgrid, TypeOK
    <3>3. metadata' \in Seq(Metadata)
      BY <2>4, <3>2 DEF PlanSubgrid, TypeOK, Metadata
    <3>4. planned' \in [Coordinates -> Nat]
      BY <2>4 DEF PlanSubgrid, TypeOK
    <3> QED BY <2>4, <3>2, <3>3, <3>4 DEF PlanSubgrid, TypeOK, jobVars, dataVars
  <2>5. CASE FinishBaseline
    <3>1. subgridOffset' \in Seq(Nat)
      BY <2>5 DEF FinishBaseline, TypeOK
    <3> QED BY <2>5, <3>1 DEF FinishBaseline, TypeOK, WTilesTypeOK, wtilesVars,
                              jobVars, dataVars
  <2>6. CASE FinishPlan
    <3>1. WTilesTypeOK'
      BY <2>6, TakeUpdateSetsTypeOK DEF FinishPlan, TypeOK
    <3>2. events' \in Seq(UpdateInfo) /\ job' \in Job
      BY <2>6 DEF FinishPlan, TypeOK, WTilesTypeOK, NoJob, Job
    <3> QED BY <2>6, <3>1, <3>2 DEF FinishPlan, TypeOK, Phases, dataVars
  <2>7. CASE StartJob
    <3>1. job' \in Job /\ bl' \in Nat
      BY <2>7, StartJobTypeOK
    <3> QED BY <2>7, <3>1 DEF StartJob, TypeOK, WTilesTypeOK, wtilesVars, planVars,
                              dataVars
  <2>8. CASE AdderIteration
    <3>1. events' \in Seq(UpdateInfo) /\ job' \in Job
      BY <2>8, NextSubgridsTypeOK DEF AdderIteration
    <3>2. gridSums' \in [Coordinates -> [Coordinates -> Nat]]
      BY <2>8, ProjectedType DEF AdderIteration
    <3>3. tileSums' \in [TileIds -> [Coordinates -> Nat]]
      <4> SUFFICES ASSUME NEW t \in TileIds, NEW c \in Coordinates
                   PROVE  Zeroed(DueTiles)[t][c]
                            + Cardinality({k \in Processed :
                                             /\ metadata[k].wtile_index = t
                                             /\ metadata[k].wtile_coordinate = c}) \in Nat
        BY <2>8 DEF AdderIteration
      <4>1. Zeroed(DueTiles)[t][c] \in Nat
        BY ZeroedType
      <4>2. Cardinality({k \in Processed : /\ metadata[k].wtile_index = t
                                           /\ metadata[k].wtile_coordinate = c}) \in Nat
        BY ProcessedFinite
      <4> QED BY <4>1, <4>2
    <3> QED BY <2>8, <3>1, <3>2, <3>3 DEF AdderIteration, NextSubgrids, TypeOK,
                                          WTilesTypeOK, wtilesVars
  <2>9. CASE SplitterIteration
    <3>1. events' \in Seq(UpdateInfo) /\ job' \in Job
      BY <2>9, NextSubgridsTypeOK DEF SplitterIteration
    <3>2. tileFill' \in [TileIds -> Fill]
      BY <2>9, FilledType DEF SplitterIteration
    <3>3. reads' \in SUBSET (Coordinates \X Fill)
      <4>1. \A k \in Processed : metadata[k] \in Metadata
        BY DEF Processed, TypeOK
      <4>2. \A k \in Processed : /\ metadata[k].wtile_coordinate \in Coordinates
                                 /\ metadata[k].wtile_index \in TileIds
        BY <4>1 DEF Metadata
      <4> QED BY <2>9, <4>2, FilledType DEF SplitterIteration
    <3> QED BY <2>9, <3>1, <3>2, <3>3 DEF SplitterIteration, NextSubgrids, TypeOK,
                                          WTilesTypeOK, wtilesVars
  <2>10. CASE EndRun
    <3>1. job' \in Job
      BY <2>10 DEF EndRun, NoJob, Job
    <3> QED BY <2>10, <3>1 DEF EndRun, TypeOK, WTilesTypeOK, Phases, wtilesVars, dataVars
  <2>11. CASE GetFinalGrid
    <3>1. WTilesTypeOK'
      BY <2>11, ClearWtilesTypeOK DEF GetFinalGrid, TypeOK
    <3>2. /\ gridSums' \in [Coordinates -> [Coordinates -> Nat]]
          /\ tileSums' \in [TileIds -> [Coordinates -> Nat]]
      BY <2>11, ProjectedType, ZeroedType DEF GetFinalGrid
    <3> QED BY <2>11, <3>1, <3>2 DEF GetFinalGrid, TypeOK, Phases, planVars, jobVars
  <2>12. CASE UNCHANGED vars
    BY <2>12 DEF vars, TypeOK, WTilesTypeOK, wtilesVars, planVars, jobVars, dataVars
  <2> QED BY <2>1, <2>2, <2>3, <2>4, <2>5, <2>6, <2>7, <2>8, <2>9, <2>10, <2>11,
             <2>12 DEF Next, RunStep
<1> QED BY <1>1, <1>2, PTL DEF Spec

(* No slot of the tile buffer is ever shared by two coordinates or lost,    *)
(* for every buffer size and every retired fraction: only the requests of   *)
(* plans, get_final_grid and init_cache touch the cache.                    *)
THEOREM SlotsStayPartitioned == Spec => []SlotsPartitioned
<1>1. Init => SlotsPartitioned
  BY EmptyCacheTypeOK DEF Init
<1>2. TypeOK /\ SlotsPartitioned /\ [Next]_vars => SlotsPartitioned'
  <2> SUFFICES ASSUME TypeOK, SlotsPartitioned, [Next]_vars PROVE SlotsPartitioned'
    OBVIOUS
  <2>1. ASSUME UNCHANGED <<wtileId, freeWtiles>> PROVE SlotsPartitioned'
    BY <2>1 DEF SlotsPartitioned, ActiveWtiles
  <2>2. ASSUME NEW m \in Modes, InitCache(m) PROVE SlotsPartitioned'
    BY <2>2, NewCacheTypeOK DEF InitCache
  <2>3. ASSUME NEW c \in Coordinates, NEW g \in BOOLEAN, PlanSubgrid(c, g)
        PROVE  SlotsPartitioned'
    <3>1. Len(metadata) \in Nat
      BY DEF TypeOK
    <3> QED BY <2>3, <3>1, AddSubgridPartitions DEF PlanSubgrid, TypeOK
  <2>4. CASE FinishPlan
    BY <2>1, <2>4 DEF FinishPlan, TakeUpdateSets
  <2>5. CASE GetFinalGrid
    BY <2>5, ClearWtilesPartitions DEF GetFinalGrid
  <2>6. CASE SetImage \/ BeginPlan \/ FinishBaseline \/ StartJob \/ EndRun
    BY <2>1, <2>6 DEF SetImage, BeginPlan, FinishBaseline, StartJob, EndRun, wtilesVars
  <2>7. CASE AdderIteration \/ SplitterIteration
    BY <2>1, <2>7 DEF AdderIteration, SplitterIteration, NextSubgrids, wtilesVars
  <2>8. CASE UNCHANGED vars
    BY <2>1, <2>8 DEF vars, wtilesVars
  <2> QED BY <2>2, <2>3, <2>4, <2>5, <2>6, <2>7, <2>8 DEF Next, RunStep
<1> QED BY <1>1, <1>2, TypeCorrect, PTL DEF Spec

-----------------------------------------------------------------------------
(* The end of the baselines that were given to jobs. *)
JobsEnd == Offset(IF bl < NrBaselines THEN bl ELSE NrBaselines)

(* The subgrids that were executed: metadata[1 .. Executed]. *)
Executed ==
  IF phase # "run" THEN 0 ELSE IF JobDone THEN JobsEnd ELSE job.first + job.index

-----------------------------------------------------------------------------
(* The invariant of the control of plans and jobs. *)

(* What is empty in which phase. *)
PhaseInv ==
  /\ phase \notin {"plan", "run"} => metadata = <<>>
  /\ phase # "plan" => flushSet = <<>> /\ initializeSet = <<>>
  /\ phase # "run" => events = <<>> /\ reads = {}
  /\ phase = "final" => mode = "gridding"

(* The offsets of the baselines ascend, and the first subgrid of every *)
(* baseline that has subgrids is of channel group 0.                   *)
BaselinesInv ==
  phase \in {"plan", "run"} =>
    /\ Len(subgridOffset) \in 1 .. NrBaselines + 1
    /\ \A i, j \in DOMAIN subgridOffset : i <= j => subgridOffset[i] <= subgridOffset[j]
    /\ \A i \in DOMAIN subgridOffset : subgridOffset[i] <= Len(metadata)
    /\ subgridOffset[1] = 0
    /\ Len(subgridOffset) = NrBaselines + 1 =>
         subgridOffset[Len(subgridOffset)] = Len(metadata)
    /\ \A k \in DOMAIN metadata : \E i \in DOMAIN subgridOffset :
         /\ subgridOffset[i] < k
         /\ i < Len(subgridOffset) => k <= subgridOffset[i + 1]
         /\ metadata[subgridOffset[i] + 1].firstGroup

(* A job is all of its baselines' subgrids: none is skipped. *)
JobInv ==
  phase = "run" =>
    /\ job.index \in 0 .. job.nr
    /\ job.first \in Nat
    /\ job.nr > 0 => job.first = job.offset /\ job.first + job.nr = JobsEnd

(* The cache logs events in the order of the subgrids. *)
CacheLogsInv ==
  /\ LogInOrder(flushSet, Len(metadata))
  /\ LogInOrder(initializeSet, Len(metadata))
  /\ LastActive

(* The events that are left are in order, and none is late. *)
EventsInv ==
  /\ LogInOrder(events, Len(metadata))
  /\ \A j \in DOMAIN events : Executed <= events[j].subgrid_index

ControlInv == PhaseInv /\ BaselinesInv /\ JobInv /\ CacheLogsInv /\ EventsInv

-----------------------------------------------------------------------------
(* Jobs. *)

(* The sequences of the plan. *)
LEMMA PlanSequences ==
  ASSUME TypeOK
  PROVE  /\ DOMAIN metadata = 1 .. Len(metadata) /\ Len(metadata) \in Nat
         /\ \A k \in DOMAIN metadata : metadata[k] \in Metadata
         /\ \A k \in DOMAIN metadata : /\ metadata[k].wtile_coordinate \in Coordinates
                                       /\ metadata[k].wtile_index \in TileIds
         /\ DOMAIN subgridOffset = 1 .. Len(subgridOffset) /\ Len(subgridOffset) \in Nat
         /\ \A i \in DOMAIN subgridOffset : subgridOffset[i] \in Nat
         /\ DOMAIN events = 1 .. Len(events) /\ Len(events) \in Nat
         /\ \A j \in DOMAIN events : /\ events[j] \in UpdateInfo
                                     /\ events[j].subgrid_index \in Nat
                                     /\ events[j].tiles \in SUBSET (Coordinates \X TileIds)
<1>1. metadata \in Seq(Metadata) /\ subgridOffset \in Seq(Nat) /\ events \in Seq(UpdateInfo)
  BY DEF TypeOK
<1>2. \A k \in DOMAIN metadata : metadata[k] \in Metadata
  BY <1>1
<1>3. \A m \in Metadata : m.wtile_coordinate \in Coordinates /\ m.wtile_index \in TileIds
  BY DEF Metadata
<1>4. /\ DOMAIN metadata = 1 .. Len(metadata) /\ Len(metadata) \in Nat
      /\ DOMAIN subgridOffset = 1 .. Len(subgridOffset) /\ Len(subgridOffset) \in Nat
      /\ \A i \in DOMAIN subgridOffset : subgridOffset[i] \in Nat
  BY <1>1
<1> QED BY <1>1, <1>2, <1>3, <1>4, LogElements

(* While a plan is executed, every baseline has its offset. *)
LEMMA Offsets ==
  ASSUME TypeOK, BaselinesInv, phase = "run"
  PROVE  /\ \A b \in 0 .. NrBaselines : Offset(b) \in 0 .. Len(metadata)
         /\ \A a, b \in 0 .. NrBaselines : a <= b => Offset(a) <= Offset(b)
         /\ Offset(NrBaselines) = Len(metadata)
<1> USE TileGriddingAssumption
<1>1. Len(subgridOffset) = NrBaselines + 1
  BY DEF TypeOK
<1>2. \A b \in 0 .. NrBaselines : b + 1 \in DOMAIN subgridOffset
  BY <1>1, PlanSequences
<1>3. \A b \in 0 .. NrBaselines : Offset(b) = subgridOffset[b + 1]
  BY DEF Offset
<1>4. /\ \A i, j \in DOMAIN subgridOffset : i <= j => subgridOffset[i] <= subgridOffset[j]
      /\ \A i \in DOMAIN subgridOffset : subgridOffset[i] <= Len(metadata)
      /\ subgridOffset[Len(subgridOffset)] = Len(metadata)
  BY <1>1 DEF BaselinesInv
<1>5. \A b \in 0 .. NrBaselines : Offset(b) \in 0 .. Len(metadata)
  <2>1. \A i \in DOMAIN subgridOffset : subgridOffset[i] \in 0 .. Len(metadata)
    BY <1>4, PlanSequences
  <2> QED BY <1>2, <1>3, <2>1
<1>6. \A a, b \in 0 .. NrBaselines : a <= b => Offset(a) <= Offset(b)
  BY <1>2, <1>3, <1>4
<1>7. Offset(NrBaselines) = Len(metadata)
  BY <1>1, <1>3, <1>4
<1> QED BY <1>5, <1>6, <1>7

(* Baselines without a subgrid of channel group 0 have no subgrids. *)
LEMMA SkippedAreEmpty ==
  ASSUME TypeOK, BaselinesInv, phase = "run",
         NEW first \in 0 .. NrBaselines, NEW end \in first .. NrBaselines,
         \A b \in first .. end - 1 : ~HasTimesteps(b)
  PROVE  Offset(first) = Offset(end)
<1> USE TileGriddingAssumption
<1>1. Offset(first) \in Nat /\ Offset(end) \in Nat /\ Offset(first) <= Offset(end)
      /\ Offset(end) <= Len(metadata)
  BY Offsets
<1>2. SUFFICES ASSUME Offset(first) < Offset(end) PROVE FALSE
  BY <1>1
<1> DEFINE k == Offset(first) + 1
<1>3. k \in DOMAIN metadata
  BY <1>1, <1>2, PlanSequences
<1>4. PICK i \in DOMAIN subgridOffset :
        /\ subgridOffset[i] < k
        /\ i < Len(subgridOffset) => k <= subgridOffset[i + 1]
        /\ metadata[subgridOffset[i] + 1].firstGroup
  BY <1>3 DEF BaselinesInv
<1> DEFINE b == i - 1
<1>5. Len(subgridOffset) = NrBaselines + 1 /\ b \in 0 .. NrBaselines /\ Offset(b) = subgridOffset[i]
  BY PlanSequences DEF TypeOK, Offset
<1>6. b # NrBaselines
  BY <1>1, <1>2, <1>4, <1>5, Offsets
<1>7. b + 1 \in 0 .. NrBaselines /\ Offset(b + 1) = subgridOffset[i + 1] /\ k <= Offset(b + 1)
  BY <1>4, <1>5, <1>6 DEF Offset
<1>8. b >= first
  <2>1. b + 1 <= first => Offset(b + 1) <= Offset(first)
    BY <1>7, Offsets
  <2> QED BY <1>1, <1>5, <1>7, <2>1, Offsets
<1>9. b < end
  <2>1. end <= b => Offset(end) <= Offset(b)
    BY <1>5, Offsets
  <2> QED BY <1>1, <1>2, <1>4, <1>5, <2>1, Offsets
<1>10. Offset(b) \in Nat /\ Offset(b + 1) \in Nat /\ Offset(b) < Offset(b + 1)
  BY <1>1, <1>4, <1>5, <1>7, Offsets
<1>11. HasTimesteps(b)
  BY <1>4, <1>5, <1>10 DEF HasTimesteps
<1> QED BY <1>5, <1>8, <1>9, <1>11

(* What was executed ends within what jobs were made for. *)
LEMMA ExecutedBounds ==
  ASSUME TypeOK, BaselinesInv, JobInv, phase = "run"
  PROVE  /\ JobsEnd \in 0 .. Len(metadata)
         /\ Executed \in 0 .. JobsEnd
         /\ bl >= NrBaselines => JobsEnd = Len(metadata)
         /\ ~JobDone => /\ job.index \in Nat /\ job.nr \in Nat /\ job.index < job.nr
                        /\ Executed = job.first + job.index
                        /\ Position = Executed
                        /\ job.first + job.nr = JobsEnd
<1> USE TileGriddingAssumption
<1>1. bl \in Nat
  BY DEF TypeOK
<1>2. JobsEnd \in 0 .. Len(metadata) /\ (bl >= NrBaselines => JobsEnd = Len(metadata))
  BY <1>1, Offsets DEF JobsEnd
<1>3. job.index \in Int /\ job.nr \in Int /\ job.first \in Nat /\ job.offset \in Int
  BY DEF TypeOK, Job, JobInv
<1>0. JobsEnd \in Nat
  <2>1. Len(metadata) \in Nat
    BY PlanSequences
  <2> QED BY <1>2, <2>1
<1>4. CASE JobDone
  <2>1. Executed = JobsEnd
    BY <1>4 DEF Executed
  <2>2. Executed \in 0 .. JobsEnd
    BY <1>0, <2>1
  <2> QED BY <1>2, <1>4, <2>2
<1>5. CASE ~JobDone
  <2>1. job.index \in Nat /\ job.nr \in Nat /\ job.index < job.nr
    BY <1>3, <1>5 DEF JobInv, JobDone
  <2>2. job.first = job.offset /\ job.first + job.nr = JobsEnd
    BY <2>1 DEF JobInv
  <2>3. Executed = job.first + job.index
    BY <1>5 DEF Executed
  <2>4. Position = Executed
    BY <1>3, <2>1, <2>2, <2>3 DEF Position
  <2>5. Executed \in 0 .. JobsEnd
    BY <1>0, <1>3, <2>1, <2>2, <2>3
  <2> QED BY <1>2, <1>5, <2>1, <2>2, <2>3, <2>4, <2>5
<1> QED BY <1>4, <1>5

(* initialize_job: the job begins where the last one ended. *)
LEMMA StartJobFlow ==
  ASSUME TypeOK, BaselinesInv, JobInv, StartJob
  PROVE  /\ JobInv'
         /\ Executed' = Executed
         /\ Executed = Offset(bl)
         /\ job'.nr = JobsEnd' - Offset(bl)
<1> USE TileGriddingAssumption
<1> DEFINE last == IF bl + jobsize > NrBaselines THEN NrBaselines ELSE bl + jobsize
<1>1. /\ phase = "run" /\ JobDone /\ bl < NrBaselines /\ bl' = bl + jobsize
      /\ phase' = "run" /\ subgridOffset' = subgridOffset
  BY DEF StartJob, planVars
<1>2. bl \in 0 .. NrBaselines /\ jobsize \in 1 .. NrBaselines /\ last \in bl .. NrBaselines
  BY <1>1 DEF TypeOK
<1>3. PICK first \in bl .. last :
        /\ \A b \in bl .. first - 1 : ~HasTimesteps(b)
        /\ job' = IF first = last THEN NoJob
                  ELSE [first |-> Offset(first), offset |-> Offset(bl),
                        nr |-> Offset(last) - Offset(first), index |-> 0]
  BY DEF StartJob
<1>4. last = IF bl' < NrBaselines THEN bl' ELSE NrBaselines
  BY <1>1, <1>2
<1>5. JobsEnd' = Offset(last)
  BY <1>1, <1>4 DEF JobsEnd, Offset
<1> HIDE DEF last
<1>6. first \in bl .. NrBaselines
  BY <1>2, <1>3
<1>7. Offset(first) = Offset(bl)
  BY <1>1, <1>2, <1>3, <1>6, SkippedAreEmpty
<1>8. Offset(first) \in Nat /\ Offset(last) \in Nat /\ Offset(first) <= Offset(last)
  BY <1>1, <1>2, <1>3, <1>6, Offsets
<1>9. Executed = Offset(bl)
  BY <1>1 DEF Executed, JobsEnd
<1>10. CASE first = last
  <2>1. job' = NoJob
    BY <1>3, <1>10
  <2>2. job'.index = 0 /\ job'.nr = 0 /\ job'.first = 0
    BY <2>1 DEF NoJob
  <2>3. Executed' = JobsEnd'
    BY <1>1, <2>2 DEF Executed, JobDone
  <2> QED BY <1>5, <1>7, <1>8, <1>9, <1>10, <2>2, <2>3 DEF JobInv
<1>11. CASE first # last
  <2>1. job' = [first |-> Offset(first), offset |-> Offset(bl),
                nr |-> Offset(last) - Offset(first), index |-> 0]
    BY <1>3, <1>11
  <2>2. /\ job'.index = 0 /\ job'.nr = Offset(last) - Offset(first)
        /\ job'.first = Offset(first) /\ job'.offset = Offset(bl)
    BY <2>1
  <2>3. JobInv'
    BY <1>5, <1>7, <1>8, <2>2 DEF JobInv
  <2>4. Executed' = Executed
    BY <1>1, <1>5, <1>7, <1>8, <1>9, <2>2 DEF Executed, JobDone
  <2> QED BY <1>5, <1>7, <1>9, <2>2, <2>3, <2>4
<1> QED BY <1>10, <1>11

(* An iteration takes s events: none, or the first, which is due. *)
EventTaken(s) ==
  /\ Len(EventsAfterDue) = Len(events) - s
  /\ \A j \in DOMAIN EventsAfterDue : EventsAfterDue[j] = events[j + s]
  /\ s = 0 => DueTiles = {} /\ (events # <<>> => events[1].subgrid_index # Position)
  /\ s = 1 => /\ 1 \in DOMAIN events /\ events[1].subgrid_index = Position
              /\ DueTiles = events[1].tiles

(* One iteration takes at most one event, the first, and that is due before *)
(* the next subgrid.                                                        *)
LEMMA DueEvent ==
  ASSUME TypeOK
  PROVE  /\ EventsAfterDue \in Seq(UpdateInfo)
         /\ DOMAIN EventsAfterDue = 1 .. Len(EventsAfterDue) /\ Len(EventsAfterDue) \in Nat
         /\ \E s \in {0, 1} : EventTaken(s)
<1>1. events \in Seq(UpdateInfo)
  BY DEF TypeOK
<1>2. CASE EventIsDue
  <2>1. events # <<>> /\ Head(events).subgrid_index = Position
    BY <1>2 DEF EventIsDue
  <2>2. EventsAfterDue = Tail(events) /\ DueTiles = Head(events).tiles
    BY <1>2 DEF EventsAfterDue, DueTiles
  <2>3. /\ Tail(events) \in Seq(UpdateInfo)
        /\ DOMAIN events = 1 .. Len(events) /\ Len(events) \in Nat /\ Len(events) > 0
        /\ Head(events) = events[1]
        /\ Len(Tail(events)) = Len(events) - 1
        /\ DOMAIN Tail(events) = 1 .. Len(events) - 1
        /\ \A i \in 1 .. Len(events) - 1 : Tail(events)[i] = events[i + 1]
    BY <1>1, <2>1, Shortened
  <2>4. 1 \in DOMAIN events
    BY <2>3
  <2>5. EventTaken(1)
    BY <2>1, <2>2, <2>3, <2>4 DEF EventTaken
  <2> QED BY <2>2, <2>3, <2>5
<1>3. CASE ~EventIsDue
  <2>1. EventsAfterDue = events /\ DueTiles = {}
    BY <1>3 DEF EventsAfterDue, DueTiles
  <2>2. /\ DOMAIN events = 1 .. Len(events) /\ Len(events) \in Nat
        /\ \A j \in DOMAIN events : j + 0 = j
    BY <1>1
  <2>3. events # <<>> => Head(events) = events[1]
    BY <1>1
  <2>4. events # <<>> => events[1].subgrid_index # Position
    BY <1>3, <2>3 DEF EventIsDue
  <2>5. EventTaken(0)
    BY <2>1, <2>2, <2>4 DEF EventTaken
  <2> QED BY <1>1, <2>1, <2>2, <2>5
<1> QED BY <1>2, <1>3

(* One iteration executes at least one subgrid, and stops before the next   *)
(* event or at the end of the job.                                          *)
LEMMA IterationFlow ==
  ASSUME TypeOK, BaselinesInv, JobInv, EventsInv, phase = "run", ~JobDone
  PROVE  /\ NrToProcess \in Nat /\ 0 < NrToProcess
         /\ NrToProcess <= job.nr - job.index
         /\ LogInOrder(EventsAfterDue, Len(metadata))
         /\ \A j \in DOMAIN EventsAfterDue :
              Executed + NrToProcess <= EventsAfterDue[j].subgrid_index
         /\ Processed = {k \in DOMAIN metadata : Executed < k /\ k <= Executed + NrToProcess}
<1> DEFINE left == EventsAfterDue
<1>1. /\ job.index \in Nat /\ job.nr \in Nat /\ job.index < job.nr
      /\ Executed = job.first + job.index /\ Position = Executed /\ Executed \in Nat
      /\ job.first \in Nat
  BY ExecutedBounds, PlanSequences DEF JobInv
<1>0. PICK s \in {0, 1} : EventTaken(s)
  BY DueEvent
<1>2. /\ Len(left) = Len(events) - s
      /\ \A j \in DOMAIN left : left[j] = events[j + s]
      /\ s = 0 /\ events # <<>> => events[1].subgrid_index # Position
      /\ s = 1 => 1 \in DOMAIN events /\ events[1].subgrid_index = Position
  BY <1>0 DEF EventTaken
<1>3. /\ left \in Seq(UpdateInfo) /\ DOMAIN left = 1 .. Len(left) /\ Len(left) \in Nat
      /\ DOMAIN events = 1 .. Len(events) /\ Len(events) \in Nat
      /\ \A j \in DOMAIN events : events[j].subgrid_index \in Nat
  BY DueEvent, PlanSequences
<1>4. \A j \in DOMAIN left : j + s \in DOMAIN events
  BY <1>2, <1>3
<1> HIDE DEF left
<1>5. LogInOrder(left, Len(metadata))
  <2>1. LogInOrder(events, Len(metadata))
    BY DEF EventsInv
  <2>2. \A i, j \in DOMAIN left : i < j => i + s < j + s
    BY <1>2, <1>3
  <2> QED BY <1>2, <1>4, <2>1, <2>2 DEF LogInOrder
<1>6. \A j \in DOMAIN left : Executed < left[j].subgrid_index
  <2> SUFFICES ASSUME NEW j \in DOMAIN left PROVE Executed < left[j].subgrid_index
    OBVIOUS
  <2>1. left[j] = events[j + s] /\ j + s \in DOMAIN events /\ 1 \in DOMAIN events /\ j \in Nat
    BY <1>2, <1>3, <1>4
  <2>2. Executed <= events[1].subgrid_index /\ events[1].subgrid_index \in Nat
        /\ events[j + s].subgrid_index \in Nat
    BY <1>3, <2>1 DEF EventsInv
  <2>3. 1 < j + s => events[1].subgrid_index < events[j + s].subgrid_index
    BY <2>1 DEF EventsInv, LogInOrder
  <2>4. CASE s = 1
    BY <1>1, <1>2, <1>3, <2>1, <2>2, <2>3, <2>4
  <2>5. CASE s = 0
    <3>1. events # <<>>
      BY <1>3, <2>1
    <3>2. Executed < events[1].subgrid_index
      BY <1>1, <1>2, <2>2, <2>5, <3>1
    <3> QED BY <1>1, <1>3, <2>1, <2>2, <2>3, <2>5, <3>2
  <2> QED BY <1>2, <2>4, <2>5
<1> DEFINE rest == job.nr - job.index
           upToEvent == Head(left).subgrid_index - Position
<1>7. rest \in Nat /\ 0 < rest
  BY <1>1
<1>8. NrToProcess = IF left # <<>> /\ upToEvent < rest THEN upToEvent ELSE rest
  BY DEF NrToProcess, left
<1>9. left # <<>> => /\ 1 \in DOMAIN left /\ Head(left) = left[1]
                     /\ left[1].subgrid_index \in Nat /\ Executed < left[1].subgrid_index
  <2> SUFFICES ASSUME left # <<>> PROVE 1 \in DOMAIN left /\ Head(left) = left[1]
    BY <1>3, <1>6, LogElements
  <2> QED BY <1>3
<1>10. NrToProcess \in Nat /\ 0 < NrToProcess /\ NrToProcess <= rest
  BY <1>1, <1>7, <1>8, <1>9
<1>11. left # <<>> => Executed + NrToProcess <= left[1].subgrid_index
  BY <1>1, <1>7, <1>8, <1>9
<1>12. \A j \in DOMAIN left : Executed + NrToProcess <= left[j].subgrid_index
  <2> SUFFICES ASSUME NEW j \in DOMAIN left
               PROVE  Executed + NrToProcess <= left[j].subgrid_index
    OBVIOUS
  <2>1. left # <<>> /\ j \in Nat /\ j >= 1
    BY <1>3
  <2>2. 1 < j => left[1].subgrid_index < left[j].subgrid_index
    BY <1>5, <1>9, <2>1 DEF LogInOrder
  <2>3. left[j].subgrid_index \in Nat
    BY <1>3, LogElements
  <2> QED BY <1>1, <1>9, <1>10, <1>11, <2>1, <2>2, <2>3
<1> HIDE DEF rest, upToEvent
<1>13. Processed = {k \in DOMAIN metadata : Executed < k /\ k <= Executed + NrToProcess}
  <2>1. \A k \in DOMAIN metadata :
          k - 1 - job.first \in job.index .. job.index + NrToProcess - 1
            <=> Executed < k /\ k <= Executed + NrToProcess
    BY <1>1, <1>10, PlanSequences
  <2> QED BY <2>1 DEF Processed
<1> QED BY <1>5, <1>10, <1>12, <1>13 DEF left, rest

(* After an iteration, the next begins where it ended. *)
LEMMA IterationDone ==
  ASSUME TypeOK, BaselinesInv, JobInv, EventsInv, phase = "run", ~JobDone, NextSubgrids
  PROVE  /\ JobInv'
         /\ Executed' = Executed + NrToProcess
<1>1. /\ job.index \in Nat /\ job.nr \in Nat /\ job.index < job.nr
      /\ Executed = job.first + job.index /\ Executed \in Nat
      /\ job.first + job.nr = JobsEnd
      /\ job.first \in Nat /\ job.first = job.offset
  BY ExecutedBounds, PlanSequences DEF JobInv
<1> DEFINE next == job.index + NrToProcess
<1>2. next \in Nat /\ next <= job.nr
  BY <1>1, IterationFlow
<1>3. job' = [job EXCEPT !.index = next]
  BY DEF NextSubgrids
<1>4. JobsEnd' = JobsEnd /\ phase' = "run"
  BY DEF NextSubgrids, JobsEnd, Offset
<1>5. Executed + NrToProcess = job.first + next
  BY <1>1, IterationFlow
<1> HIDE DEF next
<1>6. job'.index = next /\ job'.nr = job.nr /\ job'.first = job.first /\ job'.offset = job.offset
  BY <1>3 DEF TypeOK, Job
<1>7. JobInv'
  BY <1>1, <1>2, <1>4, <1>6 DEF JobInv
<1>8. Executed' = job.first + next
  BY <1>1, <1>2, <1>4, <1>6 DEF Executed, JobDone
<1> QED BY <1>5, <1>7, <1>8

-----------------------------------------------------------------------------
(* ControlInv is inductive. *)

(* A new proxy has no plan and no events. *)
LEMMA ControlInit == Init => ControlInv
<1> SUFFICES ASSUME Init PROVE ControlInv
  OBVIOUS
<1>1. /\ phase = "new" /\ mode = "gridding" /\ metadata = <<>> /\ events = <<>> /\ reads = {}
      /\ flushSet = <<>> /\ initializeSet = <<>>
  BY DEF Init, EmptyCache
<1>2. PhaseInv /\ BaselinesInv /\ JobInv
  BY <1>1 DEF PhaseInv, BaselinesInv, JobInv
<1>3. CacheLogsInv
  BY <1>1, LogEmpty DEF CacheLogsInv, LastActive
<1>4. EventsInv
  BY <1>1, LogEmpty DEF EventsInv
<1> QED BY <1>2, <1>3, <1>4 DEF ControlInv

(* Between plans there is nothing to keep in order. *)
LEMMA ControlBetweenPlans ==
  ASSUME metadata' = <<>>, events' = <<>>, flushSet' = <<>>, initializeSet' = <<>>,
         reads' = {}, phase' \notin {"plan", "run"}, phase' = "final" => mode' = "gridding"
  PROVE  ControlInv'
<1>1. PhaseInv' /\ BaselinesInv' /\ JobInv'
  BY DEF PhaseInv, BaselinesInv, JobInv
<1>2. CacheLogsInv'
  BY LogEmpty DEF CacheLogsInv, LastActive
<1>3. EventsInv'
  BY LogEmpty DEF EventsInv
<1> QED BY <1>1, <1>2, <1>3 DEF ControlInv

(* A plan begins without subgrids and with an empty log. *)
LEMMA BeginPlanControl ==
  ASSUME TypeOK, ControlInv, BeginPlan
  PROVE  ControlInv'
<1> USE TileGriddingAssumption
<1>1. /\ phase' = "plan" /\ metadata' = <<>> /\ subgridOffset' = <<0>> /\ events' = <<>>
      /\ reads' = {} /\ flushSet' = <<>> /\ initializeSet' = <<>>
  BY DEF BeginPlan, wtilesVars, ControlInv, PhaseInv
<1>2. PhaseInv' /\ JobInv'
  BY <1>1 DEF PhaseInv, JobInv
<1>3. BaselinesInv'
  BY <1>1 DEF BaselinesInv
<1>4. CacheLogsInv'
  BY <1>1, LogEmpty DEF CacheLogsInv, LastActive
<1>5. EventsInv'
  BY <1>1, LogEmpty DEF EventsInv
<1> QED BY <1>2, <1>3, <1>4, <1>5 DEF ControlInv

(* A baseline with subgrids begins with channel group 0, as the first of    *)
(* its subgrids does and the later groups come after the first.             *)
LEMMA PlanSubgridControl ==
  ASSUME TypeOK, SlotsPartitioned, ControlInv, FirstGroupInRange,
         NEW c \in Coordinates, NEW g \in BOOLEAN, PlanSubgrid(c, g)
  PROVE  ControlInv'
<1> DEFINE n == Len(metadata)
           last == Len(subgridOffset)
           new == [wtile_coordinate |-> c, wtile_index |-> wtileId'[c], firstGroup |-> g]
<1>1. /\ phase = "plan" /\ phase' = "plan" /\ last <= NrBaselines
      /\ subgridOffset' = subgridOffset /\ events' = events /\ reads' = reads
      /\ metadata' = Append(metadata, new)
      /\ AddSubgrid(n, c)
      /\ IF g THEN \A m \in CurrentBaseline : m.firstGroup ELSE CurrentBaseline # {}
  BY DEF PlanSubgrid
<1>2. /\ DOMAIN metadata = 1 .. n /\ n \in Nat /\ last \in Nat
      /\ DOMAIN subgridOffset = 1 .. last
      /\ \A i \in DOMAIN subgridOffset : subgridOffset[i] \in Nat
  BY PlanSequences
<1>3. /\ DOMAIN metadata' = 1 .. n + 1 /\ Len(metadata') = n + 1
      /\ \A k \in 1 .. n : metadata'[k] = metadata[k]
      /\ metadata'[n + 1].firstGroup = g
  BY <1>1 DEF TypeOK
<1>4. PhaseInv'
  BY <1>1 DEF ControlInv, PhaseInv
<1>5. BaselinesInv'
  <2>1. /\ last \in 1 .. NrBaselines + 1
        /\ \A i, j \in DOMAIN subgridOffset : i <= j => subgridOffset[i] <= subgridOffset[j]
        /\ \A i \in DOMAIN subgridOffset : subgridOffset[i] <= n
        /\ subgridOffset[1] = 0
    BY <1>1 DEF ControlInv, BaselinesInv
  <2>8. last # NrBaselines + 1 /\ last >= 1
    <3>1. last <= NrBaselines /\ last \in Nat /\ NrBaselines \in Nat
      BY <1>1, <1>2, TileGriddingAssumption
    <3>2. last \in 1 .. NrBaselines + 1
      BY <2>1
    <3> HIDE DEF last
    <3> QED BY <3>1, <3>2
  <2>2. \A i \in DOMAIN subgridOffset : subgridOffset[i] <= n + 1
    BY <1>2, <2>1
  <2>3. ASSUME NEW k \in 1 .. n
        PROVE  \E i \in DOMAIN subgridOffset :
                 /\ subgridOffset[i] < k
                 /\ i < last => k <= subgridOffset[i + 1]
                 /\ metadata'[subgridOffset[i] + 1].firstGroup
    <3>1. PICK i \in DOMAIN subgridOffset :
            /\ subgridOffset[i] < k
            /\ i < last => k <= subgridOffset[i + 1]
            /\ metadata[subgridOffset[i] + 1].firstGroup
      BY <1>1, <1>2 DEF ControlInv, BaselinesInv
    <3>2. subgridOffset[i] + 1 \in 1 .. n
      BY <1>2, <3>1
    <3> QED BY <1>3, <3>1, <3>2
  <2>4. last \in DOMAIN subgridOffset /\ subgridOffset[last] < n + 1 /\ subgridOffset[last] <= n
    BY <1>2, <2>1, <2>8
  <2>5. metadata'[subgridOffset[last] + 1].firstGroup
    <3>1. CASE subgridOffset[last] = n
      <4>1. CurrentBaseline = {}
        BY <1>2, <3>1 DEF CurrentBaseline
      <4> QED BY <1>1, <1>3, <3>1, <4>1
    <3>2. CASE subgridOffset[last] < n
      <4>1. n \in DOMAIN metadata
        BY <1>2, <2>4, <3>2
      <4>2. PICK i \in DOMAIN subgridOffset :
              /\ subgridOffset[i] < n
              /\ i < last => n <= subgridOffset[i + 1]
              /\ metadata[subgridOffset[i] + 1].firstGroup
        BY <1>1, <4>1 DEF ControlInv, BaselinesInv
      <4>3. i = last
        <5>1. i < last => i + 1 \in DOMAIN subgridOffset /\ i + 1 <= last
          BY <1>2
        <5>2. i < last => subgridOffset[i + 1] <= subgridOffset[last]
          BY <2>1, <2>4, <5>1
        <5> QED BY <1>2, <2>4, <3>2, <4>2, <5>1, <5>2
      <4>4. subgridOffset[last] + 1 \in 1 .. n
        BY <1>2, <2>4, <3>2
      <4> QED BY <1>3, <4>2, <4>3, <4>4
    <3> QED BY <1>2, <2>4, <3>1, <3>2
  <2>6. \A k \in 1 .. n + 1 : k \in 1 .. n \/ k = n + 1
    BY <1>2
  <2>7. \A k \in 1 .. n + 1 : \E i \in DOMAIN subgridOffset :
          /\ subgridOffset[i] < k
          /\ i < last => k <= subgridOffset[i + 1]
          /\ metadata'[subgridOffset[i] + 1].firstGroup
    BY <2>3, <2>4, <2>5, <2>6
  <2> HIDE DEF n, last, new
  <2> QED BY <1>1, <1>3, <2>1, <2>2, <2>7, <2>8 DEF BaselinesInv, last
<1>6. JobInv'
  BY <1>1 DEF JobInv
<1>7. CacheLogsInv'
  <2>1. WTilesTypeOK /\ n \in Nat
    BY <1>2 DEF TypeOK
  <2>2. LogInOrder(flushSet', n + 1)
    BY <1>1, <2>1, AddSubgridFlushSet DEF ControlInv, CacheLogsInv
  <2>3. LogInOrder(initializeSet', n + 1) /\ LastActive'
    BY <1>1, <2>1, AddSubgridInitializeSet DEF ControlInv, CacheLogsInv
  <2> QED BY <1>3, <2>2, <2>3 DEF CacheLogsInv
<1>8. EventsInv'
  <2>1. events' = <<>>
    BY <1>1 DEF ControlInv, PhaseInv
  <2> QED BY <2>1, LogEmpty DEF EventsInv
<1> QED BY <1>4, <1>5, <1>6, <1>7, <1>8 DEF ControlInv

(* The subgrids of a baseline end where those of the next begin. *)
LEMMA FinishBaselineControl ==
  ASSUME TypeOK, ControlInv, FinishBaseline
  PROVE  ControlInv'
<1> USE TileGriddingAssumption
<1> DEFINE n == Len(metadata)
           last == Len(subgridOffset)
<1>1. /\ phase = "plan" /\ phase' = "plan" /\ last <= NrBaselines
      /\ subgridOffset' = Append(subgridOffset, n) /\ metadata' = metadata
      /\ UNCHANGED <<events, reads, flushSet, initializeSet, wtileId>>
  BY DEF FinishBaseline, wtilesVars
<1>2. /\ n \in Nat /\ last \in Nat
      /\ DOMAIN subgridOffset = 1 .. last
      /\ \A i \in DOMAIN subgridOffset : subgridOffset[i] \in Nat
      /\ DOMAIN metadata = 1 .. n
  BY PlanSequences
<1>3. /\ DOMAIN subgridOffset' = 1 .. last + 1 /\ Len(subgridOffset') = last + 1
      /\ \A i \in 1 .. last : subgridOffset'[i] = subgridOffset[i]
      /\ subgridOffset'[last + 1] = n
  BY <1>1, <1>2, Appended DEF TypeOK
<1>4. BaselinesInv'
  <2>1. /\ last \in 1 .. NrBaselines + 1
        /\ \A i, j \in 1 .. last : i <= j => subgridOffset[i] <= subgridOffset[j]
        /\ \A i \in 1 .. last : subgridOffset[i] <= n
        /\ subgridOffset[1] = 0
    BY <1>1, <1>2 DEF ControlInv, BaselinesInv
  <2> DEFINE so == subgridOffset'
  <2>2. /\ DOMAIN so = 1 .. last + 1 /\ Len(so) = last + 1
        /\ \A i \in 1 .. last : so[i] = subgridOffset[i]
        /\ so[last + 1] = n
    BY <1>3
  <2> HIDE DEF so
  <2>3. Len(so) \in 1 .. NrBaselines + 1 /\ so[1] = 0
    BY <1>1, <1>2, <2>1, <2>2
  <2>4. \A i, j \in DOMAIN so : i <= j => so[i] <= so[j]
    BY <1>2, <2>1, <2>2
  <2>5. \A i \in DOMAIN so : so[i] <= n
    BY <1>2, <2>1, <2>2
  <2>6. \A k \in 1 .. n : \E i \in DOMAIN so :
          /\ so[i] < k
          /\ i < Len(so) => k <= so[i + 1]
          /\ metadata[so[i] + 1].firstGroup
    <3> SUFFICES ASSUME NEW k \in 1 .. n
                 PROVE  \E i \in DOMAIN so : /\ so[i] < k
                                             /\ i < Len(so) => k <= so[i + 1]
                                             /\ metadata[so[i] + 1].firstGroup
      OBVIOUS
    <3>1. PICK i \in 1 .. last :
            /\ subgridOffset[i] < k
            /\ i < last => k <= subgridOffset[i + 1]
            /\ metadata[subgridOffset[i] + 1].firstGroup
      BY <1>1, <1>2 DEF ControlInv, BaselinesInv
    <3>2. k <= so[i + 1]
      <4>1. CASE i < last
        BY <1>2, <2>2, <3>1, <4>1
      <4>2. CASE i = last
        BY <1>2, <2>2, <4>2
      <4>3. last \in Nat
        BY <1>2
      <4> HIDE DEF last
      <4>4. i < last \/ i = last
        BY <4>3
      <4> QED BY <4>1, <4>2, <4>4
    <3> QED BY <1>2, <2>2, <3>1, <3>2
  <2> HIDE DEF n, last
  <2>7. Len(so) = NrBaselines + 1 => so[Len(so)] = n
    BY <2>2
  <2> QED BY <1>1, <1>2, <2>3, <2>4, <2>5, <2>6, <2>7 DEF BaselinesInv, so, n
<1>5. PhaseInv' /\ JobInv'
  BY <1>1 DEF ControlInv, PhaseInv, JobInv
<1>6. CacheLogsInv'
  BY <1>1 DEF ControlInv, CacheLogsInv, LastActive
<1>7. EventsInv'
  <2>1. events' = <<>>
    BY <1>1 DEF ControlInv, PhaseInv
  <2> QED BY <2>1, LogEmpty DEF EventsInv
<1> QED BY <1>4, <1>5, <1>6, <1>7 DEF ControlInv

(* The events that a call takes are those that the cache logged, in order, *)
(* and nothing was executed yet.                                           *)
LEMMA FinishPlanControl ==
  ASSUME TypeOK, ControlInv, FinishPlan
  PROVE  ControlInv' /\ Executed' = 0 /\ JobsEnd' = 0
<1> USE TileGriddingAssumption
<1>1. /\ phase = "plan" /\ phase' = "run" /\ Len(subgridOffset) = NrBaselines + 1
      /\ flushSet' = <<>> /\ initializeSet' = <<>>
      /\ events' = IF mode = "gridding" THEN flushSet ELSE initializeSet
      /\ bl' = 0 /\ job' = NoJob
      /\ UNCHANGED <<mode, metadata, subgridOffset, reads>>
  BY DEF FinishPlan, TakeUpdateSets
<1>2. PhaseInv'
  BY <1>1 DEF ControlInv, PhaseInv
<1>3. BaselinesInv'
  BY <1>1 DEF ControlInv, BaselinesInv
<1>4. job'.index = 0 /\ job'.nr = 0 /\ job'.first = 0
  BY <1>1 DEF NoJob
<1>5. JobInv'
  BY <1>4 DEF JobInv
<1>6. CacheLogsInv'
  BY <1>1, LogEmpty DEF CacheLogsInv, LastActive
<1>7. JobsEnd' = 0
  <2>1. JobsEnd' = subgridOffset[1]
    BY <1>1 DEF JobsEnd, Offset
  <2> QED BY <1>1, <2>1 DEF ControlInv, BaselinesInv
<1>8. Executed' = 0
  BY <1>1, <1>4, <1>7 DEF Executed, JobDone
<1>9. EventsInv'
  <2>1. flushSet \in Seq(UpdateInfo) /\ initializeSet \in Seq(UpdateInfo)
    BY DEF TypeOK, WTilesTypeOK
  <2>2. events' \in Seq(UpdateInfo) /\ LogInOrder(events', Len(metadata))
    BY <1>1, <2>1 DEF ControlInv, CacheLogsInv
  <2>3. \A j \in DOMAIN events' : 0 <= events'[j].subgrid_index
    <3> DEFINE es == events'
    <3>1. es \in Seq(UpdateInfo)
      BY <2>2
    <3> HIDE DEF es
    <3>2. \A j \in DOMAIN es : 0 <= es[j].subgrid_index
      BY <3>1, LogElements
    <3> QED BY <3>2 DEF es
  <2> QED BY <1>1, <1>8, <2>2, <2>3 DEF EventsInv
<1> QED BY <1>2, <1>3, <1>5, <1>6, <1>7, <1>8, <1>9 DEF ControlInv

(* The next job goes on where the last one ended. *)
LEMMA StartJobControl ==
  ASSUME TypeOK, ControlInv, StartJob
  PROVE  ControlInv' /\ Executed' = Executed
<1>1. JobInv' /\ Executed' = Executed
  BY StartJobFlow DEF ControlInv
<1>2. UNCHANGED <<phase, mode, metadata, subgridOffset, events, reads, flushSet,
                  initializeSet, wtileId>>
  BY DEF StartJob, wtilesVars, planVars
<1>3. PhaseInv' /\ CacheLogsInv'
  BY <1>2 DEF ControlInv, PhaseInv, CacheLogsInv, LastActive
<1>4. BaselinesInv'
  BY <1>2 DEF ControlInv, BaselinesInv
<1>5. EventsInv'
  BY <1>1, <1>2 DEF ControlInv, EventsInv
<1> QED BY <1>1, <1>3, <1>4, <1>5 DEF ControlInv

(* An iteration executes what comes before the next event. *)
LEMMA IterationControl ==
  ASSUME TypeOK, ControlInv, phase = "run", ~JobDone, NextSubgrids
  PROVE  ControlInv' /\ Executed' = Executed + NrToProcess
<1>1. JobInv' /\ Executed' = Executed + NrToProcess
  BY IterationDone DEF ControlInv
<1>2. /\ UNCHANGED <<phase, mode, metadata, subgridOffset, flushSet, initializeSet, wtileId>>
      /\ events' = EventsAfterDue
  BY DEF NextSubgrids, wtilesVars
<1>3. PhaseInv' /\ CacheLogsInv'
  BY <1>2 DEF ControlInv, PhaseInv, CacheLogsInv, LastActive
<1>4. BaselinesInv'
  BY <1>2 DEF ControlInv, BaselinesInv
<1>5. EventsInv'
  BY <1>1, <1>2, IterationFlow DEF ControlInv, EventsInv
<1> QED BY <1>1, <1>3, <1>4, <1>5 DEF ControlInv

(* The control stays in order, whatever the proxy does. *)
LEMMA ControlStep ==
  ASSUME FirstGroupInRange, TypeOK, SlotsPartitioned, ControlInv, [Next]_vars
  PROVE  ControlInv'
<1>1. ASSUME NEW m \in Modes, InitCache(m) PROVE ControlInv'
  <2>1. /\ metadata = <<>> /\ events = <<>> /\ metadata' = metadata /\ events' = events
        /\ flushSet' = <<>> /\ initializeSet' = <<>> /\ reads' = {} /\ phase' = "idle"
    BY <1>1 DEF InitCache, NewCache, planVars, ControlInv, PhaseInv
  <2> QED BY <2>1, ControlBetweenPlans
<1>2. CASE SetImage
  <2>1. /\ phase = "idle" /\ phase' = "idle"
        /\ UNCHANGED <<metadata, events, flushSet, initializeSet, reads>>
    BY <1>2 DEF SetImage, planVars, wtilesVars
  <2>2. /\ metadata' = <<>> /\ events' = <<>> /\ flushSet' = <<>> /\ initializeSet' = <<>>
        /\ reads' = {}
    BY <2>1 DEF ControlInv, PhaseInv
  <2> QED BY <2>1, <2>2, ControlBetweenPlans
<1>3. CASE BeginPlan
  BY <1>3, BeginPlanControl
<1>4. ASSUME NEW c \in Coordinates, NEW g \in BOOLEAN, PlanSubgrid(c, g)
      PROVE  ControlInv'
  BY <1>4, PlanSubgridControl
<1>5. CASE FinishBaseline
  BY <1>5, FinishBaselineControl
<1>6. CASE FinishPlan
  BY <1>6, FinishPlanControl
<1>7. CASE StartJob
  BY <1>7, StartJobControl
<1>8. CASE AdderIteration
  BY <1>8, IterationControl DEF AdderIteration
<1>9. CASE SplitterIteration
  BY <1>9, IterationControl DEF SplitterIteration
<1>10. CASE EndRun
  <2>1. /\ metadata' = <<>> /\ events' = <<>> /\ reads' = {} /\ phase' = "idle"
        /\ flushSet' = <<>> /\ initializeSet' = <<>>
    BY <1>10 DEF EndRun, wtilesVars, ControlInv, PhaseInv
  <2> QED BY <2>1, ControlBetweenPlans
<1>11. CASE GetFinalGrid
  <2>1. /\ phase' = "final" /\ mode' = "gridding" /\ metadata' = <<>> /\ events' = <<>>
        /\ flushSet' = <<>> /\ initializeSet' = <<>> /\ reads' = {}
    BY <1>11 DEF GetFinalGrid, ClearWtiles, planVars, ControlInv, PhaseInv
  <2> QED BY <2>1, ControlBetweenPlans
<1>12. CASE UNCHANGED vars
  <2>1. UNCHANGED <<phase, mode, metadata, subgridOffset, events, reads, flushSet,
                    initializeSet, wtileId, bl, job>>
    BY <1>12 DEF vars, wtilesVars, planVars, jobVars
  <2>2. PhaseInv' /\ CacheLogsInv'
    BY <2>1 DEF ControlInv, PhaseInv, CacheLogsInv, LastActive
  <2>3. BaselinesInv'
    BY <2>1 DEF ControlInv, BaselinesInv
  <2>4. JobsEnd' = JobsEnd /\ Executed' = Executed
    BY <2>1 DEF Executed, JobDone, JobsEnd, Offset
  <2>5. JobInv'
    BY <2>1, <2>4 DEF ControlInv, JobInv
  <2>6. EventsInv'
    BY <2>1, <2>4 DEF ControlInv, EventsInv
  <2> QED BY <2>2, <2>3, <2>5, <2>6 DEF ControlInv
<1> QED BY <1>1, <1>2, <1>3, <1>4, <1>5, <1>6, <1>7, <1>8, <1>9, <1>10, <1>11, <1>12
        DEF Next, RunStep

(* When the last job is done, every event was applied. *)
LEMMA AllApplied ==
  ASSUME TypeOK, ControlInv, phase = "run", JobDone, bl >= NrBaselines
  PROVE  events = <<>> /\ Executed = Len(metadata)
<1>1. Executed = Len(metadata) /\ Len(metadata) \in Nat
  <2>1. JobsEnd = Len(metadata)
    BY ExecutedBounds DEF ControlInv
  <2> QED BY <2>1, PlanSequences DEF Executed
<1>2. SUFFICES ASSUME events # <<>> PROVE FALSE
  BY <1>1
<1>3. 1 \in DOMAIN events
  BY <1>2 DEF TypeOK
<1>4. Executed <= events[1].subgrid_index /\ events[1].subgrid_index < Len(metadata)
      /\ events[1].subgrid_index \in Nat
  BY <1>3, PlanSequences DEF ControlInv, EventsInv, LogInOrder
<1> QED BY <1>1, <1>4

-----------------------------------------------------------------------------
(* The control of plans and jobs is invariant, provided that no baseline    *)
(* has subgrids of later channel groups only (the known divergence of       *)
(* Plan::initialize_job, which run skipped_baseline shows).              *)
THEOREM ControlInvariant ==
  ASSUME FirstGroupInRange
  PROVE  Spec => []ControlInv
<1>1. Init => ControlInv
  BY ControlInit
<1>2. TypeOK /\ SlotsPartitioned /\ ControlInv /\ [Next]_vars => ControlInv'
  BY ControlStep
<1> QED BY <1>1, <1>2, TypeCorrect, SlotsStayPartitioned, PTL DEF Spec

(* A call of do_gridding or do_degridding never stops in the loop over a    *)
(* job, whatever the memory, the plan and the events.                       *)
THEOREM CallsAlwaysProgress ==
  ASSUME FirstGroupInRange
  PROVE  Spec => []CallsProgress
<1>1. TypeOK /\ ControlInv => CallsProgress
  BY IterationFlow DEF ControlInv, CallsProgress
<1>2. Spec => []ControlInv
  BY ControlInvariant
<1> QED BY <1>1, <1>2, TypeCorrect, PTL

(* No update event is left over when a call returns. *)
THEOREM AllEventsApplied ==
  ASSUME FirstGroupInRange
  PROVE  Spec => []EventsAllApplied
<1>1. TypeOK /\ ControlInv => EventsAllApplied
  BY AllApplied DEF EventsAllApplied
<1>2. Spec => []ControlInv
  BY ControlInvariant
<1> QED BY <1>1, <1>2, TypeCorrect, PTL

(* Plan::initialize_job leaves out only baselines without subgrids. *)
THEOREM JobsSkipNothing ==
  ASSUME FirstGroupInRange
  PROVE  Spec => OnlyEmptyBaselinesSkipped
<1> DEFINE A == StartJob => job'.nr = Offset(IF bl' < NrBaselines THEN bl' ELSE NrBaselines)
                                        - Offset(bl)
<1>1. TypeOK /\ ControlInv /\ [Next]_vars => [A]_vars
  <2> SUFFICES ASSUME TypeOK, ControlInv, StartJob PROVE A
    OBVIOUS
  <2>1. job'.nr = JobsEnd' - Offset(bl)
    BY StartJobFlow DEF ControlInv
  <2>2. JobsEnd' = Offset(IF bl' < NrBaselines THEN bl' ELSE NrBaselines)
    BY DEF StartJob, planVars, JobsEnd, Offset
  <2> QED BY <2>1, <2>2
<1>2. Spec => []ControlInv
  BY ControlInvariant
<1> QED BY <1>1, <1>2, TypeCorrect, PTL DEF Spec, OnlyEmptyBaselinesSkipped
=============================================================================
