------------------------------- MODULE Planning ------------------------------
(***************************************************************************)
(* Plan::initialize: the visibilities of every baseline are distributed    *)
(* over subgrids by one thread per baseline, the subgrids are combined     *)
(* into one list, and each asks the W-tile cache for its tile.             *)
(*                                                                         *)
(* Coordinates are whole pixels and w layers: a visibility at (u, v, w) is *)
(* at u * f, v * f, w * f for the frequency f of its channel.  Samples     *)
(* that were not measured are Infinite.                                    *)
(***************************************************************************)
EXTENDS WTiles, SequencesExt

CONSTANTS
  Rows,          (* the uvws a baseline may have: sequences over time            *)
  Infinite,      (* the uvw of a sample that was not measured                    *)
  NrBaselines, NrTimesteps,
  Frequencies,   (* of the channels, in units that make uvws pixels              *)
  KernelSize, SubgridSize, GridSize, WtileSize,
  WStep, NrWLayers,
  MaxTimesteps,  (* options.max_nr_timesteps_per_subgrid, 0 for no limit         *)
  MaxChannels,   (* options.max_nr_channels_per_subgrid, 0 for no limit          *)
  AtermOffsets,
  MaxPlans       (* bound on the plans made with one cache                       *)

ASSUME PlanningAssumption ==
  /\ NrBaselines \in Nat \ {0}
  /\ NrTimesteps \in Nat \ {0}
  /\ \A row \in Rows : row \in [1 .. NrTimesteps -> {Infinite} \cup [u : Int, v : Int, w : Int]]
  /\ Infinite \notin [u : Int, v : Int, w : Int]
  /\ <<>> \notin Rows
  /\ Frequencies \in Seq(Nat) /\ Frequencies # <<>>
  /\ KernelSize \in Nat \ {0} /\ SubgridSize \in Nat /\ GridSize \in Nat
  /\ KernelSize < SubgridSize /\ SubgridSize < GridSize
  /\ WtileSize \in Nat \ {0}
  /\ WStep \in Nat \ {0} /\ NrWLayers \in Nat
  /\ MaxTimesteps \in Nat /\ MaxChannels \in Nat
  /\ AtermOffsets[1] = 0 /\ Last(AtermOffsets) = NrTimesteps
  /\ MaxPlans \in Nat

VARIABLES
  phase,       (* see Phases *)
  strict,      (* options.plan_strict                                          *)
  uvw,         (* the uvws of each baseline, <<>> where antenna1 = antenna2    *)
  channelBegin,(* per baseline: channel_begin, all channels when it is done    *)
  timeOffset,  (* per baseline: time_offset                                    *)
  rows,        (* metadata_ as it is in memory: row major, one row a baseline  *)
  nrSubgrids,  (* nr_subgrids_per_baseline                                     *)
  metadata,    (* metadata      *)
  offsets,     (* subgrid_offset, one entry per baseline + the sentinel        *)
  nrPlans,     (* counts the plans                                             *)
  requests     (* history: the tiles requested since the cache was empty       *)

threadVars == <<channelBegin, timeOffset, rows, nrSubgrids>>
inputVars == <<strict, uvw, nrPlans>>
listVars == <<metadata, offsets>>
vars == <<wtilesVars, phase, threadVars, inputVars, listVars, requests>>

Phases == {"idle", "split", "combine", "planned", "failed"}
Baselines == 0 .. NrBaselines - 1
Timesteps == 0 .. NrTimesteps - 1
NrChannels == Len(Frequencies)

-----------------------------------------------------------------------------
(* Channel groups.  Channels count from 0. *)

Uvw(row, t) == row[t + 1]
Measured(row, t) == Uvw(row, t) # Infinite

(* time_offset0 *)
FirstTimestep(row) ==
  LET measured == {t \in Timesteps : Measured(row, t)}
  IN  IF measured = {} THEN NrTimesteps ELSE Min(measured)

RowsWithData == {row \in Rows : FirstTimestep(row) < NrTimesteps}

Square(x) == x * x

(* A baseline of this length crosses more pixels between the channels than *)
(* two thirds of what a subgrid leaves beside the kernel.                  *)
SpansTooMuch(row, begin, channel) ==
  LET at == Uvw(row, FirstTimestep(row))
      length2 == Square(at.u) + Square(at.v) + Square(at.w)
  IN  9 * length2 * Square(Frequencies[begin + 1] - Frequencies[channel + 1])
        > 4 * Square(SubgridSize - KernelSize)

(* make_channel_groups: the end of the group that begins here. *)
GroupEnd(row, begin) ==
  Min({NrChannels} \cup
      {channel \in begin + 1 .. NrChannels - 1 :
         \/ SpansTooMuch(row, begin, channel)
         \/ MaxChannels > 0 /\ channel - begin + 1 > MaxChannels})

-----------------------------------------------------------------------------
(* class Subgrid *)

Pixel(row, t, channel) ==
  LET f == Frequencies[channel + 1]
  IN  [u |-> Uvw(row, t).u * f, v |-> Uvw(row, t).v * f]

(* The layer of a timestep, taken from the first channel of the group. *)
WIndex(row, t, begin) == (Uvw(row, t).w * Frequencies[begin + 1]) \div WStep

Abs(x) == IF x < 0 THEN -x ELSE x
Distance(p, q) == Max({Abs(p.u - q.u), Abs(p.v - q.v)})

(* The width of the points and the kernel are less than a subgrid. *)
Fits(points) ==
  \A p, q \in points : Distance(p, q) + KernelSize < SubgridSize

(* The points of n timesteps: of the first and of the last channel. *)
Added(row, begin, first, n) ==
  {Pixel(row, t, channel) : t \in first .. first + n - 1,
                          channel \in {begin, GroupEnd(row, begin) - 1}}

(* add_visibility accepts the first channel of this timestep. *)
FirstChannelFits(row, begin, first, n) ==
  LET t == first + n
  IN  /\ t < NrTimesteps
      /\ Measured(row, t)
      /\ n > 0 => WIndex(row, t, begin) = WIndex(row, first, begin)
      /\ Fits(Added(row, begin, first, n) \cup {Pixel(row, t, begin)})

(* Mutation of TimestepFits: only the first channel is tried. *)
TimestepFitsFirst(row, begin, first, n) ==
  FirstChannelFits(row, begin, first, n)

(* add_visibility accepts both channels. *)
TimestepFits(row, begin, first, n) ==
  /\ FirstChannelFits(row, begin, first, n)
  /\ Fits(Added(row, begin, first, n + 1))

(* max_nr_timesteps_per_subgrid *)
Limit == Min({MaxTimesteps, NrTimesteps})

(* nr_timesteps_subgrid: timesteps are added until one does not fit or the *)
(* limit, which is at most the number of timesteps, is reached.            *)
NrTimestepsSubgrid(row, begin, first) ==
  Max({n \in 0 .. Min({NrTimesteps - first} \cup (IF Limit = 0 THEN {} ELSE {Limit})) :
         \A k \in 0 .. n - 1 : TimestepFits(row, begin, first, k)})

(* What the subgrid's limits were taken over: when the limit of timesteps is *)
(* not reached, also the first channel of the timestep that did not fit.     *)
Extent(row, begin, first, n) ==
  Added(row, begin, first, n) \cup
  (IF n # Limit /\ FirstChannelFits(row, begin, first, n)
   THEN {Pixel(row, first + n, begin)} ELSE {})

(* roundf(sum / 2): half away from zero *)
RoundHalf(sum) == IF sum >= 0 THEN (sum + 1) \div 2 ELSE -((1 - sum) \div 2)

Middle(xs) == RoundHalf(Max(xs) + Min(xs))

(* Mutation of TileCoordinate: division rounds to zero, as integers do. *)
TileTruncated(x) == IF x >= 0 THEN x \div WtileSize ELSE -((-x) \div WtileSize)

TileCoordinate(x) == x \div WtileSize

(* compute_coordinate, for the limits of these points *)
Placed(points, w) ==
  LET u == Middle({p.u : p \in points})
      v == Middle({p.v : p \in points})
      corner(x) == x + (GridSize \div 2) - (SubgridSize \div 2)
  IN  [x |-> corner(u), y |-> corner(v), w |-> w,
       tile |-> <<TileCoordinate(u), TileCoordinate(v), w>>]

(* The subgrid is empty: no timestep fits. *)
NotPlaced == [x |-> 0, y |-> 0, w |-> 0, tile |-> <<0, 0, 0>>]

(* The subgrid of a channel group that starts at this timestep.  A table, for *)
(* TLC to compute once.                                                       *)
Subgrid ==
  [row \in RowsWithData |-> [begin \in 0 .. NrChannels - 1 |-> [first \in Timesteps |->
     LET n == NrTimestepsSubgrid(row, begin, first)
     IN  [time |-> first, nrTimesteps |-> n,
          begin |-> begin, end |-> GroupEnd(row, begin),
          at |-> IF n = 0 THEN NotPlaced
                 ELSE Placed(Extent(row, begin, first, n), WIndex(row, first, begin))]]]]

(* Mutation of InRange: the negative layers are forgotten. *)
InRangePositive(s) ==
  /\ Min({s.at.x, s.at.y}) >= 1
  /\ Max({s.at.x, s.at.y}) <= GridSize - SubgridSize
  /\ s.at.w \in 0 .. NrWLayers - 1

InRange(s) ==
  /\ Min({s.at.x, s.at.y}) >= 1
  /\ Max({s.at.x, s.at.y}) <= GridSize - SubgridSize
  /\ s.at.w \in -NrWLayers .. NrWLayers - 1

(* The cache knows the tile of every place that is in range. *)
ASSUME TilesAssumption ==
  \A x, y \in 1 .. GridSize - SubgridSize, w \in -NrWLayers .. NrWLayers - 1 :
    LET tile(corner) == TileCoordinate(corner + (SubgridSize \div 2) - (GridSize \div 2))
    IN  <<tile(x), tile(y), w>> \in Coordinates

-----------------------------------------------------------------------------
(* The loop over the baselines, a thread for each. *)

(* Mutation of Columns: no room for every channel to be a group. *)
ColumnsOfOneGroup ==
  IF Limit > 0 THEN (NrTimesteps + Limit) \div Limit + 1 ELSE NrTimesteps

(* The columns of metadata_, in which a baseline has its row. *)
Columns ==
  NrChannels * (IF Limit > 0 THEN (NrTimesteps + Limit) \div Limit + 1 ELSE NrTimesteps)

Init ==
  /\ EmptyCache
  /\ phase = "idle"
  /\ strict = FALSE
  /\ uvw = [b \in Baselines |-> <<>>]
  /\ channelBegin = [b \in Baselines |-> 0]
  /\ timeOffset = [b \in Baselines |-> 0]
  /\ rows = <<>>
  /\ nrSubgrids = [b \in Baselines |-> 0]
  /\ metadata = <<>>
  /\ offsets = <<>>
  /\ nrPlans = 0
  /\ requests = <<>>

(* The proxy asks for a plan of new data. *)
BeginPlan ==
  /\ phase \in {"idle", "planned"}
  /\ nrPlans < MaxPlans
  /\ nrPlans' = nrPlans + 1
  /\ strict' \in BOOLEAN
  /\ uvw' \in [Baselines -> Rows \cup {<<>>}]
  /\ phase' = "split"
  /\ channelBegin' = [b \in Baselines |-> 0]
  /\ timeOffset' = [b \in Baselines |-> IF uvw'[b] = <<>> THEN 0 ELSE FirstTimestep(uvw'[b])]
  /\ rows' = <<>>
  /\ nrSubgrids' = [b \in Baselines |-> 0]
  /\ metadata' = <<>>
  /\ offsets' = <<>>
  /\ UNCHANGED <<wtilesVars, requests>>

HasData(b) == uvw[b] \in RowsWithData
Done(b) == ~HasData(b) \/ channelBegin[b] = NrChannels

(* Mutation of Advance: a timestep that does not fit is tried again. *)
AdvanceByTimesteps(b, n) ==
  IF timeOffset[b] + n < NrTimesteps
  THEN /\ timeOffset' = [timeOffset EXCEPT ![b] = @ + n]
       /\ UNCHANGED channelBegin
  ELSE /\ timeOffset' = [timeOffset EXCEPT ![b] = FirstTimestep(uvw[b])]
       /\ channelBegin' = [channelBegin EXCEPT ![b] = GroupEnd(uvw[b], @)]

(* To the next subgrid of the channel group, or to the next group. *)
Advance(b, n) ==
  LET next == timeOffset[b] + Max({n, 1})
  IN  IF next < NrTimesteps
      THEN /\ timeOffset' = [timeOffset EXCEPT ![b] = next]
           /\ UNCHANGED channelBegin
      ELSE /\ timeOffset' = [timeOffset EXCEPT ![b] = FirstTimestep(uvw[b])]
           /\ channelBegin' = [channelBegin EXCEPT ![b] = GroupEnd(uvw[b], @)]

(* The next subgrid of a baseline, none when the baseline is done. *)
NextSubgrid(b) ==
  IF phase = "split" /\ ~Done(b)
  THEN {Subgrid[uvw[b]][channelBegin[b]][timeOffset[b]]}
  ELSE {}

(* An empty subgrid: the timestep was not measured, or does not fit. *)
SkipTimestep(b) ==
  /\ ~(strict /\ Measured(uvw[b], timeOffset[b]))
  /\ Advance(b, 0)
  /\ UNCHANGED <<wtilesVars, phase, rows, nrSubgrids, inputVars, listVars, requests>>

(* Metadata; the last two are filled in when the rows are combined. *)
Metadata(b, s) == [baseline |-> b, subgrid |-> s, wtile |-> NoTile, nrAterms |-> -1]

(* metadata_(bl, subgrid_idx), which is not checked against the columns. *)
RowEntry(b) == b * Columns + nrSubgrids[b]

StoreSubgrid(b, s) ==
  /\ InRange(s)
  /\ rows' = [entry \in DOMAIN rows \cup {RowEntry(b)} |->
                IF entry = RowEntry(b) THEN Metadata(b, s) ELSE rows[entry]]
  /\ nrSubgrids' = [nrSubgrids EXCEPT ![b] = @ + 1]
  /\ Advance(b, s.nrTimesteps)
  /\ UNCHANGED <<wtilesVars, phase, inputVars, listVars, requests>>

DropSubgrid(b, s) ==
  /\ ~InRange(s)
  /\ ~strict
  /\ Advance(b, s.nrTimesteps)
  /\ UNCHANGED <<wtilesVars, phase, rows, nrSubgrids, inputVars, listVars, requests>>

(* An exception leaves the parallel loop: the program is over. *)
Throw ==
  /\ phase' = "failed"
  /\ UNCHANGED <<wtilesVars, threadVars, inputVars, listVars, requests>>

ThrowNotPlaced(b) == strict /\ Measured(uvw[b], timeOffset[b]) /\ Throw
ThrowOutOfRange(s) == strict /\ ~InRange(s) /\ Throw

-----------------------------------------------------------------------------
(* Combining the rows. *)

EndSplit ==
  /\ phase = "split"
  /\ \A b \in Baselines : Done(b)
  /\ phase' = "combine"
  /\ offsets' = <<0>>
  /\ UNCHANGED <<wtilesVars, threadVars, inputVars, metadata, requests>>

(* The baseline whose subgrids are appended, and its next subgrid. *)
CombineBaseline == Len(offsets) - 1
CombineIndex == Len(metadata) - Last(offsets)

AppendSubgrid ==
  /\ phase = "combine"
  /\ CombineBaseline < NrBaselines
  /\ CombineIndex < nrSubgrids[CombineBaseline]
  /\ LET m == rows[CombineBaseline * Columns + CombineIndex]
         tile == m.subgrid.at.tile
     IN  /\ AddSubgrid(Len(metadata), tile)
         /\ metadata' = Append(metadata, [m EXCEPT !.wtile = wtileId'[tile]])
         /\ requests' = Append(requests, tile)
  /\ UNCHANGED <<phase, threadVars, inputVars, offsets>>

AppendOffset ==
  /\ phase = "combine"
  /\ CombineBaseline < NrBaselines
  /\ CombineIndex = nrSubgrids[CombineBaseline]
  /\ offsets' = Append(offsets, Len(metadata))
  /\ UNCHANGED <<wtilesVars, phase, threadVars, inputVars, metadata, requests>>

(* aterm_indices: the timeslot of a timestep, the same for all baselines. *)
AtermIndex(t) ==
  CHOOSE k \in 1 .. Len(AtermOffsets) - 1 :
    AtermOffsets[k] <= t /\ t < AtermOffsets[k + 1]

(* nr_aterms: the changes of a-term within the subgrid, and one. *)
NrAterms(s) ==
  1 + Cardinality({t \in s.time + 1 .. s.time + s.nrTimesteps - 1 :
                     AtermIndex(t) # AtermIndex(t - 1)})

FinishPlan ==
  /\ phase = "combine"
  /\ CombineBaseline = NrBaselines
  /\ TakeUpdateSets
  /\ metadata' = [k \in DOMAIN metadata |->
                    [metadata[k] EXCEPT !.nrAterms = NrAterms(metadata[k].subgrid)]]
  /\ phase' = "planned"
  /\ UNCHANGED <<threadVars, inputVars, offsets, requests>>

(* get_final_grid between plans. *)
Clear ==
  /\ phase = "planned"
  /\ ClearWtiles
  /\ requests' = <<>>
  /\ UNCHANGED <<phase, threadVars, inputVars, listVars>>

Thread(b) ==
  \E s \in NextSubgrid(b) :
    IF s.nrTimesteps = 0
    THEN SkipTimestep(b) \/ ThrowNotPlaced(b)
    ELSE StoreSubgrid(b, s) \/ DropSubgrid(b, s) \/ ThrowOutOfRange(s)

Split == (\E b \in Baselines : Thread(b)) \/ EndSplit
Combine == AppendSubgrid \/ AppendOffset \/ FinishPlan

Next == BeginPlan \/ Split \/ Combine \/ Clear

(* Some thread of the parallel loop runs until all are done. *)
Fairness == WF_vars(Split)

Spec == Init /\ [][Next]_vars /\ Fairness

-----------------------------------------------------------------------------
(* The subgrid holds this visibility. *)
Holds(s, t, channel) ==
  /\ t \in s.time .. s.time + s.nrTimesteps - 1
  /\ channel \in s.begin .. s.end - 1

(* The group of a channel begins here. *)
GroupOf(row, channel) ==
  LET begin[c \in 0 .. channel] ==
        IF c > 0 /\ GroupEnd(row, begin[c - 1]) > c THEN begin[c - 1] ELSE c
  IN  begin[channel]

(* Whatever other visibilities share its subgrid, it is in the grid. *)
WellInside(row, t, channel) ==
  LET points == Added(row, GroupOf(row, channel), t, 1)
      margin == SubgridSize - KernelSize
  IN  /\ Fits(points)
      /\ WIndex(row, t, GroupOf(row, channel)) \in -NrWLayers .. NrWLayers - 1
      /\ \A x \in UNION {{p.u, p.v} : p \in points} :
           2 * Abs(x) + margin <= GridSize - SubgridSize - 2

(* Each visibility is gridded once: it is in at most one subgrid, though the *)
(* subgrids of a channel group are cut at other timesteps than those of the  *)
(* next; none that was measured is left out unless it can not be placed, and *)
(* a strict plan leaves out none at all ("throw error when visibilities do   *)
(* not fit onto subgrid", Plan.h:46).                                        *)
PlannedOnce ==
  phase = "planned" =>
    \A b \in Baselines, t \in Timesteps, channel \in 0 .. NrChannels - 1 :
      LET subgrids == {k \in DOMAIN metadata : /\ metadata[k].baseline = b
                                               /\ Holds(metadata[k].subgrid, t, channel)}
          measured == HasData(b) /\ Measured(uvw[b], t)
      IN  /\ Cardinality(subgrids) <= 1
          /\ subgrids # {} => measured
          /\ measured /\ (strict \/ WellInside(uvw[b], t, channel)) => subgrids # {}

(* A visibility lies far enough from the edge of its subgrid for its kernel, *)
(* although the middle of the subgrid is rounded, and is taken over a        *)
(* visibility that was tried last and does not belong to it; and it is in    *)
(* the w layer of its subgrid.                                               *)
KernelInSubgrid ==
  phase = "planned" => \A k \in DOMAIN metadata :
    LET row == uvw[metadata[k].baseline]
        s   == metadata[k].subgrid
        inside(x, corner) ==
          2 * Abs(x + (GridSize \div 2) - (corner + (SubgridSize \div 2)))
            <= SubgridSize - KernelSize
    IN  \A t \in Timesteps, channel \in 0 .. NrChannels - 1 :
          Holds(s, t, channel) =>
            /\ inside(Pixel(row, t, channel).u, s.at.x)
            /\ inside(Pixel(row, t, channel).v, s.at.y)
            /\ WIndex(row, t, s.begin) = s.at.w

(* The whole subgrid lies in its tile, which has half a subgrid of padding   *)
(* on each side: the adder and splitter of tiles clip nothing.               *)
SubgridInTile ==
  phase = "planned" => \A k \in DOMAIN metadata :
    LET at == metadata[k].subgrid.at
        inside(corner, tile) ==
          corner - (tile * WtileSize - (SubgridSize \div 2) + (GridSize \div 2))
            \in 0 .. WtileSize - 1
    IN  inside(at.x, at.tile[1]) /\ inside(at.y, at.tile[2])

(* The threads write to rows of their own of the one array: what a baseline  *)
(* reads back, and what lies between its offsets, are its own subgrids.      *)
OwnSubgrids ==
  /\ \A b \in Baselines : \A k \in 0 .. nrSubgrids[b] - 1 :
       rows[b * Columns + k].baseline = b
  /\ \A b \in 1 .. Len(offsets) - 1 :
       \A k \in offsets[b] + 1 .. offsets[b + 1] : metadata[k].baseline = b - 1

(* The other tiles requested after the last request of c. *)
RequestedSince(c) ==
  LET last == Max({k \in DOMAIN requests : requests[k] = c})
  IN  {requests[k] : k \in last + 1 .. Len(requests)}

(* The cache is an LRU cache (wstacking-wtiling.md:52), although it retires *)
(* a batch of tiles at a time and tells recency by a counter that it stores *)
(* in tiles which come and go: a tile is flushed only after more than       *)
(* BufferSize - NrRetire other tiles were used since its last use.          *)
RecentTilesStay ==
  \A c \in Range(requests) :
    Cardinality(RequestedSince(c)) <= BufferSize - NrRetire => wtileId[c] # NoTile

(* The kernels look only at the head of the queue of events, and apply at   *)
(* most one event per subgrid: the events of a plan must be at strictly     *)
(* increasing positions of the plan, and a tile that is flushed and filled  *)
(* again must be so by different events.                                    *)
EventsStrictlyOrdered ==
  \A es \in {flushSet, initializeSet} :
    \A k \in DOMAIN es :
      /\ es[k].subgrid_index < Len(metadata)
      /\ \A l \in DOMAIN es : k < l => es[k].subgrid_index < es[l].subgrid_index
      /\ \A t, u \in es[k].tiles : t[2] = u[2] => t = u

(* Every subgrid takes a timestep, or one is left out: no loop of a thread  *)
(* goes on for ever, and the parallel loop ends or throws.                   *)
SplitEnds == phase = "split" ~> phase \in {"combine", "failed"}
=============================================================================
