------------------------------- MODULE WTiles -------------------------------
(***************************************************************************)
(* The W-tile cache (idg-lib/src/common/WTiles.{h,cpp}).                   *)
(*                                                                         *)
(* The Plan asks the cache for a tile buffer slot for every subgrid, in    *)
(* the order in which the subgrids will be executed.  The cache maps tile  *)
(* coordinates to slots, retires the least recently used tiles when no     *)
(* slot is free, and logs what has to happen to the tile buffer as update  *)
(* events: which tiles to project onto the grid before a given subgrid     *)
(* (flush set, for gridding) and which to fill from the grid (initialize   *)
(* set, for degridding).                                                   *)
(*                                                                         *)
(* A tile coordinate that is not in m_wtile_map is one whose wtileId is    *)
(* NoTile, the id that a default-constructed WTileInfo has.                *)
(***************************************************************************)
EXTENDS Integers, FiniteSets, Sequences

CONSTANTS
  Coordinates,  (* tile coordinates (x, y, w layer) that visibilities can hit   *)
  BufferSize,   (* m_wtile_buffer_size: slots in the tile buffer                *)
  NrRetire,     (* ceil(m_wtile_buffer_size * m_update_fraction)                *)
  MaxSubgrids   (* bound on the subgrids added to one cache; below 2^31 so that *)
                (* the int last_access holds the size_t m_subgrid_count         *)

ASSUME WTilesAssumption ==
  /\ BufferSize \in Nat \ {0}
  /\ NrRetire \in 1 .. BufferSize
  /\ MaxSubgrids \in Nat

VARIABLES
  wtileId,        (* m_wtile_map[c].wtile_id, NoTile when c is not mapped *)
  lastAccess,     (* m_wtile_map[c].last_access, 0 when c is not mapped   *)
  freeWtiles,     (* m_free_wtiles *)
  subgridCount,   (* m_subgrid_count *)
  flushSet,       (* m_flush_set *)
  initializeSet   (* m_initialize_set *)

wtilesVars ==
  <<wtileId, lastAccess, freeWtiles, subgridCount, flushSet, initializeSet>>

NoTile == -1

TileIds == 0 .. (BufferSize - 1)

(* WTileUpdateInfo: the tiles to flush or initialize before subgrid_index. *)
UpdateInfo == [subgrid_index : Nat, tiles : SUBSET (Coordinates \X TileIds)]

(* The keys of m_wtile_map. *)
ActiveWtiles == {c \in Coordinates : wtileId[c] # NoTile}

(* The coordinates and ids of a set of active tiles, as an event lists them. *)
TilesOf(cs) == {<<c, wtileId[c]>> : c \in cs}

(* Mutations of LeastRecentlyUsed: the wrong end of the order, and an order  *)
(* that includes the entry of the new tile, which the map already holds when *)
(* get_new_wtile runs, as it would if last_access were updated afterwards.   *)
MostRecentlyUsed ==
  {c \in ActiveWtiles :
     Cardinality({d \in ActiveWtiles : lastAccess[d] > lastAccess[c]}) < NrRetire}

OrderWithNewTile ==
  {c \in Coordinates :
     Cardinality({d \in Coordinates : lastAccess[d] < lastAccess[c]}) < NrRetire}

(* The first NrRetire tiles in order of last access. *)
LeastRecentlyUsed ==
  {c \in ActiveWtiles :
     Cardinality({d \in ActiveWtiles : lastAccess[d] < lastAccess[c]}) < NrRetire}

EmptyCache ==
  /\ wtileId = [c \in Coordinates |-> NoTile]
  /\ lastAccess = [c \in Coordinates |-> 0]
  /\ freeWtiles = TileIds
  /\ subgridCount = 0
  /\ flushSet = <<>>
  /\ initializeSet = <<>>

-----------------------------------------------------------------------------
(* WTiles::add_subgrid(i, c); the slot it returns is wtileId'[c].  Its three *)
(* outcomes follow: the tile is active, a slot is free, tiles are retired.   *)

AccessActiveWtile(c) ==
  /\ wtileId[c] # NoTile
  /\ lastAccess' = [lastAccess EXCEPT ![c] = subgridCount]
  /\ UNCHANGED <<wtileId, freeWtiles, flushSet, initializeSet>>

(* Mutation of UseFreeWtile: m_initialize_set.front() for .back(). *)
UseFreeWtileFrontEvent(i, c) ==
  /\ wtileId[c] = NoTile
  /\ freeWtiles # {}
  /\ lastAccess' = [lastAccess EXCEPT ![c] = subgridCount]
  /\ \E id \in freeWtiles :
       /\ wtileId' = [wtileId EXCEPT ![c] = id]
       /\ freeWtiles' = freeWtiles \ {id}
       /\ initializeSet' =
            IF initializeSet = <<>>
            THEN <<[subgrid_index |-> i, tiles |-> {<<c, id>>}]>>
            ELSE [initializeSet EXCEPT ![1].tiles = @ \cup {<<c, id>>}]
  /\ UNCHANGED flushSet

(* The new tile joins the last initialize event, whose index may lie before *)
(* this subgrid: the slot has been free since that event.  Which free slot  *)
(* is popped is left open (the code pops the back of a vector).             *)
UseFreeWtile(i, c) ==
  /\ wtileId[c] = NoTile
  /\ freeWtiles # {}
  /\ lastAccess' = [lastAccess EXCEPT ![c] = subgridCount]
  /\ \E id \in freeWtiles :
       /\ wtileId' = [wtileId EXCEPT ![c] = id]
       /\ freeWtiles' = freeWtiles \ {id}
       /\ initializeSet' =
            IF initializeSet = <<>>
            THEN <<[subgrid_index |-> i, tiles |-> {<<c, id>>}]>>
            ELSE [initializeSet EXCEPT
                    ![Len(initializeSet)].tiles = @ \cup {<<c, id>>}]
  /\ UNCHANGED flushSet

RetireWtiles(i, c) ==
  /\ wtileId[c] = NoTile
  /\ freeWtiles = {}
  /\ LET retired == LeastRecentlyUsed
         ids     == {wtileId[r] : r \in retired}
     IN  \E id \in ids :
           /\ wtileId' = [x \in Coordinates |->
                            IF x = c THEN id
                            ELSE IF x \in retired THEN NoTile ELSE wtileId[x]]
           /\ lastAccess' = [x \in Coordinates |->
                               IF x = c THEN subgridCount
                               ELSE IF x \in retired THEN 0 ELSE lastAccess[x]]
           /\ freeWtiles' = ids \ {id}
           /\ flushSet' = Append(flushSet, [subgrid_index |-> i,
                                            tiles |-> TilesOf(retired)])
           /\ initializeSet' = Append(initializeSet, [subgrid_index |-> i,
                                                      tiles |-> {<<c, id>>}])

AddSubgrid(i, c) ==
  /\ subgridCount < MaxSubgrids
  /\ subgridCount' = subgridCount + 1
  /\ \/ AccessActiveWtile(c)
     \/ UseFreeWtile(i, c)
     \/ RetireWtiles(i, c)

(* get_flush_set and get_initialize_set move the events out to the Plan. *)
TakeUpdateSets ==
  /\ flushSet' = <<>>
  /\ initializeSet' = <<>>
  /\ UNCHANGED <<wtileId, lastAccess, freeWtiles, subgridCount>>

(* Mutation of ClearWtiles: the ids are not put back on the free list. *)
ClearWtilesKeepFree ==
  /\ wtileId' = [c \in Coordinates |-> NoTile]
  /\ lastAccess' = [c \in Coordinates |-> 0]
  /\ UNCHANGED <<freeWtiles, subgridCount, flushSet, initializeSet>>

(* WTiles::clear; the event it returns is TilesOf(ActiveWtiles). *)
ClearWtiles ==
  /\ freeWtiles' = freeWtiles \cup {wtileId[c] : c \in ActiveWtiles}
  /\ wtileId' = [c \in Coordinates |-> NoTile]
  /\ lastAccess' = [c \in Coordinates |-> 0]
  /\ UNCHANGED <<subgridCount, flushSet, initializeSet>>

(* m_wtiles = WTiles(...) in init_cache. *)
NewCache ==
  /\ wtileId' = [c \in Coordinates |-> NoTile]
  /\ lastAccess' = [c \in Coordinates |-> 0]
  /\ freeWtiles' = TileIds
  /\ subgridCount' = 0
  /\ flushSet' = <<>>
  /\ initializeSet' = <<>>

-----------------------------------------------------------------------------
WTilesTypeOK ==
  /\ wtileId \in [Coordinates -> TileIds \cup {NoTile}]
  /\ lastAccess \in [Coordinates -> Nat]
  /\ freeWtiles \in SUBSET TileIds
  /\ subgridCount \in Nat
  /\ flushSet \in Seq(UpdateInfo)
  /\ initializeSet \in Seq(UpdateInfo)

(* Every slot of the tile buffer is either free or holds the tile of exactly *)
(* one coordinate: subgrids of two tiles never share a slot (data of one     *)
(* would be projected with the phase of the other), and no slot is lost from *)
(* the free list however the cache retires, refills and clears.              *)
SlotsPartitioned ==
  /\ \A c, d \in ActiveWtiles : wtileId[c] = wtileId[d] => c = d
  /\ \A c \in ActiveWtiles : wtileId[c] \notin freeWtiles
  /\ TileIds = freeWtiles \cup {wtileId[c] : c \in ActiveWtiles}
=============================================================================
