-------------------------- MODULE TileBufferProofs --------------------------
(***************************************************************************)
(* The tile buffer stays in step with the cache that ran ahead of it.      *)
(*                                                                         *)
(* When it grids, nothing is lost, and gridding with W-tiles implements    *)
(* the accumulation of GridAccumulation.                                   *)
(* The invariant has two parts.  HeldInv: every subgrid that is in a tile, *)
(* or still to be added to one, is in the tile that the next flush of its  *)
(* slot or coordinate names.  CountInv: every subgrid that was planned is  *)
(* in the grid, in the one tile that holds its coordinate, or to come.     *)
(*                                                                         *)
(* When it degrids, every subgrid reads a tile that was cut from the grid  *)
(* that is set now, and what the cache holds for the next plan is in the   *)
(* buffer.  The invariant, FillInv, follows every slot to the last         *)
(* initialization that is due before a subgrid reads it, of those that are *)
(* still to be applied.  The delicate step is that of a tile that joins    *)
(* the last initialization of the log although its subgrid comes later:    *)
(* FreeSince says that no subgrid in between uses a slot that is free.     *)
(***************************************************************************)
EXTENDS TileGriddingProofs

-----------------------------------------------------------------------------
(* Gridding: which tile is flushed with what is added to a slot. *)

(* No event before number j that is due after y subgrids names c or t. *)
Untouched(es, c, t, y, j) ==
  \A i \in DOMAIN es : i < j /\ es[i].subgrid_index >= y =>
    \A p \in es[i].tiles : p[1] # c /\ p[2] # t

(* What is added to slot t for coordinate c after y subgrids will be flushed *)
(* for c: the first of the events es that is due later and names either is   *)
(* a flush of this tile, or there is none and ids, the cache, holds it.      *)
HeldBy(es, ids, c, t, y) ==
  \/ ids[c] = t /\ Untouched(es, c, t, y, Len(es) + 1)
  \/ \E j \in DOMAIN es :
       es[j].subgrid_index >= y /\ <<c, t>> \in es[j].tiles /\ Untouched(es, c, t, y, j)

(* Two tiles that are held have different coordinates and different slots. *)
LEMMA HeldUnique ==
  ASSUME NEW es \in Seq(UpdateInfo), NEW n, LogInOrder(es, n),
         NEW ids, \A a, b \in Coordinates : ids[a] = ids[b] /\ ids[a] # NoTile => a = b,
         NEW c \in Coordinates, NEW d \in Coordinates,
         NEW t \in TileIds, NEW u \in TileIds, NEW y,
         HeldBy(es, ids, c, t, y), HeldBy(es, ids, d, u, y), c = d \/ t = u
  PROVE  c = d /\ t = u
<1>1. DOMAIN es = 1 .. Len(es) /\ Len(es) \in Nat
  BY LogElements
<1>2. t # NoTile /\ u # NoTile
  BY DEF TileIds, NoTile
<1>3. \A j \in DOMAIN es : j < Len(es) + 1
  BY <1>1
<1>4. /\ <<c, t>>[1] = c /\ <<c, t>>[2] = t
      /\ <<d, u>>[1] = d /\ <<d, u>>[2] = u
  OBVIOUS
<1>5. ASSUME ids[c] = t, Untouched(es, c, t, y, Len(es) + 1)
      PROVE  c = d /\ t = u
  <2>1. CASE ids[d] = u
    BY <1>2, <1>5, <2>1
  <2>2. ASSUME NEW j \in DOMAIN es, es[j].subgrid_index >= y, <<d, u>> \in es[j].tiles
        PROVE  FALSE
    BY <1>3, <1>4, <1>5, <2>2 DEF Untouched
  <2> QED BY <2>1, <2>2 DEF HeldBy
<1>6. ASSUME NEW j \in DOMAIN es, es[j].subgrid_index >= y, <<c, t>> \in es[j].tiles,
             Untouched(es, c, t, y, j)
      PROVE  c = d /\ t = u
  <2>1. ASSUME Untouched(es, d, u, y, Len(es) + 1) PROVE FALSE
    BY <1>3, <1>4, <1>6, <2>1 DEF Untouched
  <2>2. ASSUME NEW i \in DOMAIN es, es[i].subgrid_index >= y, <<d, u>> \in es[i].tiles,
               Untouched(es, d, u, y, i)
        PROVE  c = d /\ t = u
    <3>1. ~(i < j)
      BY <1>4, <1>6, <2>2 DEF Untouched
    <3>2. ~(j < i)
      BY <1>4, <1>6, <2>2 DEF Untouched
    <3>3. i = j
      BY <1>1, <3>1, <3>2
    <3>4. <<c, t>> = <<d, u>>
      BY <1>4, <1>6, <2>2, <3>3 DEF LogInOrder
    <3> QED BY <1>4, <3>4
  <2> QED BY <2>1, <2>2 DEF HeldBy
<1> QED BY <1>5, <1>6 DEF HeldBy

(* What the cache holds after all events is held. *)
LEMMA HeldInCache ==
  ASSUME NEW es \in Seq(UpdateInfo), NEW n \in Nat, LogInOrder(es, n), NEW ids,
         NEW c \in Coordinates, NEW t, ids[c] = t, NEW y \in Nat, n <= y
  PROVE  HeldBy(es, ids, c, t, y)
<1>1. \A i \in DOMAIN es : es[i].subgrid_index \in Nat /\ es[i].subgrid_index < n
  BY LogElements DEF LogInOrder
<1>2. \A i \in DOMAIN es : ~(es[i].subgrid_index >= y)
  BY <1>1
<1> QED BY <1>2 DEF HeldBy, Untouched

(* The cache changes slots without an event only for what it does not hold. *)
LEMMA HeldNoEvent ==
  ASSUME NEW es, NEW ids, NEW jds, NEW c, NEW t, NEW y, HeldBy(es, ids, c, t, y),
         ids[c] = t => jds[c] = t
  PROVE  HeldBy(es, jds, c, t, y)
BY DEF HeldBy

(* A new event flushes a tile that the cache held, or leaves it alone. *)
LEMMA HeldNewEvent ==
  ASSUME NEW es \in Seq(UpdateInfo), NEW e \in UpdateInfo, NEW ids, NEW jds,
         NEW c \in Coordinates, NEW t \in TileIds, NEW y, HeldBy(es, ids, c, t, y),
         e.subgrid_index >= y,
         ids[c] = t =>
           \/ <<c, t>> \in e.tiles
           \/ jds[c] = t /\ \A p \in e.tiles : p[1] # c /\ p[2] # t
  PROVE  HeldBy(Append(es, e), jds, c, t, y)
<1> DEFINE fs == Append(es, e)
           n == Len(es)
<1>1. /\ DOMAIN es = 1 .. n /\ n \in Nat
      /\ DOMAIN fs = 1 .. n + 1 /\ Len(fs) = n + 1
      /\ \A i \in 1 .. n : fs[i] = es[i]
      /\ fs[n + 1] = e
  BY Appended
<1> HIDE DEF fs, n
<1>2. \A i \in DOMAIN fs :
        (i \in DOMAIN es /\ i < n + 1 /\ fs[i] = es[i]) \/ i = n + 1
  BY <1>1
<1>3. \A i \in DOMAIN es : i < n + 1 /\ i # n + 1
  BY <1>1
<1>4. ASSUME ids[c] = t, Untouched(es, c, t, y, n + 1)
      PROVE  HeldBy(fs, jds, c, t, y)
  <2>1. Untouched(fs, c, t, y, n + 1)
    BY <1>1, <1>2, <1>4 DEF Untouched
  <2>2. CASE <<c, t>> \in e.tiles
    <3>1. n + 1 \in DOMAIN fs
      BY <1>1
    <3> QED BY <1>1, <2>1, <2>2, <3>1 DEF HeldBy
  <2>3. CASE jds[c] = t /\ \A p \in e.tiles : p[1] # c /\ p[2] # t
    <3>1. Untouched(fs, c, t, y, Len(fs) + 1)
      BY <1>1, <1>2, <2>1, <2>3 DEF Untouched
    <3> QED BY <2>3, <3>1 DEF HeldBy
  <2> QED BY <1>4, <2>2, <2>3
<1>5. ASSUME NEW j \in DOMAIN es, es[j].subgrid_index >= y, <<c, t>> \in es[j].tiles,
             Untouched(es, c, t, y, j)
      PROVE  HeldBy(fs, jds, c, t, y)
  <2>1. j \in DOMAIN fs /\ fs[j] = es[j] /\ j <= n
    BY <1>1
  <2>2. \A i \in DOMAIN fs : i < j => i \in DOMAIN es /\ fs[i] = es[i]
    BY <1>1, <1>2, <2>1
  <2>3. Untouched(fs, c, t, y, j)
    BY <1>5, <2>2 DEF Untouched
  <2> QED BY <1>5, <2>1, <2>3 DEF HeldBy
<1>6. HeldBy(fs, jds, c, t, y)
  BY <1>4, <1>5 DEF HeldBy, n
<1> QED BY <1>6 DEF fs

(* When the first s of the events are taken, s being 0 or 1, what no taken   *)
(* flush concerned is held as before, and as of any later moment until the   *)
(* next event.                                                               *)
LEMMA HeldLater ==
  ASSUME NEW es \in Seq(UpdateInfo), NEW left \in Seq(UpdateInfo), NEW s \in {0, 1},
         Len(left) = Len(es) - s, \A j \in DOMAIN left : left[j] = es[j + s],
         NEW ids, NEW c \in Coordinates, NEW t \in TileIds, NEW y, NEW z,
         HeldBy(es, ids, c, t, y),
         s = 1 => ~(es[1].subgrid_index >= y) \/ \A p \in es[1].tiles : p[2] # t,
         \A j \in DOMAIN left : left[j].subgrid_index >= z <=> left[j].subgrid_index >= y
  PROVE  HeldBy(left, ids, c, t, z)
<1>1. /\ DOMAIN es = 1 .. Len(es) /\ Len(es) \in Nat
      /\ DOMAIN left = 1 .. Len(left) /\ Len(left) \in Nat
  BY LogElements
<1>2. \A j \in DOMAIN left : j + s \in DOMAIN es /\ left[j] = es[j + s]
  BY <1>1
<1>3. ASSUME NEW j, Untouched(es, c, t, y, j), j \in Int
      PROVE  Untouched(left, c, t, z, j - s)
  <2>1. \A i \in DOMAIN left : i < j - s => i + s < j
    BY <1>1, <1>3
  <2> QED BY <1>2, <1>3, <2>1 DEF Untouched
<1>4. ASSUME ids[c] = t, Untouched(es, c, t, y, Len(es) + 1)
      PROVE  HeldBy(left, ids, c, t, z)
  <2>1. Len(es) + 1 \in Int /\ Len(es) + 1 - s = Len(left) + 1
    BY <1>1
  <2>2. Untouched(left, c, t, z, Len(left) + 1)
    BY <1>3, <1>4, <2>1
  <2> QED BY <1>4, <2>2 DEF HeldBy
<1>5. ASSUME NEW j \in DOMAIN es, es[j].subgrid_index >= y, <<c, t>> \in es[j].tiles,
             Untouched(es, c, t, y, j)
      PROVE  HeldBy(left, ids, c, t, z)
  <2>1. <<c, t>>[2] = t
    OBVIOUS
  <2>2. ~(s = 1 /\ j = 1)
    BY <1>5, <2>1
  <2>3. j - s \in DOMAIN left /\ (j - s) + s = j
    BY <1>1, <2>2
  <2>4. left[j - s] = es[j]
    BY <2>3
  <2>5. Untouched(left, c, t, z, j - s)
    BY <1>1, <1>3, <1>5
  <2> QED BY <1>5, <2>3, <2>4, <2>5 DEF HeldBy
<1> QED BY <1>4, <1>5 DEF HeldBy

(* The first event is the flush of what is in its tiles now. *)
LEMMA HeldByFirst ==
  ASSUME NEW es \in Seq(UpdateInfo), 1 \in DOMAIN es, NEW ids, NEW c, NEW t,
         <<c, t>> \in es[1].tiles
  PROVE  HeldBy(es, ids, c, t, 0)
<1>1. es[1].subgrid_index >= 0 /\ \A i \in DOMAIN es : ~(i < 1)
  BY LogElements
<1>2. Untouched(es, c, t, 0, 1)
  BY <1>1 DEF Untouched
<1> QED BY <1>1, <1>2 DEF HeldBy

(* The events that were not applied yet: what the cache logged for the use  *)
(* of the proxy, until the plan takes it.                                   *)
Log ==
  IF phase = "plan" THEN IF mode = "gridding" THEN flushSet ELSE initializeSet
  ELSE events

Held(c, t, y) == HeldBy(Log, wtileId, c, t, y)

(* Every subgrid to come is added to a tile that will be flushed with it. *)
PendingHeld ==
  mode = "gridding" =>
    \A k \in DOMAIN metadata : k > Executed =>
      Held(metadata[k].wtile_coordinate, metadata[k].wtile_index, k)

(* So is every subgrid that is in a tile. *)
TilesHeld ==
  mode = "gridding" =>
    \A t \in TileIds, c \in Coordinates : tileSums[t][c] > 0 => Held(c, t, 0)

HeldInv == PendingHeld /\ TilesHeld

(* The log is in order, and the cache has no slot twice. *)
LEMMA LogFacts ==
  ASSUME TypeOK, SlotsPartitioned, ControlInv
  PROVE  /\ Log \in Seq(UpdateInfo)
         /\ LogInOrder(Log, Len(metadata))
         /\ \A a, b \in Coordinates : wtileId[a] = wtileId[b] /\ wtileId[a] # NoTile => a = b
         /\ phase \notin {"plan", "run"} => Log = <<>>
<1>1. Log \in Seq(UpdateInfo)
  BY DEF TypeOK, WTilesTypeOK, Log
<1>2. LogInOrder(Log, Len(metadata))
  BY DEF ControlInv, CacheLogsInv, EventsInv, Log
<1>3. \A a, b \in Coordinates : wtileId[a] = wtileId[b] /\ wtileId[a] # NoTile => a = b
  BY DEF SlotsPartitioned, ActiveWtiles
<1>4. phase \notin {"plan", "run"} => Log = <<>>
  BY DEF ControlInv, PhaseInv, Log
<1> QED BY <1>1, <1>2, <1>3, <1>4

(* An empty log: the cache holds what is in the tiles. *)
LEMMA HeldEmptyLog ==
  ASSUME NEW ids, NEW c, NEW t, NEW y
  PROVE  HeldBy(<<>>, ids, c, t, y) <=> ids[c] = t
BY DEF HeldBy, Untouched

(* A tile holds one coordinate, and a coordinate is in one tile. *)
LEMMA OneTile ==
  ASSUME TypeOK, SlotsPartitioned, ControlInv, TilesHeld, mode = "gridding",
         NEW t \in TileIds, NEW u \in TileIds, NEW c \in Coordinates, NEW d \in Coordinates,
         tileSums[t][c] > 0, tileSums[u][d] > 0, t = u \/ c = d
  PROVE  t = u /\ c = d
<1>1. HeldBy(Log, wtileId, c, t, 0) /\ HeldBy(Log, wtileId, d, u, 0)
  BY DEF TilesHeld, Held
<1> QED BY <1>1, LogFacts, HeldUnique

(* Nothing changes for the tiles when neither the log nor the cache does. *)
LEMMA TilesHeldFrame ==
  ASSUME TilesHeld, Log' = Log, UNCHANGED <<wtileId, mode, tileSums>>
  PROVE  TilesHeld'
BY DEF TilesHeld, Held

(* Nor for the subgrids to come, when none was executed or planned. *)
LEMMA PendingHeldFrame ==
  ASSUME PendingHeld, Log' = Log, Executed' = Executed, UNCHANGED <<wtileId, mode, metadata>>
  PROVE  PendingHeld'
BY DEF PendingHeld, Held

(* What is held stays held when the cache takes one more subgrid. *)
LEMMA AddSubgridHeld ==
  ASSUME TypeOK, SlotsPartitioned, NEW i \in Nat, NEW x \in Coordinates, AddSubgrid(i, x),
         NEW c \in Coordinates, NEW t \in TileIds, NEW y, i >= y,
         HeldBy(flushSet, wtileId, c, t, y)
  PROVE  HeldBy(flushSet', wtileId', c, t, y)
<1>1. t # NoTile
  BY DEF TileIds, NoTile
<1>2. CASE AccessActiveWtile(x)
  <2>1. UNCHANGED <<flushSet, wtileId>>
    BY <1>2 DEF AccessActiveWtile
  <2> QED BY <2>1
<1>3. CASE UseFreeWtile(i, x)
  <2>1. flushSet' = flushSet /\ wtileId[x] = NoTile
    BY <1>3 DEF UseFreeWtile
  <2>2. PICK id : wtileId' = [wtileId EXCEPT ![x] = id]
    BY <1>3 DEF UseFreeWtile
  <2>3. wtileId[c] = t => wtileId'[c] = t
    BY <1>1, <2>1, <2>2 DEF TypeOK, WTilesTypeOK
  <2> QED BY <2>1, <2>3, HeldNoEvent
<1>4. CASE RetireWtiles(i, x)
  <2> DEFINE retired == LeastRecentlyUsed
             e == [subgrid_index |-> i, tiles |-> TilesOf(retired)]
  <2>1. /\ wtileId[x] = NoTile
        /\ flushSet' = Append(flushSet, e)
    BY <1>4 DEF RetireWtiles
  <2>2. PICK id : wtileId' = [z \in Coordinates |->
                                IF z = x THEN id
                                ELSE IF z \in retired THEN NoTile ELSE wtileId[z]]
    BY <1>4 DEF RetireWtiles
  <2>3. retired \in SUBSET ActiveWtiles
    BY DEF LeastRecentlyUsed
  <2>4. e \in UpdateInfo
    BY <2>3, TilesOfType DEF TypeOK, UpdateInfo
  <2> HIDE DEF retired
  <2>5. ASSUME wtileId[c] = t
        PROVE  \/ <<c, t>> \in e.tiles
               \/ wtileId'[c] = t /\ \A p \in e.tiles : p[1] # c /\ p[2] # t
    <3>1. c # x
      BY <1>1, <2>1, <2>5
    <3>2. CASE c \in retired
      <4>1. <<c, t>> \in TilesOf(retired)
        BY <2>5, <3>2 DEF TilesOf
      <4> QED BY <4>1
    <3>3. CASE c \notin retired
      <4>1. wtileId'[c] = t
        BY <2>2, <2>5, <3>1, <3>3
      <4>2. \A r \in retired : wtileId[r] # t
        BY <1>1, <2>3, <2>5, <3>3 DEF SlotsPartitioned, ActiveWtiles
      <4>3. \A p \in TilesOf(retired) : p[1] # c /\ p[2] # t
        BY <3>3, <4>2 DEF TilesOf
      <4> QED BY <4>1, <4>3
    <3> QED BY <3>2, <3>3
  <2>6. flushSet \in Seq(UpdateInfo) /\ e.subgrid_index >= y
    BY DEF TypeOK, WTilesTypeOK
  <2> HIDE DEF e
  <2> QED BY <2>1, <2>4, <2>5, <2>6, HeldNewEvent
<1> QED BY <1>2, <1>3, <1>4 DEF AddSubgrid

(* The new subgrid of a plan is added to the tile that the cache chose, and *)
(* whatever it retires for that is flushed first.                           *)
LEMMA PlanSubgridHeld ==
  ASSUME TypeOK, SlotsPartitioned, ControlInv, HeldInv,
         NEW c \in Coordinates, NEW g \in BOOLEAN, PlanSubgrid(c, g)
  PROVE  HeldInv'
<1>1. SUFFICES ASSUME mode = "gridding" PROVE HeldInv'
  BY DEF PlanSubgrid, HeldInv, PendingHeld, TilesHeld
<1> DEFINE n == Len(metadata)
           new == [wtile_coordinate |-> c, wtile_index |-> wtileId'[c], firstGroup |-> g]
<1>2. /\ phase = "plan" /\ phase' = "plan" /\ mode' = "gridding"
      /\ metadata' = Append(metadata, new) /\ AddSubgrid(n, c) /\ tileSums' = tileSums
  BY <1>1 DEF PlanSubgrid, dataVars
<1>3. /\ DOMAIN metadata = 1 .. n /\ n \in Nat
      /\ \A k \in DOMAIN metadata : /\ metadata[k].wtile_coordinate \in Coordinates
                                    /\ metadata[k].wtile_index \in TileIds
  BY PlanSequences
<1>4. /\ DOMAIN metadata' = 1 .. n + 1
      /\ \A k \in 1 .. n : metadata'[k] = metadata[k]
      /\ metadata'[n + 1].wtile_coordinate = c
      /\ metadata'[n + 1].wtile_index = wtileId'[c]
  BY <1>2 DEF TypeOK
<1>5. Log = flushSet /\ Log' = flushSet' /\ Executed = 0 /\ Executed' = 0
  BY <1>1, <1>2 DEF Log, Executed
<1>6. /\ flushSet' \in Seq(UpdateInfo) /\ LogInOrder(flushSet', n + 1)
      /\ wtileId'[c] \in TileIds
  <2>1. WTilesTypeOK /\ LogInOrder(flushSet, n)
    BY DEF TypeOK, ControlInv, CacheLogsInv
  <2>2. WTilesTypeOK' /\ wtileId'[c] \in TileIds
    BY <1>2, <1>3, <2>1, AddSubgridTypeOK
  <2> QED BY <1>2, <1>3, <2>1, <2>2, AddSubgridFlushSet DEF WTilesTypeOK
<1> HIDE DEF n, new
<1>7. PendingHeld'
  <2>1. ASSUME NEW k \in 1 .. n
        PROVE  HeldBy(Log', wtileId', metadata'[k].wtile_coordinate, metadata'[k].wtile_index, k)
    <3>1. k \in DOMAIN metadata /\ k > Executed /\ n >= k
      BY <1>3, <1>5
    <3>2. HeldBy(flushSet, wtileId, metadata[k].wtile_coordinate, metadata[k].wtile_index, k)
      BY <1>1, <1>5, <3>1 DEF HeldInv, PendingHeld, Held
    <3>3. /\ metadata[k].wtile_coordinate \in Coordinates
          /\ metadata[k].wtile_index \in TileIds
      BY <1>3, <3>1
    <3>4. HeldBy(flushSet', wtileId', metadata[k].wtile_coordinate, metadata[k].wtile_index, k)
      BY <1>2, <1>3, <3>1, <3>2, <3>3, AddSubgridHeld
    <3> QED BY <1>4, <1>5, <3>4
  <2>2. HeldBy(Log', wtileId', c, wtileId'[c], n + 1)
    BY <1>3, <1>5, <1>6, HeldInCache
  <2>3. \A k \in 1 .. n + 1 : k \in 1 .. n \/ k = n + 1
    BY <1>3
  <2>4. \A k \in DOMAIN metadata' :
          HeldBy(Log', wtileId', metadata'[k].wtile_coordinate, metadata'[k].wtile_index, k)
    BY <1>4, <2>1, <2>2, <2>3
  <2> QED BY <2>4 DEF PendingHeld, Held
<1>8. TilesHeld'
  <2>1. ASSUME NEW t \in TileIds, NEW d \in Coordinates, tileSums[t][d] > 0
        PROVE  HeldBy(Log', wtileId', d, t, 0)
    <3>1. HeldBy(flushSet, wtileId, d, t, 0)
      BY <1>1, <1>5, <2>1 DEF HeldInv, TilesHeld, Held
    <3>2. n >= 0
      BY <1>3
    <3> QED BY <1>2, <1>3, <1>5, <3>1, <3>2, AddSubgridHeld
  <2> QED BY <1>2, <2>1 DEF TilesHeld, Held
<1> QED BY <1>7, <1>8 DEF HeldInv

-----------------------------------------------------------------------------
(* One iteration of the adder. *)

(* Zeroing a tile. *)
LEMMA ZeroedTile ==
  ASSUME TypeOK, NEW T, NEW t \in TileIds, NEW c \in Coordinates
  PROVE  Zeroed(T)[t][c] = IF \E d \in Coordinates : <<d, t>> \in T THEN 0 ELSE tileSums[t][c]
BY DEF Zeroed, NoSums, TypeOK

(* What an iteration applies, if anything, is the first event, and the      *)
(* subgrids that it executes come before the others.                        *)
LEMMA DueTilesHeld ==
  ASSUME TypeOK, SlotsPartitioned, ControlInv, phase = "run"
  PROVE  /\ DueTiles \in SUBSET (Coordinates \X TileIds)
         /\ \A d \in Coordinates, t \in TileIds : <<d, t>> \in DueTiles => Held(d, t, 0)
<1>1. PICK s \in {0, 1} : EventTaken(s)
  BY DueEvent
<1>2. events \in Seq(UpdateInfo) /\ Log = events
  BY DEF TypeOK, Log
<1>3. CASE s = 0
  BY <1>1, <1>3 DEF EventTaken
<1>4. CASE s = 1
  <2>1. 1 \in DOMAIN events /\ DueTiles = events[1].tiles
    BY <1>1, <1>4 DEF EventTaken
  <2>2. DueTiles \in SUBSET (Coordinates \X TileIds)
    BY <1>2, <2>1, LogElements
  <2>3. \A d \in Coordinates, t \in TileIds : <<d, t>> \in DueTiles => Held(d, t, 0)
    BY <1>2, <2>1, HeldByFirst DEF Held
  <2> QED BY <2>2, <2>3
<1> QED BY <1>3, <1>4

(* After an iteration, every tile is as the next flush of it expects. *)
LEMMA AdderHeld ==
  ASSUME TypeOK, SlotsPartitioned, ControlInv, HeldInv, AdderIteration
  PROVE  HeldInv'
<1> DEFINE left == EventsAfterDue
           n == Executed + NrToProcess
<1>1. /\ phase = "run" /\ phase' = "run" /\ mode = "gridding" /\ mode' = "gridding"
      /\ ~JobDone /\ NextSubgrids
      /\ UNCHANGED <<wtileId, metadata>> /\ events' = left
  BY DEF AdderIteration, NextSubgrids, wtilesVars
<1>2. BaselinesInv /\ JobInv /\ EventsInv
  BY DEF ControlInv
<1>3. /\ NrToProcess \in Nat /\ 0 < NrToProcess
      /\ \A j \in DOMAIN left : n <= left[j].subgrid_index
      /\ Processed = {k \in DOMAIN metadata : Executed < k /\ k <= n}
  BY <1>1, <1>2, IterationFlow
<1>4. Executed \in Nat /\ Position = Executed /\ Executed' = n
  BY <1>1, <1>2, ExecutedBounds, IterationDone, PlanSequences
<1>5. PICK s \in {0, 1} : EventTaken(s)
  BY DueEvent
<1>6. /\ events \in Seq(UpdateInfo) /\ left \in Seq(UpdateInfo)
      /\ Len(left) = Len(events) - s /\ \A j \in DOMAIN left : left[j] = events[j + s]
      /\ \A j \in DOMAIN left : left[j].subgrid_index \in Nat
  BY <1>5, DueEvent, LogElements DEF TypeOK, EventTaken
<1>7. s = 1 => events[1].subgrid_index = Executed /\ DueTiles = events[1].tiles
  BY <1>4, <1>5 DEF EventTaken
<1>8. Log = events /\ Log' = left
  BY <1>1 DEF Log
<1>9. /\ DOMAIN metadata \subseteq Nat
      /\ \A k \in DOMAIN metadata : /\ metadata[k].wtile_coordinate \in Coordinates
                                    /\ metadata[k].wtile_index \in TileIds
  BY PlanSequences
<1> HIDE DEF left, n
<1>10. ASSUME NEW k \in DOMAIN metadata, k > Executed, NEW z,
              \A j \in DOMAIN left : left[j].subgrid_index >= z <=> left[j].subgrid_index >= k
       PROVE  HeldBy(left, wtileId, metadata[k].wtile_coordinate, metadata[k].wtile_index, z)
  <2>1. HeldBy(events, wtileId, metadata[k].wtile_coordinate, metadata[k].wtile_index, k)
    BY <1>1, <1>8, <1>10 DEF HeldInv, PendingHeld, Held
  <2>2. s = 1 => ~(events[1].subgrid_index >= k)
    BY <1>4, <1>7, <1>9, <1>10
  <2>3. /\ metadata[k].wtile_coordinate \in Coordinates
        /\ metadata[k].wtile_index \in TileIds
    BY <1>9
  <2> DEFINE c == metadata[k].wtile_coordinate
             t == metadata[k].wtile_index
  <2>4. c \in Coordinates /\ t \in TileIds /\ HeldBy(events, wtileId, c, t, k)
    BY <2>1, <2>3
  <2>5. \A j \in DOMAIN left : left[j].subgrid_index >= z <=> left[j].subgrid_index >= k
    BY <1>10
  <2> HIDE DEF c, t
  <2>6. HeldBy(left, wtileId, c, t, z)
    BY <1>6, <2>2, <2>4, <2>5, HeldLater
  <2> QED BY <2>6 DEF c, t
<1>11. PendingHeld'
  <2>1. \A k \in DOMAIN metadata : k > n => k > Executed
    BY <1>3, <1>4, <1>9 DEF n
  <2>2. \A k \in DOMAIN metadata : k > n =>
          HeldBy(left, wtileId, metadata[k].wtile_coordinate, metadata[k].wtile_index, k)
    BY <1>10, <2>1
  <2> QED BY <1>1, <1>4, <1>8, <2>2 DEF PendingHeld, Held
<1>12. TilesHeld'
  <2>1. ASSUME NEW t \in TileIds, NEW c \in Coordinates, tileSums'[t][c] > 0
        PROVE  HeldBy(left, wtileId, c, t, 0)
    <3> DEFINE S == {k \in Processed : /\ metadata[k].wtile_index = t
                                       /\ metadata[k].wtile_coordinate = c}
    <3>1. tileSums'[t][c] = Zeroed(DueTiles)[t][c] + Cardinality(S)
      BY DEF AdderIteration
    <3>2. Zeroed(DueTiles)[t][c] \in Nat /\ Cardinality(S) \in Nat
      BY ZeroedType, ProcessedFinite
    <3>3. CASE Zeroed(DueTiles)[t][c] > 0
      <4>1. /\ tileSums[t][c] > 0
            /\ \A d \in Coordinates : <<d, t>> \notin DueTiles
        BY <3>3, ZeroedTile
      <4>2. HeldBy(events, wtileId, c, t, 0)
        BY <1>1, <1>8, <4>1 DEF HeldInv, TilesHeld, Held
      <4>3. s = 1 => \A p \in events[1].tiles : p[2] # t
        BY <1>1, <1>7, <4>1, DueTilesHeld
      <4> QED BY <1>6, <4>2, <4>3, HeldLater
    <3>4. CASE Zeroed(DueTiles)[t][c] = 0
      <4>1. Cardinality(S) > 0
        BY <2>1, <3>1, <3>2, <3>4
      <4>2. S # {}
        BY <4>1, FS_EmptySet
      <4>3. PICK k \in Processed : /\ metadata[k].wtile_index = t
                                   /\ metadata[k].wtile_coordinate = c
        BY <4>2
      <4>4. k \in DOMAIN metadata /\ k > Executed /\ k <= n /\ n \in Nat /\ k \in Nat
        BY <1>3, <1>4, <1>9, <4>3 DEF n
      <4>5. \A j \in DOMAIN left : left[j].subgrid_index >= 0 <=> left[j].subgrid_index >= k
        BY <1>3, <1>6, <4>4
      <4> QED BY <1>10, <4>3, <4>4, <4>5
    <3> HIDE DEF S
    <3> QED BY <3>2, <3>3, <3>4
  <2> QED BY <1>1, <1>8, <2>1 DEF TilesHeld, Held
<1> QED BY <1>11, <1>12 DEF HeldInv

(* get_final_grid finds every tile that holds something in the cache. *)
LEMMA FinalTilesHeld ==
  ASSUME TypeOK, SlotsPartitioned, ControlInv, TilesHeld, phase = "idle", mode = "gridding"
  PROVE  /\ \A d \in Coordinates, t \in TileIds :
              <<d, t>> \in TilesOf(ActiveWtiles) => Held(d, t, 0)
         /\ \A t \in TileIds, c \in Coordinates : Zeroed(TilesOf(ActiveWtiles))[t][c] = 0
<1>1. Log = <<>>
  BY LogFacts
<1>2. \A c \in Coordinates, t \in TileIds : Held(c, t, 0) <=> wtileId[c] = t
  BY <1>1, HeldEmptyLog DEF Held
<1>3. \A d \in Coordinates, t \in TileIds :
        <<d, t>> \in TilesOf(ActiveWtiles) <=> wtileId[d] = t
  BY DEF TilesOf, ActiveWtiles, TileIds, NoTile
<1> DEFINE T == TilesOf(ActiveWtiles)
<1>4. ASSUME NEW t \in TileIds, NEW c \in Coordinates PROVE Zeroed(T)[t][c] = 0
  <2> HIDE DEF T
  <2>1. Zeroed(T)[t][c] = IF \E d \in Coordinates : <<d, t>> \in T THEN 0 ELSE tileSums[t][c]
    BY ZeroedTile
  <2>2. tileSums[t][c] > 0 => wtileId[c] = t
    BY <1>2 DEF TilesHeld
  <2>3. tileSums[t][c] > 0 => <<c, t>> \in T
    BY <1>3, <2>2 DEF T
  <2>4. tileSums[t][c] \in Nat
    BY DEF TypeOK
  <2> QED BY <2>1, <2>3, <2>4
<1> QED BY <1>2, <1>3, <1>4

(* The flushes to come stay in step with the tiles, whatever the proxy does. *)
LEMMA HeldStep ==
  ASSUME TypeOK, SlotsPartitioned, ControlInv, HeldInv, [Next]_vars
  PROVE  HeldInv'
<1>1. ASSUME metadata' = <<>>, Log' = Log, UNCHANGED <<wtileId, mode, tileSums>>
      PROVE  HeldInv'
  <2>1. TilesHeld'
    BY <1>1, TilesHeldFrame DEF HeldInv
  <2>2. PendingHeld'
    BY <1>1 DEF PendingHeld
  <2> QED BY <2>1, <2>2 DEF HeldInv
<1>2. ASSUME mode' = "gridding" => \A t \in TileIds, c \in Coordinates : tileSums'[t][c] = 0,
             metadata' = <<>>
      PROVE  HeldInv'
  BY <1>2 DEF HeldInv, TilesHeld, PendingHeld
<1>3. ASSUME mode' = "degridding" PROVE HeldInv'
  BY <1>3 DEF HeldInv, TilesHeld, PendingHeld
<1>4. ASSUME Log' = Log, Executed' = Executed, UNCHANGED <<wtileId, mode, metadata, tileSums>>
      PROVE  HeldInv'
  BY <1>4, TilesHeldFrame, PendingHeldFrame DEF HeldInv
<1>5. ASSUME NEW m \in Modes, InitCache(m) PROVE HeldInv'
  <2>1. metadata' = <<>>
    BY <1>5 DEF InitCache, planVars, ControlInv, PhaseInv
  <2>2. \A t \in TileIds, c \in Coordinates : tileSums'[t][c] = 0
    BY <1>5 DEF InitCache, NoSums
  <2> QED BY <1>2, <2>1, <2>2
<1>6. CASE SetImage
  BY <1>3, <1>6 DEF SetImage
<1>7. CASE BeginPlan
  <2>1. metadata' = <<>> /\ UNCHANGED <<wtileId, mode, tileSums>>
    BY <1>7 DEF BeginPlan, wtilesVars, dataVars
  <2>2. Log = <<>>
    BY <1>7, LogFacts DEF BeginPlan
  <2>3. Log' = <<>>
    BY <1>7 DEF BeginPlan, wtilesVars, Log, ControlInv, PhaseInv
  <2> QED BY <1>1, <2>1, <2>2, <2>3
<1>8. ASSUME NEW c \in Coordinates, NEW g \in BOOLEAN, PlanSubgrid(c, g)
      PROVE  HeldInv'
  BY <1>8, PlanSubgridHeld
<1>9. CASE FinishBaseline
  <2>1. UNCHANGED <<wtileId, mode, metadata, tileSums>>
    BY <1>9 DEF FinishBaseline, wtilesVars, dataVars
  <2>2. Log' = Log /\ Executed' = Executed
    BY <1>9 DEF FinishBaseline, wtilesVars, Log, Executed
  <2> QED BY <1>4, <2>1, <2>2
<1>10. CASE FinishPlan
  <2>1. UNCHANGED <<wtileId, mode, metadata, tileSums>>
    BY <1>10 DEF FinishPlan, TakeUpdateSets, dataVars
  <2>2. Log' = Log
    BY <1>10 DEF FinishPlan, Log
  <2>3. Executed' = Executed
    BY <1>10, FinishPlanControl DEF FinishPlan, Executed
  <2> QED BY <1>4, <2>1, <2>2, <2>3
<1>11. CASE StartJob
  <2>1. UNCHANGED <<wtileId, mode, metadata, tileSums>> /\ Log' = Log
    BY <1>11 DEF StartJob, wtilesVars, planVars, dataVars, Log
  <2> QED BY <1>4, <1>11, <2>1, StartJobControl
<1>12. CASE AdderIteration
  BY <1>12, AdderHeld
<1>13. CASE SplitterIteration
  BY <1>3, <1>13 DEF SplitterIteration, NextSubgrids
<1>14. CASE EndRun
  <2>1. metadata' = <<>> /\ events' = <<>> /\ UNCHANGED <<wtileId, mode, tileSums>>
        /\ phase = "run" /\ phase' = "idle"
    BY <1>14 DEF EndRun, wtilesVars, dataVars
  <2>2. events = <<>>
    BY <1>14, AllApplied DEF EndRun
  <2>3. Log' = Log
    BY <2>1, <2>2 DEF Log
  <2> QED BY <1>1, <2>1, <2>3
<1>15. CASE GetFinalGrid
  <2>1. \A t \in TileIds, c \in Coordinates : tileSums'[t][c] = 0
    BY <1>15, FinalTilesHeld DEF GetFinalGrid, HeldInv
  <2>2. metadata' = <<>>
    BY <1>15 DEF GetFinalGrid, planVars, ControlInv, PhaseInv
  <2> QED BY <1>2, <2>1, <2>2
<1>16. CASE UNCHANGED vars
  <2>1. UNCHANGED <<wtileId, mode, metadata, tileSums>>
    BY <1>16 DEF vars, wtilesVars, planVars, dataVars
  <2>2. Log' = Log
    BY <1>16 DEF vars, wtilesVars, planVars, Log
  <2>3. Executed' = Executed
    BY <1>16 DEF vars, planVars, jobVars, Executed, JobDone, JobsEnd, Offset
  <2> QED BY <1>4, <2>1, <2>2, <2>3
<1> QED BY <1>5, <1>6, <1>7, <1>8, <1>9, <1>10, <1>11, <1>12, <1>13, <1>14, <1>15, <1>16
        DEF Next, RunStep

-----------------------------------------------------------------------------
(* Sums of functions. *)

(* SumFunction adds the values of a function in an order of its choice: g   *)
(* maps every part of the domain to its sum.                                *)
SumsOf(f, g) ==
  g = [s \in SUBSET DOMAIN f |->
         IF s = {} THEN 0
         ELSE f[CHOOSE x \in s : TRUE] + g[s \ {CHOOSE x \in s : TRUE}]]

(* The definition of SumFunction. *)
LEMMA SumUnfolded ==
  ASSUME NEW f
  PROVE  SumFunction(f) = (CHOOSE g : SumsOf(f, g))[DOMAIN f]
BY DEF SumFunction, SumFunctionOnSet, FoldFunctionOnSet, MapThenFoldSet, SumsOf

(* The sums of the parts of a finite domain are determined. *)
LEMMA SumsUnique ==
  ASSUME NEW f, IsFiniteSet(DOMAIN f), NEW g, NEW h, SumsOf(f, g), SumsOf(f, h)
  PROVE  g = h
<1> DEFINE Bad == {s \in SUBSET DOMAIN f : g[s] # h[s]}
           Sizes == {Cardinality(s) : s \in Bad}
<1>1. DOMAIN g = SUBSET DOMAIN f /\ DOMAIN h = SUBSET DOMAIN f
      /\ g = [s \in DOMAIN g |-> g[s]] /\ h = [s \in DOMAIN h |-> h[s]]
  BY DEF SumsOf
<1>2. ASSUME NEW s \in SUBSET DOMAIN f, s # {}, NEW x, x = CHOOSE y \in s : TRUE
      PROVE  g[s] = f[x] + g[s \ {x}] /\ h[s] = f[x] + h[s \ {x}]
  BY <1>2 DEF SumsOf
<1>3. g[{}] = 0 /\ h[{}] = 0
  BY DEF SumsOf
<1>4. SUFFICES ASSUME Bad # {} PROVE FALSE
  BY <1>1
<1>5. \A s \in SUBSET DOMAIN f : IsFiniteSet(s) /\ Cardinality(s) \in Nat
  BY FS_Subset, FS_CardinalityType
<1>6. Sizes \in SUBSET Nat /\ Sizes # {}
  BY <1>4, <1>5
<1>7. PICK n \in Sizes : \A m \in Sizes : n <= m
  <2> HIDE DEF Sizes
  <2> QED BY <1>6, Least
<1>8. PICK s \in Bad : n = Cardinality(s)
  OBVIOUS
<1>9. s \in SUBSET DOMAIN f /\ g[s] # h[s] /\ s # {}
  BY <1>3
<1> DEFINE x == CHOOSE y \in s : TRUE
<1>10. x \in s
  BY <1>9
<1>11. g[s] = f[x] + g[s \ {x}] /\ h[s] = f[x] + h[s \ {x}]
  BY <1>2, <1>9
<1> HIDE DEF x
<1>12. s \ {x} \in Bad
  BY <1>9, <1>11
<1>13. Cardinality(s \ {x}) = Cardinality(s) - 1 /\ Cardinality(s) \in Nat
  BY <1>5, <1>9, <1>10, FS_RemoveElement
<1>14. n <= Cardinality(s \ {x})
  BY <1>7, <1>12
<1> QED BY <1>8, <1>13, <1>14

(* A function that is 0 but for one argument has that value as its sum. *)
LEMMA SumOfOne ==
  ASSUME NEW D, IsFiniteSet(D), NEW f \in [D -> Nat], NEW t \in D,
         \A s \in D \ {t} : f[s] = 0
  PROVE  SumFunction(f) = f[t]
<1> DEFINE g == [s \in SUBSET D |-> IF t \in s THEN f[t] ELSE 0]
<1>1. DOMAIN f = D
  OBVIOUS
<1>2. SumsOf(f, g)
  <2> SUFFICES ASSUME NEW s \in SUBSET D
               PROVE  g[s] = IF s = {} THEN 0
                             ELSE f[CHOOSE x \in s : TRUE] + g[s \ {CHOOSE x \in s : TRUE}]
    BY <1>1 DEF SumsOf
  <2>1. CASE s = {}
    BY <2>1
  <2>2. CASE s # {}
    <3> DEFINE x == CHOOSE y \in s : TRUE
    <3>1. x \in s
      BY <2>2
    <3> HIDE DEF x
    <3>2. g[s] = f[x] + g[s \ {x}]
      <4>1. s \ {x} \in SUBSET D /\ f[t] \in Nat
        OBVIOUS
      <4>2. CASE x = t
        BY <3>1, <4>1, <4>2
      <4>3. CASE x # t
        BY <3>1, <4>1, <4>3
      <4> QED BY <4>2, <4>3
    <3> QED BY <2>2, <3>2 DEF x
  <2> QED BY <2>1, <2>2
<1> HIDE DEF g
<1>3. SumsOf(f, CHOOSE h : SumsOf(f, h))
  BY <1>2
<1>4. (CHOOSE h : SumsOf(f, h)) = g
  BY <1>1, <1>2, <1>3, SumsUnique
<1>5. SumFunction(f) = g[D]
  BY <1>1, <1>4, SumUnfolded
<1> QED BY <1>5 DEF g

-----------------------------------------------------------------------------
(* Gridding: every subgrid is counted once. *)

(* The subgrids of a coordinate that are still to come. *)
PendingOf(c) == {k \in DOMAIN metadata : k > Executed /\ metadata[k].wtile_coordinate = c}

(* Every planned subgrid of c is in the grid, or in the one tile that holds  *)
(* subgrids of c, or to come.                                                *)
Accounted(c) ==
  \E t \in TileIds :
    /\ \A s \in TileIds \ {t} : tileSums[s][c] = 0
    /\ gridSums[c][c] + tileSums[t][c] + Cardinality(PendingOf(c)) = planned[c]

(* Nothing is projected with the w term of another coordinate. *)
OwnProjection == \A c, d \in Coordinates : c # d => gridSums[d][c] = 0

CountInv ==
  /\ OwnProjection
  /\ mode = "gridding" => \A c \in Coordinates : Accounted(c)
  /\ mode = "degridding" => \A c \in Coordinates : /\ gridSums[c][c] = 0 /\ planned[c] = 0
                                                   /\ \A t \in TileIds : tileSums[t][c] = 0

(* Tiles are not mixed, and a coordinate has one tile. *)
TilesSeparate ==
  mode = "gridding" =>
    \A t, u \in TileIds, c, d \in Coordinates :
      tileSums[t][c] > 0 /\ tileSums[u][d] > 0 => (t = u <=> c = d)

(* The subgrids of a plan are finitely many. *)
LEMMA PendingFinite ==
  ASSUME TypeOK, NEW S \in SUBSET DOMAIN metadata
  PROVE  IsFiniteSet(S) /\ Cardinality(S) \in Nat
<1>1. DOMAIN metadata = 1 .. Len(metadata) /\ Len(metadata) \in Nat
  BY PlanSequences
<1>2. IsFiniteSet(DOMAIN metadata)
  BY <1>1, FS_Interval
<1> QED BY <1>2, FS_Subset, FS_CardinalityType

(* Projecting tiles, of which each holds what its coordinate says, adds     *)
(* nothing to the projection of another coordinate.                         *)
LEMMA ProjectedOwn ==
  ASSUME TypeOK, SlotsPartitioned, ControlInv, TilesHeld, mode = "gridding",
         NEW T, \A d \in Coordinates, t \in TileIds : <<d, t>> \in T => Held(d, t, 0),
         NEW c \in Coordinates, NEW d \in Coordinates, c # d
  PROVE  Projected(gridSums, T)[d][c] = gridSums[d][c]
<1> DEFINE ids == {t \in TileIds : <<d, t>> \in T}
           u == CHOOSE t \in ids : TRUE
<1>1. Projected(gridSums, T)[d][c]
        = IF ids = {} THEN gridSums[d][c] ELSE gridSums[d][c] + tileSums[u][c]
  BY DEF Projected
<1>2. CASE ids # {}
  <2>1. u \in ids
    BY <1>2
  <2>2. u \in TileIds /\ <<d, u>> \in T
    BY <2>1
  <2> HIDE DEF u
  <2>3. HeldBy(Log, wtileId, d, u, 0)
    BY <2>2 DEF Held
  <2>4. tileSums[u][c] > 0 => HeldBy(Log, wtileId, c, u, 0)
    BY <2>2 DEF TilesHeld, Held
  <2>5. ~(tileSums[u][c] > 0)
    BY <2>2, <2>3, <2>4, LogFacts, HeldUnique
  <2>6. tileSums[u][c] \in Nat /\ gridSums[d][c] \in Nat
    BY <2>2 DEF TypeOK
  <2> QED BY <1>1, <1>2, <2>5, <2>6
<1> QED BY <1>1, <1>2

(* What leaves the tiles of a coordinate arrives on the grid. *)
LEMMA ProjectedAll ==
  ASSUME TypeOK, SlotsPartitioned, ControlInv, TilesHeld, mode = "gridding",
         NEW T, \A d \in Coordinates, t \in TileIds : <<d, t>> \in T => Held(d, t, 0),
         NEW c \in Coordinates, NEW t \in TileIds,
         \A s \in TileIds \ {t} : tileSums[s][c] = 0
  PROVE  /\ Projected(gridSums, T)[c][c] + Zeroed(T)[t][c] = gridSums[c][c] + tileSums[t][c]
         /\ \A s \in TileIds \ {t} : Zeroed(T)[s][c] = 0
<1> DEFINE ids == {s \in TileIds : <<c, s>> \in T}
           u == CHOOSE s \in ids : TRUE
<1>1. Projected(gridSums, T)[c][c]
        = IF ids = {} THEN gridSums[c][c] ELSE gridSums[c][c] + tileSums[u][c]
  BY DEF Projected
<1>2. ids # {} => u \in TileIds /\ <<c, u>> \in T
  <2>1. ids # {} => u \in ids
    OBVIOUS
  <2> QED BY <2>1
<1>3. \A s \in TileIds : tileSums[s][c] \in Nat
  BY DEF TypeOK
<1>4. gridSums[c][c] \in Nat
  BY DEF TypeOK
<1>5. \A s \in TileIds : Zeroed(T)[s][c]
        = IF \E d \in Coordinates : <<d, s>> \in T THEN 0 ELSE tileSums[s][c]
  BY ZeroedTile
<1>6. \A s \in TileIds \ {t} : Zeroed(T)[s][c] = 0
  BY <1>5
<1> HIDE DEF u
<1>7. CASE tileSums[t][c] = 0
  <2>1. ids # {} => tileSums[u][c] = 0
    BY <1>2, <1>7
  <2>2. Projected(gridSums, T)[c][c] = gridSums[c][c]
    BY <1>1, <1>4, <2>1
  <2>3. Zeroed(T)[t][c] = 0
    BY <1>5, <1>7
  <2> QED BY <1>6, <1>7, <2>2, <2>3
<1>8. CASE tileSums[t][c] # 0
  <2>1. HeldBy(Log, wtileId, c, t, 0)
    BY <1>3, <1>8 DEF TilesHeld, Held
  <2>2. CASE ids # {}
    <3>1. HeldBy(Log, wtileId, c, u, 0)
      BY <1>2, <2>2 DEF Held
    <3>2. u = t
      BY <1>2, <2>1, <2>2, <3>1, LogFacts, HeldUnique
    <3>3. Projected(gridSums, T)[c][c] = gridSums[c][c] + tileSums[t][c]
      BY <1>1, <2>2, <3>2
    <3>4. Zeroed(T)[t][c] = 0
      BY <1>2, <1>5, <2>2, <3>2
    <3> QED BY <1>3, <1>4, <1>6, <3>3, <3>4
  <2>3. CASE ids = {}
    <3>1. ASSUME NEW d \in Coordinates, <<d, t>> \in T PROVE FALSE
      <4>1. HeldBy(Log, wtileId, d, t, 0)
        BY <3>1 DEF Held
      <4>2. d = c
        BY <2>1, <4>1, LogFacts, HeldUnique
      <4> QED BY <2>3, <3>1, <4>2
    <3>2. Zeroed(T)[t][c] = tileSums[t][c]
      BY <1>5, <3>1
    <3> QED BY <1>1, <1>6, <2>3, <3>2
  <2> QED BY <2>2, <2>3
<1> QED BY <1>7, <1>8

(* An iteration of the adder moves subgrids from the plan to the tiles and  *)
(* from the tiles to the grid, and loses none.                              *)
LEMMA AdderCount ==
  ASSUME TypeOK, SlotsPartitioned, ControlInv, HeldInv, CountInv, AdderIteration,
         TypeOK', TilesSeparate'
  PROVE  CountInv'
<1>1. /\ phase = "run" /\ mode = "gridding" /\ mode' = "gridding" /\ ~JobDone /\ NextSubgrids
      /\ UNCHANGED <<metadata, planned>>
      /\ gridSums' = Projected(gridSums, DueTiles)
  BY DEF AdderIteration, NextSubgrids
<1>2. \A d \in Coordinates, t \in TileIds : <<d, t>> \in DueTiles => Held(d, t, 0)
  BY <1>1, DueTilesHeld
<1>3. OwnProjection'
  <2> SUFFICES ASSUME NEW c \in Coordinates, NEW d \in Coordinates, c # d
               PROVE  gridSums'[d][c] = 0
    BY DEF OwnProjection
  <2>1. gridSums[d][c] = 0
    BY DEF CountInv, OwnProjection
  <2> QED BY <1>1, <1>2, <2>1, ProjectedOwn DEF HeldInv
<1>4. ASSUME NEW c \in Coordinates PROVE Accounted(c)'
  <2>1. PICK t \in TileIds :
          /\ \A s \in TileIds \ {t} : tileSums[s][c] = 0
          /\ gridSums[c][c] + tileSums[t][c] + Cardinality(PendingOf(c)) = planned[c]
    BY <1>1 DEF CountInv, Accounted
  <2> DEFINE zeroed == Zeroed(DueTiles)
             All == {k \in Processed : metadata[k].wtile_coordinate = c}
             At(u) == {k \in Processed : /\ metadata[k].wtile_index = u
                                         /\ metadata[k].wtile_coordinate = c}
  <2>2. /\ gridSums'[c][c] + zeroed[t][c] = gridSums[c][c] + tileSums[t][c]
        /\ \A s \in TileIds \ {t} : zeroed[s][c] = 0
    BY <1>1, <1>2, <2>1, ProjectedAll DEF HeldInv
  <2>3. \A u \in TileIds : tileSums'[u][c] = zeroed[u][c] + Cardinality(At(u))
    BY DEF AdderIteration
  <2>4. \A u \in TileIds : zeroed[u][c] \in Nat /\ Cardinality(At(u)) \in Nat
    BY ZeroedType, ProcessedFinite
  <2>5. Cardinality(PendingOf(c)) = Cardinality(All) + Cardinality(PendingOf(c)')
        /\ Cardinality(All) \in Nat /\ Cardinality(PendingOf(c)') \in Nat
    <3> DEFINE Rest == {k \in DOMAIN metadata : /\ k > Executed + NrToProcess
                                               /\ metadata[k].wtile_coordinate = c}
    <3>1. /\ NrToProcess \in Nat /\ Executed \in Nat
          /\ Processed = {k \in DOMAIN metadata : Executed < k /\ k <= Executed + NrToProcess}
          /\ Executed' = Executed + NrToProcess
      BY <1>1, IterationFlow, IterationDone, ExecutedBounds, PlanSequences DEF ControlInv
    <3>2. \A k \in DOMAIN metadata : k \in Nat
      BY PlanSequences
    <3>3. PendingOf(c)' = Rest
      BY <1>1, <3>1 DEF PendingOf
    <3>4. PendingOf(c) = All \cup Rest
      BY <3>1, <3>2 DEF PendingOf
    <3>5. All \cap Rest = {}
      BY <3>1, <3>2
    <3>6. /\ IsFiniteSet(All) /\ IsFiniteSet(Rest)
          /\ Cardinality(All) \in Nat /\ Cardinality(Rest) \in Nat
      BY <3>1, PendingFinite
    <3> HIDE DEF All, Rest
    <3>7. Cardinality(All \cup Rest) = Cardinality(All) + Cardinality(Rest)
      BY <3>5, <3>6, FS_Union, FS_EmptySet
    <3> QED BY <3>3, <3>4, <3>6, <3>7
  <2>6. /\ gridSums[c][c] \in Nat /\ gridSums'[c][c] \in Nat
        /\ tileSums[t][c] \in Nat
        /\ \A u \in TileIds : tileSums'[u][c] \in Nat
    BY DEF TypeOK
  <2>7. PICK u \in TileIds : /\ \A s \in TileIds \ {u} : tileSums'[s][c] = 0
                             /\ zeroed[u][c] = zeroed[t][c]
                             /\ Cardinality(At(u)) = Cardinality(All)
    <3>1. CASE All = {}
      <4>1. \A u \in TileIds : At(u) = {}
        BY <3>1
      <4>2. \A u \in TileIds : Cardinality(At(u)) = 0
        BY <4>1, FS_EmptySet
      <4>3. Cardinality(All) = 0
        BY <3>1, FS_EmptySet
      <4> HIDE DEF At, All, zeroed
      <4>4. \A s \in TileIds \ {t} : tileSums'[s][c] = 0
        BY <2>2, <2>3, <4>2
      <4> QED BY <4>2, <4>3, <4>4
    <3>2. CASE All # {}
      <4>1. PICK k \in All : TRUE
        BY <3>2
      <4>2. \A l \in All : metadata[l].wtile_index \in TileIds /\ l \in At(metadata[l].wtile_index)
        BY PlanSequences DEF Processed
      <4>3. \A l \in All : Cardinality(At(metadata[l].wtile_index)) # 0
        <5>1. \A u : IsFiniteSet(At(u))
          BY PendingFinite DEF Processed
        <5> HIDE DEF At, All
        <5> QED BY <4>2, <5>1, FS_EmptySet
      <4> DEFINE u == metadata[k].wtile_index
      <4>4. u \in TileIds
        BY <4>2
      <4>5. \A l \in All : metadata[l].wtile_index = u
        <5>1. \A l \in All : tileSums'[metadata[l].wtile_index][c] > 0
          <6> HIDE DEF At, All, zeroed
          <6> QED BY <2>3, <2>4, <4>2, <4>3
        <5>2. \A v, w \in TileIds : tileSums'[v][c] > 0 /\ tileSums'[w][c] > 0 => v = w
          BY <1>1 DEF TilesSeparate
        <5> HIDE DEF At, All
        <5> QED BY <4>1, <4>2, <5>1, <5>2
      <4>6. At(u) = All
        BY <4>5
      <4>7. tileSums'[u][c] > 0
        <5>1. Cardinality(At(u)) # 0
          BY <4>1, <4>3
        <5> HIDE DEF At, All, zeroed, u
        <5> QED BY <2>3, <2>4, <4>4, <5>1
      <4>8. \A s \in TileIds \ {u} : tileSums'[s][c] = 0
        <5> HIDE DEF At, All, zeroed, u
        <5>1. \A s \in TileIds : tileSums'[s][c] > 0 => s = u
          BY <1>1, <4>4, <4>7 DEF TilesSeparate
        <5> QED BY <2>6, <5>1
      <4>9. zeroed[u][c] = zeroed[t][c]
        <5> HIDE DEF At, All, zeroed, u
        <5>1. t # u => zeroed[t][c] = 0
          BY <2>3, <2>4, <4>8
        <5>2. t # u => zeroed[u][c] = 0
          BY <2>2, <4>4
        <5> QED BY <5>1, <5>2
      <4> HIDE DEF At, All, zeroed, u
      <4> QED BY <4>4, <4>6, <4>8, <4>9
    <3> QED BY <3>1, <3>2
  <2> HIDE DEF At, All, zeroed
  <2>8. gridSums'[c][c] + tileSums'[u][c] + Cardinality(PendingOf(c)') = planned'[c]
    <3>1. tileSums'[u][c] = zeroed[t][c] + Cardinality(All)
      BY <2>3, <2>7
    <3>2. zeroed[t][c] \in Nat
      BY <2>4
    <3> QED BY <1>1, <2>1, <2>2, <2>5, <2>6, <3>1, <3>2
  <2> QED BY <2>7, <2>8 DEF Accounted
<1> QED BY <1>1, <1>3, <1>4 DEF CountInv

(* Held tiles are not mixed. *)
LEMMA HeldSeparate ==
  ASSUME TypeOK, SlotsPartitioned, ControlInv, HeldInv
  PROVE  TilesSeparate
BY OneTile DEF HeldInv, TilesSeparate

(* A plan that grows by a subgrid of coordinate c has one more to come. *)
LEMMA PlanSubgridCount ==
  ASSUME TypeOK, ControlInv, CountInv,
         NEW c \in Coordinates, NEW g \in BOOLEAN, PlanSubgrid(c, g)
  PROVE  CountInv'
<1> DEFINE n == Len(metadata)
           new == [wtile_coordinate |-> c, wtile_index |-> wtileId'[c], firstGroup |-> g]
<1>1. /\ phase = "plan" /\ phase' = "plan" /\ UNCHANGED <<mode, tileSums, gridSums>>
      /\ metadata' = Append(metadata, new)
      /\ planned' = IF mode = "gridding" THEN [planned EXCEPT ![c] = @ + 1] ELSE planned
  BY DEF PlanSubgrid, dataVars
<1>2. DOMAIN metadata = 1 .. n /\ n \in Nat
  BY PlanSequences
<1>3. /\ DOMAIN metadata' = 1 .. n + 1
      /\ \A k \in 1 .. n : metadata'[k] = metadata[k]
      /\ metadata'[n + 1].wtile_coordinate = c
  BY <1>1 DEF TypeOK
<1>4. Executed = 0 /\ Executed' = 0
  BY <1>1 DEF Executed
<1> HIDE DEF n, new
<1>5. CASE mode = "degridding"
  BY <1>1, <1>5 DEF CountInv, OwnProjection
<1>6. CASE mode # "degridding"
  <2>1. ASSUME NEW d \in Coordinates, d # c PROVE PendingOf(d)' = PendingOf(d)
    BY <1>2, <1>3, <1>4, <2>1 DEF PendingOf
  <2>2. PendingOf(c)' = PendingOf(c) \cup {n + 1} /\ n + 1 \notin PendingOf(c)
    BY <1>2, <1>3, <1>4 DEF PendingOf
  <2>3. /\ IsFiniteSet(PendingOf(c)) /\ Cardinality(PendingOf(c)) \in Nat
        /\ \A d \in Coordinates : Cardinality(PendingOf(d)) \in Nat
    BY PendingFinite DEF PendingOf
  <2>4. Cardinality(PendingOf(c) \cup {n + 1}) = Cardinality(PendingOf(c)) + 1
    BY <2>2, <2>3, FS_AddElement
  <2>5. \A d \in Coordinates : mode = "gridding" => Accounted(d)
    BY DEF CountInv
  <2>6. planned \in [Coordinates -> Nat]
        /\ (\A d \in Coordinates : gridSums[d][d] \in Nat)
        /\ (\A t \in TileIds, d \in Coordinates : tileSums[t][d] \in Nat)
    BY DEF TypeOK
  <2>7. ASSUME NEW d \in Coordinates, mode = "gridding" PROVE Accounted(d)'
    <3>1. PICK t \in TileIds :
            /\ \A s \in TileIds \ {t} : tileSums[s][d] = 0
            /\ gridSums[d][d] + tileSums[t][d] + Cardinality(PendingOf(d)) = planned[d]
      BY <2>5, <2>7 DEF Accounted
    <3>2. gridSums[d][d] + tileSums[t][d] + Cardinality(PendingOf(d)') = planned'[d]
      <4>1. CASE d = c
        <5>1. planned'[d] = planned[d] + 1
          BY <1>1, <2>6, <2>7, <4>1
        <5>2. Cardinality(PendingOf(d)') = Cardinality(PendingOf(d)) + 1
          BY <2>2, <2>4, <4>1
        <5> QED BY <2>3, <2>6, <3>1, <5>1, <5>2
      <4>2. CASE d # c
        <5>1. planned'[d] = planned[d]
          BY <1>1, <2>6, <2>7, <4>2
        <5>2. Cardinality(PendingOf(d)') = Cardinality(PendingOf(d))
          BY <2>1, <4>2
        <5> QED BY <3>1, <5>1, <5>2
      <4> QED BY <4>1, <4>2
    <3> QED BY <1>1, <3>1, <3>2 DEF Accounted
  <2> QED BY <1>1, <1>6, <2>7 DEF CountInv, OwnProjection
<1> QED BY <1>5, <1>6

(* get_final_grid: what the tiles held is on the grid. *)
LEMMA FinalCount ==
  ASSUME TypeOK, SlotsPartitioned, ControlInv, HeldInv, CountInv, GetFinalGrid
  PROVE  /\ CountInv'
         /\ \A c \in Coordinates : gridSums'[c][c] = planned[c]
<1> DEFINE T == TilesOf(ActiveWtiles)
<1>1. /\ phase = "idle" /\ mode = "gridding" /\ mode' = "gridding" /\ metadata = <<>>
      /\ UNCHANGED <<metadata, planned>>
      /\ gridSums' = Projected(gridSums, T) /\ tileSums' = Zeroed(T)
  BY DEF GetFinalGrid, planVars, ControlInv, PhaseInv
<1>2. /\ \A d \in Coordinates, t \in TileIds : <<d, t>> \in T => Held(d, t, 0)
      /\ \A t \in TileIds, c \in Coordinates : Zeroed(T)[t][c] = 0
  BY <1>1, FinalTilesHeld DEF HeldInv
<1> HIDE DEF T
<1>3. OwnProjection'
  <2> SUFFICES ASSUME NEW c \in Coordinates, NEW d \in Coordinates, c # d
               PROVE  gridSums'[d][c] = 0
    BY DEF OwnProjection
  <2>1. gridSums[d][c] = 0
    BY DEF CountInv, OwnProjection
  <2> QED BY <1>1, <1>2, <2>1, ProjectedOwn DEF HeldInv
<1>4. ASSUME NEW c \in Coordinates
      PROVE  Accounted(c)' /\ gridSums'[c][c] = planned[c]
  <2>1. PICK t \in TileIds :
          /\ \A s \in TileIds \ {t} : tileSums[s][c] = 0
          /\ gridSums[c][c] + tileSums[t][c] + Cardinality(PendingOf(c)) = planned[c]
    BY <1>1 DEF CountInv, Accounted
  <2>2. PendingOf(c) = {} /\ PendingOf(c)' = {}
    BY <1>1 DEF PendingOf
  <2>3. Cardinality(PendingOf(c)) = 0 /\ Cardinality(PendingOf(c)') = 0
    BY <2>2, FS_EmptySet
  <2>4. Projected(gridSums, T)[c][c] + Zeroed(T)[t][c] = gridSums[c][c] + tileSums[t][c]
    BY <1>1, <1>2, <2>1, ProjectedAll DEF HeldInv
  <2>5. gridSums[c][c] \in Nat /\ tileSums[t][c] \in Nat /\ Projected(gridSums, T)[c][c] \in Nat
    BY ProjectedType DEF TypeOK
  <2>6. \A s \in TileIds : tileSums'[s][c] = 0
    BY <1>1, <1>2
  <2>7. gridSums'[c][c] = planned[c] /\ gridSums'[c][c] \in Nat
    BY <1>1, <1>2, <2>1, <2>3, <2>4, <2>5
  <2>8. gridSums'[c][c] + tileSums'[t][c] + Cardinality(PendingOf(c)') = planned'[c]
    BY <1>1, <2>3, <2>6, <2>7
  <2> QED BY <2>6, <2>7, <2>8 DEF Accounted
<1> QED BY <1>1, <1>3, <1>4 DEF CountInv

(* No subgrid is lost, whatever the proxy does. *)
LEMMA CountStep ==
  ASSUME TypeOK, SlotsPartitioned, ControlInv, HeldInv, CountInv, [Next]_vars,
         TypeOK', TilesSeparate'
  PROVE  CountInv'
<1>1. ASSUME \A c \in Coordinates : PendingOf(c)' = PendingOf(c),
             UNCHANGED <<mode, tileSums, gridSums, planned>>
      PROVE  CountInv'
  BY <1>1 DEF CountInv, OwnProjection, Accounted
<1>2. ASSUME Executed' = Executed, UNCHANGED <<metadata, mode, tileSums, gridSums, planned>>
      PROVE  CountInv'
  <2>1. \A c \in Coordinates : PendingOf(c)' = PendingOf(c)
    BY <1>2 DEF PendingOf
  <2> QED BY <1>1, <1>2, <2>1
<1>3. ASSUME NEW m \in Modes, InitCache(m) PROVE CountInv'
  <2>1. /\ metadata' = <<>> /\ mode' = m
        /\ \A t \in TileIds, c \in Coordinates : tileSums'[t][c] = 0
        /\ \A c, d \in Coordinates : gridSums'[c][d] = 0
        /\ \A c \in Coordinates : planned'[c] = 0
    BY <1>3 DEF InitCache, planVars, NoSums, ControlInv, PhaseInv
  <2>2. ASSUME NEW c \in Coordinates PROVE Accounted(c)'
    <3>1. PendingOf(c)' = {}
      BY <2>1 DEF PendingOf
    <3>2. Cardinality(PendingOf(c)') = 0
      BY <3>1, FS_EmptySet
    <3>3. 0 \in TileIds
      BY WTilesAssumption DEF TileIds
    <3> QED BY <2>1, <3>2, <3>3 DEF Accounted
  <2> QED BY <2>1, <2>2 DEF CountInv, OwnProjection
<1>4. CASE SetImage
  BY <1>2, <1>4 DEF SetImage, planVars, Executed
<1>5. CASE BeginPlan
  <2>1. metadata = <<>> /\ metadata' = <<>> /\ UNCHANGED <<mode, tileSums, gridSums, planned>>
    BY <1>5 DEF BeginPlan, dataVars, ControlInv, PhaseInv
  <2> QED BY <1>1, <2>1 DEF PendingOf
<1>6. ASSUME NEW c \in Coordinates, NEW g \in BOOLEAN, PlanSubgrid(c, g)
      PROVE  CountInv'
  BY <1>6, PlanSubgridCount
<1>7. CASE FinishBaseline
  BY <1>2, <1>7 DEF FinishBaseline, dataVars, Executed
<1>8. CASE FinishPlan
  <2>1. Executed' = Executed
    BY <1>8, FinishPlanControl DEF FinishPlan, Executed
  <2> QED BY <1>2, <1>8, <2>1 DEF FinishPlan, dataVars
<1>9. CASE StartJob
  <2>1. Executed' = Executed
    BY <1>9, StartJobControl
  <2> QED BY <1>2, <1>9, <2>1 DEF StartJob, planVars, dataVars
<1>10. CASE AdderIteration
  BY <1>10, AdderCount
<1>11. CASE SplitterIteration
  BY <1>11 DEF SplitterIteration, NextSubgrids, CountInv, OwnProjection
<1>12. CASE EndRun
  <2>1. metadata' = <<>> /\ UNCHANGED <<mode, tileSums, gridSums, planned>>
    BY <1>12 DEF EndRun, dataVars
  <2>2. Executed = Len(metadata)
    BY <1>12, AllApplied DEF EndRun
  <2>3. \A c \in Coordinates : PendingOf(c) = {}
    BY <2>2, PlanSequences DEF PendingOf
  <2>4. \A c \in Coordinates : PendingOf(c)' = {}
    BY <2>1 DEF PendingOf
  <2> QED BY <1>1, <2>1, <2>3, <2>4
<1>13. CASE GetFinalGrid
  BY <1>13, FinalCount
<1>14. CASE UNCHANGED vars
  <2>1. Executed' = Executed
    BY <1>14 DEF vars, planVars, jobVars, Executed, JobDone, JobsEnd, Offset
  <2> QED BY <1>2, <1>14, <2>1 DEF vars, planVars, dataVars
<1> QED BY <1>3, <1>4, <1>5, <1>6, <1>7, <1>8, <1>9, <1>10, <1>11, <1>12, <1>13, <1>14
        DEF Next, RunStep

-----------------------------------------------------------------------------
(* The flushes to come are those that the tiles need. *)
THEOREM HeldInvariant ==
  ASSUME FirstGroupInRange
  PROVE  Spec => []HeldInv
<1>1. Init => HeldInv
  BY DEF Init, HeldInv, PendingHeld, TilesHeld, NoSums
<1>2. TypeOK /\ SlotsPartitioned /\ ControlInv /\ HeldInv /\ [Next]_vars => HeldInv'
  BY HeldStep
<1>3. Spec => []ControlInv
  BY ControlInvariant
<1> QED BY <1>1, <1>2, <1>3, TypeCorrect, SlotsStayPartitioned, PTL DEF Spec

(* Every subgrid is counted once. *)
THEOREM CountInvariant ==
  ASSUME FirstGroupInRange
  PROVE  Spec => [](CountInv /\ TilesSeparate)
<1>1. Init => CountInv
  <2> SUFFICES ASSUME Init PROVE CountInv
    OBVIOUS
  <2>1. /\ metadata = <<>> /\ mode = "gridding"
        /\ \A t \in TileIds, c \in Coordinates : tileSums[t][c] = 0
        /\ \A c, d \in Coordinates : gridSums[c][d] = 0
        /\ \A c \in Coordinates : planned[c] = 0
    BY DEF Init, NoSums
  <2>2. ASSUME NEW c \in Coordinates PROVE Accounted(c)
    <3>1. PendingOf(c) = {}
      BY <2>1 DEF PendingOf
    <3>2. Cardinality(PendingOf(c)) = 0
      BY <3>1, FS_EmptySet
    <3>3. 0 \in TileIds
      BY WTilesAssumption DEF TileIds
    <3> QED BY <2>1, <3>2, <3>3 DEF Accounted
  <2> QED BY <2>1, <2>2 DEF CountInv, OwnProjection
<1>2. TypeOK /\ SlotsPartitioned /\ ControlInv /\ HeldInv => TilesSeparate
  BY HeldSeparate
<1>3. TypeOK /\ SlotsPartitioned /\ ControlInv /\ HeldInv /\ CountInv /\ [Next]_vars
        /\ TypeOK' /\ TilesSeparate' => CountInv'
  BY CountStep
<1>4. Spec => []ControlInv
  BY ControlInvariant
<1>5. Spec => []HeldInv
  BY HeldInvariant
<1> QED BY <1>1, <1>2, <1>3, <1>4, <1>5, TypeCorrect, SlotsStayPartitioned, PTL DEF Spec

(* A tile of the buffer never holds subgrids of two coordinates, although    *)
(* the cache reassigned its slot when the plan was made.                    *)
THEOREM TilesStayUnmixed ==
  ASSUME FirstGroupInRange
  PROVE  Spec => []TilesUnmixed
<1>1. TypeOK /\ CountInv /\ TilesSeparate => TilesUnmixed
  <2> SUFFICES ASSUME TypeOK, CountInv, TilesSeparate PROVE TilesUnmixed
    OBVIOUS
  <2>1. mode = "gridding" \/ mode = "degridding"
    BY DEF TypeOK, Modes
  <2> QED BY <2>1 DEF CountInv, TilesSeparate, TilesUnmixed
<1>2. Spec => [](CountInv /\ TilesSeparate)
  BY CountInvariant
<1> QED BY <1>1, <1>2, TypeCorrect, PTL

(* Between calls, every subgrid that was planned is in the grid or in a     *)
(* tile, once.                                                              *)
THEOREM NothingLost ==
  ASSUME FirstGroupInRange
  PROVE  Spec => []NoSubgridLost
<1>1. TypeOK /\ ControlInv /\ CountInv => NoSubgridLost
  <2> SUFFICES ASSUME TypeOK, ControlInv, CountInv, phase \in {"idle", "final"},
                      NEW c \in Coordinates
               PROVE  gridSums[c][c] + SumFunction([t \in TileIds |-> tileSums[t][c]])
                        = planned[c]
    BY DEF NoSubgridLost
  <2> DEFINE f == [t \in TileIds |-> tileSums[t][c]]
  <2>1. f \in [TileIds -> Nat] /\ IsFiniteSet(TileIds)
    BY WTilesAssumption, FS_Interval DEF TypeOK, TileIds
  <2>2. metadata = <<>>
    BY DEF ControlInv, PhaseInv
  <2>3. Cardinality(PendingOf(c)) = 0
    <3>1. PendingOf(c) = {}
      BY <2>2 DEF PendingOf
    <3> QED BY <3>1, FS_EmptySet
  <2>4. PICK t \in TileIds : /\ \A s \in TileIds \ {t} : tileSums[s][c] = 0
                             /\ gridSums[c][c] + tileSums[t][c] = planned[c]
    <3>1. CASE mode = "gridding"
      <4>1. PICK t \in TileIds :
              /\ \A s \in TileIds \ {t} : tileSums[s][c] = 0
              /\ gridSums[c][c] + tileSums[t][c] + Cardinality(PendingOf(c)) = planned[c]
        BY <3>1 DEF CountInv, Accounted
      <4>2. gridSums[c][c] \in Nat /\ tileSums[t][c] \in Nat
        BY DEF TypeOK
      <4> QED BY <2>3, <4>1, <4>2
    <3>2. CASE mode = "degridding"
      <4>1. 0 \in TileIds
        BY WTilesAssumption DEF TileIds
      <4> QED BY <3>2, <4>1 DEF CountInv
    <3> QED BY <3>1, <3>2 DEF TypeOK, Modes
  <2>5. \A s \in TileIds \ {t} : f[s] = 0
    BY <2>4
  <2>6. f[t] = tileSums[t][c]
    OBVIOUS
  <2> HIDE DEF f
  <2>7. SumFunction(f) = f[t]
    BY <2>1, <2>5, SumOfOne
  <2> QED BY <2>4, <2>6, <2>7 DEF f
<1>2. Spec => [](CountInv /\ TilesSeparate)
  BY CountInvariant
<1>3. Spec => []ControlInv
  BY ControlInvariant
<1> QED BY <1>1, <1>2, <1>3, TypeCorrect, PTL

-----------------------------------------------------------------------------
(* Refinement. *)

(* What one iteration of the adder projects was requested, and stays. *)
LEMMA AdderAccumulates ==
  ASSUME TypeOK, SlotsPartitioned, ControlInv, HeldInv, CountInv, AdderIteration,
         TypeOK', CountInv'
  PROVE  Accumulation!Accumulate
<1>1. /\ phase = "run" /\ phase' = "run" /\ mode = "gridding" /\ mode' = "gridding"
      /\ planned' = planned
      /\ gridSums' = Projected(gridSums, DueTiles)
  BY DEF AdderIteration, NextSubgrids
<1>2. \A c, d \in Coordinates : c # d => gridSums'[d][c] = gridSums[d][c]
  BY DEF CountInv, OwnProjection
<1>3. ASSUME NEW c \in Coordinates
      PROVE  gridSums[c][c] <= gridSums'[c][c] /\ gridSums'[c][c] <= planned[c]
  <2>1. gridSums[c][c] <= gridSums'[c][c]
    <3> DEFINE ids == {t \in TileIds : <<c, t>> \in DueTiles}
               u == CHOOSE t \in ids : TRUE
    <3>1. gridSums'[c][c] = IF ids = {} THEN gridSums[c][c] ELSE gridSums[c][c] + tileSums[u][c]
      BY <1>1 DEF Projected
    <3>2. gridSums[c][c] \in Nat
      BY DEF TypeOK
    <3>3. ids # {} => tileSums[u][c] \in Nat
      <4>1. ids # {} => u \in TileIds
        OBVIOUS
      <4> QED BY <4>1 DEF TypeOK
    <3> HIDE DEF ids, u
    <3> QED BY <3>1, <3>2, <3>3
  <2>2. PICK t \in TileIds :
          gridSums'[c][c] + tileSums'[t][c] + Cardinality(PendingOf(c)') = planned'[c]
    BY <1>1 DEF CountInv, Accounted
  <2> DEFINE left == Cardinality(PendingOf(c))
  <2>3. left' \in Nat
    <3>1. DOMAIN metadata' = 1 .. Len(metadata') /\ Len(metadata') \in Nat
      BY DEF TypeOK
    <3>2. IsFiniteSet(DOMAIN metadata')
      BY <3>1, FS_Interval
    <3>3. PendingOf(c)' \subseteq DOMAIN metadata'
      BY DEF PendingOf
    <3> QED BY <3>2, <3>3, FS_Subset, FS_CardinalityType
  <2>4. gridSums'[c][c] \in Nat /\ tileSums'[t][c] \in Nat /\ planned[c] \in Nat
    BY DEF TypeOK
  <2>5. gridSums'[c][c] + tileSums'[t][c] + left' = planned[c]
    BY <1>1, <2>2
  <2> HIDE DEF left
  <2> QED BY <2>1, <2>3, <2>4, <2>5
<1>4. \A d, c \in Coordinates :
        IF d = c THEN gridSums[c][c] <= gridSums'[c][c] /\ gridSums'[c][c] <= planned[c]
                 ELSE gridSums'[d][c] = gridSums[d][c]
  BY <1>2, <1>3
<1>5. phase # "final" /\ phase' # "final"
  BY <1>1
<1> QED BY <1>1, <1>4, <1>5 DEF Accumulation!Accumulate

(* get_final_grid delivers the accumulation of all that was planned. *)
LEMMA FinalDelivers ==
  ASSUME TypeOK, SlotsPartitioned, ControlInv, HeldInv, CountInv, GetFinalGrid, TypeOK'
  PROVE  Accumulation!Deliver
<1>1. /\ phase # "final" /\ phase' = "final" /\ planned' = planned
  BY DEF GetFinalGrid
<1>2. CountInv' /\ \A c \in Coordinates : gridSums'[c][c] = planned[c]
  BY FinalCount
<1>3. gridSums' \in [Coordinates -> [Coordinates -> Nat]] /\ planned \in [Coordinates -> Nat]
  BY DEF TypeOK
<1>4. ASSUME NEW d \in Coordinates
      PROVE  gridSums'[d] = [Accumulation!Zero EXCEPT ![d] = planned[d]]
  <2>1. \A c \in Coordinates : gridSums'[d][c] = IF c = d THEN planned[d] ELSE 0
    BY <1>2 DEF CountInv, OwnProjection
  <2>2. gridSums'[d] = [c \in Coordinates |-> IF c = d THEN planned[d] ELSE 0]
    BY <1>3, <2>1
  <2> QED BY <2>2 DEF Accumulation!Zero
<1>5. gridSums' = Accumulation!Complete
  BY <1>3, <1>4 DEF Accumulation!Complete
<1> QED BY <1>1, <1>5 DEF Accumulation!Deliver

(* Every step of the proxy is one of the accumulation, or does not show. *)
LEMMA AccumulationStep ==
  ASSUME TypeOK, SlotsPartitioned, ControlInv, HeldInv, CountInv, [Next]_vars,
         TypeOK', CountInv'
  PROVE  [Accumulation!Next]_Accumulation!accumulationVars
<1>1. ASSUME phase' = "final" <=> phase = "final", UNCHANGED <<planned, gridSums>>
      PROVE  UNCHANGED Accumulation!accumulationVars
  <2>1. (phase' = "final") = (phase = "final")
    BY <1>1
  <2> QED BY <1>1, <2>1 DEF Accumulation!accumulationVars
<1>2. ASSUME NEW m \in Modes, InitCache(m) PROVE Accumulation!NewGrid
  <2>1. /\ phase' # "final"
        /\ planned' = [c \in Coordinates |-> 0]
        /\ gridSums' = [c \in Coordinates |-> [d \in Coordinates |-> 0]]
    BY <1>2 DEF InitCache, NoSums
  <2> QED BY <2>1 DEF Accumulation!NewGrid, Accumulation!Zero
<1>3. CASE SetImage
  BY <1>1, <1>3 DEF SetImage
<1>4. CASE BeginPlan
  <2>1. phase' # "final" /\ UNCHANGED <<planned, gridSums>>
    BY <1>4 DEF BeginPlan, dataVars
  <2>2. CASE phase = "final"
    BY <2>1, <2>2 DEF Accumulation!Next, Accumulation!Resume
  <2>3. CASE phase # "final"
    BY <1>1, <2>1, <2>3
  <2> QED BY <2>2, <2>3
<1>5. ASSUME NEW c \in Coordinates, NEW g \in BOOLEAN, PlanSubgrid(c, g)
      PROVE  [Accumulation!Next]_Accumulation!accumulationVars
  <2>1. /\ phase # "final" /\ phase' # "final" /\ gridSums' = gridSums
        /\ planned' = IF mode = "gridding" THEN [planned EXCEPT ![c] = planned[c] + 1]
                      ELSE planned
    BY <1>5 DEF PlanSubgrid, dataVars
  <2>2. CASE mode = "gridding"
    BY <2>1, <2>2 DEF Accumulation!Next, Accumulation!Request
  <2>3. CASE mode # "gridding"
    BY <1>1, <2>1, <2>3
  <2> QED BY <2>2, <2>3
<1>6. CASE FinishBaseline
  BY <1>1, <1>6 DEF FinishBaseline, dataVars
<1>7. CASE FinishPlan
  BY <1>1, <1>7 DEF FinishPlan, dataVars
<1>8. CASE StartJob
  BY <1>1, <1>8 DEF StartJob, dataVars
<1>9. CASE AdderIteration
  BY <1>9, AdderAccumulates DEF Accumulation!Next
<1>10. CASE SplitterIteration
  BY <1>1, <1>10 DEF SplitterIteration, NextSubgrids
<1>11. CASE EndRun
  BY <1>1, <1>11 DEF EndRun, dataVars
<1>12. CASE GetFinalGrid
  BY <1>12, FinalDelivers DEF Accumulation!Next
<1>13. CASE UNCHANGED vars
  BY <1>1, <1>13 DEF vars, dataVars
<1> QED BY <1>2, <1>3, <1>4, <1>5, <1>6, <1>7, <1>8, <1>9, <1>10, <1>11, <1>12, <1>13
        DEF Next, RunStep, Accumulation!Next

(* Gridding with W-tiles implements the promise to the client: every        *)
(* accepted subgrid reaches the grid once, at its own coordinate, and all   *)
(* have when get_final_grid delivers.                                       *)
THEOREM GriddingImplementsAccumulation ==
  ASSUME FirstGroupInRange
  PROVE  Spec => ImplementsAccumulation
<1>1. Init => Accumulation!Init
  <2> SUFFICES ASSUME Init PROVE Accumulation!Init
    OBVIOUS
  <2>1. /\ phase # "final"
        /\ planned = [c \in Coordinates |-> 0]
        /\ gridSums = [c \in Coordinates |-> [d \in Coordinates |-> 0]]
    BY DEF Init, NoSums
  <2> QED BY <2>1 DEF Accumulation!Init, Accumulation!Zero
<1>2. TypeOK /\ SlotsPartitioned /\ ControlInv /\ HeldInv /\ CountInv /\ [Next]_vars
        /\ TypeOK' /\ CountInv' => [Accumulation!Next]_Accumulation!accumulationVars
  BY AccumulationStep
<1>3. Spec => []ControlInv
  BY ControlInvariant
<1>4. Spec => []HeldInv
  BY HeldInvariant
<1>5. Spec => [](CountInv /\ TilesSeparate)
  BY CountInvariant
<1> QED BY <1>1, <1>2, <1>3, <1>4, <1>5, TypeCorrect, SlotsStayPartitioned, PTL
        DEF Spec, ImplementsAccumulation, Accumulation!Spec

-----------------------------------------------------------------------------
(* Degridding: what a slot will be filled with when it is read. *)

(* No event after number j that is due before y subgrids are executed names t. *)
NotRefilled(es, t, y, j) ==
  \A i \in DOMAIN es : j < i /\ es[i].subgrid_index < y => \A p \in es[i].tiles : p[2] # t

(* Slot t, which now holds fill, will hold what it should for coordinate c   *)
(* when y subgrids have been executed: the last of the events es that is due *)
(* by then and names t is an initialization of this tile, or there is none   *)
(* and the slot holds it.                                                    *)
FilledBy(es, fill, should, c, t, y) ==
  \/ fill = should /\ NotRefilled(es, t, y, 0)
  \/ \E j \in DOMAIN es :
       es[j].subgrid_index < y /\ <<c, t>> \in es[j].tiles /\ NotRefilled(es, t, y, j)

(* When s events, 0 or 1, are applied. *)
LEMMA FilledLater ==
  ASSUME NEW es \in Seq(UpdateInfo), NEW left \in Seq(UpdateInfo), NEW s \in {0, 1},
         Len(left) = Len(es) - s, \A j \in DOMAIN left : left[j] = es[j + s],
         NEW c \in Coordinates, NEW t \in TileIds, NEW y, NEW now, NEW next, NEW should,
         FilledBy(es, now, should, c, t, y),
         s = 1 => /\ es[1].subgrid_index < y
                  /\ <<c, t>> \in es[1].tiles => next = should,
         s = 0 \/ (\A p \in es[1].tiles : p[2] # t) => next = now
  PROVE  FilledBy(left, next, should, c, t, y)
<1>1. /\ DOMAIN es = 1 .. Len(es) /\ Len(es) \in Nat
      /\ DOMAIN left = 1 .. Len(left) /\ Len(left) \in Nat
  BY LogElements
<1>2. \A j \in DOMAIN left : j + s \in DOMAIN es /\ left[j] = es[j + s]
  BY <1>1
<1>3. ASSUME NEW j \in Nat, NotRefilled(es, t, y, j), NEW k \in Nat, j <= k + s
      PROVE  NotRefilled(left, t, y, k)
  <2>1. \A i \in DOMAIN left : k < i => j < i + s
    BY <1>1, <1>3
  <2> QED BY <1>2, <1>3, <2>1 DEF NotRefilled
<1>4. CASE now = should /\ NotRefilled(es, t, y, 0)
  <2>1. NotRefilled(left, t, y, 0)
    BY <1>3, <1>4
  <2>2. s = 1 => \A p \in es[1].tiles : p[2] # t
    <3> SUFFICES ASSUME s = 1 PROVE \A p \in es[1].tiles : p[2] # t
      OBVIOUS
    <3>1. 1 \in DOMAIN es
      BY <1>1
    <3> QED BY <1>4, <3>1 DEF NotRefilled
  <2>3. next = now
    BY <2>2
  <2> QED BY <1>4, <2>1, <2>3 DEF FilledBy
<1>5. ASSUME NEW j \in DOMAIN es, es[j].subgrid_index < y, <<c, t>> \in es[j].tiles,
             NotRefilled(es, t, y, j)
      PROVE  FilledBy(left, next, should, c, t, y)
  <2>1. CASE s = 1 /\ j = 1
    <3>1. NotRefilled(left, t, y, 0)
      BY <1>3, <1>5, <2>1
    <3> QED BY <1>5, <2>1, <3>1 DEF FilledBy
  <2>2. CASE ~(s = 1 /\ j = 1)
    <3>1. j - s \in DOMAIN left /\ (j - s) + s = j /\ j - s \in Nat /\ j \in Nat
      BY <1>1, <2>2
    <3>2. left[j - s] = es[j]
      BY <3>1
    <3>3. NotRefilled(left, t, y, j - s)
      BY <1>3, <1>5, <3>1
    <3> QED BY <1>5, <3>1, <3>2, <3>3 DEF FilledBy
  <2> QED BY <2>1, <2>2
<1> QED BY <1>4, <1>5 DEF FilledBy

(* What holds when n subgrids are executed holds after more, if all events  *)
(* are due by then.                                                         *)
LEMMA FilledLonger ==
  ASSUME NEW es \in Seq(UpdateInfo), NEW n \in Nat, LogInOrder(es, n), NEW m \in Nat, n <= m,
         NEW c, NEW t, NEW fill, NEW should, FilledBy(es, fill, should, c, t, n)
  PROVE  FilledBy(es, fill, should, c, t, m)
<1>1. \A i \in DOMAIN es : es[i].subgrid_index < n /\ es[i].subgrid_index < m
  BY LogElements DEF LogInOrder
<1> QED BY <1>1 DEF FilledBy, NotRefilled

(* An initialization that is logged changes nothing for the subgrids before *)
(* it, nor for other slots.                                                 *)
LEMMA FilledNewEvent ==
  ASSUME NEW es \in Seq(UpdateInfo), NEW e \in UpdateInfo, NEW y,
         NEW c, NEW t, NEW fill, NEW should, FilledBy(es, fill, should, c, t, y),
         ~(e.subgrid_index < y) \/ \A p \in e.tiles : p[2] # t
  PROVE  FilledBy(Append(es, e), fill, should, c, t, y)
<1> DEFINE fs == Append(es, e)
           n == Len(es)
<1>1. /\ DOMAIN es = 1 .. n /\ n \in Nat
      /\ DOMAIN fs = 1 .. n + 1
      /\ \A i \in 1 .. n : fs[i] = es[i]
      /\ fs[n + 1] = e
  BY Appended
<1> HIDE DEF fs, n
<1>2. \A i \in DOMAIN fs : (i \in DOMAIN es /\ fs[i] = es[i]) \/ fs[i] = e
  BY <1>1
<1>3. \A j : NotRefilled(es, t, y, j) => NotRefilled(fs, t, y, j)
  BY <1>2 DEF NotRefilled
<1>4. \A j \in DOMAIN es : j \in DOMAIN fs /\ fs[j] = es[j]
  BY <1>1
<1>5. FilledBy(fs, fill, should, c, t, y)
  BY <1>3, <1>4 DEF FilledBy
<1> QED BY <1>5 DEF fs

(* The tile of a new initialization is filled from then on. *)
LEMMA FilledByNew ==
  ASSUME NEW es \in Seq(UpdateInfo), NEW e \in UpdateInfo, NEW y, e.subgrid_index < y,
         NEW c, NEW t, NEW fill, NEW should, <<c, t>> \in e.tiles
  PROVE  FilledBy(Append(es, e), fill, should, c, t, y)
<1> DEFINE fs == Append(es, e)
           n == Len(es)
<1>1. /\ DOMAIN fs = 1 .. n + 1 /\ n \in Nat
      /\ fs[n + 1] = e
  BY Appended
<1> HIDE DEF fs, n
<1>2. n + 1 \in DOMAIN fs /\ \A i \in DOMAIN fs : ~(n + 1 < i)
  BY <1>1
<1>3. NotRefilled(fs, t, y, n + 1)
  BY <1>2 DEF NotRefilled
<1>4. FilledBy(fs, fill, should, c, t, y)
  BY <1>1, <1>2, <1>3 DEF FilledBy
<1> QED BY <1>4 DEF fs

(* A tile joins the last initialization. *)
Joined(es, p) == [es EXCEPT ![Len(es)].tiles = @ \cup {p}]

(* A log of which the last event was extended. *)
LEMMA JoinedLog ==
  ASSUME NEW es \in Seq(UpdateInfo), es # <<>>, NEW p \in Coordinates \X TileIds
  PROVE  /\ DOMAIN Joined(es, p) = DOMAIN es
         /\ Len(es) \in DOMAIN es /\ \A i \in DOMAIN es : ~(Len(es) < i)
         /\ \A i \in DOMAIN es :
              /\ Joined(es, p)[i].subgrid_index = es[i].subgrid_index
              /\ Joined(es, p)[i].tiles = IF i = Len(es) THEN es[i].tiles \cup {p}
                                          ELSE es[i].tiles
<1>1. DOMAIN es = 1 .. Len(es) /\ Len(es) \in Nat
  BY LogElements
<1>2. Len(es) # 0
  OBVIOUS
<1>3. Len(es) \in DOMAIN es /\ \A i \in DOMAIN es : ~(Len(es) < i)
  BY <1>1, <1>2
<1>4. \A i \in DOMAIN es : es[i] \in [subgrid_index : Nat, tiles : SUBSET (Coordinates \X TileIds)]
  BY LogElements DEF UpdateInfo
<1>5. ASSUME NEW i \in DOMAIN es
      PROVE  /\ Joined(es, p)[i].subgrid_index = es[i].subgrid_index
             /\ Joined(es, p)[i].tiles = IF i = Len(es) THEN es[i].tiles \cup {p}
                                         ELSE es[i].tiles
  <2>1. CASE i = Len(es)
    <3>1. Joined(es, p)[i] = [es[i] EXCEPT !.tiles = es[i].tiles \cup {p}]
      BY <1>3, <2>1 DEF Joined
    <3> QED BY <1>4, <2>1, <3>1
  <2>2. CASE i # Len(es)
    <3>1. Joined(es, p)[i] = es[i]
      BY <1>3, <2>2 DEF Joined
    <3> QED BY <2>2, <3>1
  <2> QED BY <2>1, <2>2
<1>6. DOMAIN Joined(es, p) = DOMAIN es
  BY DEF Joined
<1> QED BY <1>3, <1>5, <1>6

(* It changes nothing for the subgrids before that event, nor for other slots. *)
LEMMA FilledJoined ==
  ASSUME NEW es \in Seq(UpdateInfo), es # <<>>, NEW p \in Coordinates \X TileIds, NEW y,
         NEW c, NEW t, NEW fill, NEW should, FilledBy(es, fill, should, c, t, y),
         ~(es[Len(es)].subgrid_index < y) \/ p[2] # t
  PROVE  FilledBy(Joined(es, p), fill, should, c, t, y)
<1> DEFINE fs == Joined(es, p)
           n == Len(es)
<1>1. /\ DOMAIN fs = DOMAIN es /\ n \in DOMAIN es
      /\ \A i \in DOMAIN es : /\ fs[i].subgrid_index = es[i].subgrid_index
                              /\ fs[i].tiles = IF i = n THEN es[i].tiles \cup {p}
                                               ELSE es[i].tiles
  BY JoinedLog
<1>2. ~(es[n].subgrid_index < y) \/ p[2] # t
  OBVIOUS
<1> HIDE DEF fs, n
<1>3. \A j : NotRefilled(es, t, y, j) => NotRefilled(fs, t, y, j)
  BY <1>1, <1>2 DEF NotRefilled
<1>4. FilledBy(fs, fill, should, c, t, y)
  BY <1>1, <1>3 DEF FilledBy
<1> QED BY <1>4 DEF fs

(* The tile that joined is filled after that event. *)
LEMMA FilledByJoined ==
  ASSUME NEW es \in Seq(UpdateInfo), es # <<>>, NEW p \in Coordinates \X TileIds, NEW y,
         NEW c, NEW t, NEW fill, NEW should, p = <<c, t>>, es[Len(es)].subgrid_index < y
  PROVE  FilledBy(Joined(es, p), fill, should, c, t, y)
<1> DEFINE fs == Joined(es, p)
           n == Len(es)
<1>1. /\ DOMAIN fs = DOMAIN es /\ n \in DOMAIN es /\ \A i \in DOMAIN es : ~(n < i)
      /\ fs[n].subgrid_index = es[n].subgrid_index
      /\ fs[n].tiles = es[n].tiles \cup {p}
  BY JoinedLog
<1>2. es[n].subgrid_index < y
  OBVIOUS
<1> HIDE DEF fs, n
<1>3. NotRefilled(fs, t, y, n)
  BY <1>1 DEF NotRefilled
<1>4. FilledBy(fs, fill, should, c, t, y)
  BY <1>1, <1>2, <1>3 DEF FilledBy
<1> QED BY <1>4 DEF fs

WillBeFilled(c, t, y) == FilledBy(Log, tileFill[t], FillFor(c), c, t, y)

(* Every subgrid to come will find its slot filled. *)
PendingFilled ==
  mode = "degridding" =>
    \A k \in DOMAIN metadata : k > Executed =>
      WillBeFilled(metadata[k].wtile_coordinate, metadata[k].wtile_index, k)

(* So will the next plan, for every tile of the cache. *)
CacheFilled ==
  mode = "degridding" =>
    \A c \in ActiveWtiles : WillBeFilled(c, wtileId[c], Len(metadata))

(* A slot that is free was not used since the last initialization: another  *)
(* tile can join that one.                                                  *)
FreeSince ==
  initializeSet # <<>> =>
    \A k \in DOMAIN metadata : k > initializeSet[Len(initializeSet)].subgrid_index =>
      metadata[k].wtile_index \notin freeWtiles

FillInv == PendingFilled /\ CacheFilled /\ FreeSince /\ DegridsCurrentGrid

(* The slot of an active tile is a slot of the buffer. *)
LEMMA ActiveSlots ==
  ASSUME TypeOK
  PROVE  \A c \in ActiveWtiles : c \in Coordinates /\ wtileId[c] \in TileIds
BY DEF TypeOK, WTilesTypeOK, ActiveWtiles

(* What is filled for subgrid k stays so when the cache takes subgrid i, if *)
(* the slot was not used since it became free.                              *)
LEMMA AddSubgridKeepsFilled ==
  ASSUME TypeOK, SlotsPartitioned, NEW i \in Nat, NEW x \in Coordinates, AddSubgrid(i, x),
         LogInOrder(initializeSet, i),
         NEW c, NEW t, NEW fill, NEW should, NEW y \in Nat, y <= i,
         FilledBy(initializeSet, fill, should, c, t, y),
         initializeSet # <<>> /\ y > initializeSet[Len(initializeSet)].subgrid_index
           => t \notin freeWtiles
  PROVE  FilledBy(initializeSet', fill, should, c, t, y)
<1>0. initializeSet \in Seq(UpdateInfo)
  BY DEF TypeOK, WTilesTypeOK
<1>1. CASE AccessActiveWtile(x)
  <2>1. UNCHANGED initializeSet
    BY <1>1 DEF AccessActiveWtile
  <2> QED BY <2>1
<1>2. CASE UseFreeWtile(i, x)
  <2>1. PICK id \in freeWtiles :
          initializeSet' = IF initializeSet = <<>>
                           THEN <<[subgrid_index |-> i, tiles |-> {<<x, id>>}]>>
                           ELSE Joined(initializeSet, <<x, id>>)
    BY <1>2 DEF UseFreeWtile, Joined
  <2>2. id \in TileIds
    BY DEF TypeOK, WTilesTypeOK
  <2>3. CASE initializeSet = <<>>
    <3> DEFINE e == [subgrid_index |-> i, tiles |-> {<<x, id>>}]
    <3>1. e \in UpdateInfo /\ e.subgrid_index = i
      BY <2>2 DEF UpdateInfo
    <3>2. initializeSet' = Append(initializeSet, e)
      BY <2>1, <2>3
    <3> HIDE DEF e
    <3>3. ~(e.subgrid_index < y)
      BY <3>1
    <3> QED BY <1>0, <3>1, <3>2, <3>3, FilledNewEvent
  <2>4. CASE initializeSet # <<>>
    <3> DEFINE p == <<x, id>>
    <3>1. p \in Coordinates \X TileIds /\ p[2] = id /\ initializeSet' = Joined(initializeSet, p)
      BY <2>1, <2>2, <2>4
    <3> HIDE DEF p
    <3>2. ~(initializeSet[Len(initializeSet)].subgrid_index < y) \/ p[2] # t
      <4>1. Len(initializeSet) \in DOMAIN initializeSet
        BY <1>0, <2>4
      <4>2. initializeSet[Len(initializeSet)].subgrid_index \in Nat
        BY <1>0, <4>1, LogElements
      <4> QED BY <2>4, <3>1, <4>2
    <3> QED BY <1>0, <2>4, <3>1, <3>2, FilledJoined
  <2> QED BY <2>3, <2>4
<1>3. CASE RetireWtiles(i, x)
  <2>1. PICK id \in {wtileId[r] : r \in LeastRecentlyUsed} :
          initializeSet' = Append(initializeSet, [subgrid_index |-> i, tiles |-> {<<x, id>>}])
    BY <1>3 DEF RetireWtiles
  <2> DEFINE e == [subgrid_index |-> i, tiles |-> {<<x, id>>}]
  <2>2. id \in TileIds
    BY ActiveSlots DEF LeastRecentlyUsed
  <2>3. e \in UpdateInfo /\ e.subgrid_index = i /\ initializeSet' = Append(initializeSet, e)
    BY <2>1, <2>2 DEF UpdateInfo
  <2> HIDE DEF e
  <2>4. ~(e.subgrid_index < y)
    BY <2>3
  <2> QED BY <1>0, <2>3, <2>4, FilledNewEvent
<1> QED BY <1>1, <1>2, <1>3 DEF AddSubgrid

(* After subgrid i is taken, every tile of the cache will be filled.  fill   *)
(* is what the slots hold, and should what they should for a coordinate.    *)
LEMMA AddSubgridCacheFilled ==
  ASSUME TypeOK, SlotsPartitioned, NEW i \in Nat, NEW x \in Coordinates, AddSubgrid(i, x),
         LogInOrder(initializeSet, i), NEW fill, NEW should,
         \A c \in ActiveWtiles :
           FilledBy(initializeSet, fill[wtileId[c]], should[c], c, wtileId[c], i),
         NEW c \in ActiveWtiles'
  PROVE  FilledBy(initializeSet', fill[wtileId'[c]], should[c], c, wtileId'[c], i + 1)
<1>0. /\ initializeSet \in Seq(UpdateInfo) /\ c \in Coordinates /\ i + 1 \in Nat /\ i < i + 1
      /\ \A z \in Coordinates : wtileId[z] \in TileIds \cup {NoTile}
  BY DEF TypeOK, WTilesTypeOK, ActiveWtiles
<1>1. \A z \in ActiveWtiles :
        FilledBy(initializeSet, fill[wtileId[z]], should[z], z, wtileId[z], i + 1)
  BY <1>0, FilledLonger
<1>2. CASE AccessActiveWtile(x)
  <2>1. UNCHANGED <<initializeSet, wtileId>>
    BY <1>2 DEF AccessActiveWtile
  <2>2. c \in ActiveWtiles
    BY <2>1 DEF ActiveWtiles
  <2> QED BY <1>1, <2>1, <2>2
<1>3. CASE UseFreeWtile(i, x)
  <2>1. PICK id \in freeWtiles :
          /\ wtileId' = [wtileId EXCEPT ![x] = id]
          /\ initializeSet' = IF initializeSet = <<>>
                              THEN <<[subgrid_index |-> i, tiles |-> {<<x, id>>}]>>
                              ELSE Joined(initializeSet, <<x, id>>)
    BY <1>3 DEF UseFreeWtile, Joined
  <2>2. id \in TileIds
    BY DEF TypeOK, WTilesTypeOK
  <2>3. c # x => c \in ActiveWtiles /\ wtileId'[c] = wtileId[c] /\ wtileId[c] # id
    <3>1. c # x => wtileId'[c] = wtileId[c]
      BY <1>0, <2>1 DEF TypeOK, WTilesTypeOK
    <3>2. c # x => c \in ActiveWtiles
      BY <1>0, <3>1 DEF ActiveWtiles
    <3> QED BY <3>1, <3>2 DEF SlotsPartitioned
  <2>4. c = x => wtileId'[c] = id
    BY <1>0, <2>1 DEF TypeOK, WTilesTypeOK
  <2>5. CASE initializeSet = <<>>
    <3> DEFINE e == [subgrid_index |-> i, tiles |-> {<<x, id>>}]
    <3>1. /\ e \in UpdateInfo /\ e.subgrid_index = i /\ <<x, id>> \in e.tiles
          /\ \A p \in e.tiles : p[2] = id
      BY <2>2 DEF UpdateInfo
    <3>2. initializeSet' = Append(initializeSet, e)
      BY <2>1, <2>5
    <3> HIDE DEF e
    <3>3. CASE c = x
      BY <1>0, <2>4, <3>1, <3>2, <3>3, FilledByNew
    <3>4. CASE c # x
      <4>1. \A p \in e.tiles : p[2] # wtileId[c]
        BY <2>3, <3>1, <3>4
      <4>2. FilledBy(Append(initializeSet, e), fill[wtileId[c]], should[c], c, wtileId[c], i + 1)
        BY <1>0, <1>1, <2>3, <3>1, <3>4, <4>1, FilledNewEvent
      <4> QED BY <2>3, <3>2, <3>4, <4>2
    <3> QED BY <3>3, <3>4
  <2>6. CASE initializeSet # <<>>
    <3> DEFINE p == <<x, id>>
    <3>1. p \in Coordinates \X TileIds /\ p[2] = id /\ initializeSet' = Joined(initializeSet, p)
      BY <2>1, <2>2, <2>6
    <3>2. p = <<x, id>>
      OBVIOUS
    <3> HIDE DEF p
    <3>3. CASE c = x
      <4>1. Len(initializeSet) \in DOMAIN initializeSet
        BY <1>0, <2>6
      <4>2. initializeSet[Len(initializeSet)].subgrid_index < i + 1
        BY <1>0, <4>1, LogElements DEF LogInOrder
      <4> QED BY <1>0, <2>4, <2>6, <3>1, <3>2, <3>3, <4>2, FilledByJoined
    <3>4. CASE c # x
      <4>1. p[2] # wtileId[c]
        BY <2>3, <3>1, <3>4
      <4>2. FilledBy(Joined(initializeSet, p), fill[wtileId[c]], should[c], c, wtileId[c], i + 1)
        BY <1>0, <1>1, <2>3, <2>6, <3>1, <3>4, <4>1, FilledJoined
      <4> QED BY <2>3, <3>1, <3>4, <4>2
    <3> QED BY <3>3, <3>4
  <2> QED BY <2>5, <2>6
<1>4. CASE RetireWtiles(i, x)
  <2> DEFINE retired == LeastRecentlyUsed
  <2>1. PICK id \in {wtileId[r] : r \in retired} :
          /\ wtileId' = [z \in Coordinates |->
                           IF z = x THEN id
                           ELSE IF z \in retired THEN NoTile ELSE wtileId[z]]
          /\ initializeSet' = Append(initializeSet, [subgrid_index |-> i, tiles |-> {<<x, id>>}])
    BY <1>4 DEF RetireWtiles
  <2>2. retired \in SUBSET ActiveWtiles
    BY DEF LeastRecentlyUsed
  <2> HIDE DEF retired
  <2>3. PICK r \in retired : id = wtileId[r]
    OBVIOUS
  <2>4. id \in TileIds
    BY <2>2, <2>3, ActiveSlots
  <2> DEFINE e == [subgrid_index |-> i, tiles |-> {<<x, id>>}]
  <2>5. /\ e \in UpdateInfo /\ e.subgrid_index = i /\ <<x, id>> \in e.tiles
        /\ \A p \in e.tiles : p[2] = id
        /\ initializeSet' = Append(initializeSet, e)
    BY <2>1, <2>4 DEF UpdateInfo
  <2> HIDE DEF e
  <2>6. CASE c = x
    <3>1. wtileId'[c] = id
      BY <1>0, <2>1, <2>6
    <3> QED BY <1>0, <2>5, <2>6, <3>1, FilledByNew
  <2>7. CASE c # x
    <3>1. c \notin retired /\ wtileId'[c] = wtileId[c] /\ c \in ActiveWtiles
      BY <1>0, <2>1, <2>7 DEF ActiveWtiles
    <3>2. wtileId[c] # id
      BY <2>2, <2>3, <3>1 DEF SlotsPartitioned
    <3>3. \A p \in e.tiles : p[2] # wtileId[c]
      BY <2>5, <3>2
    <3>4. FilledBy(Append(initializeSet, e), fill[wtileId[c]], should[c], c, wtileId[c], i + 1)
      BY <1>0, <1>1, <2>5, <3>1, <3>3, FilledNewEvent
    <3> QED BY <2>5, <3>1, <3>4
  <2> QED BY <2>6, <2>7
<1> QED BY <1>2, <1>3, <1>4 DEF AddSubgrid

(* A slot that the cache hands out was not freed before the initialization  *)
(* that it joins.                                                           *)
LEMMA PlanSubgridFreeSince ==
  ASSUME TypeOK, ControlInv, FreeSince, SlotsPartitioned', wtileId' \in [Coordinates -> TileIds \cup {NoTile}],
         NEW x \in Coordinates, NEW g \in BOOLEAN, PlanSubgrid(x, g), wtileId'[x] \in TileIds
  PROVE  FreeSince'
<1> DEFINE n == Len(metadata)
           new == [wtile_coordinate |-> x, wtile_index |-> wtileId'[x], firstGroup |-> g]
           log == initializeSet
<1>0. log \in Seq(UpdateInfo) /\ LogInOrder(log, n)
  BY DEF TypeOK, WTilesTypeOK, ControlInv, CacheLogsInv
<1>1. metadata' = Append(metadata, new) /\ AddSubgrid(n, x)
  BY DEF PlanSubgrid
<1>2. /\ DOMAIN metadata' = 1 .. n + 1 /\ n \in Nat /\ DOMAIN metadata = 1 .. n
      /\ \A k \in 1 .. n : metadata'[k] = metadata[k]
      /\ metadata'[n + 1].wtile_index = wtileId'[x]
  BY <1>1 DEF TypeOK
<1>3. wtileId'[x] \notin freeWtiles'
  BY DEF SlotsPartitioned, ActiveWtiles, TileIds, NoTile
<1>4. SUFFICES ASSUME log' # <<>>, NEW k \in 1 .. n, k > log'[Len(log')].subgrid_index
               PROVE  metadata[k].wtile_index \notin freeWtiles'
  <2>1. \A k \in 1 .. n + 1 : k \in 1 .. n \/ k = n + 1
    BY <1>2
  <2> HIDE DEF n, new
  <2> QED BY <1>2, <1>3, <2>1 DEF FreeSince
<1> HIDE DEF new, n
<1>5. ASSUME log # <<>>, log'[Len(log')].subgrid_index = log[Len(log)].subgrid_index,
             freeWtiles' \subseteq freeWtiles
      PROVE  metadata[k].wtile_index \notin freeWtiles'
  BY <1>2, <1>4, <1>5 DEF FreeSince
<1>6. ASSUME log'[Len(log')].subgrid_index = n PROVE FALSE
  BY <1>2, <1>4, <1>6
<1>7. CASE AccessActiveWtile(x)
  BY <1>4, <1>5, <1>7 DEF AccessActiveWtile
<1>8. CASE UseFreeWtile(n, x)
  <2>1. PICK id \in freeWtiles :
          /\ freeWtiles' = freeWtiles \ {id}
          /\ log' = IF log = <<>> THEN <<[subgrid_index |-> n, tiles |-> {<<x, id>>}]>>
                    ELSE Joined(log, <<x, id>>)
    BY <1>8 DEF UseFreeWtile, Joined
  <2>2. CASE log = <<>>
    <3>1. log'[Len(log')].subgrid_index = n
      BY <2>1, <2>2
    <3> QED BY <1>6, <3>1
  <2>3. CASE log # <<>>
    <3> DEFINE p == <<x, id>>
    <3>1. p \in Coordinates \X TileIds /\ log' = Joined(log, p)
      BY <2>1, <2>3 DEF TypeOK, WTilesTypeOK
    <3> HIDE DEF p
    <3>2. Len(log') = Len(log)
      <4>1. Len(Joined(log, p)) = Len(log)
        BY DEF Joined
      <4> QED BY <3>1, <4>1
    <3>3. Joined(log, p)[Len(log)].subgrid_index = log[Len(log)].subgrid_index
      BY <1>0, <2>3, <3>1, JoinedLog
    <3> QED BY <1>5, <2>1, <2>3, <3>1, <3>2, <3>3
  <2> QED BY <2>2, <2>3
<1>9. CASE RetireWtiles(n, x)
  <2>1. PICK id \in {wtileId[r] : r \in LeastRecentlyUsed} :
          log' = Append(log, [subgrid_index |-> n, tiles |-> {<<x, id>>}])
    BY <1>9 DEF RetireWtiles
  <2> DEFINE e == [subgrid_index |-> n, tiles |-> {<<x, id>>}]
  <2>2. e \in UpdateInfo /\ e.subgrid_index = n /\ log' = Append(log, e)
    <3>1. id \in TileIds
      BY ActiveSlots DEF LeastRecentlyUsed
    <3> QED BY <1>2, <2>1, <3>1 DEF UpdateInfo
  <2> HIDE DEF e
  <2>3. Len(Append(log, e)) = Len(log) + 1 /\ Append(log, e)[Len(log) + 1] = e
    BY <1>0, <2>2, Appended
  <2>4. log'[Len(log')] = e
    BY <2>2, <2>3
  <2> QED BY <1>6, <2>2, <2>4
<1> QED BY <1>1, <1>7, <1>8, <1>9 DEF AddSubgrid

(* The new subgrid of a plan, and those before it, will find their slots    *)
(* filled.                                                                  *)
LEMMA PlanSubgridFill ==
  ASSUME TypeOK, SlotsPartitioned, ControlInv, FillInv, TypeOK', SlotsPartitioned',
         NEW x \in Coordinates, NEW g \in BOOLEAN, PlanSubgrid(x, g)
  PROVE  FillInv'
<1> DEFINE n == Len(metadata)
           new == [wtile_coordinate |-> x, wtile_index |-> wtileId'[x], firstGroup |-> g]
<1>1. /\ phase = "plan" /\ phase' = "plan" /\ mode' = mode
      /\ metadata' = Append(metadata, new) /\ AddSubgrid(n, x)
      /\ UNCHANGED <<tileFill, gridId, reads>>
  BY DEF PlanSubgrid, dataVars
<1>2. /\ DOMAIN metadata' = 1 .. n + 1 /\ n \in Nat /\ DOMAIN metadata = 1 .. n
      /\ Len(metadata') = n + 1
      /\ \A k \in 1 .. n : metadata'[k] = metadata[k]
      /\ metadata'[n + 1].wtile_index = wtileId'[x]
      /\ metadata'[n + 1].wtile_coordinate = x
  BY <1>1 DEF TypeOK
<1>3. /\ LogInOrder(initializeSet, n) /\ initializeSet \in Seq(UpdateInfo)
      /\ Executed = 0 /\ Executed' = 0
  BY <1>1 DEF TypeOK, WTilesTypeOK, ControlInv, CacheLogsInv, Executed
<1>4. wtileId'[x] \in TileIds
  BY <1>1, <1>2, AddSubgridTypeOK DEF TypeOK
<1>5. DegridsCurrentGrid'
  BY <1>1 DEF FillInv, DegridsCurrentGrid, FillFor
<1>6. FreeSince'
  BY <1>4, PlanSubgridFreeSince DEF FillInv, TypeOK, WTilesTypeOK
<1>7. CASE mode # "degridding"
  BY <1>1, <1>5, <1>6, <1>7 DEF FillInv, PendingFilled, CacheFilled
<1>8. CASE mode = "degridding"
  <2>1. Log = initializeSet /\ Log' = initializeSet'
    BY <1>1, <1>8 DEF Log
  <2> DEFINE should == [c \in Coordinates |-> FillFor(c)]
  <2>2. \A c \in Coordinates : FillFor(c) = should[c] /\ FillFor(c)' = should[c]
    BY <1>1 DEF FillFor
  <2> HIDE DEF should, n, new
  <2>3. \A c \in ActiveWtiles :
          FilledBy(initializeSet, tileFill[wtileId[c]], should[c], c, wtileId[c], n)
    BY <1>8, <2>1, <2>2, ActiveSlots DEF FillInv, CacheFilled, WillBeFilled, n
  <2>4. \A c \in ActiveWtiles' :
          FilledBy(initializeSet', tileFill[wtileId'[c]], should[c], c, wtileId'[c], n + 1)
    BY <1>1, <1>2, <1>3, <2>3, AddSubgridCacheFilled
  <2>5. \A c \in ActiveWtiles' : c \in Coordinates
    BY DEF ActiveWtiles
  <2>6. CacheFilled'
    BY <1>1, <1>2, <2>1, <2>2, <2>4, <2>5 DEF CacheFilled, WillBeFilled
  <2>7. ASSUME NEW k \in 1 .. n
        PROVE  FilledBy(initializeSet', tileFill[metadata[k].wtile_index],
                        should[metadata[k].wtile_coordinate], metadata[k].wtile_coordinate,
                        metadata[k].wtile_index, k)
    <3>1. /\ k \in DOMAIN metadata /\ k > Executed /\ k \in Nat /\ k <= n
      BY <1>2, <1>3
    <3>2. metadata[k].wtile_coordinate \in Coordinates
      BY <3>1, PlanSequences
    <3>3. FilledBy(initializeSet, tileFill[metadata[k].wtile_index],
                   should[metadata[k].wtile_coordinate], metadata[k].wtile_coordinate,
                   metadata[k].wtile_index, k)
      BY <1>8, <2>1, <2>2, <3>1, <3>2 DEF FillInv, PendingFilled, WillBeFilled
    <3>4. initializeSet # <<>> /\ k > initializeSet[Len(initializeSet)].subgrid_index
            => metadata[k].wtile_index \notin freeWtiles
      BY <3>1 DEF FillInv, FreeSince
    <3> QED BY <1>1, <1>2, <1>3, <3>1, <3>3, <3>4, AddSubgridKeepsFilled
  <2>8. FilledBy(initializeSet', tileFill[wtileId'[x]], should[x], x, wtileId'[x], n + 1)
    <3>1. x \in ActiveWtiles'
      BY <1>4 DEF ActiveWtiles, TileIds, NoTile
    <3> QED BY <2>4, <3>1
  <2>9. \A k \in 1 .. n + 1 : k \in 1 .. n \/ k = n + 1
    BY <1>2
  <2>10. ASSUME NEW k \in DOMAIN metadata'
         PROVE  WillBeFilled(metadata[k].wtile_coordinate, metadata[k].wtile_index, k)'
    <3>1. CASE k \in 1 .. n
      <4>1. metadata'[k] = metadata[k] /\ metadata[k].wtile_coordinate \in Coordinates
        BY <1>2, <3>1, PlanSequences
      <4> QED BY <1>1, <2>1, <2>2, <2>7, <3>1, <4>1 DEF WillBeFilled
    <3>2. CASE k = n + 1
      BY <1>1, <1>2, <2>1, <2>2, <2>8, <3>2 DEF WillBeFilled
    <3> QED BY <1>2, <2>9, <3>1, <3>2
  <2>11. PendingFilled'
    BY <2>10 DEF PendingFilled
  <2> QED BY <1>5, <1>6, <2>6, <2>11 DEF FillInv
<1> QED BY <1>7, <1>8

(* Filling tiles, of which no two are in the same slot. *)
LEMMA FilledTile ==
  ASSUME TypeOK, NEW T, \A p, q \in T : p[1] = q[1] \/ p[2] = q[2] => p = q,
         NEW t \in TileIds, NEW c \in Coordinates
  PROVE  /\ <<c, t>> \in T => Filled(T)[t] = FillFor(c)
         /\ (\A p \in T : p[2] # t) => Filled(T)[t] = tileFill[t]
<1> DEFINE cs == {d \in Coordinates : <<d, t>> \in T}
           d == CHOOSE x \in cs : TRUE
<1>1. Filled(T)[t] = IF cs = {} THEN tileFill[t] ELSE FillFor(d)
  BY DEF Filled
<1>2. ASSUME <<c, t>> \in T PROVE Filled(T)[t] = FillFor(c)
  <2>1. cs # {}
    BY <1>2
  <2>2. <<d, t>> \in T
    <3>1. d \in cs
      BY <2>1
    <3> QED BY <3>1
  <2> HIDE DEF d
  <2>3. <<d, t>>[2] = t /\ <<c, t>>[2] = t /\ <<d, t>>[1] = d /\ <<c, t>>[1] = c
    OBVIOUS
  <2>4. <<d, t>> = <<c, t>>
    BY <1>2, <2>2, <2>3
  <2>5. d = c
    BY <2>3, <2>4
  <2> QED BY <1>1, <2>1, <2>5
<1>3. ASSUME \A p \in T : p[2] # t PROVE Filled(T)[t] = tileFill[t]
  <2>1. \A x \in Coordinates : <<x, t>>[2] = t
    OBVIOUS
  <2>2. cs = {}
    BY <1>3, <2>1
  <2> QED BY <1>1, <2>2
<1> QED BY <1>2, <1>3

(* An iteration of the splitter reads slots that were filled in time, and   *)
(* leaves the others as they will be read.                                  *)
LEMMA SplitterFill ==
  ASSUME TypeOK, SlotsPartitioned, ControlInv, FillInv, SplitterIteration
  PROVE  FillInv'
<1> DEFINE left == EventsAfterDue
           n == Executed + NrToProcess
<1>1. /\ phase = "run" /\ phase' = "run" /\ mode = "degridding" /\ mode' = "degridding"
      /\ ~JobDone /\ NextSubgrids
      /\ UNCHANGED <<wtileId, metadata, initializeSet, gridId>> /\ events' = left
      /\ tileFill' = Filled(DueTiles)
      /\ reads' = {<<metadata[k].wtile_coordinate,
                     Filled(DueTiles)[metadata[k].wtile_index]>> : k \in Processed}
  BY DEF SplitterIteration, NextSubgrids, wtilesVars
<1>2. BaselinesInv /\ JobInv /\ EventsInv
  BY DEF ControlInv
<1>3. /\ NrToProcess \in Nat /\ 0 < NrToProcess
      /\ \A j \in DOMAIN left : n <= left[j].subgrid_index
      /\ Processed = {k \in DOMAIN metadata : Executed < k /\ k <= n}
  BY <1>1, <1>2, IterationFlow
<1>4. Executed \in Nat /\ Position = Executed /\ Executed' = n
  BY <1>1, <1>2, ExecutedBounds, IterationDone, PlanSequences
<1>5. PICK s \in {0, 1} : EventTaken(s)
  BY DueEvent
<1>6. /\ events \in Seq(UpdateInfo) /\ left \in Seq(UpdateInfo)
      /\ Len(left) = Len(events) - s /\ \A j \in DOMAIN left : left[j] = events[j + s]
      /\ \A j \in DOMAIN left : left[j].subgrid_index \in Nat
  BY <1>5, DueEvent, LogElements DEF TypeOK, EventTaken
<1>7. /\ s = 1 => /\ 1 \in DOMAIN events /\ events[1].subgrid_index = Executed
                  /\ DueTiles = events[1].tiles
      /\ s = 0 => DueTiles = {}
  BY <1>4, <1>5 DEF EventTaken
<1>8. Log = events /\ Log' = left
  BY <1>1 DEF Log
<1>9. /\ DOMAIN metadata \subseteq Nat
      /\ \A k \in DOMAIN metadata : /\ metadata[k].wtile_coordinate \in Coordinates
                                    /\ metadata[k].wtile_index \in TileIds
  BY PlanSequences
<1>10. \A p, q \in DueTiles : p[1] = q[1] \/ p[2] = q[2] => p = q
  BY <1>7 DEF EventsInv, LogInOrder, ControlInv
<1> HIDE DEF left, n
<1>11. ASSUME NEW c \in Coordinates, NEW t \in TileIds, NEW y,
              s = 1 => events[1].subgrid_index < y, WillBeFilled(c, t, y)
       PROVE  FilledBy(left, tileFill'[t], FillFor(c), c, t, y)
  <2>1. FilledBy(events, tileFill[t], FillFor(c), c, t, y)
    BY <1>8, <1>11 DEF WillBeFilled
  <2>2. s = 1 /\ <<c, t>> \in events[1].tiles => tileFill'[t] = FillFor(c)
    BY <1>1, <1>7, <1>10, FilledTile
  <2>3. s = 0 \/ (\A p \in events[1].tiles : p[2] # t) => tileFill'[t] = tileFill[t]
    <3>1. (\A p \in DueTiles : p[2] # t) => tileFill'[t] = tileFill[t]
      BY <1>1, <1>10, FilledTile
    <3> QED BY <1>7, <3>1
  <2>4. s = 1 => /\ events[1].subgrid_index < y
                 /\ <<c, t>> \in events[1].tiles => tileFill'[t] = FillFor(c)
    BY <1>11, <2>2
  <2> QED BY <1>6, <2>1, <2>3, <2>4, FilledLater
<1>12. \A c : FillFor(c)' = FillFor(c)
  BY <1>1 DEF FillFor
<1>13. ASSUME NEW k \in DOMAIN metadata, k > Executed
       PROVE  FilledBy(left, tileFill'[metadata[k].wtile_index],
                       FillFor(metadata[k].wtile_coordinate),
                       metadata[k].wtile_coordinate, metadata[k].wtile_index, k)
  <2>1. WillBeFilled(metadata[k].wtile_coordinate, metadata[k].wtile_index, k)
    BY <1>1, <1>13 DEF FillInv, PendingFilled
  <2>2. s = 1 => events[1].subgrid_index < k
    BY <1>4, <1>7, <1>9, <1>13
  <2> QED BY <1>9, <1>11, <2>1, <2>2
<1>14. PendingFilled'
  <2>1. \A k \in DOMAIN metadata : k > n => k > Executed
    BY <1>3, <1>4, <1>9 DEF n
  <2>2. ASSUME NEW k \in DOMAIN metadata, k > n
        PROVE  WillBeFilled(metadata[k].wtile_coordinate, metadata[k].wtile_index, k)'
    BY <1>1, <1>8, <1>12, <1>13, <2>1, <2>2 DEF WillBeFilled
  <2> QED BY <1>1, <1>4, <2>2 DEF PendingFilled
<1>15. CacheFilled'
  <2>1. ASSUME NEW c \in ActiveWtiles
        PROVE  WillBeFilled(c, wtileId[c], Len(metadata))'
    <3>1. c \in Coordinates /\ wtileId[c] \in TileIds
      BY ActiveSlots
    <3>2. s = 1 => events[1].subgrid_index < Len(metadata)
      BY <1>7 DEF ControlInv, EventsInv, LogInOrder
    <3>3. WillBeFilled(c, wtileId[c], Len(metadata))
      BY <1>1 DEF FillInv, CacheFilled
    <3>4. FilledBy(left, tileFill'[wtileId[c]], FillFor(c), c, wtileId[c], Len(metadata))
      BY <1>11, <3>1, <3>2, <3>3
    <3> QED BY <1>1, <1>8, <1>12, <3>4 DEF WillBeFilled
  <2>2. ActiveWtiles' = ActiveWtiles
    BY <1>1 DEF ActiveWtiles
  <2> QED BY <1>1, <2>1, <2>2 DEF CacheFilled
<1>16. FreeSince'
  BY <1>1 DEF FillInv, FreeSince, NextSubgrids, wtilesVars
<1>17. DegridsCurrentGrid'
  <2>1. ASSUME NEW k \in Processed
        PROVE  tileFill'[metadata[k].wtile_index] = FillFor(metadata[k].wtile_coordinate)
    <3>1. k \in DOMAIN metadata /\ k > Executed /\ k <= n /\ k \in Nat /\ n \in Nat
      BY <1>3, <1>4, <1>9 DEF n
    <3>2. \A j \in DOMAIN left : ~(left[j].subgrid_index < k)
      BY <1>3, <1>6, <3>1
    <3> QED BY <1>13, <3>1, <3>2 DEF FilledBy
  <2>2. ASSUME NEW r \in reads' PROVE r[2] = FillFor(r[1])'
    <3>1. PICK k \in Processed : r = <<metadata[k].wtile_coordinate,
                                       tileFill'[metadata[k].wtile_index]>>
      BY <1>1
    <3> QED BY <1>12, <2>1, <3>1
  <2> QED BY <2>2 DEF DegridsCurrentGrid
<1> QED BY <1>14, <1>15, <1>16, <1>17 DEF FillInv

(* With an empty log, what the cache holds is filled now. *)
LEMMA FilledEmptyLog ==
  ASSUME NEW fill, NEW should, NEW c, NEW t, NEW y
  PROVE  FilledBy(<<>>, fill, should, c, t, y) <=> fill = should
BY DEF FilledBy, NotRefilled

(* Degridding stays in step with the cache, whatever the proxy does.        *)
LEMMA FillStep ==
  ASSUME FreshCacheForGrid, TypeOK, SlotsPartitioned, ControlInv, FillInv, [Next]_vars,
         TypeOK', SlotsPartitioned'
  PROVE  FillInv'
<1>1. ASSUME Log' = Log, Executed' = Executed,
             UNCHANGED <<wtileId, mode, metadata, tileFill, gridId, reads>>,
             initializeSet' = <<>> \/ UNCHANGED <<initializeSet, freeWtiles>>
      PROVE  FillInv'
  <2>1. \A c : FillFor(c)' = FillFor(c)
    BY <1>1 DEF FillFor
  <2>2. \A c, t, y : WillBeFilled(c, t, y)' <=> WillBeFilled(c, t, y)
    BY <1>1, <2>1 DEF WillBeFilled
  <2>3. PendingFilled'
    BY <1>1, <2>2 DEF FillInv, PendingFilled
  <2>4. CacheFilled'
    BY <1>1, <2>2 DEF FillInv, CacheFilled, ActiveWtiles
  <2>5. FreeSince'
    BY <1>1 DEF FillInv, FreeSince
  <2>6. DegridsCurrentGrid'
    BY <1>1, <2>1 DEF FillInv, DegridsCurrentGrid
  <2> QED BY <2>3, <2>4, <2>5, <2>6 DEF FillInv
<1>2. ASSUME metadata' = <<>>, reads' = {}, Log = <<>>, Log' = <<>>, initializeSet' = <<>>,
             UNCHANGED <<wtileId, mode, tileFill, gridId>>
      PROVE  FillInv'
  <2>1. \A c : FillFor(c)' = FillFor(c)
    BY <1>2 DEF FillFor
  <2>3. ASSUME mode = "degridding", NEW c \in ActiveWtiles
        PROVE  WillBeFilled(c, wtileId[c], Len(metadata))'
    <3>1. WillBeFilled(c, wtileId[c], Len(metadata))
      BY <2>3 DEF FillInv, CacheFilled
    <3>2. tileFill[wtileId[c]] = FillFor(c)
      BY <1>2, <3>1, FilledEmptyLog DEF WillBeFilled
    <3>3. tileFill'[wtileId'[c]] = FillFor(c)'
      BY <1>2, <2>1, <3>2
    <3> QED BY <1>2, <3>3, FilledEmptyLog DEF WillBeFilled
  <2>4. CacheFilled'
    BY <1>2, <2>3 DEF CacheFilled, ActiveWtiles
  <2>5. PendingFilled' /\ FreeSince' /\ DegridsCurrentGrid'
    BY <1>2 DEF PendingFilled, FreeSince, DegridsCurrentGrid
  <2> QED BY <2>4, <2>5 DEF FillInv
<1>3. ASSUME metadata' = <<>>, reads' = {}, initializeSet' = <<>>,
             mode' = "degridding" => ActiveWtiles' = {}
      PROVE  FillInv'
  BY <1>3 DEF FillInv, PendingFilled, CacheFilled, FreeSince, DegridsCurrentGrid
<1>4. ASSUME NEW m \in Modes, InitCache(m) PROVE FillInv'
  <2>1. metadata' = <<>> /\ reads' = {} /\ initializeSet' = <<>>
    BY <1>4 DEF InitCache, NewCache, planVars, ControlInv, PhaseInv
  <2>2. ActiveWtiles' = {}
    BY <1>4 DEF InitCache, NewCache, ActiveWtiles
  <2> QED BY <1>3, <2>1, <2>2
<1>5. CASE SetImage
  <2>1. metadata' = <<>> /\ reads' = {} /\ initializeSet' = <<>>
    BY <1>5 DEF SetImage, planVars, wtilesVars, ControlInv, PhaseInv
  <2>2. ActiveWtiles' = {}
    BY <1>5 DEF SetImage, wtilesVars, ActiveWtiles
  <2> QED BY <1>3, <2>1, <2>2
<1>6. CASE BeginPlan
  <2>1. /\ metadata' = <<>> /\ reads' = {} /\ initializeSet' = <<>> /\ Log' = <<>>
        /\ UNCHANGED <<wtileId, mode, tileFill, gridId>>
    BY <1>6 DEF BeginPlan, wtilesVars, dataVars, ControlInv, PhaseInv, Log
  <2>2. Log = <<>>
    BY <1>6, LogFacts DEF BeginPlan
  <2> QED BY <1>2, <2>1, <2>2
<1>7. ASSUME NEW c \in Coordinates, NEW g \in BOOLEAN, PlanSubgrid(c, g)
      PROVE  FillInv'
  BY <1>7, PlanSubgridFill
<1>8. CASE FinishBaseline
  BY <1>1, <1>8 DEF FinishBaseline, wtilesVars, dataVars, Log, Executed
<1>9. CASE FinishPlan
  <2>1. /\ UNCHANGED <<wtileId, mode, metadata, tileFill, gridId, reads>>
        /\ initializeSet' = <<>>
    BY <1>9 DEF FinishPlan, TakeUpdateSets, dataVars
  <2>2. Log' = Log
    BY <1>9 DEF FinishPlan, Log
  <2>3. Executed' = Executed
    BY <1>9, FinishPlanControl DEF FinishPlan, Executed
  <2> QED BY <1>1, <2>1, <2>2, <2>3
<1>10. CASE StartJob
  <2>1. /\ UNCHANGED <<wtileId, mode, metadata, tileFill, gridId, reads, initializeSet, freeWtiles>>
        /\ Log' = Log
    BY <1>10 DEF StartJob, wtilesVars, planVars, dataVars, Log
  <2>2. Executed' = Executed
    BY <1>10, StartJobControl
  <2> QED BY <1>1, <2>1, <2>2
<1>11. CASE AdderIteration
  <2>1. /\ mode' = "gridding" /\ UNCHANGED <<metadata, initializeSet, freeWtiles, gridId, reads>>
    BY <1>11 DEF AdderIteration, NextSubgrids, wtilesVars
  <2>2. PendingFilled' /\ CacheFilled'
    BY <2>1 DEF PendingFilled, CacheFilled
  <2>3. FreeSince' /\ DegridsCurrentGrid'
    BY <2>1 DEF FillInv, FreeSince, DegridsCurrentGrid, FillFor
  <2> QED BY <2>2, <2>3 DEF FillInv
<1>12. CASE SplitterIteration
  BY <1>12, SplitterFill
<1>13. CASE EndRun
  <2>1. /\ metadata' = <<>> /\ reads' = {} /\ events' = <<>>
        /\ phase = "run" /\ phase' = "idle"
        /\ UNCHANGED <<wtileId, mode, tileFill, gridId, initializeSet>>
    BY <1>13 DEF EndRun, wtilesVars, dataVars
  <2>2. events = <<>>
    BY <1>13, AllApplied DEF EndRun
  <2>3. Log = <<>> /\ Log' = <<>> /\ initializeSet' = <<>>
    BY <2>1, <2>2 DEF Log, ControlInv, PhaseInv
  <2> QED BY <1>2, <2>1, <2>3
<1>14. CASE GetFinalGrid
  <2>1. /\ mode' = "gridding" /\ metadata' = <<>> /\ reads' = {} /\ initializeSet' = <<>>
    BY <1>14 DEF GetFinalGrid, ClearWtiles, planVars, ControlInv, PhaseInv
  <2> QED BY <1>3, <2>1
<1>15. CASE UNCHANGED vars
  <2>1. /\ UNCHANGED <<wtileId, mode, metadata, tileFill, gridId, reads, initializeSet, freeWtiles>>
        /\ Log' = Log
    BY <1>15 DEF vars, wtilesVars, planVars, dataVars, Log
  <2>2. Executed' = Executed
    BY <1>15 DEF vars, planVars, jobVars, Executed, JobDone, JobsEnd, Offset
  <2> QED BY <1>1, <2>1, <2>2
<1> QED BY <1>4, <1>5, <1>6, <1>7, <1>8, <1>9, <1>10, <1>11, <1>12, <1>13, <1>14, <1>15
        DEF Next, RunStep

(* What is to come in the plan, and what the cache holds for the next, will *)
(* be filled from the grid of the call, provided that the client sets a     *)
(* grid only while no tile is cached (the known flaw of                     *)
(* BufferSetImpl::set_image, which run stale_tiles shows).            *)
THEOREM FillInvariant ==
  ASSUME FirstGroupInRange, FreshCacheForGrid
  PROVE  Spec => []FillInv
<1>1. Init => FillInv
  BY DEF Init, EmptyCache, FillInv, PendingFilled, CacheFilled, FreeSince, DegridsCurrentGrid
<1>2. TypeOK /\ SlotsPartitioned /\ ControlInv /\ FillInv /\ [Next]_vars
        /\ TypeOK' /\ SlotsPartitioned' => FillInv'
  BY FillStep
<1>3. Spec => []ControlInv
  BY ControlInvariant
<1> QED BY <1>1, <1>2, <1>3, TypeCorrect, SlotsStayPartitioned, PTL DEF Spec

(* Degridding reads every subgrid from a tile that was cut from the grid    *)
(* that is set now, at the subgrid's own tile coordinate.                   *)
THEOREM DegriddingReadsCurrentGrid ==
  ASSUME FirstGroupInRange, FreshCacheForGrid
  PROVE  Spec => []DegridsCurrentGrid
<1>1. FillInv => DegridsCurrentGrid
  BY DEF FillInv
<1>2. Spec => []FillInv
  BY FillInvariant
<1> QED BY <1>1, <1>2, PTL

(* Between calls, the tile buffer agrees with the cache. *)
THEOREM BufferAlwaysMatches ==
  ASSUME FirstGroupInRange, FreshCacheForGrid
  PROVE  Spec => []BufferMatchesCache
<1>1. TypeOK /\ SlotsPartitioned /\ ControlInv /\ HeldInv /\ FillInv => BufferMatchesCache
  <2> SUFFICES ASSUME TypeOK, SlotsPartitioned, ControlInv, HeldInv, FillInv,
                      phase \in {"idle", "final"}, NEW t \in TileIds, NEW c \in Coordinates
               PROVE  IF mode = "gridding"
                      THEN tileSums[t][c] > 0 => wtileId[c] = t
                      ELSE wtileId[c] = t => tileFill[t].coordinates = {c}
    BY DEF BufferMatchesCache
  <2>1. Log = <<>>
    BY LogFacts
  <2>2. CASE mode = "gridding"
    BY <2>1, <2>2, HeldEmptyLog DEF HeldInv, TilesHeld, Held
  <2>3. CASE mode # "gridding"
    <3>1. mode = "degridding"
      BY <2>3 DEF TypeOK, Modes
    <3>2. ASSUME wtileId[c] = t PROVE tileFill[t].coordinates = {c}
      <4>1. c \in ActiveWtiles
        BY <3>2 DEF ActiveWtiles, TileIds, NoTile
      <4>2. FilledBy(Log, tileFill[t], FillFor(c), c, t, Len(metadata))
        BY <3>1, <3>2, <4>1 DEF FillInv, CacheFilled, WillBeFilled
      <4>3. tileFill[t] = FillFor(c)
        BY <2>1, <4>2, FilledEmptyLog
      <4> QED BY <4>3 DEF FillFor
    <3> QED BY <2>3, <3>2
  <2> QED BY <2>2, <2>3
<1>2. Spec => []ControlInv
  BY ControlInvariant
<1>3. Spec => []HeldInv
  BY HeldInvariant
<1>4. Spec => []FillInv
  BY FillInvariant
<1> QED BY <1>1, <1>2, <1>3, <1>4, TypeCorrect, SlotsStayPartitioned, PTL
=============================================================================
