---------------------------- MODULE WTilesProofs ----------------------------
(***************************************************************************)
(* Lemmas about the operations of the W-tile cache, for any set of          *)
(* coordinates, any buffer size and any retired fraction.  The users of the *)
(* cache, TileGridding and Planning, build their invariants from them.      *)
(***************************************************************************)
EXTENDS WTiles, FiniteSetTheorems, WellFoundedInduction, TLAPS

(* A log of events can be executed: the events are due before different     *)
(* subgrids of the first n, in order, and none names a tile or a slot twice. *)
LogInOrder(es, n) ==
  /\ \A j \in DOMAIN es : es[j].subgrid_index < n
  /\ \A i, j \in DOMAIN es : i < j => es[i].subgrid_index < es[j].subgrid_index
  /\ \A j \in DOMAIN es : \A p, q \in es[j].tiles :
       p[1] = q[1] \/ p[2] = q[2] => p = q

(* The tiles of the last initialize event are still in their slots: another *)
(* one can join them.                                                       *)
LastActive ==
  initializeSet # <<>> =>
    \A p \in initializeSet[Len(initializeSet)].tiles : wtileId[p[1]] = p[2]

-----------------------------------------------------------------------------
(* Types and slots. *)

(* An update event or a final flush lists slots of the tile buffer only. *)
LEMMA TilesOfType ==
  ASSUME WTilesTypeOK, NEW cs \in SUBSET ActiveWtiles
  PROVE  TilesOf(cs) \in SUBSET (Coordinates \X TileIds)
BY DEF WTilesTypeOK, TilesOf, ActiveWtiles, NoTile, TileIds

(* A new cache: every slot is free. *)
LEMMA EmptyCacheTypeOK ==
  ASSUME EmptyCache
  PROVE  WTilesTypeOK /\ SlotsPartitioned
BY DEF EmptyCache, WTilesTypeOK, SlotsPartitioned, ActiveWtiles, NoTile, TileIds

(* init_cache: every slot is free again. *)
LEMMA NewCacheTypeOK ==
  ASSUME NewCache
  PROVE  WTilesTypeOK' /\ SlotsPartitioned'
BY DEF NewCache, WTilesTypeOK, SlotsPartitioned, ActiveWtiles, NoTile, TileIds

(* Handing the events to a plan keeps the types. *)
LEMMA TakeUpdateSetsTypeOK ==
  ASSUME WTilesTypeOK, TakeUpdateSets
  PROVE  WTilesTypeOK'
BY DEF TakeUpdateSets, WTilesTypeOK

(* clear() keeps the types. *)
LEMMA ClearWtilesTypeOK ==
  ASSUME WTilesTypeOK, ClearWtiles
  PROVE  WTilesTypeOK'
BY DEF ClearWtiles, WTilesTypeOK, ActiveWtiles, NoTile, TileIds

(* add_subgrid keeps the types, and returns the id of a slot. *)
LEMMA AddSubgridTypeOK ==
  ASSUME WTilesTypeOK, NEW i \in Nat, NEW c \in Coordinates, AddSubgrid(i, c)
  PROVE  WTilesTypeOK' /\ wtileId'[c] \in TileIds
<1>1. CASE AccessActiveWtile(c)
  BY <1>1 DEF AddSubgrid, AccessActiveWtile, WTilesTypeOK
<1>2. CASE UseFreeWtile(i, c)
  <2> PICK id \in freeWtiles :
        /\ wtileId' = [wtileId EXCEPT ![c] = id]
        /\ freeWtiles' = freeWtiles \ {id}
        /\ initializeSet' =
             IF initializeSet = <<>>
             THEN <<[subgrid_index |-> i, tiles |-> {<<c, id>>}]>>
             ELSE [initializeSet EXCEPT
                     ![Len(initializeSet)].tiles = @ \cup {<<c, id>>}]
    BY <1>2 DEF UseFreeWtile
  <2>1. id \in TileIds
    BY DEF WTilesTypeOK
  <2>2. wtileId' \in [Coordinates -> TileIds \cup {NoTile}] /\ wtileId'[c] = id
    BY <2>1 DEF WTilesTypeOK
  <2>3. initializeSet' \in Seq(UpdateInfo)
    <3>1. CASE initializeSet = <<>>
      BY <3>1, <2>1 DEF UpdateInfo
    <3>2. CASE initializeSet # <<>>
      <4> DEFINE last == initializeSet[Len(initializeSet)]
      <4>1. Len(initializeSet) \in 1 .. Len(initializeSet)
        BY <3>2 DEF WTilesTypeOK
      <4>2. last \in UpdateInfo
        BY <4>1 DEF WTilesTypeOK
      <4>3. [last EXCEPT !.tiles = @ \cup {<<c, id>>}] \in UpdateInfo
        BY <4>2, <2>1 DEF UpdateInfo
      <4>4. initializeSet' = [initializeSet EXCEPT ![Len(initializeSet)] =
                                [last EXCEPT !.tiles = @ \cup {<<c, id>>}]]
        BY <3>2
      <4> QED BY <4>1, <4>3, <4>4 DEF WTilesTypeOK
    <3> QED BY <3>1, <3>2
  <2> QED BY <1>2, <2>1, <2>2, <2>3 DEF UseFreeWtile, AddSubgrid, WTilesTypeOK
<1>3. CASE RetireWtiles(i, c)
  <2> DEFINE retired == LeastRecentlyUsed
             ids == {wtileId[r] : r \in retired}
  <2>1. retired \in SUBSET ActiveWtiles
    BY DEF LeastRecentlyUsed
  <2>2. ids \in SUBSET TileIds
    BY <2>1 DEF WTilesTypeOK, ActiveWtiles
  <2>3. PICK id \in ids :
          /\ wtileId' = [x \in Coordinates |->
                           IF x = c THEN id
                           ELSE IF x \in retired THEN NoTile ELSE wtileId[x]]
          /\ lastAccess' = [x \in Coordinates |->
                              IF x = c THEN subgridCount
                              ELSE IF x \in retired THEN 0 ELSE lastAccess[x]]
          /\ freeWtiles' = ids \ {id}
          /\ flushSet' = Append(flushSet, [subgrid_index |-> i,
                                           tiles |-> TilesOf(retired)])
          /\ initializeSet' = Append(initializeSet, [subgrid_index |-> i,
                                                     tiles |-> {<<c, id>>}])
    BY <1>3 DEF RetireWtiles
  <2> HIDE DEF retired, ids
  <2>4. wtileId' \in [Coordinates -> TileIds \cup {NoTile}] /\ wtileId'[c] \in TileIds
    BY <2>2, <2>3 DEF WTilesTypeOK
  <2>5. lastAccess' \in [Coordinates -> Nat]
    BY <2>3 DEF WTilesTypeOK
  <2>6. freeWtiles' \in SUBSET TileIds
    BY <2>2, <2>3
  <2>7. [subgrid_index |-> i, tiles |-> TilesOf(retired)] \in UpdateInfo
    BY <2>1, TilesOfType DEF UpdateInfo
  <2>8. [subgrid_index |-> i, tiles |-> {<<c, id>>}] \in UpdateInfo
    BY <2>2, <2>3 DEF UpdateInfo
  <2>9. flushSet' \in Seq(UpdateInfo) /\ initializeSet' \in Seq(UpdateInfo)
    BY <2>3, <2>7, <2>8 DEF WTilesTypeOK
  <2> QED BY <2>4, <2>5, <2>6, <2>9 DEF AddSubgrid, WTilesTypeOK
<1> QED BY <1>1, <1>2, <1>3 DEF AddSubgrid

(* add_subgrid keeps the slots partitioned, in each of its three outcomes. *)
LEMMA AddSubgridPartitions ==
  ASSUME WTilesTypeOK, SlotsPartitioned,
         NEW i \in Nat, NEW c \in Coordinates, AddSubgrid(i, c)
  PROVE  SlotsPartitioned'
<1>1. CASE AccessActiveWtile(c)
  BY <1>1 DEF AccessActiveWtile, SlotsPartitioned, ActiveWtiles
<1>2. CASE UseFreeWtile(i, c)
  <2> PICK id \in freeWtiles :
        /\ wtileId' = [wtileId EXCEPT ![c] = id]
        /\ freeWtiles' = freeWtiles \ {id}
    BY <1>2 DEF UseFreeWtile
  <2>1. id # NoTile
    BY DEF WTilesTypeOK, TileIds, NoTile
  <2>2. ActiveWtiles' = ActiveWtiles \cup {c}
    BY <2>1 DEF WTilesTypeOK, ActiveWtiles
  <2>3. c \notin ActiveWtiles
    BY <1>2 DEF UseFreeWtile, ActiveWtiles
  <2>4. wtileId'[c] = id /\ \A d \in ActiveWtiles : wtileId'[d] = wtileId[d]
    BY <2>3 DEF WTilesTypeOK, ActiveWtiles
  <2> QED BY <2>2, <2>3, <2>4 DEF SlotsPartitioned
<1>3. CASE RetireWtiles(i, c)
  <2> DEFINE retired == LeastRecentlyUsed
             ids == {wtileId[r] : r \in retired}
  <2>1. PICK id \in ids :
          /\ wtileId' = [x \in Coordinates |->
                           IF x = c THEN id
                           ELSE IF x \in retired THEN NoTile ELSE wtileId[x]]
          /\ freeWtiles' = ids \ {id}
    BY <1>3 DEF RetireWtiles
  <2>2. retired \in SUBSET ActiveWtiles
    BY DEF LeastRecentlyUsed
  <2> HIDE DEF retired
  <2>3. c \notin ActiveWtiles /\ freeWtiles = {}
    BY <1>3 DEF RetireWtiles, ActiveWtiles
  <2>4. id \in TileIds /\ id # NoTile
    BY <2>2 DEF WTilesTypeOK, ActiveWtiles, TileIds, NoTile
  <2>5. ActiveWtiles' = (ActiveWtiles \ retired) \cup {c}
    BY <2>1, <2>2, <2>4 DEF ActiveWtiles
  <2>6. wtileId'[c] = id /\ \A d \in ActiveWtiles \ retired : wtileId'[d] = wtileId[d]
    BY <2>1, <2>3 DEF ActiveWtiles
  <2>7. \A d \in ActiveWtiles \ retired : wtileId[d] \notin ids
    BY <2>2 DEF SlotsPartitioned
  <2>8. \A d, e \in ActiveWtiles' : wtileId'[d] = wtileId'[e] => d = e
    BY <2>2, <2>5, <2>6, <2>7 DEF SlotsPartitioned
  <2>9. \A d \in ActiveWtiles' : wtileId'[d] \notin freeWtiles'
    BY <2>1, <2>5, <2>6, <2>7
  <2>10. TileIds = ids \cup {wtileId[d] : d \in ActiveWtiles \ retired}
    BY <2>2, <2>3 DEF SlotsPartitioned
  <2>11. TileIds = freeWtiles' \cup {wtileId'[d] : d \in ActiveWtiles'}
    BY <2>1, <2>5, <2>6, <2>10
  <2> QED BY <2>8, <2>9, <2>11 DEF SlotsPartitioned
<1> QED BY <1>1, <1>2, <1>3 DEF AddSubgrid

(* clear() gives every slot back to the free list. *)
LEMMA ClearWtilesPartitions ==
  ASSUME SlotsPartitioned, ClearWtiles
  PROVE  SlotsPartitioned'
BY DEF ClearWtiles, SlotsPartitioned, ActiveWtiles

-----------------------------------------------------------------------------
(* Induction: a nonempty set of natural numbers has a least element. *)
LEMMA Least ==
    ASSUME NEW T \in SUBSET Nat, T # {}
    PROVE  \E n \in T : \A m \in T : n <= m
<1> DEFINE R == {ss \in Nat \X Nat : ss[1] < ss[2]}
<1>1. IsWellFoundedOn(R, Nat)
  BY NatLessThanWellFounded DEF OpToRel
<1>2. \A m, n \in Nat : m < n => <<m, n>> \in R
  OBVIOUS
<1> HIDE DEF R
<1>3. PICK n \in T : \A m \in T : ~(<<m, n>> \in R)
  BY <1>1, WFMin
<1>4. ASSUME NEW m \in T PROVE n <= m
  <2>1. m \in Nat /\ n \in Nat
    OBVIOUS
  <2>2. ~(m < n)
    BY <1>2, <1>3, <2>1
  <2> QED BY <2>1, <2>2
<1> QED BY <1>4

-----------------------------------------------------------------------------
(* The logs. *)

(* A sequence that got one more element, or lost its first. *)
LEMMA Appended ==
  ASSUME NEW S, NEW q \in Seq(S), NEW x \in S
  PROVE  /\ Append(q, x) \in Seq(S)
         /\ DOMAIN q = 1 .. Len(q) /\ Len(q) \in Nat
         /\ DOMAIN Append(q, x) = 1 .. Len(q) + 1
         /\ Len(Append(q, x)) = Len(q) + 1
         /\ \A i \in 1 .. Len(q) : Append(q, x)[i] = q[i]
         /\ Append(q, x)[Len(q) + 1] = x
  OBVIOUS

(* The elements of a sequence without the first. *)
LEMMA Shortened ==
  ASSUME NEW S, NEW q \in Seq(S), q # <<>>
  PROVE  /\ Tail(q) \in Seq(S)
         /\ DOMAIN q = 1 .. Len(q) /\ Len(q) \in Nat /\ Len(q) > 0
         /\ Head(q) = q[1]
         /\ Len(Tail(q)) = Len(q) - 1
         /\ DOMAIN Tail(q) = 1 .. Len(q) - 1
         /\ \A i \in 1 .. Len(q) - 1 : Tail(q)[i] = q[i + 1]
  OBVIOUS

(* The events of a log. *)
LEMMA LogElements ==
  ASSUME NEW es \in Seq(UpdateInfo)
  PROVE  /\ DOMAIN es = 1 .. Len(es) /\ Len(es) \in Nat
         /\ \A j \in DOMAIN es : /\ es[j] \in UpdateInfo
                                /\ es[j].subgrid_index \in Nat
                                /\ es[j].tiles \in SUBSET (Coordinates \X TileIds)
<1>1. \A j \in DOMAIN es : es[j] \in UpdateInfo
  OBVIOUS
<1>2. \A e \in UpdateInfo : /\ e.subgrid_index \in Nat
                            /\ e.tiles \in SUBSET (Coordinates \X TileIds)
  BY DEF UpdateInfo
<1> QED BY <1>1, <1>2

(* An event before the next subgrid keeps a log in order. *)
LEMMA LogExtended ==
  ASSUME NEW es \in Seq(UpdateInfo), NEW n \in Nat, LogInOrder(es, n),
         NEW e \in UpdateInfo, e.subgrid_index = n,
         \A p, q \in e.tiles : p[1] = q[1] \/ p[2] = q[2] => p = q
  PROVE  LogInOrder(Append(es, e), n + 1)
<1> DEFINE fs == Append(es, e)
<1>1. /\ DOMAIN es = 1 .. Len(es) /\ Len(es) \in Nat
      /\ DOMAIN fs = 1 .. Len(es) + 1
      /\ \A j \in 1 .. Len(es) : fs[j] = es[j]
      /\ fs[Len(es) + 1] = e
  BY Appended
<1>2. \A j \in 1 .. Len(es) : es[j].subgrid_index \in Nat
  BY <1>1, LogElements
<1> HIDE DEF fs
<1>3. \A j \in DOMAIN fs : fs[j].subgrid_index < n + 1
  BY <1>1, <1>2 DEF LogInOrder
<1>4. \A i, j \in DOMAIN fs : i < j => fs[i].subgrid_index < fs[j].subgrid_index
  BY <1>1, <1>2 DEF LogInOrder
<1>5. \A j \in DOMAIN fs : \A p, q \in fs[j].tiles : p[1] = q[1] \/ p[2] = q[2] => p = q
  BY <1>1 DEF LogInOrder
<1>6. LogInOrder(fs, n + 1)
  BY <1>3, <1>4, <1>5 DEF LogInOrder
<1> QED BY <1>6 DEF fs

(* A log stays in order when the plan gets longer. *)
LEMMA LogLonger ==
  ASSUME NEW es \in Seq(UpdateInfo), NEW n \in Nat, LogInOrder(es, n)
  PROVE  LogInOrder(es, n + 1)
<1>1. \A j \in DOMAIN es : es[j].subgrid_index \in Nat
  BY LogElements
<1> QED BY <1>1 DEF LogInOrder

(* An empty log is in order. *)
LEMMA LogEmpty ==
  ASSUME NEW n
  PROVE  LogInOrder(<<>>, n)
BY DEF LogInOrder

(* The tiles that are flushed together are in different slots. *)
LEMMA TilesOfFunctional ==
  ASSUME SlotsPartitioned, NEW cs \in SUBSET ActiveWtiles
  PROVE  \A p, q \in TilesOf(cs) : p[1] = q[1] \/ p[2] = q[2] => p = q
BY DEF TilesOf, SlotsPartitioned

(* add_subgrid keeps the flush set in order. *)
LEMMA AddSubgridFlushSet ==
  ASSUME WTilesTypeOK, SlotsPartitioned, NEW i \in Nat, NEW c \in Coordinates,
         AddSubgrid(i, c), LogInOrder(flushSet, i)
  PROVE  LogInOrder(flushSet', i + 1)
<1>0. flushSet \in Seq(UpdateInfo)
  BY DEF WTilesTypeOK
<1>1. CASE UNCHANGED flushSet
  BY <1>0, <1>1, LogLonger
<1>2. CASE RetireWtiles(i, c)
  <2> DEFINE e == [subgrid_index |-> i, tiles |-> TilesOf(LeastRecentlyUsed)]
  <2>1. LeastRecentlyUsed \in SUBSET ActiveWtiles
    BY DEF LeastRecentlyUsed
  <2>2. flushSet' = Append(flushSet, e)
    BY <1>2 DEF RetireWtiles
  <2>3. e \in UpdateInfo
    BY <2>1, TilesOfType DEF UpdateInfo
  <2>4. \A p, q \in e.tiles : p[1] = q[1] \/ p[2] = q[2] => p = q
    BY <2>1, TilesOfFunctional
  <2>5. e.subgrid_index = i
    OBVIOUS
  <2> HIDE DEF e
  <2> QED BY <1>0, <2>2, <2>3, <2>4, <2>5, LogExtended
<1> QED BY <1>1, <1>2 DEF AddSubgrid, AccessActiveWtile, UseFreeWtile

(* add_subgrid keeps the initialize set in order, and its last event open. *)
LEMMA AddSubgridInitializeSet ==
  ASSUME WTilesTypeOK, SlotsPartitioned, NEW i \in Nat, NEW c \in Coordinates,
         AddSubgrid(i, c), LogInOrder(initializeSet, i), LastActive
  PROVE  LogInOrder(initializeSet', i + 1) /\ LastActive'
<1>0. initializeSet \in Seq(UpdateInfo)
  BY DEF WTilesTypeOK
<1>1. CASE AccessActiveWtile(c)
  <2>1. UNCHANGED <<wtileId, initializeSet>>
    BY <1>1 DEF AccessActiveWtile
  <2> QED BY <1>0, <2>1, LogLonger DEF LastActive
<1>2. CASE UseFreeWtile(i, c)
  <2> PICK id \in freeWtiles :
        /\ wtileId' = [wtileId EXCEPT ![c] = id]
        /\ initializeSet' =
             IF initializeSet = <<>>
             THEN <<[subgrid_index |-> i, tiles |-> {<<c, id>>}]>>
             ELSE [initializeSet EXCEPT
                     ![Len(initializeSet)].tiles = @ \cup {<<c, id>>}]
    BY <1>2 DEF UseFreeWtile
  <2>1. id \in TileIds /\ id # NoTile /\ wtileId[c] = NoTile
    BY <1>2 DEF WTilesTypeOK, TileIds, NoTile, UseFreeWtile
  <2>2. wtileId'[c] = id /\ \A d \in Coordinates : d # c => wtileId'[d] = wtileId[d]
    BY DEF WTilesTypeOK
  <2>3. CASE initializeSet = <<>>
    <3> DEFINE e == [subgrid_index |-> i, tiles |-> {<<c, id>>}]
    <3>1. initializeSet' = <<e>>
      BY <2>3
    <3>2. e.subgrid_index = i /\ e.tiles = {<<c, id>>}
      OBVIOUS
    <3> HIDE DEF e
    <3>3. /\ DOMAIN initializeSet' = {1} /\ Len(initializeSet') = 1
          /\ initializeSet'[1] = e
      BY <3>1
    <3>4. \A p \in e.tiles : p = <<c, id>> /\ p[1] = c /\ p[2] = id
      BY <3>2
    <3> HIDE DEF e
    <3>6. LogInOrder(initializeSet', i + 1)
      <4> DEFINE fs == initializeSet'
      <4>1. DOMAIN fs = {1} /\ fs[1] = e
        BY <3>3
      <4> HIDE DEF fs
      <4>2. \A j \in DOMAIN fs : fs[j] = e
        BY <4>1
      <4>3. \A j \in DOMAIN fs : fs[j].subgrid_index < i + 1
        BY <4>2, <3>2
      <4>4. \A j, k \in DOMAIN fs : ~(j < k)
        BY <4>1
      <4>5. \A j \in DOMAIN fs : \A p, q \in fs[j].tiles : p = q
        BY <4>2, <3>4
      <4>6. LogInOrder(fs, i + 1)
        BY <4>3, <4>4, <4>5 DEF LogInOrder
      <4> QED BY <4>6 DEF fs
    <3>5. LastActive'
      BY <3>3, <3>4, <2>2 DEF LastActive
    <3> QED BY <3>6, <3>5
  <2>4. CASE initializeSet # <<>>
    <3> DEFINE n == Len(initializeSet)
               last == initializeSet[n]
               fs == [initializeSet EXCEPT ![n] = [last EXCEPT !.tiles = @ \cup {<<c, id>>}]]
    <3>1. n \in 1 .. n /\ DOMAIN initializeSet = 1 .. n /\ n \in Nat
      BY <1>0, <2>4
    <3>2. last \in UpdateInfo /\ last.tiles \in SUBSET (Coordinates \X TileIds)
      BY <1>0, <3>1, LogElements
    <3>3. initializeSet' = fs
      BY <2>4
    <3>4. /\ DOMAIN fs = 1 .. n /\ Len(fs) = n
          /\ \A j \in 1 .. n : j # n => fs[j] = initializeSet[j]
          /\ \A j \in 1 .. n : fs[j].subgrid_index = initializeSet[j].subgrid_index
          /\ fs[n].tiles = last.tiles \cup {<<c, id>>}
      BY <1>0, <3>1, <3>2 DEF UpdateInfo
    <3> HIDE DEF fs
    <3>5. \A p \in last.tiles : /\ wtileId[p[1]] = p[2]
                                /\ p[1] # c /\ p[1] \in Coordinates /\ p[2] # id
      <4> SUFFICES ASSUME NEW p \in last.tiles
                   PROVE  wtileId[p[1]] = p[2] /\ p[1] # c /\ p[1] \in Coordinates /\ p[2] # id
        OBVIOUS
      <4>1. wtileId[p[1]] = p[2]
        BY <2>4 DEF LastActive
      <4>2. p[1] \in Coordinates /\ p[2] \in TileIds
        BY <3>2
      <4>3. p[2] # NoTile
        BY <4>2 DEF TileIds, NoTile
      <4> QED BY <2>1, <4>1, <4>2, <4>3 DEF SlotsPartitioned, ActiveWtiles
    <3>6. \A p \in fs[n].tiles : wtileId'[p[1]] = p[2]
      BY <2>2, <3>4, <3>5
    <3>7. \A p, q \in last.tiles : p[1] = q[1] \/ p[2] = q[2] => p = q
      BY <3>1 DEF LogInOrder
    <3>8. \A p, q \in fs[n].tiles : p[1] = q[1] \/ p[2] = q[2] => p = q
      BY <3>4, <3>5, <3>7
    <3>9. \A j \in 1 .. n : \A p, q \in fs[j].tiles : p[1] = q[1] \/ p[2] = q[2] => p = q
      BY <3>1, <3>4, <3>8 DEF LogInOrder
    <3>10. LogInOrder(initializeSet, i + 1)
      BY <1>0, LogLonger
    <3>11. LogInOrder(fs, i + 1)
      BY <3>1, <3>4, <3>9, <3>10 DEF LogInOrder
    <3> HIDE DEF n
    <3> QED BY <3>3, <3>4, <3>6, <3>11 DEF LastActive
  <2> QED BY <2>3, <2>4
<1>3. CASE RetireWtiles(i, c)
  <2> DEFINE ids == {wtileId[r] : r \in LeastRecentlyUsed}
  <2>1. PICK id \in ids :
          /\ wtileId' = [x \in Coordinates |->
                           IF x = c THEN id
                           ELSE IF x \in LeastRecentlyUsed THEN NoTile ELSE wtileId[x]]
          /\ initializeSet' = Append(initializeSet, [subgrid_index |-> i,
                                                     tiles |-> {<<c, id>>}])
    BY <1>3 DEF RetireWtiles
  <2> DEFINE e == [subgrid_index |-> i, tiles |-> {<<c, id>>}]
  <2>2. id \in TileIds
    BY <2>1 DEF WTilesTypeOK, LeastRecentlyUsed, ActiveWtiles
  <2>3. e \in UpdateInfo /\ e.subgrid_index = i /\ e.tiles = {<<c, id>>}
    BY <2>2 DEF UpdateInfo
  <2>4. initializeSet' = Append(initializeSet, e)
    BY <2>1
  <2> HIDE DEF e
  <2>5. LogInOrder(initializeSet', i + 1)
    BY <1>0, <2>3, <2>4, LogExtended
  <2>6. initializeSet'[Len(initializeSet')] = e
    BY <1>0, <2>3, <2>4, Appended
  <2>7. wtileId'[c] = id
    BY <2>1
  <2>8. LastActive'
    BY <2>3, <2>6, <2>7 DEF LastActive
  <2> QED BY <2>5, <2>8
<1> QED BY <1>1, <1>2, <1>3 DEF AddSubgrid
=============================================================================
