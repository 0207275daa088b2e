--------------------------- MODULE PlanningProofs ---------------------------
(***************************************************************************)
(* Proofs about planning, for any data, any cache and any number of plans:  *)
(* the subgrids and their tiles, the events of the cache, which tiles stay  *)
(* in it, and, when a baseline has a column for every timestep of every     *)
(* channel, that each visibility is in one subgrid.                         *)
(***************************************************************************)
EXTENDS Planning, WTilesProofs

-----------------------------------------------------------------------------
(* Largest and smallest elements. *)

(* A set of integers with an upper bound has a largest element. *)
LEMMA MaxOfBounded ==
  ASSUME NEW S \in SUBSET Int, S # {}, NEW top \in Int, \A x \in S : x <= top
  PROVE  Max(S) \in S /\ \A x \in S : x <= Max(S)
<1> DEFINE T == {top - x : x \in S}
<1>0. \A x \in S : top - x \in Nat
  OBVIOUS
<1>1. T \in SUBSET Nat /\ T # {}
  BY <1>0
<1> HIDE DEF T
<1>2. PICK n \in T : \A m \in T : n <= m
  BY <1>1, Least
<1>3. PICK y \in S : n = top - y
  BY DEF T
<1>4. \A x \in S : x <= y
  <2> SUFFICES ASSUME NEW x \in S PROVE x <= y
    OBVIOUS
  <2>1. top - x \in T
    BY DEF T
  <2>2. n <= top - x
    BY <2>1, <1>2
  <2> QED BY <2>2, <1>3
<1> QED BY <1>4 DEF Max

(* A set of integers with a lower bound has a smallest element. *)
LEMMA MinOfBounded ==
  ASSUME NEW S \in SUBSET Int, S # {}, NEW bottom \in Int, \A x \in S : bottom <= x
  PROVE  Min(S) \in S /\ \A x \in S : Min(S) <= x
<1> DEFINE T == {x - bottom : x \in S}
<1>0. \A x \in S : x - bottom \in Nat
  OBVIOUS
<1>1. T \in SUBSET Nat /\ T # {}
  BY <1>0
<1> HIDE DEF T
<1>2. PICK n \in T : \A m \in T : n <= m
  BY <1>1, Least
<1>3. PICK y \in S : n = y - bottom
  BY DEF T
<1>4. \A x \in S : y <= x
  <2> SUFFICES ASSUME NEW x \in S PROVE y <= x
    OBVIOUS
  <2>1. x - bottom \in T
    BY DEF T
  <2>2. n <= x - bottom
    BY <2>1, <1>2
  <2> QED BY <2>2, <1>3
<1> QED BY <1>4 DEF Min

(* Two integers. *)
LEMMA Pairs ==
  ASSUME NEW a \in Int, NEW b \in Int
  PROVE  /\ Max({a, b}) \in {a, b} /\ a <= Max({a, b}) /\ b <= Max({a, b})
         /\ Min({a, b}) \in {a, b} /\ Min({a, b}) <= a /\ Min({a, b}) <= b
<1>1. \E top \in Int : \A x \in {a, b} : x <= top
  BY a <= b \/ b <= a
<1>2. \E bottom \in Int : \A x \in {a, b} : bottom <= x
  BY a <= b \/ b <= a
<1>3. {a, b} \in SUBSET Int /\ {a, b} # {}
  OBVIOUS
<1> QED BY <1>1, <1>2, <1>3, MaxOfBounded, MinOfBounded

-----------------------------------------------------------------------------
(* Samples and channel groups. *)

(* A measured sample has integer coordinates. *)
LEMMA Samples ==
  ASSUME NEW row \in Rows, NEW t \in Timesteps, Measured(row, t)
  PROVE  Uvw(row, t) \in [u : Int, v : Int, w : Int]
<1>1. t + 1 \in 1 .. NrTimesteps
  BY PlanningAssumption DEF Timesteps
<1> QED BY <1>1, PlanningAssumption DEF Measured, Uvw

(* time_offset0 is the first measured timestep, if there is one. *)
LEMMA FirstTimestepOf ==
  ASSUME NEW row \in Rows
  PROVE  /\ FirstTimestep(row) \in 0 .. NrTimesteps
         /\ row \in RowsWithData => FirstTimestep(row) \in Timesteps
         /\ \A t \in Timesteps : Measured(row, t) => FirstTimestep(row) <= t
                                                  /\ row \in RowsWithData
<1> DEFINE measured == {t \in Timesteps : Measured(row, t)}
<1>1. /\ \A x \in measured : x \in Int /\ 0 <= x /\ x <= NrTimesteps - 1
      /\ NrTimesteps \in Nat \ {0}
  BY PlanningAssumption DEF Timesteps
<1>2. FirstTimestep(row) = IF measured = {} THEN NrTimesteps ELSE Min(measured)
  BY DEF FirstTimestep
<1>3. \A t \in Timesteps : Measured(row, t) => t \in measured
  OBVIOUS
<1> HIDE DEF measured
<1>4. ASSUME measured # {}
      PROVE  /\ Min(measured) \in measured
             /\ \A x \in measured : Min(measured) <= x
  <2>1. measured \in SUBSET Int /\ 0 \in Int /\ \A x \in measured : 0 <= x
    BY <1>1
  <2> QED BY <1>1, <1>4, <2>1, MinOfBounded
<1>5. \A x \in measured : x \in 0 .. NrTimesteps - 1 /\ x \in 0 .. NrTimesteps
  BY <1>1
<1>6. FirstTimestep(row) \in 0 .. NrTimesteps
  BY <1>1, <1>2, <1>4, <1>5
<1>7. row \in RowsWithData => FirstTimestep(row) \in Timesteps
  BY <1>1, <1>6 DEF RowsWithData, Timesteps
<1>8. ASSUME NEW t \in Timesteps, Measured(row, t)
      PROVE  FirstTimestep(row) <= t /\ row \in RowsWithData
  <2>1. t \in measured
    BY <1>3, <1>8
  <2>2. FirstTimestep(row) <= t /\ t \in 0 .. NrTimesteps - 1
    BY <2>1, <1>2, <1>4, <1>5
  <2> QED BY <2>2, <1>1, <1>6 DEF RowsWithData
<1> QED BY <1>6, <1>7, <1>8

(* The number of channels. *)
LEMMA Channels ==
  NrChannels \in Nat \ {0} /\ NrTimesteps \in Nat \ {0}
BY PlanningAssumption DEF NrChannels

(* A channel group has a channel, and ends with the last channel at most. *)
LEMMA GroupEnds ==
  ASSUME NEW row, NEW begin \in 0 .. NrChannels - 1
  PROVE  GroupEnd(row, begin) \in begin + 1 .. NrChannels
<1> DEFINE S == {NrChannels} \cup
      {channel \in begin + 1 .. NrChannels - 1 :
         \/ SpansTooMuch(row, begin, channel)
         \/ MaxChannels > 0 /\ channel - begin + 1 > MaxChannels}
<1>1. S # {} /\ \A x \in S : x \in begin + 1 .. NrChannels
  <2>1. NrChannels \in begin + 1 .. NrChannels
    BY Channels
  <2>2. \A x \in begin + 1 .. NrChannels - 1 : x \in begin + 1 .. NrChannels
    BY Channels
  <2> QED BY <2>1, <2>2
<1>2. GroupEnd(row, begin) = Min(S)
  BY DEF GroupEnd
<1> HIDE DEF S
<1>3. S \in SUBSET Int /\ \A x \in S : 0 <= x
  BY <1>1, Channels
<1>4. Min(S) \in S
  BY <1>1, <1>3, MinOfBounded, 0 \in Int
<1> QED BY <1>1, <1>2, <1>4
-----------------------------------------------------------------------------
(* The timesteps of a subgrid. *)

(* The timesteps of a subgrid fit, one after the other. *)
LEMMA Lengths ==
  ASSUME NEW row, NEW begin, NEW first \in Timesteps
  PROVE  LET n == NrTimestepsSubgrid(row, begin, first)
         IN  /\ n \in 0 .. NrTimesteps - first
             /\ \A k \in 0 .. n - 1 : TimestepFits(row, begin, first, k)
<1> DEFINE left == NrTimesteps - first
           bounds == {left} \cup (IF Limit = 0 THEN {} ELSE {Limit})
           bound == Min(bounds)
           S == {n \in 0 .. bound : \A k \in 0 .. n - 1 : TimestepFits(row, begin, first, k)}
<1>1. left \in Nat \ {0} /\ NrTimesteps \in Nat /\ first \in Nat
  BY PlanningAssumption DEF Timesteps
<1>2. Limit \in Nat
  <2>1. MaxTimesteps \in Int /\ NrTimesteps \in Int
    BY PlanningAssumption
  <2>2. Limit \in {MaxTimesteps, NrTimesteps}
    BY <2>1, Pairs DEF Limit
  <2> QED BY <2>2, PlanningAssumption
<1>3. bound \in 0 .. left
  <2>1. PICK m \in Nat : bounds = {left, m}
    BY <1>1, <1>2
  <2> HIDE DEF bounds, left
  <2>2. left \in Int /\ m \in Int
    BY <1>1
  <2>3. bound \in {left, m} /\ bound <= left
    BY <2>1, <2>2, Pairs
  <2> QED BY <2>1, <2>3, <1>1
<1>4. NrTimestepsSubgrid(row, begin, first) = Max(S)
  BY DEF NrTimestepsSubgrid
<1> HIDE DEF bound, bounds, left
<1>5. /\ S \in SUBSET Int /\ S # {} /\ bound \in Int
      /\ \A x \in S : x <= bound
  <2>1. 0 \in S
    BY <1>1, <1>3
  <2> QED BY <2>1, <1>1, <1>3
<1>6. Max(S) \in S
  <2> HIDE DEF S
  <2> QED BY <1>5, MaxOfBounded
<1> QED BY <1>4, <1>6, <1>3, <1>1 DEF left

(* Its timesteps were measured, in one w layer, and their points fit. *)
LEMMA FittingTimesteps ==
  ASSUME NEW row, NEW begin, NEW first \in Timesteps,
         NEW n \in Nat, n > 0, n = NrTimestepsSubgrid(row, begin, first)
  PROVE  /\ \A t \in first .. first + n - 1 :
              /\ t \in Timesteps /\ Measured(row, t)
              /\ WIndex(row, t, begin) = WIndex(row, first, begin)
         /\ Fits(Added(row, begin, first, n))
<1>1. n <= NrTimesteps - first /\ \A k \in 0 .. n - 1 : TimestepFits(row, begin, first, k)
  BY Lengths
<1>2. NrTimesteps \in Nat /\ first \in Nat
  BY PlanningAssumption DEF Timesteps
<1>3. ASSUME NEW t \in first .. first + n - 1
      PROVE  /\ t \in Timesteps /\ Measured(row, t)
             /\ WIndex(row, t, begin) = WIndex(row, first, begin)
  <2>1. t - first \in 0 .. n - 1 /\ first + (t - first) = t /\ t \in Timesteps
    BY <1>1, <1>2 DEF Timesteps
  <2>2. FirstChannelFits(row, begin, first, t - first)
    BY <2>1, <1>1 DEF TimestepFits
  <2>3. t = first \/ t - first > 0
    BY <2>1, <1>2
  <2> QED BY <2>1, <2>2, <2>3 DEF FirstChannelFits
<1>4. Fits(Added(row, begin, first, n))
  <2>1. n - 1 \in 0 .. n - 1 /\ (n - 1) + 1 = n
    OBVIOUS
  <2> QED BY <1>1, <2>1 DEF TimestepFits
<1> QED BY <1>3, <1>4

-----------------------------------------------------------------------------
(* The place of a subgrid. *)

PointSet == [u : Int, v : Int]

(* The pixel of a measured visibility. *)
LEMMA Pixels ==
  ASSUME NEW row \in Rows, NEW t \in Timesteps, Measured(row, t),
         NEW channel \in 0 .. NrChannels - 1
  PROVE  /\ Pixel(row, t, channel) \in PointSet
         /\ Frequencies[channel + 1] \in Nat
         /\ Uvw(row, t).u \in Int /\ Uvw(row, t).v \in Int /\ Uvw(row, t).w \in Int
         /\ Pixel(row, t, channel).u = Uvw(row, t).u * Frequencies[channel + 1]
         /\ Pixel(row, t, channel).v = Uvw(row, t).v * Frequencies[channel + 1]
<1>1. Uvw(row, t) \in [u : Int, v : Int, w : Int]
  BY Samples
<1>2. Frequencies[channel + 1] \in Nat
  <2>1. channel + 1 \in 1 .. Len(Frequencies)
    BY PlanningAssumption DEF NrChannels
  <2> QED BY <2>1, PlanningAssumption
<1>3. Uvw(row, t).u \in Int /\ Uvw(row, t).v \in Int /\ Uvw(row, t).w \in Int
  BY <1>1
<1>4. /\ Pixel(row, t, channel).u = Uvw(row, t).u * Frequencies[channel + 1]
      /\ Pixel(row, t, channel).v = Uvw(row, t).v * Frequencies[channel + 1]
  BY DEF Pixel
<1>5. Pixel(row, t, channel) \in PointSet
  BY <1>2, <1>3 DEF Pixel, PointSet
<1> QED BY <1>2, <1>3, <1>4, <1>5

(* The points that place a subgrid fit in it, also the last that was tried. *)
LEMMA ExtentFits ==
  ASSUME NEW row \in Rows, NEW begin \in 0 .. NrChannels - 1, NEW first \in Timesteps,
         NEW n \in Nat, n > 0, n = NrTimestepsSubgrid(row, begin, first)
  PROVE  /\ Extent(row, begin, first, n) \in SUBSET PointSet
         /\ Fits(Extent(row, begin, first, n))
         /\ Added(row, begin, first, n) \subseteq Extent(row, begin, first, n)
         /\ Pixel(row, first, begin) \in Added(row, begin, first, n)
<1> DEFINE points == Extent(row, begin, first, n)
           added == Added(row, begin, first, n)
           last == Pixel(row, first + n, begin)
<1>1. /\ \A t \in first .. first + n - 1 : t \in Timesteps /\ Measured(row, t)
      /\ Fits(added)
  BY FittingTimesteps
<1>2. /\ GroupEnd(row, begin) - 1 \in 0 .. NrChannels - 1
      /\ first \in first .. first + n - 1
  BY GroupEnds, Channels DEF Timesteps
<1>3. added \in SUBSET PointSet /\ Pixel(row, first, begin) \in added
  <2>1. \A t \in first .. first + n - 1, channel \in {begin, GroupEnd(row, begin) - 1} :
           Pixel(row, t, channel) \in PointSet
    BY <1>1, <1>2, Pixels
  <2> QED BY <2>1, <1>2 DEF Added
<1>4. CASE FirstChannelFits(row, begin, first, n) /\ n # Limit
  <2>1. /\ first + n \in Timesteps /\ Measured(row, first + n)
        /\ Fits(added \cup {last})
    BY <1>4, Channels DEF FirstChannelFits, Timesteps
  <2>2. last \in PointSet
    BY <2>1, Pixels
  <2>3. points = added \cup {last}
    BY <1>4 DEF Extent
  <2> QED BY <2>1, <2>2, <2>3, <1>3
<1>5. CASE ~(FirstChannelFits(row, begin, first, n) /\ n # Limit)
  <2>1. points = added
    BY <1>5 DEF Extent
  <2> QED BY <2>1, <1>1, <1>3
<1> QED BY <1>4, <1>5

(* The points that fit in a subgrid lie within less than its width. *)
LEMMA FitsWidth ==
  ASSUME NEW points \in SUBSET PointSet, Fits(points), NEW p \in points, NEW q \in points
  PROVE  /\ p.u - q.u < SubgridSize - KernelSize
         /\ p.v - q.v < SubgridSize - KernelSize
<1>1. p.u \in Int /\ p.v \in Int /\ q.u \in Int /\ q.v \in Int
  BY DEF PointSet
<1>2. Distance(p, q) + KernelSize < SubgridSize
  BY DEF Fits
<1> DEFINE du == Abs(p.u - q.u)
           dv == Abs(p.v - q.v)
<1>3. du \in Int /\ dv \in Int /\ p.u - q.u <= du /\ p.v - q.v <= dv
  BY <1>1 DEF Abs
<1>4. Distance(p, q) = Max({du, dv})
  BY DEF Distance
<1> HIDE DEF du, dv
<1>5. du <= Distance(p, q) /\ dv <= Distance(p, q) /\ Distance(p, q) \in Int
  BY <1>3, <1>4, Pairs
<1> QED BY <1>1, <1>2, <1>3, <1>5, PlanningAssumption

(* The limits of integers of which no two are as far apart as a subgrid. *)
LEMMA LimitsOf ==
  ASSUME NEW xs \in SUBSET Int, xs # {},
         \A x, y \in xs : x - y < SubgridSize - KernelSize
  PROVE  /\ Max(xs) \in Int /\ Min(xs) \in Int
         /\ Max(xs) - Min(xs) < SubgridSize - KernelSize
         /\ \A x \in xs : Min(xs) <= x /\ x <= Max(xs)
<1> DEFINE d == SubgridSize - KernelSize
<1>1. d \in Int
  BY PlanningAssumption
<1>2. \A x, y \in xs : x - y < d
  OBVIOUS
<1> HIDE DEF d
<1>3. PICK y \in xs : TRUE
  OBVIOUS
<1>4. \A x \in xs : x <= y + d /\ y - d <= x
  <2> SUFFICES ASSUME NEW x \in xs PROVE x <= y + d /\ y - d <= x
    OBVIOUS
  <2>1. x - y < d /\ y - x < d
    BY <1>2
  <2> QED BY <2>1, <1>1
<1>5. y + d \in Int /\ y - d \in Int
  BY <1>1
<1>6. Max(xs) \in xs /\ \A x \in xs : x <= Max(xs)
  BY <1>4, <1>5, MaxOfBounded
<1>7. Min(xs) \in xs /\ \A x \in xs : Min(xs) <= x
  BY <1>4, <1>5, MinOfBounded
<1> QED BY <1>2, <1>6, <1>7 DEF d

(* The middle is rounded by half a pixel. *)
LEMMA Middles ==
  ASSUME NEW xs, Max(xs) \in Int, Min(xs) \in Int
  PROVE  /\ Middle(xs) \in Int
         /\ 2 * Middle(xs) <= Max(xs) + Min(xs) + 1
         /\ 2 * Middle(xs) >= Max(xs) + Min(xs) - 1
<1> DEFINE sum == Max(xs) + Min(xs)
<1>1. sum \in Int /\ Middle(xs) = RoundHalf(sum)
  BY DEF Middle
<1> HIDE DEF sum
<1>2. CASE sum >= 0
  BY <1>1, <1>2 DEF RoundHalf, sum
<1>3. CASE ~(sum >= 0)
  BY <1>1, <1>3 DEF RoundHalf, sum
<1> QED BY <1>2, <1>3

(* Division rounds down. *)
LEMMA Division ==
  ASSUME NEW x \in Int, NEW size \in Nat \ {0}
  PROVE  x \div size \in Int /\ x - (x \div size) * size \in 0 .. size - 1
OBVIOUS
(* A product with a number between two others lies between their products. *)
LEMMA Between ==
  ASSUME NEW x \in Int, NEW f \in Int, NEW g \in Int, f <= g
  PROVE  /\ x >= 0 => x * f <= x * g
         /\ x <= 0 => x * g <= x * f
<1> DEFINE d == g - f
<1>1. d \in Nat /\ g = f + d
  OBVIOUS
<1> HIDE DEF d
<1>2. x * g = x * f + x * d
  BY <1>1
<1>3. /\ x >= 0 => x * d >= 0
      /\ x <= 0 => x * d <= 0
  BY <1>1
<1>4. x * f \in Int /\ x * g \in Int /\ x * d \in Int
  BY <1>1
<1> QED BY <1>2, <1>3, <1>4

(* Channels are in the order of their frequencies, or in the reverse order. *)
FrequenciesInOrder ==
  \/ \A k, l \in DOMAIN Frequencies : k <= l => Frequencies[k] <= Frequencies[l]
  \/ \A k, l \in DOMAIN Frequencies : k <= l => Frequencies[l] <= Frequencies[k]

(* A subgrid with visibilities and its place. *)
PlacedAt(row, begin, first, n, s, u, v) ==
  /\ row \in Rows /\ begin \in 0 .. NrChannels - 1 /\ first \in Timesteps
  /\ n \in Nat /\ n > 0 /\ n = NrTimestepsSubgrid(row, begin, first)
  /\ s.time = first /\ s.nrTimesteps = n
  /\ s.begin = begin /\ s.end = GroupEnd(row, begin)
  /\ u = Middle({p.u : p \in Extent(row, begin, first, n)})
  /\ v = Middle({p.v : p \in Extent(row, begin, first, n)})
  /\ s.at.x = u + (GridSize \div 2) - (SubgridSize \div 2)
  /\ s.at.y = v + (GridSize \div 2) - (SubgridSize \div 2)
  /\ s.at.w = WIndex(row, first, begin)
  /\ s.at.tile = <<TileCoordinate(u), TileCoordinate(v), s.at.w>>

(* Each entry of the table of subgrids, unless it is empty, is placed. *)
LEMMA SubgridIsPlaced ==
  ASSUME NEW row \in RowsWithData, NEW begin \in 0 .. NrChannels - 1,
         NEW first \in Timesteps, Subgrid[row][begin][first].nrTimesteps > 0
  PROVE  \E n, u, v : PlacedAt(row, begin, first, n, Subgrid[row][begin][first], u, v)
<1> DEFINE n == NrTimestepsSubgrid(row, begin, first)
           s == Subgrid[row][begin][first]
<1>1. s = [time |-> first, nrTimesteps |-> n, begin |-> begin, end |-> GroupEnd(row, begin),
           at |-> IF n = 0 THEN NotPlaced
                  ELSE Placed(Extent(row, begin, first, n), WIndex(row, first, begin))]
  BY DEF Subgrid
<1>2. n \in 0 .. NrTimesteps - first
  BY Lengths
<1>3. NrTimesteps \in Nat /\ first \in Nat
  BY Channels DEF Timesteps
<1>4. s.nrTimesteps > 0
  OBVIOUS
<1> DEFINE points == Extent(row, begin, first, n)
           u == Middle({p.u : p \in points})
           v == Middle({p.v : p \in points})
           at == Placed(points, WIndex(row, first, begin))
<1>5. /\ at.x = u + (GridSize \div 2) - (SubgridSize \div 2)
      /\ at.y = v + (GridSize \div 2) - (SubgridSize \div 2)
      /\ at.w = WIndex(row, first, begin)
      /\ at.tile = <<TileCoordinate(u), TileCoordinate(v), at.w>>
  BY SMT DEF Placed
<1>6. u = Middle({p.u : p \in Extent(row, begin, first, n)}) /\
      v = Middle({p.v : p \in Extent(row, begin, first, n)})
  OBVIOUS
<1>7. n = NrTimestepsSubgrid(row, begin, first)
  OBVIOUS
<1>8. row \in Rows
  BY DEF RowsWithData
<1> HIDE DEF n, s, u, v, at
<1>9. n \in Nat /\ n > 0 /\ s.nrTimesteps = n
  BY <1>1, <1>2, <1>3, <1>4
<1>10. s.time = first /\ s.begin = begin /\ s.end = GroupEnd(row, begin) /\ s.at = at
  BY <1>1, <1>9 DEF at
<1>11. PlacedAt(row, begin, first, n, s, u, v)
  BY <1>5, <1>6, <1>7, <1>8, <1>9, <1>10 DEF PlacedAt
<1> QED BY <1>11 DEF s

(* The limits and the middle of what places a subgrid. *)
LEMMA PlaceMiddle ==
  ASSUME NEW row, NEW begin, NEW first, NEW n, NEW s, NEW u, NEW v,
         PlacedAt(row, begin, first, n, s, u, v)
  PROVE  /\ u \in Int /\ v \in Int
         /\ \E lo, hi \in Int :
              /\ hi - lo < SubgridSize - KernelSize
              /\ lo + hi - 1 <= 2 * u /\ 2 * u <= lo + hi + 1
              /\ \A p \in Extent(row, begin, first, n) : lo <= p.u /\ p.u <= hi
         /\ \E lo, hi \in Int :
              /\ hi - lo < SubgridSize - KernelSize
              /\ lo + hi - 1 <= 2 * v /\ 2 * v <= lo + hi + 1
              /\ \A p \in Extent(row, begin, first, n) : lo <= p.v /\ p.v <= hi
<1> DEFINE points == Extent(row, begin, first, n)
           us == {p.u : p \in points}
           vs == {p.v : p \in points}
<1>1. points \in SUBSET PointSet /\ Fits(points) /\ points # {}
  BY ExtentFits DEF PlacedAt
<1>2. u = Middle(us) /\ v = Middle(vs)
  BY DEF PlacedAt
<1> HIDE DEF points
<1>3. \A p, q \in points : /\ p.u - q.u < SubgridSize - KernelSize
                           /\ p.v - q.v < SubgridSize - KernelSize
  BY <1>1, FitsWidth
<1>4. /\ us \in SUBSET Int /\ us # {} /\ \A x, y \in us : x - y < SubgridSize - KernelSize
      /\ vs \in SUBSET Int /\ vs # {} /\ \A x, y \in vs : x - y < SubgridSize - KernelSize
      /\ \A p \in points : p.u \in us /\ p.v \in vs
  BY <1>1, <1>3 DEF PointSet
<1> HIDE DEF us, vs
<1>5. /\ Max(us) \in Int /\ Min(us) \in Int /\ Max(us) - Min(us) < SubgridSize - KernelSize
      /\ \A x \in us : Min(us) <= x /\ x <= Max(us)
  BY <1>4, LimitsOf
<1>6. /\ Max(vs) \in Int /\ Min(vs) \in Int /\ Max(vs) - Min(vs) < SubgridSize - KernelSize
      /\ \A x \in vs : Min(vs) <= x /\ x <= Max(vs)
  BY <1>4, LimitsOf
<1>7. /\ u \in Int /\ Min(us) + Max(us) - 1 <= 2 * u /\ 2 * u <= Min(us) + Max(us) + 1
  BY <1>2, <1>5, Middles
<1>8. /\ v \in Int /\ Min(vs) + Max(vs) - 1 <= 2 * v /\ 2 * v <= Min(vs) + Max(vs) + 1
  BY <1>2, <1>6, Middles
<1>9. /\ \A p \in points : Min(us) <= p.u /\ p.u <= Max(us)
      /\ \A p \in points : Min(vs) <= p.v /\ p.v <= Max(vs)
  BY <1>4, <1>5, <1>6
<1> HIDE DEF us, vs
<1>10. \E lo, hi \in Int :
              /\ hi - lo < SubgridSize - KernelSize
              /\ lo + hi - 1 <= 2 * u /\ 2 * u <= lo + hi + 1
              /\ \A p \in points : lo <= p.u /\ p.u <= hi
  BY <1>5, <1>7, <1>9
<1>11. \E lo, hi \in Int :
              /\ hi - lo < SubgridSize - KernelSize
              /\ lo + hi - 1 <= 2 * v /\ 2 * v <= lo + hi + 1
              /\ \A p \in points : lo <= p.v /\ p.v <= hi
  BY <1>6, <1>8, <1>9
<1> QED BY <1>7, <1>8, <1>10, <1>11 DEF points

(* The corner of a subgrid lies in its tile. *)
LEMMA CornerInTile ==
  ASSUME NEW row, NEW begin, NEW first, NEW n, NEW s, NEW u, NEW v,
         PlacedAt(row, begin, first, n, s, u, v)
  PROVE  /\ s.at.x - (s.at.tile[1] * WtileSize - (SubgridSize \div 2) + (GridSize \div 2))
              \in 0 .. WtileSize - 1
         /\ s.at.y - (s.at.tile[2] * WtileSize - (SubgridSize \div 2) + (GridSize \div 2))
              \in 0 .. WtileSize - 1
<1> DEFINE g == GridSize \div 2
           h == SubgridSize \div 2
<1>1. g \in Int /\ h \in Int /\ WtileSize \in Nat \ {0}
  BY PlanningAssumption
<1>2. u \in Int /\ v \in Int
  BY PlaceMiddle
<1>3. /\ s.at.x = u + g - h /\ s.at.y = v + g - h
      /\ s.at.tile[1] = u \div WtileSize /\ s.at.tile[2] = v \div WtileSize
  BY DEF PlacedAt, TileCoordinate
<1> HIDE DEF g, h
<1>4. ASSUME NEW x \in Int
      PROVE  (x + g - h) - ((x \div WtileSize) * WtileSize - h + g) \in 0 .. WtileSize - 1
  <2> DEFINE k == (x \div WtileSize) * WtileSize
  <2>1. k \in Int /\ x - k \in 0 .. WtileSize - 1
    BY <1>1, Division
  <2> HIDE DEF k
  <2>2. (x + g - h) - (k - h + g) = x - k
    BY <1>1, <2>1
  <2> QED BY <2>1, <2>2 DEF k
<1>6. /\ s.at.x - (s.at.tile[1] * WtileSize - h + g) \in 0 .. WtileSize - 1
      /\ s.at.y - (s.at.tile[2] * WtileSize - h + g) \in 0 .. WtileSize - 1
  BY <1>2, <1>3, <1>4
<1> QED BY <1>6 DEF g, h

(* The tile of a subgrid in range is one the cache knows. *)
LEMMA TileInGrid ==
  ASSUME NEW row, NEW begin, NEW first, NEW n, NEW s, NEW u, NEW v,
         PlacedAt(row, begin, first, n, s, u, v), InRange(s)
  PROVE  s.at.tile \in Coordinates
<1> DEFINE g == GridSize \div 2
           h == SubgridSize \div 2
<1>1. g \in Int /\ h \in Int /\ GridSize - SubgridSize \in Int
  BY PlanningAssumption
<1>2. u \in Int /\ v \in Int
  BY PlaceMiddle
<1>3. /\ s.at.x = u + g - h /\ s.at.y = v + g - h
      /\ s.at.tile = <<TileCoordinate(u), TileCoordinate(v), s.at.w>>
  BY DEF PlacedAt
<1>4. s.at.w \in -NrWLayers .. NrWLayers - 1
  BY DEF InRange
<1> HIDE DEF g, h
<1>5. s.at.x \in Int /\ s.at.y \in Int /\ s.at.x + h - g = u /\ s.at.y + h - g = v
  BY <1>1, <1>2, <1>3
<1>6. s.at.x \in 1 .. GridSize - SubgridSize /\ s.at.y \in 1 .. GridSize - SubgridSize
  <2> DEFINE x == s.at.x
             y == s.at.y
  <2>1. x \in Int /\ y \in Int
    BY <1>5
  <2>2. Min({x, y}) >= 1 /\ Max({x, y}) <= GridSize - SubgridSize
    BY DEF InRange
  <2> HIDE DEF x, y
  <2>3. /\ Min({x, y}) \in Int /\ Min({x, y}) <= x /\ Min({x, y}) <= y
        /\ Max({x, y}) \in Int /\ x <= Max({x, y}) /\ y <= Max({x, y})
    BY <2>1, Pairs
  <2>4. x \in 1 .. GridSize - SubgridSize /\ y \in 1 .. GridSize - SubgridSize
    BY <1>1, <2>1, <2>2, <2>3
  <2> QED BY <2>4 DEF x, y
<1>7. <<TileCoordinate(s.at.x + h - g), TileCoordinate(s.at.y + h - g), s.at.w>> \in Coordinates
  BY <1>4, <1>6, TilesAssumption DEF g, h
<1> QED BY <1>3, <1>5, <1>7

(* The visibilities of a subgrid are within its limits, also those of the
   channels between the first and the last. *)
LEMMA VisibilityWithin ==
  ASSUME FrequenciesInOrder,
         NEW row, NEW begin, NEW first, NEW n, NEW s, NEW u, NEW v,
         PlacedAt(row, begin, first, n, s, u, v),
         NEW t, NEW channel, Holds(s, t, channel),
         NEW lo \in Int, NEW hi \in Int
  PROVE  /\ (\A p \in Extent(row, begin, first, n) : lo <= p.u /\ p.u <= hi)
              => Pixel(row, t, channel).u \in lo .. hi
         /\ (\A p \in Extent(row, begin, first, n) : lo <= p.v /\ p.v <= hi)
              => Pixel(row, t, channel).v \in lo .. hi
<1> DEFINE last == GroupEnd(row, begin) - 1
<1>1. t \in first .. first + n - 1 /\ channel \in begin .. last
  BY DEF Holds, PlacedAt
<1>2. /\ t \in Timesteps /\ Measured(row, t) /\ row \in Rows
      /\ begin \in 0 .. NrChannels - 1
  BY <1>1, FittingTimesteps DEF PlacedAt
<1>3. last \in begin .. NrChannels - 1 /\ last \in 0 .. NrChannels - 1 /\ channel \in 0 .. NrChannels - 1
  BY <1>1, <1>2, GroupEnds, Channels
<1>4. /\ Pixel(row, t, begin) \in Extent(row, begin, first, n)
      /\ Pixel(row, t, last) \in Extent(row, begin, first, n)
  BY <1>1, ExtentFits DEF PlacedAt, Added
<1> DEFINE f(c) == Frequencies[c + 1]
           x == Uvw(row, t).u
           y == Uvw(row, t).v
<1>5. /\ x \in Int /\ y \in Int
      /\ \A c \in {begin, channel, last} :
           /\ f(c) \in Int
           /\ Pixel(row, t, c).u = x * f(c) /\ Pixel(row, t, c).v = y * f(c)
  BY <1>2, <1>3, Pixels
<1>6. \/ f(begin) <= f(channel) /\ f(channel) <= f(last)
      \/ f(last) <= f(channel) /\ f(channel) <= f(begin)
  <2>1. /\ begin + 1 \in DOMAIN Frequencies /\ channel + 1 \in DOMAIN Frequencies
        /\ last + 1 \in DOMAIN Frequencies
        /\ begin + 1 <= channel + 1 /\ channel + 1 <= last + 1
    BY <1>1, <1>2, <1>3, PlanningAssumption DEF NrChannels
  <2> QED BY <2>1 DEF FrequenciesInOrder
<1> HIDE DEF f, x, y, last
<1>7. ASSUME NEW z \in Int
      PROVE  /\ z * f(begin) \in Int /\ z * f(channel) \in Int /\ z * f(last) \in Int
             /\ \/ z * f(begin) <= z * f(channel) /\ z * f(channel) <= z * f(last)
                \/ z * f(last) <= z * f(channel) /\ z * f(channel) <= z * f(begin)
  <2>1. f(begin) \in Int /\ f(channel) \in Int /\ f(last) \in Int
    BY <1>5
  <2>2. z >= 0 \/ z <= 0
    OBVIOUS
  <2> QED BY <2>1, <2>2, <1>6, Between
<1>8. ASSUME \A p \in Extent(row, begin, first, n) : lo <= p.u /\ p.u <= hi
      PROVE  Pixel(row, t, channel).u \in lo .. hi
  <2>1. /\ lo <= x * f(begin) /\ x * f(begin) <= hi
        /\ lo <= x * f(last) /\ x * f(last) <= hi
    BY <1>4, <1>5, <1>8
  <2> HIDE DEF f
  <2>2. x * f(channel) \in lo .. hi
    BY <2>1, <1>5, <1>7
  <2> QED BY <2>2, <1>5
<1>9. ASSUME \A p \in Extent(row, begin, first, n) : lo <= p.v /\ p.v <= hi
      PROVE  Pixel(row, t, channel).v \in lo .. hi
  <2>1. /\ lo <= y * f(begin) /\ y * f(begin) <= hi
        /\ lo <= y * f(last) /\ y * f(last) <= hi
    BY <1>4, <1>5, <1>9
  <2>2. y * f(channel) \in lo .. hi
    BY <2>1, <1>5, <1>7
  <2> QED BY <2>2, <1>5
<1> QED BY <1>8, <1>9

(* Half the width of the kernel remains on each side of a visibility. *)
LEMMA KernelFits ==
  ASSUME NEW lo \in Int, NEW hi \in Int, NEW middle \in Int, NEW x \in lo .. hi,
         hi - lo < SubgridSize - KernelSize,
         lo + hi - 1 <= 2 * middle, 2 * middle <= lo + hi + 1,
         NEW corner, corner = middle + (GridSize \div 2) - (SubgridSize \div 2)
  PROVE  2 * Abs(x + (GridSize \div 2) - (corner + (SubgridSize \div 2)))
           <= SubgridSize - KernelSize
<1>1. GridSize \div 2 \in Int /\ SubgridSize \div 2 \in Int /\ SubgridSize - KernelSize \in Int
  BY PlanningAssumption
<1>2. x + (GridSize \div 2) - (corner + (SubgridSize \div 2)) = x - middle
  BY <1>1
<1>3. x \in Int /\ lo <= x /\ x <= hi
  OBVIOUS
<1> DEFINE d == SubgridSize - KernelSize
<1>4. d \in Int /\ hi - lo < d
  BY <1>1
<1> HIDE DEF d
<1>5. 2 * (x - middle) <= d /\ 2 * (middle - x) <= d
  BY <1>3, <1>4
<1>6. 2 * Abs(x - middle) <= d
  BY <1>3, <1>5 DEF Abs
<1> QED BY <1>2, <1>6 DEF d
-----------------------------------------------------------------------------
(* The invariant of the planner, for any data and any cache. *)

AllSubgrids ==
  {Subgrid[key[1]][key[2]][key[3]] :
     key \in RowsWithData \X (0 .. NrChannels - 1) \X Timesteps}

Entries ==
  [baseline : Baselines, subgrid : AllSubgrids, wtile : TileIds \cup {NoTile}, nrAterms : Int]

(* A planned subgrid is the one its place in the data gives, and in range. *)
FromTable(m, data) ==
  /\ m.baseline \in Baselines /\ data[m.baseline] \in RowsWithData
  /\ \E begin \in 0 .. NrChannels - 1, first \in Timesteps :
       m.subgrid = Subgrid[data[m.baseline]][begin][first]
  /\ m.subgrid.nrTimesteps > 0 /\ InRange(m.subgrid)

TypesInv ==
  /\ WTilesTypeOK
  /\ phase \in Phases
  /\ uvw \in [Baselines -> Rows \cup {<<>>}]
  /\ channelBegin \in [Baselines -> 0 .. NrChannels]
  /\ timeOffset \in [Baselines -> Nat]
  /\ nrSubgrids \in [Baselines -> Nat]
  /\ offsets \in Seq(Nat)
  /\ requests \in Seq(Coordinates)

SubgridsInv ==
  /\ \A e \in DOMAIN rows : rows[e] \in Entries /\ FromTable(rows[e], uvw)
  /\ metadata \in Seq(Entries)
  /\ \A k \in DOMAIN metadata : FromTable(metadata[k], uvw)

(* A thread is at a timestep of its data, and what it stored is in memory. *)
CursorInv ==
  \A b \in Baselines :
    /\ uvw[b] \in RowsWithData => timeOffset[b] \in FirstTimestep(uvw[b]) .. NrTimesteps - 1
    /\ \A k \in 0 .. nrSubgrids[b] - 1 : b * Columns + k \in DOMAIN rows

(* The subgrids are appended from the offset of their baseline on. *)
OffsetsInv ==
  /\ phase \in {"idle", "split"} => metadata = <<>>
  /\ phase = "combine" => offsets # <<>> /\ offsets[Len(offsets)] <= Len(metadata)

CacheInv ==
  /\ SlotsPartitioned /\ LastActive
  /\ LogInOrder(flushSet, Len(metadata)) /\ LogInOrder(initializeSet, Len(metadata))
  /\ phase # "combine" => flushSet = <<>> /\ initializeSet = <<>>

PlanInv == TypesInv /\ SubgridsInv /\ CursorInv /\ OffsetsInv /\ CacheInv

(* The array of rows has a nonnegative number of columns. *)
LEMMA ColumnsType == Columns \in Nat
<1>1. Limit \in Nat
  <2>1. MaxTimesteps \in Int /\ NrTimesteps \in Int
    BY PlanningAssumption
  <2>2. Limit \in {MaxTimesteps, NrTimesteps}
    BY <2>1, Pairs DEF Limit
  <2> QED BY <2>2, PlanningAssumption
<1> DEFINE size == IF Limit > 0 THEN (NrTimesteps + Limit) \div Limit + 1 ELSE NrTimesteps
<1>2. size \in Nat
  <2>1. CASE Limit > 0
    <3> DEFINE q == (NrTimesteps + Limit) \div Limit
    <3>1. q \in Int /\ (NrTimesteps + Limit) - q * Limit \in 0 .. Limit - 1
      BY <1>1, <2>1, Channels, Division
    <3> HIDE DEF q
    <3>2. q >= 0
      BY <1>1, <2>1, <3>1, Channels
    <3> QED BY <2>1, <3>1, <3>2 DEF q
  <2>2. CASE ~(Limit > 0)
    BY <2>2, Channels
  <2> QED BY <2>1, <2>2
<1>3. Columns = NrChannels * size
  BY DEF Columns
<1> HIDE DEF size
<1> QED BY <1>2, <1>3, Channels

(* A planned subgrid has a place. *)
LEMMA FromTablePlaced ==
  ASSUME NEW m, NEW data, FromTable(m, data)
  PROVE  \E begin, first, n, u, v :
           PlacedAt(data[m.baseline], begin, first, n, m.subgrid, u, v)
<1>1. PICK begin \in 0 .. NrChannels - 1, first \in Timesteps :
         m.subgrid = Subgrid[data[m.baseline]][begin][first]
  BY DEF FromTable
<1>2. data[m.baseline] \in RowsWithData /\ m.subgrid.nrTimesteps > 0
  BY DEF FromTable
<1> QED BY <1>1, <1>2, SubgridIsPlaced

(* Its tile is one of the cache's. *)
LEMMA FromTableTile ==
  ASSUME NEW m, NEW data, FromTable(m, data)
  PROVE  m.subgrid.at.tile \in Coordinates
<1>1. InRange(m.subgrid)
  BY DEF FromTable
<1> QED BY <1>1, FromTablePlaced, TileInGrid

(* The next subgrid of a thread. *)
LEMMA ThreadSubgrid ==
  ASSUME TypesInv, CursorInv, NEW b \in Baselines, NEW s \in NextSubgrid(b)
  PROVE  /\ phase = "split" /\ ~Done(b)
         /\ uvw[b] \in RowsWithData /\ uvw[b] \in Rows
         /\ channelBegin[b] \in 0 .. NrChannels - 1
         /\ timeOffset[b] \in FirstTimestep(uvw[b]) .. NrTimesteps - 1
         /\ timeOffset[b] \in Timesteps
         /\ s = Subgrid[uvw[b]][channelBegin[b]][timeOffset[b]]
         /\ s.nrTimesteps \in 0 .. NrTimesteps - timeOffset[b]
         /\ s \in AllSubgrids
<1>1. /\ phase = "split" /\ ~Done(b)
      /\ s = Subgrid[uvw[b]][channelBegin[b]][timeOffset[b]]
  BY DEF NextSubgrid
<1>2. uvw[b] \in RowsWithData /\ channelBegin[b] # NrChannels
  BY <1>1 DEF Done, HasData
<1>3. channelBegin[b] \in 0 .. NrChannels - 1
  BY <1>2, Channels DEF TypesInv
<1>4. timeOffset[b] \in FirstTimestep(uvw[b]) .. NrTimesteps - 1
  BY <1>2 DEF CursorInv
<1>5. uvw[b] \in Rows /\ FirstTimestep(uvw[b]) \in 0 .. NrTimesteps
  BY <1>2, FirstTimestepOf DEF RowsWithData
<1>6. timeOffset[b] \in Timesteps
  BY <1>4, <1>5, Channels DEF Timesteps
<1> DEFINE row == uvw[b]
           begin == channelBegin[b]
           first == timeOffset[b]
<1>7. s.nrTimesteps = NrTimestepsSubgrid(row, begin, first)
  <2>1. row \in RowsWithData /\ begin \in 0 .. NrChannels - 1 /\ first \in Timesteps
    BY <1>2, <1>3, <1>6
  <2>2. s = Subgrid[row][begin][first]
    BY <1>1
  <2> HIDE DEF row, begin, first
  <2> QED BY <2>1, <2>2 DEF Subgrid
<1>8. s.nrTimesteps \in 0 .. NrTimesteps - first
  BY <1>6, <1>7, Lengths
<1>9. s \in AllSubgrids
  <2> DEFINE key == <<row, begin, first>>
  <2>1. key \in RowsWithData \X (0 .. NrChannels - 1) \X Timesteps
    BY <1>2, <1>3, <1>6
  <2>2. s = Subgrid[key[1]][key[2]][key[3]]
    BY <1>1
  <2> HIDE DEF key
  <2> QED BY <2>1, <2>2 DEF AllSubgrids
<1> QED BY <1>1, <1>2, <1>3, <1>4, <1>5, <1>6, <1>8, <1>9

(* Every thread advances within its data. *)
LEMMA AdvanceWithin ==
  ASSUME TypesInv, CursorInv, NEW b \in Baselines, NEW s \in NextSubgrid(b),
         NEW n \in Nat, Advance(b, n), uvw' = uvw
  PROVE  /\ channelBegin' \in [Baselines -> 0 .. NrChannels]
         /\ timeOffset' \in [Baselines -> Nat]
         /\ \A c \in Baselines : uvw[c] \in RowsWithData =>
              timeOffset'[c] \in FirstTimestep(uvw[c]) .. NrTimesteps - 1
<1>1. /\ uvw[b] \in RowsWithData /\ uvw[b] \in Rows
      /\ channelBegin[b] \in 0 .. NrChannels - 1
      /\ timeOffset[b] \in FirstTimestep(uvw[b]) .. NrTimesteps - 1
  BY ThreadSubgrid
<1>2. /\ FirstTimestep(uvw[b]) \in 0 .. NrTimesteps - 1
      /\ GroupEnd(uvw[b], channelBegin[b]) \in channelBegin[b] + 1 .. NrChannels
      /\ NrTimesteps \in Nat /\ NrChannels \in Nat
  BY <1>1, FirstTimestepOf, GroupEnds, Channels DEF Timesteps
<1> DEFINE next == timeOffset[b] + Max({n, 1})
<1>3. next \in Nat /\ timeOffset[b] < next
  <2>1. Max({n, 1}) \in {n, 1} /\ 1 <= Max({n, 1})
    BY Pairs
  <2> QED BY <2>1, <1>1, <1>2
<1>4. \/ /\ next < NrTimesteps
         /\ timeOffset' = [timeOffset EXCEPT ![b] = next]
         /\ channelBegin' = channelBegin
      \/ /\ timeOffset' = [timeOffset EXCEPT ![b] = FirstTimestep(uvw[b])]
         /\ channelBegin' = [channelBegin EXCEPT ![b] = GroupEnd(uvw[b], channelBegin[b])]
  BY DEF Advance, TypesInv
<1> HIDE DEF next
<1>5. /\ timeOffset \in [Baselines -> Nat] /\ channelBegin \in [Baselines -> 0 .. NrChannels]
      /\ \A c \in Baselines : uvw[c] \in RowsWithData =>
              timeOffset[c] \in FirstTimestep(uvw[c]) .. NrTimesteps - 1
  BY DEF TypesInv, CursorInv
<1>6. CASE /\ next < NrTimesteps
           /\ timeOffset' = [timeOffset EXCEPT ![b] = next]
           /\ channelBegin' = channelBegin
  <2>1. next \in FirstTimestep(uvw[b]) .. NrTimesteps - 1
    BY <1>1, <1>2, <1>3, <1>6
  <2> QED BY <2>1, <1>3, <1>5, <1>6
<1>7. CASE /\ timeOffset' = [timeOffset EXCEPT ![b] = FirstTimestep(uvw[b])]
           /\ channelBegin' = [channelBegin EXCEPT ![b] = GroupEnd(uvw[b], channelBegin[b])]
  <2>1. /\ GroupEnd(uvw[b], channelBegin[b]) \in 0 .. NrChannels
        /\ FirstTimestep(uvw[b]) \in Nat
        /\ FirstTimestep(uvw[b]) \in FirstTimestep(uvw[b]) .. NrTimesteps - 1
    BY <1>1, <1>2
  <2> QED BY <2>1, <1>5, <1>7
<1> QED BY <1>4, <1>6, <1>7
(* The cache and the lists are left alone by the parallel loop. *)
LEMMA CacheKept ==
  ASSUME CacheInv, UNCHANGED <<wtilesVars, metadata>>,
         phase' # "combine" => phase # "combine"
  PROVE  CacheInv'
<1>1. UNCHANGED <<wtileId, lastAccess, freeWtiles, subgridCount, flushSet, initializeSet, metadata>>
  BY DEF wtilesVars
<1>2. SlotsPartitioned' /\ LastActive'
  BY <1>1 DEF CacheInv, SlotsPartitioned, ActiveWtiles, LastActive
<1>3. LogInOrder(flushSet', Len(metadata)') /\ LogInOrder(initializeSet', Len(metadata)')
  BY <1>1 DEF CacheInv
<1> QED BY <1>1, <1>2, <1>3 DEF CacheInv

(* The planner starts on new data. *)
LEMMA BeginPlanStep ==
  ASSUME PlanInv, BeginPlan
  PROVE  PlanInv'
<1>1. /\ phase \in {"idle", "planned"} /\ phase' = "split"
      /\ uvw' \in [Baselines -> Rows \cup {<<>>}]
      /\ channelBegin' = [b \in Baselines |-> 0]
      /\ timeOffset' = [b \in Baselines |-> IF uvw'[b] = <<>> THEN 0 ELSE FirstTimestep(uvw'[b])]
      /\ rows' = <<>> /\ nrSubgrids' = [b \in Baselines |-> 0]
      /\ metadata' = <<>> /\ offsets' = <<>>
      /\ UNCHANGED <<wtilesVars, requests>>
  BY DEF BeginPlan
<1>2. \A row \in Rows : /\ FirstTimestep(row) \in Nat /\ row # <<>>
                        /\ row \in RowsWithData =>
                             FirstTimestep(row) \in FirstTimestep(row) .. NrTimesteps - 1
  <2> SUFFICES ASSUME NEW row \in Rows
               PROVE  /\ FirstTimestep(row) \in Nat /\ row # <<>>
                      /\ row \in RowsWithData =>
                           FirstTimestep(row) \in FirstTimestep(row) .. NrTimesteps - 1
    OBVIOUS
  <2>1. /\ FirstTimestep(row) \in 0 .. NrTimesteps
        /\ row \in RowsWithData => FirstTimestep(row) \in 0 .. NrTimesteps - 1
    BY FirstTimestepOf DEF Timesteps
  <2> QED BY <2>1, PlanningAssumption
<1>3. TypesInv'
  <2>1. WTilesTypeOK'
    BY <1>1 DEF PlanInv, TypesInv, WTilesTypeOK, wtilesVars
  <2>2. timeOffset' \in [Baselines -> Nat]
    BY <1>1, <1>2
  <2>3. channelBegin' \in [Baselines -> 0 .. NrChannels] /\ nrSubgrids' \in [Baselines -> Nat]
    BY <1>1, Channels
  <2>4. offsets' \in Seq(Nat) /\ requests' \in Seq(Coordinates)
    BY <1>1 DEF PlanInv, TypesInv
  <2> QED BY <1>1, <2>1, <2>2, <2>3, <2>4 DEF TypesInv, Phases
<1>4. SubgridsInv'
  BY <1>1 DEF SubgridsInv
<1>5. CursorInv'
  <2> SUFFICES ASSUME NEW b \in Baselines
               PROVE  /\ uvw'[b] \in RowsWithData =>
                           timeOffset'[b] \in FirstTimestep(uvw'[b]) .. NrTimesteps - 1
                      /\ nrSubgrids'[b] = 0
    BY DEF CursorInv
  <2>1. nrSubgrids'[b] = 0
    BY <1>1
  <2>2. ASSUME uvw'[b] \in RowsWithData
        PROVE  timeOffset'[b] \in FirstTimestep(uvw'[b]) .. NrTimesteps - 1
    <3>1. uvw'[b] \in Rows
      BY <2>2 DEF RowsWithData
    <3> QED BY <3>1, <2>2, <1>1, <1>2
  <2> QED BY <2>1, <2>2
<1>6. OffsetsInv'
  BY <1>1 DEF OffsetsInv
<1>7. CacheInv'
  <2>1. flushSet = <<>> /\ initializeSet = <<>> /\ SlotsPartitioned /\ LastActive
    BY <1>1 DEF PlanInv, CacheInv
  <2>2. flushSet' = <<>> /\ initializeSet' = <<>>
    BY <1>1, <2>1 DEF wtilesVars
  <2>3. SlotsPartitioned' /\ LastActive'
    BY <1>1, <2>1 DEF wtilesVars, SlotsPartitioned, ActiveWtiles, LastActive
  <2> QED BY <1>1, <2>2, <2>3, LogEmpty DEF CacheInv
<1> QED BY <1>3, <1>4, <1>5, <1>6, <1>7 DEF PlanInv

(* A thread goes on without storing a subgrid. *)
LEMMA PassStep ==
  ASSUME PlanInv, NEW b \in Baselines, NEW s \in NextSubgrid(b), NEW n \in Nat, Advance(b, n),
         UNCHANGED <<wtilesVars, phase, rows, nrSubgrids, inputVars, listVars, requests>>
  PROVE  PlanInv'
<1>1. /\ UNCHANGED <<wtilesVars, phase, rows, nrSubgrids, uvw, metadata, offsets, requests>>
      /\ UNCHANGED <<wtileId, lastAccess, freeWtiles, subgridCount, flushSet, initializeSet>>
  BY DEF inputVars, listVars, wtilesVars
<1>2. /\ channelBegin' \in [Baselines -> 0 .. NrChannels]
      /\ timeOffset' \in [Baselines -> Nat]
      /\ \A c \in Baselines : uvw[c] \in RowsWithData =>
              timeOffset'[c] \in FirstTimestep(uvw[c]) .. NrTimesteps - 1
  BY <1>1, AdvanceWithin DEF PlanInv
<1>3. TypesInv'
  BY <1>1, <1>2 DEF PlanInv, TypesInv, WTilesTypeOK
<1>4. SubgridsInv'
  BY <1>1 DEF PlanInv, SubgridsInv
<1>5. CursorInv'
  BY <1>1, <1>2 DEF PlanInv, CursorInv
<1>6. OffsetsInv'
  BY <1>1 DEF PlanInv, OffsetsInv
<1>7. CacheInv'
  <2>1. CacheInv
    BY DEF PlanInv
  <2> QED BY <1>1, <2>1, CacheKept
<1> QED BY <1>3, <1>4, <1>5, <1>6, <1>7 DEF PlanInv

(* A thread stores a subgrid. *)
LEMMA StoreStep ==
  ASSUME PlanInv, NEW b \in Baselines, NEW s \in NextSubgrid(b),
         s.nrTimesteps # 0, StoreSubgrid(b, s)
  PROVE  PlanInv'
<1>1. /\ UNCHANGED <<wtilesVars, phase, uvw, metadata, offsets, requests>>
      /\ UNCHANGED <<wtileId, lastAccess, freeWtiles, subgridCount, flushSet, initializeSet>>
      /\ InRange(s) /\ Advance(b, s.nrTimesteps)
      /\ nrSubgrids' = [nrSubgrids EXCEPT ![b] = @ + 1]
      /\ rows' = [entry \in DOMAIN rows \cup {RowEntry(b)} |->
                    IF entry = RowEntry(b) THEN Metadata(b, s) ELSE rows[entry]]
  BY DEF StoreSubgrid, inputVars, listVars, wtilesVars
<1>2. /\ phase = "split" /\ uvw[b] \in RowsWithData
      /\ channelBegin[b] \in 0 .. NrChannels - 1 /\ timeOffset[b] \in Timesteps
      /\ s = Subgrid[uvw[b]][channelBegin[b]][timeOffset[b]]
      /\ s.nrTimesteps \in 0 .. NrTimesteps - timeOffset[b] /\ s \in AllSubgrids
  BY ThreadSubgrid DEF PlanInv
<1>3. s.nrTimesteps \in Nat /\ s.nrTimesteps > 0
  BY <1>2, Channels DEF Timesteps
<1>4. /\ channelBegin' \in [Baselines -> 0 .. NrChannels]
      /\ timeOffset' \in [Baselines -> Nat]
      /\ \A c \in Baselines : uvw[c] \in RowsWithData =>
              timeOffset'[c] \in FirstTimestep(uvw[c]) .. NrTimesteps - 1
  BY <1>1, <1>3, AdvanceWithin DEF PlanInv
<1>5. nrSubgrids \in [Baselines -> Nat] /\ nrSubgrids' \in [Baselines -> Nat]
  BY <1>1 DEF PlanInv, TypesInv
<1>6. TypesInv'
  BY <1>1, <1>4, <1>5 DEF PlanInv, TypesInv, WTilesTypeOK
<1>7. Metadata(b, s) \in Entries /\ FromTable(Metadata(b, s), uvw)
  <2> DEFINE m == Metadata(b, s)
  <2>1. m \in Entries /\ m.baseline = b /\ m.subgrid = s
    BY <1>2 DEF Metadata, Entries, NoTile
  <2> HIDE DEF m
  <2>2. FromTable(m, uvw)
    BY <2>1, <1>1, <1>2, <1>3 DEF FromTable
  <2> QED BY <2>1, <2>2 DEF m
<1>8. SubgridsInv'
  <2>1. \A e \in DOMAIN rows' : rows'[e] \in Entries /\ FromTable(rows'[e], uvw)
    <3> SUFFICES ASSUME NEW e \in DOMAIN rows'
                 PROVE  rows'[e] \in Entries /\ FromTable(rows'[e], uvw)
      OBVIOUS
    <3>1. rows'[e] = Metadata(b, s) \/ (e \in DOMAIN rows /\ rows'[e] = rows[e])
      BY <1>1
    <3> QED BY <3>1, <1>7 DEF PlanInv, SubgridsInv
  <2>2. metadata' \in Seq(Entries) /\ \A k \in DOMAIN metadata' : FromTable(metadata'[k], uvw)
    BY <1>1 DEF PlanInv, SubgridsInv
  <2> QED BY <2>1, <2>2, <1>1 DEF SubgridsInv
<1>9. CursorInv'
  <2> SUFFICES ASSUME NEW c \in Baselines, NEW k \in 0 .. nrSubgrids'[c] - 1
               PROVE  c * Columns + k \in DOMAIN rows'
    BY <1>1, <1>4 DEF CursorInv
  <2>1. DOMAIN rows' = DOMAIN rows \cup {b * Columns + nrSubgrids[b]}
    BY <1>1 DEF RowEntry
  <2>2. k \in 0 .. nrSubgrids[c] - 1 \/ (c = b /\ k = nrSubgrids[b])
    BY <1>1, <1>5
  <2> QED BY <2>1, <2>2 DEF PlanInv, CursorInv
<1>10. OffsetsInv'
  BY <1>1 DEF PlanInv, OffsetsInv
<1>11. CacheInv'
  <2>1. CacheInv
    BY DEF PlanInv
  <2> QED BY <1>1, <1>2, <2>1, CacheKept
<1> QED BY <1>6, <1>8, <1>9, <1>10, <1>11 DEF PlanInv

(* A step of a thread: it skips a timestep, stores or drops a subgrid, or the
   program ends. *)
LEMMA ThreadStep ==
  ASSUME PlanInv, NEW b \in Baselines, Thread(b)
  PROVE  PlanInv'
<1>1. PICK s \in NextSubgrid(b) :
         IF s.nrTimesteps = 0
         THEN SkipTimestep(b) \/ ThrowNotPlaced(b)
         ELSE StoreSubgrid(b, s) \/ DropSubgrid(b, s) \/ ThrowOutOfRange(s)
  BY DEF Thread
<1>2. CASE SkipTimestep(b)
  <2>1. /\ Advance(b, 0) /\ 0 \in Nat
        /\ UNCHANGED <<wtilesVars, phase, rows, nrSubgrids, inputVars, listVars, requests>>
    BY <1>2 DEF SkipTimestep
  <2> QED BY <2>1, PassStep
<1>3. CASE Throw
  <2>1. /\ UNCHANGED <<wtilesVars, channelBegin, timeOffset, rows, nrSubgrids, uvw,
                       metadata, offsets, requests>>
        /\ UNCHANGED <<wtileId, lastAccess, freeWtiles, subgridCount, flushSet, initializeSet>>
        /\ phase' = "failed"
    BY <1>3 DEF Throw, threadVars, inputVars, listVars, wtilesVars
  <2>2. phase = "split"
    BY ThreadSubgrid DEF PlanInv
  <2>3. TypesInv'
    BY <2>1 DEF PlanInv, TypesInv, WTilesTypeOK, Phases
  <2>4. SubgridsInv' /\ CursorInv' /\ OffsetsInv'
    BY <2>1 DEF PlanInv, SubgridsInv, CursorInv, OffsetsInv
  <2>5. CacheInv'
    <3>1. CacheInv
      BY DEF PlanInv
    <3> QED BY <2>1, <2>2, <3>1, CacheKept
  <2> QED BY <2>3, <2>4, <2>5 DEF PlanInv
<1>4. CASE s.nrTimesteps # 0 /\ StoreSubgrid(b, s)
  BY <1>4, StoreStep
<1>5. CASE DropSubgrid(b, s)
  <2>1. s.nrTimesteps \in Nat
    BY ThreadSubgrid, Channels DEF PlanInv, Timesteps
  <2>2. /\ Advance(b, s.nrTimesteps)
        /\ UNCHANGED <<wtilesVars, phase, rows, nrSubgrids, inputVars, listVars, requests>>
    BY <1>5 DEF DropSubgrid
  <2> QED BY <2>1, <2>2, PassStep
<1> QED BY <1>1, <1>2, <1>3, <1>4, <1>5 DEF ThrowNotPlaced, ThrowOutOfRange

(* The parallel loop ends, or an offset is appended. *)
LEMMA OffsetStep ==
  ASSUME PlanInv, EndSplit \/ AppendOffset
  PROVE  PlanInv'
<1>1. /\ UNCHANGED <<wtilesVars, channelBegin, timeOffset, rows, nrSubgrids, uvw,
                     metadata, requests>>
      /\ UNCHANGED <<wtileId, lastAccess, freeWtiles, subgridCount, flushSet, initializeSet>>
      /\ phase' = "combine"
  BY DEF EndSplit, AppendOffset, threadVars, inputVars, wtilesVars
<1>2. /\ offsets' \in Seq(Nat) /\ offsets' # <<>>
      /\ offsets'[Len(offsets')] <= Len(metadata)
  <2>1. Len(metadata) \in Nat
    BY DEF PlanInv, SubgridsInv
  <2>2. CASE EndSplit
    BY <2>1, <2>2 DEF EndSplit
  <2>3. CASE AppendOffset
    <3>1. offsets' = Append(offsets, Len(metadata)) /\ offsets \in Seq(Nat)
      BY <2>3 DEF AppendOffset, PlanInv, TypesInv
    <3> HIDE DEF PlanInv
    <3> QED BY <2>1, <3>1
  <2> QED BY <2>2, <2>3
<1>3. TypesInv'
  BY <1>1, <1>2 DEF PlanInv, TypesInv, WTilesTypeOK, Phases
<1>4. SubgridsInv' /\ CursorInv' /\ OffsetsInv'
  BY <1>1, <1>2 DEF PlanInv, SubgridsInv, CursorInv, OffsetsInv
<1>5. CacheInv'
  <2>1. CacheInv
    BY DEF PlanInv
  <2> QED BY <1>1, <2>1, CacheKept
<1> QED BY <1>3, <1>4, <1>5 DEF PlanInv

(* What is appended next: a subgrid of the table, with a tile of the cache. *)
LEMMA NextEntry ==
  ASSUME PlanInv, AppendSubgrid
  PROVE  LET m == rows[CombineBaseline * Columns + CombineIndex]
             tile == m.subgrid.at.tile
         IN  /\ CombineBaseline \in Baselines /\ CombineIndex \in 0 .. nrSubgrids[CombineBaseline] - 1
             /\ m \in Entries /\ FromTable(m, uvw) /\ tile \in Coordinates
             /\ AddSubgrid(Len(metadata), tile)
             /\ metadata' = Append(metadata, [m EXCEPT !.wtile = wtileId'[tile]])
             /\ requests' = Append(requests, tile)
             /\ phase = "combine" /\ phase' = "combine"
             /\ UNCHANGED <<channelBegin, timeOffset, rows, nrSubgrids, strict, uvw, offsets>>
<1> DEFINE m == rows[CombineBaseline * Columns + CombineIndex]
<1>1. /\ phase = "combine" /\ phase' = "combine"
      /\ CombineBaseline < NrBaselines /\ CombineIndex < nrSubgrids[CombineBaseline]
      /\ AddSubgrid(Len(metadata), m.subgrid.at.tile)
      /\ metadata' = Append(metadata, [m EXCEPT !.wtile = wtileId'[m.subgrid.at.tile]])
      /\ requests' = Append(requests, m.subgrid.at.tile)
      /\ UNCHANGED <<channelBegin, timeOffset, rows, nrSubgrids, strict, uvw, offsets>>
  BY DEF AppendSubgrid, threadVars, inputVars
<1> HIDE DEF m
<1>2. /\ Len(offsets) \in Nat /\ Len(offsets) >= 1 /\ Len(metadata) \in Nat
      /\ offsets[Len(offsets)] \in Nat /\ offsets[Len(offsets)] <= Len(metadata)
  <2>1. offsets \in Seq(Nat) /\ offsets # <<>> /\ metadata \in Seq(Entries)
    BY <1>1 DEF PlanInv, TypesInv, SubgridsInv, OffsetsInv
  <2>2. Len(offsets) \in Nat /\ Len(offsets) >= 1 /\ Len(metadata) \in Nat
    BY <2>1
  <2>3. offsets[Len(offsets)] \in Nat
    BY <2>1, <2>2
  <2> QED BY <1>1, <2>2, <2>3 DEF PlanInv, OffsetsInv
<1>3. NrBaselines \in Nat \ {0}
  BY PlanningAssumption
<1>4. CombineBaseline \in Baselines
  BY <1>1, <1>2, <1>3 DEF CombineBaseline, Baselines
<1>5. nrSubgrids[CombineBaseline] \in Nat
  BY <1>4 DEF PlanInv, TypesInv
<1>6. CombineIndex \in 0 .. nrSubgrids[CombineBaseline] - 1
  <2>1. CombineIndex \in Nat
    BY <1>2 DEF CombineIndex, Last
  <2> QED BY <2>1, <1>1, <1>5
<1>7. CombineBaseline * Columns + CombineIndex \in DOMAIN rows
  BY <1>4, <1>6 DEF PlanInv, CursorInv
<1>8. m \in Entries /\ FromTable(m, uvw)
  BY <1>7 DEF PlanInv, SubgridsInv, m
<1>9. m.subgrid.at.tile \in Coordinates
  BY <1>8, FromTableTile
<1> QED BY <1>1, <1>4, <1>6, <1>8, <1>9 DEF m

(* A subgrid is appended and asks the cache for its tile. *)
LEMMA AppendStep ==
  ASSUME PlanInv, AppendSubgrid
  PROVE  PlanInv'
<1> DEFINE m == rows[CombineBaseline * Columns + CombineIndex]
           tile == m.subgrid.at.tile
           e == [m EXCEPT !.wtile = wtileId'[tile]]
           i == Len(metadata)
<1>1. /\ m \in Entries /\ FromTable(m, uvw) /\ tile \in Coordinates
      /\ AddSubgrid(i, tile)
      /\ metadata' = Append(metadata, e) /\ requests' = Append(requests, tile)
      /\ phase = "combine" /\ phase' = "combine"
      /\ UNCHANGED <<channelBegin, timeOffset, rows, nrSubgrids, uvw, offsets>>
  BY NextEntry
<1> HIDE DEF m, tile
<1>2. metadata \in Seq(Entries) /\ i \in Nat
  BY DEF PlanInv, SubgridsInv
<1>3. /\ WTilesTypeOK /\ SlotsPartitioned /\ LastActive
      /\ LogInOrder(flushSet, i) /\ LogInOrder(initializeSet, i)
  BY DEF PlanInv, TypesInv, CacheInv
<1> HIDE DEF i
<1>4. WTilesTypeOK' /\ wtileId'[tile] \in TileIds
  BY <1>1, <1>2, <1>3, AddSubgridTypeOK
<1>5. SlotsPartitioned'
  BY <1>1, <1>2, <1>3, AddSubgridPartitions
<1>6. LogInOrder(flushSet', i + 1)
  BY <1>1, <1>2, <1>3, AddSubgridFlushSet
<1>7. LogInOrder(initializeSet', i + 1) /\ LastActive'
  BY <1>1, <1>2, <1>3, AddSubgridInitializeSet
<1>8. e \in Entries /\ FromTable(e, uvw)
  <2>1. e \in Entries /\ e.baseline = m.baseline /\ e.subgrid = m.subgrid
    BY <1>1, <1>4 DEF Entries
  <2> HIDE DEF e
  <2> QED BY <2>1, <1>1 DEF FromTable
<1> HIDE DEF e
<1>9. /\ metadata' \in Seq(Entries) /\ Len(metadata') = i + 1
      /\ DOMAIN metadata' = 1 .. i + 1
      /\ \A k \in 1 .. i : metadata'[k] = metadata[k] /\ k \in DOMAIN metadata
      /\ metadata'[i + 1] = e
  BY <1>1, <1>2, <1>8, Appended DEF i
<1>10. TypesInv'
  <2>1. requests' \in Seq(Coordinates)
    BY <1>1, Appended DEF PlanInv, TypesInv
  <2> QED BY <2>1, <1>1, <1>4 DEF PlanInv, TypesInv, Phases
<1>11. SubgridsInv'
  <2>1. \A k \in DOMAIN metadata' : FromTable(metadata'[k], uvw)
    <3> SUFFICES ASSUME NEW k \in 1 .. i + 1 PROVE FromTable(metadata'[k], uvw)
      BY <1>9
    <3>1. k \in 1 .. i \/ k = i + 1
      BY <1>2
    <3> QED BY <3>1, <1>8, <1>9 DEF PlanInv, SubgridsInv
  <2> QED BY <2>1, <1>1, <1>9 DEF PlanInv, SubgridsInv
<1>12. CursorInv'
  BY <1>1 DEF PlanInv, CursorInv
<1>13. OffsetsInv'
  <2>1. offsets # <<>> /\ offsets[Len(offsets)] <= i /\ offsets \in Seq(Nat)
    BY <1>1 DEF PlanInv, OffsetsInv, TypesInv, i
  <2>2. offsets[Len(offsets)] <= i + 1
    <3>1. offsets[Len(offsets)] \in Nat
      BY <2>1
    <3> QED BY <2>1, <3>1, <1>2
  <2> QED BY <2>1, <2>2, <1>1, <1>9 DEF OffsetsInv
<1>14. CacheInv'
  BY <1>1, <1>5, <1>6, <1>7, <1>9 DEF CacheInv
<1> QED BY <1>10, <1>11, <1>12, <1>13, <1>14 DEF PlanInv
(* The fields of an entry of the table. *)
LEMMA TableFields ==
  ASSUME NEW m, NEW data, FromTable(m, data)
  PROVE  /\ m.subgrid.time \in Nat /\ m.subgrid.nrTimesteps \in Nat \ {0}
         /\ m.subgrid.time + m.subgrid.nrTimesteps <= NrTimesteps
         /\ m.subgrid.begin \in 0 .. NrChannels - 1
         /\ m.subgrid.end \in m.subgrid.begin + 1 .. NrChannels
<1>1. PICK begin, first, n, u, v :
         PlacedAt(data[m.baseline], begin, first, n, m.subgrid, u, v)
  BY FromTablePlaced
<1> DEFINE row == data[m.baseline]
           s == m.subgrid
<1>2. /\ begin \in 0 .. NrChannels - 1 /\ first \in Timesteps
      /\ n \in Nat /\ n > 0 /\ n = NrTimestepsSubgrid(row, begin, first)
      /\ s.time = first /\ s.nrTimesteps = n
      /\ s.begin = begin /\ s.end = GroupEnd(row, begin)
  BY <1>1 DEF PlacedAt
<1> HIDE DEF row, s
<1>3. n \in 0 .. NrTimesteps - first
  BY <1>2, Lengths
<1>4. GroupEnd(row, begin) \in begin + 1 .. NrChannels
  BY <1>2, GroupEnds
<1>5. first \in Nat /\ first + n <= NrTimesteps
  BY <1>2, <1>3, Channels DEF Timesteps
<1> QED BY <1>2, <1>4, <1>5 DEF s

(* The number of a-terms of a subgrid is a number. *)
LEMMA NrAtermsType ==
  ASSUME NEW s, s.time \in Nat, s.nrTimesteps \in Nat
  PROVE  NrAterms(s) \in Nat
<1> DEFINE range == s.time + 1 .. s.time + s.nrTimesteps - 1
           changes == {t \in range : AtermIndex(t) # AtermIndex(t - 1)}
<1>1. IsFiniteSet(range)
  BY FS_Interval
<1>2. changes \subseteq range
  OBVIOUS
<1>3. NrAterms(s) = 1 + Cardinality(changes)
  BY DEF NrAterms
<1> HIDE DEF range, changes
<1>4. Cardinality(changes) \in Nat
  BY <1>1, <1>2, FS_Subset, FS_CardinalityType
<1> QED BY <1>3, <1>4

(* The plan takes the events of the cache. *)
LEMMA FinishPlanStep ==
  ASSUME PlanInv, FinishPlan
  PROVE  /\ PlanInv'
         /\ DOMAIN metadata' = DOMAIN metadata /\ Len(metadata') = Len(metadata)
         /\ \A k \in DOMAIN metadata : /\ metadata'[k].baseline = metadata[k].baseline
                                       /\ metadata'[k].subgrid = metadata[k].subgrid
<1> DEFINE e(k) == [metadata[k] EXCEPT !.nrAterms = NrAterms(metadata[k].subgrid)]
<1>1. /\ phase = "combine" /\ phase' = "planned"
      /\ TakeUpdateSets
      /\ metadata' = [k \in DOMAIN metadata |-> e(k)]
      /\ UNCHANGED <<channelBegin, timeOffset, rows, nrSubgrids, uvw, offsets, requests>>
  BY DEF FinishPlan, threadVars, inputVars
<1>2. /\ metadata \in Seq(Entries) /\ DOMAIN metadata = 1 .. Len(metadata) /\ Len(metadata) \in Nat
      /\ \A k \in DOMAIN metadata : metadata[k] \in Entries /\ FromTable(metadata[k], uvw)
  BY DEF PlanInv, SubgridsInv
<1>3. ASSUME NEW k \in DOMAIN metadata
      PROVE  /\ e(k) \in Entries /\ FromTable(e(k), uvw)
             /\ e(k).baseline = metadata[k].baseline /\ e(k).subgrid = metadata[k].subgrid
  <2> DEFINE m == metadata[k]
             a == NrAterms(m.subgrid)
             d == [m EXCEPT !.nrAterms = a]
  <2>1. m \in Entries /\ FromTable(m, uvw)
    BY <1>2
  <2> HIDE DEF m
  <2>2. a \in Int
    BY <2>1, TableFields, NrAtermsType
  <2> HIDE DEF a
  <2>3. d \in Entries /\ d.baseline = m.baseline /\ d.subgrid = m.subgrid
    BY <2>1, <2>2 DEF Entries
  <2> HIDE DEF d
  <2>4. FromTable(d, uvw)
    BY <2>1, <2>3 DEF FromTable
  <2> QED BY <2>3, <2>4 DEF d, a, m
<1> HIDE DEF e
<1>4. /\ metadata' \in Seq(Entries) /\ Len(metadata') = Len(metadata)
      /\ DOMAIN metadata' = DOMAIN metadata
      /\ \A k \in DOMAIN metadata : metadata'[k] = e(k)
  BY <1>1, <1>2, <1>3
<1>5. TypesInv'
  BY <1>1, TakeUpdateSetsTypeOK DEF PlanInv, TypesInv, Phases
<1>6. SubgridsInv' /\ CursorInv' /\ OffsetsInv'
  BY <1>1, <1>3, <1>4 DEF PlanInv, SubgridsInv, CursorInv, OffsetsInv
<1>7. CacheInv'
  <2>1. flushSet' = <<>> /\ initializeSet' = <<>> /\ UNCHANGED <<wtileId, freeWtiles>>
    BY <1>1 DEF TakeUpdateSets
  <2>2. SlotsPartitioned'
    BY <2>1 DEF PlanInv, CacheInv, SlotsPartitioned, ActiveWtiles
  <2>3. LastActive'
    BY <2>1 DEF LastActive
  <2> QED BY <1>1, <2>1, <2>2, <2>3, LogEmpty DEF CacheInv
<1> QED BY <1>3, <1>4, <1>5, <1>6, <1>7 DEF PlanInv

(* The cache is cleared between plans. *)
LEMMA ClearStep ==
  ASSUME PlanInv, Clear
  PROVE  PlanInv'
<1>1. /\ phase = "planned" /\ phase' = phase /\ ClearWtiles /\ requests' = <<>>
      /\ UNCHANGED <<channelBegin, timeOffset, rows, nrSubgrids, uvw, metadata, offsets>>
  BY DEF Clear, threadVars, inputVars, listVars
<1>2. TypesInv'
  BY <1>1, ClearWtilesTypeOK DEF PlanInv, TypesInv
<1>3. SubgridsInv' /\ CursorInv' /\ OffsetsInv'
  BY <1>1 DEF PlanInv, SubgridsInv, CursorInv, OffsetsInv
<1>4. CacheInv'
  <2>1. flushSet' = <<>> /\ initializeSet' = <<>>
    BY <1>1 DEF ClearWtiles, PlanInv, CacheInv
  <2>2. SlotsPartitioned'
    BY <1>1, ClearWtilesPartitions DEF PlanInv, CacheInv
  <2>3. LastActive'
    BY <2>1 DEF LastActive
  <2> QED BY <1>1, <2>1, <2>2, <2>3, LogEmpty DEF CacheInv
<1> QED BY <1>2, <1>3, <1>4 DEF PlanInv

(* Nothing is planned yet, with an empty cache. *)
LEMMA PlanInitially == Init => PlanInv
<1> SUFFICES ASSUME Init PROVE PlanInv
  OBVIOUS
<1>1. WTilesTypeOK /\ SlotsPartitioned
  BY EmptyCacheTypeOK DEF Init
<1>2. TypesInv
  BY <1>1, Channels DEF Init, TypesInv, Phases
<1>3. SubgridsInv /\ OffsetsInv
  BY DEF Init, SubgridsInv, OffsetsInv
<1>4. CursorInv
  <2> SUFFICES ASSUME NEW b \in Baselines
               PROVE  uvw[b] \notin RowsWithData /\ nrSubgrids[b] = 0
    BY DEF CursorInv
  <2> QED BY PlanningAssumption DEF Init, RowsWithData
<1>5. CacheInv
  BY <1>1, LogEmpty DEF Init, EmptyCache, CacheInv, LastActive
<1> QED BY <1>2, <1>3, <1>4, <1>5 DEF PlanInv

(* Every step keeps the invariant. *)
LEMMA PlanStep == PlanInv /\ [Next]_vars => PlanInv'
<1> SUFFICES ASSUME PlanInv, [Next]_vars PROVE PlanInv'
  OBVIOUS
<1>1. CASE BeginPlan
  BY <1>1, BeginPlanStep
<1>2. CASE Split
  BY <1>2, ThreadStep, OffsetStep DEF Split
<1>3. CASE Combine
  BY <1>3, AppendStep, OffsetStep, FinishPlanStep DEF Combine
<1>4. CASE Clear
  BY <1>4, ClearStep
<1>5. CASE UNCHANGED vars
  <2>1. /\ UNCHANGED <<wtilesVars, phase, channelBegin, timeOffset, rows, nrSubgrids, uvw,
                       metadata, offsets, requests>>
        /\ UNCHANGED <<wtileId, lastAccess, freeWtiles, subgridCount, flushSet, initializeSet>>
    BY <1>5 DEF vars, threadVars, inputVars, listVars, wtilesVars
  <2>2. TypesInv'
    BY <2>1 DEF PlanInv, TypesInv, WTilesTypeOK
  <2>3. SubgridsInv' /\ CursorInv' /\ OffsetsInv'
    BY <2>1 DEF PlanInv, SubgridsInv, CursorInv, OffsetsInv
  <2>4. CacheInv'
    <3>1. CacheInv
      BY DEF PlanInv
    <3> QED BY <2>1, <3>1, CacheKept
  <2> QED BY <2>2, <2>3, <2>4 DEF PlanInv
<1> QED BY <1>1, <1>2, <1>3, <1>4, <1>5 DEF Next

(* The invariant holds throughout. *)
LEMMA PlanInvariant == Spec => []PlanInv
<1> QED BY PlanInitially, PlanStep, PTL DEF Spec

-----------------------------------------------------------------------------
(* The events that the kernels take from the head of a queue, at most one per
   subgrid, lie at strictly increasing positions of the plan, and none names a
   slot twice, whatever is planned and however the tiles come and go. *)
THEOREM EventsAlwaysOrdered == Spec => []EventsStrictlyOrdered
<1>1. ASSUME NEW n, NEW es \in Seq(UpdateInfo), LogInOrder(es, n)
      PROVE  \A k \in DOMAIN es :
                /\ es[k].subgrid_index < n
                /\ \A l \in DOMAIN es : k < l => es[k].subgrid_index < es[l].subgrid_index
                /\ \A t, u \in es[k].tiles : t[2] = u[2] => t = u
  BY <1>1 DEF LogInOrder
<1>2. PlanInv => EventsStrictlyOrdered
  <2> SUFFICES ASSUME PlanInv, NEW es \in {flushSet, initializeSet}
               PROVE  LogInOrder(es, Len(metadata)) /\ es \in Seq(UpdateInfo)
    BY <1>1 DEF EventsStrictlyOrdered
  <2> QED BY DEF PlanInv, CacheInv, TypesInv, WTilesTypeOK
<1> QED BY <1>2, PlanInvariant, PTL

(* A subgrid lies in its tile, so that the adder and the splitter of tiles clip
   nothing, wherever the visibilities are: left of the centre too, where the
   rounding of the middle and that of the tile go different ways. *)
THEOREM SubgridsInTheirTiles == Spec => []SubgridInTile
<1>1. PlanInv => SubgridInTile
  <2> SUFFICES ASSUME PlanInv, NEW k \in DOMAIN metadata
               PROVE  LET s == metadata[k].subgrid
                      IN  /\ s.at.x - (s.at.tile[1] * WtileSize - (SubgridSize \div 2)
                                       + (GridSize \div 2)) \in 0 .. WtileSize - 1
                          /\ s.at.y - (s.at.tile[2] * WtileSize - (SubgridSize \div 2)
                                       + (GridSize \div 2)) \in 0 .. WtileSize - 1
    BY DEF SubgridInTile
  <2>1. FromTable(metadata[k], uvw)
    BY DEF PlanInv, SubgridsInv
  <2> QED BY <2>1, FromTablePlaced, CornerInTile
<1> QED BY <1>1, PlanInvariant, PTL

(* Each visibility keeps half a kernel's width from the edges of its subgrid,
   and is in the subgrid's w layer: also a visibility of a channel between the
   first and the last of the group, which alone were tried, in whichever order
   the frequencies run. *)
THEOREM KernelsInTheirSubgrids ==
  ASSUME FrequenciesInOrder
  PROVE  Spec => []KernelInSubgrid
<1>1. PlanInv => KernelInSubgrid
  <2> SUFFICES ASSUME PlanInv, NEW k \in DOMAIN metadata,
                      NEW t \in Timesteps, NEW channel \in 0 .. NrChannels - 1,
                      Holds(metadata[k].subgrid, t, channel)
               PROVE  LET row == uvw[metadata[k].baseline]
                          s == metadata[k].subgrid
                          p == Pixel(row, t, channel)
                      IN  /\ 2 * Abs(p.u + (GridSize \div 2) - (s.at.x + (SubgridSize \div 2)))
                               <= SubgridSize - KernelSize
                          /\ 2 * Abs(p.v + (GridSize \div 2) - (s.at.y + (SubgridSize \div 2)))
                               <= SubgridSize - KernelSize
                          /\ WIndex(row, t, s.begin) = s.at.w
    BY DEF KernelInSubgrid
  <2> DEFINE row == uvw[metadata[k].baseline]
             s == metadata[k].subgrid
             p == Pixel(row, t, channel)
  <2>1. PICK begin, first, n, u, v : PlacedAt(row, begin, first, n, s, u, v)
    <3>1. FromTable(metadata[k], uvw)
      BY DEF PlanInv, SubgridsInv
    <3> QED BY <3>1, FromTablePlaced
  <2>2. Holds(s, t, channel)
    OBVIOUS
  <2> HIDE DEF row, s
  <2>3. u \in Int /\ v \in Int
    BY <2>1, PlaceMiddle
  <2>4. 2 * Abs(p.u + (GridSize \div 2) - (s.at.x + (SubgridSize \div 2)))
          <= SubgridSize - KernelSize
    <3>1. PICK lo \in Int, hi \in Int :
              /\ hi - lo < SubgridSize - KernelSize
              /\ lo + hi - 1 <= 2 * u /\ 2 * u <= lo + hi + 1
              /\ \A q \in Extent(row, begin, first, n) : lo <= q.u /\ q.u <= hi
      BY <2>1, PlaceMiddle
    <3>2. p.u \in lo .. hi
      BY <2>1, <2>2, <3>1, VisibilityWithin
    <3>3. s.at.x = u + (GridSize \div 2) - (SubgridSize \div 2)
      BY <2>1 DEF PlacedAt
    <3> HIDE DEF p
    <3> QED BY <2>3, <3>1, <3>2, <3>3, KernelFits
  <2>5. 2 * Abs(p.v + (GridSize \div 2) - (s.at.y + (SubgridSize \div 2)))
          <= SubgridSize - KernelSize
    <3>1. PICK lo \in Int, hi \in Int :
              /\ hi - lo < SubgridSize - KernelSize
              /\ lo + hi - 1 <= 2 * v /\ 2 * v <= lo + hi + 1
              /\ \A q \in Extent(row, begin, first, n) : lo <= q.v /\ q.v <= hi
      BY <2>1, PlaceMiddle
    <3>2. p.v \in lo .. hi
      BY <2>1, <2>2, <3>1, VisibilityWithin
    <3>3. s.at.y = v + (GridSize \div 2) - (SubgridSize \div 2)
      BY <2>1 DEF PlacedAt
    <3> HIDE DEF p
    <3> QED BY <2>3, <3>1, <3>2, <3>3, KernelFits
  <2>6. WIndex(row, t, s.begin) = s.at.w
    <3>1. /\ first \in Timesteps /\ n \in Nat /\ n > 0
          /\ n = NrTimestepsSubgrid(row, begin, first)
          /\ s.begin = begin /\ s.at.w = WIndex(row, first, begin)
          /\ t \in first .. first + n - 1
      BY <2>1, <2>2 DEF PlacedAt, Holds
    <3> QED BY <3>1, FittingTimesteps
  <2> QED BY <2>4, <2>5, <2>6 DEF p, row, s
<1> QED BY <1>1, PlanInvariant, PTL
-----------------------------------------------------------------------------
(* Recency. *)

(* The last request of a tile, and the tiles requested after it. *)
LastIn(q, c, k) ==
  k \in 1 .. Len(q) /\ q[k] = c /\ \A l \in k + 1 .. Len(q) : q[l] # c

Since(q, k) == {q[l] : l \in k + 1 .. Len(q)}

(* The counter in an active tile tells when it was last requested, though the
   counter outlives what was requested of earlier caches; of a tile that is not
   active, enough others were requested since. *)
ActiveRecency ==
  \A c \in ActiveWtiles : \E k \in 1 .. Len(requests) :
    LastIn(requests, c, k) /\ lastAccess[c] + Len(requests) + 1 = subgridCount + k

RetiredRecency ==
  \A c \in Coordinates \ ActiveWtiles, k \in 1 .. Len(requests) :
    LastIn(requests, c, k) => Cardinality(Since(requests, k)) > BufferSize - NrRetire

RecencyInv == ActiveRecency /\ RetiredRecency

(* The last request is the one that RequestedSince starts from. *)
LEMMA LastExists ==
  ASSUME NEW q \in Seq(Coordinates), NEW c \in Range(q)
  PROVE  LastIn(q, c, Max({k \in DOMAIN q : q[k] = c}))
<1> DEFINE S == {k \in DOMAIN q : q[k] = c}
<1>1. DOMAIN q = 1 .. Len(q) /\ Len(q) \in Nat
  OBVIOUS
<1>2. S \in SUBSET Int /\ S # {} /\ \A x \in S : x <= Len(q)
  BY <1>1 DEF Range
<1>3. Max(S) \in S /\ \A x \in S : x <= Max(S)
  <2>1. Len(q) \in Int
    BY <1>1
  <2> HIDE DEF S
  <2> QED BY <1>2, <2>1, MaxOfBounded
<1>4. \A l \in Max(S) + 1 .. Len(q) : l \notin S
  <2> DEFINE k == Max(S)
  <2>1. k \in S /\ (\A x \in S : x <= k) /\ k \in Nat
    BY <1>1, <1>3
  <2> HIDE DEF k, S
  <2>2. \A l \in k + 1 .. Len(q) : l \notin S
    BY <1>1, <2>1
  <2> QED BY <2>2 DEF k
<1> DEFINE k == Max(S)
<1>5. k \in 1 .. Len(q) /\ q[k] = c
  BY <1>1, <1>3
<1> HIDE DEF k
<1>6. \A l \in k + 1 .. Len(q) : q[l] # c
  BY <1>1, <1>4, <1>5 DEF k
<1>7. LastIn(q, c, k)
  BY <1>5, <1>6 DEF LastIn
<1> QED BY <1>7 DEF k

(* A finite number of tiles was requested. *)
LEMMA SinceFinite ==
  ASSUME NEW q \in Seq(Coordinates), NEW k \in Nat
  PROVE  IsFiniteSet(Since(q, k)) /\ Cardinality(Since(q, k)) \in Nat
<1> DEFINE I == k + 1 .. Len(q)
           f == [l \in I |-> q[l]]
<1>1. IsFiniteSet(I)
  BY FS_Interval
<1>2. f \in [I -> Since(q, k)] /\ \A x \in Since(q, k) : \E l \in I : f[l] = x
  BY DEF Since
<1> HIDE DEF I, f
<1>3. f \in Surjection(I, Since(q, k))
  BY <1>2 DEF Surjection
<1> QED BY <1>1, <1>3, FS_Surjection, FS_CardinalityType

(* One more request. *)
LEMMA LastAppended ==
  ASSUME NEW q \in Seq(Coordinates), NEW d \in Coordinates
  PROVE  LET r == Append(q, d)
         IN  /\ LastIn(r, d, Len(q) + 1)
             /\ \A c \in Coordinates, k \in 1 .. Len(q) :
                  c # d => (LastIn(r, c, k) <=> LastIn(q, c, k))
             /\ \A c \in Coordinates : LastIn(r, c, Len(q) + 1) => c = d
             /\ \A k \in 1 .. Len(q) : LastIn(r, d, k) => FALSE
             /\ \A k \in 1 .. Len(q) : Since(r, k) = Since(q, k) \cup {d}
<1> DEFINE r == Append(q, d)
<1>1. /\ Len(q) \in Nat /\ Len(r) = Len(q) + 1
      /\ \A i \in 1 .. Len(q) : r[i] = q[i]
      /\ r[Len(q) + 1] = d
  BY Appended
<1> HIDE DEF r
<1>2. LastIn(r, d, Len(q) + 1)
  BY <1>1 DEF LastIn
<1>3. \A c \in Coordinates, k \in 1 .. Len(q) : c # d => (LastIn(r, c, k) <=> LastIn(q, c, k))
  BY <1>1 DEF LastIn
<1>4. \A c \in Coordinates : LastIn(r, c, Len(q) + 1) => c = d
  BY <1>1 DEF LastIn
<1>5. \A k \in 1 .. Len(q) : LastIn(r, d, k) => FALSE
  BY <1>1 DEF LastIn
<1>6. \A k \in 1 .. Len(q) : Since(r, k) = Since(q, k) \cup {d}
  <2> SUFFICES ASSUME NEW k \in 1 .. Len(q) PROVE Since(r, k) = Since(q, k) \cup {d}
    OBVIOUS
  <2>1. k + 1 .. Len(r) = (k + 1 .. Len(q)) \cup {Len(q) + 1}
    BY <1>1
  <2> QED BY <1>1, <2>1 DEF Since
<1> QED BY <1>2, <1>3, <1>4, <1>5, <1>6 DEF r

(* When no slot is free, as many tiles are active as there are slots. *)
LEMMA FullBuffer ==
  ASSUME WTilesTypeOK, SlotsPartitioned, freeWtiles = {}
  PROVE  IsFiniteSet(ActiveWtiles) /\ Cardinality(ActiveWtiles) = BufferSize
<1> DEFINE f == [c \in ActiveWtiles |-> wtileId[c]]
<1>1. f \in [ActiveWtiles -> TileIds]
  BY DEF ActiveWtiles, WTilesTypeOK
<1>2. \A c, d \in ActiveWtiles : f[c] = f[d] => c = d
  BY DEF SlotsPartitioned
<1>3. \A id \in TileIds : \E c \in ActiveWtiles : f[c] = id
  BY DEF SlotsPartitioned
<1>4. f \in Injection(ActiveWtiles, TileIds) /\ f \in Surjection(ActiveWtiles, TileIds)
  <2> HIDE DEF f
  <2> QED BY <1>1, <1>2, <1>3 DEF Injection, Surjection, IsInjective
<1>5. IsFiniteSet(TileIds) /\ Cardinality(TileIds) = BufferSize
  <2>1. BufferSize \in Nat /\ BufferSize > 0 /\ BufferSize - 1 \in Int /\ 0 \in Int
    BY WTilesAssumption
  <2>2. BufferSize - 1 - 0 + 1 = BufferSize /\ ~(0 > BufferSize - 1)
    BY <2>1
  <2> QED BY <2>1, <2>2, FS_Interval DEF TileIds
<1> HIDE DEF f
<1> QED BY <1>4, <1>5, FS_Injection

(* The tiles that were used later than a retired one are too many for it to
   be among the recent ones. *)
LEMMA RetiredIsOld ==
  ASSUME WTilesTypeOK, SlotsPartitioned, freeWtiles = {},
         ActiveRecency, requests \in Seq(Coordinates),
         NEW c \in LeastRecentlyUsed, NEW d \in Coordinates, d \notin ActiveWtiles,
         NEW k \in 1 .. Len(requests), LastIn(requests, c, k)
  PROVE  Cardinality(Since(requests, k) \cup {d}) > BufferSize - NrRetire
<1> DEFINE older == {e \in ActiveWtiles : lastAccess[e] < lastAccess[c]}
           newer == ActiveWtiles \ (older \cup {c})
           later == Since(requests, k)
<1>1. /\ IsFiniteSet(ActiveWtiles) /\ Cardinality(ActiveWtiles) = BufferSize
      /\ c \in ActiveWtiles /\ Cardinality(older) < NrRetire
  BY FullBuffer DEF LeastRecentlyUsed
<1>2. newer \subseteq later
  <2> SUFFICES ASSUME NEW e \in newer PROVE e \in later
    OBVIOUS
  <2>1. /\ e \in ActiveWtiles /\ e # c /\ ~(lastAccess[e] < lastAccess[c])
        /\ lastAccess[e] \in Nat /\ lastAccess[c] \in Nat
    BY <1>1 DEF WTilesTypeOK, ActiveWtiles
  <2>2. PICK j \in 1 .. Len(requests) :
             /\ LastIn(requests, e, j)
             /\ lastAccess[e] + Len(requests) + 1 = subgridCount + j
    BY <2>1 DEF ActiveRecency
  <2>3. PICK l \in 1 .. Len(requests) :
             /\ LastIn(requests, c, l)
             /\ lastAccess[c] + Len(requests) + 1 = subgridCount + l
    BY <1>1 DEF ActiveRecency
  <2>4. Len(requests) \in Nat /\ subgridCount \in Nat
    BY DEF WTilesTypeOK
  <2>5. l = k
    BY <2>3, <2>4 DEF LastIn
  <2>6. k <= j /\ j # k
    <3>1. k # j
      BY <2>1, <2>2 DEF LastIn
    <3>2. l <= j
      BY <2>1, <2>2, <2>3, <2>4
    <3> QED BY <3>1, <3>2, <2>5
  <2>7. j \in k + 1 .. Len(requests) /\ requests[j] = e
    BY <2>2, <2>4, <2>6 DEF LastIn
  <2> QED BY <2>7 DEF Since
<1>3. IsFiniteSet(later) /\ Cardinality(later) \in Nat
  BY SinceFinite
<1>4. IsFiniteSet(older) /\ Cardinality(older) \in Nat /\ c \notin older
  <2>1. older \subseteq ActiveWtiles
    OBVIOUS
  <2>2. c \notin older
    BY DEF WTilesTypeOK, ActiveWtiles
  <2> HIDE DEF older
  <2> QED BY <1>1, <2>1, <2>2, FS_Subset, FS_CardinalityType
<1>5. /\ IsFiniteSet(older \cup {c})
      /\ Cardinality(older \cup {c}) = Cardinality(older) + 1
  <2> HIDE DEF older
  <2> QED BY <1>4, FS_AddElement
<1>6. IsFiniteSet(newer) /\ Cardinality(newer) = BufferSize - (Cardinality(older) + 1)
  <2> DEFINE old == older \cup {c}
             A == ActiveWtiles
  <2>1. A \cap old = old
    BY <1>1
  <2>2. IsFiniteSet(A) /\ Cardinality(A) = BufferSize /\ Cardinality(old) = Cardinality(older) + 1
    BY <1>1, <1>5
  <2>3. newer = A \ old
    OBVIOUS
  <2> HIDE DEF A, old, newer
  <2>4. IsFiniteSet(A \ old) /\ Cardinality(A \ old) = Cardinality(A) - Cardinality(A \cap old)
    BY <2>2, FS_Difference
  <2> QED BY <2>1, <2>2, <2>3, <2>4
<1>8. Cardinality(newer \cup {d}) = Cardinality(newer) + 1
  <2>1. d \notin newer
    OBVIOUS
  <2> HIDE DEF newer
  <2> QED BY <2>1, <1>6, FS_AddElement
<1>9. Cardinality(newer \cup {d}) <= Cardinality(later \cup {d})
  <2> HIDE DEF newer, later
  <2>1. newer \cup {d} \subseteq later \cup {d} /\ IsFiniteSet(later \cup {d})
    BY <1>2, <1>3, FS_AddElement
  <2> QED BY <2>1, FS_Subset
<1>10. Cardinality(later \cup {d}) \in Nat
  <2> HIDE DEF later
  <2> DEFINE T == later \cup {d}
  <2>1. IsFiniteSet(T)
    BY <1>3, FS_AddElement
  <2> HIDE DEF T
  <2>2. Cardinality(T) \in Nat
    BY <2>1, FS_CardinalityType
  <2> QED BY <2>2 DEF T
<1> HIDE DEF newer, later, older
<1>11. Cardinality(later \cup {d}) > BufferSize - NrRetire
  BY <1>1, <1>4, <1>6, <1>8, <1>9, <1>10, WTilesAssumption
<1> QED BY <1>11 DEF later

(* More requests do not make a tile recent again. *)
LEMMA MoreSince ==
  ASSUME requests \in Seq(Coordinates), NEW d, NEW k \in 1 .. Len(requests)
  PROVE  Cardinality(Since(requests, k) \cup {d}) \in Nat
         /\ Cardinality(Since(requests, k)) <= Cardinality(Since(requests, k) \cup {d})
<1> DEFINE S == Since(requests, k)
<1>1. IsFiniteSet(S) /\ Cardinality(S) \in Nat
  BY SinceFinite
<1> HIDE DEF S
<1>2. IsFiniteSet(S \cup {d}) /\ Cardinality(S \cup {d}) \in Nat
  BY <1>1, FS_AddElement, FS_CardinalityType
<1>3. Cardinality(S) <= Cardinality(S \cup {d})
  <2>1. S \in SUBSET (S \cup {d})
    OBVIOUS
  <2> QED BY <1>2, <2>1, FS_Subset
<1> QED BY <1>2, <1>3 DEF S

(* A request of a tile keeps both. *)
LEMMA AddSubgridRecency ==
  ASSUME WTilesTypeOK, SlotsPartitioned, requests \in Seq(Coordinates), RecencyInv,
         NEW i \in Nat, NEW d \in Coordinates, AddSubgrid(i, d),
         requests' = Append(requests, d)
  PROVE  RecencyInv'
<1> DEFINE n == Len(requests)
<1>1. /\ n \in Nat /\ Len(requests') = n + 1
      /\ LastIn(requests', d, n + 1)
      /\ \A c \in Coordinates, k \in 1 .. n :
                  c # d => (LastIn(requests', c, k) <=> LastIn(requests, c, k))
      /\ \A c \in Coordinates : LastIn(requests', c, n + 1) => c = d
      /\ \A k \in 1 .. n : Since(requests', k) = Since(requests, k) \cup {d}
  BY LastAppended
<1>2. subgridCount \in Nat /\ subgridCount' = subgridCount + 1
  BY DEF WTilesTypeOK, AddSubgrid
<1>3. ASSUME NEW retired \in SUBSET ActiveWtiles,
             ActiveWtiles' = (ActiveWtiles \ retired) \cup {d},
             lastAccess'[d] = subgridCount,
             \A c \in ActiveWtiles \ retired : c # d => lastAccess'[c] = lastAccess[c],
             \A c \in retired : c # d => \A k \in 1 .. n : LastIn(requests, c, k) =>
                 Cardinality(Since(requests, k) \cup {d}) > BufferSize - NrRetire
      PROVE  RecencyInv'
  <2> HIDE DEF n
  <2>1. ASSUME NEW c \in ActiveWtiles'
        PROVE  \E k \in 1 .. Len(requests') :
                  /\ LastIn(requests', c, k)
                  /\ lastAccess'[c] + Len(requests') + 1 = subgridCount' + k
    <3>1. CASE c = d
      <4>1. lastAccess'[d] + (n + 1) + 1 = subgridCount' + (n + 1)
        BY <1>1, <1>2, <1>3
      <4>2. n + 1 \in 1 .. Len(requests')
        BY <1>1
      <4> QED BY <1>1, <3>1, <4>1, <4>2
    <3>2. CASE c # d
      <4>1. c \in ActiveWtiles \ retired /\ c \in Coordinates /\ lastAccess'[c] = lastAccess[c]
            /\ lastAccess[c] \in Nat
        BY <1>3, <2>1, <3>2 DEF ActiveWtiles, WTilesTypeOK
      <4>2. PICK k \in 1 .. n : /\ LastIn(requests, c, k)
                                /\ lastAccess[c] + n + 1 = subgridCount + k
        BY <4>1 DEF RecencyInv, ActiveRecency, n
      <4>3. lastAccess'[c] + (n + 1) + 1 = subgridCount' + k /\ k \in 1 .. n + 1
        BY <1>1, <1>2, <4>1, <4>2
      <4>4. LastIn(requests', c, k)
        BY <1>1, <3>2, <4>1, <4>2
      <4> QED BY <1>1, <4>3, <4>4
    <3> QED BY <3>1, <3>2
  <2>2. ASSUME NEW c \in Coordinates, c \notin ActiveWtiles', NEW k \in 1 .. Len(requests'),
               LastIn(requests', c, k)
        PROVE  Cardinality(Since(requests', k)) > BufferSize - NrRetire
    <3>1. c # d
      BY <2>2, <1>3
    <3>2. k \in 1 .. n /\ LastIn(requests, c, k)
      <4>1. k # n + 1
        BY <1>1, <2>2, <3>1
      <4> QED BY <1>1, <2>2, <3>1, <4>1
    <3>3. Since(requests', k) = Since(requests, k) \cup {d}
      BY <1>1, <3>2
    <3>4. CASE c \in retired
      BY <1>3, <3>1, <3>2, <3>3, <3>4
    <3>5. CASE c \notin ActiveWtiles
      <4>1. Cardinality(Since(requests, k)) > BufferSize - NrRetire
        BY <3>2, <3>5 DEF RecencyInv, RetiredRecency, n
      <4>2. /\ Cardinality(Since(requests, k) \cup {d}) \in Nat
            /\ Cardinality(Since(requests, k)) <= Cardinality(Since(requests, k) \cup {d})
        BY <3>2, MoreSince DEF n
      <4>3. Cardinality(Since(requests, k)) \in Nat
        BY <3>2, SinceFinite
      <4> QED BY <3>3, <4>1, <4>2, <4>3, WTilesAssumption
    <3> QED BY <1>3, <2>2, <3>4, <3>5
  <2>3. ActiveRecency'
    BY <2>1 DEF ActiveRecency
  <2>4. RetiredRecency'
    BY <2>2 DEF RetiredRecency
  <2> QED BY <2>3, <2>4 DEF RecencyInv
<1>4. CASE AccessActiveWtile(d)
  <2>1. /\ d \in ActiveWtiles /\ wtileId' = wtileId
        /\ lastAccess' = [lastAccess EXCEPT ![d] = subgridCount]
    BY <1>4 DEF AccessActiveWtile, ActiveWtiles
  <2>2. ActiveWtiles' = (ActiveWtiles \ {}) \cup {d}
    BY <2>1 DEF ActiveWtiles
  <2>3. /\ lastAccess'[d] = subgridCount
        /\ \A c \in ActiveWtiles \ {} : c # d => lastAccess'[c] = lastAccess[c]
    BY <2>1 DEF ActiveWtiles, WTilesTypeOK
  <2>4. {} \in SUBSET ActiveWtiles
    OBVIOUS
  <2> QED BY <1>3, <2>2, <2>3, <2>4
<1>5. CASE UseFreeWtile(i, d)
  <2>1. PICK id \in freeWtiles : wtileId' = [wtileId EXCEPT ![d] = id]
    BY <1>5 DEF UseFreeWtile
  <2>2. lastAccess' = [lastAccess EXCEPT ![d] = subgridCount]
    BY <1>5 DEF UseFreeWtile
  <2>3. id # NoTile
    BY DEF WTilesTypeOK, TileIds, NoTile
  <2>4. ActiveWtiles' = (ActiveWtiles \ {}) \cup {d}
    BY <2>1, <2>3 DEF WTilesTypeOK, ActiveWtiles
  <2>5. /\ lastAccess'[d] = subgridCount
        /\ \A c \in ActiveWtiles \ {} : c # d => lastAccess'[c] = lastAccess[c]
    BY <2>2 DEF ActiveWtiles, WTilesTypeOK
  <2>6. {} \in SUBSET ActiveWtiles
    OBVIOUS
  <2> QED BY <1>3, <2>4, <2>5, <2>6
<1>6. CASE RetireWtiles(i, d)
  <2> DEFINE retired == LeastRecentlyUsed
             ids == {wtileId[r] : r \in retired}
  <2>1. PICK id \in ids :
          /\ wtileId' = [x \in Coordinates |->
                           IF x = d THEN id
                           ELSE IF x \in retired THEN NoTile ELSE wtileId[x]]
          /\ lastAccess' = [x \in Coordinates |->
                               IF x = d THEN subgridCount
                               ELSE IF x \in retired THEN 0 ELSE lastAccess[x]]
    BY <1>6 DEF RetireWtiles
  <2>2. retired \in SUBSET ActiveWtiles
    BY DEF LeastRecentlyUsed
  <2>3. d \notin ActiveWtiles /\ freeWtiles = {}
    BY <1>6 DEF RetireWtiles, ActiveWtiles
  <2>4. \A c \in retired : c # d => \A k \in 1 .. n : LastIn(requests, c, k) =>
                 Cardinality(Since(requests, k) \cup {d}) > BufferSize - NrRetire
    BY <2>3, RetiredIsOld DEF RecencyInv
  <2> HIDE DEF retired, n
  <2>5. id \in TileIds /\ id # NoTile
    BY <2>2 DEF WTilesTypeOK, ActiveWtiles, TileIds, NoTile
  <2>6. ActiveWtiles' = (ActiveWtiles \ retired) \cup {d}
    BY <2>1, <2>2, <2>5 DEF ActiveWtiles
  <2>7. /\ lastAccess'[d] = subgridCount
        /\ \A c \in ActiveWtiles \ retired : c # d => lastAccess'[c] = lastAccess[c]
    BY <2>1 DEF ActiveWtiles
  <2> QED BY <1>3, <2>2, <2>4, <2>6, <2>7
<1> QED BY <1>4, <1>5, <1>6 DEF AddSubgrid

(* A tile is retired only when more than the tiles that survive a retirement
   were requested since its own last request: the batches and the counter that
   comes and goes with the tiles make a cache that is as good as LRU. *)
THEOREM RecentTilesAlwaysStay == Spec => []RecentTilesStay
<1>1. Init => RecencyInv
  <2> SUFFICES ASSUME Init PROVE RecencyInv
    OBVIOUS
  <2>1. ActiveWtiles = {} /\ requests = <<>>
    BY DEF Init, EmptyCache, ActiveWtiles
  <2> QED BY <2>1 DEF RecencyInv, ActiveRecency, RetiredRecency
<1>2. PlanInv /\ RecencyInv /\ [Next]_vars => RecencyInv'
  <2> SUFFICES ASSUME PlanInv, RecencyInv, [Next]_vars PROVE RecencyInv'
    OBVIOUS
  <2>1. ASSUME UNCHANGED <<wtileId, lastAccess, subgridCount, requests>>
        PROVE  RecencyInv'
    BY <2>1 DEF RecencyInv, ActiveRecency, RetiredRecency, ActiveWtiles
  <2>2. CASE AppendSubgrid
    <3> DEFINE tile == rows[CombineBaseline * Columns + CombineIndex].subgrid.at.tile
    <3>1. /\ tile \in Coordinates /\ AddSubgrid(Len(metadata), tile)
          /\ requests' = Append(requests, tile)
      BY <2>2, NextEntry
    <3> HIDE DEF tile
    <3>2. /\ WTilesTypeOK /\ SlotsPartitioned /\ requests \in Seq(Coordinates)
          /\ Len(metadata) \in Nat
      BY DEF PlanInv, TypesInv, CacheInv, SubgridsInv
    <3> QED BY <3>1, <3>2, AddSubgridRecency
  <2>3. CASE Clear
    <3>1. wtileId' = [c \in Coordinates |-> NoTile] /\ requests' = <<>>
      BY <2>3 DEF Clear, ClearWtiles
    <3>2. ActiveWtiles' = {}
      BY <3>1 DEF ActiveWtiles
    <3> QED BY <3>1, <3>2 DEF RecencyInv, ActiveRecency, RetiredRecency
  <2>4. CASE BeginPlan \/ Split \/ AppendOffset \/ FinishPlan \/ UNCHANGED vars
    <3>1. UNCHANGED <<wtileId, lastAccess, subgridCount, requests>>
      BY <2>4 DEF BeginPlan, Split, Thread, SkipTimestep, ThrowNotPlaced, StoreSubgrid,
                  DropSubgrid, ThrowOutOfRange, Throw, EndSplit, AppendOffset, FinishPlan,
                  TakeUpdateSets, vars, wtilesVars
    <3> QED BY <3>1, <2>1
  <2> QED BY <2>2, <2>3, <2>4 DEF Next, Combine
<1>3. PlanInv /\ RecencyInv => RecentTilesStay
  <2> SUFFICES ASSUME PlanInv, RecencyInv, NEW c \in Range(requests),
                      Cardinality(RequestedSince(c)) <= BufferSize - NrRetire
               PROVE  wtileId[c] # NoTile
    BY DEF RecentTilesStay
  <2> DEFINE k == Max({l \in DOMAIN requests : requests[l] = c})
  <2>1. requests \in Seq(Coordinates)
    BY DEF PlanInv, TypesInv
  <2>2. LastIn(requests, c, k)
    BY <2>1, LastExists
  <2>3. RequestedSince(c) = Since(requests, k)
    BY DEF RequestedSince, Since
  <2> HIDE DEF k
  <2>4. k \in 1 .. Len(requests)
    BY <2>2 DEF LastIn
  <2>5. c \in Coordinates
    BY <2>1 DEF Range
  <2>6. Cardinality(Since(requests, k)) \in Nat
    BY <2>1, <2>4, SinceFinite
  <2>7. c \in ActiveWtiles
    BY <2>2, <2>3, <2>4, <2>5, <2>6, WTilesAssumption DEF RecencyInv, RetiredRecency
  <2> QED BY <2>7 DEF ActiveWtiles
<1> QED BY <1>1, <1>2, <1>3, PlanInvariant, PTL DEF Spec

-----------------------------------------------------------------------------
(* The groups of channels. *)

(* The groups of the channels up to n, as GroupOf defines them. *)
Groups(row, f, n) ==
  f = [c \in 0 .. n |->
         IF c > 0 /\ GroupEnd(row, f[c - 1]) > c THEN f[c - 1] ELSE c]

(* There is one such function. *)
LEMMA GroupsExist ==
  ASSUME NEW row, NEW n \in Nat
  PROVE  \E f : Groups(row, f, n)
<1> DEFINE T == {k \in Nat : ~\E f : Groups(row, f, k)}
<1> SUFFICES ASSUME T # {} PROVE FALSE
  OBVIOUS
<1>1. PICK k \in T : \A l \in T : k <= l
  <2>1. T \in SUBSET Nat
    OBVIOUS
  <2> HIDE DEF T
  <2> QED BY <2>1, Least
<1>2. CASE k = 0
  <2> DEFINE f == [c \in 0 .. 0 |-> 0]
  <2>1. 0 .. 0 = {0}
    OBVIOUS
  <2>2. \A c \in 0 .. 0 : f[c] = IF c > 0 /\ GroupEnd(row, f[c - 1]) > c THEN f[c - 1] ELSE c
    BY <2>1
  <2>3. f = [c \in 0 .. 0 |->
               IF c > 0 /\ GroupEnd(row, f[c - 1]) > c THEN f[c - 1] ELSE c]
    BY <2>2
  <2>4. Groups(row, f, 0)
    BY <2>3 DEF Groups
  <2> QED BY <1>2, <2>4
<1>3. CASE k > 0
  <2>1. k - 1 \in Nat /\ k - 1 \notin T
    BY <1>1, <1>3
  <2>2. PICK g : Groups(row, g, k - 1)
    BY <2>1
  <2> DEFINE last == IF GroupEnd(row, g[k - 1]) > k THEN g[k - 1] ELSE k
             f == [c \in 0 .. k |-> IF c = k THEN last ELSE g[c]]
  <2>3. \A c \in 0 .. k - 1 :
          g[c] = IF c > 0 /\ GroupEnd(row, g[c - 1]) > c THEN g[c - 1] ELSE c
    BY <2>2 DEF Groups
  <2>4. (\A c \in 0 .. k - 1 : f[c] = g[c]) /\ f[k] = last /\ k - 1 \in 0 .. k - 1
    BY <2>1, <1>3
  <2>5. ASSUME NEW c \in 0 .. k
        PROVE  f[c] = IF c > 0 /\ GroupEnd(row, f[c - 1]) > c THEN f[c - 1] ELSE c
    <3>1. CASE c = k
      BY <3>1, <2>1, <2>4, <1>3
    <3>2. CASE c # k
      <4>1. c \in 0 .. k - 1 /\ (c > 0 => c - 1 \in 0 .. k - 1)
        BY <2>1, <3>2
      <4> HIDE DEF f
      <4> QED BY <4>1, <2>3, <2>4
    <3> QED BY <3>1, <3>2
  <2>6. f = [c \in 0 .. k |->
               IF c > 0 /\ GroupEnd(row, f[c - 1]) > c THEN f[c - 1] ELSE c]
    BY <2>5
  <2> HIDE DEF f
  <2>7. Groups(row, f, k)
    BY <2>6 DEF Groups
  <2> QED BY <2>7, <1>1
<1> QED BY <1>1, <1>2, <1>3

LEMMA GroupsUnique ==
  ASSUME NEW row, NEW n \in Nat, NEW m \in Nat, NEW f, NEW g,
         Groups(row, f, n), Groups(row, g, m)
  PROVE  \A c \in Nat : c <= n /\ c <= m => f[c] = g[c]
<1> DEFINE T == {c \in Nat : c <= n /\ c <= m /\ f[c] # g[c]}
<1> SUFFICES ASSUME T # {} PROVE FALSE
  OBVIOUS
<1>1. PICK c \in T : \A d \in T : c <= d
  <2>1. T \in SUBSET Nat
    OBVIOUS
  <2> HIDE DEF T
  <2> QED BY <2>1, Least
<1>2. /\ f[c] = IF c > 0 /\ GroupEnd(row, f[c - 1]) > c THEN f[c - 1] ELSE c
      /\ g[c] = IF c > 0 /\ GroupEnd(row, g[c - 1]) > c THEN g[c - 1] ELSE c
  <2>1. c \in 0 .. n /\ c \in 0 .. m
    BY <1>1
  <2> QED BY <2>1 DEF Groups
<1>3. c > 0 => f[c - 1] = g[c - 1]
  <2> SUFFICES ASSUME c > 0 PROVE f[c - 1] = g[c - 1]
    OBVIOUS
  <2>1. c - 1 \in Nat /\ c - 1 <= n /\ c - 1 <= m /\ c - 1 \notin T
    BY <1>1
  <2> QED BY <2>1
<1>4. f[c] # g[c]
  BY <1>1
<1> QED BY <1>2, <1>3, <1>4

(* The group of a channel is that of the one before it, unless that one ends. *)
LEMMA GroupOfChannel ==
  ASSUME NEW row, NEW c \in Nat
  PROVE  GroupOf(row, c) = IF c > 0 /\ GroupEnd(row, GroupOf(row, c - 1)) > c
                           THEN GroupOf(row, c - 1) ELSE c
<1>1. ASSUME NEW n \in Nat
      PROVE  \E f : Groups(row, f, n) /\ GroupOf(row, n) = f[n]
  <2> DEFINE f == CHOOSE f : Groups(row, f, n)
  <2>1. Groups(row, f, n)
    BY GroupsExist
  <2>2. GroupOf(row, n) = f[n]
    BY DEF GroupOf, Groups
  <2> QED BY <2>1, <2>2
<1>2. PICK f : Groups(row, f, c) /\ GroupOf(row, c) = f[c]
  BY <1>1
<1>3. f[c] = IF c > 0 /\ GroupEnd(row, f[c - 1]) > c THEN f[c - 1] ELSE c
  BY <1>2 DEF Groups
<1>4. c > 0 => f[c - 1] = GroupOf(row, c - 1)
  <2> SUFFICES ASSUME c > 0 PROVE f[c - 1] = GroupOf(row, c - 1)
    OBVIOUS
  <2>1. c - 1 \in Nat /\ c - 1 <= c
    OBVIOUS
  <2>2. PICK g : Groups(row, g, c - 1) /\ GroupOf(row, c - 1) = g[c - 1]
    BY <1>1, <2>1
  <2>3. f[c - 1] = g[c - 1]
    BY <1>2, <2>1, <2>2, GroupsUnique
  <2> QED BY <2>2, <2>3
<1> QED BY <1>2, <1>3, <1>4

(* A channel that begins a group is the group of all channels up to its end,
   and at its end another group begins. *)
LEMMA GroupOfMembers ==
  ASSUME NEW row, NEW begin \in 0 .. NrChannels - 1, GroupOf(row, begin) = begin
  PROVE  /\ \A c \in begin .. GroupEnd(row, begin) - 1 : GroupOf(row, c) = begin
         /\ GroupOf(row, GroupEnd(row, begin)) = GroupEnd(row, begin)
<1> DEFINE end == GroupEnd(row, begin)
           T == {c \in Nat : c \in begin .. end - 1 /\ GroupOf(row, c) # begin}
<1>1. end \in Nat /\ begin \in Nat /\ begin < end
  BY GroupEnds, Channels
<1>2. T = {}
  <2> SUFFICES ASSUME T # {} PROVE FALSE
    OBVIOUS
  <2>1. PICK c \in T : \A d \in T : c <= d
    <3>1. T \in SUBSET Nat
      OBVIOUS
    <3> HIDE DEF T
    <3> QED BY <3>1, Least
  <2>2. c \in Nat /\ begin <= c /\ c < end /\ GroupOf(row, c) # begin
    BY <1>1, <2>1
  <2>3. c # begin
    BY <2>2
  <2>4. c - 1 \in Nat /\ c - 1 \in begin .. end - 1 /\ c - 1 \notin T /\ c > 0
    BY <1>1, <2>1, <2>2, <2>3
  <2>5. GroupOf(row, c - 1) = begin
    BY <2>4
  <2> HIDE DEF end, T
  <2>6. GroupOf(row, c) = begin
    BY <2>2, <2>4, <2>5, GroupOfChannel DEF end
  <2> QED BY <2>2, <2>6
<1>3. \A c \in begin .. end - 1 : GroupOf(row, c) = begin
  BY <1>1, <1>2
<1>4. GroupOf(row, end) = end
  <2>1. end - 1 \in begin .. end - 1 /\ end > 0
    BY <1>1
  <2>2. GroupOf(row, end - 1) = begin
    BY <1>3, <2>1
  <2>3. ~(GroupEnd(row, begin) > end)
    BY <1>1
  <2> HIDE DEF end
  <2> QED BY <1>1, <2>1, <2>2, <2>3, GroupOfChannel
<1> QED BY <1>3, <1>4

-----------------------------------------------------------------------------
(* Visibilities that are well inside the grid. *)

(* A measured timestep whose two channels fit a subgrid is not skipped. *)
LEMMA NotSkipped ==
  ASSUME NEW row \in Rows, NEW begin \in 0 .. NrChannels - 1, NEW t \in Timesteps,
         Measured(row, t), Fits(Added(row, begin, t, 1))
  PROVE  NrTimestepsSubgrid(row, begin, t) # 0
<1> DEFINE left == NrTimesteps - t
           bounds == {left} \cup (IF Limit = 0 THEN {} ELSE {Limit})
           bound == Min(bounds)
           S == {n \in 0 .. bound : \A k \in 0 .. n - 1 : TimestepFits(row, begin, t, k)}
<1>1. left \in Nat \ {0} /\ NrTimesteps \in Nat /\ t \in Nat /\ t < NrTimesteps
  BY PlanningAssumption DEF Timesteps
<1>2. Limit \in Nat
  <2>1. MaxTimesteps \in Int /\ NrTimesteps \in Int
    BY PlanningAssumption
  <2>2. Limit \in {MaxTimesteps, NrTimesteps}
    BY <2>1, Pairs DEF Limit
  <2> QED BY <2>2, PlanningAssumption
<1>3. bound \in Nat \ {0}
  <2>1. PICK m \in Nat \ {0} : bounds = {left, m}
    BY <1>1, <1>2
  <2> HIDE DEF bounds, left
  <2>2. left \in Int /\ m \in Int
    BY <1>1
  <2>3. bound \in {left, m}
    BY <2>1, <2>2, Pairs
  <2> QED BY <2>1, <2>3, <1>1
<1>4. TimestepFits(row, begin, t, 0)
  <2>1. t + 0 = t /\ 0 + 1 = 1 /\ t .. t + 0 - 1 = {} /\ t .. t + 1 - 1 = {t}
    BY <1>1
  <2>2. Added(row, begin, t, 0) \cup {Pixel(row, t, begin)} \subseteq Added(row, begin, t, 1)
    BY <2>1 DEF Added
  <2>3. Fits(Added(row, begin, t, 0) \cup {Pixel(row, t, begin)})
    BY <2>2 DEF Fits
  <2>4. FirstChannelFits(row, begin, t, 0)
    BY <1>1, <2>1, <2>3 DEF FirstChannelFits
  <2> QED BY <2>1, <2>4 DEF TimestepFits
<1>5. NrTimestepsSubgrid(row, begin, t) = Max(S)
  BY DEF NrTimestepsSubgrid
<1> HIDE DEF bound, bounds, left
<1>6. /\ 1 \in S /\ S \in SUBSET Int /\ S # {} /\ bound \in Int
      /\ \A x \in S : x <= bound
  <2>1. 1 \in 0 .. bound /\ \A k \in 0 .. 1 - 1 : k = 0
    BY <1>3
  <2>2. 1 \in S
    BY <2>1, <1>4
  <2> QED BY <2>2, <1>3
<1>7. 1 <= Max(S) /\ Max(S) \in Int
  <2> HIDE DEF S
  <2> QED BY <1>6, MaxOfBounded
<1> QED BY <1>5, <1>7

(* A subgrid whose limits are near a point well inside the grid is in it. *)
LEMMA MiddleInside ==
  ASSUME NEW lo \in Int, NEW hi \in Int, NEW middle \in Int, NEW x \in Int,
         lo <= x, x <= hi,
         hi - lo < SubgridSize - KernelSize,
         lo + hi - 1 <= 2 * middle, 2 * middle <= lo + hi + 1,
         2 * Abs(x) + (SubgridSize - KernelSize) <= GridSize - SubgridSize - 2
  PROVE  middle + (GridSize \div 2) - (SubgridSize \div 2) \in 1 .. GridSize - SubgridSize
<1> DEFINE g == GridSize \div 2
           h == SubgridSize \div 2
           d == SubgridSize - KernelSize
<1>1. /\ g \in Int /\ h \in Int /\ d \in Int /\ GridSize \in Int /\ SubgridSize \in Int
      /\ 2 * g <= GridSize /\ GridSize <= 2 * g + 1
      /\ 2 * h <= SubgridSize /\ SubgridSize <= 2 * h + 1
  BY PlanningAssumption
<1>2. 2 * x + d <= GridSize - SubgridSize - 2 /\ d - 2 * x <= GridSize - SubgridSize - 2
  BY <1>1 DEF Abs
<1> HIDE DEF g, h, d
<1>3. hi - lo < d
  BY DEF d
<1>4. 2 * middle <= 2 * x + d /\ 2 * x - d <= 2 * middle
  BY <1>1, <1>3
<1>5. 1 <= middle + g - h /\ middle + g - h <= GridSize - SubgridSize
  BY <1>1, <1>2, <1>4
<1> QED BY <1>1, <1>5 DEF g, h

(* A subgrid with a timestep well inside the grid is not dropped. *)
LEMMA NotDropped ==
  ASSUME NEW row, NEW begin, NEW first, NEW n, NEW s, NEW u, NEW v,
         PlacedAt(row, begin, first, n, s, u, v),
         NEW t, NEW channel, Holds(s, t, channel),
         GroupOf(row, channel) = begin, WellInside(row, t, channel)
  PROVE  InRange(s)
<1> DEFINE p == Pixel(row, t, begin)
<1>1. t \in first .. first + n - 1 /\ first \in Timesteps /\ first \in Nat /\ t \in Int
  BY Channels DEF Holds, PlacedAt, Timesteps
<1>2. p \in Extent(row, begin, first, n) /\ p \in PointSet
  BY <1>1, ExtentFits DEF PlacedAt, Added
<1>3. /\ WIndex(row, t, begin) \in -NrWLayers .. NrWLayers - 1
      /\ \A x \in UNION {{q.u, q.v} : q \in Added(row, begin, t, 1)} :
           2 * Abs(x) + (SubgridSize - KernelSize) <= GridSize - SubgridSize - 2
  BY DEF WellInside
<1>4. p \in Added(row, begin, t, 1)
  <2>1. t \in t .. t + 1 - 1
    BY <1>1
  <2> QED BY <2>1 DEF Added
<1>5. /\ 2 * Abs(p.u) + (SubgridSize - KernelSize) <= GridSize - SubgridSize - 2
      /\ 2 * Abs(p.v) + (SubgridSize - KernelSize) <= GridSize - SubgridSize - 2
  BY <1>3, <1>4
<1>6. u \in Int /\ v \in Int /\ p.u \in Int /\ p.v \in Int
  BY <1>2, PlaceMiddle DEF PointSet
<1> HIDE DEF p
<1>7. s.at.x \in 1 .. GridSize - SubgridSize
  <2>1. PICK lo \in Int, hi \in Int :
              /\ hi - lo < SubgridSize - KernelSize
              /\ lo + hi - 1 <= 2 * u /\ 2 * u <= lo + hi + 1
              /\ \A q \in Extent(row, begin, first, n) : lo <= q.u /\ q.u <= hi
    BY PlaceMiddle
  <2>2. lo <= p.u /\ p.u <= hi
    BY <1>2, <2>1
  <2>3. u + (GridSize \div 2) - (SubgridSize \div 2) \in 1 .. GridSize - SubgridSize
    BY <1>5, <1>6, <2>1, <2>2, MiddleInside
  <2> QED BY <2>3 DEF PlacedAt
<1>8. s.at.y \in 1 .. GridSize - SubgridSize
  <2>1. PICK lo \in Int, hi \in Int :
              /\ hi - lo < SubgridSize - KernelSize
              /\ lo + hi - 1 <= 2 * v /\ 2 * v <= lo + hi + 1
              /\ \A q \in Extent(row, begin, first, n) : lo <= q.v /\ q.v <= hi
    BY PlaceMiddle
  <2>2. lo <= p.v /\ p.v <= hi
    BY <1>2, <2>1
  <2>3. v + (GridSize \div 2) - (SubgridSize \div 2) \in 1 .. GridSize - SubgridSize
    BY <1>5, <1>6, <2>1, <2>2, MiddleInside
  <2> QED BY <2>3 DEF PlacedAt
<1>9. s.at.w \in -NrWLayers .. NrWLayers - 1
  <2>1. /\ first \in Timesteps /\ n \in Nat /\ n > 0 /\ n = NrTimestepsSubgrid(row, begin, first)
        /\ s.at.w = WIndex(row, first, begin)
    BY DEF PlacedAt
  <2>2. WIndex(row, t, begin) = WIndex(row, first, begin)
    BY <1>1, <2>1, FittingTimesteps
  <2> QED BY <1>3, <2>1, <2>2
<1>10. Min({s.at.x, s.at.y}) >= 1 /\ Max({s.at.x, s.at.y}) <= GridSize - SubgridSize
  <2> DEFINE x == s.at.x
             y == s.at.y
  <2>1. /\ x \in Int /\ 1 <= x /\ x <= GridSize - SubgridSize
        /\ y \in Int /\ 1 <= y /\ y <= GridSize - SubgridSize
    BY <1>7, <1>8
  <2> HIDE DEF x, y
  <2>2. Min({x, y}) \in {x, y} /\ Max({x, y}) \in {x, y}
    BY <2>1, Pairs
  <2>3. Min({x, y}) >= 1 /\ Max({x, y}) <= GridSize - SubgridSize
    BY <2>1, <2>2
  <2> QED BY <2>3 DEF x, y
<1> QED BY <1>9, <1>10 DEF InRange

-----------------------------------------------------------------------------
(* What the threads have stored. *)

(* A baseline has a column for every timestep of every channel, as it has when
   the number of timesteps of a subgrid is not limited. *)
ColumnForEveryTimestep == NrChannels * NrTimesteps <= Columns

(* A subgrid that a thread stored. *)
Stored(b, k) == rows[b * Columns + k].subgrid

(* A subgrid comes before this place in a baseline's data. *)
Precedes(s, begin, time) ==
  \/ s.begin = begin /\ s.time + s.nrTimesteps <= time
  \/ s.end <= begin

(* The thread has come past this visibility. *)
Processed(b, t, channel) ==
  \/ channel < channelBegin[b]
  \/ /\ channelBegin[b] < NrChannels
     /\ channel < GroupEnd(uvw[b], channelBegin[b])
     /\ t < timeOffset[b]

(* The plan must have it. *)
Owed(b, t, channel) ==
  /\ HasData(b) /\ Measured(uvw[b], t)
  /\ strict \/ WellInside(uvw[b], t, channel)

(* No more than a subgrid per timestep of each channel is stored. *)
CountOf(b) ==
  /\ nrSubgrids[b] <= NrChannels * NrTimesteps
  /\ HasData(b) => nrSubgrids[b] <= channelBegin[b] * NrTimesteps + timeOffset[b]
                                      - FirstTimestep(uvw[b])

(* What a baseline has in its row is its own. *)
RowOf(b) == \A k \in 0 .. nrSubgrids[b] - 1 : rows[b * Columns + k].baseline = b

(* Its subgrids lie one after the other, and before the thread's place. *)
OrderOf(b) ==
  \A k \in 0 .. nrSubgrids[b] - 1 :
    /\ Precedes(Stored(b, k), channelBegin[b], timeOffset[b])
    /\ \A l \in 0 .. k - 1 : Precedes(Stored(b, l), Stored(b, k).begin, Stored(b, k).time)

(* The thread is at the begin of a group. *)
GroupStart(b) ==
  HasData(b) /\ channelBegin[b] < NrChannels =>
    GroupOf(uvw[b], channelBegin[b]) = channelBegin[b]

(* What the thread has passed and the plan must have, is stored. *)
CompleteOf(b) ==
  phase # "failed" =>
    \A t \in Timesteps, channel \in 0 .. NrChannels - 1 :
      Owed(b, t, channel) /\ Processed(b, t, channel) =>
        \E k \in 0 .. nrSubgrids[b] - 1 : Holds(Stored(b, k), t, channel)

DoneOf(b) == phase \in {"combine", "planned"} => Done(b)

ThreadOf(b) ==
  CountOf(b) /\ RowOf(b) /\ OrderOf(b) /\ GroupStart(b) /\ CompleteOf(b) /\ DoneOf(b)

ThreadInv == \A b \in Baselines : ThreadOf(b)

(* A thread goes to a later timestep, or to the first of the next group. *)
Moved(b, n) ==
  /\ \A c \in Baselines : c # b =>
       channelBegin'[c] = channelBegin[c] /\ timeOffset'[c] = timeOffset[c]
  /\ \/ /\ timeOffset[b] + n < NrTimesteps
        /\ timeOffset'[b] = timeOffset[b] + n
        /\ channelBegin'[b] = channelBegin[b]
     \/ /\ timeOffset[b] + n >= NrTimesteps
        /\ timeOffset'[b] = FirstTimestep(uvw[b])
        /\ channelBegin'[b] = GroupEnd(uvw[b], channelBegin[b])

(* The place of a thread and its subgrid. *)
LEMMA ThreadPlace ==
  ASSUME PlanInv, NEW b \in Baselines, NEW s \in NextSubgrid(b)
  PROVE  /\ uvw[b] \in RowsWithData /\ uvw[b] \in Rows /\ HasData(b)
         /\ NrTimesteps \in Nat \ {0} /\ NrChannels \in Nat \ {0}
         /\ channelBegin[b] \in Nat /\ channelBegin[b] < NrChannels
         /\ channelBegin[b] \in 0 .. NrChannels - 1
         /\ FirstTimestep(uvw[b]) \in Nat /\ timeOffset[b] \in Nat
         /\ FirstTimestep(uvw[b]) <= timeOffset[b] /\ timeOffset[b] < NrTimesteps
         /\ timeOffset[b] \in Timesteps
         /\ GroupEnd(uvw[b], channelBegin[b]) \in Nat
         /\ channelBegin[b] < GroupEnd(uvw[b], channelBegin[b])
         /\ GroupEnd(uvw[b], channelBegin[b]) <= NrChannels
         /\ nrSubgrids[b] \in Nat
         /\ s.nrTimesteps \in Nat
         /\ s.nrTimesteps = NrTimestepsSubgrid(uvw[b], channelBegin[b], timeOffset[b])
         /\ s.nrTimesteps > 0 => \E n, u, v :
              PlacedAt(uvw[b], channelBegin[b], timeOffset[b], n, s, u, v)
<1> DEFINE row == uvw[b]
           begin == channelBegin[b]
           first == timeOffset[b]
<1>1. /\ row \in RowsWithData /\ row \in Rows
      /\ begin \in 0 .. NrChannels - 1
      /\ first \in FirstTimestep(row) .. NrTimesteps - 1 /\ first \in Timesteps
      /\ s = Subgrid[row][begin][first]
  BY ThreadSubgrid DEF PlanInv
<1>2. NrTimesteps \in Nat \ {0} /\ NrChannels \in Nat \ {0}
  BY Channels
<1>3. FirstTimestep(row) \in 0 .. NrTimesteps
  BY <1>1, FirstTimestepOf
<1>4. GroupEnd(row, begin) \in begin + 1 .. NrChannels
  BY <1>1, GroupEnds
<1>5. nrSubgrids[b] \in Nat /\ HasData(b)
  BY <1>1 DEF PlanInv, TypesInv, HasData
<1> HIDE DEF row, begin, first
<1>6. s.nrTimesteps = NrTimestepsSubgrid(row, begin, first)
  BY <1>1 DEF Subgrid
<1>7. s.nrTimesteps \in Nat
  BY <1>1, <1>2, <1>6, Lengths DEF Timesteps
<1>8. s.nrTimesteps > 0 => \E n, u, v : PlacedAt(row, begin, first, n, s, u, v)
  BY <1>1, SubgridIsPlaced
<1> QED BY <1>1, <1>2, <1>3, <1>4, <1>5, <1>6, <1>7, <1>8 DEF row, begin, first

(* Where Advance takes a thread. *)
LEMMA AdvanceMoves ==
  ASSUME PlanInv, NEW b \in Baselines, NEW s \in NextSubgrid(b),
         NEW n \in Nat, Advance(b, n)
  PROVE  Moved(b, IF n = 0 THEN 1 ELSE n)
<1> DEFINE m == IF n = 0 THEN 1 ELSE n
<1>1. Max({n, 1}) = m
  BY Pairs, 1 \in Int, n \in Int
<1>2. /\ timeOffset[b] \in Nat /\ NrTimesteps \in Nat /\ m \in Nat
      /\ timeOffset \in [Baselines -> Nat] /\ channelBegin \in [Baselines -> 0 .. NrChannels]
  BY ThreadPlace DEF PlanInv, TypesInv
<1> DEFINE next == timeOffset[b] + Max({n, 1})
<1>3. \/ /\ next < NrTimesteps
         /\ timeOffset' = [timeOffset EXCEPT ![b] = next]
         /\ channelBegin' = channelBegin
      \/ /\ ~(next < NrTimesteps)
         /\ timeOffset' = [timeOffset EXCEPT ![b] = FirstTimestep(uvw[b])]
         /\ channelBegin' = [channelBegin EXCEPT ![b] = GroupEnd(uvw[b], channelBegin[b])]
  BY DEF Advance, PlanInv, TypesInv
<1>4. next = timeOffset[b] + m
  BY <1>1
<1> HIDE DEF m, next
<1>5. Moved(b, m)
  BY <1>2, <1>3, <1>4 DEF Moved
<1> QED BY <1>5 DEF m

(* A thread whose data, place and row stay, keeps what it has. *)
LEMMA ThreadKept ==
  ASSUME NEW c \in Baselines, ThreadOf(c), nrSubgrids[c] \in Nat,
         uvw'[c] = uvw[c], strict' = strict,
         channelBegin'[c] = channelBegin[c], timeOffset'[c] = timeOffset[c],
         nrSubgrids'[c] = nrSubgrids[c],
         \A k \in 0 .. nrSubgrids[c] - 1 : rows'[c * Columns + k] = rows[c * Columns + k],
         phase' # "failed" => phase # "failed",
         phase' \in {"combine", "planned"} => Done(c)
  PROVE  ThreadOf(c)'
<1>1. \A k \in 0 .. nrSubgrids[c] - 1 : Stored(c, k)' = Stored(c, k)
  BY DEF Stored
<1>2. CountOf(c)'
  BY DEF ThreadOf, CountOf, HasData
<1>3. RowOf(c)'
  BY DEF ThreadOf, RowOf
<1>4. OrderOf(c)'
  <2> SUFFICES ASSUME NEW k \in 0 .. nrSubgrids[c] - 1
               PROVE  /\ Precedes(Stored(c, k), channelBegin[c], timeOffset[c])
                      /\ \A l \in 0 .. k - 1 :
                           Precedes(Stored(c, l), Stored(c, k).begin, Stored(c, k).time)
    <3>1. \A k \in 0 .. nrSubgrids[c] - 1 : \A l \in 0 .. k - 1 : l \in 0 .. nrSubgrids[c] - 1
      OBVIOUS
    <3> QED BY <1>1, <3>1 DEF OrderOf
  <2> QED BY DEF ThreadOf, OrderOf
<1>5. GroupStart(c)'
  BY DEF ThreadOf, GroupStart, HasData
<1>6. CompleteOf(c)'
  <2> SUFFICES ASSUME phase # "failed", NEW t \in Timesteps, NEW channel \in 0 .. NrChannels - 1,
                      Owed(c, t, channel), Processed(c, t, channel)
               PROVE  \E k \in 0 .. nrSubgrids[c] - 1 : Holds(Stored(c, k), t, channel)
    <3>1. \A t, channel : /\ Owed(c, t, channel)' <=> Owed(c, t, channel)
                          /\ Processed(c, t, channel)' <=> Processed(c, t, channel)
      BY DEF Owed, Processed, HasData
    <3> QED BY <1>1, <3>1 DEF CompleteOf
  <2> QED BY DEF ThreadOf, CompleteOf
<1>7. DoneOf(c)'
  BY DEF DoneOf, Done, HasData
<1> QED BY <1>2, <1>3, <1>4, <1>5, <1>6, <1>7 DEF ThreadOf

(* Some arithmetic of rows. *)
LEMMA Products ==
  ASSUME NEW a \in Nat, NEW b \in Nat, NEW n \in Nat, a < b
  PROVE  a * n + n <= b * n /\ a * n \in Nat /\ b * n \in Nat
<1>1. PICK d \in Nat : b = a + 1 + d
  <2>1. b - a - 1 \in Nat /\ b = a + 1 + (b - a - 1)
    OBVIOUS
  <2> QED BY <2>1
<1>2. d * n \in Nat /\ a * n \in Nat
  OBVIOUS
<1>3. (a + 1 + d) * n = a * n + n + d * n
  OBVIOUS
<1> QED BY <1>1, <1>2, <1>3

LEMMA RowsApart ==
  ASSUME NEW a \in Nat, NEW b \in Nat, a # b, NEW n \in Nat,
         NEW k \in 0 .. n - 1, NEW l \in 0 .. n - 1
  PROVE  a * n + k # b * n + l
<1>1. CASE a < b
  <2>1. a * n + n <= b * n /\ a * n \in Nat /\ b * n \in Nat
    BY <1>1, Products
  <2> QED BY <2>1
<1>2. CASE b < a
  <2>1. b * n + n <= a * n /\ a * n \in Nat /\ b * n \in Nat
    BY <1>2, Products
  <2> QED BY <2>1
<1> QED BY <1>1, <1>2

(* A move makes room for one more subgrid. *)
LEMMA CountMoved ==
  ASSUME PlanInv, NEW b \in Baselines, NEW s \in NextSubgrid(b), CountOf(b),
         NEW n \in Nat \ {0}, Moved(b, n), uvw'[b] = uvw[b]
  PROVE  /\ nrSubgrids[b] + 1 <= channelBegin'[b] * NrTimesteps + timeOffset'[b]
                                   - FirstTimestep(uvw[b])
         /\ nrSubgrids[b] < NrChannels * NrTimesteps
<1> DEFINE begin == channelBegin[b]
           end == GroupEnd(uvw[b], begin)
           first == FirstTimestep(uvw[b])
           time == timeOffset[b]
           nr == nrSubgrids[b]
<1>1. /\ begin \in Nat /\ end \in Nat /\ first \in Nat /\ time \in Nat /\ nr \in Nat
      /\ NrTimesteps \in Nat \ {0} /\ NrChannels \in Nat
      /\ begin < end /\ begin < NrChannels /\ first <= time /\ time < NrTimesteps
      /\ HasData(b)
  BY ThreadPlace
<1>2. nr <= begin * NrTimesteps + time - first
  BY <1>1 DEF CountOf
<1>3. \/ timeOffset'[b] = time + n /\ channelBegin'[b] = begin
      \/ timeOffset'[b] = first /\ channelBegin'[b] = end
  BY DEF Moved
<1> HIDE DEF begin, end, first, time, nr
<1>4. /\ begin * NrTimesteps + NrTimesteps <= end * NrTimesteps
      /\ begin * NrTimesteps + NrTimesteps <= NrChannels * NrTimesteps
      /\ begin * NrTimesteps \in Nat /\ end * NrTimesteps \in Nat
      /\ NrChannels * NrTimesteps \in Nat
  BY <1>1, Products
<1> DEFINE p == begin * NrTimesteps
           q == end * NrTimesteps
           r == NrChannels * NrTimesteps
<1>5. /\ channelBegin'[b] * NrTimesteps = p /\ timeOffset'[b] = time + n
      \/ /\ channelBegin'[b] * NrTimesteps = q /\ timeOffset'[b] = first
  BY <1>3
<1> HIDE DEF p, q, r
<1>6. nr + 1 <= channelBegin'[b] * NrTimesteps + timeOffset'[b] - first
  BY <1>1, <1>2, <1>4, <1>5 DEF p, q, r
<1>7. nr < NrChannels * NrTimesteps
  BY <1>1, <1>2, <1>4
<1> QED BY <1>6, <1>7 DEF nr, first

(* No baseline has more than its row holds. *)
LEMMA CountBound ==
  ASSUME PlanInv, ColumnForEveryTimestep, NEW b \in Baselines, CountOf(b)
  PROVE  nrSubgrids[b] <= Columns
<1>1. nrSubgrids[b] \in Nat /\ Columns \in Nat /\ NrChannels * NrTimesteps \in Nat
  BY Channels, ColumnsType DEF PlanInv, TypesInv
<1> QED BY <1>1 DEF CountOf, ColumnForEveryTimestep

(* A subgrid before a thread's place is before its next place too, and so is
   the one at its place. *)
LEMMA OrderMoved ==
  ASSUME PlanInv, NEW b \in Baselines, NEW s \in NextSubgrid(b),
         NEW n \in Nat \ {0}, Moved(b, n),
         NEW x, x.begin \in Nat, x.end \in Nat, x.time \in Nat, x.nrTimesteps \in Nat,
         x.end = GroupEnd(uvw[b], x.begin),
         \/ Precedes(x, channelBegin[b], timeOffset[b])
         \/ /\ x.begin = channelBegin[b] /\ x.time = timeOffset[b]
            /\ x.nrTimesteps = n
  PROVE  Precedes(x, channelBegin'[b], timeOffset'[b])
<1> DEFINE begin == channelBegin[b]
           end == GroupEnd(uvw[b], begin)
           time == timeOffset[b]
<1>1. begin \in Nat /\ end \in Nat /\ time \in Nat /\ begin < end
  BY ThreadPlace
<1>2. \/ timeOffset'[b] = time + n /\ channelBegin'[b] = begin
      \/ channelBegin'[b] = end
  BY DEF Moved
<1>3. x.end = end \/ x.begin # begin
  OBVIOUS
<1> HIDE DEF begin, end, time
<1>4. \/ x.begin = begin /\ x.time + x.nrTimesteps <= time
      \/ x.end <= begin
      \/ x.begin = begin /\ x.time = time /\ x.nrTimesteps = n
  BY DEF Precedes, begin, time
<1> QED BY <1>1, <1>2, <1>3, <1>4 DEF Precedes

(* What a thread comes past when it moves: a part of its group. *)
LEMMA ProcessedMoved ==
  ASSUME PlanInv, NEW b \in Baselines, NEW s \in NextSubgrid(b),
         NEW n \in Nat \ {0}, Moved(b, n), uvw'[b] = uvw[b],
         NEW t \in Timesteps, NEW channel \in 0 .. NrChannels - 1,
         Measured(uvw[b], t), Processed(b, t, channel)'
  PROVE  \/ Processed(b, t, channel)
         \/ /\ channel \in channelBegin[b] .. GroupEnd(uvw[b], channelBegin[b]) - 1
            /\ t \in timeOffset[b] .. timeOffset[b] + n - 1
<1> DEFINE begin == channelBegin[b]
           end == GroupEnd(uvw[b], begin)
           first == FirstTimestep(uvw[b])
           time == timeOffset[b]
<1>1. /\ begin \in Nat /\ end \in Nat /\ first \in Nat /\ time \in Nat
      /\ NrTimesteps \in Nat \ {0} /\ NrChannels \in Nat
      /\ begin < end /\ begin < NrChannels /\ end <= NrChannels
      /\ first <= time /\ time < NrTimesteps /\ uvw[b] \in Rows
  BY ThreadPlace
<1>2. t \in Nat /\ t < NrTimesteps /\ first <= t /\ channel \in Nat
  BY <1>1, FirstTimestepOf DEF Timesteps
<1>3. \/ /\ timeOffset'[b] = time + n /\ channelBegin'[b] = begin
      \/ /\ time + n >= NrTimesteps
         /\ timeOffset'[b] = first /\ channelBegin'[b] = end
  BY DEF Moved
<1>4. \/ channel < channelBegin'[b]
      \/ /\ channel < GroupEnd(uvw[b], channelBegin'[b]) /\ t < timeOffset'[b]
  BY DEF Processed
<1>5. Processed(b, t, channel) <=> channel < begin \/ (channel < end /\ t < time)
  BY <1>1 DEF Processed
<1> HIDE DEF first, time
<1>6. CASE timeOffset'[b] = time + n /\ channelBegin'[b] = begin
  <2>1. channel < begin \/ (channel < end /\ t < time + n)
    BY <1>4, <1>6
  <2> HIDE DEF begin, end
  <2> QED BY <2>1, <1>1, <1>2, <1>5 DEF begin, end, time
<1>7. CASE /\ time + n >= NrTimesteps
           /\ timeOffset'[b] = first /\ channelBegin'[b] = end
  <2>1. channel < end
    BY <1>2, <1>4, <1>7, <1>1
  <2> HIDE DEF begin, end
  <2> QED BY <2>1, <1>1, <1>2, <1>5, <1>7 DEF begin, end, time
<1> QED BY <1>3, <1>6, <1>7

(* The next place is the begin of a group too. *)
LEMMA GroupMoved ==
  ASSUME PlanInv, NEW b \in Baselines, NEW s \in NextSubgrid(b),
         NEW n, Moved(b, n), uvw'[b] = uvw[b], GroupStart(b)
  PROVE  GroupStart(b)'
<1>1. /\ channelBegin[b] \in 0 .. NrChannels - 1 /\ channelBegin[b] < NrChannels
      /\ GroupOf(uvw[b], channelBegin[b]) = channelBegin[b]
  BY ThreadPlace DEF GroupStart
<1>2. \/ channelBegin'[b] = channelBegin[b]
      \/ channelBegin'[b] = GroupEnd(uvw[b], channelBegin[b])
  BY DEF Moved
<1>3. GroupOf(uvw[b], GroupEnd(uvw[b], channelBegin[b])) = GroupEnd(uvw[b], channelBegin[b])
  BY <1>1, GroupOfMembers
<1> QED BY <1>1, <1>2, <1>3 DEF GroupStart, HasData

(* The place of a stored subgrid in its baseline's data. *)
LEMMA StoredFields ==
  ASSUME PlanInv, NEW b \in Baselines, RowOf(b), NEW k \in 0 .. nrSubgrids[b] - 1
  PROVE  LET x == Stored(b, k)
         IN  /\ x.begin \in Nat /\ x.end \in Nat /\ x.time \in Nat /\ x.nrTimesteps \in Nat
             /\ x.end = GroupEnd(uvw[b], x.begin)
             /\ \A t, channel : Holds(x, t, channel) => HasData(b) /\ Measured(uvw[b], t)
<1> DEFINE m == rows[b * Columns + k]
<1>1. FromTable(m, uvw) /\ m.baseline = b /\ Stored(b, k) = m.subgrid
  BY DEF PlanInv, CursorInv, SubgridsInv, RowOf, Stored
<1> HIDE DEF m
<1>2. PICK begin, first, n, u, v : PlacedAt(uvw[b], begin, first, n, m.subgrid, u, v)
  BY <1>1, FromTablePlaced
<1>3. m.subgrid.end = GroupEnd(uvw[b], m.subgrid.begin)
  BY <1>2 DEF PlacedAt
<1>4. /\ m.subgrid.time \in Nat /\ m.subgrid.nrTimesteps \in Nat
      /\ m.subgrid.begin \in Nat /\ m.subgrid.end \in Nat
  BY <1>1, TableFields, Channels
<1>5. ASSUME NEW t, NEW channel, Holds(m.subgrid, t, channel)
      PROVE  HasData(b) /\ Measured(uvw[b], t)
  <2>1. HasData(b)
    BY <1>1 DEF FromTable, HasData
  <2>2. /\ first \in Timesteps /\ n \in Nat /\ n > 0
        /\ n = NrTimestepsSubgrid(uvw[b], begin, first)
        /\ t \in first .. first + n - 1
    BY <1>2, <1>5 DEF PlacedAt, Holds
  <2> QED BY <2>1, <2>2, FittingTimesteps
<1> QED BY <1>1, <1>3, <1>4, <1>5

(* A thread that leaves out what it passes keeps its row, when the plan need
   not have that. *)
LEMMA PassedThread ==
  ASSUME PlanInv, NEW b \in Baselines, NEW s \in NextSubgrid(b), ThreadOf(b),
         NEW n \in Nat \ {0}, Moved(b, n), uvw'[b] = uvw[b], strict' = strict,
         nrSubgrids' = nrSubgrids, rows' = rows, phase' = phase,
         \A t \in timeOffset[b] .. timeOffset[b] + n - 1,
            channel \in channelBegin[b] .. GroupEnd(uvw[b], channelBegin[b]) - 1 :
              ~Owed(b, t, channel)
  PROVE  ThreadOf(b)'
<1>1. phase = "split"
  BY DEF NextSubgrid
<1>2. nrSubgrids[b] \in Nat /\ HasData(b) /\ NrChannels * NrTimesteps \in Nat
  BY ThreadPlace
<1>3. CountOf(b) /\ RowOf(b) /\ OrderOf(b) /\ GroupStart(b) /\ CompleteOf(b)
  BY DEF ThreadOf
<1>4. CountOf(b)'
  <2>1. nrSubgrids[b] + 1 <= channelBegin'[b] * NrTimesteps + timeOffset'[b]
                                  - FirstTimestep(uvw[b])
    BY <1>3, CountMoved
  <2> DEFINE bound == channelBegin'[b] * NrTimesteps + timeOffset'[b]
                                  - FirstTimestep(uvw[b])
  <2>2. bound \in Int
    <3>1. channelBegin'[b] \in Int /\ timeOffset'[b] \in Int /\ NrTimesteps \in Int
          /\ FirstTimestep(uvw[b]) \in Int
      BY ThreadPlace DEF Moved
    <3> QED BY <3>1
  <2>3. nrSubgrids[b] + 1 <= bound
    BY <2>1
  <2> HIDE DEF bound
  <2>4. nrSubgrids[b] <= bound
    BY <1>2, <2>2, <2>3
  <2> QED BY <1>3, <2>4 DEF CountOf, bound
<1>5. RowOf(b)'
  BY <1>3 DEF RowOf
<1>6. \A k : Stored(b, k)' = Stored(b, k)
  BY DEF Stored
<1>7. OrderOf(b)'
  <2>1. \A k \in 0 .. nrSubgrids[b] - 1 : Precedes(Stored(b, k), channelBegin'[b], timeOffset'[b])
    BY <1>3, StoredFields, OrderMoved DEF OrderOf
  <2> QED BY <1>3, <1>6, <2>1 DEF OrderOf
<1>8. GroupStart(b)'
  BY <1>3, GroupMoved
<1>9. CompleteOf(b)'
  <2> SUFFICES ASSUME NEW t \in Timesteps, NEW channel \in 0 .. NrChannels - 1,
                      Owed(b, t, channel)', Processed(b, t, channel)'
               PROVE  \E k \in 0 .. nrSubgrids[b] - 1 : Holds(Stored(b, k), t, channel)
    BY <1>6 DEF CompleteOf
  <2>1. Owed(b, t, channel) /\ Measured(uvw[b], t)
    BY DEF Owed, HasData
  <2>2. Processed(b, t, channel)
    BY <2>1, ProcessedMoved
  <2> QED BY <1>1, <1>3, <2>1, <2>2 DEF CompleteOf
<1>10. DoneOf(b)'
  BY <1>1 DEF DoneOf
<1> QED BY <1>4, <1>5, <1>7, <1>8, <1>9, <1>10 DEF ThreadOf

(* Storing a subgrid writes to the end of the baseline's own row. *)
LEMMA StoredRows ==
  ASSUME PlanInv, ThreadInv, ColumnForEveryTimestep,
         NEW b \in Baselines, NEW s \in NextSubgrid(b), StoreSubgrid(b, s)
  PROVE  /\ nrSubgrids'[b] = nrSubgrids[b] + 1
         /\ rows'[b * Columns + nrSubgrids[b]] = Metadata(b, s)
         /\ \A c \in Baselines : c # b => nrSubgrids'[c] = nrSubgrids[c]
         /\ \A c \in Baselines : \A k \in 0 .. nrSubgrids[c] - 1 :
              rows'[c * Columns + k] = rows[c * Columns + k]
<1>1. /\ nrSubgrids' = [nrSubgrids EXCEPT ![b] = @ + 1]
      /\ rows' = [entry \in DOMAIN rows \cup {RowEntry(b)} |->
                    IF entry = RowEntry(b) THEN Metadata(b, s) ELSE rows[entry]]
      /\ Advance(b, s.nrTimesteps) /\ UNCHANGED uvw
  BY DEF StoreSubgrid, inputVars
<1>2. nrSubgrids \in [Baselines -> Nat] /\ Columns \in Nat /\ Baselines \subseteq Nat
  BY ColumnsType, PlanningAssumption DEF PlanInv, TypesInv, Baselines
<1>3. nrSubgrids[b] \in 0 .. Columns - 1
  <2>1. nrSubgrids[b] < NrChannels * NrTimesteps
    <3>1. s.nrTimesteps \in Nat
      BY ThreadPlace
    <3>2. Moved(b, IF s.nrTimesteps = 0 THEN 1 ELSE s.nrTimesteps)
      BY <1>1, <3>1, AdvanceMoves
    <3>3. (IF s.nrTimesteps = 0 THEN 1 ELSE s.nrTimesteps) \in Nat \ {0}
      BY <3>1
    <3>4. CountOf(b)
      BY DEF ThreadInv, ThreadOf
    <3> QED BY <1>1, <3>2, <3>3, <3>4, CountMoved
  <2>2. NrChannels * NrTimesteps \in Nat
    BY Channels
  <2> QED BY <1>2, <2>1, <2>2 DEF ColumnForEveryTimestep
<1>4. ASSUME NEW c \in Baselines, NEW k \in 0 .. nrSubgrids[c] - 1
      PROVE  rows'[c * Columns + k] = rows[c * Columns + k]
  <2>1. c * Columns + k \in DOMAIN rows
    BY DEF PlanInv, CursorInv
  <2>2. c * Columns + k # RowEntry(b)
    <3>1. CASE c = b
      <4>1. k # nrSubgrids[b]
        BY <1>2, <3>1
      <4>2. b * Columns \in Nat /\ k \in Nat /\ nrSubgrids[b] \in Nat
        BY <1>2
      <4> QED BY <3>1, <4>1, <4>2 DEF RowEntry
    <3>2. CASE c # b
      <4>1. nrSubgrids[c] <= Columns /\ nrSubgrids[c] \in Nat
        BY <1>2, CountBound DEF ThreadInv, ThreadOf
      <4>2. k \in 0 .. Columns - 1 /\ c \in Nat /\ b \in Nat
        BY <1>2, <4>1
      <4> QED BY <1>2, <1>3, <3>2, <4>2, RowsApart DEF RowEntry
    <3> QED BY <3>1, <3>2
  <2> QED BY <1>1, <2>1, <2>2
<1>5. rows'[b * Columns + nrSubgrids[b]] = Metadata(b, s)
  BY <1>1 DEF RowEntry
<1> QED BY <1>1, <1>2, <1>4, <1>5

(* A thread that stores its subgrid. *)
LEMMA StoredThread ==
  ASSUME PlanInv, PlanInv', ThreadInv, ColumnForEveryTimestep,
         NEW b \in Baselines, NEW s \in NextSubgrid(b), s.nrTimesteps # 0, StoreSubgrid(b, s)
  PROVE  ThreadInv'
<1> DEFINE n == s.nrTimesteps
<1>1. /\ Advance(b, n) /\ UNCHANGED <<uvw, strict, phase>>
  BY DEF StoreSubgrid, inputVars
<1>2. n \in Nat \ {0} /\ nrSubgrids[b] \in Nat /\ HasData(b)
  BY ThreadPlace
<1>3. Moved(b, n)
  BY <1>1, <1>2, AdvanceMoves
<1> PICK nr \in Nat : nr = nrSubgrids[b]
  BY <1>2
<1>4. /\ nrSubgrids'[b] = nr + 1
      /\ rows'[b * Columns + nr] = Metadata(b, s)
      /\ \A c \in Baselines : c # b => nrSubgrids'[c] = nrSubgrids[c]
      /\ \A c \in Baselines : \A k \in 0 .. nrSubgrids[c] - 1 :
              rows'[c * Columns + k] = rows[c * Columns + k]
  BY StoredRows
<1>5. phase = "split"
  BY DEF NextSubgrid
<1>6. ASSUME NEW c \in Baselines, c # b PROVE ThreadOf(c)'
  <2>1. /\ channelBegin'[c] = channelBegin[c] /\ timeOffset'[c] = timeOffset[c]
        /\ ThreadOf(c) /\ nrSubgrids[c] \in Nat
    BY <1>3, <1>6 DEF Moved, ThreadInv, PlanInv, TypesInv
  <2> QED BY <1>1, <1>4, <1>5, <1>6, <2>1, ThreadKept
<1>7. CountOf(b) /\ RowOf(b) /\ OrderOf(b) /\ GroupStart(b) /\ CompleteOf(b)
  BY DEF ThreadInv, ThreadOf
<1>8. /\ Stored(b, nr)' = s /\ rows'[b * Columns + nr].baseline = b
      /\ \A k \in 0 .. nr - 1 : Stored(b, k)' = Stored(b, k)
  <2>1. Metadata(b, s).subgrid = s /\ Metadata(b, s).baseline = b
    BY DEF Metadata
  <2> QED BY <1>4, <2>1 DEF Stored
<1>9. \A k \in 0 .. nr : k = nr \/ k \in 0 .. nr - 1
  OBVIOUS
<1>10. 0 .. nrSubgrids'[b] - 1 = 0 .. nr
  BY <1>4
<1>11. /\ s.begin = channelBegin[b] /\ s.time = timeOffset[b]
       /\ s.end = GroupEnd(uvw[b], channelBegin[b])
       /\ s.begin \in Nat /\ s.end \in Nat /\ s.time \in Nat
  <2>1. \E m, u, v : PlacedAt(uvw[b], channelBegin[b], timeOffset[b], m, s, u, v)
    BY <1>2, ThreadPlace
  <2>2. /\ channelBegin[b] \in Nat /\ timeOffset[b] \in Nat
        /\ GroupEnd(uvw[b], channelBegin[b]) \in Nat
    BY ThreadPlace
  <2> QED BY <2>1, <2>2 DEF PlacedAt
<1>12. CountOf(b)'
  <2>1. /\ nr + 1 <= channelBegin'[b] * NrTimesteps + timeOffset'[b] - FirstTimestep(uvw[b])
        /\ nr < NrChannels * NrTimesteps
    BY <1>1, <1>2, <1>3, <1>7, CountMoved
  <2>2. NrChannels * NrTimesteps \in Nat
    BY Channels
  <2>3. nr + 1 <= NrChannels * NrTimesteps
    BY <2>1, <2>2
  <2> QED BY <1>1, <1>4, <2>1, <2>3 DEF CountOf
<1>13. RowOf(b)'
  <2>1. \A k \in 0 .. nr : rows'[b * Columns + k].baseline = b
    BY <1>4, <1>7, <1>8, <1>9 DEF RowOf
  <2> QED BY <1>10, <2>1 DEF RowOf
<1>14. OrderOf(b)'
  <2>1. ASSUME NEW k \in 0 .. nr - 1
        PROVE  /\ Precedes(Stored(b, k), channelBegin'[b], timeOffset'[b])
               /\ Precedes(Stored(b, k), s.begin, s.time)
    <3>1. Precedes(Stored(b, k), channelBegin[b], timeOffset[b])
      BY <1>7 DEF OrderOf
    <3>2. LET x == Stored(b, k)
          IN  /\ x.begin \in Nat /\ x.end \in Nat /\ x.time \in Nat /\ x.nrTimesteps \in Nat
              /\ x.end = GroupEnd(uvw[b], x.begin)
      BY <1>7, StoredFields
    <3>3. Precedes(Stored(b, k), channelBegin'[b], timeOffset'[b])
      BY <1>2, <1>3, <3>1, <3>2, OrderMoved
    <3> QED BY <1>11, <3>1, <3>3
  <2>2. Precedes(s, channelBegin'[b], timeOffset'[b])
    BY <1>2, <1>3, <1>11, OrderMoved
  <2>3. ASSUME NEW k \in 0 .. nr
        PROVE  /\ Precedes(Stored(b, k)', channelBegin'[b], timeOffset'[b])
               /\ \A l \in 0 .. k - 1 :
                    Precedes(Stored(b, l)', Stored(b, k)'.begin, Stored(b, k)'.time)
    <3>1. CASE k = nr
      BY <1>8, <2>1, <2>2, <3>1
    <3>2. CASE k \in 0 .. nr - 1
      <4>1. \A l \in 0 .. k - 1 : l \in 0 .. nr - 1
        BY <3>2
      <4>2. \A l \in 0 .. k - 1 :
               Precedes(Stored(b, l), Stored(b, k).begin, Stored(b, k).time)
        BY <1>7, <3>2 DEF OrderOf
      <4> QED BY <1>8, <2>1, <3>2, <4>1, <4>2
    <3> QED BY <1>9, <3>1, <3>2
  <2>4. \A k \in 0 .. nrSubgrids'[b] - 1 :
           /\ Precedes(Stored(b, k)', channelBegin'[b], timeOffset'[b])
           /\ \A l \in 0 .. k - 1 :
                Precedes(Stored(b, l)', Stored(b, k)'.begin, Stored(b, k)'.time)
    BY <1>10, <2>3
  <2> QED BY <2>4 DEF OrderOf, Precedes
<1>15. GroupStart(b)'
  BY <1>1, <1>3, <1>7, GroupMoved
<1>16. CompleteOf(b)'
  <2>1. ASSUME NEW t \in Timesteps, NEW channel \in 0 .. NrChannels - 1,
               Owed(b, t, channel)', Processed(b, t, channel)'
        PROVE  \E k \in 0 .. nr : Holds(Stored(b, k)', t, channel)
    <3>1. Owed(b, t, channel) /\ Measured(uvw[b], t)
      BY <1>1, <2>1 DEF Owed, HasData
    <3>2. CASE Processed(b, t, channel)
      <4>1. PICK k \in 0 .. nr - 1 : Holds(Stored(b, k), t, channel)
        BY <1>5, <1>7, <3>1, <3>2 DEF CompleteOf
      <4>2. k \in 0 .. nr /\ Stored(b, k)' = Stored(b, k)
        BY <1>8
      <4> QED BY <4>1, <4>2
    <3>3. CASE /\ channel \in channelBegin[b] .. GroupEnd(uvw[b], channelBegin[b]) - 1
               /\ t \in timeOffset[b] .. timeOffset[b] + n - 1
      <4>1. Holds(s, t, channel)
        BY <1>11, <3>3 DEF Holds
      <4>2. nr \in 0 .. nr
        OBVIOUS
      <4> QED BY <1>8, <4>1, <4>2
    <3> QED BY <1>1, <1>2, <1>3, <2>1, <3>1, <3>2, <3>3, ProcessedMoved
  <2>2. \A t \in Timesteps, channel \in 0 .. NrChannels - 1 :
           Owed(b, t, channel)' /\ Processed(b, t, channel)' =>
             \E k \in 0 .. nrSubgrids'[b] - 1 : Holds(Stored(b, k)', t, channel)
    BY <1>10, <2>1
  <2> QED BY <2>2 DEF CompleteOf, Holds
<1>17. DoneOf(b)'
  BY <1>1, <1>5 DEF DoneOf
<1>18. ThreadOf(b)'
  BY <1>12, <1>13, <1>14, <1>15, <1>16, <1>17 DEF ThreadOf
<1> QED BY <1>6, <1>18 DEF ThreadInv

(* The planner starts on new data. *)
LEMMA BeginThreads ==
  ASSUME PlanInv, PlanInv', BeginPlan
  PROVE  ThreadInv'
<1> SUFFICES ASSUME NEW b \in Baselines PROVE ThreadOf(b)'
  BY DEF ThreadInv
<1>1. /\ phase' = "split" /\ channelBegin'[b] = 0 /\ nrSubgrids'[b] = 0
      /\ uvw'[b] \in Rows \cup {<<>>}
      /\ timeOffset'[b] = IF uvw'[b] = <<>> THEN 0 ELSE FirstTimestep(uvw'[b])
  BY DEF BeginPlan
<1>2. NrTimesteps \in Nat /\ NrChannels \in Nat \ {0} /\ NrChannels * NrTimesteps \in Nat
  BY Channels
<1>3. \A row \in RowsWithData : row \in Rows /\ row # <<>> /\ FirstTimestep(row) \in Nat
  <2> SUFFICES ASSUME NEW row \in Rows PROVE row # <<>> /\ FirstTimestep(row) \in Nat
    BY DEF RowsWithData
  <2>1. FirstTimestep(row) \in 0 .. NrTimesteps
    BY FirstTimestepOf
  <2> QED BY <2>1, PlanningAssumption
<1>4. CountOf(b)'
  <2>1. uvw'[b] \in RowsWithData =>
          0 <= 0 * NrTimesteps + timeOffset'[b] - FirstTimestep(uvw'[b])
    BY <1>1, <1>2, <1>3
  <2> QED BY <1>1, <1>2, <2>1 DEF CountOf, HasData
<1>5. RowOf(b)' /\ OrderOf(b)'
  BY <1>1 DEF RowOf, OrderOf
<1>6. GroupStart(b)'
  <2>1. GroupOf(uvw'[b], 0) = 0
    BY GroupOfChannel
  <2> QED BY <1>1, <2>1 DEF GroupStart
<1>7. CompleteOf(b)'
  <2>1. ASSUME NEW t \in Timesteps, NEW channel \in 0 .. NrChannels - 1,
               Owed(b, t, channel)', Processed(b, t, channel)'
        PROVE  FALSE
    <3>1. uvw'[b] \in RowsWithData /\ uvw'[b] \in Rows /\ Measured(uvw'[b], t)
      BY <1>3, <2>1 DEF Owed, HasData
    <3>2. FirstTimestep(uvw'[b]) <= t
      BY <3>1, FirstTimestepOf
    <3>3. timeOffset'[b] = FirstTimestep(uvw'[b]) /\ timeOffset'[b] \in Nat /\ t \in Nat
      BY <1>1, <1>3, <3>1 DEF Timesteps
    <3>4. t < timeOffset'[b]
      BY <1>1, <1>2, <2>1 DEF Processed
    <3> QED BY <3>2, <3>3, <3>4
  <2> QED BY <2>1 DEF CompleteOf
<1>8. DoneOf(b)'
  BY <1>1 DEF DoneOf
<1> QED BY <1>4, <1>5, <1>6, <1>7, <1>8 DEF ThreadOf

(* The other actions leave the threads and their rows. *)
LEMMA ThreadsKept ==
  ASSUME PlanInv, ThreadInv,
         UNCHANGED <<uvw, strict, channelBegin, timeOffset, nrSubgrids, rows>>,
         phase' # "failed" => phase # "failed",
         phase' \in {"combine", "planned"} =>
           phase \in {"combine", "planned"} \/ \A b \in Baselines : Done(b)
  PROVE  ThreadInv'
<1> SUFFICES ASSUME NEW b \in Baselines PROVE ThreadOf(b)'
  BY DEF ThreadInv
<1>1. ThreadOf(b) /\ nrSubgrids[b] \in Nat
  BY DEF ThreadInv, PlanInv, TypesInv
<1>2. phase' \in {"combine", "planned"} => Done(b)
  BY <1>1 DEF ThreadOf, DoneOf
<1> QED BY <1>1, <1>2, ThreadKept

(* A thread that passes a timestep or a subgrid. *)
LEMMA PassedThreads ==
  ASSUME PlanInv, ThreadInv,
         NEW b \in Baselines, NEW s \in NextSubgrid(b),
         NEW n \in Nat, Advance(b, n),
         UNCHANGED <<uvw, strict, nrSubgrids, rows, phase>>,
         \A t \in timeOffset[b] .. timeOffset[b] + (IF n = 0 THEN 1 ELSE n) - 1,
            channel \in channelBegin[b] .. GroupEnd(uvw[b], channelBegin[b]) - 1 :
              ~Owed(b, t, channel)
  PROVE  ThreadInv'
<1> DEFINE m == IF n = 0 THEN 1 ELSE n
<1>1. Moved(b, m) /\ m \in Nat \ {0}
  BY AdvanceMoves
<1>2. \A t \in timeOffset[b] .. timeOffset[b] + m - 1,
         channel \in channelBegin[b] .. GroupEnd(uvw[b], channelBegin[b]) - 1 :
              ~Owed(b, t, channel)
  OBVIOUS
<1> HIDE DEF m
<1>3. ThreadOf(b)'
  BY <1>1, <1>2, PassedThread DEF ThreadInv
<1>4. ASSUME NEW c \in Baselines, c # b PROVE ThreadOf(c)'
  <2>1. /\ channelBegin'[c] = channelBegin[c] /\ timeOffset'[c] = timeOffset[c]
        /\ ThreadOf(c) /\ nrSubgrids[c] \in Nat
    BY <1>1, <1>4 DEF Moved, ThreadInv, PlanInv, TypesInv
  <2>2. phase = "split"
    BY DEF NextSubgrid
  <2> QED BY <2>1, <2>2, ThreadKept
<1> QED BY <1>3, <1>4 DEF ThreadInv

(* The plan need not have what a thread skips. *)
LEMMA SkippedThread ==
  ASSUME PlanInv, ThreadInv, NEW b \in Baselines, NEW s \in NextSubgrid(b),
         s.nrTimesteps = 0, SkipTimestep(b)
  PROVE  ThreadInv'
<1>1. /\ Advance(b, 0) /\ UNCHANGED <<uvw, strict, nrSubgrids, rows, phase>>
      /\ ~(strict /\ Measured(uvw[b], timeOffset[b]))
  BY DEF SkipTimestep, inputVars
<1>2. ASSUME NEW t \in timeOffset[b] .. timeOffset[b] + 1 - 1,
             NEW channel \in channelBegin[b] .. GroupEnd(uvw[b], channelBegin[b]) - 1,
             Owed(b, t, channel)
      PROVE  FALSE
  <2>1. t = timeOffset[b]
    BY ThreadPlace
  <2>2. Measured(uvw[b], t) /\ WellInside(uvw[b], t, channel)
    BY <1>1, <1>2, <2>1 DEF Owed
  <2>3. GroupOf(uvw[b], channel) = channelBegin[b]
    BY ThreadPlace, GroupOfMembers DEF ThreadInv, ThreadOf, GroupStart
  <2>4. Fits(Added(uvw[b], channelBegin[b], t, 1))
    BY <2>2, <2>3 DEF WellInside
  <2>5. NrTimestepsSubgrid(uvw[b], channelBegin[b], t) # 0
    BY <2>1, <2>2, <2>4, ThreadPlace, NotSkipped
  <2> QED BY <2>1, <2>5, ThreadPlace
<1>3. \A t \in timeOffset[b] .. timeOffset[b] + (IF 0 = 0 THEN 1 ELSE 0) - 1,
         channel \in channelBegin[b] .. GroupEnd(uvw[b], channelBegin[b]) - 1 :
              ~Owed(b, t, channel)
  BY <1>2
<1>4. 0 \in Nat
  OBVIOUS
<1> QED BY <1>1, <1>3, <1>4, PassedThreads

(* Nor what it drops. *)
LEMMA DroppedThread ==
  ASSUME PlanInv, ThreadInv, NEW b \in Baselines, NEW s \in NextSubgrid(b),
         s.nrTimesteps # 0, DropSubgrid(b, s)
  PROVE  ThreadInv'
<1> DEFINE n == s.nrTimesteps
<1>1. /\ Advance(b, n) /\ UNCHANGED <<uvw, strict, nrSubgrids, rows, phase>>
      /\ ~InRange(s) /\ ~strict
  BY DEF DropSubgrid, inputVars
<1>2. n \in Nat /\ n # 0
  BY ThreadPlace
<1>3. ASSUME NEW t \in timeOffset[b] .. timeOffset[b] + n - 1,
             NEW channel \in channelBegin[b] .. GroupEnd(uvw[b], channelBegin[b]) - 1,
             Owed(b, t, channel)
      PROVE  FALSE
  <2>1. WellInside(uvw[b], t, channel)
    BY <1>1, <1>3 DEF Owed
  <2>2. GroupOf(uvw[b], channel) = channelBegin[b]
    BY ThreadPlace, GroupOfMembers DEF ThreadInv, ThreadOf, GroupStart
  <2>3. PICK m, u, v : PlacedAt(uvw[b], channelBegin[b], timeOffset[b], m, s, u, v)
    BY <1>2, ThreadPlace
  <2>4. Holds(s, t, channel)
    BY <2>3 DEF Holds, PlacedAt
  <2> QED BY <1>1, <2>1, <2>2, <2>3, <2>4, NotDropped
<1>4. \A t \in timeOffset[b] .. timeOffset[b] + (IF n = 0 THEN 1 ELSE n) - 1,
         channel \in channelBegin[b] .. GroupEnd(uvw[b], channelBegin[b]) - 1 :
              ~Owed(b, t, channel)
  BY <1>2, <1>3
<1> QED BY <1>1, <1>2, <1>4, PassedThreads

(* Every step keeps what is known of the threads. *)
LEMMA ThreadInvStep ==
  ASSUME PlanInv, PlanInv', ThreadInv, ColumnForEveryTimestep, [Next]_vars
  PROVE  ThreadInv'
<1>1. CASE BeginPlan
  BY <1>1, BeginThreads
<1>2. ASSUME NEW b \in Baselines, Thread(b) PROVE ThreadInv'
  <2>1. PICK s \in NextSubgrid(b) :
           IF s.nrTimesteps = 0
           THEN SkipTimestep(b) \/ ThrowNotPlaced(b)
           ELSE StoreSubgrid(b, s) \/ DropSubgrid(b, s) \/ ThrowOutOfRange(s)
    BY <1>2 DEF Thread
  <2>2. CASE Throw
    <3>1. /\ UNCHANGED <<uvw, strict, channelBegin, timeOffset, nrSubgrids, rows>>
          /\ phase' = "failed"
      BY <2>2 DEF Throw, threadVars, inputVars
    <3> QED BY <3>1, ThreadsKept
  <2>3. CASE s.nrTimesteps = 0 /\ SkipTimestep(b)
    BY <2>3, SkippedThread
  <2>4. CASE s.nrTimesteps # 0 /\ StoreSubgrid(b, s)
    BY <2>4, StoredThread
  <2>5. CASE s.nrTimesteps # 0 /\ DropSubgrid(b, s)
    BY <2>5, DroppedThread
  <2> QED BY <2>1, <2>2, <2>3, <2>4, <2>5 DEF ThrowNotPlaced, ThrowOutOfRange
<1>3. CASE EndSplit
  <2>1. /\ UNCHANGED <<uvw, strict, channelBegin, timeOffset, nrSubgrids, rows>>
        /\ phase' = "combine" /\ phase = "split" /\ \A b \in Baselines : Done(b)
    BY <1>3 DEF EndSplit, threadVars, inputVars
  <2> QED BY <2>1, ThreadsKept
<1>4. CASE Combine
  <2>1. /\ UNCHANGED <<uvw, strict, channelBegin, timeOffset, nrSubgrids, rows>>
        /\ phase = "combine" /\ phase' \in {"combine", "planned"}
    BY <1>4 DEF Combine, AppendSubgrid, AppendOffset, FinishPlan, threadVars, inputVars
  <2> QED BY <2>1, ThreadsKept
<1>5. CASE Clear \/ UNCHANGED vars
  <2>1. UNCHANGED <<uvw, strict, channelBegin, timeOffset, nrSubgrids, rows, phase>>
    BY <1>5 DEF Clear, vars, threadVars, inputVars
  <2> QED BY <2>1, ThreadsKept
<1> QED BY <1>1, <1>2, <1>3, <1>4, <1>5 DEF Next, Split

-----------------------------------------------------------------------------
(* What is combined. *)

(* The stored subgrid is in the list, at its place after its offset. *)
ListedAt(o, m, b, k) ==
  /\ o[b + 1] + k + 1 \in 1 .. Len(m)
  /\ m[o[b + 1] + k + 1].baseline = b
  /\ m[o[b + 1] + k + 1].subgrid = Stored(b, k)

(* The baselines before this one are in the list, and the first subgrids of
   this one, and nothing else. *)
ListingUpTo(o, m, current, index) ==
  /\ current \in 0 .. NrBaselines
  /\ index \in IF current = NrBaselines THEN {0} ELSE 0 .. nrSubgrids[current]
  /\ \A b \in 0 .. current - 1 : o[b + 2] = o[b + 1] + nrSubgrids[b]
  /\ \A b \in 0 .. current - 1 : \A k \in 0 .. nrSubgrids[b] - 1 : ListedAt(o, m, b, k)
  /\ \A k \in 0 .. index - 1 : ListedAt(o, m, current, k)
  /\ \A p \in 1 .. Len(m) :
       \E b \in Baselines : \E k \in 0 .. nrSubgrids[b] - 1 :
         b <= current /\ p = o[b + 1] + k + 1 /\ ListedAt(o, m, b, k)

(* The last offset is the one of the baseline that is being appended. *)
Listing(o, m) == ListingUpTo(o, m, Len(o) - 1, Len(m) - o[Len(o)])

ListInv ==
  /\ phase \in {"combine", "planned"} => Listing(offsets, metadata)
  /\ phase \notin {"combine", "planned"} => offsets = <<>>
  /\ phase = "planned" => Len(offsets) - 1 = NrBaselines

(* Another subgrid in the list. *)
LEMMA AppendListed ==
  ASSUME PlanInv, ThreadInv, NEW o \in Seq(Nat), NEW m \in Seq(Entries), Listing(o, m), o # <<>>,
         NEW e \in Entries, Len(o) - 1 < NrBaselines,
         Len(m) - o[Len(o)] < nrSubgrids[Len(o) - 1],
         e.baseline = Len(o) - 1,
         e.subgrid = Stored(Len(o) - 1, Len(m) - o[Len(o)])
  PROVE  Listing(o, Append(m, e))
<1> DEFINE current == Len(o) - 1
           index == Len(m) - o[Len(o)]
           l == Append(m, e)
<1>1. /\ Len(l) = Len(m) + 1 /\ Len(m) \in Nat
      /\ \A i \in 1 .. Len(m) : l[i] = m[i]
      /\ l[Len(m) + 1] = e
  BY Appended
<1> HIDE DEF l
<1>2. /\ Len(o) \in Nat /\ o[Len(o)] \in Nat /\ NrBaselines \in Nat /\ current \in Nat
      /\ current \in Baselines /\ nrSubgrids[current] \in Nat
  <2>1. Len(o) \in 1 .. Len(o) /\ Len(o) \in Nat
    OBVIOUS
  <2>2. NrBaselines \in Nat /\ current \in Baselines
    BY <2>1, PlanningAssumption DEF Baselines
  <2> QED BY <2>1, <2>2 DEF PlanInv, TypesInv
<1>3. \A b, k : ListedAt(o, m, b, k) => ListedAt(o, l, b, k)
  BY <1>1 DEF ListedAt
<1>4. ListedAt(o, l, current, index)
  <2>1. o[current + 1] + index + 1 = Len(m) + 1
    BY <1>1, <1>2
  <2> QED BY <1>1, <2>1 DEF ListedAt
<1>5. index \in 0 .. nrSubgrids[current] - 1
  BY <1>1, <1>2 DEF Listing, ListingUpTo
<1>6. Len(l) - o[Len(o)] = index + 1 /\ current # NrBaselines
  BY <1>1, <1>2
<1>7. index + 1 \in 0 .. nrSubgrids[current]
  BY <1>2, <1>5
<1>8. \A k \in 0 .. index : ListedAt(o, l, current, k)
  <2>1. \A k \in 0 .. index : k = index \/ k \in 0 .. index - 1
    BY <1>5
  <2>2. \A k \in 0 .. index - 1 : ListedAt(o, m, current, k)
    BY DEF Listing, ListingUpTo
  <2> HIDE DEF current, index
  <2> QED BY <1>3, <1>4, <2>1, <2>2
<1>9. \A p \in 1 .. Len(m) + 1 :
        \E b \in Baselines : \E k \in 0 .. nrSubgrids[b] - 1 :
          b <= current /\ p = o[b + 1] + k + 1 /\ ListedAt(o, l, b, k)
  <2> SUFFICES ASSUME NEW p \in 1 .. Len(m) + 1
               PROVE  \E b \in Baselines : \E k \in 0 .. nrSubgrids[b] - 1 :
                        b <= current /\ p = o[b + 1] + k + 1 /\ ListedAt(o, l, b, k)
    OBVIOUS
  <2>1. CASE p = Len(m) + 1
    <3>1. p = o[current + 1] + index + 1 /\ current <= current
      BY <1>1, <1>2, <2>1
    <3> HIDE DEF current, index
    <3> QED BY <1>2, <1>4, <1>5, <3>1
  <2>2. CASE p \in 1 .. Len(m)
    <3>1. \E b \in Baselines : \E k \in 0 .. nrSubgrids[b] - 1 :
            b <= current /\ p = o[b + 1] + k + 1 /\ ListedAt(o, m, b, k)
      BY <2>2 DEF Listing, ListingUpTo
    <3> QED BY <1>3, <3>1
  <2> QED BY <1>1, <2>1, <2>2
<1>10. /\ \A b \in 0 .. current - 1 : o[b + 2] = o[b + 1] + nrSubgrids[b]
       /\ \A b \in 0 .. current - 1 : \A k \in 0 .. nrSubgrids[b] - 1 : ListedAt(o, l, b, k)
       /\ current \in 0 .. NrBaselines
  BY <1>3 DEF Listing, ListingUpTo
<1>11. (index + 1) - 1 = index
  BY <1>5
<1> HIDE DEF current, index
<1>12. ListingUpTo(o, l, current, index + 1)
  BY <1>1, <1>6, <1>7, <1>8, <1>9, <1>10, <1>11 DEF ListingUpTo
<1> QED BY <1>6, <1>12 DEF Listing, l, current

(* Another offset. *)
LEMMA OffsetListed ==
  ASSUME PlanInv, NEW o \in Seq(Nat), NEW m \in Seq(Entries), Listing(o, m), o # <<>>,
         Len(o) - 1 < NrBaselines, Len(m) - o[Len(o)] = nrSubgrids[Len(o) - 1]
  PROVE  Listing(Append(o, Len(m)), m)
<1> DEFINE current == Len(o) - 1
           index == Len(m) - o[Len(o)]
           q == Append(o, Len(m))
<1>0. Len(m) \in Nat
  OBVIOUS
<1>1. /\ Len(q) = Len(o) + 1 /\ Len(o) \in Nat
      /\ \A i \in 1 .. Len(o) : q[i] = o[i]
      /\ q[Len(o) + 1] = Len(m)
  BY <1>0, Appended
<1> HIDE DEF q
<1>2. /\ o[Len(o)] \in Nat /\ NrBaselines \in Nat /\ current \in Nat
      /\ current \in Baselines /\ nrSubgrids[current] \in Nat /\ current < NrBaselines
      /\ Len(o) = current + 1
  <2>1. Len(o) \in 1 .. Len(o)
    OBVIOUS
  <2>2. NrBaselines \in Nat /\ current \in Baselines
    BY <1>1, <2>1, PlanningAssumption DEF Baselines
  <2> QED BY <1>1, <2>1, <2>2 DEF PlanInv, TypesInv
<1>3. \A b \in 0 .. current : q[b + 1] = o[b + 1]
  BY <1>1, <1>2
<1>4. \A b \in 0 .. current : \A k : ListedAt(o, m, b, k) => ListedAt(q, m, b, k)
  BY <1>3 DEF ListedAt
<1>5. Len(q) - 1 = current + 1 /\ Len(m) - q[Len(q)] = 0
  BY <1>0, <1>1, <1>2
<1>6. /\ \A b \in 0 .. current - 1 : o[b + 2] = o[b + 1] + nrSubgrids[b]
      /\ \A b \in 0 .. current - 1 : \A k \in 0 .. nrSubgrids[b] - 1 : ListedAt(o, m, b, k)
      /\ \A k \in 0 .. index - 1 : ListedAt(o, m, current, k)
      /\ \A p \in 1 .. Len(m) :
           \E b \in Baselines : \E k \in 0 .. nrSubgrids[b] - 1 :
             b <= current /\ p = o[b + 1] + k + 1 /\ ListedAt(o, m, b, k)
  <2>1. ListingUpTo(o, m, current, index)
    BY DEF Listing
  <2> HIDE DEF current, index
  <2> QED BY <2>1 DEF ListingUpTo
<1>7. \A b \in 0 .. current : b = current \/ b \in 0 .. current - 1
  <2> HIDE DEF current
  <2> QED BY <1>2
<1>8. \A b \in 0 .. current : q[b + 2] = q[b + 1] + nrSubgrids[b]
  <2> SUFFICES ASSUME NEW b \in 0 .. current PROVE q[b + 2] = q[b + 1] + nrSubgrids[b]
    OBVIOUS
  <2>1. CASE b = current
    <3>1. q[current + 2] = Len(m) /\ q[current + 1] = o[Len(o)]
      BY <1>1, <1>2
    <3>2. Len(m) = o[Len(o)] + nrSubgrids[current]
      BY <1>0, <1>2
    <3> QED BY <2>1, <3>1, <3>2
  <2>2. CASE b \in 0 .. current - 1
    <3>1. q[b + 2] = o[b + 2] /\ q[b + 1] = o[b + 1]
      <4>1. b + 2 \in 1 .. Len(o) /\ b + 1 \in 1 .. Len(o)
        BY <1>2, <2>2
      <4> QED BY <1>1, <4>1
    <3> QED BY <1>6, <2>2, <3>1
  <2> QED BY <1>7, <2>1, <2>2
<1>9. \A b \in 0 .. current : \A k \in 0 .. nrSubgrids[b] - 1 : ListedAt(q, m, b, k)
  <2> SUFFICES ASSUME NEW b \in 0 .. current, NEW k \in 0 .. nrSubgrids[b] - 1
               PROVE  ListedAt(o, m, b, k)
    BY <1>4
  <2>1. index = nrSubgrids[current]
    OBVIOUS
  <2> HIDE DEF current, index
  <2> QED BY <1>6, <1>7, <2>1
<1>10. \A p \in 1 .. Len(m) :
           \E b \in Baselines : \E k \in 0 .. nrSubgrids[b] - 1 :
             b <= current + 1 /\ p = q[b + 1] + k + 1 /\ ListedAt(q, m, b, k)
  <2> SUFFICES ASSUME NEW p \in 1 .. Len(m)
               PROVE  \E b \in Baselines : \E k \in 0 .. nrSubgrids[b] - 1 :
                        b <= current + 1 /\ p = q[b + 1] + k + 1 /\ ListedAt(q, m, b, k)
    OBVIOUS
  <2>1. PICK b \in Baselines : \E k \in 0 .. nrSubgrids[b] - 1 :
           b <= current /\ p = o[b + 1] + k + 1 /\ ListedAt(o, m, b, k)
    BY <1>6
  <2>2. PICK k \in 0 .. nrSubgrids[b] - 1 :
           b <= current /\ p = o[b + 1] + k + 1 /\ ListedAt(o, m, b, k)
    BY <2>1
  <2>3. b \in 0 .. current /\ b <= current + 1
    BY <1>2, <2>2 DEF Baselines
  <2>4. p = q[b + 1] + k + 1 /\ ListedAt(q, m, b, k)
    BY <1>3, <1>4, <2>2, <2>3
  <2> HIDE DEF current
  <2> QED BY <2>2, <2>3, <2>4
<1>11. current + 1 \in 0 .. NrBaselines
  BY <1>2
<1>12. 0 \in IF current + 1 = NrBaselines THEN {0} ELSE 0 .. nrSubgrids[current + 1]
  <2> HIDE DEF current
  <2>1. CASE current + 1 # NrBaselines
    <3>1. current + 1 \in Baselines
      BY <1>2, <2>1 DEF Baselines
    <3>2. nrSubgrids[current + 1] \in Nat
      BY <3>1 DEF PlanInv, TypesInv
    <3> QED BY <2>1, <3>2
  <2> QED BY <2>1
<1>13. (current + 1) - 1 = current
  BY <1>2
<1> HIDE DEF current, index
<1>14. \A k \in 0 .. 0 - 1 : ListedAt(q, m, current + 1, k)
  OBVIOUS
<1>15. ListingUpTo(q, m, current + 1, 0)
  BY <1>8, <1>9, <1>10, <1>11, <1>12, <1>13, <1>14 DEF ListingUpTo
<1> QED BY <1>5, <1>15 DEF q, Listing

(* What is listed stays listed while the rows stay. *)
LEMMA ListingKept ==
  ASSUME NEW o, NEW m, Listing(o, m), offsets' = o, metadata' = m,
         UNCHANGED <<rows, nrSubgrids>>
  PROVE  Listing(offsets, metadata)'
<1>1. \A b, k : ListedAt(o, m, b, k) = ListedAt(offsets, metadata, b, k)'
  BY DEF ListedAt, Stored
<1>2. ListingUpTo(o, m, Len(o) - 1, Len(m) - o[Len(o)])
  BY DEF Listing
<1> DEFINE current == Len(o) - 1
           index == Len(m) - o[Len(o)]
<1>3. Len(offsets') - 1 = current /\ Len(metadata') - offsets'[Len(offsets')] = index
  OBVIOUS
<1> HIDE DEF current, index
<1>4. ListingUpTo(o, m, current, index)
  BY <1>2 DEF current, index
<1>5. ListingUpTo(offsets, metadata, Len(offsets) - 1, Len(metadata) - offsets[Len(offsets)])'
  BY <1>1, <1>3, <1>4 DEF ListingUpTo
<1> QED BY <1>5 DEF Listing

(* The list begins empty. *)
LEMMA EndSplitLists ==
  ASSUME PlanInv, EndSplit
  PROVE  ListInv'
<1>1. /\ phase = "split" /\ phase' = "combine" /\ offsets' = <<0>>
      /\ metadata' = metadata /\ UNCHANGED <<rows, nrSubgrids>>
  BY DEF EndSplit, threadVars
<1>2. metadata = <<>>
  BY <1>1 DEF PlanInv, OffsetsInv
<1> DEFINE o == <<0>>
           m == <<>>
<1>3. Listing(o, m)
  <2>1. Len(o) - 1 = 0 /\ Len(m) - o[Len(o)] = 0 /\ Len(m) = 0
    OBVIOUS
  <2> HIDE DEF o, m
  <2>2. 0 \in IF 0 = NrBaselines THEN {0} ELSE 0 .. nrSubgrids[0]
    <3>1. 0 \in Baselines
      BY PlanningAssumption DEF Baselines
    <3>2. nrSubgrids[0] \in Nat
      BY <3>1 DEF PlanInv, TypesInv
    <3> QED BY <3>2
  <2>3. ListingUpTo(o, m, 0, 0)
    BY <2>1, <2>2, PlanningAssumption DEF ListingUpTo
  <2> QED BY <2>1, <2>3 DEF Listing
<1>4. Listing(offsets, metadata)'
  <2> HIDE DEF o, m
  <2>1. offsets' = o /\ metadata' = m
    BY <1>1, <1>2 DEF o, m
  <2> QED BY <1>1, <1>3, <2>1, ListingKept
<1> QED BY <1>1, <1>4 DEF ListInv

(* Subgrids are appended, each after the one before it in its row. *)
LEMMA AppendSubgridLists ==
  ASSUME PlanInv, PlanInv', ThreadInv, ListInv, AppendSubgrid
  PROVE  ListInv'
<1> DEFINE r == rows[CombineBaseline * Columns + CombineIndex]
<1>1. /\ CombineBaseline \in Baselines /\ CombineIndex \in 0 .. nrSubgrids[CombineBaseline] - 1
      /\ r \in Entries
      /\ metadata' = Append(metadata, [r EXCEPT !.wtile = wtileId'[r.subgrid.at.tile]])
      /\ phase = "combine" /\ phase' = "combine"
      /\ UNCHANGED <<rows, nrSubgrids, offsets>>
  BY NextEntry
<1>2. r.baseline = CombineBaseline /\ r.subgrid = Stored(CombineBaseline, CombineIndex)
  BY <1>1 DEF ThreadInv, ThreadOf, RowOf, Stored
<1>3. /\ offsets \in Seq(Nat) /\ offsets # <<>> /\ metadata \in Seq(Entries)
      /\ Listing(offsets, metadata) /\ metadata' \in Seq(Entries)
  BY <1>1 DEF PlanInv, TypesInv, OffsetsInv, SubgridsInv, ListInv
<1> HIDE DEF r
<1>4. PICK e : e = [r EXCEPT !.wtile = wtileId'[r.subgrid.at.tile]]
  OBVIOUS
<1>5. e.baseline = r.baseline /\ e.subgrid = r.subgrid /\ metadata' = Append(metadata, e)
  BY <1>1, <1>4 DEF Entries
<1>6. e \in Entries
  <2>1. Len(metadata) + 1 \in 1 .. Len(metadata') /\ metadata'[Len(metadata) + 1] = e
    BY <1>3, <1>5
  <2> QED BY <1>3, <2>1
<1>7. CombineBaseline = Len(offsets) - 1 /\ CombineIndex = Len(metadata) - offsets[Len(offsets)]
  BY <1>3 DEF CombineBaseline, CombineIndex, Last
<1>8. PICK o, m : o = offsets /\ m = metadata
  OBVIOUS
<1>9. Len(o) - 1 < NrBaselines /\ Len(m) - o[Len(o)] < nrSubgrids[Len(o) - 1]
  <2>1. nrSubgrids[CombineBaseline] \in Nat
    BY <1>1 DEF PlanInv, TypesInv
  <2>2. /\ CombineBaseline < NrBaselines /\ CombineIndex < nrSubgrids[CombineBaseline]
    BY <1>1, <2>1, PlanningAssumption DEF Baselines
  <2> QED BY <1>7, <1>8, <2>2
<1>10. e.baseline = Len(o) - 1 /\ e.subgrid = Stored(Len(o) - 1, Len(m) - o[Len(o)])
  BY <1>2, <1>5, <1>7, <1>8
<1>11. Listing(o, Append(m, e))
  BY <1>3, <1>6, <1>8, <1>9, <1>10, AppendListed
<1>12. offsets' = o /\ metadata' = Append(m, e)
  BY <1>1, <1>5, <1>8
<1>13. Listing(offsets, metadata)'
  BY <1>1, <1>11, <1>12, ListingKept
<1> QED BY <1>1, <1>13 DEF ListInv

(* The offset of the next baseline, when all of this one are appended. *)
LEMMA AppendOffsetLists ==
  ASSUME PlanInv, ListInv, AppendOffset
  PROVE  ListInv'
<1>1. /\ phase = "combine" /\ phase' = phase
      /\ CombineBaseline < NrBaselines /\ CombineIndex = nrSubgrids[CombineBaseline]
      /\ offsets' = Append(offsets, Len(metadata))
      /\ metadata' = metadata /\ UNCHANGED <<rows, nrSubgrids>>
  BY DEF AppendOffset, threadVars
<1>2. /\ offsets \in Seq(Nat) /\ offsets # <<>> /\ metadata \in Seq(Entries)
      /\ Listing(offsets, metadata)
  BY <1>1 DEF PlanInv, TypesInv, OffsetsInv, SubgridsInv, ListInv
<1>3. CombineBaseline = Len(offsets) - 1 /\ CombineIndex = Len(metadata) - offsets[Len(offsets)]
  BY <1>2 DEF CombineBaseline, CombineIndex, Last
<1>4. PICK o, m : o = offsets /\ m = metadata
  OBVIOUS
<1>5. Listing(Append(o, Len(m)), m)
  BY <1>1, <1>2, <1>3, <1>4, OffsetListed
<1>6. offsets' = Append(o, Len(m)) /\ metadata' = m
  BY <1>1, <1>4
<1>7. Listing(offsets, metadata)'
  BY <1>1, <1>5, <1>6, ListingKept
<1> QED BY <1>1, <1>7 DEF ListInv

(* The number of a-terms is the only thing that changes when the list is done. *)
LEMMA FinishPlanLists ==
  ASSUME PlanInv, ListInv, FinishPlan
  PROVE  ListInv'
<1>1. /\ phase = "combine" /\ phase' = "planned" /\ CombineBaseline = NrBaselines
      /\ UNCHANGED <<rows, nrSubgrids, offsets>>
  BY DEF FinishPlan, threadVars
<1>2. /\ Len(metadata') = Len(metadata)
      /\ \A k \in DOMAIN metadata : /\ metadata'[k].baseline = metadata[k].baseline
                                    /\ metadata'[k].subgrid = metadata[k].subgrid
      /\ DOMAIN metadata = 1 .. Len(metadata)
  BY FinishPlanStep DEF PlanInv, SubgridsInv
<1>3. PICK o, m : o = offsets /\ m = metadata'
  OBVIOUS
<1>4. \A b, k : ListedAt(offsets, metadata, b, k) => ListedAt(o, m, b, k)
  BY <1>2, <1>3 DEF ListedAt
<1> DEFINE current == Len(o) - 1
           index == Len(m) - o[Len(o)]
<1>5. ListingUpTo(offsets, metadata, current, index) /\ Len(m) = Len(metadata)
  BY <1>1, <1>2, <1>3 DEF ListInv, Listing
<1> HIDE DEF current, index
<1>6. ListingUpTo(o, m, current, index)
  BY <1>3, <1>4, <1>5 DEF ListingUpTo
<1>7. Listing(o, m)
  BY <1>6 DEF Listing, current, index
<1>8. offsets' = o /\ metadata' = m
  BY <1>1, <1>3
<1>9. Listing(offsets, metadata)'
  BY <1>1, <1>7, <1>8, ListingKept
<1> QED BY <1>1, <1>9 DEF ListInv, CombineBaseline

(* Every step keeps the list. *)
LEMMA ListInvStep ==
  ASSUME PlanInv, PlanInv', ThreadInv, ListInv, [Next]_vars
  PROVE  ListInv'
<1>1. CASE BeginPlan
  BY <1>1 DEF BeginPlan, ListInv
<1>2. ASSUME NEW b \in Baselines, Thread(b) PROVE ListInv'
  <2>1. phase = "split" /\ phase' \in {"split", "failed"} /\ offsets' = offsets
    BY <1>2 DEF Thread, NextSubgrid, SkipTimestep, ThrowNotPlaced, StoreSubgrid, DropSubgrid,
                ThrowOutOfRange, Throw, listVars
  <2> QED BY <2>1 DEF ListInv
<1>3. CASE EndSplit
  BY <1>3, EndSplitLists
<1>4. CASE Combine
  BY <1>4, AppendSubgridLists, AppendOffsetLists, FinishPlanLists DEF Combine
<1>5. CASE Clear \/ UNCHANGED vars
  <2>1. UNCHANGED <<rows, nrSubgrids, offsets, metadata, phase>>
    BY <1>5 DEF Clear, vars, threadVars, listVars
  <2>2. PICK o, m : o = offsets /\ m = metadata
    OBVIOUS
  <2>3. Listing(offsets, metadata) => Listing(offsets, metadata)'
    BY <2>1, <2>2, ListingKept
  <2> QED BY <2>1, <2>3 DEF ListInv
<1> QED BY <1>1, <1>2, <1>3, <1>4, <1>5 DEF Next, Split

-----------------------------------------------------------------------------
(* The theorems. *)

OnceInv == PlanInv /\ ThreadInv /\ ListInv

(* The threads have not begun, and nothing is listed. *)
LEMMA OnceInitially == Init => OnceInv
<1> SUFFICES ASSUME Init PROVE OnceInv
  OBVIOUS
<1>1. PlanInv
  BY PlanInitially
<1>2. ThreadInv
  <2> SUFFICES ASSUME NEW b \in Baselines PROVE ThreadOf(b)
    BY DEF ThreadInv
  <2>1. ~HasData(b) /\ nrSubgrids[b] = 0 /\ phase = "idle"
    BY PlanningAssumption DEF Init, HasData, RowsWithData
  <2>2. CountOf(b) /\ GroupStart(b) /\ CompleteOf(b) /\ DoneOf(b)
    BY <2>1, Channels DEF CountOf, GroupStart, CompleteOf, Owed, DoneOf
  <2>3. RowOf(b) /\ OrderOf(b)
    BY <2>1 DEF RowOf, OrderOf
  <2> QED BY <2>2, <2>3 DEF ThreadOf
<1>3. ListInv
  BY DEF Init, ListInv
<1> QED BY <1>1, <1>2, <1>3 DEF OnceInv

(* The threads and the list are as they must be throughout. *)
LEMMA OnceInvariant ==
  ASSUME ColumnForEveryTimestep
  PROVE  Spec => []OnceInv
<1>1. OnceInv /\ [Next]_vars => OnceInv'
  BY PlanStep, ThreadInvStep, ListInvStep DEF OnceInv
<1> QED BY <1>1, OnceInitially, PTL DEF Spec

(* The threads store their subgrids in the one array without a lock, and none
   ever writes into the row of another: what a baseline reads back, and what
   lies between its offsets in the list, are its own subgrids. *)
THEOREM OwnSubgridsKept ==
  ASSUME ColumnForEveryTimestep
  PROVE  Spec => []OwnSubgrids
<1>1. ASSUME OnceInv, NEW b \in 1 .. Len(offsets) - 1,
             NEW k \in offsets[b] + 1 .. offsets[b + 1]
      PROVE  metadata[k].baseline = b - 1
  <2>1. offsets # <<>> /\ Len(offsets) \in Nat /\ Len(metadata) \in Nat
    BY <1>1 DEF OnceInv, PlanInv, TypesInv, SubgridsInv
  <2>2. Listing(offsets, metadata)
    BY <1>1, <2>1 DEF OnceInv, ListInv
  <2> DEFINE c == b - 1
  <2>3. c \in 0 .. (Len(offsets) - 1) - 1 /\ c \in Int /\ c + 1 = b /\ c + 2 = b + 1
    BY <2>1
  <2>4. c \in Baselines
    BY <2>1, <2>2, <2>3, PlanningAssumption DEF Listing, ListingUpTo, Baselines
  <2>5. offsets[b] \in Nat /\ nrSubgrids[c] \in Nat
    BY <1>1, <2>1, <2>4 DEF OnceInv, PlanInv, TypesInv
  <2> HIDE DEF c
  <2>6. /\ offsets[b + 1] = offsets[b] + nrSubgrids[c]
        /\ \A l \in 0 .. nrSubgrids[c] - 1 : ListedAt(offsets, metadata, c, l)
    BY <2>2, <2>3 DEF Listing, ListingUpTo
  <2>7. k - offsets[b] - 1 \in 0 .. nrSubgrids[c] - 1
    BY <2>5, <2>6
  <2>8. /\ ListedAt(offsets, metadata, c, k - offsets[b] - 1)
        /\ offsets[c + 1] + (k - offsets[b] - 1) + 1 = k
    BY <2>3, <2>5, <2>6, <2>7
  <2> QED BY <2>8 DEF ListedAt, c
<1>2. OnceInv => OwnSubgrids
  BY <1>1 DEF OwnSubgrids, OnceInv, ThreadInv, ThreadOf, RowOf
<1> QED BY <1>2, OnceInvariant, PTL

(* What is at a position of the list is a subgrid that its baseline stored. *)
LEMMA AtPosition ==
  ASSUME OnceInv, phase = "planned", NEW p \in DOMAIN metadata, NEW b \in Baselines,
         metadata[p].baseline = b
  PROVE  \E k \in 0 .. nrSubgrids[b] - 1 :
           p = offsets[b + 1] + k + 1 /\ metadata[p].subgrid = Stored(b, k)
<1>1. Listing(offsets, metadata) /\ DOMAIN metadata = 1 .. Len(metadata)
  BY DEF OnceInv, ListInv, PlanInv, SubgridsInv
<1>2. PICK c \in Baselines : \E k \in 0 .. nrSubgrids[c] - 1 :
         c <= Len(offsets) - 1 /\ p = offsets[c + 1] + k + 1 /\ ListedAt(offsets, metadata, c, k)
  BY <1>1 DEF Listing, ListingUpTo
<1>3. PICK k \in 0 .. nrSubgrids[c] - 1 :
         p = offsets[c + 1] + k + 1 /\ ListedAt(offsets, metadata, c, k)
  BY <1>2
<1>4. c = b /\ metadata[p].subgrid = Stored(b, k)
  BY <1>3 DEF ListedAt
<1> QED BY <1>3, <1>4

(* Two subgrids of a baseline do not hold one visibility. *)
LEMMA StoredApart ==
  ASSUME OnceInv, NEW b \in Baselines, NEW k \in 0 .. nrSubgrids[b] - 1, NEW l \in 0 .. k - 1,
         NEW t \in Int, NEW channel \in Int,
         Holds(Stored(b, k), t, channel), Holds(Stored(b, l), t, channel)
  PROVE  FALSE
<1>1. RowOf(b) /\ OrderOf(b) /\ nrSubgrids[b] \in Nat
  BY DEF OnceInv, ThreadInv, ThreadOf, PlanInv, TypesInv
<1>2. l \in 0 .. nrSubgrids[b] - 1
  BY <1>1
<1> DEFINE x == Stored(b, l)
           y == Stored(b, k)
<1>3. /\ x.begin \in Nat /\ x.end \in Nat /\ x.time \in Nat /\ x.nrTimesteps \in Nat
      /\ y.begin \in Nat /\ y.end \in Nat /\ y.time \in Nat /\ y.nrTimesteps \in Nat
  BY <1>1, <1>2, StoredFields DEF OnceInv
<1>4. Precedes(x, y.begin, y.time)
  BY <1>1 DEF OrderOf
<1>5. Holds(x, t, channel) /\ Holds(y, t, channel)
  OBVIOUS
<1> HIDE DEF x, y
<1> QED BY <1>3, <1>4, <1>5 DEF Precedes, Holds

(* Each visibility of a plan is in one subgrid at most, though the threads cut
   the channel groups of a baseline at different timesteps; only measured ones
   are in one; and all that were measured are, when the plan is strict or they
   lie far enough inside the grid, wherever the subgrid that takes them ends. *)
THEOREM EachPlannedOnce ==
  ASSUME ColumnForEveryTimestep
  PROVE  Spec => []PlannedOnce
<1>1. ASSUME OnceInv, phase = "planned", NEW b \in Baselines, NEW t \in Timesteps,
             NEW channel \in 0 .. NrChannels - 1
      PROVE  LET subgrids == {k \in DOMAIN metadata : /\ metadata[k].baseline = b
                                                      /\ Holds(metadata[k].subgrid, t, channel)}
                 measured == HasData(b) /\ Measured(uvw[b], t)
             IN  /\ Cardinality(subgrids) <= 1
                 /\ subgrids # {} => measured
                 /\ measured /\ (strict \/ WellInside(uvw[b], t, channel)) => subgrids # {}
  <2> DEFINE subgrids == {k \in DOMAIN metadata : /\ metadata[k].baseline = b
                                                  /\ Holds(metadata[k].subgrid, t, channel)}
             measured == HasData(b) /\ Measured(uvw[b], t)
  <2>1. t \in Int /\ channel \in Int
    BY Channels DEF Timesteps
  <2>2. ThreadOf(b) /\ Listing(offsets, metadata) /\ PlanInv /\ Len(offsets) - 1 = NrBaselines
    BY <1>1 DEF OnceInv, ThreadInv, ListInv
  <2>3. ASSUME NEW p \in subgrids
        PROVE  \E k \in 0 .. nrSubgrids[b] - 1 :
                 p = offsets[b + 1] + k + 1 /\ Holds(Stored(b, k), t, channel)
    <3>1. p \in DOMAIN metadata /\ metadata[p].baseline = b /\ Holds(metadata[p].subgrid, t, channel)
      OBVIOUS
    <3>2. PICK k \in 0 .. nrSubgrids[b] - 1 :
             p = offsets[b + 1] + k + 1 /\ metadata[p].subgrid = Stored(b, k)
      BY <1>1, <3>1, AtPosition
    <3> QED BY <3>1, <3>2
  <2>4. ASSUME NEW p \in subgrids, NEW q \in subgrids PROVE p = q
    <3>1. PICK k \in 0 .. nrSubgrids[b] - 1 :
             p = offsets[b + 1] + k + 1 /\ Holds(Stored(b, k), t, channel)
      BY <2>3
    <3>2. PICK l \in 0 .. nrSubgrids[b] - 1 :
             q = offsets[b + 1] + l + 1 /\ Holds(Stored(b, l), t, channel)
      BY <2>3
    <3>3. k = l \/ l \in 0 .. k - 1 \/ k \in 0 .. l - 1
      OBVIOUS
    <3>4. k = l
      BY <1>1, <2>1, <3>1, <3>2, <3>3, StoredApart
    <3> QED BY <3>1, <3>2, <3>4
  <2>5. subgrids # {} => measured
    <3> SUFFICES ASSUME NEW p \in subgrids PROVE measured
      OBVIOUS
    <3>1. PICK k \in 0 .. nrSubgrids[b] - 1 : Holds(Stored(b, k), t, channel)
      BY <2>3
    <3> QED BY <2>2, <3>1, StoredFields DEF ThreadOf
  <2>6. measured /\ (strict \/ WellInside(uvw[b], t, channel)) => subgrids # {}
    <3> SUFFICES ASSUME Owed(b, t, channel) PROVE \E p : p \in subgrids
      BY DEF Owed
    <3>1. channelBegin[b] = NrChannels
      BY <1>1, <2>2 DEF ThreadOf, DoneOf, Done, Owed
    <3>2. Processed(b, t, channel)
      BY <3>1, Channels DEF Processed
    <3>3. PICK k \in 0 .. nrSubgrids[b] - 1 : Holds(Stored(b, k), t, channel)
      BY <1>1, <2>2, <3>2 DEF ThreadOf, CompleteOf
    <3>4. b \in 0 .. (Len(offsets) - 1) - 1
      BY <2>2 DEF Baselines
    <3>5. ListedAt(offsets, metadata, b, k)
      BY <2>2, <3>4 DEF Listing, ListingUpTo
    <3>6. DOMAIN metadata = 1 .. Len(metadata)
      BY <2>2 DEF PlanInv, SubgridsInv
    <3>7. offsets[b + 1] + k + 1 \in subgrids
      BY <3>3, <3>5, <3>6 DEF ListedAt
    <3> QED BY <3>7
  <2>7. Cardinality(subgrids) <= 1
    <3> HIDE DEF subgrids
    <3>1. CASE subgrids = {}
      BY <3>1, FS_EmptySet
    <3>2. ASSUME NEW p \in subgrids PROVE Cardinality(subgrids) <= 1
      <4>1. subgrids = {p}
        BY <2>4
      <4> QED BY <4>1, FS_Singleton
    <3> QED BY <3>1, <3>2
  <2> QED BY <2>5, <2>6, <2>7
<1>2. OnceInv => PlannedOnce
  BY <1>1 DEF PlannedOnce
<1> QED BY <1>2, OnceInvariant, PTL
=============================================================================
