------------------------ MODULE DegridderBufferProofs ------------------------
(***************************************************************************)
(* Proofs about the degridder's buffer, for any baselines, batch size and  *)
(* width of int: every row whose request fits is read, with what was       *)
(* predicted for it; and, in data without gaps, with its a-term, and the   *)
(* refused row fits when it is requested again.                            *)
(***************************************************************************)
EXTENDS DegridderBuffer, BufferProofs

TypesInv == TypeOK /\ OffsetsInOrder(atermOffsets)

(* The rows of this pass are at the slots of their times, until a refused
   request moves the start of the batch, which is full from then on. *)
FrontInv ==
    /\ timeindices = {} => uvw = NoUvw
    /\ \A t \in timeindices : t <= now /\ (~bufferFull => LocalTime(t, timeStart) \in Slots)
    /\ \A c \in Cells : uvw[c] # Infinite =>
         /\ uvw[c][1] = pass /\ uvw[c][2] \in timeindices
         /\ (~bufferFull => LocalTime(uvw[c][2], timeStart) = c[2])

(* There are predicted rows only while the client reads them, and the batch is
   empty then. *)
LoopInv ==
    /\ client # "reading" => dataRead /\ available = <<>>
    /\ client \in {"reading", "retrying", "end"} => timeindices = {} /\ rowCells = <<>> /\ ~bufferFull

(* The pointer of a row points to its cell. *)
RowsInv ==
    /\ \A k \in DOMAIN rowCells :
         /\ rowCells[k].row.baseline = rowCells[k].cell[1]
         /\ uvw[rowCells[k].cell] = rowCells[k].row.stamp
         /\ \E a \in accepted : a.row = rowCells[k].row
    /\ \A k \in DOMAIN available :
         OnGrid(available[k].row) => vis[available[k].cell].uvw = available[k].row.stamp

(* A row whose request fitted waits, can be read or was read. *)
KeptInv ==
    \A a \in accepted :
      \/ \E k \in DOMAIN rowCells : rowCells[k].row = a.row
      \/ \E k \in DOMAIN available : available[k].row = a.row
      \/ \E d \in delivered : d.row = a.row

DInv == TypesInv /\ FrontInv /\ LoopInv /\ RowsInv /\ KeptInv /\ PredictedWithItsUvw

-----------------------------------------------------------------------------
(* Requests. *)

LEMMA Types ==
    ASSUME TypesInv
    PROVE  /\ timeStart \in Nat /\ timeStart \in Int /\ now \in Times /\ now \in Nat
           /\ BufferTimesteps \in Nat \ {0}
           /\ timeindices \in SUBSET Times /\ \A t \in timeindices : t \in Nat
           /\ uvw \in [Cells -> StampOrNone] /\ vis \in [Cells -> Datum \cup {Zero}]
           /\ <<pass, now>> \in Stamps
           /\ rowCells \in Seq([row : Rows, cell : Cells])
           /\ available \in Seq([row : Rows, cell : Cells])
<1>1. /\ timeStart \in Nat /\ now \in Times /\ timeindices \in SUBSET Times
      /\ uvw \in [Cells -> StampOrNone] /\ vis \in [Cells -> Datum \cup {Zero}]
      /\ pass \in 0 .. MaxPasses - 1
      /\ rowCells \in Seq([row : Rows, cell : Cells])
      /\ available \in Seq([row : Rows, cell : Cells])
  BY DEF TypesInv, TypeOK, BufferTypeOK, RowCells
<1>2. now \in Nat /\ \A t \in timeindices : t \in Nat
  BY <1>1, IntRangeType DEF Times
<1>3. <<pass, now>> \in Stamps
  BY <1>1 DEF Stamps
<1> QED BY <1>1, <1>2, <1>3, IntRangeType

LEMMA RowTypes ==
    ASSUME TypesInv
    PROVE  /\ \A k \in DOMAIN rowCells : rowCells[k].row \in Rows /\ rowCells[k].cell \in Cells
           /\ \A k \in DOMAIN available : available[k].row \in Rows /\ available[k].cell \in Cells
<1> DEFINE R == [row : Rows, cell : Cells]
<1>1. rowCells \in Seq(R) /\ available \in Seq(R)
  BY Types
<1>2. \A r \in R : r.row \in Rows /\ r.cell \in Cells
  OBVIOUS
<1> HIDE DEF R
<1>3. /\ \A k \in DOMAIN rowCells : rowCells[k] \in R
      /\ \A k \in DOMAIN available : available[k] \in R
  BY <1>1
<1> QED BY <1>2, <1>3

(* A stamp is not the mark of an empty cell. *)
LEMMA StampFinite ==
    ASSUME NEW s \in Stamps
    PROVE  s # Infinite
<1>1. s[2] \in Times
  BY DEF Stamps
<1>2. s[2] \in Nat
  BY <1>1, IntRangeType DEF Times
<1>3. Infinite[2] = -1
  BY DEF Infinite
<1> QED BY <1>2, <1>3

(* The slot of a request; the start only moves when the batch is empty. *)
LEMMA RequestOffset ==
    ASSUME TypesInv, FrontInv
    PROVE  /\ Start \in Nat /\ Offset \in Nat
           /\ ~bufferFull => Start = timeStart \/ timeindices = {}
<1>1. /\ timeStart \in Nat /\ timeStart \in Int /\ now \in Times /\ now \in Nat /\ now \in Int
      /\ timeindices \in SUBSET Times /\ BufferTimesteps \in Nat \ {0}
      /\ \A t \in timeindices : t \in Nat /\ t \in Times
  BY Types
<1>2. Elapsed \in Int
  BY <1>1, LocalTimeOf DEF Elapsed
<1>3. CASE Elapsed < 0
  <2>1. Start = 0 /\ Offset = now
    BY <1>1, <1>3, LocalTimeOfFirst DEF Start, Offset
  <2>2. ASSUME ~bufferFull, NEW t \in timeindices PROVE FALSE
    <3>1. t <= now /\ LocalTime(t, timeStart) \in Slots
      BY <2>2 DEF FrontInv
    <3>2. Elapsed = LocalTime(t, timeStart) + (now - t)
      BY <1>1, <3>1, LocalTimeLater DEF Elapsed
    <3>3. LocalTime(t, timeStart) \in Nat
      BY <3>1, <1>1 DEF Slots
    <3> QED BY <1>1, <1>3, <3>1, <3>2, <3>3
  <2> QED BY <1>1, <2>1, <2>2
<1>4. CASE ~(Elapsed < 0)
  <2>1. Start = timeStart /\ Offset = Elapsed
    BY <1>4 DEF Start, Offset, Elapsed
  <2> QED BY <1>1, <1>2, <1>4, <2>1
<1> QED BY <1>3, <1>4

(* The start that a refused request leaves. *)
LEMMA NextStartType ==
    ASSUME TypesInv, FrontInv, ~(Offset < BufferTimesteps)
    PROVE  NextStart(now, Start) \in Nat
<1> DEFINE n == BufferTimesteps
           x == Offset - 1
           q == x \div n
           m == x % n
<1>1. Start \in Nat /\ Offset \in Nat /\ n \in Nat \ {0}
  BY RequestOffset, IntRangeType
<1>2. x \in Nat
  BY <1>1
<1>3. NextStart(now, Start) = Start + n * q
  BY DEF NextStart, Offset
<1> HIDE DEF x
<1>4. m \in 0 .. n - 1 /\ q \in Int /\ x = q * n + m
  BY <1>1, <1>2, Remainder
<1> HIDE DEF q, m, n
<1>5. ASSUME q <= -1 PROVE FALSE
  <2>1. q * n <= (-1) * n /\ q * n \in Int
    BY <1>1, <1>4, <1>5, Multiples
  <2> QED BY <2>1, <1>1, <1>2, <1>4
<1>6. q \in Nat
  BY <1>4, <1>5
<1>7. n * q \in Nat
  BY <1>1, <1>6
<1> QED BY <1>1, <1>3, <1>7

-----------------------------------------------------------------------------
(* What an accepted request does. *)

(* Nothing of a row that is still needed is in its cell. *)
LEMMA CellFree ==
    ASSUME DInv, NEW bl \in Baselines, RequestAccepted(bl),
           (\A a \in accepted : a.row # Row(bl)) \/ timeindices = {}
    PROVE  /\ <<bl, Offset>> \in Cells
           /\ \A k \in DOMAIN rowCells : rowCells[k].cell # <<bl, Offset>>
<1> DEFINE t == Offset
<1>1. /\ TypesInv /\ FrontInv /\ ~bufferFull /\ t < BufferTimesteps /\ t \in Nat
      /\ Start = timeStart \/ timeindices = {}
  BY RequestOffset DEF DInv, RequestAccepted, Fits
<1>2. /\ timeStart \in Int /\ now \in Times /\ timeindices \in SUBSET Times
      /\ BufferTimesteps \in Nat
  BY <1>1, Types
<1>3. t \in Slots
  BY <1>1, <1>2 DEF Slots
<1>4. ASSUME NEW k \in DOMAIN rowCells, rowCells[k].cell = <<bl, t>> PROVE FALSE
  <2> DEFINE c == <<bl, t>>
             s == uvw[c]
  <2>2. rowCells[k].row \in Rows /\ rowCells[k].cell \in Cells
    BY <1>1, RowTypes
  <2>3. rowCells[k].row.baseline = bl /\ rowCells[k].row.stamp = s
    BY <1>4 DEF DInv, RowsInv
  <2>4. s \in Stamps
    BY <2>2, <2>3 DEF Rows
  <2>5. s # Infinite
    BY <2>4, StampFinite
  <2>6. c \in Cells /\ c[2] = t
    BY <1>3 DEF Cells
  <2>7. s[1] = pass /\ s[2] \in timeindices /\ LocalTime(s[2], timeStart) = t
    BY <1>1, <2>5, <2>6 DEF FrontInv
  <2>8. Start = timeStart
    BY <1>1, <2>7
  <2>9. LocalTime(now, timeStart) = t
    BY <2>8 DEF Offset
  <2>10. s[2] = now
    BY <1>2, <2>7, <2>9, LocalTimeApart
  <2>11. s = <<pass, now>>
    BY <2>4, <2>7, <2>10 DEF Stamps
  <2> HIDE DEF s
  <2>12. rowCells[k].row = Row(bl)
    BY <2>2, <2>3, <2>11 DEF Row, Rows
  <2>13. \E a \in accepted : a.row = Row(bl)
    BY <2>12 DEF DInv, RowsInv
  <2> QED BY <2>7, <2>13
<1> QED BY <1>3, <1>4 DEF Cells

LEMMA AcceptedStep ==
    ASSUME DInv, NEW bl \in Baselines, RequestAccepted(bl),
           (\A a \in accepted : a.row # Row(bl)) \/ timeindices = {},
           client' = "requesting", refused' \in SUBSET Baselines,
           client \in {"requesting", "retrying"}
    PROVE  DInv'
<1> DEFINE c == <<bl, Offset>>
           stamp == <<pass, now>>
           new == [row |-> Row(bl), cell |-> c]
<1>1. /\ TypesInv /\ FrontInv /\ ~bufferFull
      /\ Start = timeStart \/ timeindices = {}
      /\ Start \in Nat /\ LocalTime(now, Start) = Offset
  BY RequestOffset DEF DInv, RequestAccepted, Fits, Offset
<1>2. /\ now \in Times /\ now \in Nat /\ timeindices \in SUBSET Times
      /\ \A t \in timeindices : t \in Nat
      /\ uvw \in [Cells -> StampOrNone] /\ stamp \in Stamps
      /\ rowCells \in Seq([row : Rows, cell : Cells])
  BY <1>1, Types
<1>3. c \in Cells /\ \A k \in DOMAIN rowCells : rowCells[k].cell # c
  BY CellFree
<1>4. c[1] = bl /\ c[2] = Offset /\ Offset \in Slots
  BY <1>3 DEF Cells
<1>5. /\ timeStart' = Start /\ timeindices' = timeindices \cup {now}
      /\ rowCells' = Append(rowCells, new)
      /\ uvw' = [uvw EXCEPT ![c] = stamp]
      /\ accepted' = accepted \cup {[row |-> Row(bl), aterm |-> atermSet]}
      /\ UNCHANGED <<vis, atermOffsets, aterms, now, pass, atermSet, bufferFull, dataRead,
                     available, delivered>>
  BY DEF RequestAccepted, RowAdded, atermVars, clientVars
<1>6. Row(bl) \in Rows /\ Row(bl).baseline = bl /\ Row(bl).stamp = stamp
  BY <1>2 DEF Row, Rows
<1>7. new \in [row : Rows, cell : Cells] /\ new.row = Row(bl) /\ new.cell = c
  BY <1>3, <1>6
<1>8. \A d \in Cells : uvw'[d] = IF d = c THEN stamp ELSE uvw[d]
  BY <1>2, <1>5
<1> HIDE DEF c, stamp, new
<1>9. TypesInv'
  <2>1. rowCells' \in Seq([row : Rows, cell : Cells])
    BY <1>2, <1>5, <1>7
  <2>2. uvw' \in [Cells -> StampOrNone]
    BY <1>2, <1>5 DEF StampOrNone
  <2>3. accepted' \in SUBSET [row : Rows, aterm : 0 .. MaxAterms]
    <3>1. accepted \in SUBSET [row : Rows, aterm : 0 .. MaxAterms] /\ atermSet \in 0 .. MaxAterms
      BY <1>1 DEF TypesInv, TypeOK, BufferTypeOK
    <3> QED BY <3>1, <1>5, <1>6
  <2> QED BY <1>1, <1>2, <1>5, <2>1, <2>2, <2>3 DEF TypesInv, TypeOK, BufferTypeOK, AtermsTypeOK,
          RowCells, Places
<1>10. FrontInv'
  <2>1. timeindices' # {}
    BY <1>5
  <2>2. ASSUME NEW t \in timeindices' PROVE t <= now /\ LocalTime(t, Start) \in Slots
    <3>1. CASE t = now
      BY <3>1, <1>1, <1>2, <1>4
    <3>2. CASE t # now
      BY <3>2, <1>1, <1>5 DEF FrontInv
    <3> QED BY <3>1, <3>2
  <2>3. ASSUME NEW d \in Cells, uvw'[d] # Infinite
        PROVE  /\ uvw'[d][1] = pass /\ uvw'[d][2] \in timeindices'
               /\ LocalTime(uvw'[d][2], Start) = d[2]
    <3>1. CASE d = c
      <4>1. uvw'[d][1] = pass /\ uvw'[d][2] = now
        BY <3>1, <1>8 DEF stamp
      <4> QED BY <3>1, <4>1, <1>1, <1>4, <1>5
    <3>2. CASE d # c
      <4>1. uvw'[d] = uvw[d] /\ uvw[d] # Infinite
        BY <3>2, <2>3, <1>8
      <4>2. /\ uvw[d][1] = pass /\ uvw[d][2] \in timeindices
            /\ LocalTime(uvw[d][2], timeStart) = d[2]
        BY <4>1, <1>1 DEF FrontInv
      <4> QED BY <4>1, <4>2, <1>1, <1>5
    <3> QED BY <3>1, <3>2
  <2> QED BY <2>1, <2>2, <2>3, <1>5 DEF FrontInv
<1>11. LoopInv'
  BY <1>5 DEF DInv, LoopInv
<1> DEFINE n == Len(rowCells)
<1>12. /\ n \in Nat /\ DOMAIN rowCells = 1 .. n /\ DOMAIN rowCells' = 1 .. n + 1
       /\ rowCells'[n + 1] = new /\ \A k \in 1 .. n : rowCells'[k] = rowCells[k]
  BY <1>2, <1>5, <1>7
<1> HIDE DEF n
<1>13. RowsInv'
  <2>1. ASSUME NEW k \in 1 .. n + 1
        PROVE  /\ rowCells'[k].row.baseline = rowCells'[k].cell[1]
               /\ uvw'[rowCells'[k].cell] = rowCells'[k].row.stamp
               /\ \E a \in accepted' : a.row = rowCells'[k].row
    <3>1. CASE k = n + 1
      <4>1. rowCells'[k].row = Row(bl) /\ rowCells'[k].cell = c
        BY <3>1, <1>7, <1>12
      <4>2. [row |-> Row(bl), aterm |-> atermSet] \in accepted'
        BY <1>5
      <4> QED BY <4>1, <4>2, <1>3, <1>4, <1>6, <1>8
    <3>2. CASE k # n + 1
      <4>1. k \in DOMAIN rowCells /\ rowCells'[k] = rowCells[k]
        BY <3>2, <1>12
      <4>2. rowCells[k].cell \in Cells /\ rowCells[k].cell # c
        BY <4>1, <1>1, <1>3, RowTypes
      <4>3. /\ rowCells[k].row.baseline = rowCells[k].cell[1]
            /\ uvw[rowCells[k].cell] = rowCells[k].row.stamp
            /\ \E a \in accepted : a.row = rowCells[k].row
        BY <4>1 DEF DInv, RowsInv
      <4> QED BY <4>1, <4>2, <4>3, <1>5, <1>8
    <3> QED BY <3>1, <3>2
  <2> QED BY <2>1, <1>5, <1>12 DEF DInv, RowsInv, OnGrid
<1>14. KeptInv'
  <2> SUFFICES ASSUME NEW a \in accepted'
               PROVE  \/ \E k \in 1 .. n + 1 : rowCells'[k].row = a.row
                      \/ \E k \in DOMAIN available : available[k].row = a.row
                      \/ \E d \in delivered : d.row = a.row
    BY <1>5, <1>12 DEF KeptInv
  <2>1. CASE a \in accepted
    <3>1. CASE \E k \in DOMAIN rowCells : rowCells[k].row = a.row
      BY <3>1, <1>12
    <3> QED BY <2>1, <3>1 DEF DInv, KeptInv
  <2>2. CASE a \notin accepted
    <3>1. a.row = Row(bl)
      BY <2>2, <1>5
    <3> QED BY <3>1, <1>7, <1>12
  <2> QED BY <2>1, <2>2
<1>15. PredictedWithItsUvw'
  BY <1>5 DEF DInv, PredictedWithItsUvw, OnGrid
<1> QED BY <1>9, <1>10, <1>11, <1>13, <1>14, <1>15 DEF DInv

-----------------------------------------------------------------------------
(* The other steps. *)

(* A refused request changes the start of the batch at most. *)
LEMMA RefusedStep ==
    ASSUME DInv, RequestRefused, refused' \in SUBSET Baselines,
           client \in {"requesting", "retrying"},
           client' \in {"requesting", "refused"}
    PROVE  DInv'
<1>1. /\ TypesInv /\ FrontInv /\ dataRead /\ available = <<>>
  BY DEF DInv, LoopInv
<1>2. /\ timeStart' \in Nat /\ bufferFull'
      /\ UNCHANGED <<timeindices, uvw, vis, atermOffsets, aterms, now, pass, atermSet, dataRead,
                     rowCells, available, accepted, delivered>>
  <2>1. UNCHANGED <<timeindices, uvw, vis, atermOffsets, aterms, now, pass, atermSet, dataRead,
                     rowCells, available, accepted, delivered>>
    BY DEF RequestRefused, atermVars, clientVars
  <2>2. CASE bufferFull
    BY <2>2, <2>1, <1>1, Types DEF RequestRefused
  <2>3. CASE ~bufferFull
    <3>1. ~(Offset < BufferTimesteps) /\ timeStart' = NextStart(now, Start) /\ bufferFull'
      BY <2>3 DEF RequestRefused, Fits
    <3> QED BY <3>1, <2>1, <1>1, NextStartType
  <2> QED BY <2>2, <2>3
<1>3. bufferFull' \in BOOLEAN
  BY DEF RequestRefused, DInv, TypesInv, TypeOK
<1>4. TypesInv'
  BY <1>2, <1>3 DEF DInv, TypesInv, TypeOK, BufferTypeOK, AtermsTypeOK, Places
<1>5. FrontInv'
  BY <1>2 DEF DInv, FrontInv
<1>6. LoopInv'
  BY <1>1, <1>2 DEF LoopInv
<1>7. RowsInv' /\ KeptInv' /\ PredictedWithItsUvw'
  BY <1>2 DEF DInv, RowsInv, KeptInv, PredictedWithItsUvw, OnGrid
<1> QED BY <1>4, <1>5, <1>6, <1>7 DEF DInv

(* What is predicted. *)
LEMMA PredictedType ==
    ASSUME TypesInv
    PROVE  Predicted \in [Cells -> Datum \cup {Zero}]
<1>1. /\ uvw \in [Cells -> StampOrNone] /\ vis \in [Cells -> Datum \cup {Zero}]
  BY Types
<1>2. ASSUME NEW c \in Cells, Planned(c)
      PROVE  [uvw |-> uvw[c], aterm |-> aterms[AtermIndex(atermOffsets, c[2])]] \in Datum
  <2>1. uvw[c] \in Stamps
    BY <1>1, <1>2 DEF Planned, StampOrNone
  <2>2. AtermsTypeOK(atermOffsets, aterms) /\ OffsetsInOrder(atermOffsets) /\ c[2] \in Slots
    BY DEF TypesInv, TypeOK, BufferTypeOK, Cells
  <2>3. AtermIndex(atermOffsets, c[2]) \in 1 .. Len(aterms)
    <3>1. AtermIndex(atermOffsets, c[2]) \in 1 .. Len(atermOffsets) - 1
      BY <2>2, AtermIndexOf
    <3>2. Len(aterms) \in Nat /\ Len(atermOffsets) = Len(aterms) + 1
      BY <2>2, LastPlaces
    <3> QED BY <3>1, <3>2
  <2>4. aterms[AtermIndex(atermOffsets, c[2])] \in 0 .. MaxAterms
    BY <2>2, <2>3, LastPlaces
  <2> QED BY <2>1, <2>4 DEF Datum
<1> QED BY <1>1, <1>2 DEF Predicted

(* compute() *)
LEMMA ComputeStep ==
    ASSUME DInv, Compute
    PROVE  DInv'
<1>1. /\ TypesInv /\ FrontInv /\ dataRead /\ available = <<>> /\ RowsInv /\ KeptInv
      /\ bufferFull' = FALSE /\ available' = rowCells /\ rowCells' = <<>> /\ client' = "reading"
      /\ UNCHANGED <<now, pass, atermSet, refused, accepted, delivered>>
  BY DEF DInv, LoopInv, Compute, clientVars
<1>2. DOMAIN rowCells' = {} /\ rowCells' \in Seq([row : Rows, cell : Cells])
  BY <1>1
<1>3. PredictedWithItsUvw'
  BY <1>1 DEF DInv, PredictedWithItsUvw, OnGrid
<1>4. KeptInv'
  <2>1. DOMAIN available = {}
    BY <1>1
  <2> SUFFICES ASSUME NEW a \in accepted
               PROVE  \/ \E k \in DOMAIN rowCells : rowCells[k].row = a.row
                      \/ \E d \in delivered : d.row = a.row
    BY <1>1 DEF KeptInv
  <2> QED BY <1>1, <2>1 DEF KeptInv
<1>5. CASE timeindices = {}
  <2>1. UNCHANGED <<timeStart, timeindices, uvw, vis, atermOffsets, aterms, dataRead>>
    BY <1>5 DEF Compute, Flush, NothingToFlush, frontVars, batchVars, atermVars
  <2>2. TypesInv'
    BY <1>1, <1>2, <2>1 DEF TypesInv, TypeOK, BufferTypeOK, AtermsTypeOK, RowCells, Places
  <2>3. DOMAIN rowCells = {}
    <3> SUFFICES ASSUME NEW k \in DOMAIN rowCells PROVE FALSE
      OBVIOUS
    <3>1. rowCells[k].cell \in Cells /\ rowCells[k].row.stamp \in Stamps
      BY <1>1, RowTypes DEF Rows
    <3>2. uvw[rowCells[k].cell] = Infinite
      BY <1>1, <1>5, <3>1 DEF FrontInv, NoUvw
    <3> QED BY <1>1, <3>1, <3>2, StampFinite DEF RowsInv
  <2>4. FrontInv'
    BY <1>1, <1>5, <2>1 DEF FrontInv, NoUvw
  <2>5. LoopInv'
    BY <1>1, <1>5, <2>1 DEF LoopInv
  <2>6. RowsInv'
    BY <1>1, <1>2, <2>1, <2>3 DEF RowsInv
  <2> QED BY <1>3, <1>4, <2>2, <2>4, <2>5, <2>6 DEF DInv
<1>6. CASE timeindices # {}
  <2>1. /\ vis' = Predicted /\ timeStart' = timeStart + BufferTimesteps
        /\ timeindices' = {} /\ uvw' = NoUvw
        /\ atermOffsets' = DefaultOffsets /\ aterms' = <<LastAterm>> /\ dataRead' = FALSE
    BY <1>1, <1>6 DEF Compute, Flush, NothingToFlush, AtermsAfterFlush
  <2>2. TypesInv'
    <3>1. vis' \in [Cells -> Datum \cup {Zero}] /\ uvw' \in [Cells -> StampOrNone]
      BY <1>1, <2>1, PredictedType DEF NoUvw, StampOrNone
    <3>2. timeStart' \in Nat
      BY <1>1, <2>1, Types
    <3>3. AtermsTypeOK(DefaultOffsets, <<LastAterm>>)
      <4>1. LastAterm \in 0 .. MaxAterms
        BY <1>1, LastPlaces DEF TypesInv, TypeOK, BufferTypeOK
      <4> QED BY <4>1, DefaultType
    <3>4. AtermsTypeOK(atermOffsets', aterms') /\ OffsetsInOrder(atermOffsets')
      BY <2>1, <3>3, DefaultInOrder
    <3> QED BY <1>1, <1>2, <2>1, <3>1, <3>2, <3>4 DEF TypesInv, TypeOK, BufferTypeOK, RowCells,
            Places
  <2>3. FrontInv'
    BY <2>1 DEF FrontInv, NoUvw
  <2>4. LoopInv'
    BY <1>1, <2>1 DEF LoopInv
  <2>5. RowsInv'
    <3>1. ASSUME NEW k \in DOMAIN rowCells, OnGrid(rowCells[k].row)
          PROVE  Predicted[rowCells[k].cell].uvw = rowCells[k].row.stamp
      <4>1. rowCells[k].cell \in Cells /\ rowCells[k].row.stamp \in Stamps
        BY <1>1, RowTypes DEF Rows
      <4>2. uvw[rowCells[k].cell] = rowCells[k].row.stamp
        BY <1>1 DEF RowsInv
      <4>3. Planned(rowCells[k].cell)
        BY <3>1, <4>1, <4>2, StampFinite DEF Planned, OnGrid
      <4> QED BY <4>1, <4>2, <4>3 DEF Predicted
    <3> QED BY <1>1, <1>2, <2>1, <3>1 DEF RowsInv, OnGrid
  <2> QED BY <1>3, <1>4, <2>2, <2>3, <2>4, <2>5 DEF DInv
<1> QED BY <1>5, <1>6

(* The client reads. *)
LEMMA ReadStep ==
    ASSUME DInv, Read
    PROVE  DInv'
<1> DEFINE D(k) == [row |-> available[k].row, data |-> vis[available[k].cell]]
<1>1. /\ TypesInv /\ LoopInv /\ RowsInv /\ timeindices = {} /\ ~bufferFull
      /\ delivered' = delivered \cup {D(k) : k \in DOMAIN available}
      /\ available' = <<>> /\ rowCells' = <<>> /\ dataRead' = TRUE
      /\ client' \in {"retrying", "end"}
      /\ UNCHANGED <<timeStart, timeindices, uvw, vis, atermOffsets, aterms, now, pass, atermSet,
                     bufferFull, refused, accepted>>
  BY DEF DInv, LoopInv, Read, bufferVars, frontVars, batchVars, atermVars, clientVars
<1>2. ASSUME NEW k \in DOMAIN available
      PROVE  /\ D(k) \in [row : Rows, data : Datum \cup {Zero}]
             /\ D(k).row = available[k].row
             /\ OnGrid(D(k).row) => D(k).data.uvw = D(k).row.stamp
  <2>1. available[k].row \in Rows /\ available[k].cell \in Cells
    BY <1>1, RowTypes
  <2>2. vis \in [Cells -> Datum \cup {Zero}]
    BY <1>1, Types
  <2> QED BY <1>1, <2>1, <2>2 DEF RowsInv
<1> HIDE DEF D
<1>3. TypesInv'
  <2>1. delivered' \in SUBSET [row : Rows, data : Datum \cup {Zero}]
    BY <1>1, <1>2 DEF TypesInv, TypeOK
  <2>2. <<>> \in RowCells
    BY DEF RowCells
  <2> QED BY <1>1, <2>1, <2>2 DEF TypesInv, TypeOK, BufferTypeOK, AtermsTypeOK, Places
<1>4. FrontInv' /\ LoopInv'
  BY <1>1 DEF DInv, FrontInv, LoopInv
<1>5. RowsInv'
  BY <1>1 DEF RowsInv
<1>6. PredictedWithItsUvw'
  BY <1>1, <1>2 DEF DInv, PredictedWithItsUvw, OnGrid
<1>7. KeptInv'
  <2> SUFFICES ASSUME NEW a \in accepted PROVE \E d \in delivered' : d.row = a.row
    BY <1>1 DEF KeptInv
  <2>1. DOMAIN rowCells = {}
    BY DEF DInv, LoopInv, Read
  <2>2. CASE \E k \in DOMAIN available : available[k].row = a.row
    BY <2>2, <1>1, <1>2
  <2>3. CASE \E d \in delivered : d.row = a.row
    BY <2>3, <1>1
  <2> QED BY <2>1, <2>2, <2>3 DEF DInv, KeptInv
<1> QED BY <1>3, <1>4, <1>5, <1>6, <1>7 DEF DInv

(* Time goes on, a pass starts, an a-term is set. *)
LEMMA OtherStep ==
    ASSUME DInv, UNCHANGED <<timeStart, timeindices, uvw, vis, replyVars, refused, accepted, delivered>>,
           AtermsTypeOK(atermOffsets', aterms'), OffsetsInOrder(atermOffsets'),
           atermSet' \in 0 .. MaxAterms, now' \in Times, pass' \in 0 .. MaxPasses - 1,
           (now <= now' /\ pass' = pass) \/ timeindices = {},
           client' = client \/ (client = "end" /\ client' = "requesting")
    PROVE  DInv'
<1>1. now \in Nat /\ now' \in Nat /\ \A t \in timeindices : t \in Nat
  BY Types, IntRangeType DEF DInv, Times
<1>2. TypesInv'
  BY DEF DInv, TypesInv, TypeOK, BufferTypeOK, replyVars, Places
<1>3. FrontInv'
  <2>1. FrontInv /\ UNCHANGED <<timeStart, timeindices, uvw, bufferFull>>
    BY DEF DInv, replyVars
  <2>2. CASE timeindices = {}
    BY <2>1, <2>2 DEF FrontInv, NoUvw
  <2>3. CASE timeindices # {}
    <3>1. now <= now' /\ pass' = pass
      BY <2>3
    <3>2. \A t \in timeindices : t <= now' /\ (~bufferFull => LocalTime(t, timeStart) \in Slots)
      BY <1>1, <2>1, <3>1 DEF FrontInv
    <3> QED BY <2>1, <2>3, <3>1, <3>2 DEF FrontInv
  <2> QED BY <2>2, <2>3
<1>4. LoopInv'
  BY DEF DInv, LoopInv, replyVars
<1>5. RowsInv' /\ KeptInv' /\ PredictedWithItsUvw'
  BY DEF DInv, RowsInv, KeptInv, PredictedWithItsUvw, OnGrid, replyVars
<1> QED BY <1>2, <1>3, <1>4, <1>5 DEF DInv

LEMMA DInitially == Init => DInv
<1> SUFFICES ASSUME Init PROVE DInv
  OBVIOUS
<1>1. /\ timeStart = 0 /\ timeindices = {} /\ uvw = NoUvw /\ vis = [cell \in Cells |-> Zero]
      /\ atermOffsets = DefaultOffsets /\ aterms = <<0>>
      /\ now = 0 /\ pass = 0 /\ atermSet = 0
      /\ bufferFull = FALSE /\ dataRead = TRUE /\ rowCells = <<>> /\ available = <<>>
      /\ client = "requesting" /\ refused = {} /\ accepted = {} /\ delivered = {}
  BY DEF Init, BufferInit
<1>2. AtermsTypeOK(atermOffsets, aterms) /\ OffsetsInOrder(atermOffsets)
  BY <1>1, BufferAssumption, DefaultType, DefaultInOrder
<1>3. uvw \in [Cells -> StampOrNone] /\ vis \in [Cells -> Datum \cup {Zero}]
  BY <1>1 DEF NoUvw, StampOrNone
<1>4. now \in Times /\ pass \in 0 .. MaxPasses - 1 /\ atermSet \in 0 .. MaxAterms
  BY <1>1, BufferAssumption DEF Times
<1>5. TypesInv
  <2>1. rowCells \in RowCells /\ available \in RowCells
    BY <1>1 DEF RowCells
  <2>2. timeStart \in Nat /\ timeindices \in SUBSET Times
    BY <1>1
  <2>3. BufferTypeOK(Datum \cup {Zero})
    BY <1>2, <1>3, <1>4, <2>2 DEF BufferTypeOK
  <2> QED BY <1>1, <1>2, <2>1, <2>3 DEF TypesInv, TypeOK, Places
<1>6. FrontInv
  BY <1>1 DEF FrontInv, NoUvw
<1> QED BY <1>1, <1>5, <1>6 DEF DInv, LoopInv, RowsInv, KeptInv, PredictedWithItsUvw

LEMMA DStep == DInv /\ [Next]_vars => DInv'
<1> SUFFICES ASSUME DInv, [Next]_vars PROVE DInv'
  OBVIOUS
<1>1. /\ TypesInv /\ FrontInv /\ LoopInv
      /\ now \in Times /\ pass \in 0 .. MaxPasses - 1 /\ atermSet \in 0 .. MaxAterms
      /\ AtermsTypeOK(atermOffsets, aterms) /\ OffsetsInOrder(atermOffsets)
      /\ refused \in SUBSET Baselines
  BY DEF DInv, TypesInv, TypeOK, BufferTypeOK
<1>2. ASSUME NEW bl \in Baselines, Request(bl) PROVE DInv'
  <2>1. CASE RequestAccepted(bl) /\ UNCHANGED <<client, refused>>
    BY <1>1, <1>2, <2>1, AcceptedStep DEF Request
  <2>2. CASE RequestRefused /\ client' = "refused" /\ refused' = {bl}
    BY <1>2, <2>2, RefusedStep DEF Request
  <2> QED BY <1>2, <2>1, <2>2 DEF Request
<1>3. ASSUME NEW bl \in Baselines, Retry(bl) PROVE DInv'
  <2>1. client = "retrying" /\ client' = "requesting" /\ refused' \in SUBSET Baselines
    BY <1>3 DEF Retry
  <2>2. timeindices = {}
    BY <1>1, <2>1 DEF LoopInv
  <2>3. CASE RequestAccepted(bl)
    BY <2>1, <2>2, <2>3, AcceptedStep
  <2>4. CASE RequestRefused
    BY <2>1, <2>4, RefusedStep
  <2> QED BY <1>3, <2>3, <2>4 DEF Retry
<1>4. CASE NextTime
  <2>1. /\ now' \in Times /\ now <= now'
        /\ UNCHANGED <<timeStart, timeindices, uvw, vis, atermOffsets, aterms, pass, atermSet,
                       replyVars, client, refused, accepted, delivered>>
    BY <1>1, <1>4, IntRangeType DEF NextTime, Times, frontVars, batchVars, atermVars
  <2> QED BY <1>1, <2>1, OtherStep
<1>5. CASE NextPass
  <2>1. /\ now' \in Times /\ pass' \in 0 .. MaxPasses - 1
        /\ client = "end" /\ client' = "requesting"
        /\ UNCHANGED <<timeStart, timeindices, uvw, vis, atermOffsets, aterms, atermSet,
                       replyVars, refused, accepted, delivered>>
    BY <1>1, <1>5, BufferAssumption DEF NextPass, Times, frontVars, batchVars, atermVars
  <2>2. timeindices = {}
    BY <1>1, <2>1 DEF LoopInv
  <2> QED BY <1>1, <2>1, <2>2, OtherStep
<1>6. CASE SetAterm
  <2>1. SetAtermNow /\ UNCHANGED <<replyVars, client, refused, accepted, delivered>>
    BY <1>6 DEF SetAterm
  <2>2. /\ atermSet' \in 0 .. MaxAterms /\ OffsetsInOrder(atermOffsets')
        /\ AtermsTypeOK(atermOffsets', aterms')
    BY <1>1, <2>1, SetAtermResult DEF AtermsTypeOK, OffsetsInOrder
  <2>3. UNCHANGED <<timeStart, timeindices, uvw, vis, now, pass>>
    BY <2>1 DEF SetAtermNow, batchVars
  <2>4. now <= now' /\ pass' = pass
    BY <1>1, <2>3, Types
  <2> QED BY <1>1, <2>1, <2>2, <2>3, <2>4, OtherStep
<1>7. CASE Compute
  BY <1>7, ComputeStep
<1>8. CASE Read
  BY <1>8, ReadStep
<1>9. CASE UNCHANGED vars
  <2>1. /\ UNCHANGED <<timeStart, timeindices, uvw, vis, atermOffsets, aterms, now, pass, atermSet,
                       replyVars, client, refused, accepted, delivered>>
    BY <1>9 DEF vars, bufferVars, frontVars, batchVars, atermVars, clientVars
  <2>2. now <= now'
    BY <1>1, <2>1, Types
  <2> QED BY <1>1, <2>1, <2>2, OtherStep
<1> QED BY <1>2, <1>3, <1>4, <1>5, <1>6, <1>7, <1>8, <1>9 DEF Next

(* The variables keep their types: pointers point into the buffer and a-terms
   that are looked up exist, whatever the time indices, also with gaps. *)
THEOREM TypesAlwaysOK == Spec => []TypeOK
<1>1. DInv => TypeOK
  BY DEF DInv, TypesInv
<1> QED BY <1>1, DInitially, DStep, PTL DEF Spec

(* A row that is on the grid is read as what was predicted for its own uvw. *)
THEOREM ReadsItsUvw == Spec => []PredictedWithItsUvw
<1>1. DInv => PredictedWithItsUvw
  BY DEF DInv
<1> QED BY <1>1, DInitially, DStep, PTL DEF Spec

(* No row whose request fitted is lost before it is read. *)
THEOREM AllRowsRead == Spec => []NoRowLost
<1>1. ASSUME DInv PROVE NoRowLost
  <2>1. KeptInv /\ RowsInv
    BY <1>1 DEF DInv
  <2>2. ASSUME NEW a \in accepted
        PROVE  \/ \E k \in DOMAIN rowCells :
                    rowCells[k].row = a.row /\ uvw[rowCells[k].cell] = a.row.stamp
               \/ \E k \in DOMAIN available :
                    /\ available[k].row = a.row
                    /\ OnGrid(a.row) => vis[available[k].cell].uvw = a.row.stamp
               \/ \E d \in delivered : d.row = a.row
    BY <2>1 DEF KeptInv, RowsInv
  <2> QED BY <2>2 DEF NoRowLost
<1> QED BY <1>1, DInitially, DStep, PTL DEF Spec

-----------------------------------------------------------------------------
(* Data without gaps. *)

AcceptedNow == \E a \in accepted : a.row.stamp = <<pass, now>>

(* The time is in the batch or just past it, and only the time just past it is
   refused; then the flush starts the next batch at that time. *)
GapInv ==
    /\ timeStart <= MaxTime + BufferTimesteps
    /\ \A a \in accepted :
         a.row.stamp[1] <= pass /\ (a.row.stamp[1] = pass => a.row.stamp[2] <= now)
    /\ client = "requesting" =>
         /\ ~bufferFull /\ refused = {}
         /\ timeindices = {} => now = 0 /\ ~AcceptedNow
         /\ timeindices # {} =>
              /\ timeStart <= now /\ now <= timeStart + BufferTimesteps
              /\ now = timeStart + BufferTimesteps => ~AcceptedNow
    /\ client = "refused" =>
         /\ timeindices # {} /\ now = timeStart + BufferTimesteps
         /\ ~AcceptedNow /\ refused # {}
    /\ client = "retrying" \/ (client = "reading" /\ refused # {}) =>
         timeStart = now /\ ~AcceptedNow
    /\ client = "end" => refused = {}

EInv == DInv /\ GapInv

(* The int does not wrap around. *)
LEMMA GapOffset ==
    ASSUME TypesInv, timeStart <= MaxTime + BufferTimesteps
    PROVE  /\ LocalTime(now, timeStart) = now - timeStart
           /\ Start = IF now < timeStart THEN 0 ELSE timeStart
           /\ Offset = now - Start
<1>1. /\ timeStart \in Nat /\ timeStart \in Int /\ now \in Times /\ now \in Nat /\ now \in Int
      /\ now <= MaxTime /\ MaxTime \in Nat /\ BufferTimesteps \in Nat \ {0}
      /\ IntRange \in Nat /\ 2 * (MaxTime + BufferTimesteps) <= IntRange
  BY Types, IntRangeType DEF Times
<1>2. PICK t \in Int : t = now - timeStart
  BY <1>1
<1>3. /\ now - timeStart = 0 * IntRange + t /\ 0 \in Int
       /\ 2 * t < IntRange /\ -IntRange <= 2 * t
  BY <1>1, <1>2
<1>4. LocalTime(now, timeStart) = now - timeStart
  <2>1. LocalTime(now, timeStart) = t
    BY <1>1, <1>3, LocalTimeUnique
  <2> QED BY <1>2, <2>1
<1>5. LocalTime(now, 0) = now
  BY <1>1, LocalTimeOfFirst
<1>6. Elapsed = now - timeStart
  BY <1>4 DEF Elapsed
<1>7. Start = IF now < timeStart THEN 0 ELSE timeStart
  BY <1>1, <1>6 DEF Start
<1>8. Offset = now - Start
  BY <1>1, <1>4, <1>5, <1>7 DEF Offset
<1> QED BY <1>4, <1>7, <1>8

(* In the first slot past the batch the start of the batch stays. *)
LEMMA NextStartStays ==
    ASSUME NEW start \in Nat, LocalTime(now, start) = BufferTimesteps
    PROVE  NextStart(now, start) = start
<1> DEFINE n == BufferTimesteps
           x == n - 1
           q == x \div n
           m == x % n
<1>1. n \in Nat \ {0}
  BY IntRangeType
<1>2. x \in Int
  BY <1>1
<1>3. NextStart(now, start) = start + n * q
  BY DEF NextStart
<1> HIDE DEF q, m, n
<1>4. m \in 0 .. n - 1 /\ q \in Int /\ x = q * n + m
  BY <1>1, <1>2, Remainder DEF q, m
<1>5. q * n - 0 * n < n /\ 0 * n - q * n < n
  BY <1>1, <1>4
<1>6. q = 0
  BY <1>1, <1>4, <1>5, MultiplesApart
<1> QED BY <1>1, <1>3, <1>6

(* An accepted request. *)
LEMMA GapAccepted ==
    ASSUME EInv, NEW bl \in Baselines, RequestAccepted(bl),
           client \in {"requesting", "retrying"}, client' = "requesting", refused' = {}
    PROVE  GapInv'
<1>1. /\ TypesInv /\ timeStart <= MaxTime + BufferTimesteps
      /\ now \in Nat /\ timeStart \in Nat /\ BufferTimesteps \in Nat \ {0} /\ MaxTime \in Nat
      /\ now <= MaxTime
  BY Types, IntRangeType DEF EInv, DInv, GapInv, Times
<1>2. /\ Start \in Nat /\ Start <= now /\ Offset = now - Start /\ Offset < BufferTimesteps
      /\ ~bufferFull
  BY <1>1, GapOffset DEF RequestAccepted, Fits
<1>3. /\ timeStart' = Start /\ timeindices' # {} /\ UNCHANGED <<now, pass, bufferFull>>
      /\ accepted' = accepted \cup {[row |-> Row(bl), aterm |-> atermSet]}
  BY DEF RequestAccepted, clientVars
<1>4. ASSUME NEW a \in accepted'
      PROVE  a.row.stamp[1] <= pass /\ (a.row.stamp[1] = pass => a.row.stamp[2] <= now)
  <2>1. CASE a \in accepted
    BY <2>1 DEF EInv, GapInv
  <2>2. CASE a \notin accepted
    <3>1. a.row.stamp = <<pass, now>>
      BY <2>2, <1>3 DEF Row
    <3>2. pass \in Nat
      BY BufferAssumption DEF EInv, DInv, TypesInv, TypeOK, BufferTypeOK
    <3> QED BY <3>1, <3>2, <1>1
  <2> QED BY <2>1, <2>2
<1>5. Start <= MaxTime + BufferTimesteps /\ now < Start + BufferTimesteps
  BY <1>1, <1>2
<1>6. now <= Start + BufferTimesteps /\ now # Start + BufferTimesteps
  BY <1>1, <1>2, <1>5
<1> QED BY <1>2, <1>3, <1>4, <1>5, <1>6 DEF GapInv

(* A refused request. *)
LEMMA GapRefused ==
    ASSUME EInv, RequestRefused, client = "requesting"
    PROVE  /\ Offset = BufferTimesteps /\ timeindices # {}
           /\ now = timeStart + BufferTimesteps /\ timeStart' = timeStart
<1>1. /\ TypesInv /\ FrontInv /\ timeStart <= MaxTime + BufferTimesteps
      /\ now \in Nat /\ timeStart \in Nat /\ BufferTimesteps \in Nat \ {0}
      /\ ~bufferFull
      /\ timeindices = {} => now = 0
      /\ timeindices # {} => timeStart <= now /\ now <= timeStart + BufferTimesteps
  BY Types DEF EInv, DInv, GapInv
<1>2. /\ Start = IF now < timeStart THEN 0 ELSE timeStart
      /\ Offset = now - Start
  BY <1>1, GapOffset
<1>3. ~(Offset < BufferTimesteps) /\ timeStart' = NextStart(now, Start)
  BY <1>1 DEF RequestRefused, Fits
<1>4. timeindices # {}
  BY <1>1, <1>2, <1>3
<1>5. Start = timeStart /\ now - timeStart = BufferTimesteps
  BY <1>1, <1>2, <1>3, <1>4
<1>6. LocalTime(now, Start) = BufferTimesteps
  BY <1>1, <1>2, <1>5 DEF Offset
<1>7. NextStart(now, Start) = Start
  BY <1>1, <1>5, <1>6, NextStartStays
<1> QED BY <1>1, <1>2, <1>3, <1>4, <1>5, <1>7

(* When it is requested again it fits. *)
LEMMA RetryFits ==
    ASSUME EInv, client = "retrying"
    PROVE  Fits
<1>1. /\ TypesInv /\ ~bufferFull /\ timeStart = now /\ timeStart <= MaxTime + BufferTimesteps
      /\ now \in Nat /\ BufferTimesteps \in Nat \ {0}
  BY Types DEF EInv, DInv, GapInv, LoopInv
<1>2. Offset = 0
  BY <1>1, GapOffset
<1> QED BY <1>1, <1>2 DEF Fits

LEMMA GapCompute ==
    ASSUME EInv, Compute
    PROVE  GapInv'
<1>1. /\ TypesInv /\ dataRead /\ timeStart <= MaxTime + BufferTimesteps
      /\ now \in Nat /\ timeStart \in Nat /\ BufferTimesteps \in Nat \ {0} /\ MaxTime \in Nat
      /\ now <= MaxTime /\ client \in {"requesting", "refused"}
      /\ client' = "reading" /\ UNCHANGED <<now, pass, refused, accepted>>
  BY Types, IntRangeType DEF EInv, DInv, GapInv, LoopInv, Compute, clientVars, Times
<1>2. CASE client = "requesting"
  <2>1. refused' = {}
    BY <1>1, <1>2 DEF EInv, GapInv
  <2>2. timeStart' <= MaxTime + BufferTimesteps
    <3>1. CASE timeindices = {}
      BY <1>1, <3>1 DEF Compute, Flush, NothingToFlush, frontVars, batchVars
    <3>2. CASE timeindices # {}
      <4>1. timeStart' = timeStart + BufferTimesteps
        BY <1>1, <3>2 DEF Compute, Flush, NothingToFlush
      <4>2. timeStart <= now
        BY <1>2, <3>2 DEF EInv, GapInv
      <4> QED BY <1>1, <4>1, <4>2
    <3> QED BY <3>1, <3>2
  <2> QED BY <1>1, <2>1, <2>2 DEF EInv, GapInv
<1>3. CASE client = "refused"
  <2>1. timeindices # {} /\ now = timeStart + BufferTimesteps /\ ~AcceptedNow
    BY <1>3 DEF EInv, GapInv
  <2>2. timeStart' = now
    BY <1>1, <2>1 DEF Compute, Flush, NothingToFlush
  <2>3. timeStart' <= MaxTime + BufferTimesteps
    BY <1>1, <2>2
  <2>4. ~AcceptedNow'
    BY <1>1, <2>1 DEF AcceptedNow
  <2> QED BY <1>1, <2>2, <2>3, <2>4 DEF EInv, GapInv
<1> QED BY <1>1, <1>2, <1>3

LEMMA GapInitially == Init => GapInv
<1> SUFFICES ASSUME Init PROVE GapInv
  OBVIOUS
<1>1. /\ timeStart = 0 /\ timeindices = {} /\ now = 0 /\ bufferFull = FALSE
      /\ client = "requesting" /\ refused = {} /\ accepted = {}
  BY DEF Init, BufferInit
<1> QED BY <1>1, IntRangeType DEF GapInv, AcceptedNow

LEMMA GapStep == ~TimeGaps /\ EInv /\ [Next]_vars => EInv'
<1> SUFFICES ASSUME ~TimeGaps, EInv, [Next]_vars PROVE GapInv'
  BY DStep DEF EInv
<1>1. /\ TypesInv /\ GapInv /\ LoopInv /\ now \in Nat /\ pass \in Nat /\ timeStart \in Nat
      /\ BufferTimesteps \in Nat
      /\ \A a \in accepted : a.row.stamp[1] \in Nat /\ a.row.stamp[2] \in Nat
  <2>1. /\ TypesInv /\ GapInv /\ LoopInv /\ now \in Nat /\ timeStart \in Nat /\ BufferTimesteps \in Nat
    BY Types DEF EInv, DInv
  <2>2. pass \in Nat
    BY <2>1, BufferAssumption DEF TypesInv, TypeOK, BufferTypeOK
  <2>3. \A a \in accepted : a.row.stamp[1] \in Nat /\ a.row.stamp[2] \in Nat
    BY <2>1, IntRangeType, BufferAssumption DEF TypesInv, TypeOK, Rows, Stamps, Times
  <2> QED BY <2>1, <2>2, <2>3
<1>2. ASSUME NEW bl \in Baselines, Request(bl) PROVE GapInv'
  <2>1. client = "requesting" /\ refused = {}
    BY <1>1, <1>2 DEF Request, GapInv
  <2>2. CASE RequestAccepted(bl) /\ UNCHANGED <<client, refused>>
    BY <2>1, <2>2, GapAccepted
  <2>3. CASE RequestRefused /\ client' = "refused" /\ refused' = {bl}
    <3>1. /\ timeindices # {} /\ now = timeStart + BufferTimesteps /\ timeStart' = timeStart
      BY <2>1, <2>3, GapRefused
    <3>2. UNCHANGED <<timeindices, now, pass, accepted>>
      BY <2>3 DEF RequestRefused, clientVars
    <3>3. ~AcceptedNow
      BY <1>1, <2>1, <3>1 DEF GapInv
    <3>4. ~AcceptedNow'
      BY <3>2, <3>3 DEF AcceptedNow
    <3> QED BY <1>1, <2>3, <3>1, <3>2, <3>4 DEF GapInv
  <2> QED BY <1>2, <2>2, <2>3 DEF Request
<1>3. ASSUME NEW bl \in Baselines, Retry(bl) PROVE GapInv'
  <2>1. client = "retrying" /\ client' = "requesting" /\ refused' = {}
    BY <1>3 DEF Retry
  <2>2. RequestAccepted(bl)
    BY <1>3, <2>1, RetryFits DEF Retry, RequestRefused
  <2> QED BY <2>1, <2>2, GapAccepted
<1>4. CASE NextTime
  <2>1. /\ client = "requesting" /\ now' = now + 1 /\ AcceptedNow
        /\ UNCHANGED <<timeStart, timeindices, pass, bufferFull, client, refused, accepted>>
    BY <1>4 DEF NextTime, AcceptedNow, frontVars, batchVars, replyVars
  <2>2. /\ ~bufferFull /\ refused = {} /\ timeindices # {}
        /\ timeStart <= now /\ now <= timeStart + BufferTimesteps
        /\ now # timeStart + BufferTimesteps
    BY <1>1, <2>1 DEF GapInv
  <2>3. /\ timeStart <= now' /\ now' <= timeStart + BufferTimesteps
    BY <1>1, <2>1, <2>2
  <2>4. ~AcceptedNow'
    <3> SUFFICES ASSUME NEW a \in accepted, a.row.stamp = <<pass, now + 1>> PROVE FALSE
      BY <2>1 DEF AcceptedNow
    <3>1. a.row.stamp[2] <= now
      BY <1>1 DEF GapInv
    <3> QED BY <3>1, <1>1
  <2>5. \A a \in accepted : a.row.stamp[1] <= pass /\ (a.row.stamp[1] = pass => a.row.stamp[2] <= now')
    BY <1>1, <2>1 DEF GapInv
  <2> QED BY <1>1, <2>1, <2>2, <2>3, <2>4, <2>5 DEF GapInv
<1>5. CASE NextPass
  <2>1. /\ client = "end" /\ client' = "requesting" /\ now' = 0 /\ pass' = pass + 1
        /\ UNCHANGED <<timeStart, timeindices, bufferFull, refused, accepted>>
    BY <1>5 DEF NextPass, frontVars, batchVars, replyVars
  <2>2. timeindices = {} /\ ~bufferFull /\ refused = {}
    BY <1>1, <2>1 DEF LoopInv, GapInv
  <2>3. \A a \in accepted : a.row.stamp[1] < pass'
    BY <1>1, <2>1 DEF GapInv
  <2>4. ~AcceptedNow'
    <3> SUFFICES ASSUME NEW a \in accepted, a.row.stamp = <<pass + 1, 0>> PROVE FALSE
      BY <2>1 DEF AcceptedNow
    <3> QED BY <1>1, <2>1, <2>3
  <2>5. \A a \in accepted : a.row.stamp[1] <= pass' /\ a.row.stamp[1] # pass'
    BY <1>1, <2>1, <2>3
  <2> QED BY <1>1, <2>1, <2>2, <2>4, <2>5 DEF GapInv
<1>6. ASSUME UNCHANGED <<timeStart, timeindices, now, pass, bufferFull, client, refused, accepted>>
      PROVE  GapInv'
  BY <1>1, <1>6 DEF GapInv, AcceptedNow
<1>7. CASE SetAterm
  BY <1>6, <1>7 DEF SetAterm, SetAtermNow, batchVars, replyVars
<1>8. CASE Compute
  BY <1>8, GapCompute
<1>9. CASE Read
  <2>1. /\ client = "reading" /\ client' = IF refused # {} THEN "retrying" ELSE "end"
        /\ UNCHANGED <<timeStart, timeindices, now, pass, bufferFull, refused, accepted>>
    BY <1>9 DEF Read, bufferVars, frontVars, batchVars, clientVars
  <2>2. AcceptedNow' = AcceptedNow
    BY <2>1 DEF AcceptedNow
  <2> QED BY <1>1, <2>1, <2>2 DEF GapInv
<1>10. CASE UNCHANGED vars
  BY <1>6, <1>10 DEF vars, bufferVars, frontVars, batchVars, clientVars, replyVars
<1> QED BY <1>2, <1>3, <1>4, <1>5, <1>7, <1>8, <1>9, <1>10 DEF Next

(* In data without gaps the refused row fits when it is requested again: the
   flush has started a batch at its time. *)
THEOREM RefusedFitsNext ==
    ASSUME ~TimeGaps
    PROVE  Spec => AlwaysFits
<1>1. Init => EInv
  BY DInitially, GapInitially DEF EInv
<1>2. EInv /\ [Next]_vars => EInv'
  BY GapStep
<1>3. EInv /\ [Next]_vars => [client = "retrying" => ~bufferFull']_vars
  <2> SUFFICES ASSUME EInv, Next, client = "retrying" PROVE ~bufferFull'
    BY DEF vars
  <2>1. PICK bl \in Baselines : Retry(bl)
    BY DEF Next, Request, NextTime, NextPass, SetAterm, Compute, Read
  <2>2. RequestAccepted(bl) /\ ~bufferFull
    BY <2>1, RetryFits DEF Retry, RequestRefused, Fits
  <2> QED BY <2>2 DEF RequestAccepted
<1> QED BY <1>1, <1>2, <1>3, PTL DEF Spec, AlwaysFits

-----------------------------------------------------------------------------
(* A-terms, in data without gaps. *)

(* The visibilities in the batch have the a-term that was set last when they
   were requested, and so do those that can be read. *)
WithAterm(u, offsets, terms) ==
    \A c \in Cells : u[c] # Infinite =>
        [row |-> [baseline |-> c[1], stamp |-> u[c]],
         aterm |-> terms[AtermIndex(offsets, c[2])]] \in accepted

AtermInv ==
    /\ LastAterm = atermSet
    /\ timeindices = {} => LastOffset = 0
    /\ timeindices # {} => LastOffset <= now - timeStart
    /\ WithAterm(uvw, atermOffsets, aterms)
    /\ \A k \in DOMAIN available :
         OnGrid(available[k].row) =>
           [row |-> available[k].row, aterm |-> vis[available[k].cell].aterm] \in accepted

AInv == EInv /\ AtermInv /\ PredictedWithItsAterm

(* An accepted request gets the last a-term. *)
LEMMA AtermAccepted ==
    ASSUME AInv, NEW bl \in Baselines, RequestAccepted(bl),
           (\A a \in accepted : a.row # Row(bl)) \/ timeindices = {}
    PROVE  AtermInv'
<1> DEFINE c == <<bl, Offset>>
           stamp == <<pass, now>>
           new == [row |-> Row(bl), aterm |-> atermSet]
<1>1. /\ TypesInv /\ FrontInv /\ ~bufferFull /\ timeStart <= MaxTime + BufferTimesteps
      /\ now \in Nat /\ timeStart \in Nat /\ uvw \in [Cells -> StampOrNone]
      /\ AtermsTypeOK(atermOffsets, aterms) /\ OffsetsInOrder(atermOffsets)
      /\ LastAterm = atermSet /\ WithAterm(uvw, atermOffsets, aterms)
      /\ timeindices = {} => LastOffset = 0
      /\ timeindices # {} => LastOffset <= now - timeStart
  BY Types DEF AInv, AtermInv, EInv, DInv, GapInv, TypesInv, TypeOK, BufferTypeOK,
     RequestAccepted, Fits
<1>2. /\ Start \in Nat /\ Offset \in Nat /\ Offset = now - Start
      /\ Start = timeStart \/ timeindices = {}
  BY <1>1, RequestOffset, GapOffset
<1>3. LastOffset <= Offset
  BY <1>1, <1>2
<1>4. c \in Cells /\ c[1] = bl /\ c[2] = Offset /\ Offset \in Slots
  BY CellFree DEF AInv, EInv, Cells
<1>5. aterms[AtermIndex(atermOffsets, Offset)] = atermSet
  BY <1>1, <1>3, <1>4, LastAtermOf
<1>6. /\ timeStart' = Start /\ timeindices' # {}
      /\ uvw' = [uvw EXCEPT ![c] = stamp]
      /\ accepted' = accepted \cup {new}
      /\ UNCHANGED <<vis, atermOffsets, aterms, now, atermSet, available>>
  BY DEF RequestAccepted, atermVars, clientVars
<1>7. \A d \in Cells : uvw'[d] = IF d = c THEN stamp ELSE uvw[d]
  BY <1>1, <1>6
<1>8. Row(bl) = [baseline |-> bl, stamp |-> stamp]
  BY DEF Row
<1> HIDE DEF c, stamp
<1>9. WithAterm(uvw, atermOffsets, aterms)'
  <2> SUFFICES ASSUME NEW d \in Cells, uvw'[d] # Infinite
               PROVE  [row |-> [baseline |-> d[1], stamp |-> uvw'[d]],
                       aterm |-> aterms[AtermIndex(atermOffsets, d[2])]] \in accepted'
    BY <1>6 DEF WithAterm
  <2>1. CASE d = c
    <3>1. uvw'[d] = stamp /\ d[1] = bl /\ aterms[AtermIndex(atermOffsets, d[2])] = atermSet
      BY <2>1, <1>4, <1>5, <1>7
    <3> QED BY <3>1, <1>6, <1>8
  <2>2. CASE d # c
    <3>1. uvw'[d] = uvw[d] /\ uvw[d] # Infinite
      BY <2>2, <1>7
    <3>2. [row |-> [baseline |-> d[1], stamp |-> uvw[d]],
           aterm |-> aterms[AtermIndex(atermOffsets, d[2])]] \in accepted
      BY <3>1, <1>1 DEF WithAterm
    <3> QED BY <3>1, <3>2, <1>6
  <2> QED BY <2>1, <2>2
<1>10. LastAterm' = LastAterm /\ LastOffset' = LastOffset
  BY <1>6 DEF LastAterm, LastOffset
<1>11. \A k \in DOMAIN available :
         OnGrid(available[k].row) =>
           [row |-> available[k].row, aterm |-> vis[available[k].cell].aterm] \in accepted'
  BY <1>6 DEF AInv, AtermInv
<1>12. LastOffset' <= now - Start
  BY <1>2, <1>3, <1>10
<1> QED BY <1>1, <1>6, <1>9, <1>10, <1>11, <1>12 DEF AtermInv, OnGrid

(* set_aterm leaves the a-terms of the rows in the batch as they are. *)
LEMMA AtermSetAterm ==
    ASSUME AInv, SetAterm
    PROVE  AtermInv'
<1> DEFINE t == LocalTime(now, timeStart)
<1>1. /\ TypesInv /\ FrontInv /\ ~bufferFull /\ timeStart <= MaxTime + BufferTimesteps
      /\ now \in Times /\ now \in Nat /\ timeStart \in Nat /\ timeStart \in Int
      /\ uvw \in [Cells -> StampOrNone]
      /\ timeindices \in SUBSET Times /\ \A i \in timeindices : i \in Nat
      /\ AtermsTypeOK(atermOffsets, aterms) /\ OffsetsInOrder(atermOffsets)
      /\ atermSet \in 0 .. MaxAterms /\ WithAterm(uvw, atermOffsets, aterms)
      /\ timeindices = {} => now = 0
      /\ SetAtermNow /\ \A a \in accepted : a.row.stamp # <<pass, now>>
  BY Types DEF AInv, AtermInv, EInv, DInv, GapInv, TypesInv, TypeOK, BufferTypeOK, SetAterm
<1>2. UNCHANGED <<timeStart, timeindices, now, uvw, vis, available, accepted>>
  BY DEF SetAterm, SetAtermNow, batchVars, replyVars
<1>3. t = now - timeStart
  BY <1>1, GapOffset
<1>4. PICK o1 : o1 = atermOffsets'
  OBVIOUS
<1>5. PICK a1 : a1 = aterms'
  OBVIOUS
<1>6. /\ LastAterm' = atermSet' /\ LastOffset' = t
      /\ t \in LastOffset .. BufferTimesteps
  BY <1>1, SetAtermResult
<1>7. t \in Nat
  <2>1. LastOffset \in Nat /\ BufferTimesteps \in Nat
    BY <1>1, LastPlaces, IntRangeType
  <2> QED BY <1>6, <2>1
<1> HIDE DEF t
<1>8. WithAterm(uvw, o1, a1)
  <2> SUFFICES ASSUME NEW c \in Cells, uvw[c] # Infinite
               PROVE  [row |-> [baseline |-> c[1], stamp |-> uvw[c]],
                       aterm |-> a1[AtermIndex(o1, c[2])]] \in accepted
    BY DEF WithAterm
  <2> DEFINE row == [baseline |-> c[1], stamp |-> uvw[c]]
             a == [row |-> row, aterm |-> aterms[AtermIndex(atermOffsets, c[2])]]
  <2>1. a \in accepted
    BY <1>1 DEF WithAterm
  <2>2. /\ uvw[c][1] = pass /\ uvw[c][2] \in timeindices /\ LocalTime(uvw[c][2], timeStart) = c[2]
        /\ uvw[c][2] <= now /\ c[2] \in Slots /\ uvw[c][2] \in Times /\ uvw[c][2] \in Nat
    BY <1>1 DEF FrontInv, Cells
  <2>3. uvw[c] \in Stamps /\ c[2] \in Nat
    <3>1. uvw[c] \in Stamps
      BY <1>1 DEF StampOrNone
    <3>2. c[2] \in Nat
      BY <2>2, IntRangeType DEF Slots
    <3> QED BY <3>1, <3>2
  <2>4. uvw[c][2] # now
    <3>1. a.row.stamp = uvw[c]
      OBVIOUS
    <3>2. uvw[c] # <<pass, now>>
      BY <1>1, <2>1, <3>1
    <3> QED BY <2>2, <2>3, <3>2 DEF Stamps
  <2>5. LocalTime(now, timeStart) = c[2] + (now - uvw[c][2])
    BY <1>1, <2>2, LocalTimeLater
  <2>6. c[2] < LocalTime(now, timeStart)
    BY <1>1, <2>2, <2>3, <2>4, <2>5
  <2>7. a1[AtermIndex(o1, c[2])] = aterms[AtermIndex(atermOffsets, c[2])]
    BY <1>1, <1>4, <1>5, <2>2, <2>6, SetAtermKeeps
  <2> QED BY <2>1, <2>7
<1>9. WithAterm(uvw, atermOffsets, aterms)'
  BY <1>2, <1>4, <1>5, <1>8 DEF WithAterm
<1>10. timeindices = {} => t = 0
  BY <1>1, <1>3, <1>7
<1>11. t <= now - timeStart
  BY <1>3, <1>7
<1>12. \A k \in DOMAIN available :
         OnGrid(available[k].row) =>
           [row |-> available[k].row, aterm |-> vis[available[k].cell].aterm] \in accepted
  BY DEF AInv, AtermInv
<1> QED BY <1>2, <1>6, <1>9, <1>10, <1>11, <1>12 DEF AtermInv, OnGrid

(* compute() *)
LEMMA AtermCompute ==
    ASSUME AInv, Compute
    PROVE  AtermInv'
<1>1. /\ TypesInv /\ dataRead /\ RowsInv /\ FrontInv
      /\ WithAterm(uvw, atermOffsets, aterms) /\ LastAterm = atermSet
      /\ available' = rowCells /\ UNCHANGED <<now, atermSet, accepted>>
  BY DEF AInv, AtermInv, EInv, DInv, LoopInv, Compute, clientVars
<1>2. CASE timeindices = {}
  <2>1. UNCHANGED <<timeStart, timeindices, uvw, vis, atermOffsets, aterms>>
    BY <1>2 DEF Compute, Flush, NothingToFlush, frontVars, batchVars, atermVars
  <2>2. DOMAIN rowCells = {}
    <3> SUFFICES ASSUME NEW k \in DOMAIN rowCells PROVE FALSE
      OBVIOUS
    <3>1. rowCells[k].cell \in Cells /\ rowCells[k].row.stamp \in Stamps
      BY <1>1, RowTypes DEF Rows
    <3>2. uvw[rowCells[k].cell] = Infinite
      BY <1>1, <1>2, <3>1 DEF FrontInv, NoUvw
    <3> QED BY <1>1, <3>1, <3>2, StampFinite DEF RowsInv
  <2>3. LastAterm' = LastAterm /\ LastOffset' = LastOffset
    BY <2>1 DEF LastAterm, LastOffset
  <2>4. WithAterm(uvw, atermOffsets, aterms)'
    BY <1>1, <2>1 DEF WithAterm
  <2> QED BY <1>1, <1>2, <2>1, <2>2, <2>3, <2>4 DEF AInv, AtermInv
<1>3. CASE timeindices # {}
  <2>1. /\ vis' = Predicted /\ timeindices' = {} /\ uvw' = NoUvw
        /\ atermOffsets' = DefaultOffsets /\ aterms' = <<LastAterm>>
    BY <1>1, <1>3 DEF Compute, Flush, NothingToFlush, AtermsAfterFlush
  <2>2. LastAterm' = LastAterm /\ LastOffset' = 0
    BY <2>1, DefaultLast
  <2>3. WithAterm(uvw, atermOffsets, aterms)'
    BY <2>1 DEF WithAterm, NoUvw
  <2>4. ASSUME NEW k \in DOMAIN rowCells, OnGrid(rowCells[k].row)
        PROVE  [row |-> rowCells[k].row, aterm |-> Predicted[rowCells[k].cell].aterm] \in accepted
    <3> DEFINE row == rowCells[k].row
               c == rowCells[k].cell
    <3>1. c \in Cells /\ row \in Rows /\ row.stamp \in Stamps
      BY <1>1, RowTypes DEF Rows
    <3>2. uvw[c] = row.stamp /\ row.baseline = c[1]
      BY <1>1 DEF RowsInv
    <3>3. uvw[c] # Infinite /\ Planned(c)
      BY <2>4, <3>1, <3>2, StampFinite DEF Planned, OnGrid
    <3>4. Predicted[c].aterm = aterms[AtermIndex(atermOffsets, c[2])]
      BY <3>1, <3>3 DEF Predicted
    <3>5. [row |-> [baseline |-> c[1], stamp |-> uvw[c]],
           aterm |-> aterms[AtermIndex(atermOffsets, c[2])]] \in accepted
      BY <1>1, <3>1, <3>3 DEF WithAterm
    <3> HIDE DEF row, c
    <3>6. row = [baseline |-> c[1], stamp |-> uvw[c]]
      BY <3>1, <3>2 DEF Rows
    <3>7. [row |-> row, aterm |-> Predicted[c].aterm] \in accepted
      BY <3>4, <3>5, <3>6
    <3> QED BY <3>7 DEF row, c
  <2> QED BY <1>1, <2>1, <2>2, <2>3, <2>4 DEF AtermInv, OnGrid
<1> QED BY <1>2, <1>3

(* The other steps of the client. *)
LEMMA AtermOther ==
    ASSUME AInv, UNCHANGED <<timeStart, timeindices, uvw, vis, atermOffsets, aterms, atermSet, accepted>>,
           available' = available \/ available' = <<>>,
           (now' \in Nat /\ now <= now') \/ timeindices = {}
    PROVE  AtermInv'
<1>1. LastAterm' = LastAterm /\ LastOffset' = LastOffset
  BY DEF LastAterm, LastOffset
<1>2. WithAterm(uvw, atermOffsets, aterms)'
  BY DEF AInv, AtermInv, WithAterm
<1>3. timeindices # {} => LastOffset <= now' - timeStart
  <2>1. now \in Nat /\ timeStart \in Nat
    BY Types DEF AInv, EInv, DInv
  <2>2. LastOffset \in Nat
    <3>1. LastOffset \in 0 .. BufferTimesteps
      BY LastPlaces DEF AInv, EInv, DInv, TypesInv, TypeOK, BufferTypeOK
    <3> QED BY <3>1, IntRangeType
  <2> QED BY <2>1, <2>2 DEF AInv, AtermInv
<1>4. \A k \in DOMAIN available' :
         OnGrid(available'[k].row) =>
           [row |-> available'[k].row, aterm |-> vis[available'[k].cell].aterm] \in accepted
  BY DEF AInv, AtermInv
<1> QED BY <1>1, <1>2, <1>3, <1>4 DEF AInv, AtermInv, OnGrid
LEMMA AInitially == Init => AInv
<1> SUFFICES ASSUME Init PROVE AtermInv /\ PredictedWithItsAterm
  BY DInitially, GapInitially DEF AInv, EInv
<1>1. /\ timeindices = {} /\ uvw = NoUvw /\ available = <<>> /\ delivered = {} /\ atermSet = 0
      /\ atermOffsets = DefaultOffsets /\ aterms = <<0>>
  BY DEF Init, BufferInit
<1>2. LastAterm = 0 /\ LastOffset = 0
  <2>1. Len(atermOffsets) = 2 /\ atermOffsets[1] = 0
    BY <1>1 DEF DefaultOffsets
  <2> QED BY <1>1, <2>1 DEF LastAterm, LastOffset
<1>3. WithAterm(uvw, atermOffsets, aterms)
  BY <1>1 DEF WithAterm, NoUvw
<1> QED BY <1>1, <1>2, <1>3 DEF AtermInv, PredictedWithItsAterm

LEMMA AStep == ~TimeGaps /\ AInv /\ [Next]_vars => AInv'
<1> SUFFICES ASSUME ~TimeGaps, AInv, [Next]_vars PROVE AtermInv' /\ PredictedWithItsAterm'
  BY GapStep DEF AInv
<1>1. /\ EInv /\ LoopInv /\ AtermInv /\ PredictedWithItsAterm /\ now \in Nat
  BY Types DEF AInv, EInv, DInv
<1>2. ASSUME UNCHANGED delivered, accepted \subseteq accepted' PROVE PredictedWithItsAterm'
  BY <1>1, <1>2 DEF PredictedWithItsAterm, OnGrid
<1>3. ASSUME NEW bl \in Baselines, Request(bl) PROVE AtermInv' /\ PredictedWithItsAterm'
  <2>1. client = "requesting" /\ \A a \in accepted : a.row # Row(bl)
    BY <1>3 DEF Request
  <2>2. CASE RequestAccepted(bl)
    <3>1. UNCHANGED delivered /\ accepted \subseteq accepted'
      BY <2>2 DEF RequestAccepted
    <3> QED BY <2>1, <2>2, <3>1, <1>2, AtermAccepted
  <2>3. CASE RequestRefused
    <3>1. UNCHANGED <<timeindices, uvw, vis, atermOffsets, aterms, atermSet, accepted, available,
                      now, delivered>>
      BY <2>3 DEF RequestRefused, clientVars, atermVars
    <3>2. UNCHANGED timeStart
      BY <1>1, <2>1, <2>3, GapRefused
    <3> QED BY <1>1, <3>1, <3>2, <1>2, AtermOther
  <2> QED BY <1>3, <2>2, <2>3 DEF Request
<1>4. ASSUME NEW bl \in Baselines, Retry(bl) PROVE AtermInv' /\ PredictedWithItsAterm'
  <2>1. timeindices = {} /\ RequestAccepted(bl)
    BY <1>1, <1>4, RetryFits DEF Retry, LoopInv, RequestRefused
  <2>2. UNCHANGED delivered /\ accepted \subseteq accepted'
    BY <2>1 DEF RequestAccepted
  <2> QED BY <2>1, <2>2, <1>2, AtermAccepted
<1>5. CASE NextTime
  <2>1. /\ UNCHANGED <<timeStart, timeindices, uvw, vis, atermOffsets, aterms, atermSet, accepted,
                       available, delivered>>
        /\ now' = now + 1
    BY <1>5 DEF NextTime, frontVars, batchVars, atermVars, replyVars
  <2> QED BY <1>1, <2>1, <1>2, AtermOther
<1>6. CASE NextPass
  <2>1. /\ UNCHANGED <<timeStart, timeindices, uvw, vis, atermOffsets, aterms, atermSet, accepted,
                       available, delivered>>
        /\ timeindices = {}
    BY <1>1, <1>6 DEF NextPass, LoopInv, frontVars, batchVars, atermVars, replyVars
  <2> QED BY <2>1, <1>2, AtermOther
<1>7. CASE SetAterm
  BY <1>2, <1>7, AtermSetAterm DEF SetAterm
<1>8. CASE Compute
  BY <1>2, <1>8, AtermCompute DEF Compute
<1>9. CASE Read
  <2>1. /\ UNCHANGED <<timeStart, timeindices, uvw, vis, atermOffsets, aterms, atermSet, accepted,
                       now>>
        /\ available' = <<>>
        /\ delivered' = delivered \cup {[row |-> available[k].row, data |-> vis[available[k].cell]] :
                                          k \in DOMAIN available}
    BY <1>9 DEF Read, bufferVars, frontVars, batchVars, atermVars, clientVars
  <2>2. AtermInv'
    BY <1>1, <2>1, AtermOther
  <2>3. ASSUME NEW k \in DOMAIN available, OnGrid(available[k].row)
        PROVE  [row |-> available[k].row, aterm |-> vis[available[k].cell].aterm] \in accepted
    BY <1>1, <2>3 DEF AtermInv
  <2>4. ASSUME NEW d \in delivered', OnGrid(d.row)
        PROVE  [row |-> d.row, aterm |-> d.data.aterm] \in accepted
    <3>1. CASE d \in delivered
      BY <3>1, <2>4, <1>1 DEF PredictedWithItsAterm
    <3>2. CASE d \notin delivered
      <4>1. PICK k \in DOMAIN available :
              d = [row |-> available[k].row, data |-> vis[available[k].cell]]
        BY <3>2, <2>1
      <4>2. d.row = available[k].row /\ d.data = vis[available[k].cell]
        BY <4>1
      <4> QED BY <2>3, <2>4, <4>2
    <3> QED BY <3>1, <3>2
  <2> QED BY <2>1, <2>2, <2>4 DEF PredictedWithItsAterm, OnGrid
<1>10. CASE UNCHANGED vars
  <2>1. UNCHANGED <<timeStart, timeindices, uvw, vis, atermOffsets, aterms, atermSet, accepted,
                    available, now, delivered>>
    BY <1>10 DEF vars, bufferVars, frontVars, batchVars, atermVars, clientVars, replyVars
  <2> QED BY <1>1, <2>1, <1>2, AtermOther
<1> QED BY <1>3, <1>4, <1>5, <1>6, <1>7, <1>8, <1>9, <1>10 DEF Next

(* In data without gaps a row that is on the grid is read as what was predicted
   with the a-term that was set last when it was requested. *)
THEOREM ReadsItsAterm ==
    ASSUME ~TimeGaps
    PROVE  Spec => []PredictedWithItsAterm
<1>1. AInv => PredictedWithItsAterm
  BY DEF AInv
<1>2. AInv /\ [Next]_vars => AInv'
  BY AStep
<1> QED BY <1>1, <1>2, AInitially, PTL DEF Spec
=============================================================================
