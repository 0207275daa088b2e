------------------------- MODULE GridderBufferProofs -------------------------
(***************************************************************************)
(* Proofs about the gridder's buffer, for any baselines, batch size and    *)
(* width of int: what the flush threads grid belongs together, nothing is  *)
(* gridded twice and nothing is lost; and, when the client sets no a-term  *)
(* for the next batch while the buffer is empty, it has its own a-term.    *)
(* For such a client the buffer implements VisibilityGridding.             *)
(***************************************************************************)
EXTENDS GridderBuffer, BufferProofs

(* The visibilities in a buffer, as pairs of a baseline and a stamp. *)
Holdings(u) == {<<c[1], u[c]>> : c \in {d \in Cells : u[d] # Infinite}}
Entered == {<<s.baseline, s.stamp>> : s \in submitted}
Done == {<<g.baseline, g.stamp>> : g \in gridded}

(* No visibility is in two cells of a buffer. *)
Single(u) ==
    \A c, d \in Cells : u[c] # Infinite /\ c[1] = d[1] /\ u[c] = u[d] => c = d

(* Uvw and visibility of a cell were submitted together. *)
Together(u, v) ==
    /\ DOMAIN u = Cells /\ DOMAIN v = Cells
    /\ \A c \in Cells : u[c] # Infinite => v[c] = u[c]

(* What make_plan makes of the back buffer. *)
PlanOf(u, offsets) ==
    {[cell |-> cell, uvw |-> u[cell], aterm |-> AtermIndex(offsets, cell[2])] :
        cell \in {c \in Cells : u[c] # Infinite}}

Buffers ==
    /\ Together(uvw, vis) /\ Single(uvw)
    /\ Together(uvw2, vis2) /\ Single(uvw2)

(* Only the last flush thread may still run, with a plan of the back buffer. *)
LastRuns ==
    /\ batch \in Nat
    /\ DOMAIN worker = Threads /\ DOMAIN plan = Threads
    /\ \A n \in Threads : /\ n > batch => worker[n] = "none"
                          /\ n < batch => worker[n] = "returned"
                          /\ worker[n] = "planned" => plan[n] = PlanOf(uvw2, atermOffsets2)

Pending == \E n \in Threads : worker[n] \in {"started", "planned"}

(* A visibility is in the front buffer, waits in the back buffer or is on the
   grid: one of them, and it was submitted. *)
Whereabouts ==
    /\ Holdings(uvw) \cup Holdings(uvw2) \cup Done \subseteq Entered
    /\ Holdings(uvw) \cap Done = {}
    /\ Pending => Holdings(uvw2) \cap (Done \cup Holdings(uvw)) = {}

IInv == Buffers /\ LastRuns /\ Whereabouts /\ GriddedWithItsUvw /\ GriddedOnce

-----------------------------------------------------------------------------
(* Writing a visibility that a buffer does not hold. *)
LEMMA Store ==
    ASSUME NEW u, NEW v, Together(u, v), Single(u),
           NEW k, NEW stamp, <<k[1], stamp>> \notin Holdings(u)
    PROVE  LET u1 == [u EXCEPT ![k] = stamp]
               v1 == [v EXCEPT ![k] = stamp]
           IN  /\ Together(u1, v1) /\ Single(u1)
               /\ Holdings(u1) \subseteq Holdings(u) \cup {<<k[1], stamp>>}
<1> DEFINE u1 == [u EXCEPT ![k] = stamp]
           v1 == [v EXCEPT ![k] = stamp]
<1>1. /\ DOMAIN u1 = Cells /\ DOMAIN v1 = Cells
      /\ \A c \in Cells : IF c = k THEN u1[c] = stamp /\ v1[c] = stamp
                                   ELSE u1[c] = u[c] /\ v1[c] = v[c]
  BY DEF Together
<1> HIDE DEF u1, v1
<1>2. Together(u1, v1)
  BY <1>1 DEF Together
<1>3. Holdings(u1) \subseteq Holdings(u) \cup {<<k[1], stamp>>}
  BY <1>1 DEF Holdings
<1>4. Single(u1)
  <2> SUFFICES ASSUME NEW c \in Cells, NEW d \in Cells,
                      u1[c] # Infinite, c[1] = d[1], u1[c] = u1[d]
               PROVE  c = d
    BY DEF Single
  <2>1. CASE c # k /\ d # k
    BY <2>1, <1>1 DEF Single
  <2>2. CASE c = k /\ d # k
    <3>1. u[d] = stamp /\ u[d] # Infinite /\ d[1] = k[1]
      BY <2>2, <1>1
    <3> QED BY <3>1 DEF Holdings
  <2>3. CASE c # k /\ d = k
    <3>1. u[c] = stamp /\ u[c] # Infinite /\ c[1] = k[1]
      BY <2>3, <1>1
    <3> QED BY <3>1 DEF Holdings
  <2> QED BY <2>1, <2>2, <2>3
<1> QED BY <1>2, <1>3, <1>4 DEF u1, v1

(* An empty buffer. *)
LEMMA Empty ==
    ASSUME NEW v, DOMAIN v = Cells
    PROVE  Together(NoUvw, v) /\ Single(NoUvw) /\ Holdings(NoUvw) = {}
BY DEF Together, Single, Holdings, NoUvw

-----------------------------------------------------------------------------
(* The client fills the front buffer; nothing else changes. *)
LEMMA FillStep ==
    ASSUME IInv, Together(uvw', vis'), Single(uvw'), Entered \subseteq Entered',
           NEW new, new \notin Entered, Holdings(uvw') \subseteq Holdings(uvw) \cup {new},
           Holdings(uvw') \subseteq Entered',
           UNCHANGED <<backVars, workerVars, batch>>
    PROVE  IInv'
<1>1. Buffers'
  BY DEF IInv, Buffers, backVars, Together, Single
<1>2. LastRuns'
  BY DEF IInv, LastRuns, backVars, workerVars, PlanOf
<1>3. /\ Holdings(uvw2)' = Holdings(uvw2) /\ Done' = Done /\ Pending' = Pending
      /\ Holdings(uvw)' = Holdings(uvw')
  BY DEF backVars, workerVars, Holdings, Done, Pending
<1>4. Whereabouts'
  BY <1>3 DEF IInv, Whereabouts
<1>5. GriddedWithItsUvw' /\ GriddedOnce'
  BY DEF IInv, GriddedWithItsUvw, GriddedOnce, workerVars
<1> QED BY <1>1, <1>2, <1>4, <1>5 DEF IInv

(* The buffers are swapped and a flush thread starts; the front buffer holds
   at most one visibility afterwards, a new one. *)
LEMMA SwapStep ==
    ASSUME IInv, SwapAndStart, Together(uvw', vis'), Single(uvw'),
           Entered \subseteq Entered', NEW new, new \notin Entered,
           Holdings(uvw') \subseteq {new}, Holdings(uvw') \subseteq Entered'
    PROVE  IInv'
<1>1. Buffers'
  BY DEF IInv, Buffers, SwapAndStart, Together, Single
<1>2. /\ batch < MaxFlushes /\ batch' = batch + 1 /\ batch \in Nat
      /\ worker' = [worker EXCEPT ![batch + 1] = "started"]
      /\ DOMAIN worker = Threads /\ DOMAIN plan = Threads
      /\ plan' = plan /\ gridded' = gridded /\ uvw2' = uvw
  BY DEF IInv, LastRuns, SwapAndStart
<1>3. \A n \in Threads : n = batch => worker[n] = "returned"
  BY DEF SwapAndStart, Joined
<1>4. LastRuns'
  <2> SUFFICES ASSUME NEW n \in Threads
               PROVE  /\ n > batch' => worker'[n] = "none"
                      /\ n < batch' => worker'[n] = "returned"
                      /\ worker'[n] # "planned"
    BY <1>2 DEF LastRuns, Threads
  <2>1. /\ n > batch => worker[n] = "none"
        /\ n < batch => worker[n] = "returned"
    BY DEF IInv, LastRuns
  <2>2. n \in Nat
    BY MaxFlushesAssumption DEF Threads
  <2>3. worker'[n] = IF n = batch + 1 THEN "started" ELSE worker[n]
    BY <1>2
  <2>4. CASE n = batch + 1
    BY <2>3, <2>4, <1>2
  <2>5. CASE n # batch + 1
    BY <2>1, <2>2, <2>3, <2>5, <1>2, <1>3
  <2> QED BY <2>4, <2>5
<1>5. /\ Holdings(uvw2)' = Holdings(uvw) /\ Done' = Done
      /\ Holdings(uvw)' = Holdings(uvw')
  BY <1>2 DEF Holdings, Done
<1>6. Whereabouts'
  BY <1>5 DEF IInv, Whereabouts
<1>7. GriddedWithItsUvw' /\ GriddedOnce'
  BY <1>2 DEF IInv, GriddedWithItsUvw, GriddedOnce
<1> QED BY <1>1, <1>4, <1>6, <1>7 DEF IInv

(* grid_visibilities: in the batch, past an empty batch, or after a flush. *)
LEMMA GridVisibilitiesStep ==
    ASSUME IInv, NEW bl \in Baselines, GridVisibilities(bl)
    PROVE  IInv'
<1> DEFINE new == <<bl, <<pass, now>>>>
<1>1. new \notin Entered
  BY DEF GridVisibilities, Entered
<1>2. Entered' = Entered \cup {new}
  <2> DEFINE s1 == [baseline |-> bl, stamp |-> <<pass, now>>, aterm |-> atermSet]
  <2>1. submitted' = submitted \cup {s1}
    BY DEF GridVisibilities
  <2>2. <<s1.baseline, s1.stamp>> = new
    OBVIOUS
  <2> HIDE DEF s1, new
  <2> QED BY <2>1, <2>2 DEF Entered
<1>3. /\ Together(uvw, vis) /\ Single(uvw) /\ Together(uvw2, vis2)
      /\ Holdings(uvw) \subseteq Entered
  BY DEF IInv, Buffers, Whereabouts
<1>4. ASSUME NEW start, NEW localTime, StoreVisibility(bl, start, localTime, uvw, vis), NoFlush
      PROVE  IInv'
  <2> DEFINE k == <<bl, localTime>>
  <2>1. /\ uvw' = [uvw EXCEPT ![k] = <<pass, now>>]
        /\ vis' = [vis EXCEPT ![k] = <<pass, now>>]
    BY <1>4 DEF StoreVisibility
  <2>2. k[1] = bl
    OBVIOUS
  <2> HIDE DEF k
  <2>3. <<k[1], <<pass, now>>>> \notin Holdings(uvw)
    BY <2>2, <1>1, <1>3
  <2>4. /\ Together(uvw', vis') /\ Single(uvw')
        /\ Holdings(uvw') \subseteq Holdings(uvw) \cup {new}
    BY <2>1, <2>2, <2>3, <1>3, Store
  <2> HIDE DEF new
  <2>5. UNCHANGED <<backVars, workerVars, batch>>
    BY <1>4 DEF NoFlush
  <2> QED BY <2>4, <2>5, <1>1, <1>2, <1>3, FillStep
<1>5. ASSUME NEW start, NEW localTime, SwapAndStart,
             StoreVisibility(bl, start, localTime, UvwAfterSwap, vis2)
      PROVE  IInv'
  <2> DEFINE k == <<bl, localTime>>
  <2>1. /\ uvw' = [NoUvw EXCEPT ![k] = <<pass, now>>]
        /\ vis' = [vis2 EXCEPT ![k] = <<pass, now>>]
    BY <1>5 DEF StoreVisibility, UvwAfterSwap
  <2>2. k[1] = bl
    OBVIOUS
  <2> HIDE DEF k
  <2>3. Together(NoUvw, vis2) /\ Single(NoUvw) /\ Holdings(NoUvw) = {}
    BY <1>3, Empty DEF Together
  <2>4. /\ Together(uvw', vis') /\ Single(uvw')
        /\ Holdings(uvw') \subseteq {new}
    BY <2>1, <2>2, <2>3, Store
  <2> HIDE DEF new
  <2> QED BY <2>4, <1>5, <1>1, <1>2, SwapStep
<1> QED BY <1>4, <1>5 DEF GridVisibilities

(* flush() with data in the buffer. *)
LEMMA FlushStep ==
    ASSUME IInv, FlushBuffer, submitted' = submitted
    PROVE  IInv'
<1>1. uvw' = NoUvw /\ vis' = vis2 /\ SwapAndStart
  BY DEF FlushBuffer, UvwAfterSwap
<1>2. Together(uvw', vis') /\ Single(uvw') /\ Holdings(uvw') = {}
  BY <1>1, Empty DEF IInv, Buffers, Together
<1>3. Entered' = Entered
  BY DEF Entered
<1>4. PICK new : new \notin Entered
  <2>1. {x \in Entered : x \notin x} \notin Entered
    OBVIOUS
  <2> QED BY <2>1
<1> QED BY <1>1, <1>2, <1>3, <1>4, SwapStep

(* Steps that leave the buffers and the grid alone. *)
LEMMA OtherStep ==
    ASSUME IInv,
           UNCHANGED <<uvw, vis, uvw2, vis2, atermOffsets2, worker, plan, gridded, submitted, batch>>
    PROVE  IInv'
<1>1. Buffers'
  BY DEF IInv, Buffers, Together, Single
<1>2. LastRuns'
  BY DEF IInv, LastRuns, PlanOf
<1>3. Whereabouts'
  BY DEF IInv, Whereabouts, Holdings, Entered, Done, Pending
<1>4. GriddedWithItsUvw' /\ GriddedOnce'
  BY DEF IInv, GriddedWithItsUvw, GriddedOnce
<1> QED BY <1>1, <1>2, <1>3, <1>4 DEF IInv

-----------------------------------------------------------------------------
(* A flush thread makes its plan. *)
LEMMA WorkerPlanStep ==
    ASSUME IInv, NEW n \in Threads, WorkerPlan(n)
    PROVE  IInv'
<1>1. /\ worker[n] = "started" /\ worker' = [worker EXCEPT ![n] = "planned"]
      /\ plan' = [plan EXCEPT ![n] = PlanOf(uvw2, atermOffsets2)]
      /\ UNCHANGED <<uvw, vis, uvw2, vis2, atermOffsets2, gridded, submitted, batch>>
  BY DEF WorkerPlan, PlanOf, frontVars, backVars
<1>2. Buffers'
  BY <1>1 DEF IInv, Buffers, Together, Single
<1>3. PlanOf(uvw2, atermOffsets2)' = PlanOf(uvw2, atermOffsets2)
  BY <1>1 DEF PlanOf
<1>4. LastRuns'
  BY <1>1, <1>3 DEF IInv, LastRuns
<1>5. Pending
  BY <1>1 DEF Pending
<1>6. Whereabouts'
  BY <1>1, <1>5 DEF IInv, Whereabouts, Holdings, Entered, Done
<1>7. GriddedWithItsUvw' /\ GriddedOnce'
  BY <1>1 DEF IInv, GriddedWithItsUvw, GriddedOnce
<1> QED BY <1>2, <1>4, <1>6, <1>7 DEF IInv

(* The cells that are planned, and what the visibility of one of them becomes. *)
PlannedCells == {c \in Cells : uvw2[c] # Infinite}

GridRow(n, c) ==
    [baseline |-> c[1], slot |-> c[2], batch |-> n,
     plannedUvw |-> uvw2[c], uvw |-> uvw2[c], stamp |-> vis2[c],
     aterm |-> aterms2[AtermIndex(atermOffsets2, c[2])]]

(* A flush thread grids what it planned: the cells of the back buffer. *)
LEMMA WhatIsGridded ==
    ASSUME IInv, NEW n \in Threads, WorkerGrid(n)
    PROVE  /\ gridded \subseteq gridded'
           /\ \A g \in gridded' \ gridded : \E c \in PlannedCells : g = GridRow(n, c)
           /\ \A c \in PlannedCells : GridRow(n, c) \in gridded'
<1>1. plan[n] = PlanOf(uvw2, atermOffsets2)
  BY DEF WorkerGrid, IInv, LastRuns
<1> DEFINE Item(c) == [cell |-> c, uvw |-> uvw2[c], aterm |-> AtermIndex(atermOffsets2, c[2])]
           Row(p) == [baseline |-> p.cell[1], slot |-> p.cell[2], batch |-> n,
                      plannedUvw |-> p.uvw, uvw |-> uvw2[p.cell], stamp |-> vis2[p.cell],
                      aterm |-> aterms2[p.aterm]]
<1>2. gridded' = gridded \cup {Row(p) : p \in plan[n]}
  BY DEF WorkerGrid
<1>3. plan[n] = {Item(c) : c \in PlannedCells}
  BY <1>1 DEF PlanOf, PlannedCells
<1>4. ASSUME NEW c \in PlannedCells PROVE Row(Item(c)) = GridRow(n, c)
  BY DEF GridRow
<1> HIDE DEF Item, Row
<1> QED BY <1>2, <1>3, <1>4

(* It leaves everything as it must be. *)
LEMMA WorkerGridStep ==
    ASSUME IInv, NEW n \in Threads, WorkerGrid(n)
    PROVE  IInv'
<1> DEFINE Result(c) == GridRow(n, c)
           Planned == PlannedCells
<1>1. /\ worker[n] = "planned" /\ worker' = [worker EXCEPT ![n] = "returned"]
      /\ plan' = [plan EXCEPT ![n] = {}]
      /\ UNCHANGED <<uvw, vis, uvw2, vis2, atermOffsets2, submitted, batch>>
  BY DEF WorkerGrid, frontVars, backVars
<1>3. \A g \in gridded' \ gridded : \E c \in Planned : g = Result(c)
  BY WhatIsGridded
<1>4. \A c \in Planned : /\ vis2[c] = uvw2[c]
                         /\ Result(c).baseline = c[1] /\ Result(c).stamp = uvw2[c]
                         /\ Result(c).uvw = uvw2[c] /\ Result(c).plannedUvw = uvw2[c]
                         /\ <<c[1], uvw2[c]>> \in Holdings(uvw2)
  BY DEF IInv, Buffers, Together, Holdings, GridRow, PlannedCells
<1>5. \A c, d \in Planned : c[1] = d[1] /\ uvw2[c] = uvw2[d] => c = d
  BY DEF IInv, Buffers, Single, PlannedCells
<1> HIDE DEF Result, Planned
<1>6. Buffers'
  BY <1>1 DEF IInv, Buffers, Together, Single
<1>7. n = batch
  BY <1>1, MaxFlushesAssumption DEF IInv, LastRuns, Threads
<1>8. LastRuns' /\ ~Pending'
  <2>1. \A m \in Threads : worker'[m] = IF m = n THEN "returned" ELSE worker[m]
    BY <1>1 DEF IInv, LastRuns
  <2>2. \A m \in Threads : m # n => worker[m] \in {"none", "returned"}
    BY <1>7, MaxFlushesAssumption DEF IInv, LastRuns, Threads
  <2>3. \A m \in Threads : worker'[m] \in {"none", "returned"}
    BY <2>1, <2>2
  <2>4. LastRuns'
    BY <1>1, <1>7, <2>1, <2>3, MaxFlushesAssumption DEF IInv, LastRuns, Threads
  <2> QED BY <2>3, <2>4 DEF Pending
<1>9. Pending
  BY <1>1 DEF Pending
<1>10. Done' \subseteq Done \cup Holdings(uvw2)
  <2> SUFFICES ASSUME NEW g \in gridded'
               PROVE  <<g.baseline, g.stamp>> \in Done \cup Holdings(uvw2)
    BY DEF Done
  <2>1. CASE g \in gridded
    BY <2>1 DEF Done
  <2>2. CASE g \notin gridded
    <3>1. PICK c \in Planned : g = Result(c)
      BY <2>2, <1>3
    <3> QED BY <3>1, <1>4
  <2> QED BY <2>1, <2>2
<1>11. Whereabouts'
  <2>1. Holdings(uvw)' = Holdings(uvw) /\ Holdings(uvw2)' = Holdings(uvw2) /\ Entered' = Entered
    BY <1>1 DEF Holdings, Entered
  <2> QED BY <2>1, <1>8, <1>9, <1>10 DEF IInv, Whereabouts
<1>12. GriddedWithItsUvw'
  <2> SUFFICES ASSUME NEW g \in gridded'
               PROVE  g.plannedUvw = g.stamp /\ g.uvw = g.stamp
    BY DEF GriddedWithItsUvw
  <2>1. CASE g \in gridded
    BY <2>1 DEF IInv, GriddedWithItsUvw
  <2>2. CASE g \notin gridded
    <3>1. PICK c \in Planned : g = Result(c)
      BY <2>2, <1>3
    <3> QED BY <3>1, <1>4
  <2> QED BY <2>1, <2>2
<1>13. GriddedOnce'
  <2> SUFFICES ASSUME NEW g \in gridded', NEW h \in gridded',
                      g.baseline = h.baseline, g.stamp = h.stamp
               PROVE  g = h
    BY DEF GriddedOnce
  <2>1. \A f \in gridded : <<f.baseline, f.stamp>> \notin Holdings(uvw2)
    BY <1>9 DEF IInv, Whereabouts, Done
  <2>2. CASE g \in gridded /\ h \in gridded
    BY <2>2 DEF IInv, GriddedOnce
  <2>3. CASE g \notin gridded /\ h \in gridded
    <3>1. PICK c \in Planned : g = Result(c)
      BY <2>3, <1>3
    <3>2. <<g.baseline, g.stamp>> \in Holdings(uvw2)
      BY <3>1, <1>4
    <3> QED BY <3>2, <2>1, <2>3
  <2>4. CASE g \in gridded /\ h \notin gridded
    <3>1. PICK c \in Planned : h = Result(c)
      BY <2>4, <1>3
    <3>2. <<h.baseline, h.stamp>> \in Holdings(uvw2)
      BY <3>1, <1>4
    <3> QED BY <3>2, <2>1, <2>4
  <2>5. CASE g \notin gridded /\ h \notin gridded
    <3>1. PICK c \in Planned : g = Result(c)
      BY <2>5, <1>3
    <3>2. PICK d \in Planned : h = Result(d)
      BY <2>5, <1>3
    <3>3. /\ g.baseline = c[1] /\ g.stamp = uvw2[c]
          /\ h.baseline = d[1] /\ h.stamp = uvw2[d]
      BY <3>1, <3>2, <1>4
    <3>4. c = d
      BY <3>3, <1>5
    <3> QED BY <3>1, <3>2, <3>4
  <2> QED BY <2>2, <2>3, <2>4, <2>5
<1> QED BY <1>6, <1>8, <1>11, <1>12, <1>13 DEF IInv

-----------------------------------------------------------------------------
LEMMA Initially == Init => IInv
<1> SUFFICES ASSUME Init PROVE IInv
  OBVIOUS
<1>1. Buffers
  BY Empty DEF Init, BufferInit, Buffers
<1>2. LastRuns
  BY MaxFlushesAssumption DEF Init, LastRuns, Threads
<1>3. Whereabouts
  BY Empty DEF Init, BufferInit, Whereabouts, Done, Pending
<1> QED BY <1>1, <1>2, <1>3 DEF Init, IInv, GriddedWithItsUvw, GriddedOnce

LEMMA Step == IInv /\ [Next]_vars => IInv'
<1> SUFFICES ASSUME IInv, [Next]_vars PROVE IInv'
  OBVIOUS
<1>1. CASE NextTime
  BY <1>1, OtherStep DEF NextTime, frontVars, backVars, workerVars
<1>2. CASE NextPass
  BY <1>2, OtherStep DEF NextPass, frontVars, backVars, workerVars
<1>3. ASSUME NEW bl \in Baselines, GridVisibilities(bl) PROVE IInv'
  BY <1>3, GridVisibilitiesStep
<1>4. CASE SetAterm
  BY <1>4, OtherStep DEF SetAterm, SetAtermNow, backVars, workerVars
<1>5. CASE Flush
  BY <1>5, FlushStep DEF Flush
<1>6. CASE Finish
  <2>1. CASE FlushBuffer
    BY <1>6, <2>1, FlushStep DEF Finish
  <2>2. CASE UNCHANGED <<frontVars, backVars, workerVars, batch>>
    BY <1>6, <2>2, OtherStep DEF Finish, frontVars, backVars, workerVars
  <2> QED BY <1>6, <2>1, <2>2 DEF Finish
<1>7. CASE FinishJoin
  BY <1>7, OtherStep DEF FinishJoin, frontVars, backVars, workerVars
<1>8. ASSUME NEW n \in Threads, WorkerStep(n) PROVE IInv'
  BY <1>8, WorkerPlanStep, WorkerGridStep DEF WorkerStep
<1>9. CASE UNCHANGED vars
  BY <1>9, OtherStep DEF vars, bufferVars, frontVars, backVars, workerVars
<1> QED BY <1>1, <1>2, <1>3, <1>4, <1>5, <1>6, <1>7, <1>8, <1>9 DEF Next

(* Whatever batches, passes and a-terms the client goes through, and however
   the flush threads interleave with it, they grid a visibility with the uvw
   that was submitted and planned with it. *)
THEOREM UvwBelongs == Spec => []GriddedWithItsUvw
<1>1. IInv => GriddedWithItsUvw
  BY DEF IInv
<1> QED BY <1>1, Initially, Step, PTL DEF Spec

(* And no visibility is put on the grid twice. *)
THEOREM OnGridOnce == Spec => []GriddedOnce
<1>1. IInv => GriddedOnce
  BY DEF IInv
<1> QED BY <1>1, Initially, Step, PTL DEF Spec

-----------------------------------------------------------------------------
(* The batch of a time. *)

(* However far the time is from the start, and also when it has passed it, the
   loop of grid_visibilities ends at a batch that the time is in. *)
LEMMA NextStartFits ==
  ASSUME NEW time \in Int, NEW start \in Nat
  PROVE  NextStart(time, start) \in Nat /\ LocalTime(time, NextStart(time, start)) \in Slots
<1> DEFINE n == BufferTimesteps
           r == IntRange
           d == (time - start) % r
           p == (time - start) \div r
           x == IF d >= n THEN d ELSE d + r
           k == x \div n
           m == x % n
           fits(j) == InBatch(LocalTime(time, start + j * n))
           S == {j \in Nat : j \in 1 .. r /\ fits(j)}
<1>1. r \in Nat \ {0} /\ n \in Nat \ {0} /\ 2 * n <= r
  BY IntRangeType
<1>2. d \in 0 .. r - 1 /\ p \in Int /\ time - start = p * r + d
  <2> DEFINE y == time - start
  <2>1. y \in Int
    OBVIOUS
  <2> HIDE DEF y, r
  <2> QED BY <1>1, <2>1, Remainder DEF y
<1> HIDE DEF n, r, d, p
<1>3. x \in Nat /\ n <= x /\ x < n + r
  BY <1>1, <1>2
<1>4. \E q \in Int : time - start = q * r + x
  <2>1. CASE d >= n
    BY <2>1, <1>2
  <2>2. CASE ~(d >= n)
    <3>1. (p - 1) * r = p * r - r /\ p * r \in Int /\ p - 1 \in Int
      BY <1>1, <1>2
    <3> QED BY <2>2, <3>1, <1>1, <1>2
  <2> QED BY <2>1, <2>2
<1>5. PICK q \in Int : time - start = q * r + x
  BY <1>4
<1> HIDE DEF x
<1>6. m \in 0 .. n - 1 /\ k \in Int /\ x = k * n + m
  BY <1>1, <1>3, Remainder
<1> HIDE DEF k, m
<1>7. k >= 1
  <2>1. ASSUME k <= 0 PROVE FALSE
    <3>1. k * n \in Int /\ k * n <= 0 * n
      BY <2>1, <1>1, <1>6, Multiples
    <3> QED BY <3>1, <1>1, <1>3, <1>6
  <2> QED BY <2>1, <1>6
<1>8. k <= r
  <2>1. ASSUME r + 1 <= k PROVE FALSE
    <3>1. (r + 1) * n <= k * n /\ k * n \in Int
      BY <2>1, <1>1, <1>6, Multiples
    <3>2. 1 <= n /\ r * 1 \in Int
      BY <1>1
    <3>3. r * n >= r /\ r * n \in Int
      <4>1. 1 * r <= n * r /\ n * r \in Int
        BY <1>1, <3>2, Multiples
      <4> QED BY <4>1, <1>1
    <3>4. (r + 1) * n = r * n + n
      BY <1>1
    <3> QED BY <3>1, <3>3, <3>4, <1>1, <1>3, <1>6
  <2> QED BY <2>1, <1>1, <1>6
<1>9. start + k * n \in Int /\ k * n \in Int /\ q * r \in Int
  BY <1>1, <1>6
<1>10. LocalTime(time, start + k * n) = m
  <2>1. time - (start + k * n) = q * r + m
    BY <1>5, <1>6, <1>9
  <2>2. m \in Int /\ 2 * m < r /\ -r <= 2 * m
    BY <1>1, <1>6
  <2> QED BY <2>1, <2>2, <1>9, LocalTimeUnique DEF r
<1>11. k \in S
  <2>1. m >= 0 /\ m < n
    BY <1>1, <1>6
  <2> QED BY <2>1, <1>1, <1>6, <1>7, <1>8, <1>10 DEF InBatch, n
<1>12. PICK j \in S : \A i \in S : j <= i
  <2>1. S \in SUBSET Nat /\ S # {}
    BY <1>11
  <2> HIDE DEF S
  <2> QED BY <2>1, Least
<1>13. j \in 1 .. r /\ fits(j) /\ \A i \in 1 .. j - 1 : ~fits(i)
  <2>1. j \in 1 .. r /\ fits(j) /\ j \in Nat
    OBVIOUS
  <2>2. ASSUME NEW i \in 1 .. j - 1, fits(i) PROVE FALSE
    <3>1. i \in S
      BY <2>1, <2>2, <1>1
    <3> QED BY <3>1, <2>1, <1>12
  <2> QED BY <2>1, <2>2
<1>14. \E i \in 1 .. r : fits(i) /\ NextStart(time, start) = start + i * n
  <2> DEFINE c == CHOOSE i \in 1 .. r : fits(i) /\ \A l \in 1 .. i - 1 : ~fits(l)
  <2>1. NextStart(time, start) = start + c * n
    BY DEF NextStart, n, r
  <2> HIDE DEF fits
  <2>2. c \in 1 .. r /\ fits(c)
    BY <1>13
  <2> HIDE DEF c
  <2> QED BY <2>1, <2>2
<1>15. PICK i \in 1 .. r : fits(i) /\ NextStart(time, start) = start + i * n
  BY <1>14
<1>16. start + i * n \in Nat
  BY <1>1, <1>15
<1>17. LocalTime(time, start + i * n) \in Int
  BY <1>16, LocalTimeOf
<1> QED BY <1>1, <1>15, <1>16, <1>17 DEF InBatch, Slots, n

-----------------------------------------------------------------------------
(* Types. *)

(* The offsets of the a-terms are in order in both buffers. *)
TypesInv == TypeOK /\ OffsetsInOrder(atermOffsets) /\ OffsetsInOrder(atermOffsets2)

-----------------------------------------------------------------------------
(* What the front buffer holds. *)

(* Every time in the batch has a slot, and the visibilities of this pass are
   at the slots of their times. *)
FrontInv ==
    /\ timeindices = {} => uvw = NoUvw
    /\ \A t \in timeindices : t <= now /\ LocalTime(t, timeStart) \in Slots
    /\ \A c \in Cells : uvw[c] # Infinite =>
         /\ uvw[c][1] = pass /\ uvw[c][2] \in timeindices
         /\ LocalTime(uvw[c][2], timeStart) = c[2]

(* grid_visibilities, whichever branch it takes, stores the visibility in the
   slot of its time: in the front buffer as it is, whose start only moves when
   it is empty, or in the one that becomes the front buffer. *)
Stores(bl, start, t) ==
    \/ /\ StoreVisibility(bl, start, t, uvw, vis)
       /\ timeindices' = timeindices \cup {now}
       /\ start = timeStart \/ (timeindices = {} /\ LocalTime(now, timeStart) \notin Slots)
       /\ NoFlush
    \/ /\ timeindices # {}
       /\ SwapAndStart
       /\ StoreVisibility(bl, start, t, UvwAfterSwap, vis2)
       /\ timeindices' = {now}

LEMMA Submission ==
    ASSUME TypesInv, FrontInv, NEW bl \in Baselines, GridVisibilities(bl)
    PROVE  \E start \in Nat, t \in Slots : LocalTime(now, start) = t /\ Stores(bl, start, t)
<1> DEFINE elapsed   == LocalTime(now, timeStart)
           start     == IF elapsed < 0 THEN 0 ELSE timeStart
           localTime == IF elapsed < 0 THEN now ELSE elapsed
           emptied   == NextStart(now, start)
           flushed   == NextStart(now, start + BufferTimesteps)
<1>1. /\ timeStart \in Nat /\ now \in Times /\ timeindices \in SUBSET Times
      /\ now \in Nat /\ BufferTimesteps \in Nat \ {0} /\ timeStart \in Int /\ now \in Int
      /\ \A t \in timeindices : t \in Nat /\ t \in Times
  BY IntRangeType DEF TypesInv, TypeOK, BufferTypeOK, Times
<1>2. elapsed \in Int
  BY <1>1, LocalTimeOf
<1>3. timeindices # {} => elapsed >= 0
  <2> SUFFICES ASSUME NEW t \in timeindices PROVE elapsed >= 0
    OBVIOUS
  <2>1. t <= now /\ LocalTime(t, timeStart) \in Slots
    BY DEF FrontInv
  <2>2. elapsed = LocalTime(t, timeStart) + (now - t)
    BY <1>1, <2>1, LocalTimeLater
  <2>3. LocalTime(t, timeStart) \in Nat
    BY <2>1, <1>1 DEF Slots
  <2> QED BY <1>1, <2>1, <2>2, <2>3
<1>4. LocalTime(now, 0) = now
  BY <1>1, LocalTimeOfFirst
<1>5. start \in Nat /\ localTime \in Nat /\ LocalTime(now, start) = localTime
  BY <1>1, <1>2, <1>4
<1>6. start = timeStart \/ (timeindices = {} /\ elapsed \notin Slots)
  BY <1>1, <1>2, <1>3 DEF Slots
<1>7. localTime >= BufferTimesteps => timeindices # {} \/ elapsed \notin Slots
  BY <1>1, <1>2 DEF Slots
<1>8. \/ /\ localTime < BufferTimesteps
         /\ StoreVisibility(bl, start, localTime, uvw, vis)
         /\ timeindices' = timeindices \cup {now}
         /\ NoFlush
      \/ /\ localTime >= BufferTimesteps
         /\ timeindices = {}
         /\ StoreVisibility(bl, emptied, LocalTime(now, emptied), uvw, vis)
         /\ timeindices' = {now}
         /\ NoFlush
      \/ /\ localTime >= BufferTimesteps
         /\ timeindices # {}
         /\ SwapAndStart
         /\ StoreVisibility(bl, flushed, LocalTime(now, flushed), UvwAfterSwap, vis2)
         /\ timeindices' = {now}
  BY DEF GridVisibilities
<1>9. emptied \in Nat /\ LocalTime(now, emptied) \in Slots
  BY <1>1, <1>5, NextStartFits
<1>10. flushed \in Nat /\ LocalTime(now, flushed) \in Slots
  <2>1. start + BufferTimesteps \in Nat
    BY <1>1, <1>5
  <2> QED BY <1>1, <2>1, NextStartFits
<1> HIDE DEF elapsed, start, localTime, emptied, flushed
<1>11. CASE /\ localTime < BufferTimesteps
            /\ StoreVisibility(bl, start, localTime, uvw, vis)
            /\ timeindices' = timeindices \cup {now}
            /\ NoFlush
  <2>1. localTime \in Slots
    BY <1>1, <1>5, <1>11 DEF Slots
  <2>2. Stores(bl, start, localTime)
    BY <1>6, <1>11 DEF Stores, elapsed
  <2> QED BY <1>5, <2>1, <2>2
<1>12. CASE /\ localTime >= BufferTimesteps
            /\ timeindices = {}
            /\ StoreVisibility(bl, emptied, LocalTime(now, emptied), uvw, vis)
            /\ timeindices' = {now}
            /\ NoFlush
  <2>1. timeindices' = timeindices \cup {now}
    BY <1>12
  <2>2. Stores(bl, emptied, LocalTime(now, emptied))
    BY <1>7, <1>12, <2>1 DEF Stores, elapsed
  <2> QED BY <1>9, <2>2
<1>13. CASE /\ localTime >= BufferTimesteps
            /\ timeindices # {}
            /\ SwapAndStart
            /\ StoreVisibility(bl, flushed, LocalTime(now, flushed), UvwAfterSwap, vis2)
            /\ timeindices' = {now}
  <2>1. Stores(bl, flushed, LocalTime(now, flushed))
    BY <1>13 DEF Stores
  <2> QED BY <1>10, <2>1
<1> QED BY <1>8, <1>11, <1>12, <1>13

-----------------------------------------------------------------------------
(* Types are kept. *)

(* The buffers after a swap. *)
LEMMA SwapTypes ==
    ASSUME TypesInv, SwapAndStart
    PROVE  /\ uvw2' \in [Cells -> StampOrNone] /\ vis2' \in [Cells -> StampOrNone]
           /\ AtermsTypeOK(atermOffsets', aterms') /\ OffsetsInOrder(atermOffsets')
           /\ AtermsTypeOK(atermOffsets2', aterms2') /\ OffsetsInOrder(atermOffsets2')
           /\ worker' \in [Threads -> Workers] /\ plan' = plan /\ gridded' = gridded
           /\ batch' \in 0 .. MaxFlushes
<1>1. /\ uvw2' = uvw /\ vis2' = vis /\ plan' = plan /\ gridded' = gridded
      /\ atermOffsets2' = atermOffsets /\ aterms2' = aterms
      /\ atermOffsets' = DefaultOffsets /\ aterms' = <<LastAterm>>
      /\ batch < MaxFlushes /\ batch' = batch + 1
      /\ worker' = [worker EXCEPT ![batch + 1] = "started"]
  BY DEF SwapAndStart, AtermsAfterSwap
<1>2. /\ uvw \in [Cells -> StampOrNone] /\ vis \in [Cells -> StampOrNone]
      /\ AtermsTypeOK(atermOffsets, aterms) /\ OffsetsInOrder(atermOffsets)
      /\ worker \in [Threads -> Workers] /\ batch \in 0 .. MaxFlushes
  BY DEF TypesInv, TypeOK, BufferTypeOK
<1>3. AtermsTypeOK(DefaultOffsets, <<LastAterm>>)
  <2>1. LastAterm \in 0 .. MaxAterms
    BY LastPlaces DEF TypesInv, TypeOK, BufferTypeOK
  <2> QED BY <2>1, DefaultType
<1>4. batch' \in 0 .. MaxFlushes
  BY <1>1, <1>2, MaxFlushesAssumption
<1>5. worker' \in [Threads -> Workers]
  BY <1>1, <1>2 DEF Workers
<1> QED BY <1>1, <1>2, <1>3, <1>4, <1>5, DefaultInOrder

(* The client's records. *)
LEMMA SubmittedTypes ==
    ASSUME TypesInv, NEW bl \in Baselines, GridVisibilities(bl)
    PROVE  /\ submitted' \in SUBSET [baseline : Baselines, stamp : Stamps, aterm : 0 .. MaxAterms]
           /\ <<pass, now>> \in Stamps
<1>1. /\ submitted' = submitted \cup {[baseline |-> bl, stamp |-> <<pass, now>>, aterm |-> atermSet]}
      /\ submitted \in SUBSET [baseline : Baselines, stamp : Stamps, aterm : 0 .. MaxAterms]
      /\ atermSet \in 0 .. MaxAterms
  BY DEF GridVisibilities, TypesInv, TypeOK, BufferTypeOK
<1>2. <<pass, now>> \in Stamps
  BY DEF TypesInv, TypeOK, BufferTypeOK, Stamps
<1> QED BY <1>1, <1>2

LEMMA GridVisibilitiesTypes ==
    ASSUME TypesInv, FrontInv, NEW bl \in Baselines, GridVisibilities(bl)
    PROVE  TypesInv'
<1>1. PICK start \in Nat : \E t \in Slots : Stores(bl, start, t)
  BY Submission
<1>2. PICK t \in Slots : Stores(bl, start, t)
  BY <1>1
<1>3. <<bl, t>> \in Cells /\ <<pass, now>> \in StampOrNone
  BY SubmittedTypes DEF Cells, StampOrNone
<1>4. /\ uvw \in [Cells -> StampOrNone] /\ vis \in [Cells -> StampOrNone]
      /\ vis2 \in [Cells -> StampOrNone] /\ NoUvw \in [Cells -> StampOrNone]
      /\ timeindices \in SUBSET Times /\ now \in Times
  BY DEF TypesInv, TypeOK, BufferTypeOK, NoUvw, StampOrNone
<1>5. /\ uvw' \in [Cells -> StampOrNone] /\ vis' \in [Cells -> StampOrNone]
      /\ timeStart' \in Nat /\ timeindices' \in SUBSET Times
  BY <1>2, <1>3, <1>4 DEF Stores, StoreVisibility, UvwAfterSwap
<1>6. caller' = "ready" /\ UNCHANGED <<now, pass, atermSet>>
  BY DEF GridVisibilities, clientVars
<1>7. CASE NoFlush
  BY <1>5, <1>6, <1>7, SubmittedTypes DEF NoFlush, atermVars, backVars, workerVars,
     TypesInv, TypeOK, BufferTypeOK, AtermsTypeOK
<1>8. CASE SwapAndStart
  BY <1>5, <1>6, <1>8, SubmittedTypes, SwapTypes DEF TypesInv, TypeOK, BufferTypeOK
<1> QED BY <1>2, <1>7, <1>8 DEF Stores

LEMMA FlushTypes ==
    ASSUME TypesInv, FlushBuffer, UNCHANGED <<clientVars, submitted>>,
           caller' \in {"ready", "joining"}
    PROVE  TypesInv'
<1>1. SwapAndStart /\ uvw' = NoUvw /\ vis' = vis2 /\ timeindices' = {}
  BY DEF FlushBuffer, UvwAfterSwap
<1>2. timeStart' \in Nat
  BY IntRangeType DEF FlushBuffer, TypesInv, TypeOK, BufferTypeOK
<1>3. uvw' \in [Cells -> StampOrNone]
  BY <1>1 DEF NoUvw, StampOrNone
<1> QED BY <1>1, <1>2, <1>3, SwapTypes DEF TypesInv, TypeOK, BufferTypeOK, clientVars

LEMMA SetAtermTypes ==
    ASSUME TypesInv, SetAterm
    PROVE  TypesInv'
<1>1. /\ atermSet' \in 0 .. MaxAterms /\ OffsetsInOrder(atermOffsets')
      /\ aterms' \in Seq(0 .. MaxAterms) /\ Len(atermOffsets') = Len(aterms') + 1
  BY SetAtermResult DEF SetAterm, TypesInv, TypeOK, BufferTypeOK
<1>2. /\ UNCHANGED <<timeStart, timeindices, uvw, vis, now, pass, uvw2, vis2, atermOffsets2,
                     aterms2, worker, plan, gridded, submitted, batch>>
      /\ caller' = "aterm"
  BY DEF SetAterm, SetAtermNow, backVars, workerVars, batchVars
<1>3. atermOffsets' \in Seq(Nat)
  BY <1>1 DEF OffsetsInOrder
<1>4. AtermsTypeOK(atermOffsets', aterms')
  BY <1>1, <1>3 DEF AtermsTypeOK
<1> QED BY <1>1, <1>2, <1>4 DEF TypesInv, TypeOK, BufferTypeOK

LEMMA WorkerPlanTypes ==
    ASSUME TypesInv, NEW n \in Threads, WorkerPlan(n)
    PROVE  TypesInv'
<1>1. /\ plan' = [plan EXCEPT ![n] = PlanOf(uvw2, atermOffsets2)]
      /\ worker' = [worker EXCEPT ![n] = "planned"]
      /\ UNCHANGED <<frontVars, backVars, gridded, clientVars, caller, submitted, batch>>
  BY DEF WorkerPlan, PlanOf
<1>2. PlanOf(uvw2, atermOffsets2) \in SUBSET [cell : Cells, uvw : Stamps, aterm : Nat]
  <2> SUFFICES ASSUME NEW c \in Cells, uvw2[c] # Infinite
               PROVE  uvw2[c] \in Stamps /\ AtermIndex(atermOffsets2, c[2]) \in Nat
    BY DEF PlanOf
  <2>1. uvw2[c] \in Stamps
    BY DEF TypesInv, TypeOK, StampOrNone
  <2>2. c[2] \in Slots
    BY DEF Cells
  <2>3. OffsetsInOrder(atermOffsets2)
    BY DEF TypesInv
  <2>4. AtermIndex(atermOffsets2, c[2]) \in 1 .. Len(atermOffsets2) - 1
    BY <2>2, <2>3, AtermIndexOf
  <2>5. Len(atermOffsets2) \in Nat
    BY <2>3 DEF OffsetsInOrder
  <2> QED BY <2>1, <2>4, <2>5
<1>3. worker' \in [Threads -> Workers] /\ plan' \in [Threads -> SUBSET [cell : Cells, uvw : Stamps, aterm : Nat]]
  BY <1>1, <1>2 DEF TypesInv, TypeOK, Workers
<1> QED BY <1>1, <1>3 DEF TypesInv, TypeOK, BufferTypeOK, AtermsTypeOK, frontVars, batchVars,
        atermVars, backVars, clientVars

LEMMA WorkerGridTypes ==
    ASSUME TypesInv, IInv, NEW n \in Threads, WorkerGrid(n)
    PROVE  TypesInv'
<1>1. /\ plan' = [plan EXCEPT ![n] = {}]
      /\ worker' = [worker EXCEPT ![n] = "returned"]
      /\ UNCHANGED <<frontVars, backVars, clientVars, caller, submitted, batch>>
  BY DEF WorkerGrid
<1> DEFINE Rows == [baseline : Baselines, slot : Slots, batch : Nat, plannedUvw : Stamps,
                    uvw : Stamps, stamp : StampOrNone, aterm : 0 .. MaxAterms]
<1>2. ASSUME NEW c \in PlannedCells PROVE GridRow(n, c) \in Rows
  <2>1. c \in Cells /\ c[1] \in Baselines /\ c[2] \in Slots
    BY DEF PlannedCells, Cells
  <2>2. uvw2[c] \in Stamps /\ vis2[c] \in StampOrNone
    BY <2>1 DEF TypesInv, TypeOK, StampOrNone, PlannedCells
  <2>3. /\ OffsetsInOrder(atermOffsets2) /\ aterms2 \in Seq(0 .. MaxAterms)
        /\ Len(atermOffsets2) = Len(aterms2) + 1
    BY DEF TypesInv, TypeOK, AtermsTypeOK
  <2>4. AtermIndex(atermOffsets2, c[2]) \in 1 .. Len(aterms2)
    <3>1. AtermIndex(atermOffsets2, c[2]) \in 1 .. Len(atermOffsets2) - 1
      BY <2>1, <2>3, AtermIndexOf
    <3>2. Len(aterms2) \in Nat
      BY <2>3
    <3> QED BY <2>3, <3>1, <3>2
  <2> DEFINE A == 0 .. MaxAterms
             k == AtermIndex(atermOffsets2, c[2])
  <2>5. aterms2 \in Seq(A) /\ k \in 1 .. Len(aterms2)
    BY <2>3, <2>4
  <2> HIDE DEF A, k
  <2>6. aterms2[k] \in A
    BY <2>5
  <2>7. n \in Nat
    BY MaxFlushesAssumption DEF Threads
  <2> USE DEF A, k
  <2> QED BY <2>1, <2>2, <2>6, <2>7 DEF GridRow
<1>3. gridded' \subseteq Rows
  <2> SUFFICES ASSUME NEW g \in gridded' PROVE g \in Rows
    OBVIOUS
  <2>1. CASE g \in gridded
    BY <2>1 DEF TypesInv, TypeOK
  <2>2. CASE g \notin gridded
    BY <2>2, <1>2, WhatIsGridded
  <2> QED BY <2>1, <2>2
<1>4. worker' \in [Threads -> Workers] /\ plan' \in [Threads -> SUBSET [cell : Cells, uvw : Stamps, aterm : Nat]]
  BY <1>1 DEF TypesInv, TypeOK, Workers
<1> QED BY <1>1, <1>3, <1>4 DEF TypesInv, TypeOK, BufferTypeOK, AtermsTypeOK, frontVars, batchVars,
        atermVars, backVars, clientVars

-----------------------------------------------------------------------------
(* Nothing is lost. *)

(* The client waits for the flush threads with an empty front buffer. *)
CallerInv == caller \in {"joining", "finished"} => timeindices = {}

(* A submitted visibility is in the front buffer, waits in the back buffer or
   is on the grid. *)
KeptInv == \A s \in Entered : s \in Holdings(uvw) \/ s \in Done \/ (Pending /\ s \in Holdings(uvw2))

GInv == IInv /\ TypesInv /\ FrontInv /\ CallerInv /\ KeptInv

(* Writing a visibility in a cell without one. *)
LEMMA StoreKeeps ==
    ASSUME NEW u, DOMAIN u = Cells, NEW k \in Cells, NEW stamp,
           u[k] = Infinite, stamp # Infinite
    PROVE  Holdings(u) \cup {<<k[1], stamp>>} \subseteq Holdings([u EXCEPT ![k] = stamp])
<1> DEFINE u1 == [u EXCEPT ![k] = stamp]
<1>1. \A c \in Cells : u1[c] = IF c = k THEN stamp ELSE u[c]
  OBVIOUS
<1> HIDE DEF u1
<1>2. <<k[1], stamp>> \in Holdings(u1)
  BY <1>1 DEF Holdings
<1>3. ASSUME NEW c \in Cells, u[c] # Infinite PROVE <<c[1], u[c]>> \in Holdings(u1)
  BY <1>1, <1>3 DEF Holdings
<1>4. Holdings(u) \subseteq Holdings(u1)
  BY <1>3 DEF Holdings
<1> QED BY <1>2, <1>4 DEF u1

(* A flush waits for the flush thread and starts another one. *)
LEMMA SwapPends ==
    ASSUME IInv, SwapAndStart
    PROVE  ~Pending /\ Pending'
<1>1. /\ batch < MaxFlushes /\ batch \in Nat /\ worker' = [worker EXCEPT ![batch + 1] = "started"]
      /\ DOMAIN worker = Threads
      /\ \A n \in Threads : /\ n > batch => worker[n] = "none"
                            /\ n < batch => worker[n] = "returned"
                            /\ n = batch => worker[n] = "returned"
  BY DEF SwapAndStart, Joined, IInv, LastRuns
<1>2. batch + 1 \in Threads
  BY <1>1, MaxFlushesAssumption DEF Threads
<1>3. Pending'
  BY <1>1, <1>2 DEF Pending
<1>4. ASSUME NEW n \in Threads PROVE worker[n] \notin {"started", "planned"}
  BY <1>1, MaxFlushesAssumption DEF Threads
<1> QED BY <1>3, <1>4 DEF Pending

(* The slot of a time that is not in the batch with this baseline is free: what
   is in it would be of the same time. *)
LEMMA SlotFree ==
    ASSUME GInv, NEW bl \in Baselines, GridVisibilities(bl), NEW t \in Slots,
           LocalTime(now, timeStart) = t \/ timeindices = {}
    PROVE  uvw[<<bl, t>>] = Infinite
<1>1. SUFFICES ASSUME uvw[<<bl, t>>] # Infinite PROVE FALSE
  OBVIOUS
<1> DEFINE c == <<bl, t>>
<1>2. c \in Cells /\ c[1] = bl /\ c[2] = t /\ uvw[c] # Infinite
  BY <1>1 DEF Cells
<1> HIDE DEF c
<1>3. /\ timeindices = {} => uvw = NoUvw
      /\ uvw[c][1] = pass /\ uvw[c][2] \in timeindices
      /\ LocalTime(uvw[c][2], timeStart) = t
  BY <1>2 DEF GInv, FrontInv
<1>4. /\ timeindices \in SUBSET Times /\ now \in Times /\ timeStart \in Int
      /\ uvw[c] \in Stamps
  BY <1>2 DEF GInv, TypesInv, TypeOK, BufferTypeOK, StampOrNone
<1>5. LocalTime(now, timeStart) = t
  BY <1>3
<1>6. uvw[c][2] = now
  BY <1>3, <1>4, <1>5, LocalTimeApart
<1>7. uvw[c] = <<pass, now>>
  BY <1>3, <1>4, <1>6 DEF Stamps
<1>8. <<bl, <<pass, now>>>> \in Entered
  <2>1. <<c[1], uvw[c]>> \in Holdings(uvw)
    BY <1>2 DEF Holdings
  <2> QED BY <1>2, <1>7, <2>1 DEF GInv, IInv, Whereabouts
<1> QED BY <1>8 DEF GridVisibilities, Entered

(* What a submission leaves in the front buffer. *)
LEMMA GridVisibilitiesKeep ==
    ASSUME GInv, NEW bl \in Baselines, GridVisibilities(bl)
    PROVE  FrontInv' /\ CallerInv' /\ KeptInv'
<1>1. PICK start \in Nat : \E t \in Slots : LocalTime(now, start) = t /\ Stores(bl, start, t)
  BY Submission DEF GInv
<1>2. PICK t \in Slots : LocalTime(now, start) = t /\ Stores(bl, start, t)
  BY <1>1
<1> DEFINE stamp == <<pass, now>>
           k == <<bl, t>>
<1>3. /\ now' = now /\ pass' = pass /\ caller' = "ready" /\ now \in Nat
      /\ timeindices \in SUBSET Times /\ timeStart' = start
      /\ \A i \in timeindices : i \in Nat
      /\ uvw \in [Cells -> StampOrNone]
  BY <1>2, IntRangeType DEF GridVisibilities, clientVars, GInv, TypesInv, TypeOK, BufferTypeOK,
     Times, Stores, StoreVisibility
<1>4. k \in Cells /\ k[1] = bl /\ k[2] = t /\ stamp[1] = pass /\ stamp[2] = now
  BY DEF Cells
<1>5. stamp # Infinite
  BY <1>3 DEF Infinite
<1>6. Entered' = Entered \cup {<<bl, stamp>>}
  <2> DEFINE s1 == [baseline |-> bl, stamp |-> stamp, aterm |-> atermSet]
  <2>1. submitted' = submitted \cup {s1}
    BY DEF GridVisibilities
  <2>2. <<s1.baseline, s1.stamp>> = <<bl, stamp>>
    OBVIOUS
  <2> HIDE DEF s1, stamp
  <2> QED BY <2>1, <2>2 DEF Entered
<1>7. CallerInv'
  BY <1>3 DEF CallerInv
<1>8. CASE /\ StoreVisibility(bl, start, t, uvw, vis)
           /\ timeindices' = timeindices \cup {now}
           /\ start = timeStart \/ (timeindices = {} /\ LocalTime(now, timeStart) \notin Slots)
           /\ NoFlush
  <2>1. uvw' = [uvw EXCEPT ![k] = stamp]
    BY <1>8 DEF StoreVisibility
  <2>2. uvw[k] = Infinite
    BY <1>2, <1>8, SlotFree
  <2> HIDE DEF k, stamp
  <2>3. \A c \in Cells : uvw'[c] = IF c = k THEN stamp ELSE uvw[c]
    BY <2>1, <1>3
  <2>4. FrontInv'
    <3>1. timeindices' # {}
      BY <1>8
    <3>2. ASSUME NEW i \in timeindices' PROVE i <= now /\ LocalTime(i, start) \in Slots
      <4>1. CASE i = now
        BY <4>1, <1>2, <1>3
      <4>2. CASE i # now
        BY <4>2, <1>8 DEF GInv, FrontInv
      <4> QED BY <4>1, <4>2
    <3>3. ASSUME NEW c \in Cells, uvw'[c] # Infinite
          PROVE  /\ uvw'[c][1] = pass /\ uvw'[c][2] \in timeindices'
                 /\ LocalTime(uvw'[c][2], start) = c[2]
      <4>1. CASE c = k
        BY <4>1, <2>3, <1>2, <1>4, <1>8
      <4>2. CASE c # k
        <5>1. uvw'[c] = uvw[c] /\ uvw[c] # Infinite
          BY <4>2, <3>3, <2>3
        <5>2. /\ uvw[c][1] = pass /\ uvw[c][2] \in timeindices
              /\ LocalTime(uvw[c][2], timeStart) = c[2]
          BY <5>1 DEF GInv, FrontInv
        <5> QED BY <5>1, <5>2, <1>8
      <4> QED BY <4>1, <4>2
    <3> QED BY <3>1, <3>2, <3>3, <1>3 DEF FrontInv
  <2>5. Holdings(uvw) \cup {<<bl, stamp>>} \subseteq Holdings(uvw')
    BY <2>1, <2>2, <1>3, <1>4, <1>5, StoreKeeps
  <2>6. /\ Holdings(uvw)' = Holdings(uvw') /\ Holdings(uvw2)' = Holdings(uvw2)
        /\ Done' = Done /\ Pending' = Pending
    BY <1>8 DEF NoFlush, backVars, workerVars, Holdings, Done, Pending
  <2>7. KeptInv'
    BY <2>5, <2>6, <1>6 DEF GInv, KeptInv
  <2> QED BY <2>4, <2>7, <1>7
<1>9. CASE /\ timeindices # {}
           /\ SwapAndStart
           /\ StoreVisibility(bl, start, t, UvwAfterSwap, vis2)
           /\ timeindices' = {now}
  <2>1. uvw' = [NoUvw EXCEPT ![k] = stamp]
    BY <1>9 DEF StoreVisibility, UvwAfterSwap
  <2> HIDE DEF k, stamp
  <2>2. DOMAIN NoUvw = Cells /\ \A c \in Cells : NoUvw[c] = Infinite
    BY DEF NoUvw
  <2>3. \A c \in Cells : uvw'[c] = IF c = k THEN stamp ELSE Infinite
    BY <2>1, <2>2
  <2>4. FrontInv'
    BY <2>3, <1>2, <1>3, <1>4, <1>9 DEF FrontInv
  <2>5. <<bl, stamp>> \in Holdings(uvw')
    BY <2>1, <2>2, <1>4, <1>5, StoreKeeps
  <2>6. ~Pending /\ Pending'
    BY <1>9, SwapPends DEF GInv
  <2>7. /\ Holdings(uvw)' = Holdings(uvw') /\ Holdings(uvw2)' = Holdings(uvw) /\ Done' = Done
    BY <1>9 DEF SwapAndStart, Holdings, Done
  <2>8. KeptInv'
    BY <2>5, <2>6, <2>7, <1>6 DEF GInv, KeptInv
  <2> QED BY <2>4, <2>8, <1>7
<1> QED BY <1>2, <1>8, <1>9 DEF Stores

(* flush() empties the front buffer, whose visibilities then wait in the back
   buffer. *)
LEMMA FlushKeeps ==
    ASSUME GInv, FlushBuffer, submitted' = submitted
    PROVE  FrontInv' /\ CallerInv' /\ KeptInv'
<1>1. uvw' = NoUvw /\ SwapAndStart /\ timeindices' = {}
  BY DEF FlushBuffer, UvwAfterSwap
<1>2. FrontInv'
  BY <1>1 DEF FrontInv, NoUvw
<1>3. ~Pending /\ Pending'
  BY <1>1, SwapPends DEF GInv
<1>4. Holdings(uvw2)' = Holdings(uvw) /\ Done' = Done /\ Entered' = Entered
  BY <1>1 DEF SwapAndStart, Holdings, Done, Entered
<1>5. KeptInv'
  BY <1>3, <1>4 DEF GInv, KeptInv
<1> QED BY <1>1, <1>2, <1>5 DEF CallerInv

(* Steps of the client that store nothing, with the time and the pass going on
   as they may. *)
LEMMA OtherKeeps ==
    ASSUME GInv,
           UNCHANGED <<timeStart, timeindices, uvw, vis, uvw2, vis2, worker, gridded, submitted>>,
           (now' \in Nat /\ now <= now' /\ pass' = pass) \/ timeindices = {},
           caller' = caller \/ caller' \in {"ready", "aterm"} \/ timeindices = {}
    PROVE  FrontInv' /\ CallerInv' /\ KeptInv'
<1>1. timeindices \in SUBSET Nat /\ now \in Nat
  BY IntRangeType DEF GInv, TypesInv, TypeOK, BufferTypeOK, Times
<1>2. FrontInv
  BY DEF GInv
<1>3. FrontInv'
  <2>1. CASE timeindices = {}
    <3>1. uvw' = NoUvw /\ timeindices' = {}
      BY <2>1, <1>2 DEF FrontInv
    <3> QED BY <3>1 DEF FrontInv, NoUvw
  <2>2. CASE timeindices # {}
    <3>1. /\ now' \in Nat /\ now <= now' /\ pass' = pass
          /\ timeindices' = timeindices /\ timeStart' = timeStart /\ uvw' = uvw
      BY <2>2
    <3>2. ASSUME NEW t \in timeindices PROVE t <= now' /\ LocalTime(t, timeStart) \in Slots
      BY <3>1, <1>1, <1>2 DEF FrontInv
    <3> QED BY <2>2, <3>1, <3>2, <1>2 DEF FrontInv
  <2> QED BY <2>1, <2>2
<1>4. KeptInv'
  BY DEF GInv, KeptInv, Holdings, Done, Entered, Pending
<1>5. CallerInv'
  BY DEF GInv, CallerInv
<1> QED BY <1>3, <1>4, <1>5

(* A flush thread puts all that waits in the back buffer on the grid. *)
LEMMA WorkerKeeps ==
    ASSUME GInv, NEW n \in Threads, WorkerStep(n)
    PROVE  FrontInv' /\ CallerInv' /\ KeptInv'
<1>1. UNCHANGED <<frontVars, backVars, clientVars, caller, submitted>>
  BY DEF WorkerStep, WorkerPlan, WorkerGrid
<1>2. FrontInv' /\ CallerInv'
  BY <1>1 DEF GInv, FrontInv, CallerInv, frontVars, batchVars, clientVars
<1>3. /\ Holdings(uvw)' = Holdings(uvw) /\ Holdings(uvw2)' = Holdings(uvw2)
      /\ Entered' = Entered
  BY <1>1 DEF Holdings, Entered, frontVars, backVars
<1>4. CASE WorkerPlan(n)
  <2>1. worker' = [worker EXCEPT ![n] = "planned"] /\ gridded' = gridded /\ DOMAIN worker = Threads
    BY <1>4 DEF WorkerPlan, GInv, IInv, LastRuns
  <2>2. Done' = Done /\ Pending'
    BY <2>1 DEF Done, Pending
  <2> QED BY <1>2, <1>3, <2>2 DEF GInv, KeptInv
<1>5. CASE WorkerGrid(n)
  <2>1. gridded \subseteq gridded' /\ \A c \in PlannedCells : GridRow(n, c) \in gridded'
    BY <1>5, WhatIsGridded DEF GInv
  <2>2. Done \subseteq Done'
    BY <2>1 DEF Done
  <2>3. ASSUME NEW s \in Holdings(uvw2) PROVE s \in Done'
    <3>1. PICK c \in Cells : uvw2[c] # Infinite /\ s = <<c[1], uvw2[c]>>
      BY DEF Holdings
    <3>2. GridRow(n, c) \in gridded' /\ vis2[c] = uvw2[c]
      BY <3>1, <2>1 DEF PlannedCells, GInv, IInv, Buffers, Together
    <3>3. s = <<GridRow(n, c).baseline, GridRow(n, c).stamp>>
      BY <3>1, <3>2 DEF GridRow
    <3> DEFINE g == GridRow(n, c)
    <3>4. g \in gridded' /\ s = <<g.baseline, g.stamp>>
      BY <3>2, <3>3
    <3> HIDE DEF g
    <3> QED BY <3>4 DEF Done
  <2> QED BY <1>2, <1>3, <2>2, <2>3 DEF GInv, KeptInv
<1> QED BY <1>4, <1>5 DEF WorkerStep

LEMMA GInitially == Init => GInv
<1> SUFFICES ASSUME Init PROVE GInv
  OBVIOUS
<1>1. /\ timeStart = 0 /\ timeindices = {} /\ uvw = NoUvw /\ uvw2 = NoUvw
      /\ vis = [cell \in Cells |-> Infinite] /\ vis2 = [cell \in Cells |-> Infinite]
      /\ atermOffsets = DefaultOffsets /\ aterms = <<0>>
      /\ atermOffsets2 = DefaultOffsets /\ aterms2 = <<0>>
      /\ now = 0 /\ pass = 0 /\ atermSet = 0
      /\ worker = [n \in Threads |-> "none"] /\ plan = [n \in Threads |-> {}]
      /\ caller = "ready" /\ submitted = {} /\ gridded = {} /\ batch = 0
  BY DEF Init, BufferInit
<1>2. NoUvw \in [Cells -> StampOrNone] /\ vis \in [Cells -> StampOrNone] /\ vis2 \in [Cells -> StampOrNone]
  BY <1>1 DEF NoUvw, StampOrNone
<1>3. AtermsTypeOK(DefaultOffsets, <<0>>)
  BY BufferAssumption, DefaultType
<1>4. now \in Times /\ pass \in 0 .. MaxPasses - 1 /\ atermSet \in 0 .. MaxAterms /\ batch \in 0 .. MaxFlushes
  BY <1>1, BufferAssumption, MaxFlushesAssumption DEF Times
<1>5. TypesInv
  BY <1>1, <1>2, <1>3, <1>4, DefaultInOrder DEF TypesInv, TypeOK, BufferTypeOK, Workers
<1>6. FrontInv /\ CallerInv
  BY <1>1 DEF FrontInv, CallerInv, NoUvw
<1>7. KeptInv
  BY <1>1 DEF KeptInv, Entered
<1> QED BY <1>5, <1>6, <1>7, Initially DEF GInv

(* Steps that change none of the client's records or buffers. *)
LEMMA OtherTypes ==
    ASSUME TypesInv, UNCHANGED <<frontVars, backVars, workerVars, atermSet, submitted, batch>>,
           now' \in Times, pass' \in 0 .. MaxPasses - 1,
           caller' \in {"ready", "aterm", "joining", "finished"}
    PROVE  TypesInv'
BY DEF TypesInv, TypeOK, BufferTypeOK, AtermsTypeOK, frontVars, batchVars, atermVars,
   backVars, workerVars

LEMMA GStep == GInv /\ [Next]_vars => GInv'
<1> SUFFICES ASSUME GInv, [Next]_vars PROVE GInv'
  OBVIOUS
<1>1. IInv'
  BY Step DEF GInv
<1>2. /\ IInv /\ TypesInv /\ FrontInv
      /\ now \in Times /\ now \in Nat /\ pass \in 0 .. MaxPasses - 1
      /\ caller \in {"ready", "aterm", "joining", "finished"}
  BY DEF GInv, TypesInv, TypeOK, BufferTypeOK, Times
<1> SUFFICES TypesInv' /\ FrontInv' /\ CallerInv' /\ KeptInv'
  BY <1>1 DEF GInv
<1>3. ASSUME UNCHANGED <<frontVars, backVars, workerVars, atermSet, submitted, batch>>,
             now' \in Times, pass' \in 0 .. MaxPasses - 1,
             caller' \in {"ready", "aterm", "joining", "finished"},
             (now <= now' /\ pass' = pass) \/ timeindices = {},
             caller' = caller \/ timeindices = {}
      PROVE  TypesInv' /\ FrontInv' /\ CallerInv' /\ KeptInv'
  <2>1. TypesInv'
    BY <1>2, <1>3, OtherTypes
  <2>2. now' \in Nat
    BY <1>3 DEF Times
  <2>3. UNCHANGED <<timeStart, timeindices, uvw, vis, uvw2, vis2, worker, gridded, submitted>>
    BY <1>3 DEF frontVars, batchVars, backVars, workerVars
  <2> QED BY <1>3, <2>1, <2>2, <2>3, OtherKeeps
<1>4. CASE NextTime
  <2>1. now' \in Times /\ now <= now'
    BY <1>2, <1>4, IntRangeType DEF NextTime, Times
  <2> QED BY <1>2, <1>3, <1>4, <2>1 DEF NextTime
<1>5. CASE NextPass
  <2>1. now' \in Times /\ pass' \in 0 .. MaxPasses - 1
    BY <1>2, <1>5, BufferAssumption DEF NextPass, Times
  <2> QED BY <1>2, <1>3, <1>5, <2>1 DEF NextPass
<1>6. ASSUME NEW bl \in Baselines, GridVisibilities(bl)
      PROVE  TypesInv' /\ FrontInv' /\ CallerInv' /\ KeptInv'
  BY <1>2, <1>6, GridVisibilitiesTypes, GridVisibilitiesKeep
<1>7. CASE SetAterm
  <2>1. TypesInv'
    BY <1>2, <1>7, SetAtermTypes
  <2>2. /\ UNCHANGED <<timeStart, timeindices, uvw, vis, uvw2, vis2, worker, gridded, submitted>>
        /\ now' = now /\ pass' = pass /\ caller' = "aterm"
    BY <1>7 DEF SetAterm, SetAtermNow, batchVars, backVars, workerVars
  <2> QED BY <1>2, <2>1, <2>2, OtherKeeps
<1>8. ASSUME FlushBuffer, UNCHANGED <<clientVars, submitted>>, caller' \in {"ready", "joining"}
      PROVE  TypesInv' /\ FrontInv' /\ CallerInv' /\ KeptInv'
  BY <1>2, <1>8, FlushTypes, FlushKeeps
<1>9. CASE Flush
  BY <1>8, <1>9 DEF Flush
<1>10. CASE Finish
  <2>1. CASE FlushBuffer
    BY <1>8, <1>10, <2>1 DEF Finish
  <2>2. CASE timeindices = {} /\ UNCHANGED <<frontVars, backVars, workerVars, batch>>
    BY <1>2, <1>3, <1>10, <2>2 DEF Finish, clientVars
  <2> QED BY <1>10, <2>1, <2>2 DEF Finish
<1>11. CASE FinishJoin
  BY <1>2, <1>3, <1>11 DEF FinishJoin, clientVars, GInv, CallerInv
<1>12. ASSUME NEW n \in Threads, WorkerStep(n)
       PROVE  TypesInv' /\ FrontInv' /\ CallerInv' /\ KeptInv'
  BY <1>2, <1>12, WorkerPlanTypes, WorkerGridTypes, WorkerKeeps DEF WorkerStep
<1>13. CASE UNCHANGED vars
  BY <1>2, <1>3, <1>13 DEF vars, bufferVars, clientVars
<1> QED BY <1>4, <1>5, <1>6, <1>7, <1>9, <1>10, <1>11, <1>12, <1>13 DEF Next

(* The variables keep their types: the slots written exist, the a-terms looked
   up exist, whatever the time indices and however far they jump. *)
THEOREM TypesAlwaysOK == Spec => []TypeOK
<1>1. GInv => TypeOK
  BY DEF GInv, TypesInv
<1> QED BY <1>1, GInitially, GStep, PTL DEF Spec

(* No submitted visibility is lost: not to one that is written over it, not to
   a swap of the buffers and not when finished() returns. *)
THEOREM AllOnGridOrHeld == Spec => []NoVisibilityLost
<1>1. ASSUME GInv PROVE NoVisibilityLost
  <2> DEFINE Holds(s, u, v) == \E t \in Slots : /\ u[<<s.baseline, t>>] = s.stamp
                                                /\ v[<<s.baseline, t>>] = s.stamp
  <2>1. ASSUME NEW s \in submitted, NEW u, NEW v, Together(u, v), <<s.baseline, s.stamp>> \in Holdings(u)
        PROVE  Holds(s, u, v)
    <3>1. PICK c \in Cells : u[c] # Infinite /\ s.baseline = c[1] /\ s.stamp = u[c]
      BY <2>1 DEF Holdings
    <3>2. v[c] = u[c] /\ c = <<c[1], c[2]>> /\ c[2] \in Slots
      BY <2>1, <3>1 DEF Together, Cells
    <3> QED BY <3>1, <3>2
  <2>2. ASSUME NEW s \in submitted
        PROVE  \/ caller # "finished" /\ timeindices # {} /\ Holds(s, uvw, vis)
               \/ (\E n \in Threads : worker[n] \in {"started", "planned"}) /\ Holds(s, uvw2, vis2)
               \/ \E g \in gridded : g.baseline = s.baseline /\ g.stamp = s.stamp
    <3> DEFINE e == <<s.baseline, s.stamp>>
    <3>1. e \in Entered /\ Together(uvw, vis) /\ Together(uvw2, vis2)
      BY <1>1 DEF Entered, GInv, IInv, Buffers
    <3>2. CASE e \in Holdings(uvw)
      <4>1. Holds(s, uvw, vis)
        BY <3>1, <3>2, <2>1
      <4>2. timeindices # {}
        BY <1>1, <3>2 DEF GInv, FrontInv, Holdings, NoUvw
      <4> QED BY <1>1, <4>1, <4>2 DEF GInv, CallerInv
    <3>3. CASE Pending /\ e \in Holdings(uvw2)
      BY <3>1, <3>3, <2>1 DEF Pending
    <3>4. CASE e \in Done
      BY <3>4 DEF Done
    <3> QED BY <1>1, <3>1, <3>2, <3>3, <3>4 DEF GInv, KeptInv
  <2> QED BY <2>2 DEF NoVisibilityLost
<1> QED BY <1>1, GInitially, GStep, PTL DEF Spec

-----------------------------------------------------------------------------
(* A-terms. *)

(* The a-term that a plan gives to the visibilities of a buffer. *)
WithAterm(u, offsets, terms) ==
    \A c \in Cells : u[c] # Infinite =>
        [baseline |-> c[1], stamp |-> u[c], aterm |-> terms[AtermIndex(offsets, c[2])]] \in submitted

(* Where the last a-term starts: at the time of the client when it was set just
   now, else not after the last time in the batch. *)
LastStarts ==
    IF caller = "aterm"
    THEN LastOffset = LocalTime(now, timeStart) /\ (LastOffset = BufferTimesteps => timeindices # {})
    ELSE LastOffset = 0 \/ \E t \in timeindices : LastOffset <= LocalTime(t, timeStart)

AtermInv ==
    /\ LastAterm = atermSet /\ LastStarts
    /\ WithAterm(uvw, atermOffsets, aterms)
    /\ WithAterm(uvw2, atermOffsets2, aterms2)

AInv == GInv /\ AtermInv /\ GriddedWithItsAterm

(* A buffer that was not written is still with its a-terms. *)
LEMMA WithAtermKept ==
    ASSUME NEW u, NEW o, NEW terms, WithAterm(u, o, terms), submitted \subseteq submitted'
    PROVE  WithAterm(u, o, terms)'
BY DEF WithAterm

(* A visibility gets the last a-term, which starts before it, or at its slot. *)
LEMMA AtermOfSubmission ==
    ASSUME AInv, CarefulAterms, NEW t \in Slots, NEW start \in Nat, LocalTime(now, start) = t,
           start = timeStart \/ (timeindices = {} /\ LocalTime(now, timeStart) \notin Slots)
    PROVE  LastOffset <= t /\ aterms[AtermIndex(atermOffsets, t)] = atermSet
<1>1. /\ TypesInv /\ FrontInv /\ LastAterm = atermSet /\ LastStarts
      /\ timeStart \in Int /\ now \in Times /\ now \in Nat /\ timeindices \in SUBSET Times
      /\ \A i \in timeindices : i \in Nat
      /\ LastOffset \in Nat /\ LastOffset <= BufferTimesteps
      /\ t \in Nat /\ t < BufferTimesteps /\ BufferTimesteps \in Nat
  BY LastPlaces, IntRangeType DEF AInv, AtermInv, GInv, TypesInv, TypeOK, BufferTypeOK, Slots, Times
<1>2. LastOffset <= t
  <2>1. CASE caller = "aterm"
    <3>1. LastOffset = LocalTime(now, timeStart) /\ (LastOffset = BufferTimesteps => timeindices # {})
      BY <2>1, <1>1 DEF LastStarts
    <3>2. CASE start = timeStart
      BY <3>1, <3>2, <1>1
    <3>3. CASE timeindices = {} /\ LocalTime(now, timeStart) \notin Slots
      BY <3>1, <3>3, <1>1 DEF Slots
    <3> QED BY <3>2, <3>3
  <2>2. CASE LastOffset = 0
    BY <2>2, <1>1
  <2>3. ASSUME NEW i \in timeindices, LastOffset <= LocalTime(i, timeStart) PROVE LastOffset <= t
    <3>1. start = timeStart
      BY <2>3
    <3>2. i <= now /\ LocalTime(i, timeStart) \in Slots
      BY <1>1 DEF FrontInv
    <3>3. t = LocalTime(i, timeStart) + (now - i)
      BY <3>1, <3>2, <1>1, LocalTimeLater
    <3>4. LocalTime(i, timeStart) \in Nat
      BY <3>2, <1>1 DEF Slots
    <3> QED BY <2>3, <3>2, <3>3, <3>4, <1>1
  <2> QED BY <2>1, <2>2, <2>3, <1>1 DEF LastStarts
<1>3. AtermsTypeOK(atermOffsets, aterms) /\ OffsetsInOrder(atermOffsets)
  BY <1>1 DEF TypesInv, TypeOK, BufferTypeOK
<1> QED BY <1>1, <1>2, <1>3, LastAtermOf

(* A submission writes one cell, with the a-term that was set last. *)
LEMMA StoreWithAterm ==
    ASSUME NEW bl \in Baselines, GridVisibilities(bl), NEW t \in Slots,
           NEW u, DOMAIN u = Cells, NEW o, NEW terms, WithAterm(u, o, terms),
           terms[AtermIndex(o, t)] = atermSet,
           NEW u1, u1 = [u EXCEPT ![<<bl, t>>] = <<pass, now>>]
    PROVE  \A c \in Cells : u1[c] # Infinite =>
             [baseline |-> c[1], stamp |-> u1[c], aterm |-> terms[AtermIndex(o, c[2])]] \in submitted'
<1> DEFINE new == [baseline |-> bl, stamp |-> <<pass, now>>, aterm |-> atermSet]
           k == <<bl, t>>
<1>1. submitted' = submitted \cup {new}
  BY DEF GridVisibilities
<1>2. \A c \in Cells : u1[c] = IF c = k THEN <<pass, now>> ELSE u[c]
  OBVIOUS
<1>3. ASSUME NEW c \in Cells, u1[c] # Infinite
      PROVE  [baseline |-> c[1], stamp |-> u1[c], aterm |-> terms[AtermIndex(o, c[2])]] \in submitted'
  <2>1. CASE c = k
    <3>1. c[1] = bl /\ c[2] = t /\ u1[c] = <<pass, now>>
      BY <2>1, <1>2
    <3> QED BY <3>1, <1>1
  <2>2. CASE c # k
    <3>1. u1[c] = u[c] /\ u[c] # Infinite
      BY <2>2, <1>2, <1>3
    <3>2. [baseline |-> c[1], stamp |-> u[c], aterm |-> terms[AtermIndex(o, c[2])]] \in submitted
      BY <3>1 DEF WithAterm
    <3> QED BY <3>1, <3>2, <1>1
  <2> QED BY <2>1, <2>2
<1> QED BY <1>3

(* The a-terms of the front buffer after a submission. *)
LEMMA GridVisibilitiesAterm ==
    ASSUME AInv, CarefulAterms, NEW bl \in Baselines, GridVisibilities(bl)
    PROVE  AtermInv'
<1>1. PICK start \in Nat : \E t \in Slots : LocalTime(now, start) = t /\ Stores(bl, start, t)
  BY Submission DEF AInv, GInv
<1>2. PICK t \in Slots : LocalTime(now, start) = t /\ Stores(bl, start, t)
  BY <1>1
<1>3. /\ caller' = "ready" /\ now' = now /\ atermSet' = atermSet /\ submitted \subseteq submitted'
      /\ DOMAIN uvw = Cells /\ LastAterm = atermSet
      /\ WithAterm(uvw, atermOffsets, aterms) /\ WithAterm(uvw2, atermOffsets2, aterms2)
  BY DEF GridVisibilities, clientVars, AInv, AtermInv, GInv, TypesInv, TypeOK, BufferTypeOK
<1>4. CASE /\ StoreVisibility(bl, start, t, uvw, vis)
           /\ timeindices' = timeindices \cup {now}
           /\ start = timeStart \/ (timeindices = {} /\ LocalTime(now, timeStart) \notin Slots)
           /\ NoFlush
  <2>1. /\ uvw' = [uvw EXCEPT ![<<bl, t>>] = <<pass, now>>] /\ timeStart' = start
        /\ UNCHANGED <<atermOffsets, aterms, uvw2, atermOffsets2, aterms2>>
    BY <1>4 DEF StoreVisibility, NoFlush, atermVars, backVars
  <2>2. LastOffset <= t /\ aterms[AtermIndex(atermOffsets, t)] = atermSet
    BY <1>2, <1>4, AtermOfSubmission
  <2>3. WithAterm(uvw, atermOffsets, aterms)'
    <3>1. PICK u1 : u1 = uvw'
      OBVIOUS
    <3>2. \A c \in Cells : u1[c] # Infinite =>
            [baseline |-> c[1], stamp |-> u1[c], aterm |-> aterms[AtermIndex(atermOffsets, c[2])]] \in submitted'
      BY <1>3, <2>1, <2>2, <3>1, StoreWithAterm
    <3> QED BY <2>1, <3>1, <3>2 DEF WithAterm
  <2>4. WithAterm(uvw2, atermOffsets2, aterms2)'
    BY <1>3, <2>1 DEF WithAterm
  <2>5. LastAterm' = LastAterm /\ LastOffset' = LastOffset
    BY <2>1 DEF LastAterm, LastOffset
  <2>6. LastStarts'
    <3>1. LastOffset' <= LocalTime(now, timeStart')
      BY <1>2, <2>1, <2>2, <2>5
    <3>2. now \in timeindices'
      BY <1>4
    <3> QED BY <1>3, <3>1, <3>2 DEF LastStarts
  <2> QED BY <1>3, <2>3, <2>4, <2>5, <2>6 DEF AtermInv
<1>5. CASE /\ timeindices # {}
           /\ SwapAndStart
           /\ StoreVisibility(bl, start, t, UvwAfterSwap, vis2)
           /\ timeindices' = {now}
  <2>1. /\ uvw' = [NoUvw EXCEPT ![<<bl, t>>] = <<pass, now>>]
        /\ atermOffsets' = DefaultOffsets /\ aterms' = <<LastAterm>>
        /\ uvw2' = uvw /\ atermOffsets2' = atermOffsets /\ aterms2' = aterms
    BY <1>5 DEF StoreVisibility, UvwAfterSwap, SwapAndStart, AtermsAfterSwap
  <2>2. LastOffset' = 0 /\ LastAterm' = LastAterm
    BY <2>1, DefaultLast
  <2>3. LastStarts'
    BY <1>3, <2>2 DEF LastStarts
  <2>4. WithAterm(uvw, atermOffsets, aterms)'
    <3>1. PICK u1 : u1 = uvw'
      OBVIOUS
    <3> DEFINE terms == <<LastAterm>>
    <3>2. DOMAIN NoUvw = Cells /\ WithAterm(NoUvw, DefaultOffsets, terms)
      BY DEF NoUvw, WithAterm
    <3>3. terms[1] = atermSet
      BY <1>3
    <3> HIDE DEF terms
    <3>4. terms[AtermIndex(DefaultOffsets, t)] = atermSet
      BY <3>3, AtermOfFirst
    <3>5. \A c \in Cells : u1[c] # Infinite =>
            [baseline |-> c[1], stamp |-> u1[c], aterm |-> terms[AtermIndex(DefaultOffsets, c[2])]] \in submitted'
      BY <2>1, <3>1, <3>2, <3>4, StoreWithAterm
    <3> QED BY <2>1, <3>1, <3>5 DEF WithAterm, terms
  <2>5. WithAterm(uvw2, atermOffsets2, aterms2)'
    BY <1>3, <2>1 DEF WithAterm
  <2> QED BY <1>3, <2>2, <2>3, <2>4, <2>5 DEF AtermInv
<1> QED BY <1>2, <1>4, <1>5 DEF Stores

(* set_aterm leaves the a-terms of the times before it as they are. *)
LEMMA SetAtermAterm ==
    ASSUME AInv, CarefulAterms, SetAterm
    PROVE  AtermInv'
<1> DEFINE t == LocalTime(now, timeStart)
<1>1. /\ TypesInv /\ IInv /\ FrontInv
      /\ WithAterm(uvw, atermOffsets, aterms) /\ WithAterm(uvw2, atermOffsets2, aterms2)
  BY DEF AInv, GInv, AtermInv
<1>2. /\ UNCHANGED <<timeStart, timeindices, now, uvw, uvw2, atermOffsets2, aterms2, submitted>>
      /\ caller' = "aterm" /\ (t = BufferTimesteps => timeindices # {})
      /\ \A s \in submitted : s.stamp # <<pass, now>>
  BY DEF SetAterm, SetAtermNow, MaySetAterm, batchVars, backVars
<1>3. /\ AtermsTypeOK(atermOffsets, aterms) /\ OffsetsInOrder(atermOffsets)
      /\ atermSet \in 0 .. MaxAterms /\ SetAtermNow
  BY <1>1 DEF TypesInv, TypeOK, BufferTypeOK, SetAterm
<1>4. PICK o1 : o1 = atermOffsets'
  OBVIOUS
<1>5. PICK a1 : a1 = aterms'
  OBVIOUS
<1>7. LastAterm' = atermSet' /\ LastOffset' = t
  BY <1>3, SetAtermResult
<1>8. LastStarts'
  BY <1>2, <1>7 DEF LastStarts
<1>9. WithAterm(uvw, o1, a1)
  <2> SUFFICES ASSUME NEW c \in Cells, uvw[c] # Infinite
               PROVE  [baseline |-> c[1], stamp |-> uvw[c], aterm |-> a1[AtermIndex(o1, c[2])]] \in submitted
    BY DEF WithAterm
  <2> DEFINE k == AtermIndex(atermOffsets, c[2])
             s == [baseline |-> c[1], stamp |-> uvw[c], aterm |-> aterms[k]]
  <2>1. s \in submitted
    BY <1>1 DEF WithAterm
  <2>2. /\ uvw[c][1] = pass /\ uvw[c][2] \in timeindices /\ LocalTime(uvw[c][2], timeStart) = c[2]
        /\ uvw[c][2] <= now /\ c[2] \in Slots
    BY <1>1 DEF FrontInv, Cells
  <2>3. /\ uvw[c] \in Stamps /\ timeindices \in SUBSET Times /\ now \in Times /\ timeStart \in Int
        /\ now \in Nat /\ uvw[c][2] \in Nat /\ c[2] \in Nat
    <3>1. /\ uvw \in [Cells -> StampOrNone] /\ timeindices \in SUBSET Times /\ now \in Times
          /\ timeStart \in Int
      BY <1>1 DEF TypesInv, TypeOK, BufferTypeOK
    <3>2. uvw[c] \in Stamps
      BY <3>1 DEF StampOrNone
    <3>3. now \in Nat /\ uvw[c][2] \in Nat
      <4>1. uvw[c][2] \in Times
        BY <2>2, <3>1
      <4> QED BY <3>1, <4>1, IntRangeType DEF Times
    <3>4. c[2] \in Nat
      BY <2>2, IntRangeType DEF Slots
    <3> QED BY <3>1, <3>2, <3>3, <3>4
  <2>4. uvw[c][2] # now
    <3>1. s.stamp = uvw[c]
      OBVIOUS
    <3>2. uvw[c] # <<pass, now>>
      BY <1>2, <2>1, <3>1
    <3> QED BY <2>2, <2>3, <3>2 DEF Stamps
  <2>5. t = c[2] + (now - uvw[c][2])
    BY <2>2, <2>3, LocalTimeLater
  <2>6. c[2] < t /\ t \in Nat
    BY <2>2, <2>3, <2>4, <2>5
  <2>7. a1[AtermIndex(o1, c[2])] = aterms[k]
    BY <1>3, <1>4, <1>5, <2>2, <2>6, SetAtermKeeps
  <2> QED BY <2>1, <2>7
<1>10. WithAterm(uvw, atermOffsets, aterms)'
  BY <1>2, <1>4, <1>5, <1>9 DEF WithAterm
<1>11. WithAterm(uvw2, atermOffsets2, aterms2)'
  BY <1>1, <1>2 DEF WithAterm
<1> QED BY <1>7, <1>8, <1>10, <1>11 DEF AtermInv

(* The flush threads, and the client where it neither submits nor sets an
   a-term. *)
LEMMA OtherAterm ==
    ASSUME AInv, submitted \subseteq submitted',
           UNCHANGED <<uvw, atermOffsets, aterms, timeindices, timeStart,
                       uvw2, atermOffsets2, aterms2, atermSet>>,
           (caller' = caller /\ (caller # "aterm" \/ now' = now))
             \/ (caller # "aterm" /\ caller' # "aterm")
    PROVE  AtermInv'
<1>1. LastAterm' = LastAterm /\ LastOffset' = LastOffset
  BY DEF LastAterm, LastOffset
<1>2. LastStarts'
  BY <1>1 DEF AInv, AtermInv, LastStarts
<1>3. WithAterm(uvw, atermOffsets, aterms)' /\ WithAterm(uvw2, atermOffsets2, aterms2)'
  BY DEF AInv, AtermInv, WithAterm
<1> QED BY <1>1, <1>2, <1>3 DEF AInv, AtermInv

LEMMA FlushAterm ==
    ASSUME AInv, FlushBuffer, UNCHANGED <<clientVars, submitted>>, caller' # "aterm"
    PROVE  AtermInv'
<1>1. /\ uvw' = NoUvw /\ atermOffsets' = DefaultOffsets /\ aterms' = <<LastAterm>>
      /\ uvw2' = uvw /\ atermOffsets2' = atermOffsets /\ aterms2' = aterms
      /\ atermSet' = atermSet
  BY DEF FlushBuffer, UvwAfterSwap, SwapAndStart, AtermsAfterSwap, clientVars
<1>2. LastOffset' = 0 /\ LastAterm' = LastAterm
  BY <1>1, DefaultLast
<1>3. LastStarts'
  BY <1>2 DEF LastStarts
<1>4. WithAterm(uvw, atermOffsets, aterms)'
  BY <1>1 DEF WithAterm, NoUvw
<1>5. WithAterm(uvw2, atermOffsets2, aterms2)'
  BY <1>1 DEF AInv, AtermInv, WithAterm
<1> QED BY <1>1, <1>2, <1>3, <1>4, <1>5 DEF AInv, AtermInv

LEMMA WorkerGridAterm ==
    ASSUME AInv, NEW n \in Threads, WorkerGrid(n)
    PROVE  GriddedWithItsAterm'
<1>1. submitted' = submitted
  BY DEF WorkerGrid
<1> SUFFICES ASSUME NEW g \in gridded'
             PROVE  [baseline |-> g.baseline, stamp |-> g.stamp, aterm |-> g.aterm] \in submitted
  BY <1>1 DEF GriddedWithItsAterm
<1>2. CASE g \in gridded
  BY <1>2 DEF AInv, GriddedWithItsAterm
<1>3. CASE g \notin gridded
  <2>1. PICK c \in PlannedCells : g = GridRow(n, c)
    BY <1>3, WhatIsGridded DEF AInv, GInv
  <2>2. c \in Cells /\ uvw2[c] # Infinite /\ vis2[c] = uvw2[c]
    BY DEF PlannedCells, AInv, GInv, IInv, Buffers, Together
  <2>3. /\ g.baseline = c[1] /\ g.stamp = uvw2[c]
        /\ g.aterm = aterms2[AtermIndex(atermOffsets2, c[2])]
    BY <2>1, <2>2 DEF GridRow
  <2>4. [baseline |-> c[1], stamp |-> uvw2[c], aterm |-> aterms2[AtermIndex(atermOffsets2, c[2])]]
          \in submitted
    BY <2>2 DEF AInv, AtermInv, WithAterm
  <2> QED BY <2>3, <2>4
<1> QED BY <1>2, <1>3

LEMMA AInitially == Init => AInv
<1> SUFFICES ASSUME Init PROVE AInv
  OBVIOUS
<1>1. /\ uvw = NoUvw /\ uvw2 = NoUvw /\ atermOffsets = DefaultOffsets /\ aterms = <<0>>
      /\ caller = "ready" /\ atermSet = 0 /\ gridded = {}
  BY DEF Init, BufferInit
<1>2. LastOffset = 0 /\ LastAterm = 0
  BY <1>1 DEF LastOffset, LastAterm, DefaultOffsets
<1>3. WithAterm(uvw, atermOffsets, aterms) /\ WithAterm(uvw2, atermOffsets2, aterms2)
  BY <1>1 DEF WithAterm, NoUvw
<1> QED BY <1>1, <1>2, <1>3, GInitially DEF AInv, AtermInv, LastStarts, GriddedWithItsAterm

LEMMA AStep == CarefulAterms /\ AInv /\ [Next]_vars => AInv'
<1> SUFFICES ASSUME CarefulAterms, AInv, [Next]_vars PROVE AInv'
  OBVIOUS
<1>1. GInv'
  BY GStep DEF AInv
<1> SUFFICES AtermInv' /\ GriddedWithItsAterm'
  BY <1>1 DEF AInv
<1>2. submitted \subseteq submitted' /\ gridded' = gridded => GriddedWithItsAterm'
  BY DEF AInv, GriddedWithItsAterm
<1>3. ASSUME UNCHANGED <<frontVars, backVars, workerVars, atermSet, submitted>>,
             (caller' = caller /\ (caller # "aterm" \/ now' = now))
               \/ (caller # "aterm" /\ caller' # "aterm")
      PROVE  AtermInv' /\ GriddedWithItsAterm'
  BY <1>2, <1>3, OtherAterm DEF frontVars, batchVars, atermVars, backVars, workerVars
<1>4. CASE NextTime
  BY <1>3, <1>4 DEF NextTime, MayGoOn
<1>5. CASE NextPass
  BY <1>3, <1>5 DEF NextPass, MayGoOn
<1>6. ASSUME NEW bl \in Baselines, GridVisibilities(bl)
      PROVE  AtermInv' /\ GriddedWithItsAterm'
  <2>1. submitted \subseteq submitted' /\ gridded' = gridded
    BY <1>6 DEF GridVisibilities, NoFlush, SwapAndStart, workerVars
  <2> QED BY <1>2, <1>6, <2>1, GridVisibilitiesAterm
<1>7. CASE SetAterm
  BY <1>2, <1>7, SetAtermAterm DEF SetAterm, workerVars
<1>8. ASSUME FlushBuffer, UNCHANGED <<clientVars, submitted>>, caller' # "aterm"
      PROVE  AtermInv' /\ GriddedWithItsAterm'
  BY <1>2, <1>8, FlushAterm DEF FlushBuffer, SwapAndStart
<1>9. CASE Flush
  BY <1>8, <1>9 DEF Flush
<1>10. CASE Finish
  <2>1. CASE FlushBuffer
    BY <1>8, <1>10, <2>1 DEF Finish
  <2>2. CASE UNCHANGED <<frontVars, backVars, workerVars, batch>>
    BY <1>3, <1>10, <2>2 DEF Finish, MayGoOn, clientVars
  <2> QED BY <1>10, <2>1, <2>2 DEF Finish
<1>11. CASE FinishJoin
  BY <1>3, <1>11 DEF FinishJoin, clientVars
<1>12. ASSUME NEW n \in Threads, WorkerStep(n)
       PROVE  AtermInv' /\ GriddedWithItsAterm'
  <2>1. UNCHANGED <<frontVars, backVars, clientVars, caller, submitted>>
    BY <1>12 DEF WorkerStep, WorkerPlan, WorkerGrid
  <2>2. AtermInv'
    BY <2>1, OtherAterm DEF frontVars, batchVars, atermVars, backVars, clientVars
  <2>3. CASE WorkerPlan(n)
    BY <1>2, <2>2, <2>3 DEF WorkerPlan
  <2>4. CASE WorkerGrid(n)
    BY <2>2, <2>4, WorkerGridAterm
  <2> QED BY <1>12, <2>3, <2>4 DEF WorkerStep
<1>13. CASE UNCHANGED vars
  BY <1>3, <1>13 DEF vars, bufferVars, clientVars
<1> QED BY <1>4, <1>5, <1>6, <1>7, <1>9, <1>10, <1>11, <1>12, <1>13 DEF Next

(* A visibility is gridded with the a-term that was set last before it, also
   when it was set in an earlier batch or for the time after a batch: for a
   client that submits data for every time that it sets an a-term for. *)
THEOREM AtermBelongs ==
    ASSUME CarefulAterms
    PROVE  Spec => []GriddedWithItsAterm
<1>1. AInv => GriddedWithItsAterm
  BY DEF AInv
<1>2. AInv /\ [Next]_vars => AInv'
  BY AStep
<1> QED BY <1>1, <1>2, AInitially, PTL DEF Spec

-----------------------------------------------------------------------------
(* The promise to the client. *)

AdditionOf(g) ==
    [visibility |-> [baseline |-> g.baseline, stamp |-> g.stamp, aterm |-> g.aterm], occasion |-> g]
Additions == {AdditionOf(g) : g \in gridded}

(* A visibility is submitted once, with one a-term. *)
SubmittedOnce ==
    \A s, t \in submitted : s.baseline = t.baseline /\ s.stamp = t.stamp => s = t

(* When finished() has returned, so have the flush threads. *)
FinishedIdle == caller = "finished" => ~Pending

RInv == AInv /\ SubmittedOnce /\ FinishedIdle

(* A visibility is handed in as the code's arguments, and only then. *)
LEMMA SubmitOrNot ==
    ASSUME RInv, [Next]_vars
    PROVE  \/ UNCHANGED submitted
           \/ \E bl \in Baselines : GridVisibilities(bl)
BY DEF Next, vars, NextTime, NextPass, SetAterm, Flush, Finish, FinishJoin,
   WorkerStep, WorkerPlan, WorkerGrid

(* Joining leaves no flush thread at work. *)
LEMMA JoinedIdle ==
    ASSUME GInv, Joined
    PROVE  ~Pending
<1>1. ASSUME NEW n \in Threads PROVE worker[n] \notin {"started", "planned"}
  <2>1. /\ n > batch => worker[n] = "none"
        /\ n < batch => worker[n] = "returned"
        /\ n = batch => worker[n] = "returned"
    BY DEF GInv, IInv, LastRuns, Joined
  <2>2. n \in Nat /\ batch \in Nat
    BY MaxFlushesAssumption DEF Threads, GInv, IInv, LastRuns
  <2> QED BY <2>1, <2>2
<1> QED BY <1>1 DEF Pending

LEMMA RStep == CarefulAterms /\ RInv /\ [Next]_vars => RInv'
<1> SUFFICES ASSUME CarefulAterms, RInv, [Next]_vars PROVE RInv'
  OBVIOUS
<1>1. AInv'
  BY AStep DEF RInv
<1>2. SubmittedOnce'
  <2>1. CASE UNCHANGED submitted
    BY <2>1 DEF RInv, SubmittedOnce
  <2>2. ASSUME NEW bl \in Baselines, GridVisibilities(bl) PROVE SubmittedOnce'
    <3> DEFINE v == [baseline |-> bl, stamp |-> <<pass, now>>, aterm |-> atermSet]
    <3>1. submitted' = submitted \cup {v}
      BY <2>2 DEF GridVisibilities
    <3>2. ASSUME NEW s \in submitted PROVE ~(s.baseline = v.baseline /\ s.stamp = v.stamp)
      BY <2>2 DEF GridVisibilities
    <3> HIDE DEF v
    <3> QED BY <3>1, <3>2 DEF RInv, SubmittedOnce
  <2> QED BY <2>1, <2>2, SubmitOrNot
<1>3. FinishedIdle'
  <2>1. SUFFICES ASSUME caller' = "finished" PROVE ~Pending'
    BY DEF FinishedIdle
  <2>2. CASE FinishJoin
    <3>1. ~Pending
      BY <2>2, JoinedIdle DEF RInv, AInv, FinishJoin
    <3> QED BY <2>2, <3>1 DEF FinishJoin, workerVars, Pending
  <2>3. CASE caller = "finished" /\ UNCHANGED worker
    BY <2>3 DEF RInv, FinishedIdle, Pending
  <2>4. ASSUME NEW n \in Threads, WorkerStep(n) PROVE caller # "finished"
    BY <2>4 DEF WorkerStep, WorkerPlan, WorkerGrid, RInv, FinishedIdle, Pending
  <2> QED BY <2>1, <2>2, <2>3, <2>4 DEF Next, vars, NextTime, NextPass, GridVisibilities, SetAterm,
             Flush, Finish, WorkerStep, WorkerPlan, WorkerGrid, workerVars
<1> QED BY <1>1, <1>2, <1>3 DEF RInv

(* What a flush thread grids was accepted, and was not on the grid yet. *)
LEMMA WorkerGridAdds ==
    ASSUME RInv, RInv', NEW n \in Threads, WorkerGrid(n)
    PROVE  Gridding!Grid
<1>1. /\ gridded \subseteq gridded' /\ UNCHANGED <<submitted, caller>>
      /\ caller # "finished"
  BY WhatIsGridded DEF WorkerGrid, RInv, AInv, GInv, FinishedIdle, Pending
<1>2. Additions \subseteq Additions'
  BY <1>1 DEF Additions
<1>3. ASSUME NEW g \in gridded', NEW h \in gridded',
             AdditionOf(g).visibility = AdditionOf(h).visibility
      PROVE  g = h
  <2>1. g.baseline = h.baseline /\ g.stamp = h.stamp
    BY <1>3 DEF AdditionOf
  <2> QED BY <2>1 DEF RInv, AInv, GInv, IInv, GriddedOnce
<1>4. ASSUME NEW a \in Additions' \ Additions
      PROVE  /\ a.visibility \in submitted /\ ~\E b \in Additions : b.visibility = a.visibility
             /\ \A b \in Additions' : b.visibility = a.visibility => b = a
  <2>1. PICK g \in gridded' : a = AdditionOf(g)
    BY DEF Additions
  <2>2. a.visibility \in submitted
    BY <1>1, <2>1 DEF AdditionOf, RInv, AInv, GriddedWithItsAterm
  <2>3. ASSUME NEW b \in Additions', b.visibility = a.visibility PROVE b = a
    <3>1. PICK h \in gridded' : b = AdditionOf(h)
      BY DEF Additions
    <3> QED BY <1>3, <2>1, <2>3, <3>1
  <2> QED BY <1>2, <2>2, <2>3
<1>5. (caller' = "finished") = (caller = "finished")
  BY <1>1
<1> QED BY <1>1, <1>2, <1>4, <1>5 DEF Gridding!Grid, Gridding!OnGrid, Additions, AdditionOf

(* When finished() returns, everything is on the grid. *)
LEMMA FinishJoinCompletes ==
    ASSUME RInv, FinishJoin
    PROVE  Gridding!Finish
<1>1. /\ caller = "joining" /\ caller' = "finished" /\ ~Pending
      /\ UNCHANGED <<submitted, gridded>>
  BY JoinedIdle DEF FinishJoin, workerVars, RInv, AInv
<1>2. uvw = NoUvw
  BY <1>1 DEF RInv, AInv, GInv, CallerInv, FrontInv
<1>3. Holdings(uvw) = {}
  BY <1>2 DEF Holdings, NoUvw
<1>4. ASSUME NEW s \in submitted PROVE \E a \in Additions : a.visibility = s
  <2>1. <<s.baseline, s.stamp>> \in Done
    BY <1>1, <1>3 DEF Entered, RInv, AInv, GInv, KeptInv
  <2>2. PICK g \in gridded : s.baseline = g.baseline /\ s.stamp = g.stamp
    BY <2>1 DEF Done
  <2> DEFINE v == AdditionOf(g).visibility
  <2>3. v \in submitted /\ v.baseline = g.baseline /\ v.stamp = g.stamp
    BY DEF AdditionOf, RInv, AInv, GriddedWithItsAterm
  <2> HIDE DEF v
  <2>4. v = s
    BY <2>2, <2>3 DEF RInv, SubmittedOnce
  <2> QED BY <2>4 DEF v, Additions
<1> QED BY <1>1, <1>4 DEF Gridding!Finish, Gridding!OnGrid, Additions, AdditionOf

(* Every step of the buffer and its flush threads is one of the promise, or
   does not show. *)
LEMMA GriddingStep ==
    ASSUME RInv, RInv', [Next]_vars
    PROVE  [Gridding!Next]_Gridding!griddingVars
<1>1. ASSUME UNCHANGED <<submitted, gridded>>, caller' = "finished" <=> caller = "finished"
      PROVE  UNCHANGED Gridding!griddingVars
  <2>1. (caller' = "finished") = (caller = "finished")
    BY <1>1
  <2> QED BY <1>1, <2>1 DEF Gridding!griddingVars
<1>2. ASSUME submitted \subseteq submitted', UNCHANGED gridded, caller' # "finished"
      PROVE  Gridding!Submit
  <2>1. submitted' \subseteq [baseline : Baselines, stamp : Stamps, aterm : 0 .. MaxAterms]
    BY DEF RInv, AInv, GInv, TypesInv, TypeOK
  <2> QED BY <1>2, <2>1 DEF Gridding!Submit
<1>3. CASE NextTime \/ NextPass
  BY <1>1, <1>3 DEF NextTime, NextPass, workerVars
<1>4. ASSUME NEW bl \in Baselines, GridVisibilities(bl) PROVE Gridding!Submit
  BY <1>2, <1>4 DEF GridVisibilities, NoFlush, SwapAndStart, workerVars
<1>5. CASE SetAterm \/ Flush \/ Finish
  <2>1. UNCHANGED <<submitted, gridded>> /\ caller' # "finished"
    BY <1>5 DEF SetAterm, Flush, Finish, FlushBuffer, SwapAndStart, workerVars
  <2> QED BY <1>2, <2>1 DEF Gridding!Next
<1>6. CASE FinishJoin
  BY <1>6, FinishJoinCompletes DEF Gridding!Next
<1>7. ASSUME NEW n \in Threads, WorkerStep(n)
      PROVE  [Gridding!Next]_Gridding!griddingVars
  <2>1. CASE WorkerPlan(n)
    BY <1>1, <2>1 DEF WorkerPlan
  <2>2. CASE WorkerGrid(n)
    BY <2>2, WorkerGridAdds DEF Gridding!Next
  <2> QED BY <1>7, <2>1, <2>2 DEF WorkerStep
<1>8. CASE UNCHANGED vars
  BY <1>1, <1>8 DEF vars, workerVars
<1> QED BY <1>3, <1>4, <1>5, <1>6, <1>7, <1>8 DEF Next, Gridding!Next

(* The buffer with its flush threads implements what the client is promised:
   whatever they interleave, every visibility is put on the grid once, with its
   a-term, and all of them are there when finished() has returned. *)
THEOREM BufferImplementsGridding ==
    ASSUME CarefulAterms
    PROVE  Spec => ImplementsGridding
<1>1. Init => RInv /\ Gridding!Init
  <2> SUFFICES ASSUME Init PROVE RInv /\ Gridding!Init
    OBVIOUS
  <2>1. caller # "finished" /\ submitted = {} /\ gridded = {}
    BY DEF Init
  <2>2. RInv
    BY <2>1, AInitially DEF RInv, SubmittedOnce, FinishedIdle
  <2>3. Gridding!Init
    BY <2>1 DEF Gridding!Init
  <2> QED BY <2>2, <2>3
<1>2. RInv /\ [Next]_vars => RInv'
  BY RStep
<1>3. RInv /\ RInv' /\ [Next]_vars => [Gridding!Next]_Gridding!griddingVars
  BY GriddingStep
<1> QED BY <1>1, <1>2, <1>3, PTL DEF Spec, ImplementsGridding, Gridding!Spec
=============================================================================
