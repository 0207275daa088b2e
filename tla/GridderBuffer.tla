---------------------------- MODULE GridderBuffer ----------------------------
(***************************************************************************)
(* GridderBufferImpl (idg-api/GridderBuffer.cpp, Buffer.cpp): visibilities *)
(* are collected in a front buffer of BufferTimesteps slots per baseline;  *)
(* when a time does not fit, the front and back buffers are swapped and a  *)
(* flush thread plans and grids the back buffer while the caller goes on   *)
(* filling the front one.                                                  *)
(*                                                                         *)
(* The client's thread and the flush thread interleave.  The client blocks *)
(* where the code joins the flush thread: its action is then not enabled.  *)
(***************************************************************************)
EXTENDS Buffer

CONSTANT MaxFlushes  (* bound on batches *)

ASSUME MaxFlushesAssumption == MaxFlushes \in Nat

(* vis stands for m_buffer_weights too. *)
VARIABLES
  uvw2, vis2,              (* m_bufferUVW2, m_bufferVisibilities2 *)
  atermOffsets2, aterms2,  (* m_aterm_offsets2, m_aterms2 *)
  worker,     (* the thread of each flush: see Workers; m_flush_thread is the last *)
  plan,       (* the subgrids of each flush thread's plan *)
  caller,     (* "ready", after set_aterm, inside or after finished() *)
  submitted,  (* history: the visibilities handed in *)
  gridded,    (* history: what the flush threads put on the grid *)
  batch       (* history: the flush threads started *)

backVars   == <<uvw2, vis2, atermOffsets2, aterms2>>
workerVars == <<worker, plan, gridded>>
vars == <<bufferVars, backVars, workerVars, caller, submitted, batch>>

Threads == 1 .. MaxFlushes

(* Not started; started; with a plan; returned. *)
Workers == {"none", "started", "planned", "returned"}

Init ==
  /\ BufferInit(Infinite)
  /\ uvw2 = NoUvw
  /\ vis2 = [cell \in Cells |-> Infinite]
  /\ atermOffsets2 = DefaultOffsets /\ aterms2 = <<0>>
  /\ worker = [n \in Threads |-> "none"]
  /\ plan = [n \in Threads |-> {}]
  /\ caller = "ready"
  /\ submitted = {} /\ gridded = {}
  /\ batch = 0

-----------------------------------------------------------------------------
(* Mutation of InBatch: an off-by-one in the comparison. *)
InBatchInclusive(localTime) == localTime >= 0 /\ localTime <= BufferTimesteps

(* local_time < m_bufferTimesteps compares as size_t: negative is large. *)
InBatch(localTime) == localTime >= 0 /\ localTime < BufferTimesteps

(* The loop "while (local_time >= m_bufferTimesteps)" of grid_visibilities,  *)
(* which is entered with the local_time from before flush() moved the start: *)
(* at least one step is taken.  A step that passes the time makes local_time *)
(* negative, and the loop goes on until the int has wrapped around.          *)
NextStart(time, start) ==
  LET after(k) == start + k * BufferTimesteps
      fits(k)  == InBatch(LocalTime(time, after(k)))
  IN  after(CHOOSE k \in 1 .. IntRange : fits(k) /\ \A j \in 1 .. k - 1 : ~fits(j))

(* Mutations of the three definitions that follow: the uvws of the previous  *)
(* batch but one stay, the first a-term or all of them are kept instead of   *)
(* the last, and the flush thread is not joined: the previous thread goes on *)
(* on its own.                                                               *)
UvwNotReset == uvw2
FirstAtermKept == <<aterms[1]>>
AllAtermsKept == aterms
JoinSkipped == TRUE

(* set_uvw_to_infinity() on the buffer that becomes the front one. *)
UvwAfterSwap == NoUvw

(* reset_aterm(): the last a-term of the flushed buffer. *)
AtermsAfterSwap == <<LastAterm>>

(* m_flush_thread.join() returns, or there is nothing to join. *)
Joined == \A n \in Threads : n = batch => worker[n] = "returned"

(* The part of flush() that is common to its callers, past the early return *)
(* for an empty buffer; the front uvws and visibilities are left to them.   *)
SwapAndStart ==
  /\ batch < MaxFlushes
  /\ Joined
  /\ uvw2' = uvw /\ vis2' = vis
  /\ atermOffsets2' = atermOffsets /\ aterms2' = aterms
  /\ atermOffsets' = DefaultOffsets
  /\ aterms' = AtermsAfterSwap
  /\ batch' = batch + 1
  /\ worker' = [worker EXCEPT ![batch + 1] = "started"]
  /\ UNCHANGED <<plan, gridded>>

FlushBuffer ==
  /\ timeindices # {}
  /\ SwapAndStart
  /\ uvw' = UvwAfterSwap /\ vis' = vis2
  /\ timeStart' = timeStart + BufferTimesteps
  /\ timeindices' = {}

NoFlush == UNCHANGED <<atermVars, backVars, workerVars, batch>>

-----------------------------------------------------------------------------
(* The client's thread. *)

InApi == caller # "joining"

(* A careful client has data for every time it sets an a-term for. *)
MayGoOn == InApi /\ (CarefulAterms => caller # "aterm")

(* The time index advances, with gaps. *)
NextTime ==
  /\ MayGoOn
  /\ now' \in now + 1 .. MaxTime
  /\ UNCHANGED <<frontVars, backVars, workerVars, pass, atermSet, caller, submitted, batch>>

(* Time indices start again, after flush() or finished(). *)
NextPass ==
  /\ MayGoOn
  /\ timeindices = {}
  /\ pass + 1 < MaxPasses
  /\ pass' = pass + 1
  /\ now' = 0
  /\ UNCHANGED <<frontVars, backVars, workerVars, atermSet, caller, submitted, batch>>

StoreVisibility(bl, start, localTime, frontUvw, frontVis) ==
  /\ timeStart' = start
  /\ uvw' = [frontUvw EXCEPT ![<<bl, localTime>>] = <<pass, now>>]
  /\ vis' = [frontVis EXCEPT ![<<bl, localTime>>] = <<pass, now>>]

(* grid_visibilities(now, bl); each visibility is submitted once. *)
GridVisibilities(bl) ==
  /\ InApi
  /\ \A s \in submitted : <<s.baseline, s.stamp>> # <<bl, <<pass, now>>>>
  /\ LET elapsed   == LocalTime(now, timeStart)
         start     == IF elapsed < 0 THEN 0 ELSE timeStart
         localTime == IF elapsed < 0 THEN now ELSE elapsed
         emptied   == NextStart(now, start)
         flushed   == NextStart(now, start + BufferTimesteps)
     IN  \/ /\ localTime < BufferTimesteps
            /\ StoreVisibility(bl, start, localTime, uvw, vis)
            /\ timeindices' = timeindices \cup {now}
            /\ NoFlush
         \/ /\ localTime >= BufferTimesteps
            /\ timeindices = {}
            /\ StoreVisibility(bl, emptied, LocalTime(now, emptied), uvw, vis)
            /\ timeindices' = {now}
            /\ NoFlush
         \/ /\ localTime >= BufferTimesteps
            /\ timeindices # {}
            /\ SwapAndStart
            /\ StoreVisibility(bl, flushed, LocalTime(now, flushed), UvwAfterSwap, vis2)
            /\ timeindices' = {now}
  /\ submitted' = submitted \cup
       {[baseline |-> bl, stamp |-> <<pass, now>>, aterm |-> atermSet]}
  /\ caller' = "ready"
  /\ UNCHANGED clientVars

(* set_aterm, before the visibilities of this time are submitted. *)
SetAterm ==
  /\ InApi
  /\ \A s \in submitted : s.stamp # <<pass, now>>
  /\ SetAtermNow
  /\ caller' = "aterm"
  /\ UNCHANGED <<backVars, workerVars, submitted, batch>>

(* flush() called by the client; without data it returns at once. *)
Flush ==
  /\ MayGoOn
  /\ FlushBuffer
  /\ caller' = "ready"
  /\ UNCHANGED <<clientVars, submitted>>

(* finished(): flush(), join the flush thread, get the final grid. *)
Finish ==
  /\ MayGoOn
  /\ caller # "finished"
  /\ \/ FlushBuffer
     \/ timeindices = {} /\ UNCHANGED <<frontVars, backVars, workerVars, batch>>
  /\ caller' = "joining"
  /\ UNCHANGED <<clientVars, submitted>>

FinishJoin ==
  /\ caller = "joining"
  /\ Joined
  /\ caller' = "finished"
  /\ UNCHANGED <<frontVars, backVars, workerVars, clientVars, submitted, batch>>

-----------------------------------------------------------------------------
(* flush_thread_worker, on the thread of flush n. *)

(* make_plan: cells without finite uvw are not planned. *)
WorkerPlan(n) ==
  /\ worker[n] = "started"
  /\ plan' = [plan EXCEPT ![n] =
                {[cell |-> cell, uvw |-> uvw2[cell], aterm |-> AtermIndex(atermOffsets2, cell[2])] :
                   cell \in {c \in Cells : uvw2[c] # Infinite}}]
  /\ worker' = [worker EXCEPT ![n] = "planned"]
  /\ UNCHANGED <<frontVars, backVars, gridded, clientVars, caller, submitted, batch>>

(* Proxy::gridding of what was planned, with the contents of the buffers. *)
WorkerGrid(n) ==
  /\ worker[n] = "planned"
  /\ gridded' = gridded \cup
       {[baseline |-> p.cell[1], slot |-> p.cell[2], batch |-> n,
         plannedUvw |-> p.uvw, uvw |-> uvw2[p.cell], stamp |-> vis2[p.cell],
         aterm |-> aterms2[p.aterm]] : p \in plan[n]}
  /\ worker' = [worker EXCEPT ![n] = "returned"]
  /\ plan' = [plan EXCEPT ![n] = {}]
  /\ UNCHANGED <<frontVars, backVars, clientVars, caller, submitted, batch>>

WorkerStep(n) == WorkerPlan(n) \/ WorkerGrid(n)

Next ==
  \/ NextTime
  \/ NextPass
  \/ \E bl \in Baselines : GridVisibilities(bl)
  \/ SetAterm
  \/ Flush
  \/ Finish
  \/ FinishJoin
  \/ \E n \in Threads : WorkerStep(n)

Spec == Init /\ [][Next]_vars

-----------------------------------------------------------------------------
(* The type invariant. *)
TypeOK ==
  /\ BufferTypeOK(StampOrNone)
  /\ uvw2 \in [Cells -> StampOrNone] /\ vis2 \in [Cells -> StampOrNone]
  /\ AtermsTypeOK(atermOffsets2, aterms2)
  /\ worker \in [Threads -> Workers]
  /\ plan \in [Threads -> SUBSET [cell : Cells, uvw : Stamps, aterm : Nat]]
  /\ caller \in {"ready", "aterm", "joining", "finished"}
  /\ submitted \in SUBSET [baseline : Baselines, stamp : Stamps, aterm : 0 .. MaxAterms]
  /\ gridded \in SUBSET [baseline : Baselines, slot : Slots, batch : Nat,
                         plannedUvw : Stamps, uvw : Stamps, stamp : StampOrNone,
                         aterm : 0 .. MaxAterms]
  /\ batch \in 0 .. MaxFlushes

(* No visibility is gridded twice: not by two flush threads, and not again  *)
(* from a cell it was left in two batches ago.                              *)
GriddedOnce ==
  \A g, h \in gridded :
    g.baseline = h.baseline /\ g.stamp = h.stamp => g = h

(* What the flush thread planned and gridded belongs together: the uvw that *)
(* was planned with, the uvw and the visibility that were gridded are of    *)
(* one submission, although the client was filling buffers meanwhile.       *)
GriddedWithItsUvw ==
  \A g \in gridded : g.plannedUvw = g.stamp /\ g.uvw = g.stamp

(* A visibility is gridded with the a-term that was set last before it was  *)
(* submitted, whichever batch that was in: "the a-term that starts validity *)
(* at timeIndex" (Buffer.cpp:150).                                          *)
GriddedWithItsAterm ==
  \A g \in gridded :
    [baseline |-> g.baseline, stamp |-> g.stamp, aterm |-> g.aterm] \in submitted

(* A submitted visibility is in the front buffer, in the back buffer of a   *)
(* running flush thread, or on the grid; after finished(), on the grid.     *)
NoVisibilityLost ==
  \A s \in submitted :
    LET Holds(u, v) == \E t \in Slots : /\ u[<<s.baseline, t>>] = s.stamp
                                        /\ v[<<s.baseline, t>>] = s.stamp
    IN  \/ caller # "finished" /\ timeindices # {} /\ Holds(uvw, vis)
        \/ (\E n \in Threads : worker[n] \in {"started", "planned"}) /\ Holds(uvw2, vis2)
        \/ \E g \in gridded : g.baseline = s.baseline /\ g.stamp = s.stamp

(* Batching, swapping and gridding on other threads come to what             *)
(* VisibilityGridding promises: each visibility is put on the grid once, with *)
(* its a-term, and all of them are there when finished() has returned.        *)
Gridding == INSTANCE VisibilityGridding WITH
  Visibilities <- [baseline : Baselines, stamp : Stamps, aterm : 0 .. MaxAterms],
  accepted <- submitted,
  added <- {[visibility |-> [baseline |-> g.baseline, stamp |-> g.stamp, aterm |-> g.aterm],
             occasion |-> g] : g \in gridded},
  complete <- caller = "finished"

ImplementsGridding == Gridding!Spec
=============================================================================
