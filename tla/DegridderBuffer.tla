--------------------------- MODULE DegridderBuffer ---------------------------
(***************************************************************************)
(* DegridderBufferImpl (idg-api/DegridderBuffer.cpp) and the client's loop *)
(* around it (DegridderBuffer.h:23-51): rows are requested until a request *)
(* does not fit, compute() predicts the rows of the batch, the client      *)
(* reads them, signals so, and requests the refused row again.             *)
(*                                                                         *)
(* Everything runs on the client's thread, which is always in one place of *)
(* its loop; a row is identified by its baseline and stamp.                *)
(***************************************************************************)
EXTENDS Buffer

CONSTANTS
  TimeGaps,   (* the data may have no row at all for some time indices   *)
  OutOfRange  (* the times at which the uvw of the rows are off the grid *)

ASSUME DegridderBufferAssumption ==
  /\ TimeGaps \in BOOLEAN
  /\ OutOfRange \in SUBSET (0 .. MaxTime)

VARIABLES
  bufferFull,  (* m_buffer_full *)
  dataRead,    (* m_data_read *)
  rowCells,    (* m_row_ids_to_data: the cells the pointers point to, by row *)
  available,   (* the rows that compute() returned and are not yet read *)
  client,      (* where the client is in its loop: see Places *)
  refused,     (* the baseline of a request that did not fit *)
  accepted,    (* history: the rows whose request fitted, with their a-term *)
  delivered    (* history: the rows that were read, with what was read *)

replyVars == <<bufferFull, dataRead, rowCells, available>>
vars == <<bufferVars, replyVars, client, refused, accepted, delivered>>

Places == {"requesting", "refused", "reading", "retrying", "end"}

Row(bl) == [baseline |-> bl, stamp |-> <<pass, now>>]

(* A predicted visibility tells the uvw and the a-term it was made with; *)
(* until then the buffer holds zero.                                     *)
Zero == [uvw |-> Infinite, aterm |-> -1]

Init ==
  /\ BufferInit(Zero)
  /\ bufferFull = FALSE
  /\ dataRead = TRUE
  /\ rowCells = <<>>
  /\ available = <<>>
  /\ client = "requesting"
  /\ refused = {}
  /\ accepted = {} /\ delivered = {}

-----------------------------------------------------------------------------
(* Mutation of NextStart: the loop runs while local_time >= m_bufferTimesteps. *)
NextStartInclusive(time, start) ==
  start + BufferTimesteps * (LocalTime(time, start) \div BufferTimesteps)

(* The loop "while (local_time > m_bufferTimesteps)": a time that is just   *)
(* past the batch leaves the start to flush().                              *)
NextStart(time, start) ==
  start + BufferTimesteps * ((LocalTime(time, start) - 1) \div BufferTimesteps)

(* Mutation of RowAdded: the row replaces what was there. *)
RowOnly(row, cell) == <<[row |-> row, cell |-> cell]>>

RowAdded(row, cell) == Append(rowCells, [row |-> row, cell |-> cell])

(* request_visibilities(row, now, bl): Fits tells what it returns. *)
Elapsed == LocalTime(now, timeStart)
Start   == IF Elapsed < 0 THEN 0 ELSE timeStart
Offset  == LocalTime(now, Start)
Fits    == ~bufferFull /\ Offset < BufferTimesteps

RequestAccepted(bl) ==
  /\ Fits
  /\ timeStart' = Start
  /\ timeindices' = timeindices \cup {now}
  /\ rowCells' = RowAdded(Row(bl), <<bl, Offset>>)
  /\ uvw' = [uvw EXCEPT ![<<bl, Offset>>] = <<pass, now>>]
  /\ accepted' = accepted \cup {[row |-> Row(bl), aterm |-> atermSet]}
  /\ UNCHANGED <<vis, atermVars, clientVars, bufferFull, dataRead, available, delivered>>

RequestRefused ==
  /\ ~Fits
  /\ IF bufferFull
     THEN UNCHANGED <<timeStart, bufferFull>>
     ELSE /\ bufferFull' = TRUE
          /\ timeStart' = NextStart(now, Start)
  /\ UNCHANGED <<timeindices, uvw, vis, atermVars, clientVars, dataRead, rowCells,
                 available, accepted, delivered>>

-----------------------------------------------------------------------------
(* The client's loop. *)

Request(bl) ==
  /\ client = "requesting"
  /\ \A a \in accepted : a.row # Row(bl)
  /\ \/ RequestAccepted(bl) /\ UNCHANGED <<client, refused>>
     \/ RequestRefused /\ client' = "refused" /\ refused' = {bl}

(* The refused row is requested again; the client does not look whether it  *)
(* fits now.  Unlike in the loop of the comment, a last row that was refused *)
(* is computed too, when the client ends its pass.                          *)
Retry(bl) ==
  /\ client = "retrying"
  /\ bl \in refused
  /\ RequestAccepted(bl) \/ RequestRefused
  /\ client' = "requesting"
  /\ refused' = {}

NextTime ==
  /\ client = "requesting"
  /\ now' \in now + 1 .. MaxTime
  /\ ~TimeGaps => now' = now + 1 /\ \E a \in accepted : a.row.stamp = <<pass, now>>
  /\ UNCHANGED <<frontVars, pass, atermSet, replyVars, client, refused, accepted, delivered>>

(* All rows were requested, computed and read: another pass may start. *)
NextPass ==
  /\ client = "end"
  /\ pass + 1 < MaxPasses
  /\ pass' = pass + 1
  /\ now' = 0
  /\ client' = "requesting"
  /\ UNCHANGED <<frontVars, atermSet, replyVars, refused, accepted, delivered>>

SetAterm ==
  /\ client = "requesting"
  /\ \A a \in accepted : a.row.stamp # <<pass, now>>
  /\ SetAtermNow
  /\ UNCHANGED <<replyVars, client, refused, accepted, delivered>>

(* The cells with a finite uvw that is on the grid: those that are planned. *)
Planned(cell) == uvw[cell] # Infinite /\ uvw[cell][2] \notin OutOfRange

(* Mutation of Predicted: the first a-term is used for the whole batch. *)
PredictedFirstAterm ==
  [cell \in Cells |-> IF Planned(cell) THEN [uvw |-> uvw[cell], aterm |-> aterms[1]]
                      ELSE vis[cell]]

(* make_plan and Proxy::degridding; what is not planned is not touched. *)
Predicted ==
  [cell \in Cells |->
     IF Planned(cell)
     THEN [uvw |-> uvw[cell], aterm |-> aterms[AtermIndex(atermOffsets, cell[2])]]
     ELSE vis[cell]]

(* Mutation of AtermsAfterFlush: the a-terms are not resized. *)
AllAtermsKept == aterms

(* reset_aterm() *)
AtermsAfterFlush == <<LastAterm>>

(* Mutation of NothingToFlush: a batch that is not full is not flushed. *)
NotFull == ~bufferFull \/ ~dataRead \/ timeindices = {}

(* flush() returns where the data were not read or nothing was requested. *)
NothingToFlush == (bufferFull /\ ~dataRead) \/ timeindices = {}

(* flush(), with set_uvw_to_infinity() and reset_aterm() *)
Flush ==
  IF NothingToFlush
  THEN UNCHANGED <<frontVars, dataRead>>
  ELSE /\ vis' = Predicted
       /\ timeStart' = timeStart + BufferTimesteps
       /\ timeindices' = {}
       /\ uvw' = NoUvw
       /\ atermOffsets' = DefaultOffsets
       /\ aterms' = AtermsAfterFlush
       /\ dataRead' = FALSE

(* compute(), when a request was refused or the pass is over: flush, and    *)
(* hand out the rows.                                                      *)
Compute ==
  /\ client \in {"requesting", "refused"}
  /\ Flush
  /\ bufferFull' = FALSE
  /\ available' = rowCells
  /\ rowCells' = <<>>
  /\ client' = "reading"
  /\ UNCHANGED <<clientVars, refused, accepted, delivered>>

(* The client reads through the pointers and calls finished_reading(). *)
Read ==
  /\ client = "reading"
  /\ delivered' = delivered \cup {[row |-> available[k].row, data |-> vis[available[k].cell]] :
                                    k \in DOMAIN available}
  /\ available' = <<>>
  /\ rowCells' = <<>>
  /\ dataRead' = TRUE
  /\ client' = IF refused # {} THEN "retrying" ELSE "end"
  /\ UNCHANGED <<bufferVars, bufferFull, refused, accepted>>

Next ==
  \/ \E bl \in Baselines : Request(bl) \/ Retry(bl)
  \/ NextTime
  \/ NextPass
  \/ SetAterm
  \/ Compute
  \/ Read

Spec == Init /\ [][Next]_vars

-----------------------------------------------------------------------------
Rows  == [baseline : Baselines, stamp : Stamps]
Datum == [uvw : Stamps, aterm : 0 .. MaxAterms]
RowCells == Seq([row : Rows, cell : Cells])

(* The type invariant. *)
TypeOK ==
  /\ BufferTypeOK(Datum \cup {Zero})
  /\ bufferFull \in BOOLEAN /\ dataRead \in BOOLEAN
  /\ rowCells \in RowCells /\ available \in RowCells
  /\ client \in Places
  /\ refused \in SUBSET Baselines
  /\ accepted \in SUBSET [row : Rows, aterm : 0 .. MaxAterms]
  /\ delivered \in SUBSET [row : Rows, data : Datum \cup {Zero}]

OnGrid(row) == row.stamp[2] \notin OutOfRange

(* What a row is read as was predicted for the uvw of that row, although    *)
(* the pointers of the rows were taken before the batch was predicted and   *)
(* cells are used again by later batches.                                   *)
PredictedWithItsUvw ==
  \A d \in delivered : OnGrid(d.row) => d.data.uvw = d.row.stamp

(* ... and with the a-term that was set last when it was requested, in      *)
(* whichever batch that was.                                                *)
PredictedWithItsAterm ==
  \A d \in delivered :
    OnGrid(d.row) => [row |-> d.row, aterm |-> d.data.aterm] \in accepted

(* A row whose request fitted waits in the batch, with its uvw in the cell  *)
(* that its pointer points to, or can be read now, or was read.             *)
NoRowLost ==
  \A a \in accepted :
    \/ \E k \in DOMAIN rowCells :
         rowCells[k].row = a.row /\ uvw[rowCells[k].cell] = a.row.stamp
    \/ \E k \in DOMAIN available :
         /\ available[k].row = a.row
         /\ OnGrid(a.row) => vis[available[k].cell].uvw = a.row.stamp
    \/ \E d \in delivered : d.row = a.row

(* A row that is off the grid is read as zero: "The proxy does not touch    *)
(* visibilities for out-of-bound uvw coordinates.  Since we copy all        *)
(* visibilities to the caller, initialize them to zero" (BulkDegridder.cpp). *)
OffGridIsZero ==
  \A d \in delivered : ~OnGrid(d.row) => d.data = Zero

(* "Push failed request again (always fits)" (DegridderBuffer.h:48).        *)
AlwaysFits ==
  [][client = "retrying" => ~bufferFull']_vars
=============================================================================
