------------------------------- MODULE Buffer -------------------------------
(***************************************************************************)
(* BufferImpl (idg-api/Buffer.cpp, BufferImpl.h): what the gridder's and   *)
(* the degridder's buffer have in common.  A buffer has BufferTimesteps    *)
(* slots per baseline for one batch of consecutive time indices, and the   *)
(* a-terms of the batch with the slots at which each starts.               *)
(*                                                                         *)
(* The client goes through the data in order of time, possibly several     *)
(* times.  A visibility is identified by its baseline and a stamp, the     *)
(* pass over the data and the time index it belongs to; the uvw            *)
(* coordinates and the weights that go with it carry the same stamp.       *)
(***************************************************************************)
EXTENDS Integers, FiniteSets, Sequences

CONSTANTS
  Baselines,        (* pairs of different antennas                              *)
  BufferTimesteps,  (* m_bufferTimesteps                                        *)
  IntRange,         (* 2^32 in the code: the values of an int                   *)
  MaxTime,          (* bound on time indices: with a batch added, an int       *)
  MaxPasses,        (* bound on passes over the data                            *)
  MaxAterms,        (* bound on calls of set_aterm                              *)
  CarefulAterms     (* how the client uses set_aterm: see MaySetAterm           *)

ASSUME BufferAssumption ==
  /\ BufferTimesteps \in Nat \ {0}
  /\ IntRange \in Nat /\ IntRange % 2 = 0
  /\ MaxTime \in Nat /\ 2 * (MaxTime + BufferTimesteps) <= IntRange
  /\ MaxPasses \in Nat \ {0}
  /\ MaxAterms \in Nat
  /\ CarefulAterms \in BOOLEAN

VARIABLES
  timeStart,     (* m_timeStartThisBatch *)
  timeindices,   (* m_timeindices *)
  uvw, vis,      (* m_bufferUVW, m_bufferVisibilities *)
  atermOffsets,  (* m_aterm_offsets *)
  aterms,        (* m_aterms *)
  now, pass,     (* the client: the time and the pass it is at *)
  atermSet       (* history: the a-term that was set last *)

batchVars  == <<timeStart, timeindices>>
atermVars  == <<atermOffsets, aterms>>
frontVars  == <<batchVars, uvw, vis, atermVars>>
clientVars == <<now, pass, atermSet>>
bufferVars == <<frontVars, clientVars>>

Slots  == 0 .. (BufferTimesteps - 1)
Cells  == Baselines \X Slots
Times  == 0 .. MaxTime
Stamps == (0 .. MaxPasses - 1) \X Times

(* An infinite uvw marks a cell without data. *)
Infinite == <<-1, -1>>

NoUvw == [cell \in Cells |-> Infinite]

DefaultOffsets == <<0, BufferTimesteps>>

(* A-terms are numbered by the call that set them; 0 is the default. *)
BufferInit(zero) ==
  /\ timeStart = 0
  /\ timeindices = {}
  /\ uvw = NoUvw
  /\ vis = [cell \in Cells |-> zero]
  /\ atermOffsets = DefaultOffsets /\ aterms = <<0>>
  /\ now = 0 /\ pass = 0
  /\ atermSet = 0

-----------------------------------------------------------------------------
(* const int local_time = timeIndex - start: size_t to int. *)
LocalTime(time, start) ==
  LET m == (time - start) % IntRange
  IN  IF 2 * m >= IntRange THEN m - IntRange ELSE m

LastOffset == atermOffsets[Len(atermOffsets) - 1]

LastAterm == aterms[Len(aterms)]

(* The assertions of set_aterm, which a release build does not check. *)
AtermInBatch ==
  LocalTime(now, timeStart) \in LastOffset .. BufferTimesteps

(* When the client sets an a-term: where the assertions hold and, if it is  *)
(* a careful client, not for the next batch while the buffer is still empty. *)
MaySetAterm ==
  /\ AtermInBatch
  /\ CarefulAterms => (LocalTime(now, timeStart) = BufferTimesteps => timeindices # {})

(* set_aterm(now, ...): the a-term that starts validity now. *)
SetAtermNow ==
  /\ atermSet < MaxAterms
  /\ MaySetAterm
  /\ atermSet' = atermSet + 1
  /\ LET localTime == LocalTime(now, timeStart)
     IN  IF localTime = LastOffset
         THEN /\ aterms' = [aterms EXCEPT ![Len(aterms)] = atermSet']
              /\ UNCHANGED atermOffsets
         ELSE /\ aterms' = Append(aterms, atermSet')
              /\ atermOffsets' = [atermOffsets EXCEPT
                                    ![Len(atermOffsets)] = localTime]
                                 \o <<BufferTimesteps>>
  /\ UNCHANGED <<batchVars, uvw, vis, now, pass>>

(* The a-term in a plan for a slot: the interval of the offsets it is in. *)
AtermIndex(offsets, slot) ==
  CHOOSE n \in 1 .. Len(offsets) - 1 :
    offsets[n] <= slot /\ slot < offsets[n + 1]

-----------------------------------------------------------------------------
StampOrNone == Stamps \cup {Infinite}

AtermsTypeOK(offsets, terms) ==
  /\ offsets \in Seq(Nat)
  /\ terms \in Seq(0 .. MaxAterms)
  /\ Len(offsets) = Len(terms) + 1

BufferTypeOK(Visibilities) ==
  /\ timeStart \in Nat
  /\ timeindices \in SUBSET Times
  /\ uvw \in [Cells -> StampOrNone]
  /\ vis \in [Cells -> Visibilities]
  /\ AtermsTypeOK(atermOffsets, aterms)
  /\ now \in Times /\ pass \in 0 .. MaxPasses - 1
  /\ atermSet \in 0 .. MaxAterms
=============================================================================
