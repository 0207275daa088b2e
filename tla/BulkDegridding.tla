--------------------------- MODULE BulkDegridding ---------------------------
(***************************************************************************)
(* BulkDegridder: one call that degrids all rows of the client's timesteps.*)
(* It sorts them into buffers by baseline, plans, degrids (the proxy is    *)
(* external here) and copies the visibilities back, in the client's order. *)
(* A call has                                                              *)
(*    stations, antennas   nr_stations, and the pair of each row           *)
(*    timesteps, channels                                                  *)
(*    correlations         of the buffer: 2 (Stokes I) or 4                *)
(*    offsets              aterm_offsets, the first of them 0              *)
(*    off_grid             the <<bl, t>> that no subgrid covers            *)
(* Buffers are indexed as they are stored, so that rows can be mixed up.   *)
(***************************************************************************)
EXTENDS KernelThreads

Rows(c) == Count(Len(c.antennas))
TimeSlots(c) == Count(c.timesteps)
Antennas(c, bl) == c.antennas[bl + 1]
Cross(c, bl) == Antennas(c, bl)[1] # Antennas(c, bl)[2]
BaselineIndex(c, ant1, ant2) ==
    LET offset == ant1 * c.stations - ((ant1 + 1) * ant1) \div 2 - 1
    IN  ant2 - ant1 + offset
LocalBaseline(c, bl) == BaselineIndex(c, Antennas(c, bl)[1], Antennas(c, bl)[2])

ClientUvw(t, bl) == <<"uvws", t, bl>>
UvwFactors == <<"uvw_factors">>
ClientVisibility(c, t, bl, k) == <<"visibilities", t, bl * c.channels * 4 + k>>
BufferUvw(c, b, t) == <<"bufferUVW", b * c.timesteps + t>>
BufferVisibility(c, b, t, k) ==
    <<"bufferVisibilities", (b * c.timesteps + t) * c.channels * c.correlations + k>>
StationPair(b) == <<"bufferStationPairs", b>>
Station(ant) == <<"station", ant>>

(* local_aterm_offsets: slot k of a-terms ends where the next one begins. *)
AtermSlot(c, t) ==
    LET ends == Append(Tail(c.offsets), c.timesteps)
    IN  CHOOSE k \in DOMAIN ends : c.offsets[k] <= t /\ t < ends[k]
Prediction(c, b, t, k) ==
    {<<BufferUvw(c, b, t), StationPair(b), <<"aterms", AtermSlot(c, t)>>, <<"model", k>>>>}

FillBuffers(c) ==
    For(Rows(c), LAMBDA bl :
        IF ~Cross(c, bl) THEN <<>>
        ELSE LET b == LocalBaseline(c, bl)
             IN  <<Assign(StationPair(b), {<<Station(Antennas(c, bl)[1]), Station(Antennas(c, bl)[2])>>})>>
                 \o For(TimeSlots(c), LAMBDA t :
                        <<Assign(BufferUvw(c, b, t), {<<ClientUvw(t, bl), UvwFactors>>})>>))
DegridBuffers(c) ==
    For(Rows(c), LAMBDA b : For(TimeSlots(c), LAMBDA t :
        IF <<b, t>> \in c.off_grid THEN <<>>
        ELSE For(Count(c.channels * c.correlations), LAMBDA k :
                 <<Assign(BufferVisibility(c, b, t, k), Prediction(c, b, t, k))>>)))

(* With two correlations, XX and YY go to the first and last of four. *)
CopyBack(c) ==
    LET copy(t, bl, to, from) ==
            <<Assign(ClientVisibility(c, t, bl, to),
                     {<<BufferVisibility(c, LocalBaseline(c, bl), t, from)>>})>>
        clear(t, bl, to) == <<Assign(ClientVisibility(c, t, bl, to), Zero)>>
    IN  For(TimeSlots(c), LAMBDA t : For(SelectSeq(Rows(c), LAMBDA bl : Cross(c, bl)), LAMBDA bl :
            IF c.correlations = 4
            THEN For(Count(c.channels * 4), LAMBDA k : copy(t, bl, k, k))
            ELSE For(Count(c.channels), LAMBDA i :
                     copy(t, bl, i * 4, i * 2) \o clear(t, bl, i * 4 + 1)
                     \o clear(t, bl, i * 4 + 2) \o copy(t, bl, i * 4 + 3, i * 2 + 1))))
ComputeVisibilities(c) == FillBuffers(c) \o DegridBuffers(c) \o CopyBack(c)

(* bufferVisibilities.fill(0) *)
BulkContent(c) ==
    [cell \in {<<"bufferVisibilities", k>> :
               k \in 0 .. Len(c.antennas) * c.timesteps * c.channels * c.correlations - 1} |-> {}]

(* Every row gets what its own uvw, stations and a-term predict, and zero where
   it is off the grid; rows of one antenna with itself are left alone. *)
BulkResults(c) ==
    LET rows == {bl \in 0 .. Len(c.antennas) - 1 : Cross(c, bl)}
        row(cell) == cell[3] \div (c.channels * 4)
        from(k) == IF c.correlations = 4 THEN {k}       \* XX, XY, YX, YY of a channel
                   ELSE IF k % 4 \in {0, 3} THEN {k \div 2} ELSE {}
    IN  [cell \in {ClientVisibility(c, t, bl, k) : t \in 0 .. c.timesteps - 1, bl \in rows,
                                                   k \in 0 .. c.channels * 4 - 1} |->
            LET bl == row(cell)
                ants == Antennas(c, bl)
            IN  IF <<LocalBaseline(c, bl), cell[2]>> \in c.off_grid THEN {}
                ELSE {<<ClientUvw(cell[2], bl), UvwFactors, Station(ants[1]), Station(ants[2]),
                        <<"aterms", AtermSlot(c, cell[2])>>, <<"model", k>>>> :
                      k \in from(cell[3] % (c.channels * 4))}]
=============================================================================
