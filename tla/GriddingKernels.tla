--------------------------- MODULE GriddingKernels --------------------------
(***************************************************************************)
(* The kernels between visibilities and subgrids, on the CPU: gridding,    *)
(* degridding, calibration and the average beam.  A call has the fields    *)
(*    size      subgrid_size                                               *)
(*    aterms    aterms[time]: the a-term that is valid at a time index     *)
(*    work      the metadata of the subgrids: first and number of          *)
(*              timesteps, first and end of the channels                   *)
(*    average   whether gridders correct for the average a-term            *)
(* The kernels work on 2 x 2 matrices of polarizations; here a matrix is   *)
(* one value.  The phase of a visibility in a pixel comes from the uvw of  *)
(* its time, the wavenumber of its channel and the l, m, n and phase       *)
(* offset of the pixel, which are factors, as are taper and a-terms.       *)
(***************************************************************************)
EXTENDS KernelThreads

NrPixels(c) == c.size * c.size
Pixels(c) == Count(NrPixels(c))
(* x_dst = (x + (subgrid_size / 2)) % subgrid_size, and the same for y. *)
Shifted(c, i) ==
    LET half == c.size \div 2
        shift(x) == (x + half) % c.size
    IN  shift(i \div c.size) * c.size + shift(i % c.size)

Visibility(time, chan) == <<"visibilities", time, chan>>
Uvw(time) == <<"uvw", time>>
Wavenumber(chan) == <<"wavenumbers", chan>>
Lmn(i) == <<"lmn", i>>
Taper(i) == <<"taper", i>>
Aterm(a, i) == <<"aterms", a, i>>
(* apply_avg_aterm_correction, if there is an average. *)
Correction(c, i) == IF c.average THEN <<<<"avg_aterm_correction", i>>>> ELSE <<>>
Subgrid(s, i) == <<"subgrid", s, i>>
Minus == <<"minus">>

Timesteps(w) == Steps(w.first, w.first + w.timesteps, 1)
Channels(w) == Steps(w.begin, w.end, 1)
TimeRange(w) == w.first .. w.first + w.timesteps - 1
ChannelRange(w) == w.begin .. w.end - 1

(* The number of timesteps, from offset, that have the a-term of offset. *)
NrTimesteps(c, w, offset) ==
    LET same(n) == \A k \in 0 .. n - 1 :
            c.aterms[w.first + offset + k] = c.aterms[w.first + offset]
    IN  Max({n \in 1 .. w.timesteps - offset : same(n)})
(* The time offsets at which the loop over runs of one a-term arrives. *)
RunOffsets(c, w) ==
    LET from[offset \in Nat] ==
            IF offset >= w.timesteps THEN <<>>
            ELSE <<offset>> \o from[offset + NrTimesteps(c, w, offset)]
    IN  from[0]

(* Optimized gridder: the visibilities of a run are gathered, reduced to
   pixels, and the a-term is applied to the sum when it changes. *)
Local(s, i) == <<"subgrid_local", s, i>>
ResetLocal(c, s) == For(Pixels(c), LAMBDA i : <<Assign(Local(s, i), Zero)>>)
UpdateSubgrid(c, s, a) ==
    For(Pixels(c), LAMBDA i :
        <<AddTo(Subgrid(s, Shifted(c, i)),
                {<<Local(s, i), Aterm(a, i)>> \o Correction(c, i) \o <<Taper(i)>>})>>)
ChangeAtermTooEarly(c, s, w, offset) ==     \* for a mutant
    UpdateSubgrid(c, s, c.aterms[w.first + offset]) \o ResetLocal(c, s)
ChangeAterm(c, s, w, offset) ==
    UpdateSubgrid(c, s, c.aterms[w.first + offset - 1]) \o ResetLocal(c, s)

GatherAndReduce(c, s, w, offset) ==
    LET nr == w.end - w.begin
        times == Count(NrTimesteps(c, w, offset))
        now(time) == w.first + offset + time
        slot(time, chan) == <<"vis", s, time * nr + chan - w.begin>>
    IN  For(times, LAMBDA time : For(Channels(w), LAMBDA chan :
            <<Assign(slot(time, chan), {<<Visibility(now(time), chan)>>})>>))
        \o For(Pixels(c), LAMBDA i : For(times, LAMBDA time :
            For(Channels(w), LAMBDA chan :
                <<AddTo(Local(s, i),
                        {<<slot(time, chan), Uvw(now(time)), Wavenumber(chan), Lmn(i)>>})>>)))

Gridder(c, s) ==
    LET w == c.work[s]
    IN  For(Pixels(c), LAMBDA i : <<Assign(Subgrid(s, i), Zero)>>)
        \o ResetLocal(c, s)
        \o For(RunOffsets(c, w), LAMBDA offset :
               (IF offset = 0 THEN <<>> ELSE ChangeAterm(c, s, w, offset))
               \o GatherAndReduce(c, s, w, offset))
        \o UpdateSubgrid(c, s, c.aterms[w.first + w.timesteps - 1])

(* Reference gridder: every pixel and every time on its own. *)
ReferenceGridder(c, s) ==
    LET w == c.work[s]
        pixels(i) == <<"pixels", s, i>>
        pixel == <<"pixel", s>>
    IN  For(Pixels(c), LAMBDA i :
            <<Assign(pixels(i), Zero)>>
            \o For(Timesteps(w), LAMBDA time :
                <<Assign(pixel, Zero)>>
                \o For(Channels(w), LAMBDA chan :
                    <<AddTo(pixel, {<<Visibility(time, chan), Uvw(time), Wavenumber(chan), Lmn(i)>>})>>)
                \o <<AddTo(pixels(i), {<<pixel, Aterm(c.aterms[time], i)>>})>>)
            \o <<Assign(Subgrid(s, Shifted(c, i)),
                        {<<pixels(i)>> \o Correction(c, i) \o <<Taper(i)>>})>>)

(* What both leave in pixel i of the image, at its shifted position. *)
Gridded(c, s, i) ==
    LET w == c.work[s]
    IN  {<<Visibility(time, chan), Uvw(time), Wavenumber(chan), Lmn(i),
           Aterm(c.aterms[time], i)>> \o Correction(c, i) \o <<Taper(i)>> :
                  time \in TimeRange(w), chan \in ChannelRange(w)}
GridderResults(c) ==
    LET at == [cell \in {Subgrid(s, i) : s \in DOMAIN c.work, i \in 0 .. NrPixels(c) - 1} |->
                  CHOOSE i \in 0 .. NrPixels(c) - 1 : Shifted(c, i) = cell[3]]
    IN  [cell \in DOMAIN at |-> Gridded(c, cell[2], at[cell])]

(* Degridders: the optimized one applies the a-term to the subgrid when it
   changes, the reference one at every time. *)
Changed(c, w, time) ==
    time = w.first \/ c.aterms[time] # c.aterms[time - 1]
Corrected(s, i) == <<"pixels", s, i>>
Degrid(c, s, w, time) ==
    LET sum == <<"sum", s>>
    IN  For(Channels(w), LAMBDA chan :
            <<Assign(sum, Zero)>>
            \o For(Pixels(c), LAMBDA i :
                   <<AddTo(sum, {<<Corrected(s, i), Uvw(time), Wavenumber(chan), Lmn(i)>>})>>)
            \o <<Assign(Visibility(time, chan), {<<sum>>})>>)
DegridderWhen(c, s, changes) ==
    LET w == c.work[s]
    IN  For(Timesteps(w), LAMBDA time :
            (IF time \in changes
             THEN For(Pixels(c), LAMBDA i :
                      <<Assign(Corrected(s, i), {<<Subgrid(s, Shifted(c, i)), Taper(i),
                                                   Aterm(c.aterms[time], i)>>})>>)
             ELSE <<>>)
            \o Degrid(c, s, w, time))
Degridder(c, s) ==
    DegridderWhen(c, s, {time \in TimeRange(c.work[s]) : Changed(c, c.work[s], time)})
ReferenceDegridder(c, s) == DegridderWhen(c, s, TimeRange(c.work[s]))

Degridded(c, s, time, chan) ==
    {<<Subgrid(s, Shifted(c, i)), Taper(i), Aterm(c.aterms[time], i),
                Uvw(time), Wavenumber(chan), Lmn(i)>> : i \in 0 .. NrPixels(c) - 1}
DegridderResults(c) ==
    LET cells(s) == {Visibility(time, chan) :
                     time \in TimeRange(c.work[s]), chan \in ChannelRange(c.work[s])}
        subgrid(cell) == CHOOSE s \in DOMAIN c.work : cell \in cells(s)
    IN  [cell \in UNION {cells(s) : s \in DOMAIN c.work} |->
            Degridded(c, subgrid(cell), cell[2], cell[3])]

(* Calibration: kernel_phasor stores a phasor per subgrid, time, channel and
   pixel; kernel_calibrate sums the model per term, and accumulates residual,
   gradient and hessian per subgrid first. *)
PhasorIndex(c, s, time, chan, i) ==
    (((s - 1) * c.max_timesteps + time) * c.nr_channels + chan) * NrPixels(c) + i
Phasor(c, s, time, chan, i) == <<"phasors", PhasorIndex(c, s, time, chan, i)>>
KernelPhasor(c, s) ==
    LET w == c.work[s]
    IN  For(Count(w.timesteps), LAMBDA time : For(Count(c.nr_channels), LAMBDA chan :
            For(Pixels(c), LAMBDA i :
                <<Assign(Phasor(c, s, time, chan, i),
                         {<<Uvw(w.first + time), Wavenumber(chan), Lmn(i)>>})>>)))

Weight(time, chan) == <<"weights", time, chan>>
Derivative(term, a, i) == <<"aterm_derivatives", term, a, i>>
(* Term nr_terms is the model itself. *)
TermFactor(c, term, a, i) ==
    IF term = c.nr_terms THEN Aterm(a, i) ELSE Derivative(term, a, i)
Residual(s) == <<"residual_local", s>>
Gradient(s, a, term) == <<"gradient_local", s, a, term>>
Hessian(s, a, term1, term0) == <<"hessian_local", s, a, term1, term0>>
Terms(c) == Count(c.nr_terms)
Slots(c) == Count(c.nr_time_slots)

ZeroCalibration(c) ==
    For([s \in DOMAIN c.work |-> s], LAMBDA s :
        <<Assign(Residual(s), Zero)>>
        \o For(Slots(c), LAMBDA a : For(Terms(c), LAMBDA term1 :
            <<Assign(Gradient(s, a, term1), Zero)>>
            \o For(Terms(c), LAMBDA term0 : <<Assign(Hessian(s, a, term1, term0), Zero)>>))))

CalibrateVisibility(c, s, w, time, chan) ==
    LET sums(term) == <<"sums", s, term>>
        res == <<"visibility_res", s>>
        a == c.aterms[time]
        weight == Weight(time, chan)
    IN  For(Count(c.nr_terms + 1), LAMBDA term :
            <<Assign(sums(term), Zero)>>
            \o For(Pixels(c), LAMBDA i :
                <<AddTo(sums(term), {<<<<"pixels", s, term, i>>,
                                      Phasor(c, s, time - w.first, chan, i)>>})>>))
        \o <<Assign(res, {<<Visibility(time, chan)>>, <<Minus, sums(c.nr_terms)>>}),
             AddTo(Residual(s), {<<weight, res, res>>})>>
        \o For(Terms(c), LAMBDA term :
               <<AddTo(Gradient(s, a, term), {<<weight, sums(term), res>>})>>)
        \o For(Terms(c), LAMBDA term1 : For(Terms(c), LAMBDA term0 :
               <<AddTo(Hessian(s, a, term1, term0), {<<weight, sums(term0), sums(term1)>>})>>))

KernelCalibrate(c, s) ==
    LET w == c.work[s]
    IN  For(Timesteps(w), LAMBDA time :
            (IF Changed(c, w, time)
             THEN For(Count(c.nr_terms + 1), LAMBDA term : For(Pixels(c), LAMBDA i :
                      <<Assign(<<"pixels", s, term, i>>,
                               {<<Subgrid(s, Shifted(c, i)),
                                  TermFactor(c, term, c.aterms[time], i)>>})>>))
             ELSE <<>>)
            \o For(Channels(w), LAMBDA chan : CalibrateVisibility(c, s, w, time, chan)))

ReduceCalibration(c) ==
    For([s \in DOMAIN c.work |-> s], LAMBDA s :
        <<AddTo(<<"residual">>, {<<Residual(s)>>})>>
        \o For(Slots(c), LAMBDA a : For(Terms(c), LAMBDA term1 :
            <<AddTo(<<"gradient", a, term1>>, {<<Gradient(s, a, term1)>>})>>
            \o For(Terms(c), LAMBDA term0 :
                <<AddTo(<<"hessian", a, term1, term0>>,
                        {<<Hessian(s, a, term1, term0)>>})>>))))

Calibrate(c, s) ==
    KernelPhasor(c, s)
    \o (IF s = 1 THEN ZeroCalibration(c) ELSE <<>>) \o <<Barrier>>
    \o KernelCalibrate(c, s) \o <<Barrier>>
    \o (IF s = 1 THEN ReduceCalibration(c) ELSE <<>>)

(* Residual, gradient and hessian, accumulated by the caller over calls. *)
CalibrationCells(c) ==
    LET slots == 0 .. c.nr_time_slots - 1
        terms == 0 .. c.nr_terms - 1
    IN  {<<"residual">>} \cup {<<"gradient", a, t>> : a \in slots, t \in terms}
        \cup {<<"hessian", a, t, u>> : a \in slots, t \in terms, u \in terms}
CalibrationContent(c) == [cell \in CalibrationCells(c) |-> {}]

ModelledTerm(c, s, time, chan, term) ==
    {<<Subgrid(s, Shifted(c, i)), TermFactor(c, term, c.aterms[time], i),
       Uvw(time), Wavenumber(chan), Lmn(i)>> : i \in 0 .. NrPixels(c) - 1}
ResidualTerms(c, s, time, chan) ==
    {<<Visibility(time, chan)>>}
    \cup {<<Minus>> \o m : m \in ModelledTerm(c, s, time, chan, c.nr_terms)}
CalibrationTerms(c, cell, s, time, chan) ==
    LET model(term) == ModelledTerm(c, s, time, chan, term)
        residual == ResidualTerms(c, s, time, chan)
        pairs == IF cell[1] = "residual" THEN residual \X residual
                 ELSE IF cell[1] = "gradient" THEN model(cell[3]) \X residual
                 ELSE model(cell[4]) \X model(cell[3])
    IN  IF cell[1] # "residual" /\ cell[2] # c.aterms[time] THEN {}
        ELSE {<<Weight(time, chan)>> \o p[1] \o p[2] : p \in pairs}
CalibrationResults(c) ==
    LET visibilities(s) == {s} \X TimeRange(c.work[s]) \X ChannelRange(c.work[s])
        all == UNION {visibilities(s) : s \in DOMAIN c.work}
    IN  [cell \in CalibrationCells(c) |->
            UNION {CalibrationTerms(c, cell, v[1], v[2], v[3]) : v \in all}]
=============================================================================
