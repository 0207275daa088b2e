---------------------------- MODULE CudaKernels -----------------------------
(***************************************************************************)
(* The CUDA kernels between visibilities and subgrids.  One block runs per *)
(* subgrid; its threads share the loops over pixels and visibilities and   *)
(* load batches into shared memory, with __syncthreads() around each.      *)
(* Registers are cells with the thread in their name.  A call has the      *)
(* fields of GriddingKernels and                                           *)
(*    threads     blockDim                                                 *)
(*    batch       BATCH_SIZE                                               *)
(*    unroll      UNROLL_PIXELS (gridder)                                  *)
(*    max_terms   MAX_NR_TERMS (calibration)                               *)
(***************************************************************************)
EXTENDS GriddingKernels

Block(c) == 0 .. c.threads - 1
Align(n, m) == ((n + m - 1) \div m) * m
(* for (j = tid; j < n; j += num_threads) *)
Share(c, t, n) == Steps(t, n, c.threads)
(* The same with n rounded up: every thread makes as many iterations. *)
UnalignedShare(c, t, n) == Share(c, t, n)       \* for a mutant
AlignedShare(c, t, n) == Steps(t, Align(n, c.threads), c.threads)

(* kernel_gridder: a thread sums unroll pixels at a time, in registers. *)
PixelCur(t, j) == <<"pixel_cur", t, j>>
PixelSum(t, j) == <<"pixel_sum", t, j>>
SharedVisibility(k) == <<"visibilities_", k>>
SharedUvw(j) == <<"uvw_", j>>

UpdatePixel(c, t, i, j, a) ==
    LET p == i + j * c.threads
    IN  IF p < NrPixels(c)
        THEN <<AddTo(PixelSum(t, j), {<<PixelCur(t, j), Aterm(a, p)>>})>> ELSE <<>>

LoadBatch(c, t, w, offset, nr) ==
    LET nr_channels == w.end - w.begin
        time(j) == w.first + offset + j
    IN  For(Share(c, t, nr), LAMBDA j : <<Assign(SharedUvw(j), {<<Uvw(time(j))>>})>>)
        \o For(Share(c, t, nr * nr_channels), LAMBDA k :
               <<Assign(SharedVisibility(k),
                        {<<Visibility(time(k \div nr_channels),
                                      w.begin + (k % nr_channels))>>})>>)

GridTimestep(c, t, i, w, offset, time) ==
    LET now == w.first + offset + time
        nr_channels == w.end - w.begin
        unrolled == Count(c.unroll)
    IN  (IF now > w.first /\ c.aterms[now] # c.aterms[now - 1]
         THEN For(unrolled, LAMBDA j :
                  UpdatePixel(c, t, i, j, c.aterms[now - 1])
                  \o <<Assign(PixelCur(t, j), Zero)>>)
         ELSE <<>>)
        \o For(unrolled, LAMBDA j : For(Count(nr_channels), LAMBDA chan :
               <<AddTo(PixelCur(t, j),
                       {<<SharedVisibility(time * nr_channels + chan), SharedUvw(time),
                          Wavenumber(w.begin + chan), Lmn(i + j * c.threads)>>})>>))

GridBatchUnguarded(c, t, i, w, offset, nr) ==   \* for a mutant
    LoadBatch(c, t, w, offset, nr) \o <<Barrier>>
    \o For(Count(nr), LAMBDA time : GridTimestep(c, t, i, w, offset, time))
GridBatch(c, t, i, w, offset, nr) ==
    <<Barrier>> \o LoadBatch(c, t, w, offset, nr) \o <<Barrier>>
    \o For(Count(nr), LAMBDA time : GridTimestep(c, t, i, w, offset, time))

StorePixels(c, t, s, i, a) ==
    For(Count(c.unroll), LAMBDA j :
        LET p == i + j * c.threads
        IN  IF p < NrPixels(c)
            THEN UpdatePixel(c, t, i, j, a)
                 \o <<Assign(Subgrid(s, Shifted(c, p)),
                             {<<PixelSum(t, j)>> \o Correction(c, p) \o <<Taper(p)>>})>>
            ELSE <<>>)

CudaGridder(c, t) ==
    LET w == c.work[1]
        batch == Max({1, c.batch \div (w.end - w.begin)})
        pixels == Steps(t, Align(NrPixels(c), c.threads), c.threads * c.unroll)
    IN  For(pixels, LAMBDA i :
            For(Count(c.unroll), LAMBDA j :
                <<Assign(PixelCur(t, j), Zero), Assign(PixelSum(t, j), Zero)>>)
            \o For(Steps(0, w.timesteps, batch), LAMBDA offset :
                   GridBatch(c, t, i, w, offset, Min({batch, w.timesteps - offset})))
            \o StorePixels(c, t, 1, i, c.aterms[w.first + w.timesteps - 1]))

(* kernel_degridder: for each group of up to 8 channels either visibilities
   are spread over threads and each thread loops over batches of pixels (tp),
   or the other way around (pt). *)
SharedPixel(j) == <<"shared_pixel", j>>
SharedLmn(j) == <<"shared_lmn", j>>
Register(t, chan) == <<"visibility", t, chan>>
MaxUnroll == 8

PixelBatches(c) == Steps(0, NrPixels(c), Min({c.threads, c.batch}))
BatchPixels(c, offset) == Min({c.threads, c.batch, NrPixels(c) - offset})

PrepareShared(c, t, offset, a) ==
    For(Share(c, t, BatchPixels(c, offset)), LAMBDA j :
        LET p == offset + j
        IN  <<Assign(SharedPixel(j), {<<Subgrid(1, Shifted(c, p)), Taper(p), Aterm(a, p)>>}),
              Assign(SharedLmn(j), {<<Lmn(p)>>})>>)
ComputeVisibility(c, t, offset, time, channels) ==
    For(Count(BatchPixels(c, offset)), LAMBDA j : For(channels, LAMBDA chan :
        <<AddTo(Register(t, chan),
                {<<SharedPixel(j), Uvw(time), Wavenumber(chan), SharedLmn(j)>>})>>))
ResetVisibility(t, channels) ==
    For(channels, LAMBDA chan : <<Assign(Register(t, chan), Zero)>>)
UpdateVisibility(t, time, channels) ==
    For(channels, LAMBDA chan : <<AddTo(Visibility(time, chan), {<<Register(t, chan)>>})>>)

DegridderTp(c, t, w, group) ==
    LET channels == Steps(group.offset, group.offset + group.channels, 1)
        visibility(offset, nr, i) ==
            LET time == w.first + offset + i
            IN  ResetVisibility(t, channels) \o <<Barrier>>
                \o For(PixelBatches(c), LAMBDA p :
                       <<Barrier>> \o PrepareShared(c, t, p, c.aterms[w.first + offset])
                       \o <<Barrier>> \o ComputeVisibility(c, t, p, time, channels))
                \o (IF i < nr THEN UpdateVisibility(t, time, channels) ELSE <<>>)
    IN  For(RunOffsets(c, w), LAMBDA offset :
            LET nr == NrTimesteps(c, w, offset)
            IN  For(AlignedShare(c, t, nr), LAMBDA i : visibility(offset, nr, i)))

DegridderPt(c, t, w, group) ==
    LET visibility(p, offset, nr, i) ==
            LET time == w.first + offset + (i \div group.channels)
                channels == <<group.offset + (i % group.channels)>>
            IN  ResetVisibility(t, channels)
                \o ComputeVisibility(c, t, p, time, channels)
                \o (IF i < nr * group.channels
                    THEN UpdateVisibility(t, time, channels) ELSE <<>>)
    IN  For(PixelBatches(c), LAMBDA p : For(RunOffsets(c, w), LAMBDA offset :
            LET nr == NrTimesteps(c, w, offset)
            IN  <<Barrier>> \o PrepareShared(c, t, p, c.aterms[w.first + offset]) \o <<Barrier>>
                \o For(AlignedShare(c, t, nr * group.channels), LAMBDA i :
                       visibility(p, offset, nr, i))))

ChannelGroups(w) ==
    LET from[offset \in Nat] ==
            IF offset >= w.end THEN <<>>
            ELSE LET nr == Min({MaxUnroll, w.end - offset})
                 IN  <<[offset |-> offset, channels |-> nr]>> \o from[offset + nr]
    IN  from[w.begin]
CudaDegridder(c, t) ==
    LET w == c.work[1]
        long == w.timesteps \div Len(RunOffsets(c, w)) >= c.threads
    IN  For(ChannelGroups(w), LAMBDA group :
            IF long THEN DegridderTp(c, t, w, group) ELSE DegridderPt(c, t, w, group))
(* The host clears the visibilities, which the kernel adds to. *)
DegridderContent(c) ==
    [cell \in {Visibility(time, chan) : time \in TimeRange(c.work[1]),
                                        chan \in ChannelRange(c.work[1])} |-> {}]

(* The calibration kernels, launched one after the other (launch_calibrate)
   for blocks of max_terms terms: sums of the model per term and visibility,
   then their products with the residual (gradient) and with each other
   (hessian).  The two buffers of sums are d_sums1 and d_sums2. *)
SumCell(sums, term, time, chan) == <<sums, term, time, chan>>
SharedTerm(term, j) == <<"pixels_", term, j>>
RegisterSum(t, term) == <<"sum", t, term>>
Update(t, term) == <<"update", t, term>>
UpdateResidual(t) == <<"update_residual_sum", t>>
LaunchBoundary == <<Barrier>>

(* The loop over visibilities and batches of pixels that kernel_calibrate_sums
   and kernel_calibrate_gradient share: pixels_ holds what each of nr_terms
   terms, from term on, makes of the subgrid. *)
LoadTerms(c, t, offset, a, terms) ==
    For(Share(c, t, c.batch), LAMBDA j :
        LET p == offset + j
        IN  For(Count(Len(terms)), LAMBDA n :
                <<Assign(SharedTerm(n, j),
                         IF p < NrPixels(c)
                         THEN {<<Subgrid(1, Shifted(c, p)),
                                 TermFactor(c, terms[n + 1], a, p)>>} ELSE Zero)>>)
            \o (IF p < NrPixels(c) THEN <<Assign(SharedLmn(j), {<<Lmn(p)>>})>> ELSE <<>>))
SumTerms(c, t, time, chan, a, terms) ==
    For(Count(Len(terms)), LAMBDA n : <<Assign(RegisterSum(t, n), Zero)>>)
    \o For(Steps(0, NrPixels(c), c.batch), LAMBDA offset :
           <<Barrier>> \o LoadTerms(c, t, offset, a, terms) \o <<Barrier>>
           \o For(Count(c.batch), LAMBDA j : For(Count(Len(terms)), LAMBDA n :
                  <<AddTo(RegisterSum(t, n),
                          {<<SharedTerm(n, j), Uvw(time), Wavenumber(chan), SharedLmn(j)>>})>>)))

(* The visibilities of a run that thread t sums the terms for; those past the
   end are not used. *)
OwnVisibilities(c, t, w, offset) ==
    LET nr_channels == w.end - w.begin
        nr == NrTimesteps(c, w, offset) * nr_channels
        own == AlignedShare(c, t, nr)
    IN  [k \in DOMAIN own |->
            [time |-> w.first + offset + (own[k] \div nr_channels),
             chan |-> w.begin + (own[k] % nr_channels),
             a |-> c.aterms[w.first + offset], used |-> own[k] < nr]]

TermBlock(first, nr) == Steps(first, first + nr, 1)
KernelSums(c, t, sums, first, nr) ==
    LET w == c.work[1]
        store(time, chan) ==
            For(Count(nr), LAMBDA n :
                <<Assign(SumCell(sums, n, time, chan), {<<RegisterSum(t, n)>>})>>)
    IN  For(RunOffsets(c, w), LAMBDA offset :
            For(OwnVisibilities(c, t, w, offset), LAMBDA v :
                SumTerms(c, t, v.time, v.chan, v.a, TermBlock(first, nr))
                \o (IF v.used THEN store(v.time, v.chan) ELSE <<>>)))

(* The model itself is the sum of term nr_terms (see TermFactor). *)
UpdateGradient(t, sums, nr, time, chan) ==
    LET residual == <<"residual_register", t>>
        weight == Weight(time, chan)
    IN  <<Assign(residual, {<<Visibility(time, chan)>>, <<Minus, RegisterSum(t, 0)>>})>>
        \o For(Count(nr), LAMBDA n :
               <<AddTo(Update(t, n), {<<weight, SumCell(sums, n, time, chan), residual>>})>>)
        \o <<AddTo(UpdateResidual(t), {<<weight, residual, residual>>})>>
KernelGradient(c, t, sums, first, nr) ==
    LET w == c.work[1]
        reset == For(Count(nr), LAMBDA n : <<Assign(Update(t, n), Zero)>>)
                 \o <<Assign(UpdateResidual(t), Zero)>>
        store(a) ==
            For(Count(nr), LAMBDA n :
                <<AtomicAdd(<<"gradient", a, first + n>>, {<<Update(t, n)>>})>>)
            \o (IF first = 0 THEN <<AtomicAdd(<<"residual">>, {<<UpdateResidual(t)>>})>>
                ELSE <<>>)
    IN  For(RunOffsets(c, w), LAMBDA offset :
            reset
            \o For(OwnVisibilities(c, t, w, offset), LAMBDA v :
                   SumTerms(c, t, v.time, v.chan, v.a, <<c.nr_terms>>)
                   \o (IF v.used THEN UpdateGradient(t, sums, nr, v.time, v.chan) ELSE <<>>))
            \o store(c.aterms[w.first + offset]))

(* A block of nr_x by nr_y threads: thread t is <<t % nr_x, t / nr_x>>.  The
   mirrored update is the same number; here its factors come in the order that
   the mirrored element has them. *)
HessianMirror(y, x) == y.first # x.first
KernelHessian(c, t, y, x) ==
    LET w == c.work[1]
        n1 == t % x.nr
        n0 == t \div x.nr
        update == <<"hessian_update", t>>
        mirrored == <<"hessian_update_mirrored", t>>
        add(time, chan) ==
            LET sum0 == SumCell(y.sums, n0, time, chan)
                sum1 == SumCell(x.sums, n1, time, chan)
            IN  <<AddTo(update, {<<Weight(time, chan), sum0, sum1>>}),
                  AddTo(mirrored, {<<Weight(time, chan), sum1, sum0>>})>>
        element(a, m, n, value) == <<AtomicAdd(<<"hessian", a, m, n>>, {<<value>>})>>
    IN  IF t >= x.nr * y.nr THEN <<>>
        ELSE For(RunOffsets(c, w), LAMBDA offset :
                 LET first == w.first + offset
                     a == c.aterms[first]
                 IN  <<Assign(update, Zero), Assign(mirrored, Zero)>>
                     \o For(Steps(first, first + NrTimesteps(c, w, offset), 1), LAMBDA time :
                            For(Channels(w), LAMBDA chan : add(time, chan)))
                     \o element(a, x.first + n1, y.first + n0, update)
                     \o (IF HessianMirror(y, x)
                         THEN element(a, y.first + n0, x.first + n1, mirrored) ELSE <<>>))

LaunchSumsAndHessian(c, t, y, x) ==
    KernelSums(c, t, x.sums, x.first, x.nr) \o LaunchBoundary
    \o (IF y.first = 0
        THEN KernelGradient(c, t, x.sums, x.first, x.nr) \o LaunchBoundary ELSE <<>>)
    \o KernelHessian(c, t, y, x) \o LaunchBoundary
CudaCalibrate(c, t) ==
    LET terms(sums, first) ==
            [sums |-> sums, first |-> first, nr |-> Min({c.max_terms, c.nr_terms - first})]
        row(y) == LaunchSumsAndHessian(c, t, y, y)
                  \o For(Steps(y.first + y.nr, c.nr_terms, c.max_terms), LAMBDA first :
                         LaunchSumsAndHessian(c, t, y, terms("sums2", first)))
    IN  For(Steps(0, c.nr_terms, c.max_terms), LAMBDA first : row(terms("sums1", first)))

(* kernel_average_beam: a block per baseline, a thread per pixel.  A call has
     baselines   valid: both stations exist; infinite: times without uvw
     offsets     aterm_offsets: where each a-term starts, and the end        *)
BeamAterm(n, b, i) == <<"beam_aterms", n, b, i>>
BeamWeights(c, b, n, sum) ==
    For(Steps(c.offsets[n + 1], c.offsets[n + 2], 1), LAMBDA time :
        IF time \in c.baselines[b].infinite THEN <<>>
        ELSE For(Count(c.nr_channels), LAMBDA chan :
                 <<AddTo(sum, {<<<<"beam_weights", b, time, chan>>>>})>>))
CudaAverageBeam(c, b, t) ==
    LET weights(n) == <<"sum_of_weights", b, t, n>>
        sum == <<"sum", b, t>>
        nr(offset) == Min({c.batch, c.nr_aterms - offset})
        aterm(offset, n, i) ==
            (IF i = t THEN BeamWeights(c, b, offset + n, weights(n)) ELSE <<>>)
            \o <<AddTo(sum, {<<weights(n), BeamAterm(offset + n, b, i)>>})>>
    IN  IF ~c.baselines[b].valid THEN <<>>
        ELSE For(Steps(0, c.nr_aterms, c.batch), LAMBDA offset :
                 For(Count(c.batch), LAMBDA n : <<Assign(weights(n), Zero)>>)
                 \o For(Share(c, t, NrPixels(c)), LAMBDA i :
                        <<Assign(sum, Zero)>>
                        \o For(Count(nr(offset)), LAMBDA n : aterm(offset, n, i))
                        \o <<AtomicAdd(<<"average_beam", i>>, {<<sum>>})>>))

(* The CPU's: two parallel loops, over a-terms and over pixels. *)
AverageBeam(c, t) ==
    LET weights(b, n) == <<"sum_of_weights", b, n>>
        baselines == [b \in DOMAIN c.baselines |-> b]
        sum == <<"sum", t>>
    IN  (IF t < c.nr_aterms
         THEN For(baselines, LAMBDA b :
                  <<Assign(weights(b, t), Zero)>> \o BeamWeights(c, b, t, weights(b, t)))
         ELSE <<>>)
        \o <<Barrier>>
        \o (IF t < NrPixels(c)
            THEN <<Assign(sum, Zero)>>
                 \o For(Count(c.nr_aterms), LAMBDA n : For(baselines, LAMBDA b :
                        IF c.baselines[b].valid
                        THEN <<AddTo(sum, {<<weights(b, n), BeamAterm(n, b, t)>>})>> ELSE <<>>))
                 \o <<AddTo(<<"average_beam", t>>, {<<sum>>})>>
            ELSE <<>>)

BeamContent(c) ==
    [cell \in {<<"average_beam", i>> : i \in 0 .. NrPixels(c) - 1} |-> {}]
BeamResults(c) ==
    LET times(n) == c.offsets[n + 1] .. c.offsets[n + 2] - 1
        terms(b, n, i) ==
            {<<<<"beam_weights", b, time, chan>>, BeamAterm(n, b, i)>> :
             time \in times(n) \ c.baselines[b].infinite, chan \in 0 .. c.nr_channels - 1}
    IN  [cell \in DOMAIN BeamContent(c) |->
            UNION {terms(b, n, cell[2]) :
                b \in {b \in DOMAIN c.baselines : c.baselines[b].valid},
                n \in 0 .. c.nr_aterms - 1}]
=============================================================================
