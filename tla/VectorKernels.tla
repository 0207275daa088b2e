---------------------------- MODULE VectorKernels ---------------------------
(***************************************************************************)
(* The loops of the optimized kernels that are written for vector units,   *)
(* and the FFT of the grid.  Each loop is a chain of stages: a stage takes *)
(* as many whole vectors as it can from the offset where the previous one  *)
(* stopped, and the scalar stage takes the rest.  A build has the stages   *)
(* of its instruction set.  A call has                                     *)
(*    n           number of elements; channels: outer loop (extrapolation) *)
(*    stages      the vector lengths of the stages that are compiled in    *)
(***************************************************************************)
EXTENDS CudaKernels

(* for (i = *offset; i < (n / length) * length; i += length), and then
   *offset += length * ((n - *offset) / length). *)
StageVectors(n, offset, length) == Steps(offset, (n \div length) * length, length)
NextOffset(n, offset, length) == offset + length * ((n - offset) \div length)
Stages(c) ==
    LET from[k \in 1 .. Len(c.stages) + 1, offset \in 0 .. c.n] ==
            IF k > Len(c.stages) THEN Steps(offset, c.n, 1)
            ELSE LET length == c.stages[k]
                     lanes(i) == Steps(i, i + length, 1)
                 IN  For(StageVectors(c.n, offset, length), LAMBDA i : lanes(i))
                     \o from[k + 1, NextOffset(c.n, offset, length)]
    IN  from[1, 0]

(* compute_reduction: the output is cleared, and each stage adds its sum. *)
Reduction(c) ==
    <<Assign(<<"output">>, Zero)>>
    \o For(Stages(c), LAMBDA i : <<AddTo(<<"output">>, {<<<<"input", i>>, <<"phasor", i>>>>})>>)
ReductionResults(c) ==
    <<"output">> :> {<<<<"input", i>>, <<"phasor", i>>>> : i \in 0 .. c.n - 1}

(* compute_sincos *)
Sincos(c) == For(Stages(c), LAMBDA i : <<Assign(<<"sincos", i>>, {<<<<"x", i>>>>})>>)
SincosResults(c) == [cell \in {<<"sincos", i>> : i \in 0 .. c.n - 1} |-> {<<<<"x", cell[2]>>>>}]

(* compute_extrapolation: the phasor of the next channel is that of this one
   times delta.  Every stage has its own loop over channels. *)
Extrapolation(c) ==
    LET input(i) == <<"input", i>>
        stage(first, end) ==
            For(Count(c.channels), LAMBDA o : For(Steps(first, end, 1), LAMBDA i :
                <<Assign(<<"output", o * c.n + i>>, {<<input(i)>>}),
                  Assign(input(i), {<<input(i), <<"delta", i>>>>})>>))
        from[k \in 1 .. Len(c.stages) + 1, offset \in 0 .. c.n] ==
            IF k > Len(c.stages) THEN stage(offset, c.n)
            ELSE LET length == c.stages[k]
                 IN  stage(offset, (c.n \div length) * length)
                     \o from[k + 1, NextOffset(c.n, offset, length)]
    IN  from[1, 0]
ExtrapolationResults(c) ==
    LET power(i, o) == <<<<"input", i>>>> \o [k \in 1 .. o |-> <<"delta", i>>]
    IN  [cell \in {<<"output", k>> : k \in 0 .. c.channels * c.n - 1} |->
            {power(cell[2] % c.n, cell[2] \div c.n)}]

(* kernel_fft_grid: parallel loops over rows, and then over columns; a row or
   column goes through a buffer of the thread, where it is transformed.  The
   transform is external: each output is a combination of all inputs. *)
Data(pol, y, x) == <<"data", pol, y, x>>
Twiddle(i, k) == <<"twiddle", i, k>>
Transform1d(c, t, line, scale) ==
    LET tmp(i) == <<"tmp", t, i>>
        transformed(i) == <<"transformed", t, i>>
    IN  For(Count(c.size), LAMBDA i : <<Assign(tmp(i), {<<line[i]>>})>>)
        \o For(Count(c.size), LAMBDA k :
               <<Assign(transformed(k), {<<tmp(i), Twiddle(i, k)>> : i \in 0 .. c.size - 1})>>)
        \o For(Count(c.size), LAMBDA k : <<Assign(line[k], {<<transformed(k)>> \o scale})>>)
FftGrid(c, t) ==
    LET scale == IF c.backward THEN <<<<"scale">>>> ELSE <<>>
        all == 0 .. c.size - 1
    IN  For(Count(c.batch), LAMBDA pol :
            For(Share(c, t, c.size), LAMBDA y :
                Transform1d(c, t, [i \in all |-> Data(pol, y, i)], <<>>))
            \o <<Barrier>>
            \o For(Share(c, t, c.size), LAMBDA x :
                   Transform1d(c, t, [i \in all |-> Data(pol, i, x)], scale))
            \o <<Barrier>>)
FftGridResults(c) ==
    LET scale == IF c.backward THEN <<<<"scale">>>> ELSE <<>>
        all == 0 .. c.size - 1
    IN  [cell \in {Data(pol, y, x) : pol \in 0 .. c.batch - 1, y \in all, x \in all} |->
            {<<Data(cell[2], y, x), Twiddle(x, cell[4]), Twiddle(y, cell[3])>> \o scale :
             y \in all, x \in all}]

(* kernel_fft_shift: a block per image and row of the upper half. *)
FftShift(c, image, y, t) ==
    LET half == c.size \div 2
        swap(a, b) ==
            LET first == <<"tmp", a, image, y, t>>
                second == <<"tmp", b, image, y, t>>
            IN  <<Assign(first, {<<Data(image, a[1], a[2])>>}),
                  Assign(second, {<<Data(image, b[1], b[2])>>}),
                  Assign(Data(image, a[1], a[2]), {<<second, <<"scale">>>>}),
                  Assign(Data(image, b[1], b[2]), {<<first, <<"scale">>>>})>>
    IN  IF y >= half THEN <<>>
        ELSE For(Steps(t, half, c.threads), LAMBDA x :
                 swap(<<y, x>>, <<y + half, x + half>>)
                 \o swap(<<y + half, x>>, <<y, x + half>>))
FftShiftResults(c) ==
    LET half == c.size \div 2
        all == 0 .. c.size - 1
        shift(z) == (z + half) % c.size
    IN  [cell \in {Data(image, y, x) : image \in 0 .. c.batch - 1, y \in all, x \in all} |->
            {<<Data(cell[2], shift(cell[3]), shift(cell[4])), <<"scale">>>>}]
=============================================================================
