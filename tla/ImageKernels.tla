---------------------------- MODULE ImageKernels ----------------------------
(***************************************************************************)
(* The parallel loops of BufferSet over the image: from an image to the    *)
(* grid, from the grid to an image, and the correction for the average     *)
(* beam.  An iteration of a loop over rows is a thread.  The FFTs that     *)
(* come before and after a loop are external.  A call has                  *)
(*    size, padded    m_size and m_padded_size                             *)
(*    layers          w layers of the grid, stacked if c.wstack            *)
(*    pols            1 (Stokes I) or 4                                    *)
(*    do_scale        whether set_image divides by the scalar beam         *)
(*    unusable        pixels where the image over the beam is not finite   *)
(*    subgrid_size    of the average beam                                  *)
(* A value is complex; its imaginary part is a term with the factor I.     *)
(***************************************************************************)
EXTENDS SubgridKernels

Re == <<"re">>      \* the real part of the next factor
Im == <<"im">>
Reciprocal == <<"reciprocal">>
Image(s, y, x) == <<"image", s, y, x>>
InvTaper(z) == <<"inv_taper", z>>
WPhasor(w, y, x) == <<"phasor", w, y, x>>
ScalarBeam(y, x) == <<"scalar_beam", y, x>>
PerScale(c, y, x) == IF c.do_scale THEN <<Reciprocal, ScalarBeam(y, x)>> ELSE <<>>
I == <<"i">>
Half == <<"half">>
Pols(c) == Count(c.pols)
Xs(c) == Count(c.size)
Inset(c, z) == z + (c.padded - c.size) \div 2       \* y + y0, x + x0
GridAt(c, w, pol, y, x) == Grid(w, pol, [y |-> Inset(c, y), x |-> Inset(c, x)])

(* BufferSetImpl::init: the inverse taper, and the taper of the subgrids. *)
TaperSubgrid(z) == <<"taper_subgrid", z>>
TaperGrid(z) == <<"taper_grid", z>>
InitTapers(c) ==
    For(Xs(c), LAMBDA z : <<Assign(InvTaper(z), {<<Reciprocal, TaperGrid(Inset(c, z))>>})>>)
    \o For(Count(c.subgrid_size), LAMBDA y : For(Count(c.subgrid_size), LAMBDA x :
           <<Assign(<<"m_taper", y, x>>, {<<TaperSubgrid(y), TaperSubgrid(x)>>})>>))

(* set_image, for row y: Stokes parameters to linear polarizations, divided by
   the beam and the taper, in all w layers from the last to the first. *)
W0(y, pol, x) == <<"w0_row", y, pol, x>>
W(y, pol, x) == <<"w_row", y, pol, x>>
StokesToLinear(c, y, x) ==
    LET stokes(s) == <<Image(s, y, x)>> \o PerScale(c, y, x)
    IN  IF c.pols = 1 THEN <<Assign(W0(y, 0, x), {stokes(0)})>>
        ELSE <<Assign(W0(y, 0, x), {stokes(0)}), Assign(W0(y, 3, x), {stokes(0)}),
               AddTo(W0(y, 0, x), {stokes(1)}),
               AddTo(W0(y, 3, x), {<<Minus>> \o stokes(1)}),
               Assign(W0(y, 1, x), {stokes(2)}), Assign(W0(y, 2, x), {stokes(2)}),
               AddTo(W0(y, 1, x), {<<Minus, I>> \o stokes(3)}),
               AddTo(W0(y, 2, x), {<<I>> \o stokes(3)})>>
ClearUnusable(c, y, x) ==
    IF <<y, x>> \in c.unusable
    THEN For(Pols(c), LAMBDA pol : <<Assign(W0(y, pol, x), Zero)>>) ELSE <<>>
Untapered(y, x) == <<InvTaper(y), InvTaper(x)>>
StackTerm(c, w, y, x) == IF c.wstack THEN <<WPhasor(w, y, x)>> ELSE <<>>
RowToLayer(c, w, y) ==
    For(Pols(c), LAMBDA pol : For(Xs(c), LAMBDA x :
        <<Assign(W(y, pol, x), {<<W0(y, pol, x)>> \o Untapered(y, x) \o StackTerm(c, w, y, x)})>>))
    \o For(Pols(c), LAMBDA pol : For(Xs(c), LAMBDA x :
           <<Assign(GridAt(c, w, pol, y, x), {<<W(y, pol, x)>>})>>))
SetImage(c, y) ==
    For(Pols(c), LAMBDA pol : For(Xs(c), LAMBDA x : <<Assign(W0(y, pol, x), Zero)>>))
    \o For(Xs(c), LAMBDA x : StokesToLinear(c, y, x) \o ClearUnusable(c, y, x))
    \o For(Count(c.layers), LAMBDA w : RowToLayer(c, c.layers - 1 - w, y))

(* get_image, for row y: the sum of the w layers, and Stokes parameters. *)
GetImage(c, y) ==
    LET untaper(w, cell(_, _)) ==
            For(Pols(c), LAMBDA pol : For(Xs(c), LAMBDA x :
                <<Assign(cell(pol, x),
                         {<<GridAt(c, w, pol, y, x)>> \o Untapered(y, x) \o StackTerm(c, w, y, x)})>>))
        row(pol, x) == W(y, pol, x)
        row0(pol, x) == W0(y, pol, x)
        forRow(Body(_, _)) == For(Pols(c), LAMBDA pol : For(Xs(c), LAMBDA x : Body(pol, x)))
        toImage(s, x, products) == Assign(Image(s, y, x), products)
        stokes(x) ==
            LET XX == W0(y, 0, x)  XY == W0(y, 1, x)  YX == W0(y, 2, x)  YY == W0(y, 3, x)
            IN  IF c.pols = 1 THEN <<toImage(0, x, {<<Re, XX>>})>>
                ELSE <<toImage(0, x, {<<Half, Re, XX>>, <<Half, Re, YY>>}),
                       toImage(1, x, {<<Half, Re, XX>>, <<Half, Minus, Re, YY>>}),
                       toImage(2, x, {<<Half, Re, XY>>, <<Half, Re, YX>>}),
                       toImage(3, x, {<<Half, Minus, Im, XY>>, <<Half, Im, YX>>})>>
    IN  (IF ~c.wstack THEN untaper(0, row0)
         ELSE forRow(LAMBDA pol, x : <<Assign(row0(pol, x), Zero)>>)
              \o For(Count(c.layers), LAMBDA w :
                     untaper(w, row)
                     \o forRow(LAMBDA pol, x : <<AddTo(row0(pol, x), {<<row(pol, x)>>})>>)))
        \o For(Xs(c), stokes)

(* finalize_compute_avg_beam, for row t.  Up to the first FFT: the matrix of
   each pixel is inverted (externally), and its diagonal gives the scalar beam
   of the opposite pixel. *)
InverseBeam(i, j) == <<"matrix_inverse_beam", i, j>>
BeamPixel(i) == <<"scalar_beam_subgrid", i>>
Opposite(c, i) == c.subgrid_size * c.subgrid_size - i - 1
ScalarBeamOf(c, i) ==
    <<Assign(BeamPixel(Opposite(c, i)),
             {<<<<"1 / sqrt(Re of the sum)">>, InverseBeam(i, 0), InverseBeam(i, 3),
                InverseBeam(i, 12), InverseBeam(i, 15)>>})>>
    \o For(Count(16), LAMBDA j :
           <<Assign(InverseBeam(i, j), {<<InverseBeam(i, j), BeamPixel(Opposite(c, i))>>})>>)
BeamToSubgrid(c, t) ==
    (IF t = 0 THEN For(Count(c.subgrid_size * c.subgrid_size), LAMBDA i : ScalarBeamOf(c, i))
     ELSE <<>>)
    \o <<Barrier>>
    \o For(Count(c.subgrid_size), LAMBDA j :
           LET pixel == BeamPixel(t * c.subgrid_size + j)
           IN  <<Assign(pixel, {<<pixel, TaperSubgrid(t), TaperSubgrid(j)>>})>>)

(* Between the FFTs: the phase gradient, and zero padding. *)
PhaseGradient(k) == <<"phasor", k>>      \* of the pixels with i + j = k
PaddedBeam(y, x) == <<"scalar_beam_padded", y, x>>
PadBeam(c, t) ==
    LET offset == IF c.padded >= c.subgrid_size THEN (c.padded - c.subgrid_size) \div 2
                  ELSE -((c.subgrid_size - c.padded) \div 2)
        begin == Max({-offset, 0})
        end == Min({c.subgrid_size, c.padded - offset})
        pixel(j) == BeamPixel(t * c.subgrid_size + j)
    IN  For(Count(c.subgrid_size), LAMBDA j :
            <<Assign(pixel(j), {<<pixel(j), PhaseGradient(t + j), Scale>>})>>)
        \o <<Barrier>>
        \o IF t \notin begin .. end - 1 THEN <<>>
           ELSE For(Steps(begin, end, 1), LAMBDA j :
                    <<Assign(PaddedBeam(t + offset, j + offset), {<<pixel(j)>>})>>)

(* After the inverse FFT: the taper is divided out, and all is normalized by
   the value in the centre. *)
Normalization == <<"normalization">>
NormalizeBeam(c, t) ==
    LET centre == c.size \div 2
        value(y, x) == <<Re, PaddedBeam(Inset(c, y), Inset(c, x)), InvTaper(x), InvTaper(y)>>
    IN  (IF t = 0 THEN <<Assign(Normalization, {<<Reciprocal>> \o value(centre, centre)})>>
         ELSE <<>>)
        \o <<Barrier>>
        \o For(Xs(c), LAMBDA x : <<Assign(ScalarBeam(t, x), {value(t, x) \o <<Normalization>>})>>)
        \o <<Barrier>>
        \o IF t > 0 THEN <<>>
           ELSE For(Count(c.subgrid_size * c.subgrid_size), LAMBDA i : For(Count(16), LAMBDA j :
                    <<Assign(InverseBeam(i, j), {<<InverseBeam(i, j), Normalization>>})>>))

-----------------------------------------------------------------------------
(* What is in memory before: a grid of zeros, or a padded beam of zeros. *)
AllGrid(c) ==
    {Grid(w, pol, [y |-> y, x |-> x]) : w \in 0 .. c.layers - 1, pol \in 0 .. c.pols - 1,
                                       y, x \in 0 .. c.padded - 1}
ImageContent(c) ==
    CASE c.kernel = "set_image" -> [cell \in AllGrid(c) |-> {}]
      [] c.kernel = "pad_beam" ->
            [cell \in {PaddedBeam(y, x) : y, x \in 0 .. c.padded - 1} |-> {}]
      [] OTHER -> <<>>

(* What they should do, said for each cell of the result.  The Stokes parameters
   that a polarization is the sum of, each with its factors. *)
LinearTerms(c) ==
    IF c.pols = 1 THEN << {<<<<>>, 0>>} >>
    ELSE << {<<<<>>, 0>>, <<<<>>, 1>>}, {<<<<>>, 2>>, <<<<Minus, I>>, 3>>},
            {<<<<>>, 2>>, <<<<I>>, 3>>}, {<<<<>>, 0>>, <<<<Minus>>, 1>>} >>
Usable(c) == {p \in (0 .. c.size - 1) \X (0 .. c.size - 1) : p \notin c.unusable}
Linear(c, pol, p) ==
    {term[1] \o <<Image(term[2], p[1], p[2])>> \o PerScale(c, p[1], p[2]) :
     term \in LinearTerms(c)[pol + 1]}
SetImageResults(c) ==
    LET pixel(cell) == {p \in Usable(c) : Inset(c, p[1]) = cell[4] /\ Inset(c, p[2]) = cell[5]}
    IN  [cell \in AllGrid(c) |->
            UNION {{term \o Untapered(p[1], p[2]) \o StackTerm(c, cell[2], p[1], p[2]) :
                    term \in Linear(c, cell[3], p)} : p \in pixel(cell)}]
StackedLayers(c) == IF c.wstack THEN 0 .. c.layers - 1 ELSE {0}
StokesTerms(c) ==
    IF c.pols = 1 THEN << {<<<<Re>>, 0>>} >>
    ELSE << {<<<<Half, Re>>, 0>>, <<<<Half, Re>>, 3>>},
            {<<<<Half, Re>>, 0>>, <<<<Half, Minus, Re>>, 3>>},
            {<<<<Half, Re>>, 1>>, <<<<Half, Re>>, 2>>},
            {<<<<Half, Minus, Im>>, 1>>, <<<<Half, Im>>, 2>>} >>
GetImageResults(c) ==
    [cell \in {Image(s, y, x) : s \in 0 .. c.pols - 1, y, x \in 0 .. c.size - 1} |->
        {term[1] \o <<GridAt(c, w, term[2], cell[3], cell[4])>>
         \o Untapered(cell[3], cell[4]) \o StackTerm(c, w, cell[3], cell[4]) :
         term \in StokesTerms(c)[cell[2] + 1], w \in StackedLayers(c)}]
TaperResults(c) ==
    [cell \in {InvTaper(z) : z \in 0 .. c.size - 1} |->
        {<<Reciprocal, TaperGrid(Inset(c, cell[2]))>>}]
    @@ [cell \in {<<"m_taper", y, x>> : y, x \in 0 .. c.subgrid_size - 1} |->
           {<<TaperSubgrid(cell[2]), TaperSubgrid(cell[3])>>}]
BeamPixels(c) == 0 .. c.subgrid_size * c.subgrid_size - 1
BeamToSubgridResults(c) ==
    LET scalar(i) == <<<<"1 / sqrt(Re of the sum)">>, InverseBeam(i, 0), InverseBeam(i, 3),
                       InverseBeam(i, 12), InverseBeam(i, 15)>>
        taper(k) == <<TaperSubgrid(k \div c.subgrid_size), TaperSubgrid(k % c.subgrid_size)>>
    IN  [cell \in {InverseBeam(i, j) : i \in BeamPixels(c), j \in 0 .. 15} |->
            {<<cell>> \o scalar(cell[2])}]
        @@ [cell \in {BeamPixel(k) : k \in BeamPixels(c)} |->
               {scalar(Opposite(c, cell[2])) \o taper(cell[2])}]
(* The centre of the subgrid is the centre of the padded image. *)
PadBeamResults(c) ==
    LET from(z) == z - c.padded \div 2 + c.subgrid_size \div 2
        inside(cell) == {from(cell[2]), from(cell[3])} \subseteq 0 .. c.subgrid_size - 1
    IN  [cell \in {PaddedBeam(y, x) : y, x \in 0 .. c.padded - 1} |->
            IF ~inside(cell) THEN {}
            ELSE LET y == from(cell[2])  x == from(cell[3])
                 IN  {<<BeamPixel(y * c.subgrid_size + x), PhaseGradient(y + x), Scale>>}]
NormalizeBeamResults(c) ==
    LET value(y, x) == <<Re, PaddedBeam(Inset(c, y), Inset(c, x)), InvTaper(x), InvTaper(y)>>
        centre == <<Reciprocal>> \o value(c.size \div 2, c.size \div 2)
    IN  [cell \in {ScalarBeam(y, x) : y, x \in 0 .. c.size - 1} |->
            {value(cell[2], cell[3]) \o centre}]
        @@ [cell \in {InverseBeam(i, j) : i \in BeamPixels(c), j \in 0 .. 15} |->
               {<<cell>> \o centre}]
=============================================================================
