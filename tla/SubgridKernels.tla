--------------------------- MODULE SubgridKernels ---------------------------
(***************************************************************************)
(* The kernels between subgrids and the grid: adders and splitters.  A     *)
(* call has the fields of GriddingKernels and                              *)
(*    grid_size   N                                                        *)
(*    places      of each subgrid: coordinate x, y and w                   *)
(* Positions in grid, tile and subgrid are [y, x] records.                 *)
(***************************************************************************)
EXTENDS CudaKernels

Grid(layer, pol, p) == <<"grid", layer, pol, p.y, p.x>>
Pixel(s, pol, i) == <<"subgrids", s, pol, i>>
ShiftPhasor(i) == <<"shift_phasor", i>>
Conj == <<"conj">>
Scale == <<"scale">>
Polarizations == Count(4)
Transposed(pol) == <<0, 2, 1, 3>>[pol + 1]              \* index_pol_transposed

Square(n) == Count(n * n)
At(n, i) == [y |-> i \div n, x |-> i % n]
Shift(p, q) == [y |-> p.y + q.y, x |-> p.x + q.x]
Subgrids(c) == [s \in DOMAIN c.places |-> s]

(* Adders.  A subgrid with negative w stands for its conjugate at the opposite
   side of the grid. *)
Negative(place) == place.w < 0
MirroredPlace(c, place) ==
    LET mirrored(z) == c.grid_size - z - c.size + 1
    IN  IF Negative(place)
        THEN [y |-> mirrored(place.y), x |-> mirrored(place.x), w |-> - place.w - 1]
        ELSE [y |-> place.y, x |-> place.x, w |-> place.w]
Fits(c, place) ==
    \A z \in {place.y, place.x} : z >= 1 /\ z < c.grid_size - c.size
IndexPol(place, pol) == IF Negative(place) THEN pol ELSE Transposed(pol)
ConjIf(place) == IF Negative(place) THEN <<Conj>> ELSE <<>>

PixelValue(c, s, pol, i) ==
    <<ShiftPhasor(i), Pixel(s, pol, Shifted(c, i))>> \o ConjIf(c.places[s])
(* for (y = start_y; y < subgrid_size; y += num_threads): the rows of the
   destination that belong to thread t. *)
OwnRows(c, t, y) == Steps((c.threads - (y % c.threads) + t) % c.threads, c.size, c.threads)
OwnPixels(c, t, y0) ==
    For(OwnRows(c, t, y0), LAMBDA y : For(Count(c.size), LAMBDA x : <<[y |-> y, x |-> x]>>))

(* mirror: the pixels of a negative subgrid are mirrored, too. *)
AddSubgrids(c, t, mirror) ==
    For(Subgrids(c), LAMBDA s :
        LET place == c.places[s]
            to == MirroredPlace(c, place)
            z(q) == IF mirror /\ Negative(place) THEN c.size - 1 - q ELSE q
        IN  IF ~Fits(c, to) THEN <<>>
            ELSE For(OwnPixels(c, t, to.y), LAMBDA p : For(Polarizations, LAMBDA pol :
                     <<AddTo(Grid(to.w, IndexPol(place, pol), Shift(to, p)),
                             {PixelValue(c, s, pol, z(p.y) * c.size + z(p.x))})>>)))
KernelAdder(c, t) == AddSubgrids(c, t, FALSE)
KernelAdderWStack(c, t) == AddSubgrids(c, t, TRUE)

(* A thread per polarization. *)
ReferenceAdder(c, pol) ==
    For(Subgrids(c), LAMBDA s :
        LET place == c.places[s]
            to == MirroredPlace(c, place)
        IN  IF ~Fits(c, to) THEN <<>>
            ELSE For(Pixels(c), LAMBDA i :
                     <<AddTo(Grid(0, pol, Shift(to, At(c.size, i))),
                             {PixelValue(c, s, IndexPol(place, pol), i)})>>))

(* A block per subgrid. *)
CudaAdder(c, s, t) ==
    LET place == c.places[s]
    IN  IF ~Fits(c, place) THEN <<>>
        ELSE For(Share(c, t, NrPixels(c)), LAMBDA i : For(Polarizations, LAMBDA pol :
                 <<AtomicAdd(Grid(0, IndexPol(place, pol), Shift(place, At(c.size, i))),
                             {<<Scale>> \o PixelValue(c, s, pol, i)})>>))

(* Splitters.  Where a pixel of the subgrid comes from in the grid. *)
Source(c, place, i) ==
    LET z(first, offset) == IF Negative(place) THEN c.grid_size - first - offset
                            ELSE first + offset
        p == At(c.size, i)
    IN  [y |-> z(place.y, p.y), x |-> z(place.x, p.x)]
Layer(place) == IF Negative(place) THEN - place.w - 1 ELSE place.w
SplitPixels(c, s, layer, pixels) ==
    LET place == c.places[s]
    IN  For(pixels, LAMBDA i : For(Polarizations, LAMBDA pol :
            <<Assign(Pixel(s, pol, Shifted(c, i)),
                     {<<ShiftPhasor(i), Grid(layer, IndexPol(place, pol), Source(c, place, i))>>
                      \o ConjIf(place)})>>))
(* kernel_splitter's own check. *)
FitsSplitter(c, place) ==
    \A z \in {place.y, place.x} : z >= 0 /\ z < c.grid_size - c.size - 1
KernelSplitter(c, s) ==
    IF FitsSplitter(c, c.places[s]) THEN SplitPixels(c, s, c.places[s].w, Pixels(c)) ELSE <<>>
KernelSplitterWStack(c, s) ==
    IF Fits(c, c.places[s]) THEN SplitPixels(c, s, Layer(c.places[s]), Pixels(c)) ELSE <<>>
ReferenceSplitter(c, s) ==
    IF Fits(c, c.places[s]) THEN SplitPixels(c, s, 0, Pixels(c)) ELSE <<>>
CudaSplitter(c, s, t) ==
    IF Fits(c, c.places[s]) THEN SplitPixels(c, s, 0, Share(c, t, NrPixels(c))) ELSE <<>>

(* kernel_scaler *)
CudaScaler(c, s, t) ==
    For(Share(c, t, NrPixels(c)), LAMBDA i : For(Polarizations, LAMBDA pol :
        <<Assign(Pixel(s, pol, i), {<<Pixel(s, pol, i), Scale>>})>>))

(* What they should do: pixel i of a subgrid belongs at Source. *)
Targets(c) ==
    {[s |-> s, pol |-> pol, i |-> i] : s \in {s \in DOMAIN c.places : Fits(c, c.places[s])},
                                       pol \in 0 .. 3, i \in 0 .. NrPixels(c) - 1}
TargetCell(c, k) ==
    LET place == c.places[k.s]
    IN  Grid(Layer(place), IndexPol(place, k.pol), Source(c, place, k.i))
AdderResults(c, scale) ==
    [cell \in {TargetCell(c, k) : k \in Targets(c)} |->
        {<<cell>>} \cup {scale \o PixelValue(c, k.s, k.pol, k.i) :
                         k \in {k \in Targets(c) : TargetCell(c, k) = cell}}]
SplitterResults(c) ==
    LET shifted(k) == Pixel(k.s, k.pol, Shifted(c, k.i))
    IN  [cell \in {shifted(k) : k \in Targets(c)} |->
            LET k == CHOOSE k \in Targets(c) : shifted(k) = cell
            IN  {<<ShiftPhasor(k.i), TargetCell(c, k)>> \o ConjIf(c.places[k.s])}]
ScalerResults(c) ==
    [cell \in {Pixel(s, pol, i) : s \in DOMAIN c.places, pol \in 0 .. 3,
                                  i \in 0 .. NrPixels(c) - 1} |-> {<<cell, Scale>>}]
=============================================================================
