----------------------------- MODULE MCKernels ------------------------------
(***************************************************************************)
(* The kernels to run: sizes chosen so that loops over pixels, timesteps,  *)
(* channels, terms, tiles and vectors need several batches, and the last   *)
(* one is partial.                                                         *)
(***************************************************************************)
EXTENDS TileKernels, VectorKernels, ImageKernels, BulkDegridding

EveryThree == [t \in 0 .. 9 |-> t \div 3]       \* a-terms that last 3 timesteps
Work(list) == [n \in DOMAIN list |->
    [first |-> list[n][1], timesteps |-> list[n][2], begin |-> list[n][3], end |-> list[n][4]]]
Call(kernel, work) ==
    [kernel |-> kernel, size |-> 2, aterms |-> EveryThree, work |-> Work(work),
     threads |-> 3, batch |-> 3, unroll |-> 1, average |-> FALSE]
With(c, more) == more @@ c

TwoSubgrids == <<<<1, 4, 0, 2>>, <<5, 2, 1, 2>>>>
CalibrationTask == [max_timesteps |-> 3, nr_channels |-> 2, nr_terms |-> 2, nr_time_slots |-> 3]
Beam == [nr_aterms |-> 3, nr_channels |-> 1, offsets |-> <<0, 1, 3, 4>>,
         baselines |-> <<[valid |-> TRUE, infinite |-> {1}], [valid |-> FALSE, infinite |-> {}],
                         [valid |-> TRUE, infinite |-> {}]>>]
VisibilityCalls == <<
    With(Call("gridder", TwoSubgrids), [average |-> TRUE]),
    With(Call("reference_gridder", TwoSubgrids), [average |-> TRUE]),
    Call("degridder", TwoSubgrids),
    Call("reference_degridder", TwoSubgrids),
    With(Call("calibrate", <<<<2, 3, 0, 1>>, <<5, 1, 1, 2>>>>), CalibrationTask),
    With(Call("cuda_gridder", <<<<1, 4, 1, 3>>>>), [average |-> TRUE]),
    With(Call("cuda_gridder", <<<<2, 2, 0, 1>>>>), [threads |-> 2, unroll |-> 2, size |-> 3]),
    Call("cuda_degridder", <<<<1, 3, 0, 9>>>>),
    With(Call("cuda_degridder", <<<<1, 5, 0, 2>>>>), [threads |-> 2]),
    With(Call("cuda_calibrate", <<<<2, 2, 0, 2>>>>),
         [threads |-> 4, max_terms |-> 2, nr_terms |-> 3, nr_time_slots |-> 3, nr_channels |-> 2]),
    With(Call("cuda_average_beam", <<>>), [batch |-> 2, threads |-> 2] @@ Beam),
    With(Call("average_beam", <<>>), Beam) >>

(* Subgrids that overlap, that fit exactly and that do not fit. *)
Places(list) == [n \in DOMAIN list |-> [x |-> list[n][1], y |-> list[n][2], w |-> list[n][3]]]
OneLayer == Places(<<<<1, 2, 0>>, <<2, 3, 0>>, <<4, 1, 0>>, <<6, 2, 0>>>>)
Layers == Places(<<<<2, 2, 0>>, <<3, 2, -1>>, <<4, 3, 1>>, <<3, 4, -2>>>>)
PlaceCall(kernel, places) ==
    With(Call(kernel, <<>>), [grid_size |-> 7, places |-> places, threads |-> 2])
Interior == Places(<<<<1, 2, 0>>, <<2, 3, 0>>>>)
SubgridCalls == <<
    PlaceCall("adder", OneLayer),
    PlaceCall("adder_wstack", Layers),
    PlaceCall("reference_adder", OneLayer),
    PlaceCall("cuda_adder", OneLayer),
    PlaceCall("splitter", Interior),
    PlaceCall("splitter_wstack", Layers),
    PlaceCall("reference_splitter", OneLayer),
    PlaceCall("cuda_splitter", OneLayer),
    PlaceCall("cuda_scaler", Interior) >>

(* Tiles at the edges of the grid and in the middle, with different padding. *)
TileAt(id, x, y, w, padded) == [id |-> id, x |-> x, y |-> y, w |-> w, padded |-> padded]
Tiled(x, y, tile, tx, ty) == [x |-> x, y |-> y, w |-> 0, tile |-> tile, tx |-> tx, ty |-> ty]
TileCall(kernel, tiles) ==
    With(Call(kernel, <<>>),
         [grid_size |-> 8, tile_size |-> 2, threads |-> 2, tiles |-> tiles,
          padded |-> 4, sign |-> -1])
InTiles == [places |-> <<Tiled(3, 4, 0, 0, 0), Tiled(4, 4, 0, 0, 0), Tiled(2, 5, 3, -1, 1)>>]
ThreeTiles == <<TileAt(4, -2, 1, 0, 3), TileAt(1, 0, 0, 2, 5), TileAt(2, 0, 1, 0, 3)>>
SmallTiles == [tile_size |-> 1, grid_size |-> 4]
(* The kernels between tiles and the grid itself take these, inside the grid. *)
Inner == <<TileAt(1, 0, 0, 2, 4), TileAt(0, -1, 0, 1, 4)>>
LargerTile == <<TileAt(1, 0, 0, 2, 6)>>
(* Two tiles over the edge of the grid beside them, one of them reaching into the
   patch, and two that only touch it: find_patches_for_tiles lists those too. *)
AroundPatch == Inner \o <<TileAt(2, 1, -1, 0, 4), TileAt(3, 1, -2, 0, 4), TileAt(4, -2, 0, 0, 4)>>
APatch == [patch |-> [y |-> 3, x |-> 3], patch_size |-> 3]
TileCalls == <<
    With(TileCall("subgrids_to_wtiles", <<>>), InTiles),
    With(TileCall("subgrids_from_wtiles", <<>>), InTiles),
    With(TileCall("cuda_subgrids_to_wtiles", <<>>), InTiles),
    With(TileCall("cuda_subgrids_from_wtiles", <<>>), InTiles),
    With(TileCall("wtiles_to_grid", ThreeTiles), SmallTiles),
    With(TileCall("wtiles_from_grid", ThreeTiles), SmallTiles),
    TileCall("cuda_copy_tiles", Inner),
    With(TileCall("cuda_copy_tiles", Inner), [padded |-> 2]),
    TileCall("cuda_apply_phasor", Inner),
    TileCall("cuda_wtiles_to_grid", Inner),
    TileCall("cuda_wtiles_from_grid", Inner),
    With(TileCall("cuda_wtiles_to_patch", AroundPatch), APatch),
    With(TileCall("cuda_wtiles_from_patch", AroundPatch), APatch) >>
(* kernel_copy_tiles to a larger tile. *)
EnlargingCalls == <<With(TileCall("cuda_copy_tiles", LargerTile), [padded |-> 6])>>

Vector(kernel, n, stages) ==
    With(Call(kernel, <<>>), [n |-> n, stages |-> stages, channels |-> 3])
VectorCalls == <<
    Vector("reduction", 45, <<16, 8, 8>>),      \* AVX512, FMA, AVX
    Vector("reduction", 11, <<4>>),             \* AltiVec
    Vector("reduction", 13, <<8, 8>>),
    Vector("sincos", 13, <<8>>),
    Vector("extrapolation", 19, <<8, 8>>),
    With(Call("fft_grid", <<>>), [size |-> 3, threads |-> 2, batch |-> 2, backward |-> TRUE]),
    With(Call("fft_shift", <<>>), [size |-> 6, threads |-> 2, batch |-> 2]) >>

ImageCall(kernel, pols, wstack) ==
    With(Call(kernel, <<>>),
         [padded |-> 5, layers |-> 2, pols |-> pols, wstack |-> wstack, do_scale |-> wstack,
          unusable |-> {<<1, 0>>}, subgrid_size |-> 3])
ImageCalls == <<
    ImageCall("set_image", 4, TRUE), ImageCall("set_image", 1, FALSE),
    ImageCall("get_image", 4, TRUE), ImageCall("get_image", 1, FALSE),
    ImageCall("init_tapers", 4, FALSE), ImageCall("beam_to_subgrid", 4, FALSE),
    ImageCall("pad_beam", 4, FALSE),
    With(ImageCall("pad_beam", 4, FALSE), [padded |-> 2, size |-> 1, subgrid_size |-> 4]),
    ImageCall("normalize_beam", 4, FALSE) >>

(* All baselines of three stations, out of order, and one station with itself. *)
BulkCall(correlations) ==
    With(Call("bulk_degridder", <<>>),
         [stations |-> 3, antennas |-> <<<<1, 2>>, <<0, 0>>, <<0, 2>>, <<0, 1>>>>,
          timesteps |-> 3, channels |-> 2, correlations |-> correlations,
          offsets |-> <<0, 2>>, off_grid |-> {<<2, 1>>, <<0, 0>>}])
BulkCalls == <<BulkCall(2), BulkCall(4)>>

KernelCalls ==
    VisibilityCalls \o SubgridCalls \o TileCalls \o VectorCalls \o ImageCalls \o BulkCalls

Cpu == {"adder", "adder_wstack", "subgrids_to_wtiles", "subgrids_from_wtiles",
        "wtiles_to_grid", "wtiles_from_grid", "fft_grid"}
PerSubgrid == {"cuda_adder", "cuda_splitter", "cuda_scaler", "cuda_subgrids_to_wtiles",
               "cuda_subgrids_from_wtiles"}
PerTile == {"cuda_apply_phasor", "cuda_wtiles_to_grid", "cuda_wtiles_from_grid"}
PerRow == {"cuda_wtiles_to_patch", "cuda_wtiles_from_patch"}
(* Blocks of different polarizations or images run here as one thread, but for
   kernel_copy_tiles: they touch different cells. *)
KernelThreadIds(c) ==
    CASE c.kernel \in {"cuda_gridder", "cuda_degridder", "cuda_calibrate"} -> Block(c)
      [] c.kernel = "cuda_average_beam" -> (DOMAIN c.baselines) \X Block(c)
      [] c.kernel = "average_beam" -> 0 .. NrPixels(c) - 1
      [] c.kernel \in Cpu -> 0 .. c.threads - 1
      [] c.kernel = "reference_adder" -> 0 .. 3
      [] c.kernel \in {"splitter", "splitter_wstack", "reference_splitter"} -> DOMAIN c.places
      [] c.kernel \in PerSubgrid -> (DOMAIN c.places) \X Block(c)
      [] c.kernel = "cuda_copy_tiles" -> (0 .. 3) \X (DOMAIN c.tiles)
      [] c.kernel \in PerTile -> (DOMAIN c.tiles) \X Block(c)
      [] c.kernel \in PerRow -> (0 .. c.patch_size - 1) \X Block(c)
      [] c.kernel = "fft_shift" -> (0 .. (c.size \div 2) - 1) \X Block(c)
      [] c.kernel \in {"reduction", "sincos", "extrapolation", "init_tapers",
                       "bulk_degridder"} -> {0}
      [] c.kernel \in {"set_image", "get_image", "normalize_beam"} -> 0 .. c.size - 1
      [] c.kernel \in {"beam_to_subgrid", "pad_beam"} -> 0 .. c.subgrid_size - 1
      [] OTHER -> DOMAIN c.work
VisibilityCode(c, t) ==
    CASE c.kernel = "gridder" -> Gridder(c, t)
      [] c.kernel = "reference_gridder" -> ReferenceGridder(c, t)
      [] c.kernel = "degridder" -> Degridder(c, t)
      [] c.kernel = "reference_degridder" -> ReferenceDegridder(c, t)
      [] c.kernel = "calibrate" -> Calibrate(c, t)
      [] c.kernel = "cuda_gridder" -> CudaGridder(c, t)
      [] c.kernel = "cuda_degridder" -> CudaDegridder(c, t)
      [] c.kernel = "cuda_calibrate" -> CudaCalibrate(c, t)
      [] c.kernel = "cuda_average_beam" -> CudaAverageBeam(c, t[1], t[2])
      [] c.kernel = "average_beam" -> AverageBeam(c, t)
SubgridCode(c, t) ==
    CASE c.kernel = "adder" -> KernelAdder(c, t)
      [] c.kernel = "adder_wstack" -> KernelAdderWStack(c, t)
      [] c.kernel = "reference_adder" -> ReferenceAdder(c, t)
      [] c.kernel = "cuda_adder" -> CudaAdder(c, t[1], t[2])
      [] c.kernel = "splitter" -> KernelSplitter(c, t)
      [] c.kernel = "splitter_wstack" -> KernelSplitterWStack(c, t)
      [] c.kernel = "reference_splitter" -> ReferenceSplitter(c, t)
      [] c.kernel = "cuda_splitter" -> CudaSplitter(c, t[1], t[2])
      [] c.kernel = "cuda_scaler" -> CudaScaler(c, t[1], t[2])
TileCode(c, t) ==
    CASE c.kernel = "subgrids_to_wtiles" -> SubgridsToWtiles(c, t)
      [] c.kernel = "subgrids_from_wtiles" -> SubgridsFromWtiles(c, t)
      [] c.kernel = "cuda_subgrids_to_wtiles" -> CudaSubgridsToWtiles(c, t[1], t[2])
      [] c.kernel = "cuda_subgrids_from_wtiles" -> CudaSubgridsFromWtiles(c, t[1], t[2])
      [] c.kernel = "wtiles_to_grid" -> WtilesToGrid(c, t)
      [] c.kernel = "wtiles_from_grid" -> WtilesFromGrid(c, t)
      [] c.kernel = "cuda_copy_tiles" -> CudaCopyTiles(c, t[1], t[2])
      [] c.kernel = "cuda_apply_phasor" ->
            For(Polarizations, LAMBDA pol : CudaApplyPhasor(c, pol, t[1], t[2]))
      [] c.kernel = "cuda_wtiles_to_grid" ->
            For(Polarizations, LAMBDA pol : CudaWtilesToGrid(c, pol, t[1], t[2]))
      [] c.kernel = "cuda_wtiles_from_grid" ->
            For(Polarizations, LAMBDA pol : CudaWtilesFromGrid(c, pol, t[1], t[2]))
      [] c.kernel = "cuda_wtiles_to_patch" ->
            For(Polarizations, LAMBDA pol : CudaWtilesToPatch(c, pol, t[1], t[2]))
      [] c.kernel = "cuda_wtiles_from_patch" ->
            For(Polarizations, LAMBDA pol : CudaWtilesFromPatch(c, pol, t[1], t[2]))
VectorCode(c, t) ==
    CASE c.kernel = "reduction" -> Reduction(c)
      [] c.kernel = "sincos" -> Sincos(c)
      [] c.kernel = "extrapolation" -> Extrapolation(c)
      [] c.kernel = "fft_grid" -> FftGrid(c, t)
      [] c.kernel = "fft_shift" ->
            For(Count(c.batch), LAMBDA image : FftShift(c, image, t[1], t[2]))
ImageCode(c, t) ==
    CASE c.kernel = "set_image" -> SetImage(c, t)
      [] c.kernel = "get_image" -> GetImage(c, t)
      [] c.kernel = "init_tapers" -> InitTapers(c)
      [] c.kernel = "beam_to_subgrid" -> BeamToSubgrid(c, t)
      [] c.kernel = "pad_beam" -> PadBeam(c, t)
      [] c.kernel = "normalize_beam" -> NormalizeBeam(c, t)
KernelCode(c, t) ==
    CASE c \in ToSet(VisibilityCalls) -> VisibilityCode(c, t)
      [] c \in ToSet(SubgridCalls) -> SubgridCode(c, t)
      [] c \in ToSet(VectorCalls) -> VectorCode(c, t)
      [] c \in ToSet(ImageCalls) -> ImageCode(c, t)
      [] c.kernel = "bulk_degridder" -> ComputeVisibilities(c)
      [] OTHER -> TileCode(c, t)

KernelContent(c) ==
    CASE c.kernel \in {"calibrate", "cuda_calibrate"} -> CalibrationContent(c)
      [] c.kernel = "cuda_degridder" -> DegridderContent(c)
      [] c.kernel \in {"cuda_average_beam", "average_beam"} -> BeamContent(c)
      [] c.kernel = "bulk_degridder" -> BulkContent(c)
      [] OTHER -> ImageContent(c)
KernelResults(c) ==
    CASE c.kernel \in {"gridder", "reference_gridder", "cuda_gridder"} -> GridderResults(c)
      [] c.kernel \in {"degridder", "reference_degridder", "cuda_degridder"} -> DegridderResults(c)
      [] c.kernel \in {"calibrate", "cuda_calibrate"} -> CalibrationResults(c)
      [] c.kernel \in {"cuda_average_beam", "average_beam"} -> BeamResults(c)
      [] c.kernel \in {"adder", "adder_wstack", "reference_adder"} -> AdderResults(c, <<>>)
      [] c.kernel = "cuda_adder" -> AdderResults(c, <<Scale>>)
      [] c.kernel \in {"splitter", "splitter_wstack", "reference_splitter", "cuda_splitter"} ->
            SplitterResults(c)
      [] c.kernel = "cuda_scaler" -> ScalerResults(c)
      [] c.kernel \in {"subgrids_to_wtiles", "cuda_subgrids_to_wtiles"} -> ToWtilesResults(c)
      [] c.kernel \in {"subgrids_from_wtiles", "cuda_subgrids_from_wtiles"} -> FromWtilesResults(c)
      [] c.kernel = "wtiles_to_grid" -> WtilesToGridResults(c)
      [] c.kernel = "wtiles_from_grid" -> WtilesFromGridResults(c)
      [] c.kernel = "cuda_copy_tiles" -> CopyTilesResults(c)
      [] c.kernel = "cuda_apply_phasor" -> ApplyPhasorResults(c)
      [] c.kernel = "cuda_wtiles_to_grid" ->
            CoverResults(c, GridArea(c), LAMBDA pol, p : Grid(0, pol, p))
      [] c.kernel = "cuda_wtiles_from_grid" ->
            UncoverResults(c, GridArea(c), LAMBDA pol, p : Grid(0, pol, p))
      [] c.kernel = "cuda_wtiles_to_patch" ->
            CoverResults(c, PatchArea(c), LAMBDA pol, p : PatchCell(c, pol, p))
      [] c.kernel = "cuda_wtiles_from_patch" ->
            UncoverResults(c, PatchArea(c), LAMBDA pol, p : PatchCell(c, pol, p))
      [] c.kernel = "reduction" -> ReductionResults(c)
      [] c.kernel = "sincos" -> SincosResults(c)
      [] c.kernel = "extrapolation" -> ExtrapolationResults(c)
      [] c.kernel = "fft_grid" -> FftGridResults(c)
      [] c.kernel = "fft_shift" -> FftShiftResults(c)
      [] c.kernel = "set_image" -> SetImageResults(c)
      [] c.kernel = "get_image" -> GetImageResults(c)
      [] c.kernel = "init_tapers" -> TaperResults(c)
      [] c.kernel = "beam_to_subgrid" -> BeamToSubgridResults(c)
      [] c.kernel = "pad_beam" -> PadBeamResults(c)
      [] c.kernel = "normalize_beam" -> NormalizeBeamResults(c)
      [] c.kernel = "bulk_degridder" -> BulkResults(c)
=============================================================================
