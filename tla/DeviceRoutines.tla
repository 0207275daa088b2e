--------------------------- MODULE DeviceRoutines ---------------------------
(***************************************************************************)
(* The routines of the CUDA and hybrid proxies as programs for CudaStreams.*)
(* A routine is [proxy, mode, adder, jobs]: its adder (or splitter) works  *)
(* on the grid in device memory ("grid"), on a tiled grid in unified       *)
(* memory ("unified"), on W-tiles on the device ("wtiles"), or on the CPU  *)
(* ("cpu", with W-tiles "cpu_wtiles").  Every routine runs from set_grid   *)
(* to the delivered result.                                                *)
(*                                                                         *)
(* Buffers are named <<name, index>>: d_ for device memory, h_ for host    *)
(* memory of the proxy, the others belong to the caller.  d_static is the  *)
(* wavenumbers, taper, a-terms, a-term indices and average a-term.         *)
(***************************************************************************)
EXTENDS CudaStreams, SequencesExt

CONSTANTS
    RoutineList,        \* the routines, in a sequence; Routines is its domain
    NrSegments,         \* runs of subgrids between flush events in a job
    FlushBefore,        \* the <<job, segment>>s that an event precedes
    NrTileBatches,      \* batches of tiles that fit in d_padded_tiles
    NrPatches,          \* patches that the tiles of a batch touch
    NrPatchBuffers,     \* m_nr_patches_batch
    MaxNrPatches,       \* patches that fit in h_padded_tiles
    NrChannelBlocks,    \* channel blocks of a calibration
    NrTermBlocks        \* blocks of max_nr_terms that its terms are cut into

ASSUME DeviceAssumption ==
    {NrSegments, NrTileBatches, NrPatches, NrPatchBuffers, MaxNrPatches,
     NrChannelBlocks, NrTermBlocks} \subseteq Nat \ {0}

htod == "htod"
exec == "execute"
dtoh == "dtoh"
DeviceStreams == {htod, exec, dtoh}
DeviceRoutine == DOMAIN RoutineList

(* Programs are put together from sequences of calls. *)
When(condition, part) == IF condition THEN part ELSE <<>>
ForEach(n, Body(_)) ==
    LET first[k \in 0 .. n] == IF k = 0 THEN <<>> ELSE first[k - 1] \o Body(k - 1)
    IN  first[n]

inputCopied(j) == <<"inputCopied", j>>
gpuFinished(j) == <<"gpuFinished", j>>
outputCopied(j) == <<"outputCopied", j>>
(* The code makes these anew for every batch of tiles; when it does, the old
   ones have all been reached, and so hold nothing either. *)
patchFinished(i) == <<"patchFinished", i % NrPatchBuffers>>
patchCopied(i) == <<"patchCopied", i % NrPatchBuffers>>

(* Double buffers, by the parity of the job. *)
d_visibilities(j) == <<"d_visibilities", j % 2>>
d_uvw(j) == <<"d_uvw", j % 2>>
d_metadata(j) == <<"d_metadata", j % 2>>
d_subgrids(j) == <<"d_subgrids", j % 2>>
d_static == <<"d_static", 0>>
d_grid == <<"d_grid", 0>>
grid == <<"grid", 0>>
unified_grid == <<"unified_grid", 0>>
h_subgrids == <<"h_subgrids", 0>>
d_tiles(b) == <<"d_tiles", b>>     \* the tiles that are flushed in batch b
d_padded_tiles == <<"d_padded_tiles", 0>>
d_tile_info == <<"d_tile_info", 0>>  \* ids and coordinates of a batch
d_packed_tile_ids == <<"d_packed_tile_ids", 0>>
d_patch(i) == <<"d_patch", i % NrPatchBuffers>>
h_patch(i) == <<"h_patch", i>>
report == <<"report", 0>>

-----------------------------------------------------------------------------
(* The kernels, with the memory they read and write. *)

LaunchGridder(j) ==
    <<Launch(exec, "gridder", d_visibilities(j),
             {d_uvw(j), d_metadata(j), d_static}, d_subgrids(j))>>
LaunchDegridder(j) ==
    <<LaunchAdd(exec, "degridder", d_subgrids(j),
                {d_uvw(j), d_metadata(j), d_static}, d_visibilities(j))>>
LaunchSubgridFft(j) ==
    <<Launch(exec, "subgrid_fft", d_subgrids(j), {}, d_subgrids(j))>>
LaunchScaler(j) == <<Launch(exec, "scaler", d_subgrids(j), {}, d_subgrids(j))>>
LaunchAdder(j) ==
    <<LaunchAdd(exec, "adder", d_subgrids(j), {d_metadata(j)}, d_grid)>>
LaunchAdderUnified(j) ==
    <<LaunchAdd(exec, "adder", d_subgrids(j), {d_metadata(j)}, unified_grid)>>
LaunchSplitter(j) ==
    <<Launch(exec, "splitter", d_grid, {d_metadata(j)}, d_subgrids(j))>>
LaunchSplitterUnified(j) ==
    <<Launch(exec, "splitter", unified_grid, {d_metadata(j)}, d_subgrids(j))>>
LaunchCopyTilesKept(from, to) ==   \* mutant
    <<Launch(exec, "copy_tiles", from, {d_tile_info}, to)>>
LaunchCopyTiles(from, to) ==
    <<LaunchMove(exec, "copy_tiles", from, {d_tile_info}, to)>>
LaunchApplyPhasor ==
    <<Launch(exec, "apply_phasor", d_padded_tiles, {d_tile_info}, d_padded_tiles)>>
ExecuteTileFft ==
    <<Launch(exec, "tile_fft", d_padded_tiles, {}, d_padded_tiles)>>
LaunchAdderWtilesToPatch(i) ==
    <<LaunchAdd(exec, "wtiles_to_patch", d_padded_tiles,
                {d_packed_tile_ids, d_tile_info}, d_patch(i))>>
LaunchSplitterWtilesFromPatch(i) ==
    <<LaunchAdd(exec, "wtiles_from_patch", d_patch(i),
                {d_packed_tile_ids, d_tile_info}, d_padded_tiles)>>
LaunchFftShift == <<Launch(exec, "fft_shift", d_grid, {}, d_grid)>>
LaunchGridFft == <<Launch(exec, "grid_fft", d_grid, {}, d_grid)>>
LaunchAverageBeam(j) ==
    <<LaunchAdd(exec, "average_beam", d_uvw(j),
                {<<"d_weights", j % 2>>, d_static}, <<"d_average_beam", 0>>)>>
EnqueueReport(j) == <<LaunchAdd(exec, "report", <<"job", j>>, {}, report)>>

MemcpyHtoD(from, to) == <<Memcpy(htod, from, to), Synchronize(htod)>>
MemcpyDtoH(from, to) == <<Memcpy(dtoh, from, to), Synchronize(dtoh)>>

-----------------------------------------------------------------------------
(* W-tiles to and from the grid, through patches.  Patch number patch_offset
   + i is the i-th of its host batch. *)

HostBatches == (NrPatches + MaxNrPatches - 1) \div MaxNrPatches
BatchPatches(h) ==
    IF (h + 1) * MaxNrPatches <= NrPatches THEN MaxNrPatches
    ELSE NrPatches - h * MaxNrPatches

PatchFromTiles(h, i) ==
    When(i > NrPatchBuffers, <<WaitEvent(exec, patchCopied(i))>>)
    \o <<Memcpy(exec, <<"packed_tile_ids", h * MaxNrPatches + i>>, d_packed_tile_ids),
         WaitEvent(exec, patchCopied(i)),
         Zero(exec, d_patch(i))>>
    \o LaunchAdderWtilesToPatch(i)
    \o <<Record(exec, patchFinished(i)),
         WaitEvent(dtoh, patchFinished(i)),
         Memcpy(dtoh, d_patch(i), h_patch(i)),
         Record(dtoh, patchCopied(i))>>

AdderPatchToGrid(i) == <<ComputeAdd("patch_to_grid", h_patch(i), {}, grid)>>

TilesToGrid ==
    ForEach(HostBatches, LAMBDA h :
        ForEach(BatchPatches(h), LAMBDA i : PatchFromTiles(h, i))
        \o <<Synchronize(dtoh)>>
        \o ForEach(BatchPatches(h), LAMBDA i : AdderPatchToGrid(i)))

CopyTileInfo(b) == <<Memcpy(exec, <<"tile_info", b>>, d_tile_info)>>
FftPhasorFft == ExecuteTileFft \o LaunchApplyPhasor \o ExecuteTileFft

RunWtilesToGrid ==
    ForEach(NrTileBatches, LAMBDA b :
        CopyTileInfo(b)
        \o LaunchCopyTiles(d_tiles(b), d_padded_tiles)
        \o FftPhasorFft \o <<Synchronize(exec)>>
        \o TilesToGrid)

SplitterPatchFromGrid(i) == <<Compute("patch_from_grid", grid, {}, h_patch(i))>>

TilesFromPatch(h, i) ==
    When(i > NrPatchBuffers, <<EventSynchronize(patchFinished(i))>>)
    \o <<Memcpy(exec, <<"packed_tile_ids", h * MaxNrPatches + i>>, d_packed_tile_ids),
         WaitEvent(htod, patchFinished(i)),
         Memcpy(htod, h_patch(i), d_patch(i)),
         Record(htod, patchCopied(i)),
         WaitEvent(exec, patchCopied(i))>>
    \o LaunchSplitterWtilesFromPatch(i)
    \o <<Record(exec, patchFinished(i))>>

TilesFromGrid ==
    ForEach(HostBatches, LAMBDA h :
        ForEach(BatchPatches(h), LAMBDA i : SplitterPatchFromGrid(i))
        \o ForEach(BatchPatches(h), LAMBDA i : TilesFromPatch(h, i))
        \o <<Synchronize(exec)>>)

RunWtilesFromGrid ==
    ForEach(NrTileBatches, LAMBDA b :
        CopyTileInfo(b) \o <<Zero(exec, d_padded_tiles)>>
        \o TilesFromGrid \o FftPhasorFft
        \o LaunchCopyTiles(d_padded_tiles, d_tiles(b))
        \o <<Synchronize(exec)>>)

(* The tiles of segment k of job j belong to one batch. *)
TileBatch(j, k) == (j + k) % NrTileBatches
Segment(j, k) == <<"segment", j * NrSegments + k>>

RunSubgridsToWtiles(j) ==
    ForEach(NrSegments, LAMBDA k :
        When(<<j, k>> \in FlushBefore, RunWtilesToGrid)
        \o <<LaunchAdd(exec, "subgrids_to_wtiles", d_subgrids(j),
                       {d_metadata(j), Segment(j, k)}, d_tiles(TileBatch(j, k))),
             Synchronize(exec)>>)

(* The segments together overwrite the subgrids; the first replaces them. *)
RunSubgridsFromWtiles(j, buffer) ==
    ForEach(NrSegments, LAMBDA k :
        When(<<j, k>> \in FlushBefore \cup {<<0, 0>>}, RunWtilesFromGrid)
        \o <<Call("kernel", exec, <<"subgrids_from_wtiles", 0>>,
                  d_tiles(TileBatch(j, k)), {d_metadata(buffer), Segment(j, k)},
                  d_subgrids(buffer), k > 0, NoEvent),
             Synchronize(exec)>>)

-----------------------------------------------------------------------------
(* run_imaging of the two proxies. *)

CopyStaticData == <<Memcpy(htod, <<"static", 0>>, d_static)>>

CopyInput(r, j) ==
    When(r.mode = "gridding", <<Memcpy(htod, <<"visibilities", j>>, d_visibilities(j))>>)
    \o <<Memcpy(htod, <<"uvw", j>>, d_uvw(j)),
         Memcpy(htod, <<"metadata", j>>, d_metadata(j)),
         Record(htod, inputCopied(j))>>

CopyNextInputAtOnce(r, next) == CopyInput(r, next)   \* mutant
CopyNextInput(r, next) ==
    When(next > 1, <<WaitEvent(htod, gpuFinished(next - 2))>>) \o CopyInput(r, next)

ClearOnlyFirst(r, j) ==   \* mutant
    IF r.mode = "gridding" THEN <<Zero(exec, d_subgrids(j))>>
    ELSE When(j = 0, <<Zero(exec, d_visibilities(j))>>)
ClearOutput(r, j) ==
    IF r.mode = "gridding" THEN <<Zero(exec, d_subgrids(j))>>
    ELSE When(j > 1, <<WaitEvent(exec, outputCopied(j - 2))>>)
         \o <<Zero(exec, d_visibilities(j))>>

CopyOutput(j) ==
    <<WaitEvent(dtoh, gpuFinished(j)),
      Memcpy(dtoh, d_visibilities(j), <<"visibilities", j>>),
      Record(dtoh, outputCopied(j))>>

Gridding(r, j) ==
    LaunchGridder(j) \o LaunchSubgridFft(j)
    \o (IF r.adder = "wtiles" THEN RunSubgridsToWtiles(j)
        ELSE IF r.adder = "unified" THEN LaunchAdderUnified(j)
        ELSE LaunchAdder(j))
    \o <<Record(exec, gpuFinished(j))>>

Splitter(r, j) ==
    IF r.adder = "wtiles" THEN RunSubgridsFromWtiles(j, j)
    ELSE IF r.adder = "unified" THEN LaunchSplitterUnified(j)
    ELSE LaunchSplitter(j)

FftAndDegrid(j) ==
    LaunchSubgridFft(j) \o LaunchDegridder(j)
    \o <<Record(exec, gpuFinished(j))>> \o CopyOutput(j)

OnCpu(r) == r.adder \in {"cpu", "cpu_wtiles"}

(* The hybrid proxy: its adder comes after the event, and on the CPU takes the
   subgrids through one buffer of the host. *)
HybridGridding(r, j) ==
    LaunchGridder(j) \o LaunchSubgridFft(j)
    \o When(r.adder = "cpu", LaunchScaler(j))   \* W-tiles scale in their adder
    \o <<Record(exec, gpuFinished(j))>>
    \o (IF OnCpu(r)
        THEN <<WaitEvent(dtoh, gpuFinished(j))>>
             \o MemcpyDtoH(d_subgrids(j), h_subgrids)
             \o <<ComputeAdd("adder", h_subgrids, {<<"metadata", j>>}, grid)>>
        ELSE RunSubgridsToWtiles(j))

HybridSplitter(r, j) ==
    IF OnCpu(r)
    THEN <<Compute("splitter", grid, {<<"metadata", j>>}, h_subgrids)>>
         \o MemcpyHtoD(h_subgrids, d_subgrids(j))
    ELSE RunSubgridsFromWtiles(j, j)

ImagingJob(r, j) ==
    When(j = 0, CopyInput(r, j))
    \o When(j + 1 < r.jobs, CopyNextInput(r, j + 1))
    \o ClearOutput(r, j)
    \o <<WaitEvent(exec, inputCopied(j))>>
    \o (IF r.mode = "gridding"
        THEN IF r.proxy = "hybrid" THEN HybridGridding(r, j) ELSE Gridding(r, j)
        ELSE (IF r.proxy = "hybrid" THEN HybridSplitter(r, j) ELSE Splitter(r, j))
             \o FftAndDegrid(j))
    \o EnqueueReport(j)

RunImagingNoOutputWait(r) ==   \* mutant
    CopyStaticData \o ForEach(r.jobs, LAMBDA j : ImagingJob(r, j))
    \o <<Synchronize(exec)>>
RunImaging(r) ==
    CopyStaticData \o ForEach(r.jobs, LAMBDA j : ImagingJob(r, j))
    \o When(r.mode = "degridding", <<Synchronize(dtoh)>>)
    \o <<Synchronize(exec)>>

-----------------------------------------------------------------------------
(* The grid before and after. *)

TileGrid(forward) ==
    IF forward THEN <<Compute("tile_grid", grid, {}, unified_grid)>>
    ELSE <<Compute("untile_grid", unified_grid, {}, grid)>>

SetGrid(r) ==
    IF r.adder = "grid" THEN MemcpyHtoD(grid, d_grid)
    ELSE When(r.adder = "unified", TileGrid(TRUE))

GetFinalGrid(r) ==
    IF r.adder = "wtiles" THEN RunWtilesToGrid
    ELSE IF r.adder = "grid" THEN MemcpyDtoH(d_grid, grid)
    ELSE When(r.adder = "unified", TileGrid(FALSE))

(* Generic::do_transform with W-tiling, when the grid is on the host. *)
Transform ==
    <<Memcpy(exec, grid, d_grid)>>
    \o LaunchFftShift \o LaunchGridFft \o LaunchFftShift
    \o <<Memcpy(exec, d_grid, grid), Synchronize(exec)>>

(* GenericOptimized's calibration: do_calibrate_init cuts the subgrids of every
   antenna (and channel block) with W-tiles on the device, ... *)
CalibrateInit(r) ==
    ForEach(r.jobs, LAMBDA antenna :
        <<Memcpy(htod, <<"metadata", antenna>>, d_metadata(0)), Synchronize(htod)>>
        \o RunSubgridsFromWtiles(antenna, 0)
        \o <<Synchronize(exec),
             Memcpy(dtoh, d_subgrids(0), <<"subgrids", antenna>>), Synchronize(dtoh),
             Compute("fft_taper", <<"subgrids", antenna>>, {}, <<"subgrids", antenna>>)>>)

(* ... and do_calibrate_update adds up the hessian, gradient and residual of
   one antenna.  The terms are taken in blocks: the sums of a block, its
   gradient, and the hessian of each pair of blocks. *)
d_sums1 == <<"d_sums", 1>>
d_sums2 == <<"d_sums", 2>>
d_hessian == <<"d_hessian", 0>>
d_gradient == <<"d_gradient", 0>>
d_residual == <<"d_residual", 0>>
d_inputs == <<"d_inputs", 0>>   \* visibilities, weights, subgrids, indices
d_lmnp == <<"d_lmnp", 0>>
CalibrationInput == {d_inputs, d_static, d_uvw(0), d_lmnp}

Sums(block, d_sums) ==
    <<Launch(exec, "sums", <<"terms", block>>, CalibrationInput, d_sums)>>
(* One kernel, which adds to the residual for the first block of terms only. *)
Gradient(y, d_sums) ==
    When(y = 0, <<LaunchAdd(exec, "gradient", d_sums, CalibrationInput, d_gradient)>>)
Residual(y) ==
    When(y = 0, <<LaunchAdd(exec, "gradient", d_inputs, CalibrationInput, d_residual)>>)
Hessian(d_sums) == <<LaunchAdd(exec, "hessian", d_sums1, {d_sums, d_inputs}, d_hessian)>>

LaunchCalibrate ==
    <<Launch(exec, "lmnp", d_inputs, {}, d_lmnp)>>
    \o ForEach(NrTermBlocks, LAMBDA y :
           Sums(y, d_sums1) \o Gradient(y, d_sums1) \o Residual(y) \o Hessian(d_sums1)
           \o ForEach(NrTermBlocks - y - 1, LAMBDA i :
                  Sums(y + 1 + i, d_sums2) \o Gradient(y, d_sums2) \o Hessian(d_sums2)))

(* A channel block.  What the kernels add to is copied in from the start of the
   caller's arrays (hessian.data(), gradient.data()), where the first block's
   part is, and for the residual from &residual, the caller's Span itself. *)
residual_object == <<"residual_object", 0>>
CalibrateBlock(block) ==
    <<Memcpy(htod, <<"hessian", 0>>, d_hessian),
      Memcpy(htod, <<"gradient", 0>>, d_gradient),
      Memcpy(htod, residual_object, d_residual),
      Memcpy(htod, <<"inputs", block>>, d_inputs),
      Memcpy(htod, <<"static", block>>, d_static),
      Record(htod, inputCopied(0)), WaitEvent(exec, inputCopied(0))>>
    \o LaunchCalibrate
    \o <<Record(exec, gpuFinished(0)), WaitEvent(dtoh, gpuFinished(0)),
         Memcpy(dtoh, d_hessian, <<"h_hessian", 0>>),
         Memcpy(dtoh, d_gradient, <<"h_gradient", 0>>),
         Memcpy(dtoh, d_residual, <<"h_residual", 0>>),
         Record(dtoh, outputCopied(0)), EventSynchronize(outputCopied(0)),
         Compute("copy_n", <<"h_hessian", 0>>, {}, <<"hessian", block>>),
         Compute("copy_n", <<"h_gradient", 0>>, {}, <<"gradient", block>>),
         Compute("copy_n", <<"h_residual", 0>>, {}, <<"residual", block>>)>>

CalibrateUpdate ==
    <<Memcpy(htod, <<"uvw", 0>>, d_uvw(0))>>
    \o ForEach(NrChannelBlocks, LAMBDA block : CalibrateBlock(block))

(* CUDA::do_compute_avg_beam. *)
CopyBeamInput(j) ==
    <<Memcpy(htod, <<"uvw", j>>, d_uvw(j)),
      Memcpy(htod, <<"weights", j>>, <<"d_weights", j % 2>>),
      Record(htod, inputCopied(j))>>

BeamJob(r, j) ==
    When(j = 0, CopyBeamInput(j))
    \o When(j + 1 < r.jobs, CopyBeamInput(j + 1))
    \o <<WaitEvent(exec, inputCopied(j))>> \o LaunchAverageBeam(j)

ComputeAvgBeam(r) ==
    CopyStaticData \o <<Zero(htod, <<"d_average_beam", 0>>)>>
    \o ForEach(r.jobs, LAMBDA j : BeamJob(r, j))
    \o <<Synchronize(exec)>>
    \o MemcpyDtoH(<<"d_average_beam", 0>>, <<"average_beam_double", 0>>)
    \o <<ComputeAdd("convert", <<"average_beam_double", 0>>, {}, <<"average_beam", 0>>)>>

ProgramOf(r) ==
    CASE r.mode = "gridding" -> SetGrid(r) \o RunImaging(r) \o GetFinalGrid(r)
      [] r.mode = "degridding" -> SetGrid(r) \o RunImaging(r)
      [] r.mode = "transform" -> Transform
      [] r.mode = "calibrate_init" -> CalibrateInit(r)
      [] r.mode = "calibrate" -> CalibrateUpdate
      [] r.mode = "average_beam" -> ComputeAvgBeam(r)

DeviceProgram == ForEach(Len(RoutineList), LAMBDA i : <<ProgramOf(RoutineList[i + 1])>>)

(* Every buffer first holds itself: what is read of memory that was never
   written shows, and so does device memory as the allocation left it.  Only
   what the caller allocates as zeros starts empty, and the report. *)
StartEmpty ==
    {report, <<"average_beam", 0>>}
    \cup {<<name, c>> : name \in {"hessian", "gradient"}, c \in 0 .. NrChannelBlocks - 1}

BuffersOf(program) ==
    UNION {{c.to, c.from} \cup c.with : c \in ToSet(program)} \ {NoBuffer}

DeviceContent ==
    ForEach(Len(RoutineList), LAMBDA i :
        <<[b \in BuffersOf(DeviceProgram[i + 1]) |-> IF b \in StartEmpty THEN <<>> ELSE <<{b}>>]>>)

-----------------------------------------------------------------------------
(* What each routine is for, said without its calls: the contributions that
   its results consist of. *)

Kernels(names) == {<<name, 0>> : name \in names}
InputOf(j) ==
    {<<"visibilities", j>>, <<"uvw", j>>, <<"metadata", j>>, <<"static", 0>>}
Jobs(r) == 0 .. r.jobs - 1
ThroughTile(j, k, p) ==
    {Segment(j, k), <<"tile_info", TileBatch(j, k)>>, <<"packed_tile_ids", p>>}
    \cup Kernels({"copy_tiles", "tile_fft", "apply_phasor"})

GriddedGrid(r) ==
    LET subgrid(j) == InputOf(j) \cup Kernels({"gridder", "subgrid_fft"})
        added(names) == {subgrid(j) \cup Kernels(names) : j \in Jobs(r)}
    IN  CASE r.adder = "wtiles" ->
                 {{grid}} \cup
                 {subgrid(j) \cup ThroughTile(j, k, p)
                     \cup Kernels({"subgrids_to_wtiles", "wtiles_to_patch", "patch_to_grid"}) :
                     j \in Jobs(r), k \in 0 .. NrSegments - 1, p \in 0 .. NrPatches - 1}
          [] r.adder = "unified" ->
                 {{grid} \cup Kernels({"tile_grid", "untile_grid"})}
                 \cup added({"adder", "untile_grid"})
          [] r.adder = "cpu" -> {{grid}} \cup added({"scaler", "adder"})
          [] OTHER -> {{grid}} \cup added({"adder"})

SubgridFromTiles(j) ==
    {{grid, <<"metadata", j>>} \cup ThroughTile(j, k, p)
        \cup Kernels({"patch_from_grid", "wtiles_from_patch", "subgrids_from_wtiles"}) :
        k \in 0 .. NrSegments - 1, p \in 0 .. NrPatches - 1}

DegriddedVisibilities(r, j) ==
    LET degridded(names) ==
            (InputOf(j) \ {<<"visibilities", j>>})
            \cup {grid} \cup Kernels(names \cup {"subgrid_fft", "degridder"})
    IN  CASE r.adder = "wtiles" ->
                 {degridded({}) \cup subgrid : subgrid \in SubgridFromTiles(j)}
          [] r.adder = "unified" -> {degridded({"tile_grid", "splitter"})}
          [] OTHER -> {degridded({"splitter"})}

TermBlocks == 0 .. NrTermBlocks - 1
ChannelBlocks == 0 .. NrChannelBlocks - 1
CalibrationOf(c, names) ==
    {<<"inputs", c>>, <<"static", c>>, <<"uvw", 0>>}
    \cup Kernels({"lmnp", "copy_n"} \cup names)
TermsOf(blocks) == {<<"terms", t>> : t \in blocks}
HessianOf(c) ==
    {CalibrationOf(c, {"sums", "hessian"}) \cup TermsOf({y, x}) : y, x \in TermBlocks}
GradientOf(c) ==
    {CalibrationOf(c, {"sums", "gradient"}) \cup TermsOf({t}) : t \in TermBlocks}
ResidualOf(c) == {CalibrationOf(c, {"gradient"})}

Results(r) ==
    CASE r.mode = "gridding" -> {<<grid, GriddedGrid(r)>>}
      [] r.mode = "degridding" ->
             {<<<<"visibilities", j>>, DegriddedVisibilities(r, j)>> : j \in Jobs(r)}
      [] r.mode = "transform" ->
             {<<grid, {{grid} \cup Kernels({"fft_shift", "grid_fft"})}>>}
      [] r.mode = "calibrate_init" ->
             {<<<<"subgrids", j>>,
                {part \cup Kernels({"fft_taper"}) : part \in SubgridFromTiles(j)}>> : j \in Jobs(r)}
      [] r.mode = "calibrate" ->
             UNION {{<<<<"hessian", c>>, HessianOf(c)>>, <<<<"gradient", c>>, GradientOf(c)>>,
                     <<<<"residual", c>>, ResidualOf(c)>>} : c \in ChannelBlocks}
      [] r.mode = "average_beam" ->
             {<<<<"average_beam", 0>>,
                {{<<"uvw", j>>, <<"weights", j>>, <<"static", 0>>}
                     \cup Kernels({"average_beam", "convert"}) : j \in Jobs(r)}>>}

(* What some results contain besides: new tile memory, which nothing clears
   before the first subgrids are added to it; where the residual is added to;
   and in every later channel block the hessian and gradient of the first. *)
Leftovers(r) ==
    CASE r.mode = "gridding" /\ r.adder = "wtiles" ->
             {<<grid,
                {{d_tiles(b), <<"tile_info", b>>, <<"packed_tile_ids", p>>}
                    \cup Kernels({"copy_tiles", "tile_fft", "apply_phasor",
                                  "wtiles_to_patch", "patch_to_grid"}) :
                    b \in 0 .. NrTileBatches - 1, p \in 0 .. NrPatches - 1}>>}
      [] r.mode = "calibrate" ->
             {<<<<"residual", c>>, {{residual_object} \cup Kernels({"copy_n"})}>> :
                 c \in ChannelBlocks}
             \cup UNION {{<<<<"hessian", c>>, HessianOf(0)>>, <<<<"gradient", c>>, GradientOf(0)>>} :
                         c \in ChannelBlocks \ {0}}
      [] OTHER -> {}

Consists(b, parts) == ToSet(mem[b]) = parts /\ Len(mem[b]) = Cardinality(parts)

(* When a routine returns, each result consists of what it should, each part
   of it once: no job worked on another's input, and nothing was added twice,
   lost, or read before it was written.  For the results without leftovers. *)
Delivered ==
    Returned =>
        LET r == RoutineList[routine]
            spoilt == {leftover[1] : leftover \in Leftovers(r)}
        IN  \A result \in Results(r) :
                result[1] \notin spoilt => Consists(result[1], result[2])

(* The other results contain all they should and their leftovers, each once:
   what new tile memory held is cleared with the first flush and does not reach
   the grid again, however often tiles are flushed, and no channel block adds to
   what a block other than the first has left. *)
DeliveredWithLeftovers ==
    Returned =>
        LET r == RoutineList[routine]
        IN  \A result \in Results(r), leftover \in Leftovers(r) :
                result[1] = leftover[1] => Consists(result[1], result[2] \cup leftover[2])
=============================================================================
