# A verification of IDG's state machines and kernels

IDG (Image Domain Gridding) grids radio-astronomical visibilities onto a Fourier
grid, and predicts visibilities from one. Around its arithmetic it keeps state: a
cache of W-tiles that outlives the calls that fill it, plans that reserve cache
slots long before the data pass by, buffers that collect visibilities from a
caller while a thread grids the previous batch, streams that overlap copies and
kernels on a device. Within the arithmetic it has threads that share memory
between barriers. This directory models both in TLA+, checks them with TLC on
small instances, and proves part of them with TLAPS for every instance.

All paths below are relative to `src/`.

## 1. Inventory

| Component | State | Operations | Modules |
|---|---|---|---|
| Buffer, `idg-api/Buffer.cpp` | batch start, uvws, visibilities, a-terms and their offsets | `bake`, `set_aterm` | `Buffer` |
| GridderBuffer, `idg-api/GridderBuffer.cpp` | a front and a back copy of the buffer, a flush thread | `grid_visibilities`, `flush`, `finished`, `flush_thread_worker` | `GridderBuffer`, `VisibilityGridding` (its promise) |
| DegridderBuffer, `idg-api/DegridderBuffer.cpp` | the buffer, flags full and read, pointers per row | `request_visibilities`, `compute`, `finished_reading` | `DegridderBuffer` |
| BulkDegridder, `idg-api/BulkDegridder.cpp` | none between calls | `compute_visibilities` | `BulkDegridding` |
| BufferSet, `idg-api/BufferSet.cpp` | proxy, mode, one buffer per band, tapers, average beam | `init`, `set_image`, `get_image`, `finalize_compute_avg_beam` | `TileGridding` (as client of a proxy), `ImageKernels` (its loops) |
| Plan, `idg-lib/src/common/Plan.cpp` | rows of subgrids per baseline, subgrid offsets, the two event queues | `initialize`, `initialize_job`, `get_nr_timesteps` | `Planning`, `TileGridding` |
| W-tile cache, `idg-lib/src/common/WTiles.{h,cpp}` | map coordinate -> (slot, last access), free slots, counter, two queues of update events | `add_subgrid`, `get_new_wtile`, `clear`, `get_flush_set`, `get_initialize_set` | `WTiles` |
| CPU proxy, `idg-lib/src/CPU/common/CPU.cpp` | the cache, the grid | `init_cache`, `make_plan`, `do_gridding`, `do_degridding`, `get_final_grid` | `TileGridding` |
| Tile buffer, `idg-lib/src/CPU/Optimized/OptimizedKernels.cpp` | `wtiles_buffer_` | `run_adder_wtiles`, `run_splitter_wtiles`, projection to and from the grid | `TileGridding`, `TileKernels` |
| What a proxy promises, `doc/caching-design.md` | requested subgrids, grid | request, accumulate, deliver | `GridAccumulation` |
| CUDA and Hybrid proxies, `idg-lib/src/CUDA`, `idg-lib/src/Hybrid` | device buffers, three streams, events, the same cache | `run_imaging`, `do_transform`, `do_compute_avg_beam`, `run_wtiles_to_grid`, `run_wtiles_from_grid`, `run_subgrids_*`, `do_calibrate_*` | `CudaStreams`, `DeviceRoutines` |
| Kernels: reference, optimized (OpenMP, vectors), CUDA | memory shared by threads | gridder, degridder, adders, splitters, W-tiling, calibration, average beam, FFT shift, reductions | `KernelThreads`, `GriddingKernels`, `CudaKernels`, `SubgridKernels`, `TileKernels`, `VectorKernels` |
| Proxy base class | grid, list of allocated memory | `allocate_span`, `set_grid`, `free_grid` | not modelled |
| Reports, power measurement, bindings, data generators, examples | - | - | not modelled |

**How they interact.** A client (an imager, through `BufferSet`) hands
visibilities to a `GridderBuffer`. When a batch of time steps is full, its front
and back buffers are swapped and a flush thread makes a `Plan` and executes it
on the proxy. While a plan is made, one thread per baseline cuts its
visibilities into subgrids; then each subgrid asks the W-tile cache for a slot,
and the cache records what must happen to the tile buffer as events keyed by
subgrid position. Executing the plan splits it in jobs of whole baselines;
within a job the kernels stop at each event, apply it and go on. Tiles stay in
the buffer after the call, and are projected onto the grid when they are retired
by a later plan or when `get_final_grid` clears the cache. Degridding is the
mirror image. On a device, the jobs pass through a pipeline of three streams
(copy in, execute, copy out) with two sets of buffers, and each launch runs
blocks of threads that meet at `__syncthreads()`.

**What is hard here.** The cache runs a whole plan ahead of the data, so every
decision is applied later, by other code, at a position that job boundaries
shift. The flush thread reads buffers that the caller swaps. Batches are
addressed by differences of unsigned times stored in ints. Copies, kernels and
the host overlap, ordered only by events that are recorded and awaited at
different lags. Kernels cut every dimension in batches whose last is partial,
change a-terms in the middle of a subgrid, and share memory. `PROJECT.json` lists these
hazards at their lines ("hazards"); the properties below are aimed at them.

## 2. Modules

**The cache and its users.** `WTiles` is the cache. A map entry that does not exist
has slot `NoTile`, the id of a default-constructed `WTileInfo`; a `WTileUpdateInfo` is
its position with the set of (coordinate, slot) pairs. `add_subgrid` is
`AddSubgrid`, in one step, with its three outcomes as operators: the tile is
active, a slot is free, tiles are retired. The slot that is popped from the
free list is any free slot.

`TileGridding` EXTENDS `WTiles` with its users. The client's calls are `InitCache`
(`BufferSetImpl::init`) and `SetImage`; making a plan is `BeginPlan`, a
`PlanSubgrid` for every subgrid, `FinishBaseline` and `FinishPlan`, which takes the
events out of the cache and chooses any job size, as `compute_jobsize` does
from free memory; executing it is `StartJob`, `AdderIteration` or
`SplitterIteration` for each turn of the loop in the kernels, and `EndRun`;
`GetFinalGrid` clears the cache and projects. Data are abstracted to counts: a
tile counts the subgrids of each coordinate that were added to it, the grid
counts them by the coordinate they were projected for. A degridded tile carries
which grid, and which place, it was cut from. `planned` and `reads` are history
variables.

`GridAccumulation` is the abstract specification: subgrids are requested, some of
them reach the grid at any time, each at its own coordinate and never more than
requested, and delivery completes it. `TileGridding` implements it with
`planned`, `gridSums` and `phase = "final"` as the refinement mapping.

`Planning` EXTENDS `WTiles` with `Plan::initialize` itself, which `TileGridding` takes as
any sequence of subgrids. Each baseline's thread has its place in the loops
(channel group, time offset); a step is one turn of the inner loop: as many
time steps as fit are taken (`NextSubgrid`), then the subgrid is stored in the
baseline's row of `metadata_`, dropped, or the plan throws. The
combine loop drives the cache one subgrid at a time. Coordinates are integers:
a visibility is at its uvw times the frequency of its channel, in pixels, which
keeps the comparisons of the code (extent against the subgrid, rounding against
flooring, w layers) and leaves out its units.

**The buffers.** `Buffer` holds what the two buffers share. A visibility is its
baseline and a stamp (pass, time index); cells of the uvw and visibility buffers
hold stamps, so that what belongs together can be compared. `LocalTime` is the
code's subtraction of `size_t`s stored in an `int`, with a parameter for the width
of an int. `GridderBuffer` EXTENDS it with the back buffer and the flush thread,
a thread of its own for every flush, which interleaves with the client: it reads
the uvws when it plans, and uvws and visibilities when it grids. `join` is the
guard `Joined`. `VisibilityGridding` is the abstract specification, without buffers,
batches or threads: visibilities are accepted with their a-terms, at any time some that
are not on the grid are put there, and `Finish` needs all of them to be. `GridderBuffer`
implements it with `submitted`, the records of `gridded` and `caller = "finished"` as the
refinement mapping. `DegridderBuffer` EXTENDS it with the row pointers and the client's
loop from the comment of `DegridderBuffer.h`.

**The device.** `CudaStreams` is a host thread that issues calls, and streams that
execute what was appended to their queues, each in order and at its own pace.
An event counts its records; a wait takes with it the number of the last record
issued (its `ticket`), and holds its stream until that one is reached, as
`cuStreamWaitEvent` does. A buffer holds a sequence of contributions, each the set
of kernels and buffers it came through; a copy replaces, a kernel adds a factor,
an addition appends. `DeviceRoutines` writes the routines of the Generic, Unified and
Hybrid proxies as sequences of such calls, in the order of the source: the three
streams and two buffer sets of `run_imaging` in both directions, the loops over
batches of tiles and patches with their own events, the transform, the average
beam, and the Hybrid proxy's calibration. What a routine should leave in its
results (`Results`) is written after them, without streams. The history variable
`inOrder` holds what the buffers would hold if each call were executed when it is
issued; no other variable depends on it. `StreamOrder` says which calls of a program are ordered by
the program itself.

**The kernels.** `KernelThreads` runs threads on one memory: each thread's code is the
sequence of its assignments and barriers, with loops unrolled and index
arithmetic done, so that the index arithmetic is what is checked. A cell holds a
polynomial in the inputs: a set of products, with a mark for a product that was
added twice. A cell that was never written stands for itself, so reading memory
that should have been written shows in the result. Modules on top of it
translate the kernels: `GriddingKernels` (reference and optimized gridder and
degridder, the CPU calibration), `CudaKernels` (gridder, both degridders,
calibration, average beam), `SubgridKernels` (adders, splitters and the scaler,
for plain grids and W-stacks), `TileKernels` (the W-tiling loops of CPU and CUDA),
`VectorKernels` (vector reductions, sincos, extrapolation, grid FFT, FFT shift),
`ImageKernels` (the loops of `set_image`, `get_image`, `init`, and of the average beam
in `BufferSet`), `BulkDegridding`. Next to each kernel is its result as a definition
over pixels, time steps and channels, without threads, batches or order.

`MC*` modules instantiate these for TLC; `*Proofs` modules hold the proofs:
`WTilesProofs` what the users of the cache share, `TileGriddingProofs` the control of
plans and jobs, `TileBufferProofs` the contents of tiles and the refinement,
`PlanningProofs` the plan, `BufferProofs` what the two buffers share, with
`GridderBufferProofs` and `DegridderBufferProofs`, and `CudaStreamsProofs` the streams.

## 3. Runs

| Run | Expected | Shows |
|---|---|---|
| `tile_gridding` | pass | over any number of plans in both modes: slots partitioned, tiles unmixed, no subgrid lost, current grid read, every event applied, tile buffer and cache agree between calls, the loops over a job go on, jobs skip only empty baselines, and gridding implements `GridAccumulation` |
| `planning` | pass | every visibility planned once, whole and in its tile; no baseline writes another's row; LRU over several plans; events strictly ordered; the parallel loop ends |
| `gridder_buffer` | pass | implements `VisibilityGridding`: gridded once, with its a-term, and all of them when `finished()` has returned; gridded with its uvw; none lost on the way |
| `degridder_buffer` | pass | predicted with its uvw and a-term; no row lost; a refused row fits the second time when the data have no gaps |
| `device` | pass | every routine orders its conflicting calls, no two operations race on a buffer, a buffer that is not written any more holds what in-order execution leaves in it, a routine returns with the device idle and all that is due in its results, each part once, next to what the code leaves there besides |
| `kernels` | pass | 52 kernel calls: no races, barriers match, the result is the definition's |
| `stale_tiles` | violation | `set_image` without `init_cache` degrids from tiles of the previous image |
| `skipped_baseline` | violation | a baseline with subgrids of later channel groups only is skipped |
| `aterm_empty_buffer` | violation | an a-term set for the next batch while the buffer is empty is not used |
| `degridder_gap` | violation | with gaps in time, the second request does not fit and the row is dropped |
| `degridder_off_grid` | violation | a row off the grid is read as an earlier batch's prediction |
| `copy_tiles_race` | violation | a tile copied into a larger one loses what a late block of another polarization clears |

The violations are disagreements between the code and its own comments and
docs; `PROJECT.json` quotes both sides under "findings". Each passing run states
what its client must do for the properties to hold, as constants:
`FreshCacheForGrid` (a grid is set only while no tile is cached),
`FirstGroupInRange` (a baseline with subgrids has one of the first channel group),
`CarefulAterms` (no a-term for the next batch while the buffer is empty, and data
for every time an a-term is set for), `TimeGaps = FALSE`. Setting one to its other value gives the violation run, where there is one.

**Bounds.** `TileGridding.cfg` has three slots of which two are retired at a time,
four coordinates and five subgrids: enough for a full cache, a retirement that
leaves a free slot, a tile that comes back after it was retired, and a later
initialize event joined by a second tile, spread over one to five plans of two
baselines and jobs of one or two baselines, and two grids.

`Planning.cfg` has two baselines, each any of five rows of uvws: one that turns so
fast across the middle of the grid that no two time steps share a subgrid, one
long enough that its channels are split and it leaves the grid, whose first sample
is missing, one that crosses w layers, one that grows until first its second and
then its first channel does not fit, with a sample missing, and one without data; two plans, strict or not, on a cache of three tiles. The row of
`metadata_` is exactly full in it (two time steps per column, and every time step
a subgrid). With `MaxTimesteps = 4`, a limit as long as the data, TLC finds
`OwnSubgrids` violated: the size of a row (Plan.cpp:281-288) counts the subgrids
that the time limit causes and no others, and line 456 then writes into the row
of the next baseline. The default limit, 0, gives each time step a column and is
safe; the examples of `idg-bin` set 128.

`GridderBuffer.cfg` has a buffer of three slots, six time indices with gaps, two
passes, two a-terms and three batches: a buffer is reused after its own flush,
and an int of 16 values, which three does not divide, lets the wrap of
`local_time` land off the batch grid. `DegridderBuffer.cfg` has two baselines,
buffers of two slots, four times (two batches), two passes and two a-terms.
`BufferAssumption` asks that an int has twice as many values as the largest time index and
a batch come to (2^32 in the code, 16 and 64 in the runs).

`Device.cfg` has up to four jobs, so that both sets of buffers are reused; with
W-tiles two jobs, one with a flush before its first subgrid and one with a flush
in its middle, two batches of tiles, and five patches in batches of four through two buffers. The average
beam has two jobs: with three, TLC finds `NoRace` violated (Beam.cpp:149 copies
over a buffer that a kernel may still read), which is in the list of hazards.
Calibration has two channel blocks and two blocks of terms.

New device memory holds itself, as memory that was never written does everywhere in
this model, so what reads it shows in the results. `Delivered` is about the results
in which nothing is left over. `DeliveredWithLeftovers` is about the others, and states
(`Leftovers`) what the code puts there besides what is due:

* with W-tiles on the device, what the tiles' memory held when it was allocated.
  WTiling.cpp:134 allocates it, and nothing clears it before the first addition; each
  flush clears what it took, so it reaches the grid once per slot, not again;
* in a calibration's residual, the bytes of the caller's `Span` (Calibration.cpp:356 copies
  from `&residual`, not `residual.data()`), read as a number;
* in the hessian and gradient of every channel block but the first, those of the first
  (lines 354 and 355 copy from the start of the arrays, whatever the block).

`Kernels.cfg` runs each kernel on two or three
pixels, several time steps and channels, with threads, batches, vector lengths
and terms such that every loop has more than one turn and the last is partial.
The tiles of the CPU kernels lie inside the grid and over its edges; those of the kernels
that map tiles to a patch overlap the patch, reach over its edge or only touch it. Those of `cuda_wtiles_to_grid`
and `cuda_wtiles_from_grid`, which map tiles to a grid in unified memory, lie inside it:
KernelWtiling.cu:241 clamps a tile's start to the grid and not its end, the loop takes
the whole padded tile, and with a tile over the edge TLC finds `Computes` violated. Only
the mode that Generic.cpp:46 switches off uses these two kernels; it is in the list of
hazards.

Counters (`MaxSubgrids`, `MaxGrids`, `MaxPlans`, `MaxFlushes`, `MaxPasses`, `MaxAterms`,
`MaxTime`) bound the runs in the guards; they stand for less than 2^31 subgrids,
time indices below 2^31, and any number otherwise. Deadlock is not checked where
the client may stop whenever it likes, and where a kernel or a plan ends; it is
checked in `device`, where a routine that has returned stutters in `Done`.

**Symmetry** is over coordinates (`TileGridding.cfg`) and over baselines
(`DegridderBuffer.cfg`). No operator orders coordinates: the cache's order is by
last access. `CHOOSE` over slots or coordinates picks from singletons. The runs
with symmetry check no liveness: that the loops over a job end is stated there
as `CallsProgress`, an invariant (each turn processes at least one subgrid or
applies an event).

**Fairness.** One liveness property is stated, `SplitEnds` of `Planning`: the parallel
loop ends. It rests on weak fairness of that loop's threads taken together, which
wait for nothing; the client is not assumed to go on. That the flush thread, the
streams and the threads of a kernel come to an end is not stated: with fairness it
would follow from their code being finite and their waits being for what was issued
before, whatever the program does. What could stop them is stated as safety:
`BarriersMatch`, and in run `device` the absence of deadlock, which TLC checks.

Every property of a passing run has a mutant: a small change of a mapped
definition, written next to it in its module and marked as such, under which TLC
finds the property violated.

## 4. What the abstractions leave out

* Pixels are counts or symbols. Rounding is out of reach everywhere: two
  polynomials are equal or they are not.
* An FFT is one linear map, marked as a factor, and its transform plan is given.
  A phasor is a symbol with its indices; how it is computed from l, m, n is not
  modelled. A reciprocal or a square root is a factor of its own.
* The 2x2 matrices of polarizations are one value where a kernel treats the four
  alike, and four cells where it does not (transposition in adders and tiles,
  Stokes parameters, a-term products).
* Blocks of one launch that work on different polarizations run as one thread,
  except in `kernel_copy_tiles`, where they share memory.
* A thread runs from barrier to barrier in one step. This is sound exactly if
  `NoRace` holds, which the same run checks.
* `Planning` has one unit for u, v and w in pixels and layers, and no
  floating-point comparison at equality.
* Buffers on a device have no sizes: batches and jobs are constants.
* Non-finite pixels of an image are a given set.

## 5. Proofs

A theorem holds for every value of the constants that satisfies the assumptions
of the modules; what else it assumes of a client or of the data is a
hypothesis of the theorem, and a run or the text below says what happens without it.
Each proof has the same shape: an invariant that is inductive (all of them were
checked with TLC on such instances first), a lemma for the initial states, a
lemma or a step per action, and a last step that combines them.

### The cache and its users

`WTilesProofs` has the lemmas about the cache that its two users share: what each
operation does to the slots (`SlotsPartitioned`: injectivity of the map and
disjointness from the free list are needed together, since retiring moves slots
from one to the other), to the order of the two logs (`LogInOrder`: the events are due
before different subgrids, in order, and none names a tile or a slot twice)
and to the last accesses (`LastActive`).

`TileGriddingProofs` is about the control of plans and jobs.

* `TypeCorrect`, `SlotsStayPartitioned`: without hypotheses.
* `CallsAlwaysProgress`, `AllEventsApplied` and `JobsSkipNothing` (the action property
  `OnlyEmptyBaselinesSkipped`), if `FirstGroupInRange`; run `skipped_baseline` shows why.
  The invariant `ControlInv` says that the offsets of the baselines ascend and are
  those of the subgrids (`BaselinesInv`), that a job is all subgrids of its baselines
  (`JobInv`), and that the events that are left are in order and none is late, i.e.
  before the first subgrid that was not executed (`EventsInv`). It holds although
  the plan that logged the events knew nothing of the jobs. It is not
  inductive without the order of the cache's two logs (`CacheLogsInv`), which
  become the events.

`TileBufferProofs` is about what is in the tiles. The difficulty is that the cache
runs a whole plan ahead of the buffer, so that what is in a tile agrees with the
cache only when all pending events are taken into account.

* `TilesStayUnmixed` and `NothingLost`, if `FirstGroupInRange`. `HeldInv` follows a
  subgrid through the pending log: whatever is in a slot, or is still to be added to
  it, is flushed under its own coordinate by the next event that names the slot, or
  the coordinate is active in that slot and no pending event names it
  (`HeldBy`). `CountInv` says that for each coordinate, what is in the grid, in the
  one tile that holds it, and among the subgrids to come adds up to what was
  planned.
* `GriddingImplementsAccumulation`: `Spec => ImplementsAccumulation`, the refinement of
  `GridAccumulation`, with `CountInv` and one step for each action: a plan
  requests, a projection accumulates, `GetFinalGrid` accumulates what is left and
  delivers, and every other step stutters.
* `DegriddingReadsCurrentGrid` and `BufferAlwaysMatches`, if in addition
  `FreshCacheForGrid`; run `stale_tiles` shows why. `FillInv` follows a slot through the
  log in the other direction, to the last initialization before a subgrid reads it
  (`FilledBy`). An initialization may be extended by tiles that come later than it
  (`WTileUpdateSet` joins them), so the invariant also needs `FreeSince`: no subgrid
  after the last initialization uses a slot that is free now.

`PlanningProofs` is about `Plan::initialize`, for any data.

* `EventsAlwaysOrdered`, `SubgridsInTheirTiles`: no hypotheses. `TilesAssumption`, which
  the module states, says that `Coordinates` has every tile that the grid has.
  `PlanInv` says what each entry of the plan is (`SubgridsInv`: one that the uvws of its
  place give, and in range), where threads are in their data (`CursorInv`), and
  how the list is built (`OffsetsInv`); the geometry is in lemmas on rounding,
  flooring and the largest and smallest element of a set.
* `KernelsInTheirSubgrids`, if the frequencies ascend or descend
  (`FrequenciesInOrder`): the code looks at the first and the last channel of a
  group only.
* `RecentTilesAlwaysStay`, the action property about the LRU. `RecencyInv` relates the
  counter, which outlives the caches, to the history of requests: an active tile's
  last access tells when it was last requested, and of a tile that is not active
  more than `BufferSize - NrRetire` others were requested since.
* `OwnSubgridsKept` and `EachPlannedOnce`, if a row of `metadata_` has a column for every
  timestep of every channel (`ColumnForEveryTimestep`). It has by default, when the
  number of timesteps of a subgrid is not limited (Plan.h:51), and in
  `Planning.cfg`; section 3 says what happens otherwise. The invariant describes each
  thread (`ThreadOf`): how many subgrids it may have stored at its place, that they
  are its own and lie one after the other, and that what it has passed and must
  plan is stored. `ListInv` says that the combined list is just that. Channel
  groups are a recursive function; that there is one for any number of channels,
  and that it is the one the code computes, is proved from the least element of
  a set of naturals (`Least`), in place of induction.

### The buffers

`BufferProofs` has what both share. `LocalTime` is the difference modulo the range of
an int, so that two times in a batch have different slots (`LocalTimeApart`) and
later times later ones (`LocalTimeLater`); the interval of a slot among the
a-terms' offsets is unique, and `set_aterm` keeps the a-terms of earlier slots
(`SetAtermKeeps`). `BufferAssumption` asks that twice the sum of the largest time
index and the batch size is within the range of an int: the comparisons of the
code mean nothing beyond.

`GridderBufferProofs`, for any schedule of the client and the flush threads:

* `TypesAlwaysOK`, `UvwBelongs`, `OnGridOnce`, `AllOnGridOrHeld`: without hypotheses. The
  invariant says that uvw and visibility of a cell were submitted together
  (`Together`); that only the last flush thread may run, with the plan of the back
  buffer as it is (`LastRuns`), which is what joining the thread before the swap is
  for; that a visibility is in one place of the front buffer, the back
  buffer of a thread that runs, and the grid (`Single`, `Whereabouts`); that what is in the
  front buffer is of this pass and in the slot of its time (`FrontInv`), so that a
  write hits no cell in use; and that nothing is missing (`KeptInv`).
* `AtermBelongs`, if `CarefulAterms`; run `aterm_empty_buffer` shows why. `AtermInv` says that
  each buffer's visibilities have the a-term of their submission under the
  buffer's own offsets, and where the last a-term starts (`LastStarts`).
* `BufferImplementsGridding`, if `CarefulAterms`: `Spec => ImplementsGridding`, the refinement of
  `VisibilityGridding`. It takes the invariants of the theorems above together, and two more:
  a visibility is submitted with one a-term (`SubmittedOnce`), and no flush thread runs
  after `finished()` has returned (`FinishedIdle`). A flush thread's gridding is `Grid`, the
  end of `finished()` is `Finish`, where `KeptInv` leaves no other place than the grid,
  a call of the client is `Submit`, and planning does not show. `OnGridOnce`, that nothing
  is gridded twice (`GriddedOnce`), is the part of it that holds for any client.

`DegridderBufferProofs`, for the client of the header:

* `TypesAlwaysOK`, `ReadsItsUvw`, `AllRowsRead`: for any data, with gaps or without.
  `RowsInv` says that the pointer of a row points to the cell with its uvw, which
  `CellFree` shows no other request overwrites; after a refusal the start of the batch has
  moved, and the invariant no longer relates it to the slots.
* `RefusedFitsNext` and `ReadsItsAterm`, if `~TimeGaps`. `GapInv` says that the client's time
  is in the batch or just past it, so that a refused request leaves the start where it
  is, and the flush moves it to that time. Run `degridder_gap` shows that otherwise
  the row does not fit; and with gaps TLC also finds `PredictedWithItsAterm` violated,
  when an a-term is set at the end of a pass for a time without rows.

### The device

`CudaStreamsProofs` proves, for any number of streams and events and every program
that is a sequence of calls which name existing streams (`ProgramsUseStreams`, a
hypothesis of the theorems, which the routines of `DeviceRoutines` satisfy):

* `QueuesWellFormed`: `Spec => []TypeOK`. The inductive invariant, which the other
  theorems build on, adds that each queue is in the order of issue (`IssuedInOrder`).
* `OrderedNeverRace` and `OrderedReturnIdle`: no two operations race on a buffer, and the
  device is idle when the routine returns, if the program orders its calls
  (`ProgramsOrdered`). `StreamOrder` reads this order off the text of a program: a call
  is after those that the host waited for, those of its stream, and the
  latest record of the event it waits for, and after what these are after, in
  chains of up to eight. The invariant is that calls finish in this order
  (`FinishedInOrder`), whatever the pace of the streams. It needs to know which record
  a ticket stands for (`TicketInv`): that the numbers of queued records differ and are
  not reached, and that a wait holds the number of the record that was the latest
  when it was issued.
* `OrderedAsIfInOrder`: what overlaps on the streams and the host does what it would do
  one by one. A buffer that no queued call still writes, and so every buffer when the
  routine has returned, holds what executing the calls in the order of the program
  leaves in it (`AsIfInOrder`). `Course` is that execution, a function of the number of
  calls. The invariant (`ContentInv`) is that a buffer holds what the course gives it
  after the writers that have finished, which are the first of its writers. When a call is
  executed, the calls before it that conflict with it have finished and those after it
  have not (`ConflictsInOrder`), so what it reads is what it would read in order
  (`TouchesInOrder`). This needs the whole order of conflicting calls and not only
  that no two of them are at the heads of their queues at once. It also needs the program
  to work on buffers that have contents (`ProgramsNameBuffers`).

Run `device` checks the hypotheses for each routine (`RoutineOrdered`, on its initial
states) next to the three properties themselves; the average beam with three jobs does
not satisfy them (section 3).

### What stays with TLC

* Liveness (`SplitEnds`): the prover has no rules for
  `ENABLED`, and so none for fairness.
* The kernels: `KernelThreads` unrolls loops and expands polynomials with recursive
  operators, and the modules of kernels are finite instances by nature.
* `Delivered` and `DeliveredWithLeftovers` of `DeviceRoutines`, what particular programs
  leave in their results, and `RoutineOrdered`, which is about the routines as written.
  By `OrderedAsIfInOrder` what TLC adds in the first two is what those programs do when
  they run in order.
* Refinement is proved for the two abstract specifications, `GridAccumulation` and
  `VisibilityGridding`; the other modules have none.

## 6. Not modelled

* The memory list of `Proxy` (`allocate_span`, `free_grid`): sequential bookkeeping.
* Sizes in bytes: `compute_jobsize`, `initialize_jobs`, `plan_tile_fft`, the limits of
  `init_wtiles`; the hazards name what goes wrong at their limits.
* The branches of WTiling.cpp (293-298 and 568-572) for W-tiles with a grid in unified
  memory, as sequences of calls: a constant of Generic.cpp switches them off. Their
  kernels are modelled.
* `find_patches_for_tiles` and `sort_by_patches`, and the choice of sizes in
  `BufferSetImpl::init`: geometry in floating point, without state.
* Several bands on one proxy. Each band's flush thread uses the proxy without a
  lock; every step of `Planning` and `TileGridding` would interleave with
  itself, and nothing in the code orders them.
* `do_gridding` and `apply_aterm` switched off, `compute_avg_beam` in the flush thread,
  autocorrelations and two correlations in the buffers.
* A client of `DegridderBuffer` other than the loop in its header.
* The taper, the FFT libraries, the derivation of phasors, the calibration's
  solver in Python, reports, power measurement, bindings, data generators,
  examples and tests.
