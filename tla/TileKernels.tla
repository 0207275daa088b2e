----------------------------- MODULE TileKernels ----------------------------
(***************************************************************************)
(* The W-tiling kernels: subgrids to and from W-tiles, and W-tiles to and  *)
(* from the grid, if it is in unified memory, or patches of it.            *)
(* A call has, besides the fields of SubgridKernels,                       *)
(*    tile_size   wtile_size                                               *)
(*    tiles       of each tile: id, coordinate x, y, w, and padded, its    *)
(*                size in pixels with the padding for its W                *)
(* and a place also has the tile it is in: its id and coordinate tx, ty.   *)
(* Moving a tile to another W is one linear map of its pixels, from plane  *)
(* to plane: the backward FFT, kernel_apply_phasor and the forward FFT.    *)
(***************************************************************************)
EXTENDS SubgridKernels

Tile(id, pol, p) == <<"tiles", id, pol, p.y, p.x>>
TileBuffer(k, pol, p) == <<"tile_buffers", k, pol, p.y, p.x>>
Plane(k, pol) == <<"plane", k, pol>>
WTerm(tile, size, sign, p) == <<"w_term", tile.w, size, sign, p.y, p.x>>
Padded(c) == c.tile_size + c.size
TileList(c) == [k \in DOMAIN c.tiles |-> k]

(* Where a subgrid is in its tile: tile_top and tile_left. *)
InTile(c, place) ==
    LET first(t) == t * c.tile_size - (c.size \div 2) + (c.grid_size \div 2)
    IN  [y |-> place.y - first(place.ty), x |-> place.x - first(place.tx)]
SubgridToTile(c, s, p) ==
    For(Polarizations, LAMBDA pol :
        LET i == p.y * c.size + p.x
        IN  <<AddTo(Tile(c.places[s].tile, pol, Shift(InTile(c, c.places[s]), p)),
                    {<<ShiftPhasor(i), Pixel(s, pol, Shifted(c, i))>>})>>)
SubgridFromTile(c, s, p) ==
    For(Polarizations, LAMBDA pol :
        LET i == p.y * c.size + p.x
        IN  <<Assign(Pixel(s, pol, Shifted(c, i)),
                     {<<ShiftPhasor(i),
                        Tile(c.places[s].tile, pol, Shift(InTile(c, c.places[s]), p))>>})>>)
SubgridsToWtiles(c, t) ==
    For(Subgrids(c), LAMBDA s :
        For(OwnPixels(c, t, InTile(c, c.places[s]).y), LAMBDA p : SubgridToTile(c, s, p)))
SubgridsFromWtiles(c, t) ==
    For(Subgrids(c), LAMBDA s :
        For(OwnPixels(c, t, InTile(c, c.places[s]).y), LAMBDA p : SubgridFromTile(c, s, p)))
(* CUDA: a block per subgrid, and the additions are atomic. *)
CudaSubgridsToWtiles(c, s, t) ==
    For(Share(c, t, NrPixels(c)), LAMBDA i :
        LET adds == SubgridToTile(c, s, At(c.size, i))
        IN  [k \in DOMAIN adds |-> [adds[k] EXCEPT !.do = "atomicAdd"]])
CudaSubgridsFromWtiles(c, s, t) ==
    For(Share(c, t, NrPixels(c)), LAMBDA i : SubgridFromTile(c, s, At(c.size, i)))

(* Copying a tile into a larger or out of a smaller one: centred, and with the
   polarizations transposed. *)
Centred(from, to, i) ==
    LET size == Min({from, to})
        p == At(size, i)
        add(q, padding) == [y |-> q.y + padding, x |-> q.x + padding]
    IN  [src |-> IF to < from THEN add(p, (from - to) \div 2) ELSE p,
         dst |-> IF to > from THEN add(p, (to - from) \div 2) ELSE p]
CopyTile(from, to) ==
    For(Polarizations, LAMBDA pol : For(Square(Min({from, to})), LAMBDA i :
        <<[pol |-> pol, dstPol |-> Transposed(pol)] @@ Centred(from, to, i)>>))
CopyToBuffer(c, k, size, tile) ==
    LET copies == CopyTile(Padded(c), size)
    IN  For(copies, LAMBDA v : <<Assign(TileBuffer(k, v.dstPol, v.dst),
                                        {<<Tile(tile.id, v.pol, v.src)>>})>>)
CopyFromBuffer(c, k, size, tile) ==
    LET copies == CopyTile(size, Padded(c))
    IN  For(copies, LAMBDA v : <<Assign(Tile(tile.id, v.dstPol, v.dst),
                                        {<<TileBuffer(k, v.pol, v.src)>>})>>)
ResetTile(c, id) ==
    For(Polarizations, LAMBDA pol : For(Square(Padded(c)), LAMBDA i :
        <<Assign(Tile(id, pol, At(Padded(c), i)), Zero)>>))
ResetBuffer(k, size) ==
    For(Polarizations, LAMBDA pol : For(Square(size), LAMBDA i :
        <<Assign(TileBuffer(k, pol, At(size, i)), Zero)>>))
MoveW(k, size, tile, sign) ==
    For(Polarizations, LAMBDA pol :
        <<Assign(Plane(k, pol), {<<TileBuffer(k, pol, p)>> :
                                 p \in {At(size, i) : i \in 0 .. size * size - 1}})>>
        \o For(Square(size), LAMBDA i :
               <<Assign(TileBuffer(k, pol, At(size, i)),
                        {<<Plane(k, pol), WTerm(tile, size, sign, At(size, i))>>})>>))

(* Where a tile is in the grid, and the part of it that is in the grid. *)
TilePosition(c, tile, size) ==
    LET z(t) == t * c.tile_size - ((size - c.tile_size) \div 2) + (c.grid_size \div 2)
    IN  [y |-> z(tile.y), x |-> z(tile.x)]
Between(p, first, end) ==
    /\ first.y <= p.y /\ p.y < end.y
    /\ first.x <= p.x /\ p.x < end.x
Corner(n) == [y |-> n, x |-> n]
InsideGrid(c, tile, size) ==
    SelectSeq(Square(size), LAMBDA i :
        Between(Shift(TilePosition(c, tile, size), At(size, i)), Corner(0), Corner(c.grid_size)))
(* Iterations of a parallel loop, dealt out to the threads. *)
Dealt(c, t, indices) ==
    LET mine == Share(c, t, Len(indices))
    IN  [k \in DOMAIN mine |-> indices[mine[k] + 1]]

(* The CPU processes as many tiles at a time as there are threads. *)
Batches(c) == Steps(1, Len(c.tiles) + 1, c.threads)
Batch(c, first) == Steps(first, Min({first + c.threads, Len(c.tiles) + 1}), 1)
BatchSize(c, first) == Max({c.tiles[k].padded : k \in ToSet(Batch(c, first))})

WtilesToGrid(c, t) ==
    For(Batches(c), LAMBDA first :
        LET size == BatchSize(c, first)
            k == first + t
            add(n) == For(Dealt(c, t, InsideGrid(c, c.tiles[n], size)), LAMBDA i :
                For(Polarizations, LAMBDA pol :
                    <<AddTo(Grid(0, pol, Shift(TilePosition(c, c.tiles[n], size), At(size, i))),
                            {<<TileBuffer(n - first, pol, At(size, i))>>})>>))
        IN  (IF k \in ToSet(Batch(c, first))
             THEN ResetBuffer(t, size) \o CopyToBuffer(c, t, size, c.tiles[k])
                  \o ResetTile(c, c.tiles[k].id) \o MoveW(t, size, c.tiles[k], -1)
             ELSE <<>>)
            \o <<Barrier>>
            \o For(Batch(c, first), LAMBDA n : add(n) \o <<Barrier>>))

WtilesFromGrid(c, t) ==
    For(Batches(c), LAMBDA first :
        LET size == BatchSize(c, first)
            k == first + t
            load == For(InsideGrid(c, c.tiles[k], size), LAMBDA i :
                For(Polarizations, LAMBDA pol :
                    <<Assign(TileBuffer(t, pol, At(size, i)),
                             {<<Grid(0, pol, Shift(TilePosition(c, c.tiles[k], size),
                                                   At(size, i)))>>})>>))
            mine == k \in ToSet(Batch(c, first))
        IN  (IF mine THEN ResetBuffer(t, size) \o load ELSE <<>>) \o <<Barrier>>
            \o (IF mine THEN MoveW(t, size, c.tiles[k], 1)
                             \o CopyFromBuffer(c, t, size, c.tiles[k]) ELSE <<>>)
            \o <<Barrier>>)

(* kernel_copy_tiles: a block per tile and polarization, whose threads are in
   step here, as a whole block is one thread of the call. *)
CudaCopyTiles(c, pol, k) ==
    LET tile == c.tiles[k]
        src(q, p) == Tile(tile.id, q, p)
        zero == For(Square(c.padded), LAMBDA i :
                    <<Assign(TileBuffer(k, pol, At(c.padded, i)), Zero)>>)
    IN  (IF c.padded > Padded(c) THEN zero ELSE <<>>)
        \o For(Square(Min({Padded(c), c.padded})), LAMBDA i :
               LET at == Centred(Padded(c), c.padded, i)
               IN  <<Assign(TileBuffer(k, Transposed(pol), at.dst), {<<src(pol, at.src)>>}),
                     Assign(src(pol, at.src), Zero)>>)
(* kernel_apply_phasor *)
CudaApplyPhasor(c, pol, k, t) ==
    For(Share(c, t, c.padded * c.padded), LAMBDA i :
        LET cell == TileBuffer(k, pol, At(c.padded, i))
        IN  <<Assign(cell, {<<cell, WTerm(c.tiles[k], c.padded, c.sign, At(c.padded, i))>>})>>)

(* kernel_wtiles_to_grid and _from_grid, for a grid in unified memory.  The start
   is clamped to 0, the end is not, and the loop is over the whole padded tile
   from there: with a tile over the edge of the grid they leave the tile's buffer
   or the grid. *)
Clamped(p) == [y |-> Max({0, p.y}), x |-> Max({0, p.x})]
InBuffer(position, p) == [y |-> p.y - position.y, x |-> p.x - position.x]
CudaTilePixels(c, pol, k, t) ==
    LET position == TilePosition(c, c.tiles[k], c.padded)
    IN  For(Share(c, t, c.padded * c.padded), LAMBDA i :
            LET p == Shift(Clamped(position), At(c.padded, i))
            IN  <<[grid |-> Grid(0, pol, p), buffer |-> TileBuffer(k, pol, InBuffer(position, p))]>>)
CudaWtilesToGrid(c, pol, k, t) ==
    For(CudaTilePixels(c, pol, k, t), LAMBDA v : <<AtomicAdd(v.grid, {<<v.buffer>>})>>)
CudaWtilesFromGrid(c, pol, k, t) ==
    For(CudaTilePixels(c, pol, k, t), LAMBDA v : <<Assign(v.buffer, {<<v.grid>>})>>)

(* kernel_wtiles_to_patch and _from_patch: a block per polarization and row of
   the patch.  The row is unsigned, so a negative height does not stop it. *)
Patch(pol, p) == <<"patch", pol, p.y, p.x>>
CudaPatchPixels(c, pol, row, t) ==
    For(TileList(c), LAMBDA k :
        LET position == TilePosition(c, c.tiles[k], c.padded)
            first == [y |-> Max({position.y, c.patch.y}), x |-> Max({position.x, c.patch.x})]
            end(z, z0) == Min({z + c.padded, z0 + c.patch_size})
            height == end(position.y, c.patch.y) - first.y
            width == end(position.x, c.patch.x) - first.x
            p(x) == [y |-> first.y + row, x |-> first.x + x]
            in_tile == height < 0 \/ row < height
            in_patch == first.y + row - c.patch.y < c.patch_size
        IN  IF in_tile /\ in_patch /\ width > 0
            THEN For(Share(c, t, width), LAMBDA x :
                     <<[patch |-> Patch(pol, InBuffer(c.patch, p(x))),
                        buffer |-> TileBuffer(k, pol, InBuffer(position, p(x)))]>>)
            ELSE <<>>)
CudaWtilesToPatch(c, pol, row, t) ==
    For(CudaPatchPixels(c, pol, row, t), LAMBDA v : <<AtomicAdd(v.patch, {<<v.buffer>>})>>)
CudaWtilesFromPatch(c, pol, row, t) ==
    For(CudaPatchPixels(c, pol, row, t), LAMBDA v : <<Assign(v.buffer, {<<v.patch>>})>>)

-----------------------------------------------------------------------------
(* What they should leave: a subgrid's pixel at its place in the grid is the
   pixel of the tile that covers that place; a tile's pixel goes to the grid
   if it is in it. *)
PlacedInTile(c, s, i) ==
    LET place == c.places[s]
        origin == TilePosition(c, [y |-> place.ty, x |-> place.tx], Padded(c))
    IN  InBuffer(origin, Shift(place, At(c.size, i)))
PlacedPixels(c) ==
    {[s |-> s, pol |-> pol, i |-> i] :
     s \in DOMAIN c.places, pol \in 0 .. 3, i \in 0 .. NrPixels(c) - 1}
TileOf(c, k) == Tile(c.places[k.s].tile, k.pol, PlacedInTile(c, k.s, k.i))
ToWtilesResults(c) ==
    [cell \in {TileOf(c, k) : k \in PlacedPixels(c)} |->
        {<<cell>>} \cup {<<ShiftPhasor(k.i), Pixel(k.s, k.pol, Shifted(c, k.i))>> :
                         k \in {k \in PlacedPixels(c) : TileOf(c, k) = cell}}]
FromWtilesResults(c) ==
    LET pixel(k) == Pixel(k.s, k.pol, Shifted(c, k.i))
    IN  [cell \in {pixel(k) : k \in PlacedPixels(c)} |->
            LET k == CHOOSE k \in PlacedPixels(c) : pixel(k) = cell
            IN  {<<ShiftPhasor(k.i), TileOf(c, k)>>}]

Positions(size) == {At(size, i) : i \in 0 .. size * size - 1}
SizeOf(c, k) == BatchSize(c, Max({first \in ToSet(Batches(c)) : first <= k}))
InGrid(c, k) ==
    {Shift(TilePosition(c, c.tiles[k], SizeOf(c, k)), p) : p \in Positions(SizeOf(c, k))}
    \cap Positions(c.grid_size)
TileInBuffer(c, k, p) ==
    WTerm(c.tiles[k], SizeOf(c, k), -1,
          InBuffer(TilePosition(c, c.tiles[k], SizeOf(c, k)), p))
WtilesToGridResults(c) ==
    LET grid == {Grid(0, pol, p) : pol \in 0 .. 3, p \in UNION {InGrid(c, k) : k \in DOMAIN c.tiles}}
        position(cell) == [y |-> cell[4], x |-> cell[5]]
        terms(cell, k) == {<<Tile(c.tiles[k].id, Transposed(cell[3]), q),
                             TileInBuffer(c, k, position(cell))>> : q \in Positions(Padded(c))}
        tiles == {Tile(c.tiles[k].id, pol, q) :
                  k \in DOMAIN c.tiles, pol \in 0 .. 3, q \in Positions(Padded(c))}
    IN  [cell \in grid |->
            {<<cell>>} \cup UNION {terms(cell, k) :
                k \in {k \in DOMAIN c.tiles : position(cell) \in InGrid(c, k)}}]
        @@ [cell \in tiles |-> Zero]
WtilesFromGridResults(c) ==
    LET size(k) == SizeOf(c, k)
        margin(k) == (size(k) - Padded(c)) \div 2
        value(k, pol, q) ==
            {<<Grid(0, Transposed(pol), p),
               WTerm(c.tiles[k], size(k), 1, Shift(q, Corner(margin(k))))>> : p \in InGrid(c, k)}
        tiles == {[k |-> k, pol |-> pol, q |-> q] :
                  k \in DOMAIN c.tiles, pol \in 0 .. 3, q \in Positions(Padded(c))}
        cellOf(v) == Tile(c.tiles[v.k].id, v.pol, v.q)
    IN  [cell \in {cellOf(v) : v \in tiles} |->
            LET v == CHOOSE v \in tiles : cellOf(v) = cell IN value(v.k, v.pol, v.q)]

(* The copy of a tile that kernel_copy_tiles makes, and the cleared original. *)
CopyTilesResults(c) ==
    LET shift == (c.padded - Padded(c)) \div 2
        inner(p) == InBuffer(Corner(shift), p)
        buffers == {TileBuffer(k, pol, p) : k \in DOMAIN c.tiles, pol \in 0 .. 3,
                                            p \in Positions(c.padded)}
        copied(k) == {q \in Positions(Padded(c)) : Shift(q, Corner(shift)) \in Positions(c.padded)}
    IN  [cell \in buffers |->
            LET q == inner([y |-> cell[4], x |-> cell[5]])
            IN  IF q \in Positions(Padded(c))
                THEN {<<Tile(c.tiles[cell[2]].id, Transposed(cell[3]), q)>>} ELSE Zero]
        @@ [cell \in {Tile(c.tiles[k].id, pol, q) :
                      k \in DOMAIN c.tiles, pol \in 0 .. 3, q \in copied(1)} |-> Zero]
ApplyPhasorResults(c) ==
    [cell \in {TileBuffer(k, pol, p) : k \in DOMAIN c.tiles, pol \in 0 .. 3,
                                       p \in Positions(c.padded)} |->
        {<<cell, WTerm(c.tiles[cell[2]], c.padded, c.sign, [y |-> cell[4], x |-> cell[5]])>>}]

(* Tiles and patches cover each other where their positions agree. *)
Covered(c, k, area) ==
    LET position == TilePosition(c, c.tiles[k], c.padded)
    IN  {p \in area : InBuffer(position, p) \in Positions(c.padded)}
BufferAt(c, k, pol, p) ==
    TileBuffer(k, pol, InBuffer(TilePosition(c, c.tiles[k], c.padded), p))
CoverResults(c, area, cell(_, _)) ==
    LET pairs == {[k |-> k, pol |-> pol, p |-> p] :
                  k \in DOMAIN c.tiles, pol \in 0 .. 3, p \in area}
        hits == {v \in pairs : v.p \in Covered(c, v.k, area)}
    IN  [to \in {cell(v.pol, v.p) : v \in hits} |->
            {<<to>>} \cup {<<BufferAt(c, v.k, v.pol, v.p)>> :
                           v \in {v \in hits : cell(v.pol, v.p) = to}}]
UncoverResults(c, area, cell(_, _)) ==
    LET hits == UNION {{[k |-> k, pol |-> pol, p |-> p] : pol \in 0 .. 3, p \in Covered(c, k, area)} :
                       k \in DOMAIN c.tiles}
        buffer(v) == BufferAt(c, v.k, v.pol, v.p)
    IN  [to \in {buffer(v) : v \in hits} |->
            LET v == CHOOSE v \in hits : buffer(v) = to IN {<<cell(v.pol, v.p)>>}]
GridArea(c) == Positions(c.grid_size)
PatchArea(c) == {Shift(c.patch, p) : p \in Positions(c.patch_size)}
PatchCell(c, pol, p) == Patch(pol, InBuffer(c.patch, p))
=============================================================================
