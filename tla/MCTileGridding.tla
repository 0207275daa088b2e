--------------------------- MODULE MCTileGridding ---------------------------
(* TileGridding with model values for the tile coordinates. *)
EXTENDS TileGridding, TLC

CONSTANTS c1, c2, c3, c4

(* No coordinate is special: the cache only compares them for equality. *)
CoordinateSymmetry == Permutations(Coordinates)
=============================================================================
