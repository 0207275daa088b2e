----------------------------- MODULE MCPlanning -----------------------------
(* Planning with baselines of four timesteps and two channels. *)
EXTENDS Planning

At(u, v, w) == [u |-> u, v |-> v, w |-> w]

(* Turning so fast, across the tiles of the grid's middle, that no two       *)
(* timesteps share a subgrid in either channel; long enough to split the     *)
(* channels and to leave the grid, from a second sample on; crossing the w   *)
(* layers; growing until the second and then the first channel does not fit, *)
(* with a sample missing; with no samples.                                   *)
Turning  == <<At(3, 3, 0), At(-3, 3, 0), At(-3, -3, 0), At(3, -3, 0)>>
Long     == <<Infinite, At(4, 1, 0), At(5, 1, 0), At(-4, 0, 0)>>
Layers   == <<At(1, 2, -1), At(1, 2, 0), At(1, 2, 1), At(1, 2, 2)>>
Growing  == <<At(3, -1, 0), At(4, -1, 0), Infinite, At(5, 0, 0)>>
Empty    == [t \in 1 .. 4 |-> Infinite]

SampleRows == {Turning, Long, Layers, Growing, Empty}
Tiles == (-2 .. 1) \X (-2 .. 1) \X (-1 .. 0)
TwoChannels == <<2, 3>>
Offsets == <<0, 1, 1, 4>>
=============================================================================
