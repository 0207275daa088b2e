-------------------------- MODULE GridAccumulation --------------------------
(***************************************************************************)
(* What a proxy promises a client that grids, whatever it caches: every    *)
(* subgrid it accepted is added to the grid once, at its own coordinate,   *)
(* in any order and at any time, and all of them are there when the final  *)
(* grid is delivered.                                                      *)
(***************************************************************************)
EXTENDS Naturals

CONSTANT Coordinates

VARIABLES
  requested,  (* subgrids accepted for this grid, per coordinate            *)
  grid,       (* subgrids added: where they were added -> their coordinate  *)
  delivered   (* the final grid was delivered and nothing was accepted since *)

accumulationVars == <<requested, grid, delivered>>

Zero == [c \in Coordinates |-> 0]

Complete == [d \in Coordinates |-> [Zero EXCEPT ![d] = requested[d]]]

Init ==
  /\ requested = Zero
  /\ grid = [d \in Coordinates |-> Zero]
  /\ delivered = FALSE

NewGrid ==
  /\ requested' = Zero
  /\ grid' = [d \in Coordinates |-> Zero]
  /\ delivered' = FALSE

Request(c) ==
  /\ ~delivered
  /\ requested' = [requested EXCEPT ![c] = @ + 1]
  /\ UNCHANGED <<grid, delivered>>

(* Some of what was requested reaches the grid, and stays there. *)
Accumulate ==
  /\ ~delivered
  /\ \A d, c \in Coordinates :
       IF d = c THEN grid[c][c] <= grid'[c][c] /\ grid'[c][c] <= requested[c]
                ELSE grid'[d][c] = grid[d][c]
  /\ UNCHANGED <<requested, delivered>>

Deliver ==
  /\ ~delivered
  /\ grid' = Complete
  /\ delivered' = TRUE
  /\ UNCHANGED requested

(* The client goes on with the delivered grid. *)
Resume ==
  /\ delivered
  /\ delivered' = FALSE
  /\ UNCHANGED <<requested, grid>>

Next ==
  \/ NewGrid
  \/ \E c \in Coordinates : Request(c)
  \/ Accumulate
  \/ Deliver
  \/ Resume

Spec == Init /\ [][Next]_accumulationVars
=============================================================================
