------------------------- MODULE VisibilityGridding -------------------------
(***************************************************************************)
(* What a gridder's buffer promises its client, however it collects the    *)
(* visibilities and whenever it grids them: a visibility that was handed   *)
(* in is put on the grid once, with the a-term it was handed in with, and  *)
(* never without having been handed in; when finished() has returned, all  *)
(* of them are on the grid, which then rests until the client goes on.     *)
(***************************************************************************)
CONSTANT Visibilities

VARIABLES
  accepted,  (* the visibilities handed in                                 *)
  added,     (* what was put on the grid: [visibility, occasion] each time *)
  complete   (* finished() has returned and the client has not gone on     *)

griddingVars == <<accepted, added, complete>>

OnGrid(v) == \E a \in added : a.visibility = v

Init ==
  /\ accepted = {}
  /\ added = {}
  /\ complete = FALSE

(* The client goes on: it hands in visibilities, or none for a while. *)
Submit ==
  /\ accepted \subseteq accepted'
  /\ accepted' \subseteq Visibilities
  /\ complete' = FALSE
  /\ UNCHANGED added

(* Some of what is not on the grid yet is put there. *)
Grid ==
  /\ ~complete
  /\ UNCHANGED <<accepted, complete>>
  /\ added \subseteq added'
  /\ \A a \in added' \ added :
       /\ a.visibility \in accepted /\ ~OnGrid(a.visibility)
       /\ \A b \in added' : b.visibility = a.visibility => b = a

Finish ==
  /\ ~complete
  /\ complete' = TRUE
  /\ UNCHANGED <<accepted, added>>
  /\ \A v \in accepted : OnGrid(v)

Next == Submit \/ Grid \/ Finish

Spec == Init /\ [][Next]_griddingVars
=============================================================================
