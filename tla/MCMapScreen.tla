----------------------------- MODULE MCMapScreen -----------------------------
(* Positions for the run of MapScreen, over pictures of 4 by 4 pixels.     *)
EXTENDS MapScreen

\* In the middle, in the south-east corner, and west of the map.
AllAround == {<<2, 3>>, <<4, 0>>, <<-2, 1>>}
=============================================================================
