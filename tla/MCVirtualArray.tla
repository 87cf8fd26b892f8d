--------------------------- MODULE MCVirtualArray ---------------------------
(* Five rows, accesses of one or two (and, misused, of three), and three   *)
(* amounts of memory: for two rows, for four (a window that overlaps its   *)
(* old place when it moves back) and for all.  Chunks of three rows end in *)
(* the middle of the window of four.  Fresh memory holds a row that a      *)
(* caller could have written, so that it never gives itself away.          *)
EXTENDS VirtualArray
CONSTANTS zero, a
MCValues == {zero, a}
MCMemory == {0, 4, 5}
MCChunks == {3}
=============================================================================
