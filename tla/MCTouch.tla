------------------------------- MODULE MCTouch -------------------------------
(* Values of Touch's constants that are no numerals.                         *)
EXTENDS Touch

\* Three places on the view, and the one outside that reads as "none yet".
Line == -1 .. 2

Smallest == -1
=============================================================================
