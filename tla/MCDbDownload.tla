---------------------------- MODULE MCDbDownload ----------------------------
(* Instances of DbDownload for TLC. *)
EXTENDS DbDownload, TLC

\* Sound for the runs without liveness: nothing tells two threads or two
\* inodes apart.
Interchangeable == Permutations(Threads) \cup Permutations(Inodes)
=============================================================================
