----------------------------- MODULE MCNodePool -----------------------------
(* An instance of NodePool for TLC: two nodes, two videos of two files.     *)
EXTENDS NodePool

CONSTANTS n1, n2

MCNodes == {n1, n2}
MCVideos == {1, 2}
=============================================================================
