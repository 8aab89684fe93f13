----------------------------- MODULE MCTreeHash -----------------------------
(***************************************************************************)
(* Trees of three to five levels: only top levels for treehashx8, one      *)
(* level below them, and two; each FORS tree from the first to the third.  *)
(***************************************************************************)
EXTENDS TreeHash

MCHeights == 3 .. 5
MCForsTrees == 0 .. 2
=============================================================================
