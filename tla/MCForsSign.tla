----------------------------- MODULE MCForsSign -----------------------------
(***************************************************************************)
(* The seven trees of the profile, every request from none to past the     *)
(* 32-bit cut (here 9).                                                    *)
(***************************************************************************)
EXTENDS ForsSign

MCRequests == 0 .. 11
=============================================================================
