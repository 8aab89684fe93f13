------------------------------ MODULE MCKeyHeap ------------------------------
(***************************************************************************)
(* One C thread and one Rust thread over five blocks, and the stacks of a  *)
(* calling thread and two FORS workers for every choice of inlined         *)
(* functions.                                                              *)
(*                                                                         *)
(* The deepest frames below a wrapper are those of key generation, seven   *)
(* slots from keygen_impl (with derive_keygen_seed_v1 inlined into it) to  *)
(* compress; BURN is just as many, as the real burn is sized to the        *)
(* measured depth of the calls.                                            *)
(***************************************************************************)
EXTENDS LibraryMemory, TLC

CONSTANTS b1, b2, b3, b4, b5, cthread, rthread

ASSUME StackSizes == Stack!StackAssumption

MCBlocks == {b1, b2, b3, b4, b5}
MCCThreads == {cthread}
MCRustThreads == {rthread}

\* Blocks differ in nothing but their names.
BlockSymmetry == Permutations(MCBlocks)
=============================================================================
