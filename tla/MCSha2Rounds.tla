---------------------------- MODULE MCSha2Rounds ----------------------------
(* Inputs around the length that CommonCrypto counts modulo CC_LONG.       *)
EXTENDS Sha2Rounds

MCManyBlocks == 0 .. 5
MCTails == {0, 63}
=============================================================================
