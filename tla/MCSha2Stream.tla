---------------------------- MODULE MCSha2Stream ----------------------------
(***************************************************************************)
(* The hashing code in two parts that share no state, so that a behaviour  *)
(* is of one of them: the bytes that are absorbed, and the rounds that     *)
(* compress them.                                                          *)
(*                                                                         *)
(* All message lengths over three blocks, keygen entropy over more than a  *)
(* SHA-512 block, and the node counts the scheme uses: one (chains, PRF),  *)
(* two (inner nodes), seven (FORS roots), sixteen (WOTS public key).       *)
(* Every implementation with all its rounds, on no block and on two, with  *)
(* and without bytes behind them.                                          *)
(***************************************************************************)
EXTENDS Sha2Stream

CONSTANTS Backends, Blocks, Tails, CC_LONG

VARIABLES turn, be, inlen, left, b, rpc, r, s, m, saved, rstate

roundsVars == <<be, inlen, left, b, rpc, r, s, m, saved, rstate>>

Rounds == INSTANCE Sha2Rounds WITH pc <- rpc, state <- rstate

ASSUME RoundsSizes == Rounds!RoundsAssumption

MCMessageLengths == 0 .. 200
MCEntropyLengths == 128 .. 511
MCCounters == {0, 1, 255, 256, 65535}
MCThashBlocks == {1, 2, 7, 16}
MCBlocks == {0, 2}
MCTails == {0, 63}

MCInit ==
    /\ turn \in {"stream", "rounds"}
    /\ Init
    /\ Rounds!Init
    /\ turn # "rounds" => be = "ref256"

MCNext ==
    \/ turn = "stream" /\ Next /\ UNCHANGED <<turn, roundsVars>>
    \/ turn = "rounds" /\ Rounds!Next /\ UNCHANGED <<turn, vars>>

MCSpec == MCInit /\ [][MCNext]_<<turn, vars, roundsVars>>

\* After every row of rounds the registers of the portable, x86 and AVX2 code hold
\* the working variables of FIPS 180-4, and the message words the row used were the
\* ones of its rounds, in these and in the ARM code.
WorkingVariables == turn = "rounds" => Rounds!TypeOK /\ Rounds!WorkingVariables

\* A call of any block function but the disabled ARM one hashes exactly the whole
\* blocks of its input, in every lane, and returns the number of bytes behind them,
\* which sha256_inc_finalize and sha512_inc_finalize pad.
BlocksChain == Rounds!BlocksChain
=============================================================================
