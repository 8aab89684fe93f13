---------------------------- MODULE HiddenState ----------------------------
(***************************************************************************)
(* What the library keeps between two calls and no caller can see: the     *)
(* choice of the SHA-2 code, shared by all threads, and the random source  *)
(* of each thread.  The two share no state, so a behaviour is of one or of *)
(* the other.                                                              *)
(***************************************************************************)
EXTENDS Sha2Dispatch

CONSTANTS Sizes, OutLens

VARIABLES
    turn,
    g_random_data, g_random_data_size, g_random_data_offset, g_random_source_failed,
    rpc, outlen, position, out, last, first, missed

randomVars == <<g_random_data, g_random_data_size, g_random_data_offset,
                g_random_source_failed, rpc, outlen, position, out, last, first, missed>>

Random == INSTANCE RandomSource WITH pc <- rpc

\* The build is of no interest to the random source: any one will do.
HiddenInit ==
    /\ turn \in {"dispatch", "random"}
    /\ Init
    /\ Random!Init
    /\ turn = "random" =>
         /\ build.x86 = {} /\ ~build.production /\ ~build.knobs /\ ~build.arm /\ ~build.apple
         /\ ~env.off /\ env.backend = "other"

HiddenNext ==
    \/ turn = "dispatch" /\ Next /\ UNCHANGED <<turn, randomVars>>
    \/ turn = "random" /\ Random!Next /\ UNCHANGED <<turn, vars>>

hiddenVars == <<turn, vars, randomVars>>

\* A request for random bytes that has started goes on; nobody need start
\* another, and no thread need hash.
HiddenSpec ==
    /\ HiddenInit /\ [][HiddenNext]_hiddenVars
    /\ WF_hiddenVars(turn = "random" /\ Random!CopyChunk /\ UNCHANGED <<turn, vars>>)
    /\ WF_hiddenVars(turn = "random" /\ Random!ReturnFromCopy /\ UNCHANGED <<turn, vars>>)

----------------------------------------------------------------------------
\* The caches hold what their readers understand (Sha2Dispatch); the offset of
\* the random source is inside its buffer before every memcpy, so a copy never
\* reads beyond it and always has a byte left to take, and the output is not
\* exceeded (RandomSource).
HiddenTypeOK == TypeOK /\ Random!TypeOK

\* randombytes hands the configured buffer out in a circle, across copies and
\* across calls: nothing is skipped and nothing is handed out twice before the
\* whole buffer was.
StreamIsCyclic == Random!StreamIsCyclic

\* While the flag is down, every byte asked for since it was cleared was one of
\* the configured buffer; a caller that clears it before its requests and tests
\* it behind them cannot miss one that was not filled.
FailsClosed == Random!FailsClosed

\* A request that has a source is filled: the loop of randombytes ends, for any
\* size of the buffer and of the request.
ReadReturns == Random!ReadReturns
=============================================================================
