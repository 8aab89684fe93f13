---------------------------- MODULE RandomSource ----------------------------
(***************************************************************************)
(* randombytes over a buffer the caller configures (src/slh_dsa/utils.c).  *)
(*                                                                         *)
(* The four variables are thread-local and the functions run to their end  *)
(* in one thread, so one thread is all there is to model; SignSession has  *)
(* the threads and what they do with the flag.  Here the loop that copies  *)
(* takes one step for each memcpy: it wraps around the buffer, and neither *)
(* the buffer nor the request need fit the other.  A byte is its index in  *)
(* the buffer.                                                             *)
(***************************************************************************)
EXTENDS Integers

CONSTANTS
    Sizes,                            \* of the buffers configured
    OutLens                           \* of the requests

\* What the proofs need of the sizes.
SourceAssumption == Sizes \subseteq Nat /\ OutLens \subseteq Nat

Zero == -1                            \* a byte bitcoin_pqc_secure_zero wrote
Untouched == -2                       \* a byte of the caller's

VARIABLES
    g_random_data,                    \* "NULL" or "buffer"
    g_random_data_size,
    g_random_data_offset,
    g_random_source_failed,
    pc, outlen, position,             \* the call of randombytes that runs
    out,                              \* what the last call wrote
    last,                             \* history: the byte handed out last, or Zero
    first,                            \* history: last when the call began
    missed                            \* history: since the flag was cleared, some byte
                                      \* asked for was not one of the buffer

source == <<g_random_data, g_random_data_size, g_random_data_offset>>
call   == <<pc, outlen, position, out, first>>
vars   == <<source, g_random_source_failed, call, last, missed>>

\* slh_dsa_init_random_source, with any buffer
InitRandomSource ==
    /\ pc = "idle"
    /\ g_random_data' \in {"NULL", "buffer"}
    /\ g_random_data_size' \in Sizes
    /\ g_random_data_offset' = 0
    /\ g_random_source_failed' = FALSE
    /\ last' = Zero
    /\ missed' = FALSE
    /\ UNCHANGED call

\* slh_dsa_restore_original_random leaves the flag as it is.
RestoreOriginalRandom ==
    /\ pc = "idle"
    /\ g_random_data' = "NULL"
    /\ g_random_data_size' = 0
    /\ g_random_data_offset' = 0
    /\ UNCHANGED <<g_random_source_failed, call, last, missed>>

\* slh_dsa_random_source_clear_failure
ClearFailure ==
    /\ pc = "idle"
    /\ g_random_source_failed' = FALSE
    /\ missed' = FALSE
    /\ UNCHANGED <<source, call, last>>

\* slh_dsa_derandomize_unburned without a seed, a key or its message
BadDerandomize ==
    /\ pc = "idle"
    /\ g_random_source_failed' = TRUE
    /\ missed' = TRUE
    /\ UNCHANGED <<source, call, last>>

----------------------------------------------------------------------------
(* custom_slh_randombytes_impl                                             *)

NoSource == g_random_data = "NULL" \/ g_random_data_size = 0

\* outlen is zero: nothing happens, with or without a source.
RandomBytesNone ==
    /\ pc = "idle"
    /\ outlen' = 0 /\ position' = 0
    /\ out' = [i \in {} |-> Untouched]
    /\ first' = last
    /\ UNCHANGED <<pc, source, g_random_source_failed, last, missed>>

\* out is NULL.
RandomBytesNull ==
    /\ pc = "idle"
    /\ g_random_source_failed' = TRUE
    /\ outlen' = 0 /\ position' = 0
    /\ out' = [i \in {} |-> Untouched]
    /\ first' = last
    /\ missed' = TRUE
    /\ UNCHANGED <<pc, source, last>>

\* There is no source: raise the flag and zero the output.
RandomBytesFail(n) ==
    /\ pc = "idle"
    /\ n > 0
    /\ NoSource
    /\ g_random_source_failed' = TRUE
    /\ outlen' = n /\ position' = n
    /\ out' = [i \in 0 .. n - 1 |-> Zero]
    /\ first' = last
    /\ missed' = TRUE
    /\ UNCHANGED <<pc, source, last>>

RandomBytes(n) ==
    /\ pc = "idle"
    /\ n > 0
    /\ ~NoSource
    /\ pc' = "copy"
    /\ outlen' = n /\ position' = 0
    /\ out' = [i \in 0 .. n - 1 |-> Untouched]
    /\ first' = last
    /\ UNCHANGED <<source, g_random_source_failed, last, missed>>

\* Faulty variant: what does not fit the rest of the buffer is left out.
LoopEnds_AtBuffer == position >= outlen \/ g_random_data_offset = 0

LoopEnds == position >= outlen

ToCopy ==
    LET remaining == g_random_data_size - g_random_data_offset
        wanted == outlen - position
    IN  IF wanted > remaining THEN remaining ELSE wanted

\* Faulty variant: the offset stays behind the last byte of the buffer.
Advance_NoWrap(n) == g_random_data_offset + n

\* Faulty variant: each copy starts over from the number of bytes copied.
Advance_Restart(n) == n % g_random_data_size

Advance(n) == (g_random_data_offset + n) % g_random_data_size

\* One round of the loop.
CopyChunk ==
    /\ pc = "copy"
    /\ ~LoopEnds
    /\ out' = [i \in 0 .. outlen - 1 |->
                 IF position <= i /\ i < position + ToCopy
                 THEN g_random_data_offset + (i - position) ELSE out[i]]
    /\ position' = position + ToCopy
    /\ g_random_data_offset' = Advance(ToCopy)
    /\ last' = IF ToCopy > 0 THEN g_random_data_offset + ToCopy - 1 ELSE last
    /\ UNCHANGED <<g_random_data, g_random_data_size, g_random_source_failed,
                   pc, outlen, first, missed>>

ReturnFromCopy ==
    /\ pc = "copy"
    /\ LoopEnds
    /\ pc' = "idle"
    /\ missed' = (missed \/ \E i \in 0 .. outlen - 1 : out[i] \notin 0 .. g_random_data_size - 1)
    /\ UNCHANGED <<source, g_random_source_failed, outlen, position, out, first, last>>

----------------------------------------------------------------------------
Init ==
    /\ g_random_data = "NULL"
    /\ g_random_data_size = 0
    /\ g_random_data_offset = 0
    /\ g_random_source_failed = FALSE
    /\ pc = "idle"
    /\ outlen = 0 /\ position = 0
    /\ out = [i \in {} |-> Untouched]
    /\ last = Zero /\ first = Zero
    /\ missed = FALSE

Next ==
    \/ InitRandomSource \/ RestoreOriginalRandom \/ ClearFailure \/ BadDerandomize
    \/ RandomBytesNone \/ RandomBytesNull
    \/ \E n \in OutLens : RandomBytesFail(n) \/ RandomBytes(n)
    \/ CopyChunk \/ ReturnFromCopy

\* A call that has started goes on; nobody need start another.
Spec == Init /\ [][Next]_vars /\ WF_vars(CopyChunk) /\ WF_vars(ReturnFromCopy)

----------------------------------------------------------------------------
\* The offset is inside the buffer before every memcpy, so a copy never reads
\* beyond it and always has a byte left to take; the output is not exceeded.
TypeOK ==
    /\ g_random_data \in {"NULL", "buffer"}
    /\ g_random_data_size \in Nat
    /\ g_random_data_offset \in Nat
    /\ g_random_data_size > 0 => g_random_data_offset < g_random_data_size
    /\ g_random_source_failed \in BOOLEAN
    /\ pc \in {"idle", "copy"}
    /\ outlen \in Nat
    /\ position \in 0 .. outlen
    /\ out \in [0 .. outlen - 1 -> Int]
    /\ last \in Int /\ first \in Int
    /\ missed \in BOOLEAN

\* The byte of the buffer that follows byte i, around its end.
After(i) == IF i + 1 = g_random_data_size THEN 0 ELSE i + 1

\* What randombytes has written is the configured buffer read round and
\* round: every byte follows the one before it, and the first byte of a call
\* the last byte of the call before.  Nothing is skipped and nothing is handed
\* out twice before the whole buffer was, however the requests and the size of
\* the buffer relate.
StreamIsCyclic ==
    pc = "copy" =>
        \A i \in 0 .. position - 1 :
            out[i] = After(IF i = 0 THEN first ELSE out[i - 1])

\* While the flag is down, every byte asked for since it was cleared was one of
\* the configured buffer; a request that was not filled from it keeps the flag
\* up, also when later requests succeed.  So a caller that clears the flag
\* before its requests and tests it behind them cannot miss one.
FailsClosed == missed => g_random_source_failed

\* A request that has a source is filled: the loop ends, for any size of the
\* buffer and of the request.
ReadReturns == (pc = "copy") ~> (pc = "idle" /\ position = outlen)
=============================================================================
