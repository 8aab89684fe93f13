---------------------------- MODULE SignSession ----------------------------
(***************************************************************************)
(* Signing and verifying with SLH-DSA-SHA2-128s-bounded30, as threads of   *)
(* one process do it at the same time.                                     *)
(*                                                                         *)
(* The library takes no lock.  What keeps two calls apart is that          *)
(* everything a call parks outside its own frame is thread-local: the      *)
(* random source (src/slh_dsa/utils.c: g_random_data and                   *)
(* g_random_source_failed) and the statistics pointer                      *)
(* (sphincsplus/ref/sign_stats.c: g_sign_stats).  The statistics pointer   *)
(* is also a switch: wotsc_compress_message_checked searches only up to    *)
(* the signing cap while it is set, and the whole two-byte counter range   *)
(* when it is not.  The signer and the verifier run the same search and    *)
(* must land on the same counter.                                          *)
(*                                                                         *)
(* Each thread runs one call at a time, one step of the code per action:   *)
(*   bitcoin_pqc_sign / bitcoin_pqc_sign_with_stats      op "pqc_sign"     *)
(*   slh_dsa_sign / slh_dsa_sign_with_stats              op "slh_sign"     *)
(*   bitcoin_pqc_verify                                  op "pqc_verify"   *)
(*   crypto_sign, crypto_sign_keypair (the upstream entry points that ask  *)
(*   randombytes for bytes nobody configured)     op "crypto_sign",        *)
(*                                                   "crypto_keypair"      *)
(*   slh_dsa_derandomize with a NULL argument            BadDerandomize    *)
(*                                                                         *)
(* Hashes are uninterpreted.  A salt R, an instance path (the FORS         *)
(* instance and hypertree leaves a digest selects), a subtree root and a   *)
(* region of the signature are terms; ForscZero and WotscHit are arbitrary *)
(* oracles that say which digests meet the FORS+C and WOTS+C conditions.   *)
(***************************************************************************)
EXTENDS Integers

CONSTANTS
    Threads,                          \* the threads of the process
    Keys,                             \* secret keys of the right size
    ValidKeys,                        \* those whose root matches SK_SEED and PUB_SEED
    Messages,
    SPX_D,                            \* hypertree layers
    FORSC_MAX_GRIND_ATTEMPTS,         \* BITCOINPQC_FORSC_MAX_GRIND_ATTEMPTS
    WOTSC_MAX_COUNTER,                \* BITCOINPQC_WOTSC_MAX_COUNTER, the signing cap
    WOTSC_COUNTER_LIMIT,              \* 0xFFFF, the two-byte counter range
    CTR_MODULUS,                      \* 2^32, the width of the salt counter
    ForscZero(_),                     \* is the compressed FORS index of a path 0?
    WotscHit(_, _),                   \* does (root, counter) meet SPX_WOTSC_TARGET?
    Offers,                           \* what callers pass to bitcoin_pqc_verify
    DefectSets,                       \* the argument defects callers combine
    NULL, Zero, Stale, Garbage        \* no pointer; wiped, old and wrong bytes

ASSUME CapAssumption ==
    /\ SPX_D \in Nat \ {0}
    /\ FORSC_MAX_GRIND_ATTEMPTS \in Nat \ {0}
    /\ CTR_MODULUS \in Nat
    /\ FORSC_MAX_GRIND_ATTEMPTS < CTR_MODULUS
    /\ WOTSC_MAX_COUNTER \in Nat
    /\ WOTSC_COUNTER_LIMIT \in Nat
    /\ WOTSC_MAX_COUNTER <= WOTSC_COUNTER_LIMIT

ASSUME KeyAssumption == ValidKeys \subseteq Keys

----------------------------------------------------------------------------
(* Terms: the values the code computes, up to the hash functions.          *)

Layers  == 0 .. SPX_D - 1
Regions == 0 .. SPX_D + 1             \* R, the FORS signature, one per layer
SPX_BYTES == 3680

\* deterministic_seed: a digest of the secret key and the message.
Seeds == [key : Keys, msg : Messages]
Seed(k, m) == [key |-> k, msg |-> m]

\* gen_message_random: R depends on SK_PRF, optrand and the message; the
\* grinding loop xors ctr into its first four bytes.
Salts == [key : Keys, msg : Messages, opt : Seeds, ctr : Nat]
Salt(k, m, opt, c) == [key |-> k, msg |-> m, opt |-> opt, ctr |-> c]

\* hash_message: R, the public key and the message select the FORS instance
\* and the hypertree leaves above it.  The 16 bytes at the front of a buffer
\* are a salt or any other bytes.
Randomizers == Salts \cup {Zero, Stale, Garbage}
Paths == [r : Randomizers, pk : Keys, msg : Messages]
Path(r, k, m) == [r |-> r, pk |-> k, msg |-> m]

\* The node signed at layer i of a path: the FORS public key (i = 0), the
\* root of the subtree below (0 < i < SPX_D), the top root (i = SPX_D).
Roots == [path : Paths, layer : 0 .. SPX_D] \cup {Garbage}
Root(p, i) == [path |-> p, layer |-> i]

\* A layer of the signature: WOTS chains cut at the lengths the counter
\* gives, with the authentication path of the leaf.
LayerSigs == [root : Roots, counter : 0 .. WOTSC_COUNTER_LIMIT]
LayerSig(rt, c) == [root |-> rt, counter |-> c]

Contents == Salts \cup Paths \cup LayerSigs \cup {Zero, Stale, Garbage}
Buffers == [Regions -> Contents]
Filled(x) == [j \in Regions |-> x]

\* Wrong bytes are not the node they stand in for.
ASSUME TermAssumption == Garbage \notin [path : Paths, layer : 0 .. SPX_D]

\* A verifier is handed a buffer of the right length: R, then the other regions.
ASSUME OfferAssumption ==
    \A o \in Offers : /\ o.key \in Keys /\ o.msg \in Messages
                      /\ o.sig \in Buffers /\ o.sig[0] \in Randomizers

----------------------------------------------------------------------------
(* bitcoin_pqc_sign_stats_t                                                *)

Slots == {"caller", "scratch"}
StatsPtrs == [owner : Threads, slot : Slots]
Ptr(t, s) == [owner |-> t, slot |-> s]

ASSUME NullAssumption == NULL \notin Threads \cup StatsPtrs

LimitBits == {"FORSC", "WOTSC"}
StatsRecords ==
    [forsc_attempts : Nat, forsc_max_attempts : Nat,
     wotsc_attempts : [Layers -> Nat], wotsc_layer_count : Nat,
     wotsc_max_attempts : Nat, wotsc_max_observed_attempts : Nat,
     cap_exceeded : SUBSET LimitBits]

\* bitcoin_pqc_sign_stats_begin: memset, then the caps in force.
FreshStats ==
    [forsc_attempts |-> 0, forsc_max_attempts |-> FORSC_MAX_GRIND_ATTEMPTS,
     wotsc_attempts |-> [i \in Layers |-> 0], wotsc_layer_count |-> 0,
     wotsc_max_attempts |-> WOTSC_MAX_COUNTER + 1,
     wotsc_max_observed_attempts |-> 0, cap_exceeded |-> {}]

\* What a caller's struct may hold before the call: another run's leftovers.
StaleStats ==
    [forsc_attempts |-> FORSC_MAX_GRIND_ATTEMPTS, forsc_max_attempts |-> 0,
     wotsc_attempts |-> [i \in Layers |-> WOTSC_COUNTER_LIMIT],
     wotsc_layer_count |-> SPX_D + 1, wotsc_max_attempts |-> 0,
     wotsc_max_observed_attempts |-> 0, cap_exceeded |-> LimitBits]

WithForscAttempts(s, n) == [s EXCEPT !.forsc_attempts = n]
WithCap(s, bit) == [s EXCEPT !.cap_exceeded = @ \cup {bit}]

\* Faulty variant: the layer is not counted, so the next layer overwrites it.
WithWotscAttempts_Uncounted(s, n) ==
    [s EXCEPT !.wotsc_attempts = [@ EXCEPT ![s.wotsc_layer_count] = n],
              !.wotsc_max_observed_attempts = IF n > @ THEN n ELSE @]

\* bitcoin_pqc_sign_stats_record_wotsc_attempts, with its guard on the array.
WithWotscAttempts(s, n) ==
    [s EXCEPT !.wotsc_attempts =
                  IF s.wotsc_layer_count \in Layers
                  THEN [@ EXCEPT ![s.wotsc_layer_count] = n] ELSE @,
              !.wotsc_layer_count = @ + 1,
              !.wotsc_max_observed_attempts = IF n > @ THEN n ELSE @]
----------------------------------------------------------------------------
VARIABLES
    pc,                               \* where each thread is
    args,                             \* the call it is serving, NULL if none
    g_random_data,                    \* TLS: whose seed buffer randombytes reads
    g_random_source_failed,           \* TLS: the fail-closed flag
    g_sign_stats,                     \* TLS: the statistics being recorded
    seed,                             \* deterministic_seed (or seed) in the frame
    stats,                            \* the caller's struct and scratch_stats
    sig, siglen,                      \* the signature buffer and its length
    ctr, attempts,                    \* the grinding loop
    layer, root,                      \* the layer loop
    counter, max_counter,             \* the WOTS+C search
    result,                           \* what the inner function returned
    published                         \* does signature->signature own the buffer?

tls   == <<g_random_data, g_random_source_failed, g_sign_stats>>
grind == <<ctr, attempts>>
chain == <<layer, root, counter, max_counter>>
vars  == <<pc, args, tls, seed, stats, sig, siglen, grind, chain, result,
           published>>

SignOps == {"pqc_sign", "slh_sign"}
Ops == SignOps \cup {"pqc_verify", "crypto_sign", "crypto_keypair"}
Defects == {"null_key", "null_sig", "null_siglen", "null_msg", "nonempty_out",
            "key_size", "sig_size"}
Calls == [op : Ops, key : Keys, msg : Messages, stats : BOOLEAN,
          bad : SUBSET Defects]
Results == {"OK", "FAIL", "LIMIT", "BAD_ARG", "BAD_KEY", "BAD_SIGNATURE",
            "OUT_OF_MEMORY"}

ASSUME DefectAssumption == DefectSets \subseteq SUBSET Defects

\* Which arguments each entry point takes, hence what can be wrong with them.
DefectsOf(op) ==
    CASE op = "pqc_sign"   -> {"null_key", "null_sig", "null_msg",
                               "nonempty_out", "key_size"}
      [] op = "slh_sign"   -> {"null_key", "null_sig", "null_siglen", "null_msg"}
      [] op = "pqc_verify" -> {"null_key", "null_sig", "null_msg", "key_size",
                               "sig_size"}
      [] OTHER             -> {}

\* The copy of the three _Thread_local globals that thread t reads and writes.
Tls(t) == t

Op(t) == args[t].op
Key(t) == args[t].key
Msg(t) == args[t].msg
Has(t, defects) == args[t].bad \cap defects # {}

Goto(t, l) == pc' = [pc EXCEPT ![t] = l]
Return(t, r) == /\ result' = [result EXCEPT ![t] = r]
                /\ Goto(t, "ret")

\* Faulty variant: only the length is reset.
WipeSignature_LengthOnly(t) ==
    /\ sig' = sig
    /\ siglen' = IF Has(t, {"null_siglen"}) THEN siglen
                 ELSE [siglen EXCEPT ![t] = 0]

\* bitcoin_pqc_secure_zero(sig, CRYPTO_BYTES); *siglen = 0; for what is not NULL.
WipeSignature(t) ==
    /\ sig' = IF Has(t, {"null_sig"}) THEN sig
              ELSE [sig EXCEPT ![t] = Filled(Zero)]
    /\ siglen' = IF Has(t, {"null_siglen"}) THEN siglen
                 ELSE [siglen EXCEPT ![t] = 0]

\* The path the salt in thread t's signature buffer selects.
PathOf(t) == Path(sig[t][0], Key(t), Msg(t))

\* The record_* functions write through g_sign_stats, if it is set.
Record(t, F(_)) ==
    LET p == g_sign_stats[Tls(t)]
    IN  stats' = IF p = NULL THEN stats
                 ELSE [stats EXCEPT ![p.owner][p.slot] = F(@)]

----------------------------------------------------------------------------
(* Calls and returns.                                                      *)

Idle(t) == pc[t] = "idle"

\* A signing call: a fresh or stale buffer and statistics struct of the
\* caller's, whatever the thread-local variables hold from earlier calls.
CallSign(t) ==
    /\ Idle(t)
    /\ \E op \in SignOps, k \in Keys, m \in Messages, s \in BOOLEAN, d \in DefectSets :
         /\ d \subseteq DefectsOf(op)
         /\ args' = [args EXCEPT ![t] =
                        [op |-> op, key |-> k, msg |-> m, stats |-> s, bad |-> d]]
         /\ siglen' = [siglen EXCEPT ![t] = IF op = "slh_sign" THEN Stale ELSE 0]
         /\ Goto(t, IF op = "slh_sign" THEN "slh_check" ELSE "pqc_check")
         /\ UNCHANGED <<tls, seed, stats, sig, grind, chain, result, published>>

\* A verification call: any signature, public key and message on offer.
CallVerify(t) ==
    /\ Idle(t)
    /\ \E o \in Offers, d \in DefectSets :
         /\ d \subseteq DefectsOf("pqc_verify")
         /\ args' = [args EXCEPT ![t] =
                        [op |-> "pqc_verify", key |-> o.key, msg |-> o.msg,
                         stats |-> FALSE, bad |-> d]]
         /\ sig' = [sig EXCEPT ![t] = o.sig]
         /\ siglen' = [siglen EXCEPT ![t] = SPX_BYTES]
         /\ Goto(t, "pqc_check")
         /\ UNCHANGED <<tls, seed, stats, grind, chain, result, published>>

\* crypto_sign and crypto_sign_keypair called with no random source set up.
CallUpstream(t) ==
    /\ Idle(t)
    /\ \E op \in {"crypto_sign", "crypto_keypair"}, k \in ValidKeys, m \in Messages :
         /\ args' = [args EXCEPT ![t] =
                        [op |-> op, key |-> k, msg |-> m, stats |-> FALSE,
                         bad |-> {}]]
         /\ siglen' = [siglen EXCEPT ![t] = Stale]
         /\ Goto(t, IF op = "crypto_sign" THEN "optrand" ELSE "kp_random")
         /\ UNCHANGED <<tls, seed, stats, sig, grind, chain, result, published>>

\* slh_dsa_derandomize_unburned with a NULL argument only raises the flag,
\* which stays up after the call.
BadDerandomize(t) ==
    /\ Idle(t)
    /\ g_random_source_failed' = [g_random_source_failed EXCEPT ![Tls(t)] = TRUE]
    /\ UNCHANGED <<pc, args, g_random_data, g_sign_stats, seed, stats, sig,
                   siglen, grind, chain, result, published>>

\* The caller reads its outputs and frees the signature
\* (bitcoin_pqc_signature_free); the frame is gone.
Collect(t) ==
    /\ pc[t] = "ret"
    /\ args' = [args EXCEPT ![t] = NULL]
    /\ seed' = [seed EXCEPT ![t] = Stale]
    /\ stats' = [stats EXCEPT ![t] = [s \in Slots |-> StaleStats]]
    /\ sig' = [sig EXCEPT ![t] = Filled(Stale)]
    /\ siglen' = [siglen EXCEPT ![t] = 0]
    /\ ctr' = [ctr EXCEPT ![t] = 0]
    /\ attempts' = [attempts EXCEPT ![t] = 0]
    /\ layer' = [layer EXCEPT ![t] = 0]
    /\ root' = [root EXCEPT ![t] = Garbage]
    /\ counter' = [counter EXCEPT ![t] = 0]
    /\ max_counter' = [max_counter EXCEPT ![t] = 0]
    /\ result' = [result EXCEPT ![t] = "OK"]
    /\ published' = [published EXCEPT ![t] = FALSE]
    /\ Goto(t, "idle")
    /\ UNCHANGED tls

----------------------------------------------------------------------------
(* bitcoin_pqc_sign_impl, before it calls slh_dsa_sign_with_stats.         *)

\* The argument checks and the allocation, in the order the code has them.
SignImplCheck(t) ==
    /\ pc[t] = "pqc_check"
    /\ Op(t) = "pqc_sign"
    /\ \/ /\ Has(t, {"null_key", "null_sig", "null_msg", "nonempty_out"})
          /\ Return(t, "BAD_ARG")
       \/ /\ ~Has(t, {"null_key", "null_sig", "null_msg", "nonempty_out"})
          /\ Has(t, {"key_size"})
          /\ Return(t, "BAD_KEY")
       \/ /\ args[t].bad = {}
          /\ \/ Return(t, "OUT_OF_MEMORY")
             \/ Goto(t, "slh_check") /\ UNCHANGED result
    /\ UNCHANGED <<args, tls, seed, stats, sig, siglen, grind, chain, published>>

----------------------------------------------------------------------------
(* slh_dsa_sign_with_stats_impl                                            *)

\* Arguments, then the secret key: both failures leave a wiped output.
SlhCheck(t) ==
    /\ pc[t] = "slh_check"
    /\ LET bad_args == args[t].bad # {}
           bad_key  == ~bad_args /\ Key(t) \notin ValidKeys
       IN  IF bad_args \/ bad_key
           THEN /\ WipeSignature(t)
                /\ result' = [result EXCEPT ![t] = IF bad_key THEN "BAD_KEY" ELSE "FAIL"]
                /\ Goto(t, "slh_ret")
           ELSE /\ Goto(t, "derandomize")
                /\ UNCHANGED <<sig, siglen, result>>
    /\ UNCHANGED <<args, tls, seed, stats, grind, chain, published>>

\* Faulty variant: the flag of an earlier failure is not cleared.
Derandomize_StaleFlag(t) ==
    /\ pc[t] = "derandomize"
    /\ seed' = [seed EXCEPT ![t] = Seed(Key(t), Msg(t))]
    /\ Goto(t, "rnd_init")
    /\ UNCHANGED <<args, tls, stats, sig, siglen, grind, chain, result, published>>

\* Clear the flag, then derive the seed from the secret key and the message.
Derandomize(t) ==
    /\ pc[t] = "derandomize"
    /\ g_random_source_failed' = [g_random_source_failed EXCEPT ![Tls(t)] = FALSE]
    /\ seed' = [seed EXCEPT ![t] = Seed(Key(t), Msg(t))]
    /\ Goto(t, "rnd_init")
    /\ UNCHANGED <<args, g_random_data, g_sign_stats, stats, sig, siglen, grind,
                   chain, result, published>>

\* Give up if the flag is up; otherwise point randombytes at the seed.
InitRandomSource(t) ==
    /\ pc[t] = "rnd_init"
    /\ IF g_random_source_failed[Tls(t)]
       THEN /\ WipeSignature(t)
            /\ seed' = [seed EXCEPT ![t] = Zero]
            /\ result' = [result EXCEPT ![t] = "FAIL"]
            /\ Goto(t, "slh_ret")
            /\ UNCHANGED <<g_random_data, g_random_source_failed>>
       ELSE /\ g_random_data' = [g_random_data EXCEPT ![Tls(t)] = t]
            /\ g_random_source_failed' =
                   [g_random_source_failed EXCEPT ![Tls(t)] = FALSE]
            /\ Goto(t, "stats_begin")
            /\ UNCHANGED <<seed, sig, siglen, result>>
    /\ UNCHANGED <<args, g_sign_stats, stats, grind, chain, published>>

\* bitcoin_pqc_sign_stats_begin(active_stats)
StatsBegin(t) ==
    /\ pc[t] = "stats_begin"
    /\ LET slot == IF args[t].stats THEN "caller" ELSE "scratch"
       IN  /\ stats' = [stats EXCEPT ![t][slot] = FreshStats]
           /\ g_sign_stats' = [g_sign_stats EXCEPT ![Tls(t)] = Ptr(t, slot)]
    /\ Goto(t, "optrand")
    /\ UNCHANGED <<args, g_random_data, g_random_source_failed, seed, sig, siglen,
                   grind, chain, result, published>>

\* Faulty variant: the random source is left set.
Detach_SourceKept(t) ==
    /\ g_sign_stats' = [g_sign_stats EXCEPT ![Tls(t)] = NULL]
    /\ UNCHANGED g_random_data

\* bitcoin_pqc_sign_stats_end and slh_dsa_restore_original_random
Detach(t) ==
    /\ g_sign_stats' = [g_sign_stats EXCEPT ![Tls(t)] = NULL]
    /\ g_random_data' = [g_random_data EXCEPT ![Tls(t)] = NULL]

\* After crypto_sign_signature: read the flag, detach the thread-local
\* variables, wipe the seed, and wipe the output of a failed call.
SlhClose(t) ==
    /\ pc[t] = "slh_close"
    /\ LET r == IF g_random_source_failed[Tls(t)] THEN "FAIL" ELSE result[t]
       IN  /\ result' = [result EXCEPT ![t] = r]
           /\ IF r = "OK" THEN UNCHANGED <<sig, siglen>> ELSE WipeSignature(t)
    /\ Detach(t)
    /\ seed' = [seed EXCEPT ![t] = Zero]
    /\ Goto(t, "slh_ret")
    /\ UNCHANGED <<args, g_random_source_failed, stats, grind, chain, published>>

\* Back in the caller: slh_dsa_sign returns; bitcoin_pqc_sign_impl wipes and
\* frees a failed buffer, or goes on to verify what it has signed.
SlhReturn(t) ==
    /\ pc[t] = "slh_ret"
    /\ IF Op(t) = "pqc_sign"
       THEN IF result[t] = "OK" /\ siglen[t] = SPX_BYTES
            THEN Goto(t, "v_hash") /\ UNCHANGED <<sig, result>>
            ELSE /\ sig' = [sig EXCEPT ![t] = Filled(Zero)]
                 /\ Return(t, IF result[t] \in {"LIMIT", "BAD_KEY"} THEN result[t]
                              ELSE "BAD_SIGNATURE")
       ELSE Goto(t, "ret") /\ UNCHANGED <<sig, result>>
    /\ UNCHANGED <<args, tls, seed, stats, siglen, grind, chain, published>>

----------------------------------------------------------------------------
(* crypto_sign_signature                                                   *)

\* Where crypto_sign_signature returns to, and how it fails.
SignatureCaller(t) == IF Op(t) = "crypto_sign" THEN "ref_close" ELSE "slh_close"
SignatureFails(t, r) ==
    /\ siglen' = [siglen EXCEPT ![t] = 0]
    /\ result' = [result EXCEPT ![t] = r]
    /\ Goto(t, SignatureCaller(t))

\* Clear the flag, draw optrand, and fail closed if there is no source;
\* otherwise R is derived from SK_PRF, optrand and the message.
DrawOptrand(t) ==
    /\ pc[t] = "optrand"
    /\ LET src == g_random_data[Tls(t)]
       IN  /\ g_random_source_failed' =
                  [g_random_source_failed EXCEPT ![Tls(t)] = (src = NULL)]
           /\ IF src = NULL
              THEN /\ SignatureFails(t, "FAIL")
                   /\ UNCHANGED <<sig, grind>>
              ELSE /\ sig' = [sig EXCEPT ![t][0] = Salt(Key(t), Msg(t), seed[src], 0)]
                   /\ ctr' = [ctr EXCEPT ![t] = 0]
                   /\ attempts' = [attempts EXCEPT ![t] = 0]
                   /\ Goto(t, "grind")
                   /\ UNCHANGED <<siglen, result>>
    /\ UNCHANGED <<args, g_random_data, g_sign_stats, seed, stats, chain, published>>

\* Faulty variant: the tweak never reaches the salt.
Tweak_Lost(r, c) == r

\* R is r_base with ctr xored into its first four bytes.
Tweak(r, c) == [r EXCEPT !.ctr = c]

\* One turn of the FORS+C loop: hash with the current salt, then stop on a
\* hit, at the cap, or when the 32-bit tweak has gone round.
Grind(t) ==
    /\ pc[t] = "grind"
    /\ LET n == attempts[t] + 1
           c == (ctr[t] + 1) % CTR_MODULUS
           Counted(s) == WithForscAttempts(s, n)
           Capped(s)  == WithCap(WithForscAttempts(s, n), "FORSC")
       IN  /\ attempts' = [attempts EXCEPT ![t] = n]
           /\ \/ /\ ForscZero(PathOf(t))
                 /\ Record(t, Counted)
                 /\ Goto(t, "fors")
                 /\ UNCHANGED <<sig, siglen, ctr, result>>
              \/ /\ ~ForscZero(PathOf(t))
                 /\ n >= FORSC_MAX_GRIND_ATTEMPTS
                 /\ Record(t, Capped)
                 /\ SignatureFails(t, "LIMIT")
                 /\ UNCHANGED <<sig, ctr>>
              \/ /\ ~ForscZero(PathOf(t))
                 /\ n < FORSC_MAX_GRIND_ATTEMPTS
                 /\ ctr' = [ctr EXCEPT ![t] = c]
                 /\ IF c = 0
                    THEN SignatureFails(t, "FAIL") /\ UNCHANGED sig
                    ELSE /\ sig' = [sig EXCEPT ![t][0] = Tweak(@, c)]
                         /\ UNCHANGED <<pc, siglen, result>>
                 /\ UNCHANGED stats
    /\ UNCHANGED <<args, tls, seed, chain, published>>

\* fors_sign writes the FORS signature; root becomes the FORS public key.
\* (ForsSign.tla has its worker threads.)
SignFors(t) ==
    /\ pc[t] = "fors"
    /\ sig' = [sig EXCEPT ![t][1] = PathOf(t)]
    /\ root' = [root EXCEPT ![t] = Root(PathOf(t), 0)]
    /\ layer' = [layer EXCEPT ![t] = 0]
    /\ Goto(t, "s_open")
    /\ UNCHANGED <<args, tls, seed, stats, siglen, grind, counter, max_counter,
                   result, published>>

\* Faulty variant: the signing cap binds the verifier too.
SearchLimit_Capped(t) == WOTSC_MAX_COUNTER

\* wotsc_compress_message_checked picks the range from g_sign_stats, whoever
\* called it: merkle_sign ("s_open") or wots_pk_from_sig ("v_open").
SearchLimit(t) ==
    IF g_sign_stats[Tls(t)] # NULL THEN WOTSC_MAX_COUNTER ELSE WOTSC_COUNTER_LIMIT

SearchOpen(t) ==
    /\ pc[t] \in {"s_open", "v_open"}
    /\ counter' = [counter EXCEPT ![t] = 0]
    /\ max_counter' = [max_counter EXCEPT ![t] = SearchLimit(t)]
    /\ Goto(t, IF pc[t] = "s_open" THEN "s_try" ELSE "v_try")
    /\ UNCHANGED <<args, tls, seed, stats, sig, siglen, grind, layer, root, result,
                   published>>

\* Faulty variant: a counter too narrow for the range.
NextCounter_Narrow(c) == (c + 1) % 2

NextCounter(c) == c + 1

\* Faulty variant: one turn too many.
SearchDone_Late(t) == counter[t] > max_counter[t]

SearchDone(t) == counter[t] = max_counter[t]

\* One turn of wotsc_compress_message_checked_bounded.
SearchTry(t) ==
    /\ pc[t] \in {"s_try", "v_try"}
    /\ LET n == counter[t] + 1
           Counted(s) == WithWotscAttempts(s, n)
           Capped(s)  == WithCap(WithWotscAttempts(s, n), "WOTSC")
       IN  \/ /\ WotscHit(root[t], counter[t])
              /\ Record(t, Counted)
              /\ Goto(t, IF pc[t] = "s_try" THEN "s_layer" ELSE "v_layer")
              /\ UNCHANGED <<counter, siglen, result>>
           \/ /\ ~WotscHit(root[t], counter[t])
              /\ SearchDone(t)
              /\ Record(t, Capped)
              /\ IF pc[t] = "s_try"
                 THEN SignatureFails(t, "LIMIT")
                 ELSE /\ result' = [result EXCEPT ![t] = "FAIL"]
                      /\ Goto(t, "v_ret")
                      /\ UNCHANGED siglen
              /\ UNCHANGED counter
           \/ /\ ~WotscHit(root[t], counter[t])
              /\ ~SearchDone(t)
              /\ counter' = [counter EXCEPT ![t] = NextCounter(@)]
              /\ UNCHANGED <<pc, stats, siglen, result>>
    /\ UNCHANGED <<args, tls, seed, sig, grind, layer, root, max_counter, published>>

\* The rest of merkle_sign, and the turn of the layer loop around it.
MerkleSign(t) ==
    /\ pc[t] = "s_layer"
    /\ sig' = [sig EXCEPT ![t][layer[t] + 2] = LayerSig(root[t], counter[t])]
    /\ root' = [root EXCEPT ![t] = Root(PathOf(t), layer[t] + 1)]
    /\ layer' = [layer EXCEPT ![t] = @ + 1]
    /\ IF layer[t] + 1 < SPX_D
       THEN Goto(t, "s_open") /\ UNCHANGED <<siglen, result>>
       ELSE /\ siglen' = [siglen EXCEPT ![t] = SPX_BYTES]
            /\ result' = [result EXCEPT ![t] = "OK"]
            /\ Goto(t, SignatureCaller(t))
    /\ UNCHANGED <<args, tls, seed, stats, grind, counter, max_counter, published>>

----------------------------------------------------------------------------
(* crypto_sign and crypto_sign_keypair                                     *)

\* crypto_sign: a failed crypto_sign_signature leaves zeros and length 0.
UpstreamClose(t) ==
    /\ pc[t] = "ref_close"
    /\ IF result[t] = "OK" THEN UNCHANGED <<sig, siglen>> ELSE WipeSignature(t)
    /\ Goto(t, "ret")
    /\ UNCHANGED <<args, tls, seed, stats, grind, chain, result, published>>

\* crypto_sign_keypair clears the flag and calls randombytes.
KeypairRandom(t) ==
    /\ pc[t] = "kp_random"
    /\ LET src == g_random_data[Tls(t)]
       IN  /\ g_random_source_failed' =
                  [g_random_source_failed EXCEPT ![Tls(t)] = (src = NULL)]
           /\ seed' = [seed EXCEPT ![t] = IF src = NULL THEN Zero ELSE seed[src]]
    /\ Goto(t, "kp_check")
    /\ UNCHANGED <<args, g_random_data, g_sign_stats, stats, sig, siglen, grind,
                   chain, result, published>>

\* Faulty variant: the flag is not consulted.
KeypairCheck_Unchecked(t) ==
    /\ pc[t] = "kp_check"
    /\ seed' = [seed EXCEPT ![t] = Zero]
    /\ Return(t, "OK")
    /\ UNCHANGED <<args, tls, stats, sig, siglen, grind, chain, published>>

\* It makes a key of the bytes only if the flag stayed down.
KeypairCheck(t) ==
    /\ pc[t] = "kp_check"
    /\ seed' = [seed EXCEPT ![t] = Zero]
    /\ Return(t, IF g_random_source_failed[Tls(t)] THEN "FAIL" ELSE "OK")
    /\ UNCHANGED <<args, tls, stats, sig, siglen, grind, chain, published>>

----------------------------------------------------------------------------
(* bitcoin_pqc_verify and crypto_sign_verify                               *)

VerifyCheck(t) ==
    /\ pc[t] = "pqc_check"
    /\ Op(t) = "pqc_verify"
    /\ \/ /\ Has(t, {"null_key", "null_sig", "null_msg"})
          /\ Return(t, "BAD_ARG")
       \/ /\ ~Has(t, {"null_key", "null_sig", "null_msg"})
          /\ Has(t, {"key_size", "sig_size"})
          /\ Return(t, IF Has(t, {"key_size"}) THEN "BAD_KEY" ELSE "BAD_SIGNATURE")
       \/ /\ args[t].bad = {}
          /\ Goto(t, "v_hash")
          /\ UNCHANGED result
    /\ UNCHANGED <<args, tls, seed, stats, sig, siglen, grind, chain, published>>

\* The length, the digest, the FORS+C condition and fors_pk_from_sig.
VerifyHash(t) ==
    /\ pc[t] = "v_hash"
    /\ IF siglen[t] # SPX_BYTES \/ ~ForscZero(PathOf(t))
       THEN /\ result' = [result EXCEPT ![t] = "FAIL"]
            /\ Goto(t, "v_ret")
            /\ UNCHANGED <<layer, root>>
       ELSE /\ root' = [root EXCEPT ![t] = IF sig[t][1] = PathOf(t)
                                          THEN Root(PathOf(t), 0) ELSE Garbage]
            /\ layer' = [layer EXCEPT ![t] = 0]
            /\ Goto(t, "v_open")
            /\ UNCHANGED result
    /\ UNCHANGED <<args, tls, seed, stats, sig, siglen, grind, counter, max_counter,
                   published>>

\* The rest of wots_pk_from_sig and compute_root: the next root comes out
\* right only if the chains were cut at the lengths this search found.
\* After the last layer it is compared with the root in the public key.
VerifyLayer(t) ==
    /\ pc[t] = "v_layer"
    /\ LET i    == layer[t]
           good == root[t] # Garbage /\ sig[t][i + 2] = LayerSig(root[t], counter[t])
       IN  /\ root' = [root EXCEPT ![t] = IF good THEN Root(PathOf(t), i + 1)
                                         ELSE Garbage]
           /\ layer' = [layer EXCEPT ![t] = i + 1]
           /\ IF i + 1 < SPX_D
              THEN Goto(t, "v_open") /\ UNCHANGED result
              ELSE /\ result' = [result EXCEPT ![t] =
                                   IF good /\ Key(t) \in ValidKeys THEN "OK" ELSE "FAIL"]
                   /\ Goto(t, "v_ret")
    /\ UNCHANGED <<args, tls, seed, stats, sig, siglen, grind, counter, max_counter,
                   published>>

\* bitcoin_pqc_verify returns; bitcoin_pqc_sign_impl publishes the buffer, or
\* wipes and frees it if its own verification rejects it.
VerifyReturn(t) ==
    /\ pc[t] = "v_ret"
    /\ LET ok == result[t] = "OK"
       IN  /\ published' = [published EXCEPT ![t] = ok /\ Op(t) = "pqc_sign"]
           /\ sig' = IF ~ok /\ Op(t) = "pqc_sign"
                     THEN [sig EXCEPT ![t] = Filled(Zero)] ELSE sig
           /\ Return(t, IF ok THEN "OK" ELSE "BAD_SIGNATURE")
    /\ UNCHANGED <<args, tls, seed, stats, siglen, grind, chain>>

----------------------------------------------------------------------------
PCs == {"idle", "pqc_check", "slh_check", "derandomize", "rnd_init",
        "stats_begin", "optrand", "grind", "fors", "s_open", "s_try", "s_layer",
        "slh_close", "slh_ret", "ref_close", "kp_random", "kp_check", "v_hash",
        "v_open", "v_try", "v_layer", "v_ret", "ret"}

Init ==
    /\ pc = [t \in Threads |-> "idle"]
    /\ args = [t \in Threads |-> NULL]
    /\ g_random_data = [t \in Threads |-> NULL]
    /\ g_random_source_failed = [t \in Threads |-> FALSE]
    /\ g_sign_stats = [t \in Threads |-> NULL]
    /\ seed = [t \in Threads |-> Stale]
    /\ stats = [t \in Threads |-> [s \in Slots |-> StaleStats]]
    /\ sig = [t \in Threads |-> Filled(Stale)]
    /\ siglen = [t \in Threads |-> 0]
    /\ ctr = [t \in Threads |-> 0]
    /\ attempts = [t \in Threads |-> 0]
    /\ layer = [t \in Threads |-> 0]
    /\ root = [t \in Threads |-> Garbage]
    /\ counter = [t \in Threads |-> 0]
    /\ max_counter = [t \in Threads |-> 0]
    /\ result = [t \in Threads |-> "OK"]
    /\ published = [t \in Threads |-> FALSE]

\* What the library does inside a call, up to its return.
Step(t) ==
    \/ SignImplCheck(t) \/ SlhCheck(t) \/ Derandomize(t) \/ InitRandomSource(t)
    \/ StatsBegin(t) \/ DrawOptrand(t) \/ Grind(t) \/ SignFors(t) \/ SearchOpen(t)
    \/ SearchTry(t) \/ MerkleSign(t) \/ SlhClose(t) \/ SlhReturn(t)
    \/ UpstreamClose(t) \/ KeypairRandom(t) \/ KeypairCheck(t)
    \/ VerifyCheck(t) \/ VerifyHash(t) \/ VerifyLayer(t) \/ VerifyReturn(t)

\* What its caller does.
Caller(t) ==
    CallSign(t) \/ CallVerify(t) \/ CallUpstream(t) \/ BadDerandomize(t) \/ Collect(t)

Next == \E t \in Threads : Step(t) \/ Caller(t)

Spec == Init /\ [][Next]_vars

\* No call waits for anything: a thread inside the library is always able to
\* take its next step, and the scheduler runs every runnable thread.
FairSpec == Spec /\ \A t \in Threads : WF_vars(Step(t))

----------------------------------------------------------------------------
(* What the caps allow, without the loops.                                 *)

\* The path of the n-th salt that signing m under k tries.
SaltedPath(k, m, n) == Path(Salt(k, m, Seed(k, m), n), k, m)

FirstSalt(k, m, n) ==
    /\ ForscZero(SaltedPath(k, m, n))
    /\ \A j \in 0 .. n - 1 : ~ForscZero(SaltedPath(k, m, j))

FirstCounter(rt, c) ==
    /\ WotscHit(rt, c)
    /\ \A j \in 0 .. c - 1 : ~WotscHit(rt, j)

\* b carries, on path p, at every layer the least counter that meets the
\* target, and none is above max.
SignsPath(b, p, max) ==
    /\ b[0] = p.r
    /\ b[1] = p
    /\ \A i \in Layers : \E c \in 0 .. max :
          /\ FirstCounter(Root(p, i), c)
          /\ b[i + 2] = LayerSig(Root(p, i), c)

\* b is the one signature of m under k that the signing caps allow.
ReferenceSignature(b, k, m) ==
    \E n \in 0 .. FORSC_MAX_GRIND_ATTEMPTS - 1 :
        FirstSalt(k, m, n) /\ SignsPath(b, SaltedPath(k, m, n), WOTSC_MAX_COUNTER)

\* The caps allow a signature of m under k.
Signable(k, m) ==
    \E n \in 0 .. FORSC_MAX_GRIND_ATTEMPTS - 1 :
        /\ FirstSalt(k, m, n)
        /\ \A i \in Layers : \E c \in 0 .. WOTSC_MAX_COUNTER :
              FirstCounter(Root(SaltedPath(k, m, n), i), c)

\* b is a signature of m under the public key k, whatever caps its signer had.
Genuine(b, k, m) ==
    LET p == Path(b[0], k, m)
    IN  k \in ValidKeys /\ ForscZero(p) /\ SignsPath(b, p, WOTSC_COUNTER_LIMIT)

----------------------------------------------------------------------------
(* Properties                                                              *)

\* Every variable holds a value of its kind: in particular a layer index,
\* a counter and a statistics entry never leave the range they are stored in.
TypeOK ==
    /\ pc \in [Threads -> PCs]
    /\ args \in [Threads -> Calls \cup {NULL}]
    /\ g_random_data \in [Threads -> Threads \cup {NULL}]
    /\ g_random_source_failed \in [Threads -> BOOLEAN]
    /\ g_sign_stats \in [Threads -> StatsPtrs \cup {NULL}]
    /\ seed \in [Threads -> Seeds \cup {Zero, Stale}]
    /\ stats \in [Threads -> [Slots -> StatsRecords]]
    /\ sig \in [Threads -> Buffers]
    /\ siglen \in [Threads -> {0, SPX_BYTES, Stale}]
    /\ ctr \in [Threads -> 0 .. CTR_MODULUS - 1]
    /\ attempts \in [Threads -> 0 .. FORSC_MAX_GRIND_ATTEMPTS]
    /\ layer \in [Threads -> 0 .. SPX_D]
    /\ root \in [Threads -> Roots]
    /\ counter \in [Threads -> 0 .. WOTSC_COUNTER_LIMIT]
    /\ max_counter \in [Threads -> 0 .. WOTSC_COUNTER_LIMIT]
    /\ result \in [Threads -> Results]
    /\ published \in [Threads -> BOOLEAN]

\* A thread-local pointer never outlives what it points at: the seed on the
\* stack of slh_dsa_sign_with_stats_impl and the statistics it records.
SigningFrame == {"stats_begin", "optrand", "grind", "fors", "s_open", "s_try",
                 "s_layer", "slh_close"}
NoDanglingTls ==
    \A u \in Threads :
        /\ g_random_data[u] # NULL => pc[g_random_data[u]] \in SigningFrame
        /\ g_sign_stats[u] # NULL =>
              pc[g_sign_stats[u].owner] \in SigningFrame \ {"stats_begin"}

\* Every salt of the grinding loop is new: the 32-bit tweak and the attempt
\* counter stay in step, so the wrap-around exit of the loop is never taken.
SaltsDistinct ==
    \A t \in Threads :
        pc[t] = "grind" => /\ attempts[t] = ctr[t]
                           /\ sig[t][0].ctr = ctr[t]

\* A completed signing call with sound arguments and a valid key returns the
\* one signature the caps allow, or the limit error exactly when they allow
\* none (or, for bitcoin_pqc_sign, out of memory): never -1, and never
\* BAD_SIGNATURE from its own verification, whatever the other threads and
\* the calls before it did.
Sound(t) == pc[t] = "ret" /\ args[t].bad = {}
SignMatchesReference ==
    \A t \in Threads :
        Sound(t) /\ Op(t) \in SignOps /\ Key(t) \in ValidKeys =>
            \/ /\ result[t] = "OK"
               /\ ReferenceSignature(sig[t], Key(t), Msg(t))
               /\ siglen[t] = SPX_BYTES
               /\ published[t] = (Op(t) = "pqc_sign")
            \/ result[t] = "LIMIT" /\ ~Signable(Key(t), Msg(t))
            \/ result[t] = "OUT_OF_MEMORY" /\ Op(t) = "pqc_sign"

\* bitcoin_pqc_verify accepts exactly the genuine signatures, also those a
\* signer with a higher cap made, also while other threads sign.
VerifyMatchesReference ==
    \A t \in Threads :
        Sound(t) /\ Op(t) = "pqc_verify" =>
            result[t] = IF Genuine(sig[t], Key(t), Msg(t)) THEN "OK" ELSE "BAD_SIGNATURE"

\* A failed call leaves no byte of a partial signature, no length and no
\* seed: slh_dsa_sign and crypto_sign wipe what the caller passed,
\* bitcoin_pqc_sign wipes what it allocated and publishes nothing.
FailureLeavesNothing ==
    \A t \in Threads :
        pc[t] = "ret" /\ result[t] # "OK" /\ Op(t) # "pqc_verify" =>
            /\ seed[t] \in {Zero, Stale}
            /\ ~published[t]
            /\ sig[t] \in {Filled(Zero), Filled(Stale)}
            /\ Op(t) \in {"slh_sign", "crypto_sign"} =>
                  /\ "null_sig" \in args[t].bad \/ sig[t] = Filled(Zero)
                  /\ "null_siglen" \in args[t].bad \/ siglen[t] = 0

\* The caller's statistics tell the outcome: the attempts that made a
\* published signature, or which cap stopped the call and where; and they
\* are untouched by a call that failed before signing or was not asked.
StatsOfSuccess(s, b) ==
    /\ s.forsc_attempts = b[0].ctr + 1
    /\ s.wotsc_layer_count = SPX_D
    /\ \A i \in Layers : s.wotsc_attempts[i] = b[i + 2].counter + 1
    /\ \A i \in Layers : s.wotsc_attempts[i] <= s.wotsc_max_observed_attempts
    /\ \E i \in Layers : s.wotsc_attempts[i] = s.wotsc_max_observed_attempts
    /\ s.cap_exceeded = {}
StatsOfLimit(s) ==
    \/ /\ s.cap_exceeded = {"FORSC"}
       /\ s.forsc_attempts = s.forsc_max_attempts
       /\ s.wotsc_layer_count = 0
    \/ /\ s.cap_exceeded = {"WOTSC"}
       /\ s.wotsc_layer_count \in 1 .. SPX_D
       /\ s.wotsc_attempts[s.wotsc_layer_count - 1] = s.wotsc_max_attempts
       /\ s.wotsc_max_observed_attempts = s.wotsc_max_attempts
StatsTellOutcome ==
    \A t \in Threads :
        pc[t] = "ret" /\ Op(t) \in SignOps =>
            LET s == stats[t]["caller"]
            IN  IF args[t].stats /\ result[t] \in {"OK", "LIMIT"}
                THEN /\ s.forsc_max_attempts = FORSC_MAX_GRIND_ATTEMPTS
                     /\ s.wotsc_max_attempts = WOTSC_MAX_COUNTER + 1
                     /\ IF result[t] = "OK" THEN StatsOfSuccess(s, sig[t])
                                            ELSE StatsOfLimit(s)
                ELSE s = StaleStats

\* randombytes without a source fails closed: crypto_sign and
\* crypto_sign_keypair return an error, and the zeros it filled the buffer
\* with never become a salt or a key.
NoSourceNoOutput ==
    \A t \in Threads :
        pc[t] = "ret" /\ Op(t) \in {"crypto_sign", "crypto_keypair"} => result[t] = "FAIL"

\* Every call returns: both searches are bounded on every path.
EveryCallReturns ==
    \A t \in Threads : pc[t] # "idle" ~> pc[t] = "ret"

\* What README.md and docs/side-channel-policy.md say of randombytes without
\* a source: the process aborts instead of returning zero-filled bytes.
AbortsInsteadOfZeros ==
    \A t \in Threads : pc[t] = "kp_check" => seed[t] # Zero

=============================================================================
