----------------------------- MODULE WotsChain -----------------------------
(***************************************************************************)
(* WOTS+C one-time signatures: the search for a counter whose digest has   *)
(* the target checksum (chain_lengths), the digits of a digest (base_w),   *)
(* the hash chains of the leaf callbacks, which publish the signature on   *)
(* the way (one chain, eight chains of a key pair, or the same chain of    *)
(* eight key pairs at a time), and wots_pk_from_sig.                       *)
(*                                                                         *)
(* A chain value is known by its key pair, chain and position; hashing it  *)
(* under the address of that position gives the next, under any other      *)
(* Junk.  The hash of message and counter is an arbitrary function, chosen *)
(* as the search asks for it.                                              *)
(***************************************************************************)
EXTENDS Integers, FiniteSets

CONSTANTS
    N,                                \* bytes of a digest, SPX_N
    BYTE_BITS, LOGW,                  \* bits of a byte and of a digit
    LANES, Leaves,                    \* 8, and the number of key pairs of a subtree
    MaxCounter, Limits,               \* 0xFFFF, and the limits a search is given
    Digests,                          \* the digests that may come up
    MaxSearches,                      \* bound on the searches of one behaviour
    Junk, None                        \* no chain value; nothing written

\* 1 << n, for the bits of a byte
Pow2[n \in 0 .. BYTE_BITS] == IF n = 0 THEN 1 ELSE 2 * Pow2[n - 1]

W == Pow2[LOGW]
Bytes == 0 .. N - 1
LEN == (N * BYTE_BITS) \div LOGW      \* SPX_WOTS_LEN1, and SPX_WOTS_LEN: no checksum chains
Chains == 0 .. LEN - 1
TARGET == ((W - 1) * LEN) \div 2      \* SPX_WOTSC_TARGET

WotsAssumption ==
    /\ {N, BYTE_BITS, LOGW, LANES, Leaves} \subseteq Nat \ {0}
    /\ BYTE_BITS % LOGW = 0           \* "This only works when log_w is a divisor of 8."
    /\ Digests \subseteq [Bytes -> 0 .. Pow2[BYTE_BITS] - 1]
    /\ MaxCounter \in Nat
    /\ Limits \subseteq 0 .. MaxCounter
    /\ Leaves % LANES = 0

NO_SIGN_LEAF == Leaves                \* SPX_NO_SIGN_LEAF, no leaf's index
Builds == {"x1", "x1avx2", "x8"}      \* wots_gen_leafx1_scalar, wots_gen_leafx1_avx2, wots_gen_leafx8

----------------------------------------------------------------------------
(* Digits and checksum                                                     *)

Digit(total, bits) == (total \div Pow2[bits]) % W

\* The loop of base_w: the bits left of the byte at hand, the next byte, and the
\* byte, after each digit.
Cut(input) ==
    LET step[consumed \in 0 .. LEN] ==
          IF consumed = 0 THEN [bits |-> 0, in |-> 0, total |-> 0]
          ELSE LET s == step[consumed - 1]
               IN  IF s.bits = 0
                   THEN [bits |-> BYTE_BITS - LOGW, in |-> s.in + 1, total |-> input[s.in]]
                   ELSE [bits |-> s.bits - LOGW, in |-> s.in, total |-> s.total]
    IN  step

base_w(input) == [x \in Chains |-> Digit(Cut(input)[x + 1].total, Cut(input)[x + 1].bits)]

\* What the chains of a vector of digits lack to their tops, as
\* wotsc_hash_counter sums it up.
Sums(digits) ==
    LET sum[i \in 0 .. LEN] == IF i = 0 THEN 0 ELSE sum[i - 1] + (W - 1 - digits[i - 1])
    IN  sum

checksum(digits) == Sums(digits)[LEN]

----------------------------------------------------------------------------
VARIABLES
    pc,
    op,                               \* what the search is for
    build, sign_leaf,                 \* leaf callback; the key pair that signs
    oracle,                           \* digest of the message with each counter tried
    limit, counter,                   \* max_counter and counter of the search
    lengths,                          \* the digits found
    results,                          \* what the searches returned
    leaf_idx, c, k,                   \* key pair, chain, position
    bufs,                             \* the chain values in hand, a lane each
    sig, signed,                      \* the signature, and whether the tree is complete
    pk,                               \* the tops of the chains of every key pair
    derived                           \* those wots_pk_from_sig derives

search == <<oracle, limit, counter, lengths, results>>
leaf == <<leaf_idx, c, k, bufs, sig, signed, pk>>
vars == <<pc, op, build, sign_leaf, search, leaf, derived>>

Lanes == 0 .. LANES - 1
NoLengths == [x \in Chains |-> 0]

Init ==
    /\ pc = "start" /\ op = "sign"
    /\ build \in Builds /\ sign_leaf \in 0 .. Leaves
    /\ oracle = << >> /\ limit = 0 /\ counter = 0 /\ lengths = NoLengths /\ results = {}
    /\ leaf_idx = 0 /\ c = 0 /\ k = 0
    /\ bufs = [j \in Lanes |-> Junk]
    /\ sig = [x \in Chains |-> None] /\ signed = FALSE
    /\ pk = [l \in 0 .. Leaves - 1 |-> [x \in Chains |-> None]]
    /\ derived = [x \in Chains |-> None]

----------------------------------------------------------------------------
(* wotsc_compress_message_checked_bounded                                  *)

\* Every search starts at counter 0.
Search(name, max_counter) ==
    /\ op' = name
    /\ limit' = max_counter
    /\ counter' = 0
    /\ pc' = "search"

\* merkle_sign calls chain_lengths when a leaf signs; the limit of signing is
\* BITCOINPQC_WOTSC_MAX_COUNTER while statistics are kept, and 0xFFFF else.
SignStart ==
    /\ pc = "start" /\ sign_leaf # NO_SIGN_LEAF
    /\ \E max_counter \in Limits \cup {MaxCounter} : Search("sign", max_counter)
    /\ UNCHANGED <<build, sign_leaf, oracle, lengths, results, leaf, derived>>

\* merkle_gen_root: nobody signs.
KeyGenStart ==
    /\ pc = "start" /\ sign_leaf = NO_SIGN_LEAF
    /\ pc' = "leaf"
    /\ UNCHANGED <<op, build, sign_leaf, search, leaf, derived>>

\* wots_pk_from_sig calls chain_lengths without statistics, for the message
\* that was signed.
VerifyStart ==
    /\ pc = "idle" /\ signed /\ sign_leaf # NO_SIGN_LEAF
    /\ Search("verify", MaxCounter)
    /\ UNCHANGED <<build, sign_leaf, oracle, lengths, results, leaf, derived>>

\* bitcoin_pqc_test_wotsc_derive and bitcoin_pqc_test_wotsc_derive_with_limit:
\* a NULL or short buffer, a message that is not SPX_N bytes or a limit above
\* 0xFFFF is refused before anything is written.
DeriveStart ==
    /\ pc = "idle"
    /\ Cardinality(results) < MaxSearches
    /\ \E max_counter \in Limits \cup {MaxCounter} : Search("derive", max_counter)
    /\ UNCHANGED <<build, sign_leaf, oracle, lengths, results, leaf, derived>>

\* Faulty variant: a checksum of at least the target.
Hit_AtLeast(digits) == checksum(digits) >= TARGET

Hit(digits) == checksum(digits) = TARGET

Exhausted == counter = limit

Result(ok, at, digits) ==
    [op |-> op, limit |-> limit, ok |-> ok, counter |-> at, lengths |-> digits]

AfterHit == [sign |-> "leaf", verify |-> "chains", derive |-> "idle"]

\* One counter: hash it, sum the digits up, stop at the target or the limit.
SearchTry ==
    /\ pc = "search"
    /\ \E digest \in Digests :
        /\ counter \in DOMAIN oracle => digest = oracle[counter]
        /\ oracle' = [x \in DOMAIN oracle \cup {counter} |->
                        IF x = counter THEN digest ELSE oracle[x]]
        /\ LET digits == base_w(digest)
           IN  \/ /\ Hit(digits)
                  /\ results' = results \cup {Result(TRUE, counter, digits)}
                  /\ lengths' = IF op = "derive" THEN lengths ELSE digits
                  /\ pc' = AfterHit[op]
                  /\ UNCHANGED counter
               \/ /\ ~Hit(digits) /\ Exhausted
                  /\ results' = results \cup {Result(FALSE, counter, NoLengths)}
                  /\ pc' = "idle"
                  /\ UNCHANGED <<counter, lengths>>
               \/ /\ ~Hit(digits) /\ ~Exhausted
                  /\ counter' = counter + 1
                  /\ UNCHANGED <<pc, lengths, results>>
    /\ c' = 0
    /\ UNCHANGED <<op, build, sign_leaf, limit, leaf_idx, k, bufs, sig, signed, pk, derived>>

----------------------------------------------------------------------------
(* The leaf callbacks                                                      *)

Value(key, chain, pos) == [key |-> key, chain |-> chain, pos |-> pos]

\* thash of one chain value under the address of key, chain and position
Thash(v, key, chain, pos) ==
    IF v = Value(key, chain, pos) THEN Value(key, chain, pos + 1) ELSE Junk

\* Which key pair and which chain lane j works on, and how many lanes do.
KeyOf(j) == IF build = "x8" THEN leaf_idx + j ELSE leaf_idx
ChainOf(j) == IF build = "x1avx2" THEN c + j ELSE c
Used == {j \in Lanes : ChainOf(j) < LEN /\ (build = "x1" => j = 0)}

ChainStride == IF build = "x1avx2" THEN LANES ELSE 1
LeafStride == IF build = "x8" THEN LANES ELSE 1

\* Faulty variant: the first of the eight.
SignLane_First == 0

\* wots_sign_index: the low bits of the signing leaf.
SignLane == IF build = "x8" THEN sign_leaf % LANES ELSE 0

\* do_sign, for lane j
Signs(j) ==
    /\ sign_leaf # NO_SIGN_LEAF
    /\ leaf_idx \div LeafStride = sign_leaf \div LeafStride
    /\ build = "x8" => j = SignLane

\* prf_addr and prf_addrx8: the secrets the chains start from.
ChainStart ==
    /\ pc = "leaf" /\ c < LEN
    /\ bufs' = [j \in Lanes |-> IF j \in Used THEN Value(KeyOf(j), ChainOf(j), 0) ELSE Junk]
    /\ k' = 0
    /\ pc' = "chain"
    /\ UNCHANGED <<op, build, sign_leaf, search, leaf_idx, c, sig, signed, pk, derived>>

\* One turn of the loop down the chain: the value at wots_k is published, the
\* last goes into pk_buffer.
ChainTurn ==
    /\ pc = "chain"
    /\ sig' = [x \in Chains |->
                 IF \E j \in Used : Signs(j) /\ ChainOf(j) = x /\ k = lengths[x]
                 THEN bufs[CHOOSE j \in Used : Signs(j) /\ ChainOf(j) = x] ELSE sig[x]]
    /\ \/ /\ k = W - 1
          /\ pk' = [l \in DOMAIN pk |-> [x \in Chains |->
                      IF \E j \in Used : KeyOf(j) = l /\ ChainOf(j) = x
                      THEN bufs[CHOOSE j \in Used : KeyOf(j) = l /\ ChainOf(j) = x]
                      ELSE pk[l][x]]]
          /\ c' = c + ChainStride
          /\ pc' = "leaf"
          /\ UNCHANGED <<k, bufs>>
       \/ /\ k < W - 1
          /\ bufs' = [j \in Lanes |-> IF j \in Used THEN Thash(bufs[j], KeyOf(j), ChainOf(j), k)
                                      ELSE bufs[j]]
          /\ k' = k + 1
          /\ UNCHANGED <<pc, c, pk>>
    /\ UNCHANGED <<op, build, sign_leaf, search, leaf_idx, signed, derived>>

\* The callback returns; treehash asks for the next leaf, or is done.
LeafDone ==
    /\ pc = "leaf" /\ c >= LEN
    /\ IF leaf_idx + LeafStride < Leaves
       THEN leaf_idx' = leaf_idx + LeafStride /\ c' = 0 /\ UNCHANGED <<pc, signed>>
       ELSE pc' = "idle" /\ signed' = TRUE /\ UNCHANGED <<leaf_idx, c>>
    /\ UNCHANGED <<op, build, sign_leaf, search, k, bufs, sig, pk, derived>>

----------------------------------------------------------------------------
(* wots_pk_from_sig and gen_chain                                          *)

\* How many steps of chain c are missing.
steps(length) == W - 1 - length

\* gen_chain of one chain, from position start on.
GenChain(v, chain, start, n) ==
    LET out[x \in 0 .. n] ==
          IF x = 0 THEN v
          ELSE IF start + x - 1 >= W THEN out[x - 1]
          ELSE Thash(out[x - 1], sign_leaf, chain, start + x - 1)
    IN  out[n]

VerifyChain ==
    /\ pc = "chains" /\ c < LEN
    /\ derived' = [derived EXCEPT ![c] = GenChain(sig[c], c, lengths[c], steps(lengths[c]))]
    /\ c' = c + 1
    /\ UNCHANGED <<pc, op, build, sign_leaf, search, leaf_idx, k, bufs, sig, signed, pk>>

VerifyDone ==
    /\ pc = "chains" /\ c = LEN
    /\ pc' = "verified"
    /\ UNCHANGED <<op, build, sign_leaf, search, leaf, derived>>

\* The only places to stop.
Finished ==
    /\ pc = "verified" \/ (pc = "idle" /\ Cardinality(results) >= MaxSearches)
    /\ UNCHANGED vars

Next == \/ SignStart \/ KeyGenStart \/ VerifyStart \/ DeriveStart
        \/ SearchTry \/ ChainStart \/ ChainTurn \/ LeafDone
        \/ VerifyChain \/ VerifyDone \/ Finished

Spec == Init /\ [][Next]_vars

----------------------------------------------------------------------------
(* Properties                                                              *)

Values == [key : 0 .. Leaves - 1, chain : Chains, pos : 0 .. W - 1]

\* Every variable holds a value of its kind; the search stays within its
\* limit, every chain within its W values, and no value is hashed under the
\* address of another.
TypeOK ==
    /\ pc \in {"start", "search", "leaf", "chain", "idle", "chains", "verified"}
    /\ op \in {"sign", "verify", "derive"}
    /\ counter \in 0 .. limit
    /\ \A x \in DOMAIN oracle : x \in 0 .. MaxCounter /\ oracle[x] \in Digests
    /\ lengths \in [Chains -> 0 .. W - 1]
    /\ leaf_idx \in 0 .. Leaves - 1 /\ k \in 0 .. W - 1
    /\ pc = "chain" => \A j \in Used : bufs[j] \in Values
    /\ \A x \in Chains : {sig[x], derived[x]} \subseteq Values \cup {None}
    /\ \A l \in DOMAIN pk, x \in Chains : pk[l][x] \in Values \cup {None}

\* Whatever the three leaf callbacks do side by side, every key pair's public key
\* is the tops of its own chains, and the chains the verifier (wots_pk_from_sig,
\* with the counter its own search finds) completes end in those of the key pair
\* that signed.  No search leaves its limit and no chain its W values.
SignatureCompletes ==
    /\ TypeOK
    /\ signed => \A l \in DOMAIN pk, x \in Chains : pk[l][x] = Value(l, x, W - 1)
    /\ pc = "verified" => derived = pk[sign_leaf]

\* Without checksum chains a WOTS+C signature protects only its own digest: every
\* other vector of digits that wotsc_compress_message_checked_bounded would accept
\* needs, in some chain, a value before the published one.
NoSignatureFromAnother ==
    pc = "verified" =>
        \A other \in [Chains -> 0 .. W - 1] \ {lengths} :
            (\E x \in Chains : other[x] < lengths[x]) \/ checksum(other) # TARGET
=============================================================================
