---------------------------- MODULE DigestFields ----------------------------
(***************************************************************************)
(* How the bits of the message digest choose what is signed: hash_message  *)
(* takes the subtree and the leaf off the end of the digest, big-endian    *)
(* and masked; message_to_indices takes one leaf for each signed FORS      *)
(* tree, bit by bit from the low end of each byte; forsc_compressed_index  *)
(* takes the index of the tree that is not signed, which must be zero.     *)
(***************************************************************************)
EXTENDS Integers

CONSTANTS
    BYTE_BITS,                        \* 8
    FORS_SIG_TREES, FORS_HEIGHT,      \* the FORS trees that are signed
    D, TREE_HEIGHT,
    Outputs                           \* the outputs of mgf1_X_cached

\* One more is compressed away.
FORS_TREES == FORS_SIG_TREES + 1

\* 1 << n
Pow2[n \in Nat] == IF n = 0 THEN 1 ELSE 2 * Pow2[n - 1]

\* The sum of t[1] to t[n].
Sum(n, t) ==
    LET sum[k \in 0 .. n] == IF k = 0 THEN 0 ELSE sum[k - 1] + t[k]
    IN  sum[n]

TREE_BITS == TREE_HEIGHT * (D - 1)
LEAF_BITS == TREE_HEIGHT

\* The bytes that hold so many bits.
BytesFor(bits) == (bits + BYTE_BITS - 1) \div BYTE_BITS

FORS_MSG_BYTES == BytesFor(FORS_HEIGHT * FORS_TREES)
TREE_BYTES == BytesFor(TREE_BITS)
LEAF_BYTES == BytesFor(LEAF_BITS)
DGST_BYTES == FORS_MSG_BYTES + TREE_BYTES + LEAF_BYTES

FieldsAssumption ==
    /\ {BYTE_BITS, D} \subseteq Nat \ {0}
    /\ {FORS_SIG_TREES, FORS_HEIGHT, TREE_HEIGHT} \subseteq Nat
    /\ Outputs \subseteq [0 .. DGST_BYTES - 1 -> 0 .. Pow2[BYTE_BITS] - 1]

----------------------------------------------------------------------------
(* hash_message, after MGF1                                                *)

\* The n bytes from first on, big-endian; here the last comes first.
bytes_to_ull(m, first, n) ==
    Sum(n, [k \in 1 .. n |-> m[first + n - k] * Pow2[BYTE_BITS * (k - 1)]])

Tree(m) ==
    IF D = 1 THEN 0 ELSE bytes_to_ull(m, FORS_MSG_BYTES, TREE_BYTES) % Pow2[TREE_BITS]

LeafIdx(m) == bytes_to_ull(m, FORS_MSG_BYTES + TREE_BYTES, LEAF_BYTES) % Pow2[LEAF_BITS]

----------------------------------------------------------------------------
(* fors.c and sign.c: bits of the FORS part                                *)

Bit(m, offset) == (m[offset \div BYTE_BITS] \div Pow2[offset % BYTE_BITS]) % 2

\* FORS_HEIGHT bits from offset on, the first the lowest.
Bits(m, offset) ==
    Sum(FORS_HEIGHT, [j \in 1 .. FORS_HEIGHT |-> Bit(m, offset + j - 1) * Pow2[j - 1]])

\* Faulty variant: each tree starts at the last bit of the one before.
message_to_indices_Overlap(m) ==
    [i \in 0 .. FORS_SIG_TREES - 1 |-> Bits(m, i * (FORS_HEIGHT - 1))]

message_to_indices(m) == [i \in 0 .. FORS_SIG_TREES - 1 |-> Bits(m, i * FORS_HEIGHT)]

forsc_compressed_index(m) == Bits(m, FORS_SIG_TREES * FORS_HEIGHT)

----------------------------------------------------------------------------
VARIABLES
    pc,
    buf,                              \* buf of hash_message; mhash is its front
    tree, idx_leaf,
    indices                           \* the FORS leaves

vars == <<pc, buf, tree, idx_leaf, indices>>

Init ==
    /\ pc = "hash"
    /\ buf \in Outputs
    /\ tree = 0 /\ idx_leaf = 0
    /\ indices = [i \in 0 .. FORS_SIG_TREES - 1 |-> 0]

HashMessage ==
    /\ pc = "hash"
    /\ tree' = Tree(buf)
    /\ idx_leaf' = LeafIdx(buf)
    /\ pc' = "check"
    /\ UNCHANGED <<buf, indices>>

\* crypto_sign_signature tries the digest of another R, crypto_sign_verify
\* refuses.
Compressed ==
    /\ pc = "check" /\ forsc_compressed_index(buf) # 0
    /\ \/ \E other \in Outputs : buf' = other /\ pc' = "hash"
       \/ UNCHANGED buf /\ pc' = "refused"
    /\ UNCHANGED <<tree, idx_leaf, indices>>

\* fors_sign and fors_pk_from_sig
MessageToIndices ==
    /\ pc = "check" /\ forsc_compressed_index(buf) = 0
    /\ indices' = message_to_indices(buf)
    /\ pc' = "used"
    /\ UNCHANGED <<buf, tree, idx_leaf>>

Finished == pc \in {"refused", "used"} /\ UNCHANGED vars

Next == HashMessage \/ Compressed \/ MessageToIndices \/ Finished

Spec == Init /\ [][Next]_vars

----------------------------------------------------------------------------
(* Properties                                                              *)

\* Every variable holds a value of its kind: whatever the digest, the subtree,
\* the leaf and the FORS leaves are ones that exist.
TypeOK ==
    /\ pc \in {"hash", "check", "used", "refused"}
    /\ buf \in Outputs
    /\ tree \in 0 .. Pow2[TREE_BITS] - 1
    /\ idx_leaf \in 0 .. Pow2[LEAF_BITS] - 1
    /\ indices \in [0 .. FORS_SIG_TREES - 1 -> 0 .. Pow2[FORS_HEIGHT] - 1]

\* The digest with one bit turned over.
Flip(m, byte, bit) ==
    [m EXCEPT ![byte] = IF (@ \div Pow2[bit]) % 2 = 1 THEN @ - Pow2[bit] ELSE @ + Pow2[bit]]

\* What a digest decides, field by field.
Fields(m) ==
    [f \in 0 .. FORS_TREES + 1 |->
        IF f < FORS_SIG_TREES THEN message_to_indices(m)[f]
        ELSE IF f = FORS_SIG_TREES THEN forsc_compressed_index(m)
        ELSE IF f = FORS_TREES THEN Tree(m) ELSE LeafIdx(m)]

Changed(m, n) == {f \in 0 .. FORS_TREES + 1 : Fields(m)[f] # Fields(n)[f]}

Places == (0 .. DGST_BYTES - 1) \X (0 .. BYTE_BITS - 1)

\* What a bit decides.
Decides(m, p) == Changed(m, Flip(m, p[1], p[2]))
=============================================================================
