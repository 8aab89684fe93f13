---------------------------- MODULE HashAddress ----------------------------
(***************************************************************************)
(* The addresses (ADRS) every hash of the scheme is tweaked with: the      *)
(* field setters of address.c over the byte layout of sha2_offsets.h, and  *)
(* the order in which key generation, signing (scalar, or eight lanes at a *)
(* time) and verification set the fields of buffers they keep using.       *)
(*                                                                         *)
(* A hash call is recorded with its role, what the algorithm computes      *)
(* there, and the bytes the address buffer held.  The hashes' inputs are   *)
(* left out: which nodes meet is TreeHash's subject.                       *)
(***************************************************************************)
EXTENDS Integers, FiniteSets

CONSTANTS
    D, TREE_HEIGHT,                   \* layers of the hypertree, and their height
    FORS_SIG_TREES, FORS_HEIGHT,
    WOTS_LEN, WOTS_W,
    BYTE,                             \* number of values of a byte, 256
    Digests,                          \* what hash_message may derive
    Lengths,                          \* what chain_lengths may derive
    MaxOps                            \* bound on the calls of one behaviour

Pow2[n \in Nat] == IF n = 0 THEN 1 ELSE 2 * Pow2[n - 1]            \* 1 << n
Power[n \in 0 .. 8] == IF n = 0 THEN 1 ELSE BYTE * Power[n - 1]    \* values of n bytes

\* The bounds address.c and hash_sha2.c leave to the parameters: "Subtree
\* addressing is currently limited to at most 2^64 trees".
AddressAssumption ==
    /\ {D, FORS_SIG_TREES, WOTS_LEN} \subseteq Nat \ {0}
    /\ {TREE_HEIGHT, FORS_HEIGHT, WOTS_W, BYTE, MaxOps} \subseteq Nat
    /\ TREE_HEIGHT >= 3 /\ FORS_HEIGHT >= 3 /\ WOTS_W >= 2
    /\ BYTE >= 7 /\ D <= BYTE
    /\ TREE_HEIGHT < BYTE /\ FORS_HEIGHT < BYTE
    /\ WOTS_LEN <= BYTE /\ WOTS_W - 1 <= BYTE
    /\ Pow2[TREE_HEIGHT * (D - 1)] <= Power[8]
    /\ Pow2[TREE_HEIGHT] <= Power[4] /\ FORS_SIG_TREES * Pow2[FORS_HEIGHT] <= Power[4]
    /\ \A d \in Digests : /\ d.tree \in 0 .. Pow2[TREE_HEIGHT * (D - 1)] - 1
                          /\ d.idx_leaf \in 0 .. Pow2[TREE_HEIGHT] - 1
                          /\ \A i \in 0 .. FORS_SIG_TREES - 1 :
                               d.indices[i] \in 0 .. Pow2[FORS_HEIGHT] - 1
    /\ \A l \in Lengths, c \in 0 .. WOTS_LEN - 1 : l[c] \in 0 .. WOTS_W - 1

----------------------------------------------------------------------------
(* address.c                                                               *)

\* The SPX_OFFSET_ constants: where a field begins.
Offset == [layer |-> 0, tree |-> 1, type |-> 9, keypair |-> 10, chain |-> 17,
           hash |-> 21, height |-> 17, index |-> 18]

\* The SPX_ADDR_TYPE_ constants.
Type == [wots |-> 0, wotspk |-> 1, hashtree |-> 2, forstree |-> 3, forspk |-> 4,
         wotsprf |-> 5, forsprf |-> 6]

\* The part of an address that is hashed (SPX_SHA256_ADDR_BYTES).
AddrBytes == 0 .. 21
Zero == [b \in AddrBytes |-> 0]

\* Byte e of x, the lowest first: the loop of ull_to_bytes.
ByteOf(x, e) ==
    LET in[n \in 0 .. 8] == IF n = 0 THEN x ELSE in[n - 1] \div BYTE
    IN  in[e] % BYTE

\* ull_to_bytes and u32_to_bytes: x in the n bytes from first on, big-endian;
\* n = 1 is the cast to unsigned char.
Put(a, first, n, x) ==
    [b \in AddrBytes |-> IF b \in first .. first + n - 1
                         THEN ByteOf(x, first + n - 1 - b) ELSE a[b]]

set_layer_addr(a, layer) == Put(a, Offset.layer, 1, layer)
set_tree_addr(a, tree) == Put(a, Offset.tree, 8, tree)
set_type(a, type) == Put(a, Offset.type, 1, type)
set_keypair_addr(a, keypair) == Put(a, Offset.keypair, 4, keypair)
set_chain_addr(a, chain) == Put(a, Offset.chain, 1, chain)
set_hash_addr(a, hash) == Put(a, Offset.hash, 1, hash)
set_tree_height(a, height) == Put(a, Offset.height, 1, height)
set_tree_index(a, index) == Put(a, Offset.index, 4, index)

\* Layer and tree.
copy_subtree_addr(out, in) ==
    [b \in AddrBytes |-> IF b < Offset.tree + 8 THEN in[b] ELSE out[b]]

\* Layer, tree and key pair, without the type between them.
copy_keypair_addr(out, in) ==
    [b \in AddrBytes |-> IF b < Offset.tree + 8 \/ b \in Offset.keypair .. Offset.keypair + 3
                         THEN in[b] ELSE out[b]]

----------------------------------------------------------------------------
(* Roles: what a hash computes.                                            *)

Role(use, layer, tree, keypair, a, b) ==
    [use |-> use, layer |-> layer, tree |-> tree, keypair |-> keypair, a |-> a, b |-> b]

Call(role, addr) == [role |-> role, addr |-> addr]

Lanes == 0 .. 7
Shr(x, k) == x \div Pow2[k]

VARIABLES
    pc,
    op,                               \* the call in progress, and its build
    ops,                              \* calls begun
    digest,                           \* what hash_message derived
    signed,                           \* digests with a signature
    tree, idx_leaf,                   \* the position in the hypertree
    i, idx, c,                        \* FORS tree or layer; leaf; chain
    wots_addr, tree_addr, wots_pk_addr, fors_pk_addr,
    node_addr, leaf_addr, pk_addr,    \* of the tree in progress, a lane each
    fresh,                            \* the hash calls of the last step
    log                               \* the hash calls before it

callVars == <<op, ops, digest, signed>>
addrs == <<wots_addr, tree_addr, wots_pk_addr, fors_pk_addr>>
laneAddrs == <<node_addr, leaf_addr, pk_addr>>
vars == <<pc, callVars, tree, idx_leaf, i, idx, c, addrs, laneAddrs, fresh, log>>

NoDigest == [b \in {} |-> 0]          \* no digest: merkle_gen_root
Wide == op.wide
Width == IF Wide THEN 8 ELSE 1        \* leaves per gen_leaf
Used == IF Wide THEN Lanes ELSE {0}
Leaf(j) == Width * idx + j            \* the leaf lane j makes

\* Record the hashes of this step.
Hash(calls) == log' = log \cup fresh /\ fresh' = calls
NoHash == Hash({})

Init ==
    /\ pc = "idle"
    /\ op = [name |-> "none", wide |-> FALSE] /\ ops = 0
    /\ digest = NoDigest /\ signed = {}
    /\ tree = 0 /\ idx_leaf = 0
    /\ i = 0 /\ idx = 0 /\ c = 0
    /\ wots_addr = Zero /\ tree_addr = Zero /\ wots_pk_addr = Zero /\ fors_pk_addr = Zero
    /\ node_addr = [j \in Lanes |-> Zero]
    /\ leaf_addr = [j \in Lanes |-> Zero]
    /\ pk_addr = [j \in Lanes |-> Zero]
    /\ fresh = {} /\ log = {}

Begin(name, wide) ==
    /\ pc = "idle" /\ ops < MaxOps
    /\ op' = [name |-> name, wide |-> wide]
    /\ ops' = ops + 1

----------------------------------------------------------------------------
(* Building one subtree of the hypertree: merkle_sign, with the addresses  *)
(* of its caller.                                                          *)

\* merkle_sign_scalar hands the caller's own tree_addr to treehashx1;
\* merkle_sign_avx2 makes eight copies.
MerkleStart(wots, tr, wide) ==
    /\ tree_addr' = IF wide THEN tr ELSE set_type(tr, Type.hashtree)
    /\ node_addr' = [j \in Lanes |->
                        IF wide THEN copy_subtree_addr(set_type(Zero, Type.hashtree), tr)
                        ELSE set_type(tr, Type.hashtree)]
    /\ leaf_addr' = [j \in Lanes |->
                        copy_subtree_addr(IF wide THEN set_type(Zero, Type.wots) ELSE Zero, wots)]
    /\ pk_addr' = [j \in Lanes |-> copy_subtree_addr(set_type(Zero, Type.wotspk), wots)]
    /\ idx' = 0
    /\ pc' = "wots"

\* The layer of the root in the public key.
TopLayer == D - 1

\* merkle_gen_root
KeyGen ==
    /\ \E wide \in BOOLEAN :
        /\ ops = 0 /\ Begin("keygen", wide)
        /\ MerkleStart(set_layer_addr(Zero, TopLayer), set_layer_addr(Zero, TopLayer), wide)
    /\ wots_addr' = set_layer_addr(Zero, TopLayer)
    /\ i' = D - 1 /\ tree' = 0
    /\ NoHash
    /\ UNCHANGED <<digest, signed, idx_leaf, c, wots_pk_addr, fors_pk_addr>>

\* The leaf callback: wots_gen_leafx1, or wots_gen_leafx8 for eight key pairs.
WotsLeaf ==
    /\ pc = "wots"
    /\ leaf_addr' = [j \in Lanes |-> set_keypair_addr(leaf_addr[j], Leaf(j))]
    /\ pk_addr' = [j \in Lanes |-> set_keypair_addr(pk_addr[j], Leaf(j))]
    /\ c' = 0
    /\ pc' = "chain"
    /\ NoHash
    /\ UNCHANGED <<callVars, tree, idx_leaf, i, idx, addrs, node_addr>>

\* Faulty variant: the chain's secret under the chain's own type.
prf_type_Wots == Type.wots

prf_type == Type.wotsprf

\* One chain: its secret, then its steps up to the top.
WotsChain ==
    /\ pc = "chain" /\ c < WOTS_LEN
    /\ LET prf(j) == set_type(set_hash_addr(set_chain_addr(leaf_addr[j], c), 0), prf_type)
           wots(j) == set_type(prf(j), Type.wots)
       IN  /\ Hash({Call(Role("wotsprf", i, tree, Leaf(j), c, 0), prf(j)) : j \in Used}
                   \cup {Call(Role("wots", i, tree, Leaf(j), c, k), set_hash_addr(wots(j), k)) :
                            j \in Used, k \in 0 .. WOTS_W - 2})
           /\ leaf_addr' = [j \in Lanes |-> set_hash_addr(wots(j), WOTS_W - 2)]
    /\ c' = c + 1
    /\ UNCHANGED <<pc, callVars, tree, idx_leaf, i, idx, addrs, node_addr, pk_addr>>

\* The key pair's public key.
WotsPk ==
    /\ pc = "chain" /\ c = WOTS_LEN
    /\ Hash({Call(Role("wotspk", i, tree, Leaf(j), 0, 0), pk_addr[j]) : j \in Used})
    /\ pc' = "combine"
    /\ UNCHANGED <<callVars, tree, idx_leaf, i, idx, c, addrs, laneAddrs>>

\* The last call of gen_leaf for a tree.
Last(height) == Pow2[height] \div Width - 1

\* The levels of which this call of gen_leaf completes nodes: up to the first
\* left child, or up to the root.
Completed(height) == {l \in 1 .. height : (idx + 1) % Pow2[l] = 0 \/ idx = Last(height)}

\* In the top three levels treehashx8 has fewer nodes than lanes; the first
\* lanes hash garbage, which nothing reads.
left_adj(height, l) == IF Wide /\ l > height - 3 THEN 8 - Pow2[height - l] ELSE 0
Real(height, l) == {j \in Used : j >= left_adj(height, l)}

NodeIndex(height, offset, l, j) == Width * Shr(idx, l) + j - left_adj(height, l) + Shr(offset, l)

\* The inner loops of treehashx1 and treehashx8: the node in hand is combined
\* with the one on the stack, level after level.
Combine(use, height, offset, layer, keypair) ==
    LET levels == Completed(height)
        addr(l, j) == set_tree_index(set_tree_height(node_addr[j], l),
                                     NodeIndex(height, offset, l, j))
    IN  /\ Hash(UNION {{Call(Role(use, layer, tree, keypair, l, NodeIndex(height, offset, l, j)),
                             addr(l, j)) : j \in Real(height, l)} : l \in levels})
        /\ node_addr' = IF levels = {} THEN node_addr
                        ELSE [j \in Lanes |-> addr(Cardinality(levels), j)]

\* The leaf of the next layer that signs this subtree.
ParentLeaf == tree % Pow2[TREE_HEIGHT]

\* The indices for the next layer.
NextLayer ==
    /\ idx_leaf' = ParentLeaf
    /\ tree' = Shr(tree, TREE_HEIGHT)
    /\ i' = i + 1

\* treehashx1 works in the caller's tree_addr.
MerkleCombine ==
    /\ pc = "combine"
    /\ Combine("hashtree", TREE_HEIGHT, 0, i, 0)
    /\ tree_addr' = IF Wide THEN tree_addr ELSE node_addr'[0]
    /\ \/ /\ idx < Last(TREE_HEIGHT)
          /\ idx' = idx + 1
          /\ pc' = "wots"
          /\ UNCHANGED <<tree, idx_leaf, i, signed>>
       \/ /\ idx = Last(TREE_HEIGHT) /\ op.name = "keygen"
          /\ pc' = "idle"
          /\ UNCHANGED <<tree, idx_leaf, i, idx, signed>>
       \/ /\ idx = Last(TREE_HEIGHT) /\ op.name = "sign"
          /\ NextLayer
          /\ pc' = IF i = D - 1 THEN "idle" ELSE "layer"
          /\ signed' = IF i = D - 1 THEN signed \cup {digest} ELSE signed
          /\ UNCHANGED idx
    /\ UNCHANGED <<op, ops, digest, c, wots_addr, wots_pk_addr, fors_pk_addr, leaf_addr, pk_addr>>

----------------------------------------------------------------------------
(* crypto_sign_signature and fors_sign                                     *)

\* The buffers before the first tree, the same for signer and verifier:
\* wots_addr of the FORS key pair, fors_pk_addr.
Open(d) ==
    LET wots == set_keypair_addr(set_tree_addr(set_type(Zero, Type.wots), d.tree), d.idx_leaf)
    IN  /\ wots_addr' = wots
        /\ tree_addr' = set_type(Zero, Type.hashtree)
        /\ fors_pk_addr' = set_type(copy_keypair_addr(Zero, wots), Type.forspk)
        /\ tree' = d.tree /\ idx_leaf' = d.idx_leaf
        /\ i' = 0
        /\ digest' = d

SignBegin ==
    /\ ops > 0
    /\ \E wide \in BOOLEAN : Begin("sign", wide)
    /\ \E d \in Digests : Open(d)
    /\ pc' = "fors"
    /\ NoHash
    /\ UNCHANGED <<signed, idx, c, wots_pk_addr, laneAddrs>>

\* idx_offset: FORS leaves are counted across the trees.
ForsOffset == i * Pow2[FORS_HEIGHT]

\* fors_sign_tree, fors_sign_tree_avx2: the published secret comes first,
\* under the buffer that then serves the nodes.
ForsTree ==
    /\ pc = "fors" /\ op.name = "sign"
    /\ LET own == copy_keypair_addr(Zero, wots_addr)
           index == digest.indices[i] + ForsOffset
           prf == set_type(set_tree_index(set_tree_height(own, 0), index), Type.forsprf)
       IN  /\ Hash({Call(Role("forsprf", 0, tree, idx_leaf, 0, index), prf)})
           /\ node_addr' = [j \in Lanes |-> set_type(IF j = 0 THEN prf ELSE own, Type.forstree)]
           /\ leaf_addr' = [j \in Lanes |-> own]
    /\ idx' = 0
    /\ pc' = "forsleaf"
    /\ UNCHANGED <<callVars, tree, idx_leaf, i, c, addrs, pk_addr>>

\* fors_gen_leafx1, fors_gen_leafx8: a secret and its hash.
ForsLeaf ==
    /\ pc = "forsleaf"
    /\ LET prf(j) == set_type(set_tree_index(leaf_addr[j], Leaf(j) + ForsOffset), Type.forsprf)
           leaf(j) == set_type(prf(j), Type.forstree)
           role(use, j) == Role(use, 0, tree, idx_leaf, 0, Leaf(j) + ForsOffset)
       IN  /\ Hash({Call(role("forsprf", j), prf(j)) : j \in Used}
                   \cup {Call(role("forstree", j), leaf(j)) : j \in Used})
           /\ leaf_addr' = [j \in Lanes |-> leaf(j)]
    /\ pc' = "forscombine"
    /\ UNCHANGED <<callVars, tree, idx_leaf, i, idx, c, addrs, node_addr, pk_addr>>

ForsCombine ==
    /\ pc = "forscombine"
    /\ Combine("forstree", FORS_HEIGHT, ForsOffset, 0, idx_leaf)
    /\ \/ /\ idx < Last(FORS_HEIGHT)
          /\ idx' = idx + 1
          /\ pc' = "forsleaf"
          /\ UNCHANGED i
       \/ /\ idx = Last(FORS_HEIGHT)
          /\ i' = i + 1
          /\ pc' = IF i = FORS_SIG_TREES - 1 THEN "forspk" ELSE "fors"
          /\ UNCHANGED idx
    /\ UNCHANGED <<callVars, tree, idx_leaf, c, addrs, leaf_addr, pk_addr>>

\* The FORS public key, of signer and verifier.
ForsPk ==
    /\ pc = "forspk"
    /\ Hash({Call(Role("forspk", 0, tree, idx_leaf, 0, 0), fors_pk_addr)})
    /\ i' = 0
    /\ pc' = "layer"
    /\ UNCHANGED <<callVars, tree, idx_leaf, idx, c, addrs, laneAddrs>>

\* The addresses of layer i: the buffers of the layer below, with new fields.
LayerTree == set_tree_addr(set_layer_addr(tree_addr, i), tree)

LayerWots == set_keypair_addr(copy_subtree_addr(wots_addr, LayerTree), idx_leaf)

\* merkle_sign gives up, before it touches an address, when chain_lengths
\* finds no counter.
SignLayer ==
    /\ pc = "layer" /\ op.name = "sign"
    /\ wots_addr' = LayerWots
    /\ \/ MerkleStart(LayerWots, LayerTree, Wide)
       \/ /\ tree_addr' = LayerTree
          /\ pc' = "idle"
          /\ UNCHANGED <<idx, laneAddrs>>
    /\ NoHash
    /\ UNCHANGED <<callVars, tree, idx_leaf, i, c, wots_pk_addr, fors_pk_addr>>

----------------------------------------------------------------------------
(* crypto_sign_verify and fors_pk_from_sig                                 *)

VerifyBegin ==
    /\ Begin("verify", FALSE)
    /\ \E d \in signed :
        /\ Open(d)
        /\ node_addr' = [node_addr EXCEPT ![0] =
                            set_type(copy_keypair_addr(Zero, wots_addr'), Type.forstree)]
    /\ wots_pk_addr' = set_type(Zero, Type.wotspk)
    /\ pc' = "fors"
    /\ NoHash
    /\ UNCHANGED <<signed, idx, c, leaf_addr, pk_addr>>

\* compute_root: the address of the node above leaf at level l.
PathIndex(leaf, offset, l) == Shr(leaf, l) + Shr(offset, l)
PathAddr(a, leaf, offset, l) ==
    set_tree_index(set_tree_height(a, l), PathIndex(leaf, offset, l))

\* Faulty variant: the height left by the tree before.
LeafAddr_Stale(a, index) == set_tree_index(a, index)

\* One buffer serves all trees: the height goes back to 0 for each leaf.
LeafAddr(a, index) == set_tree_index(set_tree_height(a, 0), index)

VerifyForsTree ==
    /\ pc = "fors" /\ op.name = "verify"
    /\ LET index == digest.indices[i]
           leaf == LeafAddr(node_addr[0], index + ForsOffset)
           role(l) == Role("forstree", 0, tree, idx_leaf, l, PathIndex(index, ForsOffset, l))
       IN  /\ Hash({Call(role(0), leaf)}
                   \cup {Call(role(l), PathAddr(leaf, index, ForsOffset, l)) :
                            l \in 1 .. FORS_HEIGHT})
           /\ node_addr' = [node_addr EXCEPT ![0] = PathAddr(leaf, index, ForsOffset, FORS_HEIGHT)]
    /\ i' = i + 1
    /\ pc' = IF i = FORS_SIG_TREES - 1 THEN "forspk" ELSE "fors"
    /\ UNCHANGED <<callVars, tree, idx_leaf, idx, c, addrs, leaf_addr, pk_addr>>

VerifyLayer ==
    /\ pc = "layer" /\ op.name = "verify"
    /\ tree_addr' = LayerTree
    /\ wots_addr' = LayerWots
    /\ wots_pk_addr' = copy_keypair_addr(wots_pk_addr, LayerWots)
    /\ c' = 0
    /\ pc' = "chains"
    /\ NoHash
    /\ UNCHANGED <<callVars, tree, idx_leaf, i, idx, fors_pk_addr, laneAddrs>>

\* gen_chain: from the value in the signature to the top of the chain.
ChainSteps(length) == length .. WOTS_W - 2

\* One chain of wots_pk_from_sig, in the caller's wots_addr.
VerifyChain ==
    /\ pc = "chains" /\ c < WOTS_LEN
    /\ \E lengths \in Lengths :
         LET chain == set_chain_addr(wots_addr, c)
             steps == ChainSteps(lengths[c])
         IN  /\ Hash({Call(Role("wots", i, tree, idx_leaf, c, k), set_hash_addr(chain, k)) :
                        k \in steps})
             /\ wots_addr' = IF steps = {} THEN chain ELSE set_hash_addr(chain, WOTS_W - 2)
    /\ c' = c + 1
    /\ UNCHANGED <<pc, callVars, tree, idx_leaf, i, idx, tree_addr, wots_pk_addr, fors_pk_addr,
                   laneAddrs>>

\* The leaf from the chains, and the root of the subtree from the leaf.
VerifyRoot ==
    /\ pc = "chains" /\ c = WOTS_LEN
    /\ Hash({Call(Role("wotspk", i, tree, idx_leaf, 0, 0), wots_pk_addr)}
            \cup {Call(Role("hashtree", i, tree, 0, l, PathIndex(idx_leaf, 0, l)),
                       PathAddr(tree_addr, idx_leaf, 0, l)) : l \in 1 .. TREE_HEIGHT})
    /\ tree_addr' = PathAddr(tree_addr, idx_leaf, 0, TREE_HEIGHT)
    /\ NextLayer
    /\ pc' = IF i = D - 1 THEN "idle" ELSE "layer"
    /\ UNCHANGED <<callVars, idx, c, wots_addr, wots_pk_addr, fors_pk_addr, laneAddrs>>

\* The calls of this behaviour are made.
Finished == pc = "idle" /\ ops = MaxOps /\ UNCHANGED vars

Next == \/ KeyGen \/ WotsLeaf \/ WotsChain \/ WotsPk \/ MerkleCombine
        \/ SignBegin \/ ForsTree \/ ForsLeaf \/ ForsCombine \/ ForsPk \/ SignLayer
        \/ VerifyBegin \/ VerifyForsTree \/ VerifyLayer \/ VerifyChain \/ VerifyRoot
        \/ Finished

Spec == Init /\ [][Next]_vars

----------------------------------------------------------------------------
(* Properties                                                              *)

Address == [AddrBytes -> 0 .. BYTE - 1]

\* Every variable holds a value of its kind; in particular the position in
\* the hypertree stays inside it from layer to layer.
TypeOK ==
    /\ pc \in {"idle", "wots", "chain", "combine", "fors", "forsleaf", "forscombine",
               "forspk", "layer", "chains"}
    /\ op.name \in {"none", "keygen", "sign", "verify"} /\ op.wide \in BOOLEAN
    /\ ops \in 0 .. MaxOps
    /\ signed \subseteq Digests /\ digest \in Digests \cup {NoDigest}
    /\ tree \in 0 .. Pow2[TREE_HEIGHT * (D - 1)] - 1
    /\ idx_leaf \in 0 .. Pow2[TREE_HEIGHT] - 1
    /\ i \in Nat /\ idx \in Nat /\ c \in 0 .. WOTS_LEN
    /\ {wots_addr, tree_addr, wots_pk_addr, fors_pk_addr} \subseteq Address
    /\ {node_addr, leaf_addr, pk_addr} \subseteq [Lanes -> Address]
    /\ \A e \in fresh : e.addr \in Address

\* Domain separation: two hash calls carry the same address exactly when they
\* compute the same thing, whichever of key generation, signing in either
\* build, and verification makes them, and whatever earlier calls, layers and
\* trees left in the buffers.  No position leaves the hypertree.
AddressNamesRole ==
    /\ TypeOK
    /\ \A new \in fresh, old \in log \cup fresh : new.role = old.role <=> new.addr = old.addr

\* The verifier of a signature hashes nothing the signer did not hash, under
\* the address the signer hashed it under.
VerifierRetraces == op.name = "verify" => fresh \subseteq log
=============================================================================
