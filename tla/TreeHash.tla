------------------------------ MODULE TreeHash ------------------------------
(***************************************************************************)
(* Building a Merkle tree and checking a path in it: treehashx1 (scalar),  *)
(* treehashx8 (AVX2, eight nodes at a time) with the leaf callbacks of     *)
(* WOTS+C and FORS+C that publish a part of the signature on the way, and  *)
(* compute_root, which the verifier climbs the path with.  treehash, the   *)
(* builder with an explicit stack of heights that nothing calls at         *)
(* present, takes the place of treehashx1 in some FORS trees.              *)
(*                                                                         *)
(* A node is known by its height and its index among the nodes of that     *)
(* height; hashing two nodes under an address gives the node the address   *)
(* names when they are its children, and Junk otherwise.  Indices are      *)
(* uint32_t and counted across the FORS trees, by idx_offset.              *)
(***************************************************************************)
EXTENDS Integers, Sequences, SequencesExt

CONSTANTS
    Heights,                          \* tree heights
    ForsTrees,                        \* values of tree_num
    UINT32_MODULUS,                   \* 2^32
    Junk, None                        \* no node; nothing written

Pow2[n \in Nat] == IF n = 0 THEN 1 ELSE 2 * Pow2[n - 1]    \* 1 << n

ASSUME TreeAssumption ==
    /\ Heights \subseteq {n \in Nat : n >= 3}
    /\ ForsTrees \subseteq Nat /\ UINT32_MODULUS \in Nat
    /\ \A n \in Heights : 8 * Pow2[n] <= UINT32_MODULUS
    /\ \A n \in Heights, i \in ForsTrees : (i + 1) * Pow2[n] <= UINT32_MODULUS

NO_SIGN_LEAF == UINT32_MODULUS - 1    \* SPX_NO_SIGN_LEAF, ~0u

Node(level, i) == [level |-> level, index |-> i]
Nodes == [level : Nat, index : Nat]

\* thash over two nodes under tree_addr with tree_height level and tree_index i
Thash(left, right, level, i) ==
    IF left = Node(level - 1, 2 * i) /\ right = Node(level - 1, 2 * i + 1)
    THEN Node(level, i) ELSE Junk

\* x >>= 1, k times.
Shr(x, k) == LET s[j \in Nat] == IF j = 0 THEN x ELSE s[j - 1] \div 2 IN s[k]
Odd(x) == x % 2 = 1
Sibling(x) == IF Odd(x) THEN x - 1 ELSE x + 1

Lanes == 0 .. 7
Filled(x) == [j \in Lanes |-> x]

\* merkle_sign over one subtree: leaf idx_leaf, or none in merkle_gen_root.
MerkleJobs(n) ==
    [kind : {"merkle"}, by : {"x1", "x8"}, height : {n}, tree : {0},
     leaf : 0 .. Pow2[n] - 1 \cup {NO_SIGN_LEAF}]

\* fors_sign_tree over one FORS tree.
ForsJobs(n) ==
    [kind : {"fors"}, by : {"x1", "x8", "stack"}, height : {n}, tree : ForsTrees,
     leaf : 0 .. Pow2[n] - 1]

Jobs == UNION {MerkleJobs(n) \cup ForsJobs(n) : n \in Heights}

VARIABLES
    pc,
    job,
    idx, h,                           \* the two loops of treehashx1 and treehashx8
    current,                          \* the node, or the eight nodes, in hand
    stack,                            \* stack[h], eight lanes each (x1 uses lane 0)
    left_adj, prev_left_adj,          \* the top three levels of treehashx8
    pile,                             \* treehash: its stack with the heights[] beside it
    auth_path, root,                  \* the outputs
    opened,                           \* the leaf whose secret part is in the signature
    buffer, i,                        \* compute_root
    computed                          \* the root it returns

outputs == <<auth_path, root, opened>>
checking == <<buffer, i, computed>>
vars == <<pc, job, idx, h, current, stack, left_adj, prev_left_adj, pile, outputs, checking>>

H == job.height
Levels == 0 .. H - 1
Offset == job.tree * Pow2[H]           \* idx_offset

----------------------------------------------------------------------------
Init ==
    /\ pc = "start"
    /\ job \in Jobs
    /\ idx = 0 /\ h = 0
    /\ current = Filled(Junk)
    /\ stack = [k \in Levels |-> Filled(Junk)]
    /\ left_adj = 0 /\ prev_left_adj = 0
    /\ pile = <<>>
    /\ auth_path = [k \in Levels |-> None]
    /\ root = None
    /\ opened = None
    /\ buffer = <<Junk, Junk>> /\ i = 0 /\ computed = None

\* merkle_sign: the leaf callback will write the WOTS signature on the way.
MerkleStart ==
    /\ pc = "start" /\ job.kind = "merkle"
    /\ pc' = "leaf"
    /\ UNCHANGED <<job, idx, h, current, stack, left_adj, prev_left_adj, pile, outputs, checking>>

\* fors_sign_tree and fors_sign_tree_avx2 write the secret key element of the
\* selected leaf first.
ForsStart ==
    /\ pc = "start" /\ job.kind = "fors"
    /\ opened' = job.leaf + Offset
    /\ pc' = "leaf"
    /\ UNCHANGED <<job, idx, h, current, stack, left_adj, prev_left_adj, pile, auth_path,
                   root, checking>>

\* treehashx1 calls gen_leaf for leaf idx, treehashx8 for eight leaves.
GenLeaf(kind, by) ==
    /\ pc = "leaf" /\ job.kind = kind /\ job.by = by
    /\ current' = IF by = "x8" THEN [j \in Lanes |-> Node(0, 8 * idx + Offset + j)]
                  ELSE [current EXCEPT ![0] = Node(0, idx + Offset)]
    /\ h' = 0
    /\ pc' = "climb"
    /\ UNCHANGED <<job, idx, stack, left_adj, prev_left_adj, pile, auth_path, root, checking>>

ForsLeafX1 == GenLeaf("fors", "x1") /\ UNCHANGED opened
ForsLeafX8 == GenLeaf("fors", "x8") /\ UNCHANGED opened

\* wots_gen_leafx1 writes the WOTS signature if this is the key that signs.
WotsLeafX1 ==
    /\ GenLeaf("merkle", "x1")
    /\ opened' = IF job.leaf # NO_SIGN_LEAF /\ job.leaf = idx + Offset
                 THEN idx + Offset ELSE opened

\* Faulty variant: the first lane, whichever lane signs.
SignLane_First == 0

\* wots_sign_index
SignLane == job.leaf % 8

\* wots_gen_leafx8 writes it from one of the eight lanes, if one signs.
WotsLeafX8 ==
    /\ GenLeaf("merkle", "x8")
    /\ opened' = IF job.leaf # NO_SIGN_LEAF /\ job.leaf \div 8 = (8 * idx + Offset) \div 8
                 THEN 8 * idx + Offset + SignLane ELSE opened

\* The node in hand is kept on the stack and the next leaf begins.
Push ==
    /\ stack' = [stack EXCEPT ![h] = current]
    /\ idx' = idx + 1
    /\ pc' = "leaf"
    /\ UNCHANGED <<h, current>>

\* The tree is complete.
Built(node) ==
    /\ root' = node
    /\ pc' = "built"
    /\ UNCHANGED <<idx, h, current, stack, left_adj, prev_left_adj, auth_path>>

\* Faulty variant: the parity of the leaf, not of the node in hand.
StopsX1_LeafParity == ~Odd(idx) /\ idx < Pow2[H] - 1

\* A left child waits for its sibling, except on the right edge of the tree.
StopsX1 == ~Odd(Shr(idx, h)) /\ idx < Pow2[H] - 1

\* One turn of the inner loop of treehashx1.
ClimbX1 ==
    /\ pc = "climb" /\ job.by = "x1"
    /\ \/ /\ h = H
          /\ Built(current[0])
       \/ /\ h < H
          /\ auth_path' = IF Shr(idx, h) = Sibling(Shr(job.leaf, h))
                          THEN [auth_path EXCEPT ![h] = current[0]] ELSE auth_path
          /\ \/ StopsX1 /\ Push
             \/ /\ ~StopsX1
                /\ current' = [current EXCEPT ![0] =
                      Thash(stack[h][0], current[0], h + 1,
                            Shr(idx, h) \div 2 + Shr(Offset, h + 1))]
                /\ h' = h + 1
                /\ UNCHANGED <<pc, idx, stack>>
          /\ UNCHANGED <<root, left_adj, prev_left_adj>>
    /\ UNCHANGED <<job, pile, opened, checking>>

\* The offset of the leftmost real node among the eight at level h of the top
\* three levels; below them the eight lanes are all real.
LeftAdj == IF h >= H - 3 THEN 8 - Pow2[H - h - 1] ELSE left_adj

PrevLeftAdj == IF h >= H - 3 THEN left_adj ELSE prev_left_adj

StopsX8 == ~Odd(Shr(idx, h)) /\ idx < Pow2[H - 3] - 1

\* thashx8: lanes 0..3 hash the pairs of the left eight, lanes 4..7 those of
\* the eight in hand, each under its own tree_index.
ThashX8(left, right) ==
    [j \in Lanes |->
        LET k == 2 * (j % 4)
            from == IF j < 4 THEN left ELSE right
            tree_index == (8 * Shr(idx, h + 1) + j - LeftAdj + Shr(Offset, h + 1))
                            % UINT32_MODULUS
        IN  Thash(from[k], from[k + 1], h + 1, tree_index)]

\* One turn of the inner loop of treehashx8.
ClimbX8 ==
    /\ pc = "climb" /\ job.by = "x8"
    /\ \/ /\ h = H
          /\ Built(current[7])
       \/ /\ h < H
          /\ left_adj' = LeftAdj
          /\ prev_left_adj' = PrevLeftAdj
          /\ auth_path' = IF Shr(idx, h) = Shr(job.leaf, h) \div 8
                          THEN [auth_path EXCEPT ![h] =
                                  current[Sibling(Shr(job.leaf, h) % 8) + PrevLeftAdj]]
                          ELSE auth_path
          /\ \/ StopsX8 /\ Push
             \/ /\ ~StopsX8
                /\ current' = ThashX8(stack[h], current)
                /\ h' = h + 1
                /\ UNCHANGED <<pc, idx, stack>>
          /\ UNCHANGED root
    /\ UNCHANGED <<job, pile, opened, checking>>

----------------------------------------------------------------------------
(* treehash: an entry of the pile is a node and its heights[] element.     *)

PileTop == Last(pile)
PathWith(level, x, node) ==
    IF x = Sibling(Shr(job.leaf, level))
    THEN [k \in Levels \cup {level} |-> IF k = level THEN node ELSE auth_path[k]]
    ELSE auth_path

\* The next leaf goes on top.
PileLeaf ==
    /\ pc = "leaf" /\ job.by = "stack" /\ idx < Pow2[H]
    /\ LET leaf == Node(0, idx + Offset)
       IN  /\ pile' = Append(pile, [node |-> leaf, height |-> 0])
           /\ auth_path' = PathWith(0, idx, leaf)
    /\ pc' = "climb"
    /\ UNCHANGED <<job, idx, h, current, stack, left_adj, prev_left_adj, root, opened, checking>>

\* The two topmost nodes are of equal height.
Merges == Len(pile) >= 2 /\ pile[Len(pile) - 1].height = PileTop.height

\* One turn of the while loop; it asks for the root's sibling too, which no leaf has.
PileMerge ==
    /\ pc = "climb" /\ job.by = "stack" /\ Merges
    /\ LET up       == PileTop.height + 1
           tree_idx == Shr(idx, up)
           below    == pile[Len(pile) - 1]
           node     == Thash(below.node, PileTop.node, up, tree_idx + Shr(Offset, up))
       IN  /\ pile' = Append(Front(Front(pile)), [node |-> node, height |-> below.height + 1])
           /\ auth_path' = PathWith(up, tree_idx, node)
    /\ UNCHANGED <<pc, job, idx, h, current, stack, left_adj, prev_left_adj, root, opened,
                   checking>>

PileNext ==
    /\ pc = "climb" /\ job.by = "stack" /\ ~Merges
    /\ \/ /\ idx < Pow2[H] - 1
          /\ idx' = idx + 1
          /\ pc' = "leaf"
          /\ UNCHANGED root
       \/ /\ idx = Pow2[H] - 1
          /\ root' = pile[1].node
          /\ pc' = "built"
          /\ UNCHANGED idx
    /\ UNCHANGED <<job, h, current, stack, left_adj, prev_left_adj, pile, auth_path, opened,
                   checking>>

----------------------------------------------------------------------------
(* compute_root, as crypto_sign_verify and fors_pk_from_sig call it on the *)
(* path and the opened leaf of the signature.                              *)

\* The node goes right of its neighbour when its index is odd.
Pair(node, neighbour, x) ==
    IF Odd(x) THEN <<neighbour, node>> ELSE <<node, neighbour>>

\* The leaf the verifier derives: from the secret element, hashed under the
\* address of the selected FORS leaf, or from the WOTS signature, its chains
\* completed under the address of the selected key pair.
ForsLeafFromSig == IF opened = job.leaf + Offset THEN Node(0, opened) ELSE Junk
WotsLeafFromSig == IF opened = job.leaf THEN Node(0, opened) ELSE Junk

RootOpen ==
    /\ pc = "built" /\ job.leaf # NO_SIGN_LEAF
    /\ LET leaf == IF job.kind = "fors" THEN ForsLeafFromSig ELSE WotsLeafFromSig
       IN  buffer' = Pair(leaf, auth_path[0], job.leaf)
    /\ i' = 0
    /\ pc' = "check"
    /\ UNCHANGED <<job, idx, h, current, stack, left_adj, prev_left_adj, pile, outputs, computed>>

\* Faulty variant: the index within one tree.
Parent_NoOffset == Thash(buffer[1], buffer[2], i + 1, Shr(job.leaf, i + 1))

\* The node two neighbours make at level i + 1.
Parent == Thash(buffer[1], buffer[2], i + 1, Shr(job.leaf, i + 1) + Shr(Offset, i + 1))

RootTurn ==
    /\ pc = "check" /\ i < H - 1
    /\ buffer' = Pair(Parent, auth_path[i + 1], Shr(job.leaf, i + 1))
    /\ i' = i + 1
    /\ UNCHANGED <<pc, job, idx, h, current, stack, left_adj, prev_left_adj, pile, outputs,
                   computed>>

RootClose ==
    /\ pc = "check" /\ i = H - 1
    /\ computed' = Parent
    /\ pc' = "done"
    /\ UNCHANGED <<job, idx, h, current, stack, left_adj, prev_left_adj, pile, outputs,
                   buffer, i>>

\* The only places to stop.
Finished ==
    /\ pc = "done" \/ (pc = "built" /\ job.leaf = NO_SIGN_LEAF)
    /\ UNCHANGED vars

Next == \/ MerkleStart \/ ForsStart \/ WotsLeafX1 \/ ForsLeafX1 \/ WotsLeafX8
        \/ ForsLeafX8 \/ ClimbX1 \/ ClimbX8
        \/ PileLeaf \/ PileMerge \/ PileNext
        \/ RootOpen \/ RootTurn \/ RootClose \/ Finished

Spec == Init /\ [][Next]_vars

----------------------------------------------------------------------------
(* Properties                                                              *)

\* Every variable holds a value of its kind; in particular the loops stay
\* inside the stack and the authentication path.
TypeOK ==
    /\ pc \in {"start", "leaf", "climb", "built", "check", "done"}
    /\ job \in Jobs
    /\ idx \in 0 .. Pow2[H] - 1
    /\ h \in 0 .. H
    /\ current \in [Lanes -> Nodes \cup {Junk}]
    /\ stack \in [Levels -> [Lanes -> Nodes \cup {Junk}]]
    /\ left_adj \in Lanes /\ prev_left_adj \in Lanes
    /\ Len(pile) <= H + 1
    /\ auth_path \in [Levels -> Nodes \cup {Junk, None}]
    /\ root \in Nodes \cup {Junk, None}
    /\ opened \in Nat \cup {None}
    /\ buffer[1] \in Nodes \cup {Junk, None} /\ buffer[2] \in Nodes \cup {Junk, None}
    /\ i \in Levels
    /\ computed \in Nodes \cup {Junk, None}

\* While climbing, a finished left sibling waits on the stack at every level
\* where idx has a one, and the node in hand is the one above leaf idx: what
\* is read from the stack is never left over from another subtree, and no
\* access leaves the stack or the path.
StackHoldsSiblings ==
    /\ TypeOK
    /\ pc = "climb" =>
         /\ job.by = "x1" =>
              /\ current[0] = Node(h, Shr(idx, h) + Shr(Offset, h))
              /\ \A k \in h .. H - 1 : Odd(Shr(idx, k)) =>
                     stack[k][0] = Node(k, Shr(idx, k) - 1 + Shr(Offset, k))
         /\ job.by = "x8" /\ h <= H - 3 =>
              \A j \in Lanes :
                /\ current[j] = Node(h, 8 * Shr(idx, h) + j + Shr(Offset, h))
                /\ \A k \in h .. H - 4 : Odd(Shr(idx, k)) =>
                     stack[k][j] = Node(k, 8 * (Shr(idx, k) - 1) + j + Shr(Offset, k))

\* Every builder produces the tree's root, the sibling of every node above the
\* chosen leaf, and the opening of exactly that leaf; key generation, which
\* chooses no leaf, writes no path and opens nothing.
BuildsTheTree ==
    pc \in {"built", "check", "done"} =>
        /\ root = Node(H, job.tree)
        /\ IF job.leaf = NO_SIGN_LEAF
           THEN opened = None /\ \A k \in Levels : auth_path[k] = None
           ELSE /\ opened = job.leaf + Offset
                /\ \A k \in Levels :
                     auth_path[k] = Node(k, Sibling(Shr(job.leaf, k)) + Shr(Offset, k))

\* The verifier arrives at the root the signer built.
VerifierAgrees == pc = "done" => computed = root

=============================================================================
