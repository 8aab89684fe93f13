---------------------------- MODULE MCHashCalls ----------------------------
(***************************************************************************)
(* Chains: digests of three bytes of two digits each, so six chains of     *)
(* four values, the last group of four lanes half empty.  Two of the       *)
(* digests have the target checksum, one has more.                         *)
(*                                                                         *)
(* Addresses: three layers of trees of four levels (one below the top      *)
(* three, which treehashx8 treats apart), two FORS trees, two chains of    *)
(* two steps, and bytes of seven values, the least that holds a type: the  *)
(* tree, key pair and index fields run over more than one byte.  The       *)
(* messages reach different key pairs of one subtree, different subtrees,  *)
(* and the edges.                                                          *)
(*                                                                         *)
(* Digests, of the same trees: with bytes of five bits no field ends with  *)
(* a byte, every part has bits to spare, and the subtree takes two bytes.  *)
(***************************************************************************)
EXTENDS HashCalls, TLC

ASSUME WotsSizes == WotsAssumption
ASSUME AddressSizes == Addr!AddressAssumption
ASSUME FieldsSizes == Fields!FieldsAssumption

Digest(x, y, z) == [b \in 0 .. N - 1 |-> IF b = 0 THEN x ELSE IF b = 1 THEN y ELSE z]

\* Digits 030303, 123021 and 000120.
MCDigests == {Digest(3, 3, 3), Digest(6, 12, 9), Digest(0, 1, 8)}

MessageDigest(tr, key, first, second) ==
    [tree |-> tr, idx_leaf |-> key, indices |-> (0 :> first @@ 1 :> second)]
MCMessageDigests ==
    {MessageDigest(53, 0, 0, 7), MessageDigest(53, 15, 3, 3), MessageDigest(255, 9, 6, 0)}

\* The first two bytes are those of FORS, the next two the subtree's.
Output(v, w, x, y, z) ==
    0 :> v @@ 1 :> w @@ 2 :> x @@ 3 :> y @@ 4 :> z
MCOutputs ==
    {Output(v, w, 5, 5, 5) : v \in {0, 9, 31}, w \in {0, 17, 14}} \cup
    {Output(9, 0, x, y, z) : x \in {0, 21}, y \in {5, 16}, z \in {0, 15, 30}}

MCLengths == {(0 :> 0 @@ 1 :> 2), (0 :> 2 @@ 1 :> 1)}
=============================================================================
