----------------------------- MODULE HashCalls -----------------------------
(***************************************************************************)
(* The fields of the message digest, which choose what is signed, the      *)
(* addresses under which all hashes of the scheme are made, and the hash   *)
(* chains of one-time signatures.  They share no state (HashAddress takes  *)
(* the fields as they are and a chain to be made of its hashes, WotsChain  *)
(* an address to name one hash), so a behaviour is of one of them.         *)
(***************************************************************************)
EXTENDS WotsChain

CONSTANTS D, TREE_HEIGHT, FORS_SIG_TREES, FORS_HEIGHT, WOTS_LEN, WOTS_W, BYTE,
          MessageDigests, Lengths, MaxOps, DIGEST_BYTE_BITS, Outputs

VARIABLES turn, apc, aop, ops, digest, asigned, tree, idx_leaf, ai, idx, ac,
          wots_addr, tree_addr, wots_pk_addr, fors_pk_addr, node_addr, leaf_addr, pk_addr,
          fresh, log,
          fpc, buf, ftree, fleaf, indices

addrVars == <<apc, aop, ops, digest, asigned, tree, idx_leaf, ai, idx, ac,
              wots_addr, tree_addr, wots_pk_addr, fors_pk_addr, node_addr, leaf_addr, pk_addr,
              fresh, log>>

Addr == INSTANCE HashAddress WITH pc <- apc, op <- aop, signed <- asigned, i <- ai, c <- ac,
                                  Digests <- MessageDigests

fieldsVars == <<fpc, buf, ftree, fleaf, indices>>

Fields == INSTANCE DigestFields WITH pc <- fpc, tree <- ftree, idx_leaf <- fleaf,
                                     BYTE_BITS <- DIGEST_BYTE_BITS

HashInit ==
    /\ turn \in {"digest", "addresses", "chains"}
    /\ Init
    /\ Addr!Init
    /\ Fields!Init
    /\ turn # "chains" => build = "x1" /\ sign_leaf = 0
    /\ turn # "digest" => buf = CHOOSE m \in Outputs : TRUE

HashNext ==
    \/ turn = "chains" /\ Next /\ UNCHANGED <<turn, addrVars, fieldsVars>>
    \/ turn = "addresses" /\ Addr!Next /\ UNCHANGED <<turn, vars, fieldsVars>>
    \/ turn = "digest" /\ Fields!Next /\ UNCHANGED <<turn, vars, addrVars>>

HashSpec == HashInit /\ [][HashNext]_<<turn, vars, addrVars, fieldsVars>>

\* Domain separation: two hash calls carry the same address exactly when they
\* compute the same thing, whichever of key generation, signing in either build,
\* and verification makes them, and whatever earlier calls, layers and trees left
\* in the buffers the setters of address.c work on.  No position leaves the
\* hypertree.
AddressNamesRole == Addr!AddressNamesRole

\* The verifier of a signature (crypto_sign_verify, fors_pk_from_sig,
\* wots_pk_from_sig) hashes nothing the signer did not hash, under the address the
\* signer hashed it under.
VerifierRetraces == Addr!VerifierRetraces

\* No bit of a message digest decides two things (FORS leaves, compressed index,
\* subtree and leaf of hash_message, message_to_indices and
\* forsc_compressed_index), as many bits decide something as the fields have, and
\* what they decide exists: the fields are independent and uniform if the digest
\* is.
EveryBitDecidesOnce ==
    turn = "digest" =>
        /\ Fields!TypeOK
        /\ fpc = "hash" =>
             /\ \A p \in Fields!Places : Cardinality(Fields!Decides(buf, p)) <= 1
             /\ Cardinality({p \in Fields!Places : Fields!Decides(buf, p) # {}})
                  = FORS_HEIGHT * (FORS_SIG_TREES + 1) + TREE_HEIGHT * D
=============================================================================
