------------------------------- MODULE KeyHeap -------------------------------
(***************************************************************************)
(* Who owns the heap blocks of the library, and what is left in them.      *)
(*                                                                         *)
(* bitcoin_pqc_keygen and bitcoin_pqc_sign hand malloc'ed buffers to the   *)
(* caller through a struct; bitcoin_pqc_keypair_free and                   *)
(* bitcoin_pqc_signature_free take them back.  Seed derivation copies the  *)
(* caller's entropy to a block of its own.  The Rust crate calls the same  *)
(* functions on structs of its frames, copies the bytes into Vecs and      *)
(* frees the structs at once.  All threads of the process share one heap,  *)
(* and a block given back by one thread is the next block of another.      *)
(*                                                                         *)
(* C callers may make these calls in any order on their struct, also free  *)
(* it twice or when it was never filled.  Any malloc may fail.  What the   *)
(* signature scheme computes is left to SignSession: a signing run ends    *)
(* here with any of its outcomes.                                          *)
(***************************************************************************)
EXTENDS Integers

CONSTANTS
    CThreads,                         \* threads that call the C functions
    RustThreads,                      \* threads that call the Rust crate
    Blocks,                           \* what the allocator deals out
    NULL

ASSUME HeapAssumption ==
    /\ CThreads \cap RustThreads = {}
    /\ NULL \notin Blocks

Threads == CThreads \cup RustThreads

\* The pointers a thread can hold: pk, sk, input and sig in the frames of the
\* library, the fields of bitcoin_pqc_keypair_t and bitcoin_pqc_signature_t,
\* and the Vecs inside PublicKey, SecretKey and Signature, inside a clone of
\* the SecretKey, and the one hex::decode returns to from_str.
FramePtrs  == {"pk", "sk", "input", "sig"}
StructPtrs == {"public_key", "secret_key", "signature"}
VecPtrs    == {"PublicKey", "SecretKey", "Signature", "Clone", "decoded"}
Ptrs == FramePtrs \cup StructPtrs \cup VecPtrs

\* What a block holds: nothing of interest, zeros, or something of a thread's.
Kinds == {"entropy", "secret_key", "public_key", "raw_signature", "signature", "decoded"}
Things == [kind : Kinds, of : Threads]
Thing(k, t) == [kind |-> k, of |-> t]
Junk == Thing("junk", NULL)
Zero == Thing("zero", NULL)
Data == Things \cup {Junk, Zero}

\* Bytes that should not survive in memory the library has given back.  A
\* signature is among them until it has been verified, and so is what
\* hex::decode returns to SecretKey::from_str: the bytes of a secret key.
Secret(d) == d.kind \in {"entropy", "secret_key", "raw_signature", "decoded"}

VARIABLES
    pc,                               \* where each thread is
    ptr,                              \* its pointers
    size,                             \* the size fields of its structs are set
    live, data,                       \* the heap
    result                            \* the error code of the current call, OK between calls

vars == <<pc, ptr, size, live, data, result>>

Errors == {"OK", "BAD_ARG", "BAD_KEY", "BAD_SIGNATURE", "SIGNING_LIMIT",
           "OUT_OF_MEMORY"}
PCs == {"idle", "kg_pk", "kg_sk", "kg_check", "kg_input", "kg_derive", "kg_fill",
        "kg_publish", "kg_fail", "kg_ret", "copy_pk", "copy_sk", "kf_pk", "kf_sk",
        "parse", "parsed", "sg_malloc", "sg_run", "sg_verify", "sg_fail", "sg_ret", "copy_sig", "sf"}

----------------------------------------------------------------------------
(* malloc, free and bitcoin_pqc_secure_zero                                *)

Goto(t, l) == pc' = [pc EXCEPT ![t] = l]

\* Thread t is back in its caller, which has the error code.
GoIdle(t) == Goto(t, "idle") /\ result' = [result EXCEPT ![t] = "OK"]

\* malloc for pointer p of thread t: a block nobody has, with whatever its
\* last owner left in it, or NULL.
Malloc(t, p) ==
    \/ \E b \in Blocks :
          /\ ~live[b]
          /\ live' = [live EXCEPT ![b] = TRUE]
          /\ ptr' = [ptr EXCEPT ![t][p] = b]
    \/ /\ ptr' = [ptr EXCEPT ![t][p] = NULL]
       /\ UNCHANGED live

\* secure_zero on the blocks S.
Wiped(S) == [b \in Blocks |-> IF b \in S THEN Zero ELSE data[b]]

\* free: only a secret is told apart from the other leftovers.
Freed(d, S) == [b \in Blocks |-> IF b \in S /\ ~Secret(d[b]) THEN Junk ELSE d[b]]
Dead(S) == [b \in Blocks |-> IF b \in S THEN FALSE ELSE live[b]]

\* The blocks behind some pointers of t, without the NULL ones.
At(t, P) == {ptr[t][p] : p \in P} \ {NULL}

\* The struct's secure_zero covers size bytes: none before the size is set.
Sized(t, P) == {p \in P : size[t][p]}

\* Pointers set to NULL, or gone with their frame.
Forget(t, P) == [ptr EXCEPT ![t] = [p \in Ptrs |-> IF p \in P THEN NULL ELSE @[p]]]

----------------------------------------------------------------------------
(* bitcoin_pqc_keygen, with slh_dsa_keygen and derive_keygen_seed_v1       *)

\* keypair_output_is_empty, signature_output_is_empty
OutputIsEmpty(t, P) == \A p \in P : ptr[t][p] = NULL /\ ~size[t][p]
KeypairPtrs == {"public_key", "secret_key"}

\* The arguments: an empty struct and at least 128 bytes of entropy.
KeygenAccepts(t, enough) == OutputIsEmpty(t, KeypairPtrs) /\ enough

Keygen(t) ==
    \E enough \in BOOLEAN :
      /\ t \in CThreads
      /\ pc[t] = "idle"
      /\ IF KeygenAccepts(t, enough)
         THEN Goto(t, "kg_pk") /\ UNCHANGED result
         ELSE Goto(t, "kg_ret") /\ result' = [result EXCEPT ![t] = "BAD_ARG"]
      /\ UNCHANGED <<ptr, size, live, data>>

MallocPk(t) ==
    /\ pc[t] = "kg_pk"
    /\ Malloc(t, "pk")
    /\ Goto(t, "kg_sk")
    /\ UNCHANGED <<size, data, result>>

MallocSk(t) ==
    /\ pc[t] = "kg_sk"
    /\ Malloc(t, "sk")
    /\ Goto(t, "kg_check")
    /\ UNCHANGED <<size, data, result>>

\* Faulty variant: an error only if both are missing.
KeygenCheck_Both(t) ==
    /\ pc[t] = "kg_check"
    /\ IF {NULL} = {ptr[t]["pk"], ptr[t]["sk"]}
       THEN Goto(t, "kg_fail") /\ result' = [result EXCEPT ![t] = "OUT_OF_MEMORY"]
       ELSE Goto(t, "kg_input") /\ UNCHANGED result
    /\ UNCHANGED <<ptr, size, live, data>>

\* Both blocks or an error.
KeygenCheck(t) ==
    /\ pc[t] = "kg_check"
    /\ IF NULL \in {ptr[t]["pk"], ptr[t]["sk"]}
       THEN Goto(t, "kg_fail") /\ result' = [result EXCEPT ![t] = "OUT_OF_MEMORY"]
       ELSE Goto(t, "kg_input") /\ UNCHANGED result
    /\ UNCHANGED <<ptr, size, live, data>>

\* derive_keygen_seed_v1 refuses entropy so long that a size_t cannot hold the
\* length of its input.  No Rust slice is as long.
InputTooLong(t) ==
    /\ t \in CThreads
    /\ pc[t] = "kg_input"
    /\ Goto(t, "kg_fail")
    /\ result' = [result EXCEPT ![t] = "BAD_KEY"]
    /\ UNCHANGED <<ptr, size, live, data>>

\* derive_keygen_seed_v1 allocates its input.
MallocInput(t) ==
    /\ pc[t] = "kg_input"
    /\ Malloc(t, "input")
    /\ IF ptr'[t]["input"] = NULL
       THEN Goto(t, "kg_fail") /\ result' = [result EXCEPT ![t] = "OUT_OF_MEMORY"]
       ELSE Goto(t, "kg_derive") /\ UNCHANGED result
    /\ data' = [b \in Blocks |-> IF b = ptr'[t]["input"] THEN Thing("entropy", t)
                                 ELSE data[b]]
    /\ UNCHANGED size

\* The seed is the digest of the input, which is wiped and freed.
DeriveSeed(t) ==
    /\ pc[t] = "kg_derive"
    /\ data' = Freed(Wiped(At(t, {"input"})), At(t, {"input"}))
    /\ live' = Dead(At(t, {"input"}))
    /\ ptr' = Forget(t, {"input"})
    /\ Goto(t, "kg_fill")
    /\ UNCHANGED <<size, result>>

\* crypto_sign_seed_keypair: seeds and root into sk, the public half into pk.
\* Without a leaf to sign merkle_gen_root cannot fail.
SeedKeypair(t) ==
    /\ pc[t] = "kg_fill"
    /\ data' = [data EXCEPT ![ptr[t]["sk"]] = Thing("secret_key", t),
                            ![ptr[t]["pk"]] = Thing("public_key", t)]
    /\ Goto(t, "kg_publish")
    /\ UNCHANGED <<ptr, size, live, result>>

\* Faulty variant: the sizes are not stored.
Sizes_Unset(t, P, v) == size

Sizes(t, P, v) == [size EXCEPT ![t] = [p \in StructPtrs |-> IF p \in P THEN v ELSE @[p]]]

\* The struct takes the blocks over.
PublishKeypair(t) ==
    /\ pc[t] = "kg_publish"
    /\ ptr' = [ptr EXCEPT ![t]["public_key"] = ptr[t]["pk"],
                          ![t]["secret_key"] = ptr[t]["sk"],
                          ![t]["pk"] = NULL, ![t]["sk"] = NULL]
    /\ size' = Sizes(t, KeypairPtrs, TRUE)
    /\ result' = [result EXCEPT ![t] = "OK"]
    /\ Goto(t, "kg_ret")
    /\ UNCHANGED <<live, data>>

\* Either error after the first malloc: wipe and free what there is.
KeygenFail(t) ==
    /\ pc[t] = "kg_fail"
    /\ LET S == At(t, {"pk", "sk"}) IN
         /\ data' = Freed(Wiped(S), S)
         /\ live' = Dead(S)
    /\ ptr' = Forget(t, {"pk", "sk"})
    /\ Goto(t, "kg_ret")
    /\ UNCHANGED <<size, result>>

----------------------------------------------------------------------------
(* bitcoin_pqc_keypair_free and bitcoin_pqc_signature_free                 *)

\* Wipe as many bytes as the struct says, free, set to NULL; then the size.
FreeField(t, p) ==
    /\ LET S == At(t, {p}) IN
         /\ data' = Freed(Wiped(At(t, Sized(t, {p}))), S)
         /\ live' = Dead(S)
    /\ ptr' = Forget(t, {p})

\* A C caller frees its struct in any state of it, as often as it likes.
KeypairFree(t) ==
    /\ t \in CThreads
    /\ pc[t] = "idle"
    /\ Goto(t, "kf_pk")
    /\ UNCHANGED <<ptr, size, live, data, result>>

\* Faulty variant: the sizes are reset before the secret key is wiped.
FreePublicKey_SizesFirst(t) ==
    /\ pc[t] = "kf_pk"
    /\ FreeField(t, "public_key")
    /\ size' = Sizes(t, KeypairPtrs, FALSE)
    /\ Goto(t, "kf_sk")
    /\ UNCHANGED result

FreePublicKey(t) ==
    /\ pc[t] = "kf_pk"
    /\ FreeField(t, "public_key")
    /\ Goto(t, "kf_sk")
    /\ UNCHANGED <<size, result>>

\* The sizes are reset last.  Back to the caller, or to generate_keypair.
FreeSecretKey(t) ==
    /\ pc[t] = "kf_sk"
    /\ FreeField(t, "secret_key")
    /\ size' = Sizes(t, KeypairPtrs, FALSE)
    /\ GoIdle(t)

SignatureFree(t) ==
    /\ t \in CThreads
    /\ pc[t] = "idle"
    /\ Goto(t, "sf")
    /\ UNCHANGED <<ptr, size, live, data, result>>

FreeSignature(t) ==
    /\ pc[t] = "sf"
    /\ FreeField(t, "signature")
    /\ size' = Sizes(t, {"signature"}, FALSE)
    /\ GoIdle(t)

----------------------------------------------------------------------------
(* bitcoin_pqc_sign_impl                                                   *)

\* The checks: an empty struct; a key of another size is refused.
Sign(t) ==
    \E sized \in BOOLEAN :
      /\ t \in CThreads
      /\ pc[t] = "idle"
      /\ LET r == IF ~OutputIsEmpty(t, {"signature"}) THEN "BAD_ARG"
                  ELSE IF ~sized THEN "BAD_KEY" ELSE "OK"
         IN  /\ result' = [result EXCEPT ![t] = r]
             /\ Goto(t, IF r = "OK" THEN "sg_malloc" ELSE "sg_ret")
      /\ UNCHANGED <<ptr, size, live, data>>

MallocSig(t) ==
    /\ pc[t] = "sg_malloc"
    /\ Malloc(t, "sig")
    /\ IF ptr'[t]["sig"] = NULL
       THEN Goto(t, "sg_ret") /\ result' = [result EXCEPT ![t] = "OUT_OF_MEMORY"]
       ELSE Goto(t, "sg_run") /\ UNCHANGED result
    /\ UNCHANGED <<size, data>>

\* slh_dsa_sign_with_stats fills the buffer, or fails and leaves zeros.
RunSign(t) ==
    /\ pc[t] = "sg_run"
    /\ \/ /\ data' = [data EXCEPT ![ptr[t]["sig"]] = Thing("raw_signature", t)]
          /\ Goto(t, "sg_verify")
          /\ UNCHANGED result
       \/ \E e \in {"SIGNING_LIMIT", "BAD_KEY", "BAD_SIGNATURE"} :
            /\ data' = [data EXCEPT ![ptr[t]["sig"]] = Zero]
            /\ result' = [result EXCEPT ![t] = e]
            /\ Goto(t, "sg_fail")
    /\ UNCHANGED <<ptr, size, live>>

\* slh_dsa_verify on the new signature; if it accepts, the struct takes it.
VerifyAndPublish(t) ==
    /\ pc[t] = "sg_verify"
    /\ \/ /\ data' = [data EXCEPT ![ptr[t]["sig"]] = Thing("signature", t)]
          /\ ptr' = [ptr EXCEPT ![t]["signature"] = ptr[t]["sig"], ![t]["sig"] = NULL]
          /\ size' = Sizes(t, {"signature"}, TRUE)
          /\ result' = [result EXCEPT ![t] = "OK"]
          /\ Goto(t, "sg_ret")
       \/ /\ result' = [result EXCEPT ![t] = "BAD_SIGNATURE"]
          /\ Goto(t, "sg_fail")
          /\ UNCHANGED <<ptr, size, data>>
    /\ UNCHANGED live

\* Faulty variant: the error return forgets the buffer.
SignFail_Leak(t) ==
    /\ pc[t] = "sg_fail"
    /\ data' = Wiped(At(t, {"sig"}))
    /\ ptr' = Forget(t, {"sig"})
    /\ Goto(t, "sg_ret")
    /\ UNCHANGED <<size, live, result>>

SignFail(t) ==
    /\ pc[t] = "sg_fail"
    /\ LET S == At(t, {"sig"}) IN
         /\ data' = Freed(Wiped(S), S)
         /\ live' = Dead(S)
    /\ ptr' = Forget(t, {"sig"})
    /\ Goto(t, "sg_ret")
    /\ UNCHANGED <<size, result>>

\* A C caller gets the error code.
ReturnToC(t) ==
    /\ t \in CThreads
    /\ pc[t] \in {"kg_ret", "sg_ret"}
    /\ GoIdle(t)
    /\ UNCHANGED <<ptr, size, live, data>>

----------------------------------------------------------------------------
(* The Rust crate: generate_keypair, sign_inner, and dropping what they    *)
(* return.  A Vec that cannot be allocated ends the process, so here its   *)
(* allocation waits for a block.                                           *)

\* A block nobody has, for pointer p of t, that holds d.
NewVec(t, p, d) ==
    \E b \in Blocks :
      /\ ~live[b]
      /\ live' = [live EXCEPT ![b] = TRUE]
      /\ ptr' = [ptr EXCEPT ![t][p] = b]
      /\ data' = [data EXCEPT ![b] = d]

\* generate_keypair tests the length itself, before there is a struct.
GenerateKeypair(t) ==
    /\ t \in RustThreads
    /\ pc[t] = "idle"
    /\ ptr[t]["SecretKey"] = NULL
    /\ Goto(t, "kg_pk")
    /\ UNCHANGED <<ptr, size, live, data, result>>

\* SecretKey::try_from_slice: the length is checked, the bytes are copied.
ImportSecretKey(t) ==
    /\ t \in RustThreads
    /\ pc[t] = "idle"
    /\ ptr[t]["SecretKey"] = NULL
    /\ NewVec(t, "SecretKey", Thing("secret_key", t))
    /\ UNCHANGED <<pc, size, result>>

\* SecretKey::from_str decodes the string, if it is hexadecimal.
FromStr(t) ==
    /\ t \in RustThreads
    /\ pc[t] = "idle"
    /\ ptr[t]["SecretKey"] = NULL
    /\ NewVec(t, "decoded", Thing("decoded", t))
    /\ Goto(t, "parse")
    /\ UNCHANGED <<size, result>>

\* try_from_slice copies what has the right length.
FromDecoded(t) ==
    /\ pc[t] = "parse"
    /\ \/ NewVec(t, "SecretKey", Thing("secret_key", t))
       \/ UNCHANGED <<live, ptr, data>>
    /\ Goto(t, "parsed")
    /\ UNCHANGED <<size, result>>

\* The decoded bytes are dropped, as a plain Vec and without a wipe, on either
\* return.
DropDecoded(t) ==
    /\ pc[t] = "parsed"
    /\ LET S == At(t, {"decoded"}) IN
         /\ data' = Freed(data, S)
         /\ live' = Dead(S)
    /\ ptr' = Forget(t, {"decoded"})
    /\ Goto(t, "idle")
    /\ UNCHANGED <<size, result>>

\* SecretKey: Clone.
CloneSecretKey(t) ==
    /\ t \in RustThreads
    /\ pc[t] = "idle"
    /\ ptr[t]["SecretKey"] # NULL /\ ptr[t]["Clone"] = NULL
    /\ NewVec(t, "Clone", data[ptr[t]["SecretKey"]])
    /\ UNCHANGED <<pc, size, result>>

\* Where the C function returns to: copy on success; on an error free the
\* struct all the same.
CallReturned(t) ==
    /\ t \in RustThreads
    /\ \/ pc[t] = "kg_ret" /\ Goto(t, IF result[t] = "OK" THEN "copy_pk" ELSE "kf_pk")
       \/ pc[t] = "sg_ret" /\ Goto(t, IF result[t] = "OK" THEN "copy_sig" ELSE "sf")
    /\ UNCHANGED <<ptr, size, live, data, result>>

\* slice::from_raw_parts(...).to_vec()
ToVec(t, from, to) ==
    /\ NewVec(t, to, data[ptr[t][from]])
    /\ UNCHANGED <<size, result>>

CopyPublicKey(t) ==
    /\ pc[t] = "copy_pk"
    /\ ToVec(t, "public_key", "PublicKey")
    /\ Goto(t, "copy_sk")

CopySecretKey(t) ==
    /\ pc[t] = "copy_sk"
    /\ ToVec(t, "secret_key", "SecretKey")
    /\ Goto(t, "kf_pk")

\* sign and sign_with_stats on a SecretKey the thread has.
SignInner(t) ==
    /\ t \in RustThreads
    /\ pc[t] = "idle"
    /\ ptr[t]["SecretKey"] # NULL
    /\ ptr[t]["Signature"] = NULL
    /\ Goto(t, "sg_malloc")
    /\ UNCHANGED <<ptr, size, live, data, result>>

CopySignature(t) ==
    /\ pc[t] = "copy_sig"
    /\ ToVec(t, "signature", "Signature")
    /\ Goto(t, "sf")

\* Drop: Vec frees its block; SecretKey is ZeroizeOnDrop.
DropKeyPair(t) ==
    /\ t \in RustThreads
    /\ pc[t] = "idle"
    /\ LET S == At(t, {"PublicKey", "SecretKey"}) IN
         /\ S # {}
         /\ data' = Freed(Wiped(At(t, {"SecretKey"})), S)
         /\ live' = Dead(S)
    /\ ptr' = Forget(t, {"PublicKey", "SecretKey"})
    /\ UNCHANGED <<pc, size, result>>

DropClone(t) ==
    /\ t \in RustThreads
    /\ pc[t] = "idle"
    /\ LET S == At(t, {"Clone"}) IN
         /\ S # {}
         /\ data' = Freed(Wiped(S), S)
         /\ live' = Dead(S)
    /\ ptr' = Forget(t, {"Clone"})
    /\ UNCHANGED <<pc, size, result>>

DropSignature(t) ==
    /\ t \in RustThreads
    /\ pc[t] = "idle"
    /\ LET S == At(t, {"Signature"}) IN
         /\ S # {}
         /\ data' = Freed(data, S)
         /\ live' = Dead(S)
    /\ ptr' = Forget(t, {"Signature"})
    /\ UNCHANGED <<pc, size, result>>

----------------------------------------------------------------------------
Init ==
    /\ pc = [t \in Threads |-> "idle"]
    /\ ptr = [t \in Threads |-> [p \in Ptrs |-> NULL]]
    /\ size = [t \in Threads |-> [p \in StructPtrs |-> FALSE]]
    /\ live = [b \in Blocks |-> FALSE]
    /\ data = [b \in Blocks |-> Junk]
    /\ result = [t \in Threads |-> "OK"]

KeygenStep(t) ==
    \/ Keygen(t) \/ MallocPk(t) \/ MallocSk(t) \/ KeygenCheck(t) \/ InputTooLong(t)
    \/ MallocInput(t) \/ DeriveSeed(t) \/ SeedKeypair(t) \/ PublishKeypair(t) \/ KeygenFail(t)

SignStep(t) ==
    \/ Sign(t) \/ MallocSig(t) \/ RunSign(t) \/ VerifyAndPublish(t) \/ SignFail(t)

FreeStep(t) ==
    \/ KeypairFree(t) \/ FreePublicKey(t) \/ FreeSecretKey(t)
    \/ SignatureFree(t) \/ FreeSignature(t)

RustStep(t) ==
    \/ GenerateKeypair(t) \/ ImportSecretKey(t) \/ CallReturned(t) \/ CopyPublicKey(t)
    \/ CopySecretKey(t) \/ SignInner(t) \/ CopySignature(t) \/ DropKeyPair(t)
    \/ DropSignature(t) \/ FromStr(t) \/ FromDecoded(t) \/ DropDecoded(t)
    \/ CloneSecretKey(t) \/ DropClone(t)

Next ==
    \E t \in Threads :
      KeygenStep(t) \/ SignStep(t) \/ FreeStep(t) \/ ReturnToC(t) \/ RustStep(t)

Spec == Init /\ [][Next]_vars

----------------------------------------------------------------------------
(* Properties.                                                             *)

\* The pointers the next step of a thread reads or writes through.
Uses == [l \in PCs |->
    IF l \in {"kg_input", "kg_fill", "kg_publish"} THEN {"pk", "sk"}
    ELSE IF l = "kg_derive" THEN {"pk", "sk", "input"}
    ELSE IF l \in {"sg_run", "sg_verify", "sg_fail"} THEN {"sig"}
    ELSE IF l \in {"copy_pk", "copy_sk"} THEN {"public_key", "secret_key"}
    ELSE IF l = "copy_sig" THEN {"signature"} ELSE {}]

\* Every variable stays in its domain, and no step goes through a NULL
\* pointer: neither after one of several mallocs failed nor in the Rust
\* crate's from_raw_parts.
TypeOK ==
    /\ pc \in [Threads -> PCs]
    /\ ptr \in [Threads -> [Ptrs -> Blocks \cup {NULL}]]
    /\ size \in [Threads -> [StructPtrs -> BOOLEAN]]
    /\ live \in [Blocks -> BOOLEAN]
    /\ data \in [Blocks -> Data]
    /\ result \in [Threads -> Errors]
    /\ \A t \in Threads : \A p \in Uses[pc[t]] : ptr[t][p] # NULL

\* Every allocated block hangs on exactly one pointer of one thread and every
\* pointer is to an allocated block.  So no call leaks a block, frees one
\* twice or uses one that is gone, for any malloc that fails and any order of
\* calls (bitcoin_pqc_keygen's and bitcoin_pqc_sign's error returns, the two
\* free functions, generate_keypair, sign_inner).
OneOwner ==
    /\ \A t \in Threads, p \in Ptrs :
         /\ ptr[t][p] # NULL => live[ptr[t][p]]
         /\ \A u \in Threads, q \in Ptrs :
              ptr[t][p] = ptr[u][q] /\ ptr[t][p] # NULL => t = u /\ p = q
    /\ \A b \in Blocks : live[b] => \E t \in Threads, p \in Ptrs : ptr[t][p] = b

\* What may be in memory that was given back: no secret, except the bytes that
\* a Rust thread's SecretKey::from_str decoded.
MayRemain(d) == ~Secret(d) \/ \E t \in RustThreads : d = Thing("decoded", t)

\* Of the secrets, memory the allocator may deal out again holds at most what
\* hex::decode returned to SecretKey::from_str, which drops it as it is.  All
\* others are gone: each return path of bitcoin_pqc_keygen and
\* bitcoin_pqc_sign_impl and the two free functions wipe before they free, and
\* every drop of a SecretKey does.  In a process that only calls the C functions
\* no secret remains at all.
OnlyDecodedRemains == \A b \in Blocks : ~live[b] => MayRemain(data[b])

\* A keypair struct or KeyPair a caller can see holds both halves of a key of
\* its own or nothing, with sizes to match; a signature likewise.  Failed and
\* refused calls leave it as it was.
WholeOrNothing ==
    \A t \in Threads : pc[t] = "idle" =>
      /\ \A p \in StructPtrs :
           /\ size[t][p] <=> ptr[t][p] # NULL
           /\ ptr[t][p] # NULL => data[ptr[t][p]] = Thing(p, t)
      /\ ptr[t]["public_key"] = NULL <=> ptr[t]["secret_key"] = NULL
      /\ ptr[t]["SecretKey"] # NULL => data[ptr[t]["SecretKey"]] = Thing("secret_key", t)
      /\ ptr[t]["Clone"] # NULL => data[ptr[t]["Clone"]] = Thing("secret_key", t)
      /\ ptr[t]["PublicKey"] # NULL => /\ data[ptr[t]["PublicKey"]] = Thing("public_key", t)
                                       /\ ptr[t]["SecretKey"] # NULL
      /\ ptr[t]["Signature"] # NULL => data[ptr[t]["Signature"]] = Thing("signature", t)
      /\ \A p \in FramePtrs \cup {"decoded"} : ptr[t][p] = NULL
=============================================================================
