--------------------------- MODULE SignedMessage ---------------------------
(***************************************************************************)
(* Keys and signed messages as the bytes they are handed around as: the    *)
(* key pair that crypto_sign_seed_keypair lays out, the secret key         *)
(* validator that recomputes its last field, crypto_sign, which puts a     *)
(* signature before its message, and crypto_sign_open, which checks it and *)
(* moves the message out.  Both calls move the message with memmove, so    *)
(* the caller may keep m and sm in one memory; between the calls it may    *)
(* damage a byte of the secret key, or damage or cut off the signed        *)
(* message.                                                                *)
(*                                                                         *)
(* A byte is a tuple that says what it was computed from; equal bytes are  *)
(* bytes computed alike.  A signature is the N bytes of R and one byte for *)
(* the rest.                                                               *)
(***************************************************************************)
EXTENDS Integers, Sequences

CONSTANTS
    N,            \* bytes of a field of a key (SPX_N)
    Seeds,        \* the seeds, sequences of CRYPTO_SEEDBYTES bytes
    Texts,        \* the messages, sequences of bytes
    MEM,          \* bytes of the caller's memory
    SM,           \* where the signed message starts in it
    Optrands      \* what the random source may deliver

ASSUME LayoutAssumption ==
    /\ \A s \in Seeds \cup Texts : s \in Seq({s[i] : i \in DOMAIN s})
    /\ \A seed \in Seeds : Len(seed) = 3 * N
    /\ N \in Nat \ {0} /\ MEM \in Nat /\ SM \in Nat
    /\ \A t \in Texts : SM + N + 1 + Len(t) <= MEM

VARIABLES
    pc,           \* what the caller does next
    sk, pk,       \* the secret and the public key
    genuine,      \* the public key that key generation returned
    valid,        \* the validator's answer
    mem,          \* the caller's memory
    text,         \* the message that crypto_sign was called with
    smlen,        \* length of the signed message
    signed,       \* whether crypto_sign succeeded
    intact,       \* whether it reached crypto_sign_open unchanged
    under,        \* the public key it is opened under
    m, mlen,      \* where crypto_sign_open puts the message, and its length
    result        \* what crypto_sign_open returned

vars == <<pc, sk, pk, genuine, valid, mem, text, smlen, signed, intact, under, m, mlen, result>>

SPX_BYTES == N + 1

(***************************************************************************)
(* Bytes.                                                                  *)
(***************************************************************************)
Zero == <<"zero">>
Junk == <<"junk">>
Unused == <<"unused">>
Clear == [i \in 0 .. MEM - 1 |-> Unused]

\* Fields 0 to 3 of a secret key: SK_SEED, SK_PRF, PUB_SEED and root.
Field(key, f) == SubSeq(key, f * N + 1, (f + 1) * N)

\* merkle_gen_root signs no leaf (its wots_sign_leaf is all ones), so that it
\* cannot fail; the root depends on SK_SEED and PUB_SEED alone.
merkle_gen_root(sk_seed, pub_seed) == [i \in 1 .. N |-> <<"root", i, sk_seed, pub_seed>>]

\* Faulty variant: the validator stops one byte early.
bytes_equal_Short(lhs, rhs) == \A i \in 1 .. Len(lhs) - 1 : lhs[i] = rhs[i]

bytes_equal(lhs, rhs) == \A i \in 1 .. Len(lhs) : lhs[i] = rhs[i]

\* The bytes [at, at + len) of a memory.
Read(bytes, at, len) == [i \in 1 .. len |-> bytes[at + i - 1]]
Write(bytes, at, s) ==
    [i \in DOMAIN bytes |-> IF i \in at .. at + Len(s) - 1 THEN s[i - at + 1] ELSE bytes[i]]
Memset(bytes, at, len) == Write(bytes, at, [i \in 1 .. len |-> Zero])

\* Faulty variant: memcpy that copies upwards, which repeats the first bytes when
\* the destination lies inside the source.
Memmove_Upwards(bytes, to, from, len) ==
    IF to > from /\ to < from + len
    THEN Write(bytes, to, [i \in 1 .. len |-> bytes[from + ((i - 1) % (to - from))]])
    ELSE Write(bytes, to, Read(bytes, from, len))

Memmove(bytes, to, from, len) == Write(bytes, to, Read(bytes, from, len))

(***************************************************************************)
(* The detached signature.  R depends on SK_PRF, the random bytes and the  *)
(* message; the rest on both seeds and the digest of R, the public key and *)
(* the message.                                                            *)
(***************************************************************************)
gen_message_random(sk_prf, optrand, msg) == [i \in 1 .. N |-> <<"R", i, sk_prf, optrand, msg>>]
Rest(sk_seed, pub_seed, digest) == <<"rest", sk_seed, pub_seed, digest>>
hash_message(R, key, msg) == <<R, key, msg>>

\* What the verifier computes from a signature is the signer's root when the
\* signature answers the digest under the verifier's PUB_SEED, and otherwise a
\* value that no key has as its root.
RootFromSig(sig, msg, key) ==
    LET R    == SubSeq(sig, 1, N)
        rest == sig[N + 1]
    IN  IF rest[1] = "rest" /\ rest[3] = Field(key, 0) /\ rest[4] = hash_message(R, key, msg)
        THEN merkle_gen_root(rest[2], rest[3])
        ELSE [i \in 1 .. N |-> <<"stray">>]

Verifies(sig, msg, key) == RootFromSig(sig, msg, key) = Field(key, 1)

(***************************************************************************)
(* crypto_sign_seed_keypair: the seed is the first three fields.           *)
(***************************************************************************)
PublicKey(key) == Field(key, 2) \o Field(key, 3)

KeyGen ==
    /\ pc = "keygen"
    /\ \E seed \in Seeds :
        LET key == seed \o merkle_gen_root(Field(seed, 0), Field(seed, 2))
        IN  /\ sk' = key
            /\ pk' = PublicKey(key)
            /\ genuine' = PublicKey(key)
    /\ pc' = "validate"
    /\ UNCHANGED <<valid, mem, text, smlen, signed, intact, under, m, mlen, result>>

\* A byte of the stored secret key changes; with it the public key that the
\* secret key holds.
Damage ==
    /\ pc = "validate" /\ pk = genuine
    /\ \E i \in 1 .. 4 * N :
        /\ sk' = [sk EXCEPT ![i] = Junk]
        /\ pk' = SubSeq(sk', 2 * N + 1, 4 * N)
    /\ sk' # sk
    /\ UNCHANGED <<pc, genuine, valid, mem, text, smlen, signed, intact, under, m, mlen, result>>

slh_dsa_secret_key_validate ==
    /\ pc = "validate"
    /\ valid' = bytes_equal(merkle_gen_root(Field(sk, 0), Field(sk, 2)), Field(sk, 3))
    /\ pc' = "sign"
    /\ UNCHANGED <<sk, pk, genuine, mem, text, smlen, signed, intact, under, m, mlen, result>>

(***************************************************************************)
(* crypto_sign.  It does not validate the key.  The signature is written   *)
(* first, so the message may lie anywhere except under it.                 *)
(***************************************************************************)
Places(len) == {a \in 0 .. MEM - len : a + len <= SM \/ a >= SM + SPX_BYTES}

crypto_sign ==
    /\ pc = "sign"
    /\ \E t \in Texts, o \in Optrands : \E a \in Places(Len(t)) :
        LET given  == Write(Clear, a, t)
            R      == gen_message_random(Field(sk, 1), o, t)
            withR  == Write(given, SM, R)
            digest == hash_message(R, SubSeq(sk, 2 * N + 1, 4 * N), Read(withR, a, Len(t)))
            sig    == Append(R, Rest(Field(sk, 0), Field(sk, 2), digest))
        IN  /\ text' = t
            /\ mem' = Memmove(Write(withR, SM, sig), SM + SPX_BYTES, a, Len(t))
            /\ smlen' = SPX_BYTES + Len(t)
    /\ signed' = TRUE
    /\ pc' = "deliver"
    /\ UNCHANGED <<sk, pk, genuine, valid, intact, under, m, mlen, result>>

\* The random source is dry, the FORS+C grind or a WOTS+C search meets its limit:
\* whatever part of the signature is written already goes.
SignFails(bytes) == Memset(bytes, SM, SPX_BYTES)

crypto_sign_fails ==
    /\ pc = "sign"
    /\ \E t \in Texts, written \in {0, N, SPX_BYTES}, o \in Optrands : \E a \in Places(Len(t)) :
        LET R    == gen_message_random(Field(sk, 1), o, t)
            sig  == Append(R, Rest(Field(sk, 0), Field(sk, 2), <<>>))
        IN  /\ text' = t
            /\ mem' = SignFails(Write(Write(Clear, a, t), SM, SubSeq(sig, 1, written)))
    /\ smlen' = 0
    /\ signed' = FALSE
    /\ pc' = "deliver"
    /\ UNCHANGED <<sk, pk, genuine, valid, intact, under, m, mlen, result>>

(***************************************************************************)
(* The way to the receiver: unchanged, one byte damaged, or cut off.       *)
(***************************************************************************)
Arrive(bytes, len) ==
    /\ mem' = bytes
    /\ smlen' = len
    /\ intact' = (bytes = mem /\ len = smlen)
    /\ pc' = "open"
    /\ UNCHANGED <<sk, pk, genuine, valid, text, signed, under, m, mlen, result>>

Deliver == pc = "deliver" /\ Arrive(mem, smlen)
DeliverDamaged ==
    pc = "deliver" /\ \E i \in 0 .. smlen - 1 : Arrive([mem EXCEPT ![SM + i] = Junk], smlen)
DeliverCut ==
    pc = "deliver" /\ \E len \in 0 .. smlen - 1 : Arrive(mem, len)

(***************************************************************************)
(* crypto_sign_open.  The caller gives m room for smlen bytes.             *)
(***************************************************************************)
TooShort == smlen < SPX_BYTES

Reject(at) ==
    /\ mem' = Memset(mem, at, smlen)
    /\ mlen' = 0
    /\ result' = "rejected"

Accept(at) ==
    /\ mem' = Memmove(mem, at, SM + SPX_BYTES, smlen - SPX_BYTES)
    /\ mlen' = smlen - SPX_BYTES
    /\ result' = "accepted"

crypto_sign_open ==
    /\ pc = "open"
    /\ \E at \in 0 .. MEM - smlen, key \in {pk, genuine} :
        /\ m' = at
        /\ under' = key
        /\ IF TooShort THEN Reject(at)
           ELSE IF Verifies(Read(mem, SM, SPX_BYTES),
                            Read(mem, SM + SPX_BYTES, smlen - SPX_BYTES), key)
           THEN Accept(at)
           ELSE Reject(at)
    /\ pc' = "done"
    /\ UNCHANGED <<sk, pk, genuine, valid, text, smlen, signed, intact>>

Done == pc = "done" /\ UNCHANGED vars

Init ==
    /\ pc = "keygen"
    /\ sk = <<>> /\ pk = <<>> /\ genuine = <<>>
    /\ valid = FALSE
    /\ mem = Clear
    /\ text = <<>> /\ under = <<>>
    /\ smlen = 0 /\ mlen = 0 /\ m = 0
    /\ signed = FALSE /\ intact = FALSE
    /\ result = "none"

Next ==
    \/ KeyGen \/ Damage \/ slh_dsa_secret_key_validate
    \/ crypto_sign \/ crypto_sign_fails
    \/ Deliver \/ DeliverDamaged \/ DeliverCut
    \/ crypto_sign_open
    \/ Done

Spec == Init /\ [][Next]_vars

(***************************************************************************)
(* Properties.                                                             *)
(***************************************************************************)
\* The caller's memory keeps its extent, lengths are lengths (smlen - SPX_BYTES
\* never wraps), and what crypto_sign_open moves out lies in the caller's memory.
TypeOK ==
    /\ pc \in {"keygen", "validate", "sign", "deliver", "open", "done"}
    /\ Len(sk) \in {0, 4 * N} /\ Len(pk) \in {0, 2 * N} /\ Len(genuine) = Len(pk)
    /\ {valid, signed, intact} \subseteq BOOLEAN
    /\ DOMAIN mem = 0 .. MEM - 1
    /\ text \in Texts \cup {<<>>}
    /\ smlen \in 0 .. MEM /\ mlen \in 0 .. smlen
    /\ m \in 0 .. MEM /\ m + mlen <= MEM
    /\ result \in {"none", "accepted", "rejected"}

\* What crypto_sign_open returns with 0 is the message crypto_sign was given, whole
\* and in its order, wherever the caller keeps m and sm and however they overlap;
\* it returns nothing from a signed message that was damaged or cut, or when
\* signing failed.  A rejected message leaves none of its bytes, nor any of the
\* signature's, in the smlen bytes of m, even where they overlap sm; a failed
\* crypto_sign leaves no part of a signature in sm.
OpensWholeOrNothing ==
    /\ TypeOK
    /\ result = "accepted" =>
           signed /\ intact /\ mlen = Len(text) /\ Read(mem, m, mlen) = text
    /\ result = "rejected" => mlen = 0 /\ \A i \in m .. m + smlen - 1 : mem[i] = Zero
    /\ pc = "deliver" /\ ~signed =>
           smlen = 0 /\ \A i \in SM .. SM + SPX_BYTES - 1 : mem[i] = Zero

\* The validator accepts exactly the secret keys whose signatures verify under the
\* public key they contain (a damaged SK_PRF does no harm, any other damaged byte
\* is seen), and under the public key that key generation returned only when that
\* is the same.
ValidatedKeyVerifies ==
    pc = "done" /\ signed /\ intact =>
        (result = "accepted" <=> valid /\ under = pk)
=============================================================================
