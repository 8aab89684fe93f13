-------------------------- MODULE SignedMessageProofs --------------------------
(***************************************************************************)
(* Proofs about SignedMessage, for fields of any size, any messages, and   *)
(* any memory that holds them.                                             *)
(*                                                                         *)
(* Sequences are compared byte by byte: Vec(s, n) says that s is n bytes   *)
(* long, and the first lemmas say what each operation on bytes and         *)
(* memories does to each byte.  The invariant says what is in the memory   *)
(* at every step: a signature that answers the digest of itself, the key   *)
(* and the text, with the text behind it (Whole), zeros after a failure,   *)
(* and after damage something that verifies under neither key.             *)
(***************************************************************************)
EXTENDS SignedMessage, SequenceTheorems, TLAPS

----------------------------------------------------------------------------
(* Sequences, byte by byte.                                                *)

Vec(s, n) == s = [i \in 1 .. n |-> s[i]]

LEMMA VecSeq ==
    ASSUME NEW n \in Nat, NEW s, Vec(s, n)
    PROVE  s \in Seq({s[i] : i \in 1 .. n}) /\ Len(s) = n
<1>1. s \in [1 .. n -> {s[i] : i \in 1 .. n}]  BY DEF Vec
<1>2. s \in Seq({s[i] : i \in 1 .. n})  BY <1>1, SeqDef
<1>3. DOMAIN s = 1 .. n  BY <1>1
<1>4. DOMAIN s = 1 .. Len(s) /\ Len(s) \in Nat  BY <1>2, LenProperties
<1> QED  BY <1>2, <1>3, <1>4

LEMMA VecLen == ASSUME NEW n \in Nat, NEW s, Vec(s, n) PROVE Len(s) = n
BY VecSeq

LEMMA SeqVec ==
    ASSUME NEW S, NEW s \in Seq(S)
    PROVE  Len(s) \in Nat /\ Vec(s, Len(s))
<1>1. Len(s) \in Nat /\ s \in [1 .. Len(s) -> S]  BY LenProperties
<1> QED  BY <1>1 DEF Vec

LEMMA VecEqual ==
    ASSUME NEW n, NEW s, NEW t, Vec(s, n), Vec(t, n),
           \A i \in 1 .. n : s[i] = t[i]
    PROVE  s = t
BY DEF Vec

LEMMA SubSeqVec ==
    ASSUME NEW s, NEW a \in Int, NEW b \in Int, b >= a - 1
    PROVE  /\ Vec(SubSeq(s, a, b), b - a + 1)
           /\ \A i \in 1 .. b - a + 1 : SubSeq(s, a, b)[i] = s[a + i - 1]
<1> DEFINE S == {s[i] : i \in a .. b}
           u == SubSeq(s, a, b)
<1>1. \A i \in a .. b : s[i] \in S  OBVIOUS
<1> HIDE DEF S
<1>2. /\ u \in Seq(S)
      /\ Len(u) = IF a <= b THEN b - a + 1 ELSE 0
      /\ \A i \in 1 .. b - a + 1 : u[i] = s[a + i - 1]
  BY <1>1, SubSeqProperties
<1>3. Len(u) = b - a + 1  BY <1>2
<1> HIDE DEF u
<1>4. Vec(u, b - a + 1)  BY <1>2, <1>3, SeqVec
<1> QED  BY <1>2, <1>4 DEF u

Concat(u, s, t) == u = s \o t
Appended(u, s, e) == u = Append(s, e)

LEMMA ConcatVec ==
    ASSUME NEW s, NEW t, NEW u, NEW k \in Nat, NEW n \in Nat, Vec(s, k), Vec(t, n),
           Concat(u, s, t)
    PROVE  /\ Vec(u, k + n)
           /\ \A i \in 1 .. k : u[i] = s[i]
           /\ \A i \in 1 .. n : u[k + i] = t[i]
<1> DEFINE A == {s[i] : i \in 1 .. k}
           B == {t[i] : i \in 1 .. n}
           S == A \cup B
<1>1. s \in Seq(A) /\ Len(s) = k /\ t \in Seq(B) /\ Len(t) = n  BY VecSeq
<1>2. A \subseteq S /\ B \subseteq S  OBVIOUS
<1> HIDE DEF A, B, S
<1>3. s \in Seq(S) /\ t \in Seq(S)  BY <1>1, <1>2, SeqMonotonic
<1>4. /\ u \in Seq(S)
      /\ Len(u) = k + n
      /\ \A i \in 1 .. k + n : u[i] = IF i <= k THEN s[i] ELSE t[i - k]
  BY <1>1, <1>3, ConcatProperties DEF Concat
<1>5. Vec(u, k + n)  BY ONLY <1>4, SeqVec, k + n \in Nat
<1>6. \A i \in 1 .. k : u[i] = s[i]  BY ONLY <1>4, k \in Nat, n \in Nat
<1>7. \A i \in 1 .. n : u[k + i] = t[i]  BY ONLY <1>4, k \in Nat, n \in Nat
<1> QED  BY <1>5, <1>6, <1>7

LEMMA AppendVec ==
    ASSUME NEW s, NEW e, NEW u, NEW k \in Nat, Vec(s, k), Appended(u, s, e)
    PROVE  /\ Vec(u, k + 1)
           /\ \A i \in 1 .. k : u[i] = s[i]
           /\ u[k + 1] = e
<1> DEFINE A == {s[i] : i \in 1 .. k}
           S == A \cup {e}
<1>1. s \in Seq(A) /\ Len(s) = k  BY VecSeq
<1>2. A \subseteq S /\ e \in S  OBVIOUS
<1> HIDE DEF A, S
<1>3. s \in Seq(S)  BY <1>1, <1>2, SeqMonotonic
<1>4. /\ u \in Seq(S)
      /\ Len(u) = k + 1
      /\ \A i \in 1 .. k : u[i] = s[i]
      /\ u[k + 1] = e
  BY <1>1, <1>2, <1>3, AppendProperties DEF Appended
<1>5. Vec(u, k + 1)  BY ONLY <1>4, SeqVec
<1> QED  BY <1>4, <1>5

\* A read takes bytes out of a memory, a write replaces them.
LEMMA ReadVec ==
    ASSUME NEW b, NEW at, NEW n
    PROVE  /\ Vec(Read(b, at, n), n)
           /\ \A i \in 1 .. n : Read(b, at, n)[i] = b[at + i - 1]
BY DEF Vec, Read

LEMMA ReadEquals ==
    ASSUME NEW b, NEW at, NEW n, NEW t, Vec(t, n), \A i \in 1 .. n : b[at + i - 1] = t[i]
    PROVE  Read(b, at, n) = t
<1>1. t = [i \in 1 .. n |-> t[i]]  BY DEF Vec
<1>2. [i \in 1 .. n |-> t[i]] = [i \in 1 .. n |-> b[at + i - 1]]  OBVIOUS
<1> QED  BY <1>1, <1>2 DEF Read

Written(u, b, at, s) == u = Write(b, at, s)

LEMMA WriteAt ==
    ASSUME NEW b, NEW D, DOMAIN b = D, NEW at \in Int, NEW s, NEW n \in Nat, Vec(s, n),
           NEW u, Written(u, b, at, s)
    PROVE  /\ DOMAIN u = D
           /\ u = [i \in D |-> u[i]]
           /\ \A i \in D : u[i] = IF i \in at .. at + n - 1 THEN s[i - at + 1] ELSE b[i]
<1>1. Len(s) = n  BY VecSeq
<1> QED  BY <1>1 DEF Write, Written

----------------------------------------------------------------------------
(* The inductive invariant.                                                *)

Memory(b) == b = [i \in 0 .. MEM - 1 |-> b[i]]

\* The key in hand contains its public key; roots are never the stray value,
\* not even after damage.
KeyOK ==
    /\ Vec(sk, 4 * N) /\ Vec(pk, 2 * N) /\ Vec(genuine, 2 * N)
    /\ \A i \in 1 .. 2 * N : pk[i] = sk[2 * N + i]
    /\ \A i \in 1 .. N : sk[3 * N + i] # <<"stray">> /\ genuine[N + i] # <<"stray">>

\* The validator compared the root with the one the seeds of the key have.
ValidOK == valid <=> merkle_gen_root(Field(sk, 0), Field(sk, 2)) = Field(sk, 3)

\* The n bytes from SM on are the signed message of t: R, the rest of the
\* signature made for the digest of R, the public key and t, and t itself.
Whole(b, t, n) ==
    /\ n = SPX_BYTES + Len(t)
    /\ \A i \in 1 .. N : b[SM + i - 1] # Junk
    /\ b[SM + N] = Rest(Field(sk, 0), Field(sk, 2), hash_message(Read(b, SM, N), pk, t))
    /\ Read(b, SM + SPX_BYTES, Len(t)) = t

Rejects(key) ==
    ~Verifies(Read(mem, SM, SPX_BYTES), Read(mem, SM + SPX_BYTES, smlen - SPX_BYTES), key)

IInv ==
    /\ TypeOK
    /\ Memory(mem)
    /\ pc # "done" => result = "none" /\ mlen = 0 /\ m = 0
    /\ pc # "keygen" => KeyOK
    /\ pc \in {"sign", "deliver", "open", "done"} => ValidOK
    /\ pc = "deliver" =>
          /\ text \in Texts
          /\ signed => Whole(mem, text, smlen)
          /\ ~signed => smlen = 0 /\ \A i \in SM .. SM + SPX_BYTES - 1 : mem[i] = Zero
    /\ pc = "open" =>
          /\ text \in Texts
          /\ signed /\ intact => Whole(mem, text, smlen)
          /\ ~(signed /\ intact) => TooShort \/ \A key \in {pk, genuine} : Rejects(key)
    /\ OpensWholeOrNothing
    /\ ValidatedKeyVerifies

----------------------------------------------------------------------------
(* Keys.                                                                   *)

LEMMA FieldVec ==
    ASSUME NEW key, NEW f \in 0 .. 3
    PROVE  /\ Vec(Field(key, f), N)
           /\ \A i \in 1 .. N : Field(key, f)[i] = key[f * N + i]
<1>0. N \in Nat  BY LayoutAssumption
<1>1. f * N + 1 \in Int /\ (f + 1) * N \in Int /\ (f + 1) * N = f * N + N
  BY <1>0
<1> DEFINE a == f * N + 1
           b == (f + 1) * N
           u == SubSeq(key, a, b)
<1>2. a \in Int /\ b \in Int /\ b >= a - 1 /\ b - a + 1 = N  BY <1>0, <1>1
<1> HIDE DEF a, b
<1>3. Vec(u, N) /\ \A i \in 1 .. N : u[i] = key[a + i - 1]  BY <1>2, SubSeqVec
<1>4. \A i \in 1 .. N : a + i - 1 = f * N + i  BY <1>0, <1>1 DEF a
<1>5. Field(key, f) = u  BY DEF Field, a, b
<1> QED  BY <1>3, <1>4, <1>5

\* The public key a secret key contains.
LEMMA PublicKeyVec ==
    ASSUME NEW key
    PROVE  /\ Vec(PublicKey(key), 2 * N)
           /\ \A i \in 1 .. 2 * N : PublicKey(key)[i] = key[2 * N + i]
<1>0. N \in Nat  BY LayoutAssumption
<1> DEFINE s == Field(key, 2)
           t == Field(key, 3)
           u == s \o t
<1>1. /\ Vec(s, N) /\ \A i \in 1 .. N : s[i] = key[2 * N + i]
      /\ Vec(t, N) /\ \A i \in 1 .. N : t[i] = key[3 * N + i]
  BY FieldVec
<1>2. PublicKey(key) = u  BY DEF PublicKey
<1> HIDE DEF s, t
<1>3. /\ Vec(u, N + N)
      /\ \A i \in 1 .. N : u[i] = s[i]
      /\ \A i \in 1 .. N : u[N + i] = t[i]
  <2>1. Concat(u, s, t)  BY DEF Concat
  <2> HIDE DEF u
  <2>2. Vec(s, N) /\ Vec(t, N)  BY <1>1
  <2> QED  BY ONLY <1>0, <2>1, <2>2, ConcatVec
<1> HIDE DEF u
<1>4. ASSUME NEW i \in 1 .. 2 * N PROVE u[i] = key[2 * N + i]
  <2>1. CASE i <= N  BY <1>0, <1>1, <1>3, <2>1
  <2>2. CASE i > N
    <3>1. i - N \in 1 .. N /\ N + (i - N) = i /\ 3 * N + (i - N) = 2 * N + i  BY <1>0, <2>2
    <3> QED  BY <1>1, <1>3, <3>1
  <2> QED  BY <1>0, <2>1, <2>2
<1>5. N + N = 2 * N  BY <1>0
<1> QED  BY <1>2, <1>3, <1>4, <1>5

LEMMA HalfVec ==
    ASSUME NEW key
    PROVE  /\ Vec(SubSeq(key, 2 * N + 1, 4 * N), 2 * N)
           /\ \A i \in 1 .. 2 * N : SubSeq(key, 2 * N + 1, 4 * N)[i] = key[2 * N + i]
<1>0. N \in Nat  BY LayoutAssumption
<1> DEFINE a == 2 * N + 1
           b == 4 * N
<1>1. a \in Int /\ b \in Int /\ b >= a - 1 /\ b - a + 1 = 2 * N  BY <1>0
<1>2. \A i \in 1 .. 2 * N : a + i - 1 = 2 * N + i  BY <1>0
<1> HIDE DEF a, b
<1>3. /\ Vec(SubSeq(key, a, b), 2 * N)
      /\ \A i \in 1 .. 2 * N : SubSeq(key, a, b)[i] = key[a + i - 1]
  BY <1>1, SubSeqVec
<1> QED  BY <1>2, <1>3 DEF a, b

\* What a key of 4 * N bytes has in common with its public half.
LEMMA KeyFacts ==
    ASSUME KeyOK
    PROVE  /\ pk = SubSeq(sk, 2 * N + 1, 4 * N)
           /\ Field(pk, 0) = Field(sk, 2)
           /\ Field(pk, 1) = Field(sk, 3)
           /\ \A key \in {pk, genuine} : Field(key, 1) # [i \in 1 .. N |-> <<"stray">>]
<1>0. N \in Nat /\ N >= 1  BY LayoutAssumption
<1>1. pk = SubSeq(sk, 2 * N + 1, 4 * N)
  <2> DEFINE half == SubSeq(sk, 2 * N + 1, 4 * N)
  <2>1. Vec(half, 2 * N) /\ \A i \in 1 .. 2 * N : half[i] = sk[2 * N + i]  BY HalfVec
  <2> HIDE DEF half
  <2>2. Vec(pk, 2 * N) /\ \A i \in 1 .. 2 * N : pk[i] = half[i]  BY <2>1 DEF KeyOK
  <2>3. pk = half  BY <2>1, <2>2, VecEqual
  <2> QED  BY <2>3 DEF half
<1>2. \A f \in 0 .. 3 : /\ Vec(Field(pk, f), N) /\ Vec(Field(sk, f), N) /\ Vec(Field(genuine, f), N)
                        /\ \A i \in 1 .. N : /\ Field(pk, f)[i] = pk[f * N + i]
                                             /\ Field(sk, f)[i] = sk[f * N + i]
                                             /\ Field(genuine, f)[i] = genuine[f * N + i]
  BY FieldVec
<1>3. Field(pk, 0) = Field(sk, 2)
  <2>1. ASSUME NEW i \in 1 .. N PROVE Field(pk, 0)[i] = Field(sk, 2)[i]
    <3>1. i \in 1 .. 2 * N /\ 0 * N + i = i  BY <1>0
    <3> QED  BY <1>2, <3>1 DEF KeyOK
  <2> QED  BY <1>2, <2>1, VecEqual
<1>4. Field(pk, 1) = Field(sk, 3)
  <2>1. ASSUME NEW i \in 1 .. N PROVE Field(pk, 1)[i] = Field(sk, 3)[i]
    <3>1. N + i \in 1 .. 2 * N /\ 1 * N + i = N + i /\ 2 * N + (N + i) = 3 * N + i  BY <1>0
    <3>2. pk[N + i] = sk[3 * N + i]  BY <3>1 DEF KeyOK
    <3> QED  BY <1>2, <3>1, <3>2
  <2> QED  BY <1>2, <2>1, VecEqual
<1>5. Field(sk, 3)[1] # <<"stray">> /\ Field(genuine, 1)[1] # <<"stray">>
  <2>1. 1 \in 1 .. N /\ 1 * N + 1 = N + 1  BY <1>0
  <2>2. Field(sk, 3)[1] = sk[3 * N + 1] /\ Field(genuine, 1)[1] = genuine[N + 1]  BY <1>2, <2>1
  <2> QED  BY <2>1, <2>2 DEF KeyOK
<1>6. [i \in 1 .. N |-> <<"stray">>][1] = <<"stray">>  BY <1>0
<1> QED  BY <1>1, <1>3, <1>4, <1>5, <1>6

LEMMA RootVec ==
    ASSUME NEW a, NEW b
    PROVE  /\ Vec(merkle_gen_root(a, b), N)
           /\ \A i \in 1 .. N : /\ merkle_gen_root(a, b)[i] = <<"root", i, a, b>>
                                /\ merkle_gen_root(a, b)[i] # <<"stray">>
<1>1. \A i : <<"root", i, a, b>>[1] = "root" /\ <<"stray">>[1] = "stray"  OBVIOUS
<1>2. \A i : <<"root", i, a, b>> # <<"stray">>  BY <1>1
<1> QED  BY <1>2 DEF merkle_gen_root, Vec

----------------------------------------------------------------------------
(* The initial state, and one lemma per action.                            *)

LEMMA InitInv == Init => IInv
<1> SUFFICES ASSUME Init PROVE IInv  OBVIOUS
<1>0. N \in Nat /\ MEM \in Nat  BY LayoutAssumption
<1>1. Len(<<>>) = 0  OBVIOUS
<1>2. Memory(mem) /\ DOMAIN mem = 0 .. MEM - 1  BY DEF Init, Clear, Memory
<1>3. Len(sk) = 0 /\ Len(pk) = 0 /\ Len(genuine) = 0 /\ text \in Texts \cup {<<>>}
  BY <1>1 DEF Init
<1>4. /\ pc = "keygen" /\ result = "none"
      /\ smlen = 0 /\ mlen = 0 /\ m = 0
      /\ {valid, signed, intact} \subseteq BOOLEAN
  BY DEF Init
<1>5. TypeOK  BY <1>0, <1>2, <1>3, <1>4 DEF TypeOK
<1> QED  BY <1>2, <1>4, <1>5 DEF IInv, OpensWholeOrNothing, ValidatedKeyVerifies

LEMMA KeyGenInv == ASSUME IInv, KeyGen PROVE IInv'
<1>0. N \in Nat /\ TypeOK /\ Memory(mem) /\ pc = "keygen"
  BY LayoutAssumption DEF IInv, KeyGen
<1>u. /\ pc' = "validate"
      /\ UNCHANGED <<valid, mem, text, smlen, signed, intact, under, m, mlen, result>>
  BY DEF KeyGen
<1>1. PICK seed \in Seeds :
        LET key == seed \o merkle_gen_root(Field(seed, 0), Field(seed, 2))
        IN  /\ sk' = key
            /\ pk' = PublicKey(key)
            /\ genuine' = PublicKey(key)
  BY DEF KeyGen
<1> DEFINE root == merkle_gen_root(Field(seed, 0), Field(seed, 2))
           key == seed \o root
<1>2. sk' = key /\ pk' = PublicKey(key) /\ genuine' = PublicKey(key)  BY <1>1
<1>3. Vec(seed, 3 * N)
  <2>1. seed \in Seq({seed[i] : i \in DOMAIN seed}) /\ Len(seed) = 3 * N  BY LayoutAssumption
  <2> QED  BY <2>1, SeqVec
<1>4. Vec(root, N) /\ \A i \in 1 .. N : root[i] # <<"stray">>  BY RootVec
<1>5. Concat(key, seed, root)  BY DEF Concat
<1> HIDE DEF root, key
<1>6. /\ Vec(key, 4 * N)
      /\ \A i \in 1 .. N : key[3 * N + i] = root[i]
  <2>1. 3 * N \in Nat /\ 3 * N + N = 4 * N  BY <1>0
  <2>2. Vec(key, 3 * N + N) /\ \A i \in 1 .. N : key[3 * N + i] = root[i]
    BY ONLY <1>0, <1>3, <1>4, <1>5, <2>1, ConcatVec
  <2> QED  BY <2>1, <2>2
<1>7. /\ Vec(pk', 2 * N) /\ Vec(genuine', 2 * N)
      /\ \A i \in 1 .. 2 * N : pk'[i] = key[2 * N + i] /\ genuine'[i] = key[2 * N + i]
  BY <1>2, PublicKeyVec
<1>8. ASSUME NEW i \in 1 .. N PROVE sk'[3 * N + i] # <<"stray">> /\ genuine'[N + i] # <<"stray">>
  <2>1. N + i \in 1 .. 2 * N /\ 2 * N + (N + i) = 3 * N + i  BY <1>0
  <2>2. genuine'[N + i] = key[3 * N + i]  BY <1>7, <2>1
  <2> QED  BY <1>2, <1>4, <1>6, <2>2
<1>9. KeyOK'  BY <1>2, <1>6, <1>7, <1>8 DEF KeyOK
<1>10. Len(sk') = 4 * N /\ Len(pk') = 2 * N /\ Len(genuine') = 2 * N
  <2>1. 4 * N \in Nat /\ 2 * N \in Nat  BY <1>0
  <2>2. Vec(sk', 4 * N) /\ Vec(pk', 2 * N) /\ Vec(genuine', 2 * N)  BY <1>9 DEF KeyOK
  <2> QED  BY ONLY <2>1, <2>2, VecLen
<1>11. TypeOK'  BY <1>0, <1>u, <1>10 DEF TypeOK
<1> QED  BY <1>0, <1>u, <1>9, <1>11
         DEF IInv, Memory, OpensWholeOrNothing, ValidatedKeyVerifies

LEMMA DamageInv == ASSUME IInv, Damage PROVE IInv'
<1>0. N \in Nat /\ TypeOK /\ Memory(mem) /\ pc = "validate" /\ KeyOK
  BY LayoutAssumption DEF IInv, Damage
<1>u. UNCHANGED <<pc, genuine, valid, mem, text, smlen, signed, intact, under, m, mlen, result>>
  BY DEF Damage
<1>1. PICK k \in 1 .. 4 * N : /\ sk' = [sk EXCEPT ![k] = Junk]
                              /\ pk' = SubSeq(sk', 2 * N + 1, 4 * N)
  BY DEF Damage
<1>2. /\ Vec(sk', 4 * N)
      /\ \A i \in 1 .. 4 * N : sk'[i] = IF i = k THEN Junk ELSE sk[i]
  BY <1>0, <1>1 DEF KeyOK, Vec
<1>3. Vec(pk', 2 * N) /\ \A i \in 1 .. 2 * N : pk'[i] = sk'[2 * N + i]
  BY <1>1, HalfVec
<1>4. Junk # <<"stray">>
  <2>1. <<"junk">>[1] = "junk" /\ <<"stray">>[1] = "stray"  OBVIOUS
  <2> QED  BY <2>1 DEF Junk
<1>5. \A i \in 1 .. N : 3 * N + i \in 1 .. 4 * N  BY <1>0
<1>6. KeyOK'  BY <1>0, <1>u, <1>2, <1>3, <1>4, <1>5 DEF KeyOK
<1>7. Len(sk') = 4 * N /\ Len(pk') = 2 * N /\ Len(genuine') = 2 * N
  <2>1. 4 * N \in Nat /\ 2 * N \in Nat  BY <1>0
  <2>2. Vec(sk', 4 * N) /\ Vec(pk', 2 * N) /\ Vec(genuine', 2 * N)  BY <1>6 DEF KeyOK
  <2> QED  BY ONLY <2>1, <2>2, VecLen
<1>8. TypeOK'  BY <1>0, <1>u, <1>7 DEF TypeOK
<1> QED  BY <1>0, <1>u, <1>6, <1>8
         DEF IInv, Memory, OpensWholeOrNothing, ValidatedKeyVerifies

\* Steps that leave the keys alone.
LEMMA SameKeys ==
    ASSUME KeyOK, UNCHANGED <<sk, pk, genuine>>
    PROVE  KeyOK'
BY DEF KeyOK

LEMMA ValidateInv == ASSUME IInv, slh_dsa_secret_key_validate PROVE IInv'
<1>0. N \in Nat /\ TypeOK /\ Memory(mem) /\ pc = "validate" /\ KeyOK
  BY LayoutAssumption DEF IInv, slh_dsa_secret_key_validate
<1>u. /\ pc' = "sign"
      /\ UNCHANGED <<sk, pk, genuine, mem, text, smlen, signed, intact, under, m, mlen, result>>
  BY DEF slh_dsa_secret_key_validate
<1> DEFINE root == merkle_gen_root(Field(sk, 0), Field(sk, 2))
           f == Field(sk, 3)
<1>1. valid' = bytes_equal(root, f)  BY DEF slh_dsa_secret_key_validate
<1>2. Vec(root, N) /\ Vec(f, N)  BY RootVec, FieldVec
<1>3. (valid' <=> root = f) /\ valid' \in BOOLEAN
  <2> HIDE DEF root, f
  <2>1. Len(root) = N  BY <1>0, <1>2, VecSeq
  <2>2. valid' = \A i \in 1 .. N : root[i] = f[i]  BY <1>1, <2>1 DEF bytes_equal
  <2> QED  BY <1>2, <2>2, VecEqual
<1>4. ValidOK'  BY <1>u, <1>3 DEF ValidOK
<1>5. KeyOK'  BY <1>0, <1>u, SameKeys
<1>6. TypeOK'  BY <1>0, <1>u, <1>3 DEF TypeOK
<1> QED  BY <1>0, <1>u, <1>4, <1>5, <1>6
         DEF IInv, Memory, OpensWholeOrNothing, ValidatedKeyVerifies

LEMMA TextVec == ASSUME NEW t \in Texts PROVE Len(t) \in Nat /\ Vec(t, Len(t))
<1>1. t \in Seq({t[i] : i \in DOMAIN t})  BY LayoutAssumption
<1> QED  BY <1>1, SeqVec

LEMMA RandomVec ==
    ASSUME NEW p, NEW o, NEW t
    PROVE  /\ Vec(gen_message_random(p, o, t), N)
           /\ \A i \in 1 .. N : gen_message_random(p, o, t)[i] # Junk
<1>1. \A i : <<"R", i, p, o, t>>[1] = "R" /\ <<"junk">>[1] = "junk"  OBVIOUS
<1>2. \A i : <<"R", i, p, o, t>> # Junk  BY <1>1 DEF Junk
<1> QED  BY <1>2 DEF gen_message_random, Vec

\* crypto_sign's three writes: R, the whole signature, and the message moved
\* behind it.  None of them touches the message where it was given.
LEMMA SignWrites ==
    ASSUME NEW t \in Texts, NEW a \in Places(Len(t)), NEW R, Vec(R, N), NEW rest,
           NEW withR, withR = Write(Write(Clear, a, t), SM, R),
           NEW b, b = Memmove(Write(withR, SM, Append(R, rest)), SM + SPX_BYTES, a, Len(t))
    PROVE  /\ Read(withR, a, Len(t)) = t
           /\ Memory(b) /\ DOMAIN b = 0 .. MEM - 1
           /\ \A i \in 1 .. N : b[SM + i - 1] = R[i]
           /\ Read(b, SM, N) = R
           /\ b[SM + N] = rest
           /\ Read(b, SM + SPX_BYTES, Len(t)) = t
<1> DEFINE n == Len(t)
           sig == Append(R, rest)
           given == Write(Clear, a, t)
           c == Write(withR, SM, sig)
           moved == Read(c, a, n)
<1>0. /\ N \in Nat /\ N >= 1 /\ MEM \in Nat /\ SM \in Nat /\ SPX_BYTES = N + 1
      /\ n \in Nat /\ Vec(t, n) /\ SM + N + 1 + n <= MEM
  BY LayoutAssumption, TextVec DEF SPX_BYTES
<1>1. a \in 0 .. MEM - n /\ (a + n <= SM \/ a >= SM + N + 1)  BY <1>0 DEF Places
<1>2. /\ Vec(sig, N + 1)
      /\ \A i \in 1 .. N : sig[i] = R[i]
      /\ sig[N + 1] = rest
  <2>1. Appended(sig, R, rest)  BY DEF Appended
  <2> HIDE DEF sig
  <2> QED  BY ONLY <1>0, <2>1, AppendVec, Vec(R, N)
<1> HIDE DEF sig
<1>3. DOMAIN Clear = 0 .. MEM - 1  BY DEF Clear
<1>4. /\ DOMAIN given = 0 .. MEM - 1
      /\ \A i \in 0 .. MEM - 1 : i \in a .. a + n - 1 => given[i] = t[i - a + 1]
  <2>1. Written(given, Clear, a, t)  BY DEF Written
  <2> HIDE DEF given, n
  <2>2. a \in Int  BY <1>0, <1>1
  <2> DEFINE D == 0 .. MEM - 1
  <2>3. DOMAIN Clear = D  BY <1>3
  <2> HIDE DEF D
  <2>4. /\ DOMAIN given = D
        /\ \A i \in D : given[i] = IF i \in a .. a + n - 1 THEN t[i - a + 1] ELSE Clear[i]
    BY ONLY <1>0, <2>1, <2>2, <2>3, WriteAt
  <2> QED  BY <2>4 DEF D
<1> HIDE DEF given
<1>5. /\ DOMAIN withR = 0 .. MEM - 1
      /\ \A i \in 0 .. MEM - 1 : i \notin SM .. SM + N - 1 => withR[i] = given[i]
  <2>1. Written(withR, given, SM, R)  BY DEF given, Written
  <2>2. SM \in Int  BY <1>0
  <2> DEFINE D == 0 .. MEM - 1
  <2>3. DOMAIN given = D  BY <1>4
  <2> HIDE DEF D
  <2>4. /\ DOMAIN withR = D
        /\ \A i \in D : withR[i] = IF i \in SM .. SM + N - 1 THEN R[i - SM + 1] ELSE given[i]
    BY ONLY <1>0, <2>1, <2>2, <2>3, WriteAt, Vec(R, N)
  <2> QED  BY <2>4 DEF D
<1>6. /\ DOMAIN c = 0 .. MEM - 1
      /\ \A i \in 0 .. MEM - 1 :
            c[i] = IF i \in SM .. SM + (N + 1) - 1 THEN sig[i - SM + 1] ELSE withR[i]
  <2>1. Written(c, withR, SM, sig)  BY DEF Written
  <2> HIDE DEF c
  <2>2. SM \in Int /\ N + 1 \in Nat  BY <1>0
  <2> DEFINE D == 0 .. MEM - 1
  <2>3. DOMAIN withR = D  BY <1>5
  <2> HIDE DEF D
  <2>4. /\ DOMAIN c = D
        /\ \A i \in D : c[i] = IF i \in SM .. SM + (N + 1) - 1 THEN sig[i - SM + 1] ELSE withR[i]
    BY ONLY <1>2, <2>1, <2>2, <2>3, WriteAt
  <2> QED  BY <2>4 DEF D
<1> HIDE DEF c
<1>7. ASSUME NEW i \in 1 .. n
      PROVE  withR[a + i - 1] = t[i] /\ c[a + i - 1] = t[i]
  <2>1. /\ a + i - 1 \in 0 .. MEM - 1 /\ a + i - 1 \in a .. a + n - 1
        /\ a + i - 1 \notin SM .. SM + (N + 1) - 1 /\ a + i - 1 \notin SM .. SM + N - 1
        /\ (a + i - 1) - a + 1 = i
    BY <1>0, <1>1
  <2> DEFINE k == a + i - 1
  <2>2. given[k] = t[k - a + 1]  BY <1>4, <2>1
  <2> QED  BY <1>5, <1>6, <2>1, <2>2
<1>8. Vec(moved, n) /\ \A i \in 1 .. n : moved[i] = t[i]
  BY <1>7, ReadVec
<1> HIDE DEF moved
<1>9. /\ DOMAIN b = 0 .. MEM - 1
      /\ b = [i \in 0 .. MEM - 1 |-> b[i]]
      /\ \A i \in 0 .. MEM - 1 : b[i] =
            IF i \in SM + (N + 1) .. SM + (N + 1) + n - 1 THEN moved[i - (SM + (N + 1)) + 1]
            ELSE c[i]
  <2> DEFINE at == SM + (N + 1)
             D == 0 .. MEM - 1
  <2>1. Written(b, c, at, moved)  BY <1>0 DEF Memmove, moved, c, sig, Written
  <2>2. at \in Int /\ n \in Nat  BY <1>0
  <2>3. DOMAIN c = D  BY <1>6
  <2> HIDE DEF at, D, n
  <2>4. /\ DOMAIN b = D
        /\ b = [i \in D |-> b[i]]
        /\ \A i \in D : b[i] = IF i \in at .. at + n - 1 THEN moved[i - at + 1] ELSE c[i]
    BY ONLY <1>8, <2>1, <2>2, <2>3, WriteAt
  <2> QED  BY <2>4 DEF at, D
<1>10. Read(withR, a, n) = t  BY <1>0, <1>7, ReadEquals
<1>11. ASSUME NEW i \in 1 .. N PROVE b[SM + i - 1] = R[i]
  <2>1. /\ SM + i - 1 \in 0 .. MEM - 1 /\ SM + i - 1 \in SM .. SM + (N + 1) - 1
        /\ SM + i - 1 \notin SM + (N + 1) .. SM + (N + 1) + n - 1
        /\ (SM + i - 1) - SM + 1 = i
    BY <1>0
  <2>2. b[SM + i - 1] = c[SM + i - 1]  BY <1>9, <2>1
  <2>3. c[SM + i - 1] = sig[(SM + i - 1) - SM + 1]  BY <1>6, <2>1
  <2> QED  BY <1>2, <2>1, <2>2, <2>3
<1>12. b[SM + N] = rest
  <2>1. /\ SM + N \in 0 .. MEM - 1 /\ SM + N \in SM .. SM + (N + 1) - 1
        /\ SM + N \notin SM + (N + 1) .. SM + (N + 1) + n - 1
        /\ (SM + N) - SM + 1 = N + 1
    BY <1>0
  <2>2. b[SM + N] = c[SM + N]  BY <1>9, <2>1
  <2>3. c[SM + N] = sig[(SM + N) - SM + 1]  BY <1>6, <2>1
  <2> QED  BY <1>2, <2>1, <2>2, <2>3
<1>13. Read(b, SM, N) = R  BY <1>11, ReadEquals
<1>14. ASSUME NEW i \in 1 .. n PROVE b[SM + SPX_BYTES + i - 1] = t[i]
  <2> DEFINE k == SM + (N + 1) + i - 1
  <2>1. k \in 0 .. MEM - 1 /\ k \in SM + (N + 1) .. SM + (N + 1) + n - 1
        /\ k - (SM + (N + 1)) + 1 = i /\ SM + SPX_BYTES + i - 1 = k
    BY <1>0
  <2>2. b[k] = moved[k - (SM + (N + 1)) + 1]  BY <1>9, <2>1
  <2> QED  BY <1>8, <2>1, <2>2
<1>15. Read(b, SM + SPX_BYTES, n) = t
  <2>1. Vec(t, n)  BY <1>0
  <2> DEFINE at == SM + SPX_BYTES
  <2>2. \A i \in 1 .. n : b[at + i - 1] = t[i]  BY <1>14
  <2> HIDE DEF at, n
  <2>3. Read(b, at, n) = t  BY ONLY <2>1, <2>2, ReadEquals
  <2> QED  BY <2>3 DEF at
<1> QED  BY <1>9, <1>10, <1>11, <1>12, <1>13, <1>15 DEF Memory

LEMMA SignInv == ASSUME IInv, crypto_sign PROVE IInv'
<1>0. /\ N \in Nat /\ MEM \in Nat /\ SM \in Nat
      /\ TypeOK /\ pc = "sign" /\ KeyOK /\ ValidOK
      /\ result = "none" /\ mlen = 0 /\ m = 0
  BY LayoutAssumption DEF IInv, crypto_sign
<1>u. /\ signed' = TRUE /\ pc' = "deliver"
      /\ UNCHANGED <<sk, pk, genuine, valid, intact, under, m, mlen, result>>
  BY DEF crypto_sign
<1>1. PICK t \in Texts, o \in Optrands : \E a \in Places(Len(t)) :
        LET given  == Write(Clear, a, t)
            R      == gen_message_random(Field(sk, 1), o, t)
            withR  == Write(given, SM, R)
            digest == hash_message(R, SubSeq(sk, 2 * N + 1, 4 * N), Read(withR, a, Len(t)))
            sig    == Append(R, Rest(Field(sk, 0), Field(sk, 2), digest))
        IN  /\ text' = t
            /\ mem' = Memmove(Write(withR, SM, sig), SM + SPX_BYTES, a, Len(t))
            /\ smlen' = SPX_BYTES + Len(t)
  BY DEF crypto_sign
<1> DEFINE R == gen_message_random(Field(sk, 1), o, t)
<1>2. PICK a \in Places(Len(t)) :
        LET withR  == Write(Write(Clear, a, t), SM, R)
            digest == hash_message(R, SubSeq(sk, 2 * N + 1, 4 * N), Read(withR, a, Len(t)))
            sig    == Append(R, Rest(Field(sk, 0), Field(sk, 2), digest))
        IN  /\ text' = t
            /\ mem' = Memmove(Write(withR, SM, sig), SM + SPX_BYTES, a, Len(t))
            /\ smlen' = SPX_BYTES + Len(t)
  BY <1>1
<1> DEFINE withR == Write(Write(Clear, a, t), SM, R)
           rest == Rest(Field(sk, 0), Field(sk, 2),
                        hash_message(R, SubSeq(sk, 2 * N + 1, 4 * N), Read(withR, a, Len(t))))
<1>3. /\ text' = t /\ smlen' = SPX_BYTES + Len(t)
      /\ mem' = Memmove(Write(withR, SM, Append(R, rest)), SM + SPX_BYTES, a, Len(t))
  BY <1>2
<1>4. Vec(R, N) /\ \A i \in 1 .. N : R[i] # Junk  BY RandomVec
<1>5. withR = Write(Write(Clear, a, t), SM, R)  OBVIOUS
<1>6. rest = Rest(Field(sk, 0), Field(sk, 2),
                  hash_message(R, SubSeq(sk, 2 * N + 1, 4 * N), Read(withR, a, Len(t))))
  OBVIOUS
<1> HIDE DEF R, withR, rest
<1>7. /\ Read(withR, a, Len(t)) = t
      /\ Memory(mem') /\ DOMAIN mem' = 0 .. MEM - 1
      /\ \A i \in 1 .. N : mem'[SM + i - 1] = R[i]
      /\ Read(mem', SM, N) = R
      /\ mem'[SM + N] = rest
      /\ Read(mem', SM + SPX_BYTES, Len(t)) = t
  BY <1>3, <1>4, <1>5, SignWrites
<1>8. Whole(mem, text, smlen)'
  <2>1. rest = Rest(Field(sk, 0), Field(sk, 2), hash_message(R, pk, t))
    BY <1>0, <1>6, <1>7, KeyFacts
  <2> QED  BY <1>u, <1>3, <1>4, <1>7, <2>1 DEF Whole
<1>9. KeyOK' /\ ValidOK'  BY <1>0, <1>u, SameKeys DEF ValidOK
<1>10. smlen' \in 0 .. MEM
  <2>1. Len(t) \in Nat /\ SM + N + 1 + Len(t) <= MEM  BY LayoutAssumption, TextVec
  <2> QED  BY <1>0, <1>3, <2>1 DEF SPX_BYTES
<1>11. TypeOK'  BY <1>0, <1>u, <1>3, <1>7, <1>10 DEF TypeOK
<1>12. Memory(mem)'  BY <1>7 DEF Memory
<1> QED  BY <1>0, <1>u, <1>3, <1>8, <1>9, <1>11, <1>12
         DEF IInv, OpensWholeOrNothing, ValidatedKeyVerifies

LEMMA MemsetAt ==
    ASSUME NEW b, DOMAIN b = 0 .. MEM - 1, NEW at \in Int, NEW n \in Nat,
           NEW u, u = Memset(b, at, n)
    PROVE  /\ DOMAIN u = 0 .. MEM - 1
           /\ Memory(u)
           /\ \A i \in 0 .. MEM - 1 : i \in at .. at + n - 1 => u[i] = Zero
<1> DEFINE z == [i \in 1 .. n |-> Zero]
           D == 0 .. MEM - 1
<1>1. Vec(z, n) /\ \A i \in 1 .. n : z[i] = Zero  BY DEF Vec
<1>2. Written(u, b, at, z)  BY DEF Written, Memset
<1>3. DOMAIN b = D  OBVIOUS
<1> HIDE DEF z, D
<1>4. /\ DOMAIN u = D
      /\ u = [i \in D |-> u[i]]
      /\ \A i \in D : u[i] = IF i \in at .. at + n - 1 THEN z[i - at + 1] ELSE b[i]
  BY ONLY <1>1, <1>2, <1>3, WriteAt, at \in Int, n \in Nat
<1>5. \A i \in at .. at + n - 1 : i - at + 1 \in 1 .. n  OBVIOUS
<1> QED  BY <1>1, <1>4, <1>5 DEF D, Memory

LEMMA SignFailsInv == ASSUME IInv, crypto_sign_fails PROVE IInv'
<1>0. /\ N \in Nat /\ MEM \in Nat /\ SM \in Nat
      /\ TypeOK /\ pc = "sign" /\ KeyOK /\ ValidOK
      /\ result = "none" /\ mlen = 0 /\ m = 0
  BY LayoutAssumption DEF IInv, crypto_sign_fails
<1>u. /\ signed' = FALSE /\ smlen' = 0 /\ pc' = "deliver"
      /\ UNCHANGED <<sk, pk, genuine, valid, intact, under, m, mlen, result>>
  BY DEF crypto_sign_fails
<1>1. PICK t \in Texts, written \in {0, N, SPX_BYTES}, o \in Optrands : \E a \in Places(Len(t)) :
        LET R    == gen_message_random(Field(sk, 1), o, t)
            sig  == Append(R, Rest(Field(sk, 0), Field(sk, 2), <<>>))
        IN  /\ text' = t
            /\ mem' = SignFails(Write(Write(Clear, a, t), SM, SubSeq(sig, 1, written)))
  BY DEF crypto_sign_fails
<1>2. \E a, s : text' = t /\ mem' = SignFails(Write(Write(Clear, a, t), SM, s))
  BY <1>1
<1>3. PICK a, s : text' = t /\ mem' = SignFails(Write(Write(Clear, a, t), SM, s))
  BY <1>2
<1> DEFINE b == Write(Write(Clear, a, t), SM, s)
<1>4. DOMAIN b = 0 .. MEM - 1  BY DEF Write, Clear
<1>5. mem' = Memset(b, SM, SPX_BYTES)  BY <1>3 DEF SignFails
<1> HIDE DEF b
<1>6. SM \in Int /\ SPX_BYTES \in Nat /\ SM + SPX_BYTES <= MEM
  <2>1. Len(t) \in Nat /\ SM + N + 1 + Len(t) <= MEM  BY LayoutAssumption, TextVec
  <2> QED  BY <1>0, <2>1 DEF SPX_BYTES
<1>7. /\ DOMAIN mem' = 0 .. MEM - 1
      /\ Memory(mem')
      /\ \A i \in 0 .. MEM - 1 : i \in SM .. SM + SPX_BYTES - 1 => mem'[i] = Zero
  BY <1>4, <1>5, <1>6, MemsetAt
<1>8. \A i \in SM .. SM + SPX_BYTES - 1 : mem'[i] = Zero  BY <1>0, <1>6, <1>7
<1>9. KeyOK' /\ ValidOK'  BY <1>0, <1>u, SameKeys DEF ValidOK
<1>10. TypeOK'
  <2>1. smlen' \in 0 .. MEM /\ mlen' \in 0 .. smlen' /\ m' \in 0 .. MEM /\ m' + mlen' <= MEM
    BY <1>0, <1>u
  <2>2. text' \in Texts \cup {<<>>}  BY <1>3
  <2> QED  BY <1>0, <1>u, <1>7, <2>1, <2>2 DEF TypeOK
<1>11. Memory(mem)'  BY <1>7 DEF Memory
<1>12. SPX_BYTES' = SPX_BYTES  BY DEF SPX_BYTES
<1> QED  BY <1>0, <1>u, <1>3, <1>8, <1>9, <1>10, <1>11, <1>12
         DEF IInv, OpensWholeOrNothing, ValidatedKeyVerifies

----------------------------------------------------------------------------
(* What the verifier makes of a memory.                                    *)

\* A signature verifies exactly when its last byte answers the digest under the
\* verifier's key and leads to that key's root.
LEMMA Answers ==
    ASSUME NEW b, NEW msg, NEW key, Field(key, 1) # [i \in 1 .. N |-> <<"stray">>]
    PROVE  Verifies(Read(b, SM, SPX_BYTES), msg, key) <=>
              /\ b[SM + N][1] = "rest"
              /\ b[SM + N][3] = Field(key, 0)
              /\ b[SM + N][4] = hash_message(Read(b, SM, N), key, msg)
              /\ merkle_gen_root(b[SM + N][2], b[SM + N][3]) = Field(key, 1)
<1>0. N \in Nat /\ SM \in Nat /\ SPX_BYTES = N + 1  BY LayoutAssumption DEF SPX_BYTES
<1> DEFINE sig == Read(b, SM, SPX_BYTES)
           R == SubSeq(sig, 1, N)
           stray == [i \in 1 .. N |-> <<"stray">>]
<1>1. sig[N + 1] = b[SM + N]
  <2>1. N + 1 \in 1 .. SPX_BYTES /\ SM + (N + 1) - 1 = SM + N  BY <1>0
  <2> QED  BY <2>1, ReadVec
<1>2. R = Read(b, SM, N)
  <2>1. Vec(R, N) /\ \A i \in 1 .. N : R[i] = sig[1 + i - 1]
    <3> HIDE DEF sig
    <3>1. N - 1 + 1 = N /\ N >= 1 - 1  BY <1>0
    <3> QED  BY ONLY <1>0, <3>1, SubSeqVec, 1 \in Int, N \in Int
  <2>2. \A i \in 1 .. N : 1 + i - 1 = i /\ i \in 1 .. SPX_BYTES  BY <1>0
  <2>3. \A i \in 1 .. SPX_BYTES : sig[i] = b[SM + i - 1]  BY ReadVec
  <2> HIDE DEF R, sig
  <2>4. \A i \in 1 .. N : b[SM + i - 1] = R[i]  BY ONLY <2>1, <2>2, <2>3
  <2> QED  BY ONLY <2>1, <2>4, ReadEquals
<1>3. RootFromSig(sig, msg, key) =
        IF /\ sig[N + 1][1] = "rest" /\ sig[N + 1][3] = Field(key, 0)
           /\ sig[N + 1][4] = hash_message(R, key, msg)
        THEN merkle_gen_root(sig[N + 1][2], sig[N + 1][3]) ELSE stray
  BY DEF RootFromSig
<1> HIDE DEF sig, R, stray
<1>4. Field(key, 1) # stray  BY DEF stray
<1>5. Verifies(sig, msg, key) <=> RootFromSig(sig, msg, key) = Field(key, 1)  BY DEF Verifies
<1>6. Verifies(sig, msg, key) <=>
              /\ b[SM + N][1] = "rest"
              /\ b[SM + N][3] = Field(key, 0)
              /\ b[SM + N][4] = hash_message(Read(b, SM, N), key, msg)
              /\ merkle_gen_root(b[SM + N][2], b[SM + N][3]) = Field(key, 1)
  BY ONLY <1>1, <1>2, <1>3, <1>4, <1>5
<1> QED  BY <1>6 DEF sig

LEMMA RestFields ==
    ASSUME NEW a, NEW p, NEW d
    PROVE  Rest(a, p, d)[1] = "rest" /\ Rest(a, p, d)[2] = a /\ Rest(a, p, d)[3] = p
           /\ Rest(a, p, d)[4] = d
BY DEF Rest

LEMMA HashOneToOne ==
    ASSUME NEW r1, NEW k1, NEW m1, NEW r2, NEW k2, NEW m2,
           hash_message(r1, k1, m1) = hash_message(r2, k2, m2)
    PROVE  r1 = r2 /\ k1 = k2 /\ m1 = m2
BY DEF hash_message

\* What every step from crypto_sign to crypto_sign_open keeps.
LEMMA ArriveTypes ==
    ASSUME IInv, pc = "deliver", NEW b, NEW n \in 0 .. smlen,
           DOMAIN b = 0 .. MEM - 1, Memory(b), Arrive(b, n)
    PROVE  /\ TypeOK' /\ Memory(mem)' /\ KeyOK' /\ ValidOK'
           /\ pc' = "open" /\ result' = "none" /\ mlen' = 0 /\ m' = 0
           /\ text' = text /\ text \in Texts
<1>0. /\ MEM \in Nat /\ TypeOK /\ KeyOK /\ ValidOK /\ text \in Texts
      /\ result = "none" /\ mlen = 0 /\ m = 0
  BY LayoutAssumption DEF IInv
<1>u. /\ mem' = b /\ smlen' = n /\ intact' = (b = mem /\ n = smlen) /\ pc' = "open"
      /\ UNCHANGED <<sk, pk, genuine, valid, text, signed, under, m, mlen, result>>
  BY DEF Arrive
<1>1. KeyOK' /\ ValidOK'  BY <1>0, <1>u, SameKeys DEF ValidOK
<1>2. smlen \in 0 .. MEM  BY <1>0 DEF TypeOK
<1>3. smlen' \in 0 .. MEM /\ mlen' \in 0 .. smlen' /\ m' \in 0 .. MEM /\ m' + mlen' <= MEM
  BY <1>0, <1>u, <1>2
<1>4. TypeOK'  BY <1>0, <1>u, <1>3 DEF TypeOK
<1>5. Memory(mem)'  BY <1>u DEF Memory
<1> QED  BY <1>0, <1>u, <1>1, <1>4, <1>5

\* The invariant at crypto_sign_open, from its parts.
LEMMA OpenState ==
    ASSUME TypeOK', Memory(mem)', KeyOK', ValidOK',
           pc' = "open", result' = "none", mlen' = 0, m' = 0, text' \in Texts,
           (signed /\ intact)' => Whole(mem, text, smlen)',
           ~(signed /\ intact)' => TooShort' \/ \A key \in {pk', genuine'} : Rejects(key)'
    PROVE  IInv'
BY DEF IInv, OpensWholeOrNothing, ValidatedKeyVerifies

LEMMA WholeSame ==
    ASSUME NEW b, NEW t, NEW n, Whole(b, t, n),
           UNCHANGED <<sk, pk, genuine>>, mem' = b, text' = t, smlen' = n
    PROVE  Whole(mem, text, smlen)'
BY DEF Whole

LEMMA DeliverInv == ASSUME IInv, Deliver PROVE IInv'
<1>0. /\ N \in Nat /\ MEM \in Nat /\ pc = "deliver" /\ Arrive(mem, smlen)
      /\ TypeOK /\ Memory(mem)
  BY LayoutAssumption DEF IInv, Deliver
<1>u. /\ mem' = mem /\ smlen' = smlen /\ intact' = TRUE
      /\ UNCHANGED <<sk, pk, genuine, valid, text, signed, under, m, mlen, result>>
  BY <1>0 DEF Arrive
<1>1. smlen \in 0 .. smlen /\ DOMAIN mem = 0 .. MEM - 1  BY <1>0 DEF TypeOK
<1>2. /\ TypeOK' /\ Memory(mem)' /\ KeyOK' /\ ValidOK'
      /\ pc' = "open" /\ result' = "none" /\ mlen' = 0 /\ m' = 0 /\ text' \in Texts
  BY <1>0, <1>1, ArriveTypes
<1>3. ASSUME signed PROVE Whole(mem, text, smlen)'
  <2>1. Whole(mem, text, smlen)  BY <1>0, <1>3 DEF IInv
  <2> QED  BY <1>u, <2>1, WholeSame
<1>4. ASSUME ~signed PROVE TooShort'
  <2>1. smlen = 0  BY <1>0, <1>4 DEF IInv
  <2> QED  BY <1>0, <1>u, <2>1 DEF TooShort, SPX_BYTES
<1> QED  BY <1>u, <1>2, <1>3, <1>4, OpenState

\* Where nothing was damaged behind it, the rest of the signature still names R,
\* the key and the text it was made for: what verifies contains all three.
LEMMA VerifiesWhole ==
    ASSUME KeyOK, NEW key \in {pk, genuine}, NEW b, NEW msg, NEW R, NEW t,
           b[SM + N] = Rest(Field(sk, 0), Field(sk, 2), hash_message(R, pk, t))
    PROVE  Verifies(Read(b, SM, SPX_BYTES), msg, key) <=>
              /\ key = pk
              /\ Read(b, SM, N) = R
              /\ msg = t
              /\ merkle_gen_root(Field(sk, 0), Field(sk, 2)) = Field(sk, 3)
<1> DEFINE h == hash_message(R, pk, t)
           g == hash_message(Read(b, SM, N), key, msg)
           z == b[SM + N]
<1>1. /\ z[1] = "rest" /\ z[2] = Field(sk, 0) /\ z[3] = Field(sk, 2) /\ z[4] = h
  BY RestFields
<1>2. Field(key, 1) # [i \in 1 .. N |-> <<"stray">>]  BY KeyFacts
<1>3. Verifies(Read(b, SM, SPX_BYTES), msg, key) <=>
        /\ z[1] = "rest" /\ z[3] = Field(key, 0) /\ z[4] = g
        /\ merkle_gen_root(z[2], z[3]) = Field(key, 1)
  BY <1>2, Answers
<1>4. h = g <=> Read(b, SM, N) = R /\ key = pk /\ msg = t
  BY HashOneToOne
<1>5. key = pk => Field(key, 0) = Field(sk, 2) /\ Field(key, 1) = Field(sk, 3)
  BY KeyFacts
<1> HIDE DEF h, g, z
<1> QED  BY ONLY <1>1, <1>3, <1>4, <1>5

LEMMA DeliverDamagedInv == ASSUME IInv, DeliverDamaged PROVE IInv'
<1>0. /\ N \in Nat /\ N >= 1 /\ SM \in Nat /\ MEM \in Nat /\ SPX_BYTES = N + 1
      /\ pc = "deliver" /\ TypeOK /\ Memory(mem) /\ KeyOK /\ text \in Texts
  BY LayoutAssumption DEF IInv, DeliverDamaged, SPX_BYTES
<1>1. PICK i \in 0 .. smlen - 1 : Arrive([mem EXCEPT ![SM + i] = Junk], smlen)
  BY DEF DeliverDamaged
<1> DEFINE b == [mem EXCEPT ![SM + i] = Junk]
           n == Len(text)
<1>2. smlen \in Nat  BY <1>0 DEF TypeOK
<1>3. signed /\ Whole(mem, text, smlen)
  <2>1. smlen # 0  BY <1>2
  <2> QED  BY <1>0, <2>1 DEF IInv
<1>4. /\ n \in Nat /\ Vec(text, n) /\ SM + N + 1 + n <= MEM /\ smlen = N + 1 + n
  BY <1>0, <1>3, LayoutAssumption, TextVec DEF Whole
<1>5. SM + i \in 0 .. MEM - 1 /\ i \in Nat /\ i < N + 1 + n  BY <1>0, <1>1, <1>4
<1>6. /\ DOMAIN b = 0 .. MEM - 1 /\ Memory(b)
      /\ b[SM + i] = Junk
      /\ \A k \in 0 .. MEM - 1 : k # SM + i => b[k] = mem[k]
  BY <1>0, <1>5 DEF Memory
<1>7. mem[SM + i] = Junk => b = mem
  BY <1>0, <1>5 DEF Memory
<1>8. Arrive(b, smlen)  BY <1>1
<1> HIDE DEF b
<1>u. /\ mem' = b /\ smlen' = smlen /\ intact' = (b = mem)
      /\ UNCHANGED <<sk, pk, genuine, valid, text, signed, under, m, mlen, result>>
  BY <1>8 DEF Arrive
<1>9. /\ TypeOK' /\ Memory(mem)' /\ KeyOK' /\ ValidOK'
      /\ pc' = "open" /\ result' = "none" /\ mlen' = 0 /\ m' = 0 /\ text' \in Texts
  <2>1. smlen \in 0 .. smlen  BY <1>2
  <2> QED  BY <1>0, <1>6, <1>8, <2>1, ArriveTypes
<1>10. intact' => Whole(mem, text, smlen)'
  BY <1>3, <1>u, WholeSame
<1>11. ASSUME b # mem, NEW key \in {pk, genuine},
              Verifies(Read(b, SM, SPX_BYTES), Read(b, SM + SPX_BYTES, n), key)
       PROVE  FALSE
  <2> DEFINE R == Read(mem, SM, N)
             msg == Read(b, SM + SPX_BYTES, n)
  <2>1. Field(key, 1) # [k \in 1 .. N |-> <<"stray">>]  BY <1>0, KeyFacts
  <2>2. b[SM + N][1] = "rest"  BY <1>11, <2>1, Answers
  <2>3. i # N
    <3>1. Junk[1] = "junk"  BY DEF Junk
    <3> QED  BY <1>6, <2>2, <3>1
  <2>4. b[SM + N] = mem[SM + N]
    <3>1. SM + N \in 0 .. MEM - 1 /\ SM + N # SM + i  BY <1>0, <1>4, <1>5, <2>3
    <3> QED  BY <1>6, <3>1
  <2>5. b[SM + N] = Rest(Field(sk, 0), Field(sk, 2), hash_message(R, pk, text))
    BY <1>3, <2>4 DEF Whole
  <2> HIDE DEF R, msg
  <2>6. Read(b, SM, N) = R /\ msg = text
    <3>1. Verifies(Read(b, SM, SPX_BYTES), msg, key)  BY <1>11 DEF msg
    <3> QED  BY ONLY <1>0, <2>5, <3>1, VerifiesWhole, key \in {pk, genuine}
  <2>7. CASE i < N
    <3>1. i + 1 \in 1 .. N /\ SM + (i + 1) - 1 = SM + i  BY <1>0, <1>5, <2>7
    <3>2. Read(b, SM, N)[i + 1] = b[SM + i] /\ R[i + 1] = mem[SM + i]
      BY <3>1, ReadVec DEF R
    <3>3. mem[SM + i] # Junk
      <4>1. \A k \in 1 .. N : mem[SM + k - 1] # Junk  BY <1>3 DEF Whole
      <4> QED  BY <3>1, <4>1
    <3> QED  BY <1>6, <2>6, <3>2, <3>3
  <2>8. CASE i > N
    <3>1. i - N \in 1 .. n /\ SM + SPX_BYTES + (i - N) - 1 = SM + i  BY <1>0, <1>4, <1>5, <2>8
    <3>2. msg[i - N] = b[SM + i]  BY <3>1, ReadVec DEF msg
    <3>3. Read(mem, SM + SPX_BYTES, n)[i - N] = mem[SM + i]  BY <3>1, ReadVec
    <3>4. Read(mem, SM + SPX_BYTES, n) = text  BY <1>3 DEF Whole
    <3> QED  BY <1>6, <1>7, <1>11, <2>6, <3>2, <3>3, <3>4
  <2> QED  BY <1>0, <1>5, <2>3, <2>7, <2>8
<1>12. ASSUME ~intact' PROVE \A key \in {pk', genuine'} : Rejects(key)'
  <2>1. smlen - SPX_BYTES = n  BY <1>0, <1>4
  <2>2. \A key \in {pk, genuine} : ~Verifies(Read(b, SM, SPX_BYTES), Read(b, SM + SPX_BYTES, n), key)
    BY <1>11, <1>12, <1>u
  <2> QED  BY <1>u, <2>1, <2>2 DEF Rejects
<1>13. signed'  BY <1>3, <1>u
<1>14. (signed /\ intact)' => Whole(mem, text, smlen)'  BY <1>10
<1>15. ~(signed /\ intact)' => TooShort' \/ \A key \in {pk', genuine'} : Rejects(key)'
  BY <1>12, <1>13
<1> QED  BY ONLY <1>9, <1>14, <1>15, OpenState

LEMMA DeliverCutInv == ASSUME IInv, DeliverCut PROVE IInv'
<1>0. /\ N \in Nat /\ N >= 1 /\ SM \in Nat /\ MEM \in Nat /\ SPX_BYTES = N + 1
      /\ pc = "deliver" /\ TypeOK /\ Memory(mem) /\ KeyOK /\ text \in Texts
  BY LayoutAssumption DEF IInv, DeliverCut, SPX_BYTES
<1>1. PICK len \in 0 .. smlen - 1 : Arrive(mem, len)  BY DEF DeliverCut
<1>2. smlen \in Nat /\ DOMAIN mem = 0 .. MEM - 1  BY <1>0 DEF TypeOK
<1>3. signed /\ Whole(mem, text, smlen)
  <2>1. smlen # 0  BY <1>2
  <2> QED  BY <1>0, <2>1 DEF IInv
<1>4. Len(text) \in Nat /\ Vec(text, Len(text)) /\ smlen = N + 1 + Len(text)
  BY <1>0, <1>3, TextVec DEF Whole
<1>u. /\ mem' = mem /\ smlen' = len /\ intact' = FALSE
      /\ UNCHANGED <<sk, pk, genuine, valid, text, signed, under, m, mlen, result>>
  <2>1. len # smlen  BY <1>1, <1>2
  <2> QED  BY <1>1, <2>1 DEF Arrive
<1>5. /\ TypeOK' /\ Memory(mem)' /\ KeyOK' /\ ValidOK'
      /\ pc' = "open" /\ result' = "none" /\ mlen' = 0 /\ m' = 0 /\ text' \in Texts
  <2>1. len \in 0 .. smlen  BY <1>2
  <2> QED  BY <1>0, <1>1, <1>2, <2>1, ArriveTypes
<1>6. ASSUME len >= SPX_BYTES, NEW key \in {pk, genuine},
             Verifies(Read(mem, SM, SPX_BYTES), Read(mem, SM + SPX_BYTES, len - SPX_BYTES), key)
      PROVE  FALSE
  <2> DEFINE msg == Read(mem, SM + SPX_BYTES, len - SPX_BYTES)
  <2>1. mem[SM + N] = Rest(Field(sk, 0), Field(sk, 2), hash_message(Read(mem, SM, N), pk, text))
    BY <1>3 DEF Whole
  <2>2. msg = text  BY <1>0, <1>6, <2>1, VerifiesWhole
  <2>3. Vec(msg, len - SPX_BYTES) /\ len - SPX_BYTES \in Nat  BY <1>0, <1>6, ReadVec
  <2> HIDE DEF msg
  <2>4. Len(msg) = len - SPX_BYTES  BY <2>3, VecLen
  <2> QED  BY <1>0, <1>4, <2>2, <2>4
<1>7. TooShort' \/ \A key \in {pk', genuine'} : Rejects(key)'
  <2>1. CASE len < SPX_BYTES  BY <1>u, <2>1 DEF TooShort, SPX_BYTES
  <2>2. CASE len >= SPX_BYTES
    <3>1. \A key \in {pk, genuine} :
             ~Verifies(Read(mem, SM, SPX_BYTES), Read(mem, SM + SPX_BYTES, len - SPX_BYTES), key)
      BY <1>6, <2>2
    <3> QED  BY <1>u, <3>1 DEF Rejects
  <2> QED  BY <1>0, <2>1, <2>2
<1>8. ~(signed /\ intact)'  BY <1>u
<1> QED  BY <1>5, <1>7, <1>8, OpenState

LEMMA MemmoveAt ==
    ASSUME NEW b, DOMAIN b = 0 .. MEM - 1, NEW to \in Nat, NEW from, NEW n \in Nat,
           to + n <= MEM, MEM \in Nat, NEW u, u = Memmove(b, to, from, n)
    PROVE  /\ DOMAIN u = 0 .. MEM - 1
           /\ Memory(u)
           /\ Read(u, to, n) = Read(b, from, n)
<1> DEFINE s == Read(b, from, n)
           D == 0 .. MEM - 1
<1>1. Vec(s, n)  BY ReadVec
<1>2. Written(u, b, to, s)  BY DEF Written, Memmove
<1>3. DOMAIN b = D /\ to \in Int  OBVIOUS
<1>4. \A i \in 1 .. n : /\ to + i - 1 \in D /\ to + i - 1 \in to .. to + n - 1
                        /\ (to + i - 1) - to + 1 = i
  OBVIOUS
<1> HIDE DEF s, D
<1>5. /\ DOMAIN u = D
      /\ u = [i \in D |-> u[i]]
      /\ \A i \in D : u[i] = IF i \in to .. to + n - 1 THEN s[i - to + 1] ELSE b[i]
  BY ONLY <1>1, <1>2, <1>3, WriteAt, n \in Nat
<1>6. \A i \in 1 .. n : u[to + i - 1] = s[i]  BY <1>4, <1>5
<1>7. Read(u, to, n) = s  BY ONLY <1>1, <1>6, ReadEquals
<1> QED  BY <1>5, <1>7 DEF D, s, Memory

LEMMA OpenInv == ASSUME IInv, crypto_sign_open PROVE IInv'
<1>0. /\ N \in Nat /\ N >= 1 /\ SM \in Nat /\ MEM \in Nat /\ SPX_BYTES = N + 1
      /\ pc = "open" /\ TypeOK /\ Memory(mem) /\ KeyOK /\ ValidOK /\ text \in Texts
      /\ smlen \in 0 .. MEM /\ DOMAIN mem = 0 .. MEM - 1
  BY LayoutAssumption DEF IInv, crypto_sign_open, SPX_BYTES, TypeOK
<1>u. pc' = "done" /\ UNCHANGED <<sk, pk, genuine, valid, text, smlen, signed, intact>>
  BY DEF crypto_sign_open
<1> DEFINE Ok(key) == Verifies(Read(mem, SM, SPX_BYTES),
                               Read(mem, SM + SPX_BYTES, smlen - SPX_BYTES), key)
<1>1. PICK at \in 0 .. MEM - smlen, key \in {pk, genuine} :
        /\ m' = at
        /\ under' = key
        /\ IF TooShort THEN Reject(at) ELSE IF Ok(key) THEN Accept(at) ELSE Reject(at)
  BY DEF crypto_sign_open
<1>2. at \in Nat /\ at + smlen <= MEM /\ smlen \in Nat  BY <1>0
<1>3. ASSUME signed, intact
      PROVE  /\ ~TooShort
             /\ smlen - SPX_BYTES = Len(text) /\ Len(text) \in Nat
             /\ Read(mem, SM + SPX_BYTES, smlen - SPX_BYTES) = text
             /\ Ok(key) <=> valid /\ key = pk
  <2>1. Whole(mem, text, smlen)  BY <1>0, <1>3 DEF IInv
  <2>2. /\ smlen = SPX_BYTES + Len(text) /\ Read(mem, SM + SPX_BYTES, Len(text)) = text
        /\ mem[SM + N] = Rest(Field(sk, 0), Field(sk, 2), hash_message(Read(mem, SM, N), pk, text))
    BY <2>1 DEF Whole
  <2>3. Len(text) \in Nat  BY <1>0, TextVec
  <2>4. ~TooShort /\ smlen - SPX_BYTES = Len(text)  BY <1>0, <2>2, <2>3 DEF TooShort
  <2>5. Ok(key) <=> key = pk /\ merkle_gen_root(Field(sk, 0), Field(sk, 2)) = Field(sk, 3)
    <3>1. Verifies(Read(mem, SM, SPX_BYTES), text, key) <=>
            key = pk /\ merkle_gen_root(Field(sk, 0), Field(sk, 2)) = Field(sk, 3)
      BY <1>0, <2>2, VerifiesWhole
    <3> QED  BY <2>2, <2>4, <3>1
  <2> QED  BY <1>0, <2>2, <2>3, <2>4, <2>5 DEF ValidOK
<1>4. ASSUME ~(signed /\ intact) PROVE TooShort \/ ~Ok(key)
  BY <1>0, <1>4 DEF IInv, Rejects
<1>5. KeyOK' /\ ValidOK'  BY <1>0, <1>u, SameKeys DEF ValidOK
<1> HIDE DEF Ok
<1>6. CASE Accept(at) /\ ~TooShort /\ Ok(key)
  <2>1. signed /\ intact  BY <1>4, <1>6
  <2>2. /\ mem' = Memmove(mem, at, SM + SPX_BYTES, Len(text))
        /\ mlen' = Len(text) /\ result' = "accepted"
    BY <1>3, <1>6, <2>1 DEF Accept
  <2>3. Len(text) \in Nat /\ Len(text) <= smlen /\ at + Len(text) <= MEM
    BY <1>0, <1>2, <1>3, <2>1
  <2>4. /\ DOMAIN mem' = 0 .. MEM - 1 /\ Memory(mem')
        /\ Read(mem', at, Len(text)) = Read(mem, SM + SPX_BYTES, Len(text))
    BY ONLY <1>0, <1>2, <2>2, <2>3, MemmoveAt
  <2>5. Read(mem', at, Len(text)) = text  BY <1>3, <2>1, <2>4
  <2>6. TypeOK'
    <3>1. smlen' \in 0 .. MEM /\ mlen' \in 0 .. smlen' /\ m' \in 0 .. MEM /\ m' + mlen' <= MEM
      BY <1>0, <1>1, <1>2, <1>u, <2>2, <2>3
    <3> QED  BY <1>0, <1>u, <2>2, <2>4, <3>1 DEF TypeOK
  <2>7. OpensWholeOrNothing'
    BY <1>u, <1>1, <2>1, <2>2, <2>5, <2>6 DEF OpensWholeOrNothing
  <2>8. ValidatedKeyVerifies'
    BY <1>u, <1>1, <1>3, <1>6, <2>1, <2>2 DEF ValidatedKeyVerifies
  <2> QED  BY <1>u, <1>5, <2>4, <2>6, <2>7, <2>8 DEF IInv, Memory
<1>7. CASE Reject(at) /\ (TooShort \/ ~Ok(key))
  <2>1. mem' = Memset(mem, at, smlen) /\ mlen' = 0 /\ result' = "rejected"
    BY <1>7 DEF Reject
  <2>2. /\ DOMAIN mem' = 0 .. MEM - 1 /\ Memory(mem')
        /\ \A i \in 0 .. MEM - 1 : i \in at .. at + smlen - 1 => mem'[i] = Zero
    <3>1. at \in Int  BY <1>2
    <3> QED  BY ONLY <1>0, <1>2, <2>1, <3>1, MemsetAt
  <2>3. \A i \in at .. at + smlen - 1 : mem'[i] = Zero  BY <1>0, <1>2, <2>2
  <2>4. TypeOK'
    <3>1. smlen' \in 0 .. MEM /\ mlen' \in 0 .. smlen' /\ m' \in 0 .. MEM /\ m' + mlen' <= MEM
      BY <1>0, <1>1, <1>2, <1>u, <2>1
    <3> QED  BY <1>0, <1>u, <2>1, <2>2, <3>1 DEF TypeOK
  <2>5. OpensWholeOrNothing'
    BY <1>u, <1>1, <2>1, <2>3, <2>4 DEF OpensWholeOrNothing
  <2>6. ValidatedKeyVerifies'
    BY <1>u, <1>1, <1>3, <1>7, <2>1 DEF ValidatedKeyVerifies
  <2> QED  BY <1>u, <1>5, <2>2, <2>4, <2>5, <2>6 DEF IInv, Memory
<1> QED  BY <1>1, <1>6, <1>7

----------------------------------------------------------------------------
(* The theorems.                                                           *)

LEMMA StutterInv == ASSUME IInv, UNCHANGED vars PROVE IInv'
<1>u. UNCHANGED <<pc, sk, pk, genuine, valid, mem, text, smlen, signed, intact, under, m, mlen, result>>
  BY DEF vars
<1>1. TypeOK' = TypeOK  BY <1>u DEF TypeOK
<1>2. OpensWholeOrNothing' = OpensWholeOrNothing  BY <1>u, <1>1 DEF OpensWholeOrNothing
<1>3. ValidatedKeyVerifies' = ValidatedKeyVerifies  BY <1>u DEF ValidatedKeyVerifies
<1>4. KeyOK' = KeyOK /\ ValidOK' = ValidOK  BY <1>u DEF KeyOK, ValidOK
<1>5. Memory(mem)' = Memory(mem)  BY <1>u DEF Memory
<1>6. Whole(mem, text, smlen)' = Whole(mem, text, smlen)  BY <1>u DEF Whole
<1>7. (\A key \in {pk, genuine} : Rejects(key))' = \A key \in {pk, genuine} : Rejects(key)
  BY <1>u DEF Rejects
<1>8. TooShort' = TooShort  BY <1>u DEF TooShort
<1> QED  BY <1>u, <1>1, <1>2, <1>3, <1>4, <1>5, <1>6, <1>7, <1>8 DEF IInv

\* From key generation through signing and delivery to crypto_sign_open, the
\* memory, the keys and the validator's answer stay related as IInv says.
THEOREM Invariance == Spec => []IInv
<1>1. Init => IInv  BY InitInv
<1>2. ASSUME IInv, [Next]_vars PROVE IInv'
  <2>1. CASE KeyGen  BY <1>2, <2>1, KeyGenInv
  <2>2. CASE Damage  BY <1>2, <2>2, DamageInv
  <2>3. CASE slh_dsa_secret_key_validate  BY <1>2, <2>3, ValidateInv
  <2>4. CASE crypto_sign  BY <1>2, <2>4, SignInv
  <2>5. CASE crypto_sign_fails  BY <1>2, <2>5, SignFailsInv
  <2>6. CASE Deliver  BY <1>2, <2>6, DeliverInv
  <2>7. CASE DeliverDamaged  BY <1>2, <2>7, DeliverDamagedInv
  <2>8. CASE DeliverCut  BY <1>2, <2>8, DeliverCutInv
  <2>9. CASE crypto_sign_open  BY <1>2, <2>9, OpenInv
  <2>10. CASE UNCHANGED vars  BY <1>2, <2>10, StutterInv
  <2> QED  BY <1>2, <2>1, <2>2, <2>3, <2>4, <2>5, <2>6, <2>7, <2>8, <2>9, <2>10
           DEF Next, Done
<1> QED  BY <1>1, <1>2, PTL DEF Spec

\* What crypto_sign_open accepts is the message that crypto_sign was given, whole,
\* from a signed message that arrived unchanged, wherever m and sm lie in the
\* caller's memory; what it rejects is wiped from all smlen bytes of m, and a
\* failed crypto_sign leaves no signature byte and length 0.
THEOREM OpeningCorrect == Spec => []OpensWholeOrNothing
<1>1. IInv => OpensWholeOrNothing  BY DEF IInv
<1> QED  BY <1>1, Invariance, PTL

\* slh_dsa_secret_key_validate answers yes exactly for the secret keys whose
\* signatures crypto_sign_open accepts under the public key they contain, and a
\* signature is accepted under no other key.
THEOREM ValidatorExact == Spec => []ValidatedKeyVerifies
<1>1. IInv => ValidatedKeyVerifies  BY DEF IInv
<1> QED  BY <1>1, Invariance, PTL
=============================================================================
