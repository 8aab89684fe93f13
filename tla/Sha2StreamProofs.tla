-------------------------- MODULE Sha2StreamProofs --------------------------
(***************************************************************************)
(* Proofs about Sha2Stream, for messages, entropy and inputs of any length.*)
(*                                                                         *)
(* Streams are compared byte by byte (Vec).  Layout says where message,    *)
(* padding and length are in a padded stream; both the reference Fips and  *)
(* the code's finalize functions have that layout, so they agree.  What is *)
(* left for each function is that the bytes absorbed ahead and the bytes   *)
(* given to finalize are, one behind the other, the message meant.         *)
(***************************************************************************)
EXTENDS Sha2Stream, SequenceTheorems, WellFoundedInduction, TLAPS

----------------------------------------------------------------------------
(* Induction and recursion.                                                *)

\* Induction over the naturals, for a set instead of a predicate.
LEMMA Induct ==
    ASSUME NEW S, 0 \in S, \A n \in Nat : n \in S => n + 1 \in S
    PROVE  Nat \subseteq S
<1> DEFINE T == Nat \ S
<1>1. SUFFICES ASSUME T # {} PROVE FALSE OBVIOUS
<1>2. IsWellFoundedOn(OpToRel(<, Nat), Nat) BY NatLessThanWellFounded
<1>3. \E x \in T : \A y \in T : ~(<<y, x>> \in OpToRel(<, Nat)) BY <1>1, <1>2, WFMin
<1>4. PICK x \in T : \A y \in T : ~(<<y, x>> \in OpToRel(<, Nat)) BY <1>3
<1>5. \A y \in T : ~(y < x) BY <1>4 DEF OpToRel
<1>6. x # 0 /\ x - 1 \in Nat /\ x - 1 \in S BY <1>5
<1>7. x - 1 + 1 = x BY <1>6
<1> QED BY <1>6, <1>7

\* Functions defined by recursion exist: first on 0 .. n, then on all of Nat.
Iterates(g, n, a, F) == g[0] = a /\ \A k \in 1 .. n : g[k] = F[g[k - 1]]

Recursive(f, S, a, F) ==
    f \in [Nat -> S] /\ f[0] = a /\ \A n \in Nat : f[n + 1] = F[f[n]]

LEMMA Recursion ==
    ASSUME NEW S, NEW a, NEW F, a \in S, F \in [S -> S]
    PROVE  \E f : Recursive(f, S, a, F)
<1> DEFINE Part(n) == {g \in [0 .. n -> S] : Iterates(g, n, a, F)}
           T == {n \in Nat : Part(n) # {}}
<1>1. 0 \in T
  <2> DEFINE g == [k \in 0 .. 0 |-> a]
  <2>1. g \in [0 .. 0 -> S] /\ Iterates(g, 0, a, F)  BY DEF Iterates
  <2> QED  BY <2>1
<1>2. ASSUME NEW n \in Nat, n \in T PROVE n + 1 \in T
  <2>1. PICK g \in Part(n) : TRUE  BY <1>2
  <2> DEFINE e == [k \in 0 .. n + 1 |-> IF k = n + 1 THEN F[g[n]] ELSE g[k]]
  <2>2. e \in [0 .. n + 1 -> S]  BY <2>1
  <2>3. Iterates(e, n + 1, a, F)
    <3>1. e[0] = a  BY <2>1 DEF Iterates
    <3>2. ASSUME NEW k \in 1 .. n + 1 PROVE e[k] = F[e[k - 1]]
      <4>1. CASE k = n + 1  BY <4>1
      <4>2. CASE k \in 1 .. n
        <5>1. g[k] = F[g[k - 1]]  BY <2>1, <4>2 DEF Iterates
        <5>2. e[k] = g[k] /\ e[k - 1] = g[k - 1]  BY <4>2
        <5> QED  BY <5>1, <5>2
      <4> QED  BY <4>1, <4>2
    <3> QED  BY <3>1, <3>2 DEF Iterates
  <2> QED  BY <2>2, <2>3
<1>3. Nat \subseteq T
  <2> HIDE DEF T
  <2> QED  BY <1>1, <1>2, Induct
<1>4. \A n \in Nat : Part(n) # {}  BY <1>3
<1>5. ASSUME NEW n \in Nat, NEW p \in Nat, NEW g \in Part(n), NEW e \in Part(p)
      PROVE  \A k \in 0 .. n : k <= p => g[k] = e[k]
  <2> DEFINE A == {k \in Nat : k <= n /\ k <= p => g[k] = e[k]}
  <2>1. 0 \in A  BY DEF Iterates
  <2>2. ASSUME NEW k \in Nat, k \in A PROVE k + 1 \in A
    <3>1. CASE k + 1 <= n /\ k + 1 <= p
      <4>1. k + 1 \in 1 .. n /\ k + 1 \in 1 .. p /\ k + 1 - 1 = k /\ g[k] = e[k]  BY <2>2, <3>1
      <4>2. g[k + 1] = F[g[k + 1 - 1]] /\ e[k + 1] = F[e[k + 1 - 1]]  BY <4>1 DEF Iterates
      <4> QED  BY <4>1, <4>2
    <3>2. CASE ~(k + 1 <= n /\ k + 1 <= p)  BY <3>2
    <3> QED  BY <3>1, <3>2
  <2> HIDE DEF A
  <2>3. Nat \subseteq A  BY <2>1, <2>2, Induct
  <2> QED  BY <2>3 DEF A
<1> DEFINE G(n) == CHOOSE g : g \in Part(n)
           f == [n \in Nat |-> G(n)[n]]
<1>6. \A n \in Nat : G(n) \in Part(n)  BY <1>4
<1> HIDE DEF G
<1>7. f \in [Nat -> S]
  <2>1. ASSUME NEW n \in Nat PROVE G(n)[n] \in S
    <3>1. G(n) \in [0 .. n -> S]  BY <1>6
    <3> QED  BY <3>1
  <2> QED  BY <2>1
<1>8. f[0] = a
  <2>1. Iterates(G(0), 0, a, F)  BY <1>6
  <2> QED  BY <2>1 DEF Iterates
<1>9. ASSUME NEW n \in Nat PROVE f[n + 1] = F[f[n]]
  <2>1. Iterates(G(n + 1), n + 1, a, F)  BY <1>6
  <2>2. n + 1 \in 1 .. n + 1 /\ n + 1 - 1 = n  OBVIOUS
  <2>3. G(n + 1)[n + 1] = F[G(n + 1)[n]]  BY <2>1, <2>2 DEF Iterates
  <2>4. G(n + 1)[n] = G(n)[n]
    <3>1. G(n + 1) \in Part(n + 1) /\ G(n) \in Part(n) /\ n + 1 \in Nat  BY <1>6
    <3> HIDE DEF Part
    <3> QED  BY <1>5, <3>1
  <2> QED  BY <2>3, <2>4
<1> HIDE DEF f
<1> QED  BY <1>7, <1>8, <1>9 DEF Recursive
\* Shr is repeated halving.
LEMMA ShrDef ==
    ASSUME NEW x \in Nat
    PROVE  /\ \A k \in Nat : Shr(x, k) \in Nat /\ Shr(x, k + 1) = Shr(x, k) \div 2
           /\ Shr(x, 0) = x
<1> DEFINE F == [y \in Nat |-> y \div 2]
           Def(f) == f = [j \in Nat |-> IF j = 0 THEN x ELSE f[j - 1] \div 2]
           s == CHOOSE f : Def(f)
<1>1. F \in [Nat -> Nat]  OBVIOUS
<1> HIDE DEF F
<1>2. PICK f : Recursive(f, Nat, x, F)  BY <1>1, Recursion
<1>3. Def(f)
  <2>0. f \in [Nat -> Nat] /\ f[0] = x  BY <1>2 DEF Recursive
  <2>1. ASSUME NEW n \in Nat, n # 0 PROVE f[n] = f[n - 1] \div 2
    <3>1. n - 1 \in Nat /\ n - 1 + 1 = n  BY <2>1
    <3>2. f[n - 1 + 1] = F[f[n - 1]]  BY <1>2, <3>1 DEF Recursive
    <3> QED  BY <2>0, <3>1, <3>2 DEF F
  <2> QED  BY <2>0, <2>1
<1>4. Def(s)
  <2> HIDE DEF Def
  <2> QED  BY <1>3
<1>5. \A k : Shr(x, k) = s[k]  BY DEF Shr
<1> HIDE DEF s
<1>6. s[0] = x  BY <1>4
<1>7. ASSUME NEW n \in Nat PROVE s[n + 1] = s[n] \div 2
  <2>1. n + 1 \in Nat /\ n + 1 # 0 /\ n + 1 - 1 = n  OBVIOUS
  <2>2. \A k \in Nat : k # 0 => s[k] = s[k - 1] \div 2  BY <1>4
  <2> QED  BY <2>1, <2>2
<1> DEFINE A == {n \in Nat : s[n] \in Nat}
<1>8. 0 \in A  BY <1>6
<1>9. \A n \in Nat : n \in A => n + 1 \in A  BY <1>7
<1> HIDE DEF A
<1>10. Nat \subseteq A  BY <1>8, <1>9, Induct
<1> QED BY <1>5, <1>6, <1>7, <1>10 DEF A

\* Eight times a number has its length field three bits further up.
LEMMA ShrTimes8 ==
    ASSUME NEW x \in Nat
    PROVE  \A k \in Nat : Shr(8 * x, k + 3) = Shr(x, k)
<1> DEFINE y == 8 * x
           A == {k \in Nat : Shr(y, k + 3) = Shr(x, k)}
<1>0. y \in Nat  OBVIOUS
<1>1. 0 \in A
  <2>1. Shr(y, 0) = y /\ Shr(y, 0 + 1) = Shr(y, 0) \div 2 /\ Shr(y, 1 + 1) = Shr(y, 1) \div 2
        /\ Shr(y, 2 + 1) = Shr(y, 2) \div 2 /\ Shr(x, 0) = x
    <3> HIDE DEF y
    <3> QED  BY <1>0, ShrDef
  <2>2. y \div 2 = 4 * x /\ (4 * x) \div 2 = 2 * x /\ (2 * x) \div 2 = x  OBVIOUS
  <2>3. Shr(y, 1) = 4 * x  BY <2>1, <2>2
  <2>4. Shr(y, 2) = 2 * x  BY <2>1, <2>2, <2>3
  <2>5. Shr(y, 3) = x  BY <2>1, <2>2, <2>4
  <2> QED  BY <2>1, <2>5
<1> HIDE DEF y
<1>2. ASSUME NEW k \in Nat, k \in A PROVE k + 1 \in A
  <2>1. Shr(y, k + 3 + 1) = Shr(y, k + 3) \div 2 /\ Shr(x, k + 1) = Shr(x, k) \div 2
    BY <1>0, ShrDef
  <2>2. k + 1 + 3 = k + 3 + 1  OBVIOUS
  <2> QED  BY <1>2, <2>1, <2>2
<1> HIDE DEF A
<1>3. Nat \subseteq A  BY <1>1, <1>2, Induct
<1> QED  BY <1>3 DEF A, y

\* Nothing comes back once all bits are shifted out.
LEMMA ShrStaysZero ==
    ASSUME NEW x \in Nat, NEW n \in Nat, Shr(x, n) = 0
    PROVE  \A k \in Nat : Shr(x, n + k) = 0
<1> DEFINE A == {k \in Nat : Shr(x, n + k) = 0}
<1>1. 0 \in A  OBVIOUS
<1>2. ASSUME NEW k \in Nat, k \in A PROVE k + 1 \in A
  <2>1. n + (k + 1) = n + k + 1 /\ n + k \in Nat  OBVIOUS
  <2>2. Shr(x, n + k + 1) = Shr(x, n + k) \div 2  BY <2>1, ShrDef
  <2>3. 0 \div 2 = 0  OBVIOUS
  <2> QED  BY <1>2, <2>1, <2>2, <2>3
<1> HIDE DEF A
<1>3. Nat \subseteq A  BY <1>1, <1>2, Induct
<1> QED  BY <1>3 DEF A

----------------------------------------------------------------------------
(* Sequences, byte by byte.                                                *)

Vec(s, n) == s = [i \in 1 .. n |-> s[i]]

LEMMA VecSeq ==
    ASSUME NEW n \in Nat, NEW s, Vec(s, n)
    PROVE  s \in Seq({s[i] : i \in 1 .. n}) /\ Len(s) = n
<1>1. s \in [1 .. n -> {s[i] : i \in 1 .. n}]  BY DEF Vec
<1>2. s \in Seq({s[i] : i \in 1 .. n})  BY <1>1, SeqDef
<1>3. DOMAIN s = 1 .. n  BY <1>1
<1>4. DOMAIN s = 1 .. Len(s) /\ Len(s) \in Nat  BY <1>2, LenProperties
<1> QED  BY <1>2, <1>3, <1>4

LEMMA VecLen == ASSUME NEW n \in Nat, NEW s, Vec(s, n) PROVE Len(s) = n
BY VecSeq

LEMMA SeqVec ==
    ASSUME NEW S, NEW s \in Seq(S)
    PROVE  Len(s) \in Nat /\ Vec(s, Len(s))
<1>1. Len(s) \in Nat /\ s \in [1 .. Len(s) -> S]  BY LenProperties
<1> QED  BY <1>1 DEF Vec

LEMMA VecEqual ==
    ASSUME NEW n, NEW s, NEW t, Vec(s, n), Vec(t, n),
           \A i \in 1 .. n : s[i] = t[i]
    PROVE  s = t
BY DEF Vec

LEMMA SubSeqVec ==
    ASSUME NEW s, NEW a \in Int, NEW b \in Int, b >= a - 1
    PROVE  /\ Vec(SubSeq(s, a, b), b - a + 1)
           /\ \A i \in 1 .. b - a + 1 : SubSeq(s, a, b)[i] = s[a + i - 1]
<1> DEFINE S == {s[i] : i \in a .. b}
           u == SubSeq(s, a, b)
<1>1. \A i \in a .. b : s[i] \in S  OBVIOUS
<1> HIDE DEF S
<1>2. /\ u \in Seq(S)
      /\ Len(u) = IF a <= b THEN b - a + 1 ELSE 0
      /\ \A i \in 1 .. b - a + 1 : u[i] = s[a + i - 1]
  BY <1>1, SubSeqProperties
<1>3. Len(u) = b - a + 1  BY <1>2
<1> HIDE DEF u
<1>4. Vec(u, b - a + 1)  BY <1>2, <1>3, SeqVec
<1> QED  BY <1>2, <1>4 DEF u

Concat(u, s, t) == u = s \o t

LEMMA ConcatVec ==
    ASSUME NEW s, NEW t, NEW u, NEW k \in Nat, NEW n \in Nat, Vec(s, k), Vec(t, n),
           Concat(u, s, t)
    PROVE  /\ Vec(u, k + n)
           /\ \A i \in 1 .. k : u[i] = s[i]
           /\ \A i \in 1 .. n : u[k + i] = t[i]
<1> DEFINE A == {s[i] : i \in 1 .. k}
           B == {t[i] : i \in 1 .. n}
           S == A \cup B
<1>1. s \in Seq(A) /\ Len(s) = k /\ t \in Seq(B) /\ Len(t) = n  BY VecSeq
<1>2. A \subseteq S /\ B \subseteq S  OBVIOUS
<1> HIDE DEF A, B, S
<1>3. s \in Seq(S) /\ t \in Seq(S)  BY <1>1, <1>2, SeqMonotonic
<1>4. /\ u \in Seq(S)
      /\ Len(u) = k + n
      /\ \A i \in 1 .. k + n : u[i] = IF i <= k THEN s[i] ELSE t[i - k]
  BY <1>1, <1>3, ConcatProperties DEF Concat
<1>5. Vec(u, k + n)  BY ONLY <1>4, SeqVec, k + n \in Nat
<1>6. \A i \in 1 .. k : u[i] = s[i]  BY ONLY <1>4, k \in Nat, n \in Nat
<1>7. \A i \in 1 .. n : u[k + i] = t[i]  BY ONLY <1>4, k \in Nat, n \in Nat
<1> QED  BY <1>5, <1>6, <1>7

----------------------------------------------------------------------------
(* What the operators on bytes do.                                         *)

LEMMA LaneBytesVec ==
    ASSUME NEW src, NEW l, NEW n \in Nat
    PROVE  /\ Vec(LaneBytes(src, l, n), n)
           /\ \A i \in 1 .. n : LaneBytes(src, l, n)[i] = Byte(src, l, i)
BY DEF LaneBytes, Vec

LEMMA BytesVec ==
    ASSUME NEW src, NEW n \in Nat
    PROVE  /\ Vec(Bytes(src, n), n)
           /\ \A i \in 1 .. n : Bytes(src, n)[i] = Byte(src, 0, i)
BY LaneBytesVec DEF Bytes

LEMMA ZerosVec ==
    ASSUME NEW n \in Nat
    PROVE  Vec(Zeros(n), n) /\ \A i \in 1 .. n : Zeros(n)[i] = Num(0)
BY DEF Zeros, Vec

LEMMA BigEndianVec ==
    ASSUME NEW x, NEW n \in Nat
    PROVE  /\ Vec(BigEndian(x, n), n)
           /\ \A i \in 1 .. n : BigEndian(x, n)[i] = Num(Shr(x, 8 * (n - i)) % 256)
BY DEF BigEndian, Vec

LEMMA LittleEndianVec ==
    ASSUME NEW x, NEW n \in Nat
    PROVE  Vec(LittleEndian(x, n), n)
BY DEF LittleEndian, Vec

LEMMA PadVec == \A b : Vec(Pad(b), 64)
BY DEF Pad, Vec

LEMMA OneVec == ASSUME NEW e PROVE Vec(<<e>>, 1) /\ <<e>>[1] = e
<1>1. <<e>> \in Seq({e}) /\ Len(<<e>>) = 1 /\ <<e>>[1] = e  OBVIOUS
<1> QED  BY <1>1, SeqVec

LEMMA EmptyVec == Vec(<<>>, 0)
<1>1. <<>> \in Seq({}) /\ Len(<<>>) = 0  OBVIOUS
<1> QED  BY <1>1, SeqVec

LEMMA SliceVec ==
    ASSUME NEW x, NEW at \in Nat, NEW n \in Nat
    PROVE  /\ Vec(Slice(x, at, n), n)
           /\ \A i \in 1 .. n : Slice(x, at, n)[i] = x[at + i]
<1> DEFINE a == at + 1
           b == at + n
           u == SubSeq(x, a, b)
<1>1. a \in Int /\ b \in Int /\ b >= a - 1 /\ b - a + 1 = n  OBVIOUS
<1>2. \A i \in 1 .. n : a + i - 1 = at + i  OBVIOUS
<1>3. Slice(x, at, n) = u  BY DEF Slice
<1> HIDE DEF a, b
<1>4. Vec(u, n) /\ \A i \in 1 .. n : u[i] = x[a + i - 1]  BY <1>1, SubSeqVec
<1> QED  BY <1>2, <1>3, <1>4

\* A copy inside the buffer, and one right behind its end.
LEMMA StoreIn ==
    ASSUME NEW b, NEW x, NEW n \in Nat, NEW m \in Nat, NEW at \in Nat,
           Vec(b, n), Vec(x, m), at + m <= n
    PROVE  /\ Vec(Store(b, at, x), n)
           /\ \A i \in 1 .. at : Store(b, at, x)[i] = b[i]
           /\ \A i \in 1 .. m : Store(b, at, x)[at + i] = x[i]
           /\ \A i \in at + m + 1 .. n : Store(b, at, x)[i] = b[i]
<1> DEFINE u == Store(b, at, x)
<1>1. Len(b) = n /\ Len(x) = m  BY VecLen
<1>2. u = [i \in 1 .. n |-> IF i \in at + 1 .. at + m THEN x[i - at]
                            ELSE IF i <= n THEN b[i] ELSE Num(0)]
  BY <1>1 DEF Store
<1> HIDE DEF u
<1>3. Vec(u, n)  BY <1>2 DEF Vec
<1>4. \A i \in 1 .. at : u[i] = b[i]  BY <1>2
<1>5. \A i \in 1 .. m : u[at + i] = x[i]  BY <1>2
<1>6. \A i \in at + m + 1 .. n : u[i] = b[i]  BY <1>2
<1> QED  BY <1>3, <1>4, <1>5, <1>6 DEF u

LEMMA StoreEnd ==
    ASSUME NEW b, NEW x, NEW n \in Nat, NEW m \in Nat, Vec(b, n), Vec(x, m)
    PROVE  /\ Vec(Store(b, n, x), n + m)
           /\ \A i \in 1 .. n : Store(b, n, x)[i] = b[i]
           /\ \A i \in 1 .. m : Store(b, n, x)[n + i] = x[i]
<1> DEFINE u == Store(b, n, x)
<1>1. Len(b) = n /\ Len(x) = m  BY VecLen
<1>2. u = [i \in 1 .. n + m |-> IF i \in n + 1 .. n + m THEN x[i - n]
                                ELSE IF i <= n THEN b[i] ELSE Num(0)]
  <2>1. (IF n >= n + m THEN n ELSE n + m) = n + m  OBVIOUS
  <2> QED  BY <1>1, <2>1 DEF Store
<1> HIDE DEF u
<1>3. Vec(u, n + m)  BY <1>2 DEF Vec
<1>4. \A i \in 1 .. n : u[i] = b[i]  BY <1>2
<1>5. \A i \in 1 .. m : u[n + i] = x[i]  BY <1>2
<1> QED  BY <1>3, <1>4, <1>5 DEF u

\* The same facts under one name.
Sliced(u, x, at, n) == Vec(u, n) /\ \A i \in 1 .. n : u[i] = x[at + i]

LEMMA SliceIs ==
    ASSUME NEW x, NEW at \in Nat, NEW n \in Nat PROVE Sliced(Slice(x, at, n), x, at, n)
BY SliceVec DEF Sliced

Stored(u, b, at, x, n, m) ==
    /\ Vec(u, n)
    /\ \A i \in 1 .. at : u[i] = b[i]
    /\ \A i \in 1 .. m : u[at + i] = x[i]
    /\ \A i \in at + m + 1 .. n : u[i] = b[i]

LEMMA StoreIs ==
    ASSUME NEW b, NEW x, NEW n \in Nat, NEW m \in Nat, NEW at \in Nat,
           Vec(b, n), Vec(x, m), at + m <= n
    PROVE  Stored(Store(b, at, x), b, at, x, n, m)
BY StoreIn DEF Stored

----------------------------------------------------------------------------
(* Where the parts of a padded stream are.                                 *)

\* u is x (L bytes), 0x80, z zeros and the number of bits in l bytes.
Layout(u, x, L, z, l) ==
    /\ Vec(u, L + 1 + z + l)
    /\ \A i \in 1 .. L : u[i] = x[i]
    /\ u[L + 1] = Num(128)
    /\ \A i \in 1 .. z : u[L + 1 + i] = Num(0)
    /\ \A i \in 1 .. l : u[L + 1 + z + i] = Num(Shr(8 * L, 8 * (l - i)) % 256)

LEMMA LayoutUnique ==
    ASSUME NEW u, NEW v, NEW x, NEW L \in Nat, NEW z \in Nat, NEW l \in Nat,
           Layout(u, x, L, z, l), Layout(v, x, L, z, l)
    PROVE  u = v
<1>1. ASSUME NEW i \in 1 .. L + 1 + z + l PROVE u[i] = v[i]
  <2>1. CASE i <= L  BY <2>1 DEF Layout
  <2>2. CASE i = L + 1  BY <2>2 DEF Layout
  <2>3. CASE i > L + 1 /\ i <= L + 1 + z
    <3>1. i - (L + 1) \in 1 .. z /\ L + 1 + (i - (L + 1)) = i  BY <2>3
    <3>2. u[L + 1 + (i - (L + 1))] = Num(0) /\ v[L + 1 + (i - (L + 1))] = Num(0)
      BY <3>1 DEF Layout
    <3> QED  BY <3>1, <3>2
  <2>4. CASE i > L + 1 + z
    <3> DEFINE p == i - (L + 1 + z)
    <3>1. p \in 1 .. l /\ L + 1 + z + p = i  BY <2>4
    <3> HIDE DEF p
    <3>2. u[L + 1 + z + p] = v[L + 1 + z + p]  BY <3>1 DEF Layout
    <3> QED  BY <3>1, <3>2
  <2> QED  BY <2>1, <2>2, <2>3, <2>4
<1>2. Vec(u, L + 1 + z + l) /\ Vec(v, L + 1 + z + l)  BY DEF Layout
<1> QED  BY <1>1, <1>2, VecEqual

\* FIPS 180-4: there is one number of zeros that fills the last block.
ZerosNeeded(h, L) ==
    CHOOSE k \in 0 .. BlockBytes(h) - 1 : (L + 1 + k + LengthBytes(h)) % BlockBytes(h) = 0

LEMMA FipsLayout ==
    ASSUME NEW h \in Hashes, NEW x, NEW L \in Nat, Vec(x, L), ZerosNeeded(h, L) \in Nat
    PROVE  Layout(Fips(h, x), x, L, ZerosNeeded(h, L), LengthBytes(h))
<1> DEFINE k == ZerosNeeded(h, L)
           l == LengthBytes(h)
           o == <<Num(128)>>
           zs == Zeros(k)
           be == BigEndian(8 * L, l)
           u1 == x \o o
           u2 == u1 \o zs
           u3 == u2 \o be
<1>1. Fips(h, x) = u3
  <2>1. Len(x) = L  BY VecLen
  <2> QED  BY <2>1 DEF Fips, ZerosNeeded
<1>2. k \in Nat /\ l \in Nat  BY DEF LengthBytes
<1>3. Vec(o, 1) /\ o[1] = Num(128)  BY OneVec
<1>4. Vec(zs, k) /\ \A i \in 1 .. k : zs[i] = Num(0)  BY <1>2, ZerosVec
<1>5. Vec(be, l) /\ \A i \in 1 .. l : be[i] = Num(Shr(8 * L, 8 * (l - i)) % 256)
  BY <1>2, BigEndianVec
<1>6. Concat(u1, x, o) /\ Concat(u2, u1, zs) /\ Concat(u3, u2, be)  BY DEF Concat
<1> HIDE DEF k, l, o, zs, be, u1, u2, u3
<1>7. Vec(u1, L + 1) /\ (\A i \in 1 .. L : u1[i] = x[i]) /\ \A i \in 1 .. 1 : u1[L + i] = o[i]
  BY <1>3, <1>6, ConcatVec
<1>8. /\ Vec(u2, L + 1 + k) /\ (\A i \in 1 .. L + 1 : u2[i] = u1[i])
      /\ \A i \in 1 .. k : u2[L + 1 + i] = zs[i]
  BY <1>2, <1>4, <1>6, <1>7, ConcatVec
<1>9. /\ Vec(u3, L + 1 + k + l) /\ (\A i \in 1 .. L + 1 + k : u3[i] = u2[i])
      /\ \A i \in 1 .. l : u3[L + 1 + k + i] = be[i]
  BY <1>2, <1>5, <1>6, <1>8, ConcatVec
<1>10. \A i \in 1 .. L : u3[i] = x[i]  BY <1>2, <1>7, <1>8, <1>9
<1>11. u3[L + 1] = Num(128)  BY <1>2, <1>3, <1>7, <1>8, <1>9
<1>12. \A i \in 1 .. k : u3[L + 1 + i] = Num(0)
  <2>1. \A i \in 1 .. k : L + 1 + i \in 1 .. L + 1 + k  BY <1>2
  <2> QED  BY <1>4, <1>8, <1>9, <2>1
<1>13. Layout(u3, x, L, k, l)  BY <1>5, <1>9, <1>10, <1>11, <1>12 DEF Layout
<1> QED  BY <1>1, <1>13 DEF k, l

LEMMA ZerosAre ==
    ASSUME NEW h \in Hashes, NEW L \in Nat, NEW z \in 0 .. BlockBytes(h) - 1,
           (L + 1 + z + LengthBytes(h)) % BlockBytes(h) = 0
    PROVE  ZerosNeeded(h, L) = z
<1>1. BlockBytes(h) \in {64, 128} /\ LengthBytes(h) \in {8, 16}  BY DEF BlockBytes, LengthBytes
<1>2. ASSUME NEW y \in 0 .. BlockBytes(h) - 1, (L + 1 + y + LengthBytes(h)) % BlockBytes(h) = 0
      PROVE  y = z
  BY <1>1, <1>2
<1> QED  BY <1>2 DEF ZerosNeeded

----------------------------------------------------------------------------
(* sha256_inc_finalize and sha512_inc_finalize.                            *)

\* The bytes of the length are those of the number of bits.
LEMMA LengthFieldIs ==
    ASSUME NEW h \in Hashes, NEW L \in Nat, NEW l, l = BlockBytes(h) - LengthAt(h)
    PROVE  /\ l \in {8, 9}
           /\ Vec(LengthField(h, L), l)
           /\ \A i \in 1 .. l : LengthField(h, L)[i] = Num(Shr(8 * L, 8 * (l - i)) % 256)
<1>1. l \in {8, 9}  BY DEF BlockBytes, LengthAt
<1> DEFINE v(i) == IF i = l THEN (L * 8) % 256 ELSE Shr(L, 8 * (l - i) - 3) % 256
<1>2. LengthField(h, L) = [i \in 1 .. l |-> Num(v(i))]  BY DEF LengthField
<1>3. ASSUME NEW i \in 1 .. l PROVE v(i) = Shr(8 * L, 8 * (l - i)) % 256
  <2>1. CASE i = l
    <3>1. 8 * (l - i) = 0 /\ L * 8 = 8 * L /\ 8 * L \in Nat  BY <1>1, <2>1
    <3>2. Shr(8 * L, 0) = 8 * L  BY <3>1, ShrDef
    <3> QED  BY <2>1, <3>1, <3>2
  <2>2. CASE i # l
    <3> DEFINE k == 8 * (l - i) - 3
    <3>1. k \in Nat /\ k + 3 = 8 * (l - i)  BY <1>1, <2>2
    <3> HIDE DEF k
    <3>2. Shr(8 * L, k + 3) = Shr(L, k)  BY <3>1, ShrTimes8
    <3>3. v(i) = Shr(L, k) % 256  BY <2>2 DEF k
    <3> QED  BY <3>1, <3>2, <3>3
  <2> QED  BY <2>1, <2>2
<1> HIDE DEF v
<1>4. Vec(LengthField(h, L), l)  BY <1>2 DEF Vec
<1>5. \A i \in 1 .. l : LengthField(h, L)[i] = Num(v(i))  BY <1>2
<1> QED  BY <1>1, <1>3, <1>4, <1>5

\* Where the length starts in padded[].
End(h, r) == IF OneBlock(h, r) THEN LengthAt(h) ELSE BlockBytes(h) + LengthAt(h)

LEMMA PaddedVec ==
    ASSUME NEW h \in Hashes, NEW tail, NEW r \in 0 .. BlockBytes(h) - 1, Vec(tail, r),
           NEW L \in Nat, NEW l, l = BlockBytes(h) - LengthAt(h), NEW e, e = End(h, r)
    PROVE  /\ e \in Nat /\ r + 1 <= e
           /\ Vec(Padded(h, tail, L), e + l)
           /\ \A i \in 1 .. r : Padded(h, tail, L)[i] = tail[i]
           /\ Padded(h, tail, L)[r + 1] = Num(128)
           /\ \A i \in r + 2 .. e : Padded(h, tail, L)[i] = Num(0)
           /\ \A i \in 1 .. l : Padded(h, tail, L)[e + i] = Num(Shr(8 * L, 8 * (l - i)) % 256)
<1>1. r \in Nat /\ e \in Nat /\ r + 1 <= e  BY DEF End, OneBlock, LengthAt, BlockBytes
<1> DEFINE o == <<Num(128)>>
           b == tail \o o
           zs == Zeros(e - (r + 1))
           c == b \o zs
           f == LengthField(h, L)
           u == Store(c, e, f)
<1>2. Vec(o, 1) /\ o[1] = Num(128) /\ Concat(b, tail, o)  BY OneVec DEF Concat
<1>3. Vec(zs, e - (r + 1)) /\ (\A i \in 1 .. e - (r + 1) : zs[i] = Num(0)) /\ Concat(c, b, zs)
  <2>1. e - (r + 1) \in Nat  BY <1>1
  <2> QED  BY <2>1, ZerosVec DEF Concat
<1>4. /\ l \in {8, 9} /\ Vec(f, l)
      /\ \A i \in 1 .. l : f[i] = Num(Shr(8 * L, 8 * (l - i)) % 256)
  BY LengthFieldIs
<1>5. Vec(b, r + 1) /\ (\A i \in 1 .. r : b[i] = tail[i]) /\ b[r + 1] = Num(128)
  <2> HIDE DEF o, b
  <2>1. Vec(b, r + 1) /\ (\A i \in 1 .. r : b[i] = tail[i]) /\ \A i \in 1 .. 1 : b[r + i] = o[i]
    BY <1>1, <1>2, ConcatVec
  <2> QED  BY <1>2, <2>1
<1>6. Padded(h, tail, L) = u
  <2>1. Len(tail) = r  BY <1>1, VecLen
  <2>2. Len(b) = r + 1  BY <1>1, <1>5, VecLen
  <2> HIDE DEF b
  <2>3. Padded(h, tail, L) = Store(b \o Zeros(e - Len(b)), e, LengthField(h, L))
    BY <2>1 DEF Padded, End, b
  <2> QED  BY <2>2, <2>3
<1> HIDE DEF o, b, zs, c, f
<1>7. /\ Vec(c, e) /\ (\A i \in 1 .. r + 1 : c[i] = b[i])
      /\ \A i \in 1 .. e - (r + 1) : c[r + 1 + i] = Num(0)
  <2>1. r + 1 \in Nat /\ e - (r + 1) \in Nat /\ r + 1 + (e - (r + 1)) = e  BY <1>1
  <2>2. /\ Vec(c, r + 1 + (e - (r + 1))) /\ (\A i \in 1 .. r + 1 : c[i] = b[i])
        /\ \A i \in 1 .. e - (r + 1) : c[r + 1 + i] = zs[i]
    BY <1>3, <1>5, <2>1, ConcatVec
  <2> QED  BY <1>3, <2>1, <2>2
<1>8. /\ Vec(u, e + l) /\ (\A i \in 1 .. e : u[i] = c[i])
      /\ \A i \in 1 .. l : u[e + i] = f[i]
  BY <1>1, <1>4, <1>7, StoreEnd
<1> HIDE DEF u
<1>9. \A i \in 1 .. r : u[i] = tail[i]  BY <1>1, <1>5, <1>7, <1>8
<1>10. u[r + 1] = Num(128)  BY <1>1, <1>5, <1>7, <1>8
<1>11. ASSUME NEW i \in r + 2 .. e PROVE u[i] = Num(0)
  <2>1. i - (r + 1) \in 1 .. e - (r + 1) /\ r + 1 + (i - (r + 1)) = i /\ i \in 1 .. e  BY <1>1
  <2> QED  BY <1>7, <1>8, <2>1
<1> QED  BY <1>1, <1>4, <1>6, <1>8, <1>9, <1>10, <1>11

\* Absorbing in and finishing gives the digest of everything absorbed so far.
LEMMA Finalize ==
    ASSUME NEW h \in Hashes, NEW s, NEW in, NEW A \in Nat, NEW n \in Nat,
           Vec(s.absorbed, A), s.bytes = A, A % BlockBytes(h) = 0, Vec(in, n),
           h = "sha512" => Shr(A + n, 64) = 0,
           NEW x, Concat(x, s.absorbed, in)
    PROVE  IncFinalize(h, s, in) = Fips(h, x)
<1> DEFINE B == BlockBytes(h)
           a == s.absorbed
           r == n % B
           w == n - r
           L == A + n
           e == End(h, r)
           lf == B - LengthAt(h)
           l == LengthBytes(h)
           z == e + lf - l - r - 1
           head == Slice(in, 0, w)
           tail == Slice(in, w, r)
           p == Padded(h, tail, L)
           u1 == a \o head
           u == u1 \o p
<1>1. /\ B \in {64, 128} /\ r \in 0 .. B - 1 /\ w \in Nat /\ w + r = n
      /\ L \in Nat /\ w % B = 0 /\ A % B = 0
  BY DEF BlockBytes
<1>2. IncFinalize(h, s, in) = u
  <2>1. Len(in) = n  BY VecLen
  <2> QED  BY <2>1 DEF IncFinalize
<1>3. /\ Vec(head, w) /\ (\A i \in 1 .. w : head[i] = in[0 + i])
      /\ Vec(tail, r) /\ \A i \in 1 .. r : tail[i] = in[w + i]
  <2>1. w \in Nat /\ r \in Nat /\ 0 \in Nat  BY <1>1
  <2> HIDE DEF r, w
  <2> QED  BY ONLY <2>1, SliceVec
<1>4. Concat(u1, a, head) /\ Concat(u, u1, p) /\ Vec(a, A)  BY DEF Concat
<1>z. /\ z \in 0 .. B - 1 /\ (L + 1 + z + l) % B = 0 /\ l \in {8, 16} /\ lf \in {8, 9}
      /\ e \in Nat /\ r + 1 <= e
      /\ h = "sha256" => l = 8 /\ lf = 8
      /\ h = "sha512" => l = 16 /\ lf = 9 /\ z + 7 <= e
  <2> HIDE DEF r, w, L
  <2>1. L = A + (w + r)  BY <1>1 DEF L
  <2>2. CASE h = "sha256"
    <3>1. B = 64 /\ lf = 8 /\ l = 8 /\ e = (IF r < 56 THEN 56 ELSE 120)
      BY <2>2 DEF BlockBytes, LengthAt, LengthBytes, End, OneBlock
    <3>2. z = e - r - 1  BY <1>1, <3>1
    <3> HIDE DEF e, lf, l, z, B
    <3>3. z \in 0 .. 63 /\ e \in Nat /\ r + 1 <= e  BY <1>1, <3>1, <3>2
    <3>4. L + 1 + z + l = A + w + e + 8 /\ (e + 8) % 64 = 0  BY <1>1, <2>1, <3>1, <3>2
    <3>5. (A + w + e + 8) % 64 = 0  BY <1>1, <3>1, <3>3, <3>4
    <3> QED  BY <2>2, <3>1, <3>3, <3>4, <3>5
  <2>3. CASE h = "sha512"
    <3>1. B = 128 /\ lf = 9 /\ l = 16 /\ e = (IF r < 112 THEN 119 ELSE 247)
      BY <2>3 DEF BlockBytes, LengthAt, LengthBytes, End, OneBlock
    <3>2. z = e - r - 8  BY <1>1, <3>1
    <3> HIDE DEF e, lf, l, z, B
    <3>3. z \in 0 .. 127 /\ e \in Nat /\ r + 1 <= e /\ z + 7 <= e  BY <1>1, <3>1, <3>2
    <3>4. L + 1 + z + l = A + w + e + 9 /\ (e + 9) % 128 = 0  BY <1>1, <2>1, <3>1, <3>2
    <3>5. (A + w + e + 9) % 128 = 0  BY <1>1, <3>1, <3>3, <3>4
    <3> QED  BY <2>3, <3>1, <3>3, <3>4, <3>5
  <2> QED  BY <2>2, <2>3 DEF Hashes
<1>5. /\ Vec(p, e + lf)
      /\ \A i \in 1 .. r : p[i] = tail[i]
      /\ p[r + 1] = Num(128)
      /\ \A i \in r + 2 .. e : p[i] = Num(0)
      /\ \A i \in 1 .. lf : p[e + i] = Num(Shr(8 * L, 8 * (lf - i)) % 256)
  <2> HIDE DEF r, w, L, tail
  <2> QED  BY <1>1, <1>3, PaddedVec
<1> HIDE DEF B, a, r, w, e, lf, l, z, head, tail, p, u1, u
<1>6. Vec(u1, A + w) /\ (\A i \in 1 .. A : u1[i] = a[i]) /\ \A i \in 1 .. w : u1[A + i] = head[i]
  BY <1>1, <1>3, <1>4, ConcatVec
<1>7. /\ Vec(u, A + w + (e + lf)) /\ (\A i \in 1 .. A + w : u[i] = u1[i])
      /\ \A i \in 1 .. e + lf : u[A + w + i] = p[i]
  <2>1. A + w \in Nat /\ e + lf \in Nat  BY <1>1, <1>z
  <2> QED  BY <1>4, <1>5, <1>6, <2>1, ConcatVec
<1>8. /\ Vec(x, L) /\ (\A i \in 1 .. A : x[i] = a[i]) /\ \A i \in 1 .. n : x[A + i] = in[i]
  <2>1. Concat(x, a, in)  BY DEF a
  <2> QED  BY <1>4, <2>1, ConcatVec
<1>9. Layout(u, x, L, z, l)
  <2>1. L + 1 + z + l = A + w + (e + lf)  BY <1>1, <1>z DEF z
  <2>2. ASSUME NEW i \in 1 .. L PROVE u[i] = x[i]
    <3>1. CASE i <= A  BY <1>1, <1>6, <1>7, <1>8, <3>1
    <3>2. CASE i > A /\ i <= A + w
      <4>1. i - A \in 1 .. w /\ A + (i - A) = i /\ i - A \in 1 .. n /\ i \in 1 .. A + w
            /\ 0 + (i - A) = i - A
        BY <1>1, <3>2
      <4>2. u[i] = head[i - A] /\ x[i] = in[i - A]  BY <1>6, <1>7, <1>8, <4>1
      <4> QED  BY <1>3, <4>1, <4>2
    <3>3. CASE i > A + w
      <4> DEFINE j == i - (A + w)
      <4>1. j \in 1 .. r /\ A + w + j = i /\ w + j \in 1 .. n /\ A + (w + j) = i /\ j \in 1 .. e + lf
        BY <1>1, <1>z, <3>3
      <4> HIDE DEF j
      <4>2. u[A + w + j] = tail[j] /\ x[A + (w + j)] = in[w + j]  BY <1>5, <1>7, <1>8, <4>1
      <4> QED  BY <1>3, <4>1, <4>2
    <3> QED  BY <1>1, <3>1, <3>2, <3>3
  <2>3. u[L + 1] = Num(128)
    <3>1. L + 1 = A + w + (r + 1) /\ r + 1 \in 1 .. e + lf  BY <1>1, <1>z
    <3> QED  BY <1>5, <1>7, <3>1
  <2>4. ASSUME NEW i \in 1 .. z PROVE u[L + 1 + i] = Num(0)
    <3> DEFINE j == r + 1 + i
    <3>1. z <= e - r - 1  BY <1>1, <1>z DEF z, Hashes
    <3>2. L + 1 + i = A + w + j /\ j \in r + 2 .. e /\ j \in 1 .. e + lf  BY <1>1, <1>z, <3>1
    <3> HIDE DEF j
    <3> QED  BY <1>5, <1>7, <3>2
  <2>5. ASSUME NEW i \in 1 .. l
        PROVE  u[L + 1 + z + i] = Num(Shr(8 * L, 8 * (l - i)) % 256)
    <3>1. CASE h = "sha256" \/ i > 7
      <4> DEFINE j == i - (l - lf)
      <4>1. j \in 1 .. lf /\ lf - j = l - i /\ L + 1 + z + i = A + w + (e + j)
            /\ e + j \in 1 .. e + lf
        BY <1>1, <1>z, <3>1 DEF z, Hashes
      <4> HIDE DEF j, L
      <4>2. u[A + w + (e + j)] = p[e + j]  BY <1>7, <4>1
      <4>3. p[e + j] = Num(Shr(8 * L, 8 * (lf - j)) % 256)  BY <1>5, <4>1
      <4> QED  BY <4>1, <4>2, <4>3
    <3>2. CASE h = "sha512" /\ i <= 7
      <4> DEFINE j == r + 1 + z + i
                 m == 8 * (l - i)
      <4>1. L + 1 + z + i = A + w + j /\ j \in r + 2 .. e /\ j \in 1 .. e + lf
        BY <1>1, <1>z, <3>2 DEF z
      <4>2. m - 72 \in Nat /\ m = 64 + (m - 72 + 5) + 3 /\ m - 72 + 5 \in Nat  BY <1>z, <3>2
      <4> HIDE DEF j, m, L
      <4>3. Shr(L, 64 + (m - 72 + 5)) = 0
        <5>1. Shr(L, 64) = 0  BY <3>2 DEF L
        <5>2. 64 \in Nat  OBVIOUS
        <5> QED  BY ONLY <1>1, <4>2, <5>1, <5>2, ShrStaysZero
      <4>4. Shr(8 * L, 64 + (m - 72 + 5) + 3) = Shr(L, 64 + (m - 72 + 5))
        <5>1. 64 + (m - 72 + 5) \in Nat  BY <4>2
        <5> QED  BY ONLY <1>1, <5>1, ShrTimes8
      <4>5. Shr(8 * L, m) = 0  BY <4>2, <4>3, <4>4
      <4>6. u[A + w + j] = Num(0)  BY <1>5, <1>7, <4>1
      <4>7. 0 % 256 = 0  OBVIOUS
      <4> QED  BY <4>1, <4>5, <4>6, <4>7 DEF m
    <3> QED  BY <1>z, <3>1, <3>2 DEF Hashes
  <2> HIDE DEF L
  <2> QED  BY <1>7, <2>1, <2>2, <2>3, <2>4, <2>5 DEF Layout
<1>10. ZerosNeeded(h, L) = z
  <2> HIDE DEF L
  <2> QED  BY <1>1, <1>z, ZerosAre DEF B, l
<1>11. Layout(Fips(h, x), x, L, z, l)
  <2> HIDE DEF L
  <2>1. z \in Nat  BY <1>1, <1>z
  <2> QED  BY <1>1, <1>8, <1>10, <2>1, FipsLayout DEF l
<1>12. L \in Nat /\ z \in Nat /\ l \in Nat  BY <1>1, <1>z
<1> HIDE DEF L
<1>13. u = Fips(h, x)  BY <1>9, <1>11, <1>12, LayoutUnique
<1> QED  BY <1>2, <1>13

----------------------------------------------------------------------------
(* sha256_final8x, for one lane.                                           *)

\* The block with the last bytes of the message.
LastBlock(tail, r) == tail \o <<Num(128)>> \o Zeros(63 - r)

BlockIs(b, tail, r) ==
    /\ Vec(b, 64)
    /\ \A i \in 1 .. r : b[i] = tail[i]
    /\ b[r + 1] = Num(128)
    /\ \A i \in r + 2 .. 64 : b[i] = Num(0)

LEMMA BlockVec ==
    ASSUME NEW tail, NEW r \in 0 .. 63, Vec(tail, r)
    PROVE  BlockIs(LastBlock(tail, r), tail, r)
<1> DEFINE b == LastBlock(tail, r)
           o == <<Num(128)>>
           zs == Zeros(63 - r)
           u == tail \o o
<1>0. r \in Nat /\ 63 - r \in Nat /\ r + 1 \in Nat /\ r + 1 + (63 - r) = 64  OBVIOUS
<1>1. Vec(o, 1) /\ o[1] = Num(128) /\ Concat(u, tail, o)  BY OneVec DEF Concat
<1>2. Vec(zs, 63 - r) /\ (\A i \in 1 .. 63 - r : zs[i] = Num(0)) /\ Concat(b, u, zs)
  BY <1>0, ZerosVec DEF Concat, LastBlock
<1> HIDE DEF o, zs, u, b
<1>3. Vec(u, r + 1) /\ (\A i \in 1 .. r : u[i] = tail[i]) /\ \A i \in 1 .. 1 : u[r + i] = o[i]
  BY <1>0, <1>1, ConcatVec
<1>4. /\ Vec(b, r + 1 + (63 - r)) /\ (\A i \in 1 .. r + 1 : b[i] = u[i])
      /\ \A i \in 1 .. 63 - r : b[r + 1 + i] = zs[i]
  BY ONLY <1>0, <1>2, <1>3, ConcatVec
<1>5. ASSUME NEW i \in r + 2 .. 64 PROVE b[i] = Num(0)
  <2>1. i - (r + 1) \in 1 .. 63 - r /\ r + 1 + (i - (r + 1)) = i  OBVIOUS
  <2> QED  BY <1>2, <1>4, <2>1
<1>6. b[r + 1] = Num(128)
  <2>1. r + 1 \in 1 .. r + 1 /\ 1 \in 1 .. 1  BY <1>0
  <2> QED  BY ONLY <1>1, <1>3, <1>4, <2>1
<1>7. \A i \in 1 .. r : b[i] = tail[i]
  <2>1. \A i \in 1 .. r : i \in 1 .. r + 1  BY <1>0
  <2> QED  BY ONLY <1>3, <1>4, <2>1
<1>8. BlockIs(b, tail, r)  BY <1>0, <1>4, <1>5, <1>6, <1>7 DEF BlockIs
<1> QED  BY <1>8 DEF b

\* A lane of the eight-lane code gives the digest of the seed block and its input.
LEMMA LaneFinalize ==
    ASSUME NEW s, NEW in, NEW n \in Nat, Vec(s.absorbed, 64), Vec(in, n),
           NEW x, Concat(x, s.absorbed, in)
    PROVE  Lane(s, in) = Fips("sha256", x)
<1> DEFINE a == s.absorbed
           r == n % 64
           w == n - r
           L == 64 + n
           e == IF r < 56 THEN 56 ELSE 120
           z == e - r - 1
           head == Slice(in, 0, w)
           tail == Slice(in, w, r)
           block == tail \o <<Num(128)>> \o Zeros(63 - r)
           mid == IF r < 56 THEN <<>> ELSE block
           last == IF r < 56 THEN block ELSE Zeros(64)
           be == BigEndian(8 * L, 8)
           st == Store(last, 56, be)
           u1 == a \o head
           u2 == u1 \o mid
           u == u2 \o st
<1>1. /\ r \in 0 .. 63 /\ w \in Nat /\ w + r = n /\ L \in Nat /\ w % 64 = 0 /\ r \in Nat
      /\ z \in Nat /\ z \in 0 .. 63 /\ e \in Nat /\ r + 1 <= e
  OBVIOUS
<1>2. Lane(s, in) = u
  <2>1. Len(in) = n  BY VecLen
  <2>2. Vec(tail, r)
    <3> HIDE DEF r, w
    <3> QED  BY <1>1, SliceVec
  <2>3. Len(tail) = r  BY <1>1, <2>2, VecLen
  <2>4. SeedBits + 8 * w + 8 * r = 8 * L  BY <1>1 DEF SeedBits
  <2>5. Lane(s, in) = Final8x(u1, tail, SeedBits + 8 * w)  BY <2>1 DEF Lane
  <2> HIDE DEF u1, tail, L, w, r
  <2> QED  BY ONLY <2>3, <2>4, <2>5 DEF Final8x
<1>3. /\ Vec(head, w) /\ (\A i \in 1 .. w : head[i] = in[0 + i])
      /\ Vec(tail, r) /\ \A i \in 1 .. r : tail[i] = in[w + i]
  <2>1. w \in Nat /\ r \in Nat /\ 0 \in Nat  BY <1>1
  <2> HIDE DEF r, w
  <2> QED  BY ONLY <2>1, SliceVec
<1>4. Concat(u1, a, head) /\ Concat(u2, u1, mid) /\ Concat(u, u2, st) /\ Vec(a, 64)  BY DEF Concat
<1>5. /\ Vec(block, 64)
      /\ \A i \in 1 .. r : block[i] = tail[i]
      /\ block[r + 1] = Num(128)
      /\ \A i \in r + 2 .. 64 : block[i] = Num(0)
  <2>1. r \in 0 .. 63 /\ Vec(tail, r)  BY <1>1, <1>3
  <2>2. block = tail \o <<Num(128)>> \o Zeros(63 - r)  OBVIOUS
  <2> HIDE DEF r, tail, block
  <2>3. block = LastBlock(tail, r)  BY <2>2 DEF LastBlock
  <2>4. BlockIs(block, tail, r)  BY ONLY <2>1, <2>3, BlockVec
  <2> QED  BY <2>4 DEF BlockIs
<1>6. Vec(be, 8) /\ \A i \in 1 .. 8 : be[i] = Num(Shr(8 * L, 8 * (8 - i)) % 256)
  <2> HIDE DEF L
  <2> QED  BY BigEndianVec
<1>7. (L + 1 + z + 8) % 64 = 0
  <2>1. L + 1 + z + 8 = 64 + w + e + 8 /\ (e + 8) % 64 = 0  BY <1>1
  <2> HIDE DEF L, z, w, e
  <2> QED  BY <1>1, <2>1
<1> HIDE DEF block, be, head, tail, a
<1>8. Vec(u1, 64 + w) /\ (\A i \in 1 .. 64 : u1[i] = a[i]) /\ \A i \in 1 .. w : u1[64 + i] = head[i]
  <2>1. w \in Nat /\ 64 \in Nat /\ Concat(u1, a, head) /\ Vec(a, 64) /\ Vec(head, w)
    BY <1>1, <1>3, <1>4
  <2> HIDE DEF u1
  <2> QED  BY ONLY <2>1, ConcatVec
\* What comes behind the whole blocks, in one block or in two.
<1>9. /\ Vec(u, 64 + w + (e + 8))
      /\ \A i \in 1 .. 64 + w : u[i] = u1[i]
      /\ \A i \in 1 .. r : u[64 + w + i] = tail[i]
      /\ u[64 + w + (r + 1)] = Num(128)
      /\ \A i \in r + 2 .. e : u[64 + w + i] = Num(0)
      /\ \A i \in 1 .. 8 : u[64 + w + (e + i)] = be[i]
  <2>0. 64 + w \in Nat  BY <1>1
  <2>1. CASE r < 56
    <3>1. mid = <<>> /\ last = block /\ e = 56  BY <2>1
    <3> HIDE DEF r, w, mid, last, u1, u2, e
    <3>2. Vec(u2, 64 + w) /\ \A i \in 1 .. 64 + w : u2[i] = u1[i]
      <4> HIDE DEF st, u
      <4>1. Vec(mid, 0)  BY <3>1, EmptyVec
      <4>2. Vec(u2, 64 + w + 0) /\ \A i \in 1 .. 64 + w : u2[i] = u1[i]
        BY <2>0, <1>4, <1>8, <4>1, ConcatVec
      <4> QED  BY <2>0, <4>2
    <3>3. /\ Vec(st, 64)
          /\ \A i \in 1 .. 56 : st[i] = block[i]
          /\ \A i \in 1 .. 8 : st[56 + i] = be[i]
      <4>1. Vec(last, 64) /\ 56 + 8 <= 64 /\ 64 \in Nat /\ 8 \in Nat /\ 56 \in Nat  BY <1>5, <3>1
      <4>2. /\ Vec(st, 64)
            /\ \A i \in 1 .. 56 : st[i] = last[i]
            /\ \A i \in 1 .. 8 : st[56 + i] = be[i]
        BY ONLY <4>1, <1>6, StoreIn
      <4> QED  BY <3>1, <4>2
    <3> HIDE DEF st, u
    <3>4. /\ Vec(u, 64 + w + 64) /\ (\A i \in 1 .. 64 + w : u[i] = u2[i])
          /\ \A i \in 1 .. 64 : u[64 + w + i] = st[i]
      BY <2>0, <1>4, <3>2, <3>3, ConcatVec
    <3>5. 64 + w + 64 = 64 + w + (e + 8)  BY <2>0, <3>1
    <3>6. \A i \in 1 .. r : i \in 1 .. 56 /\ i \in 1 .. 64  BY <1>1, <2>1
    <3>7. r + 1 \in 1 .. 56 /\ r + 1 \in 1 .. 64  BY <1>1, <2>1
    <3>8. \A i \in r + 2 .. e : i \in 1 .. 56 /\ i \in 1 .. 64 /\ i \in r + 2 .. 64  BY <1>1, <2>1, <3>1
    <3>9. \A i \in 1 .. 8 : e + i \in 1 .. 64 /\ e + i = 56 + i  BY <3>1
    <3>10. Vec(u, 64 + w + (e + 8)) /\ \A i \in 1 .. 64 + w : u[i] = u1[i]  BY <3>2, <3>4, <3>5
    <3>11. \A i \in 1 .. r : u[64 + w + i] = tail[i]  BY <1>5, <3>3, <3>4, <3>6
    <3>12. u[64 + w + (r + 1)] = Num(128)  BY <1>5, <3>3, <3>4, <3>7
    <3>13. \A i \in r + 2 .. e : u[64 + w + i] = Num(0)  BY <1>5, <3>3, <3>4, <3>8
    <3>14. \A i \in 1 .. 8 : u[64 + w + (e + i)] = be[i]  BY <3>3, <3>4, <3>9
    <3> QED  BY <3>10, <3>11, <3>12, <3>13, <3>14
  <2>2. CASE r >= 56
    <3>1. mid = block /\ last = Zeros(64) /\ e = 120  BY <1>1, <2>2
    <3> HIDE DEF r, w, mid, last, u1, u2, e
    <3>2. /\ Vec(u2, 64 + w + 64) /\ (\A i \in 1 .. 64 + w : u2[i] = u1[i])
          /\ \A i \in 1 .. 64 : u2[64 + w + i] = block[i]
      <4>1. 64 \in Nat /\ Concat(u2, u1, block) /\ Vec(u1, 64 + w)  BY <1>4, <1>8, <3>1
      <4> HIDE DEF st, u
      <4> QED  BY ONLY <1>5, <2>0, <4>1, ConcatVec
    <3>3. /\ Vec(st, 64)
          /\ \A i \in 1 .. 56 : st[i] = Num(0)
          /\ \A i \in 1 .. 8 : st[56 + i] = be[i]
      <4>1. /\ Vec(last, 64) /\ 56 + 8 <= 64 /\ 64 \in Nat /\ 8 \in Nat /\ 56 \in Nat
            /\ \A i \in 1 .. 64 : last[i] = Num(0)
        BY <3>1, ZerosVec
      <4>2. /\ Vec(st, 64)
            /\ \A i \in 1 .. 56 : st[i] = last[i]
            /\ \A i \in 1 .. 8 : st[56 + i] = be[i]
        BY ONLY <4>1, <1>6, StoreIn
      <4> QED  BY <4>1, <4>2
    <3> HIDE DEF st, u
    <3>4. /\ Vec(u, 64 + w + 64 + 64) /\ (\A i \in 1 .. 64 + w + 64 : u[i] = u2[i])
          /\ \A i \in 1 .. 64 : u[64 + w + 64 + i] = st[i]
      <4>1. 64 + w + 64 \in Nat  BY <2>0
      <4> QED  BY <1>4, <3>2, <3>3, <4>1, ConcatVec
    <3>5. 64 + w + 64 + 64 = 64 + w + (e + 8)  BY <2>0, <3>1
    <3>6. \A i \in 1 .. 64 : 64 + w + i \in 1 .. 64 + w + 64  BY <2>0
    <3>7. \A i \in 1 .. 64 : u[64 + w + i] = block[i]  BY <3>2, <3>4, <3>6
    <3>8. Vec(u, 64 + w + (e + 8)) /\ \A i \in 1 .. 64 + w : u[i] = u1[i]
      <4>1. \A i \in 1 .. 64 + w : i \in 1 .. 64 + w + 64  BY <2>0
      <4> QED  BY <3>2, <3>4, <3>5, <4>1
    <3>9. \A i \in 1 .. r : u[64 + w + i] = tail[i]
      <4>1. \A i \in 1 .. r : i \in 1 .. 64  BY <1>1
      <4> QED  BY <1>5, <3>7, <4>1
    <3>10. u[64 + w + (r + 1)] = Num(128)
      <4>1. r + 1 \in 1 .. 64  BY <1>1
      <4> QED  BY <1>5, <3>7, <4>1
    <3>11. ASSUME NEW i \in r + 2 .. e PROVE u[64 + w + i] = Num(0)
      <4>1. CASE i <= 64
        <5>1. i \in 1 .. 64 /\ i \in r + 2 .. 64  BY <1>1, <4>1
        <5> QED  BY <1>5, <3>7, <5>1
      <4>2. CASE i > 64
        <5>1. i - 64 \in 1 .. 56 /\ i - 64 \in 1 .. 64 /\ 64 + w + i = 64 + w + 64 + (i - 64)
          BY <1>1, <2>0, <3>1, <4>2
        <5> QED  BY <3>3, <3>4, <5>1
      <4> QED  BY <1>1, <4>1, <4>2
    <3>12. ASSUME NEW i \in 1 .. 8 PROVE u[64 + w + (e + i)] = be[i]
      <4>1. 64 + w + (e + i) = 64 + w + 64 + (56 + i) /\ 56 + i \in 1 .. 64  BY <2>0, <3>1
      <4> QED  BY <3>3, <3>4, <4>1
    <3> QED  BY <3>8, <3>9, <3>10, <3>11, <3>12
  <2>3. r < 56 \/ r >= 56  BY <1>1
  <2> QED  BY ONLY <2>1, <2>2, <2>3
<1> HIDE DEF u, u1, u2, st, mid, last
<1>10. /\ Vec(x, L) /\ (\A i \in 1 .. 64 : x[i] = a[i]) /\ \A i \in 1 .. n : x[64 + i] = in[i]
  <2>1. Concat(x, a, in)  BY DEF a
  <2> QED  BY <1>4, <2>1, ConcatVec
<1>11. Layout(u, x, L, z, 8)
  <2> HIDE DEF r, w, e
  <2>1. L + 1 + z + 8 = 64 + w + (e + 8) /\ L + 1 = 64 + w + (r + 1)  BY <1>1
  <2>2. ASSUME NEW i \in 1 .. L PROVE u[i] = x[i]
    <3>1. CASE i <= 64
      <4>1. i \in 1 .. 64 /\ i \in 1 .. 64 + w  BY <1>1, <3>1
      <4> QED  BY ONLY <1>8, <1>9, <1>10, <4>1
    <3>2. CASE i > 64 /\ i <= 64 + w
      <4>1. i - 64 \in 1 .. w /\ 64 + (i - 64) = i /\ i - 64 \in 1 .. n /\ i \in 1 .. 64 + w
            /\ 0 + (i - 64) = i - 64
        BY <1>1, <3>2
      <4>2. u[i] = head[i - 64] /\ x[i] = in[i - 64]  BY <1>8, <1>9, <1>10, <4>1
      <4> QED  BY <1>3, <4>1, <4>2
    <3>3. CASE i > 64 + w
      <4> DEFINE j == i - (64 + w)
      <4>1. j \in 1 .. r /\ 64 + w + j = i /\ w + j \in 1 .. n /\ 64 + (w + j) = i
        BY <1>1, <3>3
      <4> HIDE DEF j
      <4>2. u[64 + w + j] = tail[j] /\ x[64 + (w + j)] = in[w + j]  BY <1>9, <1>10, <4>1
      <4> QED  BY <1>3, <4>1, <4>2
    <3> QED  BY <1>1, <3>1, <3>2, <3>3
  <2>3. u[L + 1] = Num(128)  BY <1>9, <2>1
  <2>4. ASSUME NEW i \in 1 .. z PROVE u[L + 1 + i] = Num(0)
    <3>1. L + 1 + i = 64 + w + (r + 1 + i) /\ r + 1 + i \in r + 2 .. e  BY <1>1
    <3> QED  BY <1>9, <3>1
  <2>5. ASSUME NEW i \in 1 .. 8
        PROVE  u[L + 1 + z + i] = Num(Shr(8 * L, 8 * (8 - i)) % 256)
    <3>1. L + 1 + z + i = 64 + w + (e + i)  BY <1>1
    <3> HIDE DEF L
    <3> QED  BY <1>6, <1>9, <3>1
  <2> HIDE DEF L, z
  <2> QED  BY <1>9, <2>1, <2>2, <2>3, <2>4, <2>5 DEF Layout
<1> HIDE DEF L, z
<1>12. "sha256" \in Hashes /\ BlockBytes("sha256") = 64 /\ LengthBytes("sha256") = 8
  BY DEF Hashes, BlockBytes, LengthBytes
<1>13. ZerosNeeded("sha256", L) = z  BY <1>1, <1>7, <1>12, ZerosAre
<1>14. Layout(Fips("sha256", x), x, L, z, 8)  BY <1>1, <1>10, <1>12, <1>13, FipsLayout
<1>15. u = Fips("sha256", x)
  <2>1. 8 \in Nat  OBVIOUS
  <2> QED  BY <1>1, <1>11, <1>14, <2>1, LayoutUnique
<1> QED  BY <1>2, <1>15

----------------------------------------------------------------------------
(* Putting messages together.                                              *)

\* Bytes that agree with a, then with b, are a followed by b.
LEMMA Join ==
    ASSUME NEW x, NEW a, NEW b, NEW k \in Nat, NEW n \in Nat,
           Vec(x, k + n), Vec(a, k), Vec(b, n),
           \A i \in 1 .. k : x[i] = a[i],
           \A i \in 1 .. n : x[k + i] = b[i]
    PROVE  Concat(x, a, b)
<1> DEFINE u == a \o b
<1>1. Concat(u, a, b)  BY DEF Concat
<1> HIDE DEF u
<1>2. /\ Vec(u, k + n) /\ (\A i \in 1 .. k : u[i] = a[i])
      /\ \A i \in 1 .. n : u[k + i] = b[i]
  BY ONLY <1>1, k \in Nat, n \in Nat, Vec(a, k), Vec(b, n), ConcatVec
<1>3. ASSUME NEW i \in 1 .. k + n PROVE x[i] = u[i]
  <2>1. CASE i \in 1 .. k  BY <1>2, <2>1
  <2>2. CASE i > k
    <3>1. i - k \in 1 .. n /\ k + (i - k) = i  BY <2>2
    <3>2. x[k + (i - k)] = u[k + (i - k)]  BY <1>2, <3>1
    <3> QED  BY <3>1, <3>2
  <2> QED  BY <2>1, <2>2
<1>4. x = u  BY <1>2, <1>3, VecEqual
<1> QED  BY <1>1, <1>4

\* Two parts, one behind the other, and three.
TwoParts(x, a, b, k, n) ==
    /\ Vec(x, k + n)
    /\ \A i \in 1 .. k : x[i] = a[i]
    /\ \A i \in 1 .. n : x[k + i] = b[i]

LEMMA ConcatIs ==
    ASSUME NEW s, NEW t, NEW u, NEW k \in Nat, NEW n \in Nat, Vec(s, k), Vec(t, n),
           Concat(u, s, t)
    PROVE  TwoParts(u, s, t, k, n)
BY ConcatVec DEF TwoParts

LEMMA StoreEndIs ==
    ASSUME NEW b, NEW x, NEW n \in Nat, NEW m \in Nat, Vec(b, n), Vec(x, m)
    PROVE  TwoParts(Store(b, n, x), b, x, n, m)
BY StoreEnd DEF TwoParts

LEMMA JoinParts ==
    ASSUME NEW x, NEW a, NEW b, NEW k \in Nat, NEW n \in Nat, Vec(a, k), Vec(b, n),
           TwoParts(x, a, b, k, n)
    PROVE  Concat(x, a, b)
BY Join DEF TwoParts

LEMMA TwoPartsUnique ==
    ASSUME NEW x, NEW y, NEW a, NEW b, NEW k \in Nat, NEW n \in Nat, Vec(a, k), Vec(b, n),
           TwoParts(x, a, b, k, n), TwoParts(y, a, b, k, n)
    PROVE  x = y
<1>1. Concat(x, a, b) /\ Concat(y, a, b)  BY Join DEF TwoParts
<1> QED  BY <1>1 DEF Concat

Parts(x, a, b, c, k, n, m) ==
    /\ Vec(x, k + n + m)
    /\ \A i \in 1 .. k : x[i] = a[i]
    /\ \A i \in 1 .. n : x[k + i] = b[i]
    /\ \A i \in 1 .. m : x[k + n + i] = c[i]

LEMMA ThreeParts ==
    ASSUME NEW x, NEW y, NEW a, NEW b, NEW c, NEW k \in Nat, NEW n \in Nat, NEW m \in Nat,
           Vec(a, k), Vec(b, n), Vec(c, m), Concat(y, a, b), Concat(x, y, c)
    PROVE  Parts(x, a, b, c, k, n, m)
<1>1. Vec(y, k + n) /\ (\A i \in 1 .. k : y[i] = a[i]) /\ \A i \in 1 .. n : y[k + i] = b[i]
  BY ConcatVec
<1>2. k + n \in Nat  OBVIOUS
<1>3. /\ Vec(x, k + n + m) /\ (\A i \in 1 .. k + n : x[i] = y[i])
      /\ \A i \in 1 .. m : x[k + n + i] = c[i]
  BY ONLY <1>1, <1>2, m \in Nat, Vec(c, m), Concat(x, y, c), ConcatVec
<1>4. \A i \in 1 .. k : i \in 1 .. k + n  OBVIOUS
<1>5. \A i \in 1 .. n : k + i \in 1 .. k + n  OBVIOUS
<1>6. \A i \in 1 .. k : x[i] = a[i]  BY ONLY <1>1, <1>3, <1>4
<1>7. \A i \in 1 .. n : x[k + i] = b[i]  BY ONLY <1>1, <1>3, <1>5
<1> QED  BY <1>3, <1>6, <1>7 DEF Parts

\* Of three parts, the first one absorbed ahead and the others in the input.
LEMMA JoinLast ==
    ASSUME NEW x, NEW a, NEW b, NEW c, NEW in,
           NEW k \in Nat, NEW n \in Nat, NEW m \in Nat,
           Parts(x, a, b, c, k, n, m), Vec(a, k), TwoParts(in, b, c, n, m)
    PROVE  Concat(x, a, in)
<1>1. k + (n + m) = k + n + m /\ n + m \in Nat  OBVIOUS
<1>2. Vec(x, k + (n + m)) /\ \A i \in 1 .. k : x[i] = a[i]  BY <1>1 DEF Parts
<1>3. ASSUME NEW i \in 1 .. n + m PROVE x[k + i] = in[i]
  <2>1. CASE i \in 1 .. n  BY <2>1 DEF Parts, TwoParts
  <2>2. CASE i > n
    <3>1. i - n \in 1 .. m /\ k + n + (i - n) = k + i /\ n + (i - n) = i  BY <2>2
    <3>2. x[k + n + (i - n)] = c[i - n] /\ in[n + (i - n)] = c[i - n]  BY <3>1 DEF Parts, TwoParts
    <3> QED  BY <3>1, <3>2
  <2> QED  BY <2>1, <2>2
<1>4. Vec(in, n + m)  BY DEF TwoParts
<1> QED  BY ONLY <1>1, <1>2, <1>3, <1>4, k \in Nat, Vec(a, k), Join

\* The state after one block from the start.
LEMMA FirstBlock ==
    ASSUME NEW b
    PROVE  /\ IncBlocks("sha256", IncInit, b, 1).bytes = 64
           /\ Vec(IncBlocks("sha256", IncInit, b, 1).absorbed, 64)
           /\ \A i \in 1 .. 64 : IncBlocks("sha256", IncInit, b, 1).absorbed[i] = b[i]
<1> DEFINE c == Slice(b, 0, 64)
           e == << >>
           u == e \o c
<1>1. /\ IncBlocks("sha256", IncInit, b, 1).bytes = 64
      /\ IncBlocks("sha256", IncInit, b, 1).absorbed = u
  <2>1. BlockBytes("sha256") * 1 = 64  BY DEF BlockBytes
  <2> QED  BY <2>1 DEF IncBlocks, IncInit
<1>2. 0 \in Nat /\ 64 \in Nat /\ 0 + 64 = 64 /\ \A i \in 1 .. 64 : 0 + i = i  OBVIOUS
<1>3. Vec(c, 64) /\ \A i \in 1 .. 64 : c[i] = b[0 + i]
  <2>1. \A y, k, n : k \in Nat /\ n \in Nat =>
          Vec(Slice(y, k, n), n) /\ \A i \in 1 .. n : Slice(y, k, n)[i] = y[k + i]
    BY SliceVec
  <2> QED  BY ONLY <1>2, <2>1
<1>4. Vec(e, 0) /\ Concat(u, e, c)  BY EmptyVec DEF Concat
<1> HIDE DEF c, e, u
<1>5. Vec(u, 0 + 64) /\ \A i \in 1 .. 64 : u[0 + i] = c[i]  BY ONLY <1>2, <1>3, <1>4, ConcatVec
<1>6. \A i \in 1 .. 64 : u[i] = b[i]  BY <1>2, <1>3, <1>5
<1>7. Vec(u, 64)  BY <1>2, <1>5
<1> QED  BY <1>1, <1>6, <1>7

\* sha256 and sha512 of a whole message.
LEMMA HashIs ==
    ASSUME NEW h \in Hashes, NEW x, NEW n \in Nat, Vec(x, n), h = "sha512" => Shr(n, 64) = 0
    PROVE  Hash(h, x) = Fips(h, x)
<1> DEFINE s == IncInit
<1>1. s.absorbed = << >> /\ s.bytes = 0  BY DEF IncInit
<1>2. Vec(s.absorbed, 0)  BY <1>1, EmptyVec
<1>3. 0 \in Nat /\ 0 % BlockBytes(h) = 0 /\ 0 + n = n  BY DEF BlockBytes
<1>4. Concat(x, s.absorbed, x)
  <2>1. \A i \in 1 .. 0 : x[i] = s.absorbed[i]  OBVIOUS
  <2>2. \A i \in 1 .. n : x[0 + i] = x[i]  OBVIOUS
  <2> HIDE DEF s
  <2> QED  BY ONLY <1>2, <1>3, <2>1, <2>2, n \in Nat, Vec(x, n), Join
<1>5. Hash(h, x) = IncFinalize(h, s, x)  BY DEF Hash
<1> HIDE DEF s
<1>6. h = "sha512" => Shr(0 + n, 64) = 0  BY <1>3
<1> QED  BY ONLY <1>1, <1>2, <1>3, <1>4, <1>5, <1>6, n \in Nat, h \in Hashes, Vec(x, n), Finalize

\* sha256_inc_finalize behind absorbed blocks.
LEMMA Finalize256 ==
    ASSUME NEW s, NEW in, NEW A \in Nat, NEW n \in Nat,
           Vec(s.absorbed, A), s.bytes = A, A % 64 = 0, Vec(in, n),
           NEW x, Concat(x, s.absorbed, in)
    PROVE  IncFinalize("sha256", s, in) = Fips("sha256", x)
<1>1. "sha256" \in Hashes /\ "sha256" # "sha512" /\ A % BlockBytes("sha256") = 0
  BY DEF Hashes, BlockBytes
<1> QED  BY <1>1, Finalize

----------------------------------------------------------------------------
(* The messages meant, and the functions that hash them.                   *)

InnerMessage(l) == Pad("ipad") \o Bytes("optrand", SPX_N) \o Bytes("m", l)
OuterMessage == Pad("opad") \o DigestBytes("inner", "sha256")
SeedMessage(l) == HPrefix \o Bytes("m", l)
Mgf1Message == Bytes("R", SPX_N) \o Bytes("pk", SPX_N) \o DigestBytes("seed", "sha256") \o BigEndian(0, 4)
Digest0Message(l) == Bytes("sk", SPX_SK_BYTES) \o Bytes("m", l)
Digest1Message == DigestBytes("digest0", "sha256") \o <<Num(1)>>
WotscMessage(l) == Bytes("root", SPX_N) \o BigEndian(l, 2)
KeygenMessage(l) ==
    Bytes("domain", KEYGEN_DOMAIN_BYTES) \o Zeros(1) \o LittleEndian(l, 8) \o Bytes("entropy", l)

\* The key block of the inner hash, and the block of the public seed.
SeedBlock == Bytes("pub_seed", SPX_N) \o Zeros(64 - SPX_N)

LEMMA InnerParts ==
    ASSUME NEW l \in Nat
    PROVE  Parts(InnerMessage(l), Pad("ipad"), Bytes("optrand", 16), Bytes("m", l), 64, 16, l)
<1> DEFINE a == Pad("ipad")
           b == Bytes("optrand", 16)
           c == Bytes("m", l)
           y == a \o b
           x == InnerMessage(l)
<1>1. Concat(y, a, b) /\ Concat(x, y, c)  BY DEF InnerMessage, Concat, SPX_N
<1>2. Vec(a, 64) /\ Vec(b, 16) /\ Vec(c, l) /\ 64 \in Nat /\ 16 \in Nat  BY PadVec, BytesVec
<1> HIDE DEF a, b, c, x, y
<1>3. Parts(x, a, b, c, 64, 16, l)  BY ONLY <1>1, <1>2, l \in Nat, ThreeParts
<1> QED  BY <1>3 DEF a, b, c, x

\* gen_message_random, key block: it is absorbed, and optrand is in buf.
LEMMA HmacKeyBlock ==
    ASSUME NEW b, b = Store(Zeros(96), 0, Pad("ipad")),
           NEW s, s = IncBlocks("sha256", IncInit, b, 1),
           NEW c, c = Store(b, 0, Bytes("optrand", 16))
    PROVE  /\ s.bytes = 64 /\ s.absorbed = Pad("ipad")
           /\ Vec(c, 96) /\ \A i \in 1 .. 16 : c[i] = Byte("optrand", 0, i)
<1> DEFINE z == Zeros(96)
           p == Pad("ipad")
           o == Bytes("optrand", 16)
<1>1. /\ Vec(z, 96) /\ Vec(p, 64) /\ Vec(o, 16)
      /\ \A i \in 1 .. 16 : o[i] = Byte("optrand", 0, i)
  BY ZerosVec, PadVec, BytesVec
<1>2. 96 \in Nat /\ 64 \in Nat /\ 16 \in Nat /\ 0 \in Nat /\ 0 + 64 <= 96 /\ 0 + 16 <= 96
      /\ (\A i \in 1 .. 64 : 0 + i = i) /\ \A i \in 1 .. 16 : 0 + i = i
  OBVIOUS
<1>3. b = Store(z, 0, p) /\ c = Store(b, 0, o)  OBVIOUS
<1> HIDE DEF z, p, o
<1>4. Stored(b, z, 0, p, 96, 64)  BY ONLY <1>1, <1>2, <1>3, StoreIs
<1>5. Stored(c, b, 0, o, 96, 16)
  <2>1. Vec(b, 96)  BY <1>4 DEF Stored
  <2> QED  BY ONLY <1>1, <1>2, <1>3, <2>1, StoreIs
<1>6. s.bytes = 64 /\ Vec(s.absorbed, 64) /\ \A i \in 1 .. 64 : s.absorbed[i] = b[i]
  BY FirstBlock
<1>7. \A i \in 1 .. 64 : s.absorbed[i] = p[i]  BY <1>2, <1>4, <1>6 DEF Stored
<1>8. s.absorbed = p  BY ONLY <1>1, <1>6, <1>7, VecEqual
<1>9. \A i \in 1 .. 16 : c[i] = Byte("optrand", 0, i)  BY <1>1, <1>2, <1>5 DEF Stored
<1>10. Vec(c, 96)  BY <1>5 DEF Stored
<1> QED  BY <1>6, <1>8, <1>9, <1>10 DEF p

\* Short message: buf holds optrand and the message.
LEMMA HmacShortIs ==
    ASSUME NEW l \in Nat, 16 + l < 64, NEW b, Vec(b, 96),
           \A i \in 1 .. 16 : b[i] = Byte("optrand", 0, i),
           NEW s, s.bytes = 64, s.absorbed = Pad("ipad"),
           NEW c, c = Store(b, 16, Bytes("m", l))
    PROVE  /\ Vec(c, 96)
           /\ IncFinalize("sha256", s, Slice(c, 0, 16 + l)) = Fips("sha256", InnerMessage(l))
<1> DEFINE m == Bytes("m", l)
           o == Bytes("optrand", 16)
           in == Slice(c, 0, 16 + l)
           x == InnerMessage(l)
           a == Pad("ipad")
<1>1. /\ Vec(m, l) /\ Vec(o, 16) /\ Vec(a, 64) /\ c = Store(b, 16, m)
      /\ \A i \in 1 .. 16 : o[i] = Byte("optrand", 0, i)
  BY BytesVec, PadVec
<1>2. 96 \in Nat /\ 64 \in Nat /\ 16 \in Nat /\ 0 \in Nat /\ 16 + l <= 96 /\ 16 + l \in Nat
      /\ (\A i \in 1 .. 16 + l : 0 + i = i) /\ (\A i \in 1 .. 16 : i \in 1 .. 16 + l)
      /\ (\A i \in 1 .. l : 16 + i \in 1 .. 16 + l) /\ 64 % 64 = 0
  OBVIOUS
<1>3. Parts(x, a, o, m, 64, 16, l)  BY InnerParts
<1>4. Vec(in, 16 + l) /\ \A i \in 1 .. 16 + l : in[i] = c[0 + i]
  <2>1. Sliced(in, c, 0, 16 + l)  BY ONLY <1>2, SliceIs
  <2> QED  BY <2>1 DEF Sliced
<1> HIDE DEF m, o, in, x, a
<1>5. Vec(c, 96) /\ (\A i \in 1 .. 16 : c[i] = b[i]) /\ \A i \in 1 .. l : c[16 + i] = m[i]
  <2>1. Stored(c, b, 16, m, 96, l)  BY ONLY <1>1, <1>2, l \in Nat, Vec(b, 96), StoreIs
  <2> QED  BY <2>1 DEF Stored
<1>6. ASSUME NEW i \in 1 .. 16 PROVE in[i] = o[i]
  <2>1. in[i] = c[i]  BY <1>2, <1>4
  <2>2. c[i] = b[i] /\ b[i] = o[i]  BY <1>1, <1>5
  <2> QED  BY <2>1, <2>2
<1>7. \A i \in 1 .. l : in[16 + i] = m[i]  BY <1>2, <1>4, <1>5
<1>8. Concat(x, a, in)
  <2>1. 64 \in Nat /\ 16 \in Nat /\ Vec(a, 64)  BY <1>1
  <2>2. TwoParts(in, o, m, 16, l)  BY <1>4, <1>6, <1>7 DEF TwoParts
  <2> QED  BY ONLY <1>3, <2>1, <2>2, l \in Nat, JoinLast
<1>9. IncFinalize("sha256", s, in) = Fips("sha256", x)
  <2>1. s.absorbed = a  BY DEF a
  <2> QED  BY ONLY <1>1, <1>2, <1>4, <1>8, <2>1, s.bytes = 64, Finalize256
<1> QED  BY <1>5, <1>9 DEF in, x

\* Long message: one more block, then the rest of the message.
LEMMA HmacLongIs ==
    ASSUME NEW l \in Nat, ~(16 + l < 64), NEW b, Vec(b, 96),
           \A i \in 1 .. 16 : b[i] = Byte("optrand", 0, i),
           NEW s, s.bytes = 64, s.absorbed = Pad("ipad"),
           NEW c, c = Store(b, 16, Slice(Bytes("m", l), 0, 48)),
           NEW t, t = IncBlocks("sha256", s, c, 1)
    PROVE  /\ Vec(c, 96) /\ t.bytes = 128 /\ Vec(t.absorbed, 128)
           /\ IncFinalize("sha256", t, Slice(Bytes("m", l), 48, l - 48)) = Fips("sha256", InnerMessage(l))
<1> DEFINE m == Bytes("m", l)
           o == Bytes("optrand", 16)
           d == Slice(m, 0, 48)
           in == Slice(m, 48, l - 48)
           x == InnerMessage(l)
           a == Pad("ipad")
           e == Slice(c, 0, 64)
<1>1. /\ Vec(m, l) /\ Vec(o, 16) /\ Vec(a, 64) /\ c = Store(b, 16, d)
      /\ \A i \in 1 .. 16 : o[i] = Byte("optrand", 0, i)
  BY BytesVec, PadVec
<1>2. 96 \in Nat /\ 64 \in Nat /\ 48 \in Nat /\ 16 \in Nat /\ 0 \in Nat /\ 128 \in Nat
      /\ 16 + 48 <= 96 /\ l - 48 \in Nat /\ 64 + 64 = 128 /\ 128 % 64 = 0
      /\ 128 + (l - 48) = 64 + 16 + l
  OBVIOUS
<1>3. Parts(x, a, o, m, 64, 16, l)  BY InnerParts
<1>4. t.bytes = 128 /\ Concat(t.absorbed, s.absorbed, e)
  <2>1. BlockBytes("sha256") * 1 = 64  BY DEF BlockBytes
  <2>2. t.bytes = s.bytes + 64 /\ t.absorbed = s.absorbed \o e  BY <2>1 DEF IncBlocks
  <2>3. s.bytes + 64 = 128  OBVIOUS
  <2> HIDE DEF e
  <2> QED  BY ONLY <2>2, <2>3 DEF Concat
<1>5. /\ Vec(d, 48) /\ (\A i \in 1 .. 48 : d[i] = m[0 + i])
      /\ Vec(in, l - 48) /\ (\A i \in 1 .. l - 48 : in[i] = m[48 + i])
      /\ Vec(e, 64) /\ \A i \in 1 .. 64 : e[i] = c[0 + i]
  <2> HIDE DEF m
  <2>1. Sliced(d, m, 0, 48)  BY ONLY <1>2, SliceIs
  <2>2. Sliced(in, m, 48, l - 48)  BY ONLY <1>2, SliceIs
  <2>3. Sliced(e, c, 0, 64)  BY ONLY <1>2, SliceIs
  <2> HIDE DEF d, in, e
  <2> QED  BY <2>1, <2>2, <2>3 DEF Sliced
<1> HIDE DEF m, o, d, in, x, a, e
<1>6. Vec(c, 96) /\ (\A i \in 1 .. 16 : c[i] = b[i]) /\ \A i \in 1 .. 48 : c[16 + i] = d[i]
  <2>1. Stored(c, b, 16, d, 96, 48)  BY ONLY <1>1, <1>2, <1>5, Vec(b, 96), StoreIs
  <2> QED  BY <2>1 DEF Stored
<1>7. /\ Vec(t.absorbed, 128) /\ (\A i \in 1 .. 64 : t.absorbed[i] = a[i])
      /\ \A i \in 1 .. 64 : t.absorbed[64 + i] = e[i]
  <2>1. Concat(t.absorbed, a, e)  BY <1>4 DEF a
  <2>2. /\ Vec(t.absorbed, 64 + 64) /\ (\A i \in 1 .. 64 : t.absorbed[i] = a[i])
        /\ \A i \in 1 .. 64 : t.absorbed[64 + i] = e[i]
    BY ONLY <1>1, <1>2, <1>5, <2>1, ConcatVec
  <2> QED  BY <1>2, <2>2
<1>8. ASSUME NEW i \in 1 .. 128 PROVE x[i] = t.absorbed[i]
  <2>1. CASE i \in 1 .. 64  BY <1>3, <1>7, <2>1 DEF Parts
  <2>2. CASE i \in 65 .. 80
    <3> DEFINE j == i - 64
    <3>1. j \in 1 .. 16 /\ j \in 1 .. 64 /\ 64 + j = i /\ 0 + j = j  BY <2>2
    <3> HIDE DEF j
    <3>2. x[64 + j] = o[j]  BY <1>3, <3>1 DEF Parts
    <3>3. t.absorbed[64 + j] = e[j]  BY ONLY <1>7, <3>1
    <3>4. e[j] = c[j]  BY ONLY <1>5, <3>1
    <3>5. c[j] = b[j]  BY ONLY <1>6, <3>1
    <3>6. b[j] = o[j]  BY <1>1, <3>1
    <3> QED  BY <3>1, <3>2, <3>3, <3>4, <3>5, <3>6
  <2>3. CASE i \in 81 .. 128
    <3> DEFINE j == i - 80
    <3>1. j \in 1 .. 48 /\ j \in 1 .. l /\ 16 + j \in 1 .. 64 /\ 64 + (16 + j) = i
          /\ 64 + 16 + j = i /\ 0 + (16 + j) = 16 + j /\ 0 + j = j
      BY <1>2, <2>3
    <3> HIDE DEF j
    <3>2. x[64 + 16 + j] = m[j]  BY <1>3, <3>1 DEF Parts
    <3>3. t.absorbed[64 + (16 + j)] = e[16 + j]  BY ONLY <1>7, <3>1
    <3>4. e[16 + j] = c[16 + j]  BY ONLY <1>5, <3>1
    <3>5. c[16 + j] = d[j]  BY ONLY <1>6, <3>1
    <3>6. d[j] = m[j]  BY ONLY <1>5, <3>1
    <3> QED  BY <3>1, <3>2, <3>3, <3>4, <3>5, <3>6
  <2> QED  BY <2>1, <2>2, <2>3
<1>9. ASSUME NEW i \in 1 .. l - 48 PROVE x[128 + i] = in[i]
  <2>1. 48 + i \in 1 .. l /\ 64 + 16 + (48 + i) = 128 + i  BY <1>2
  <2>2. x[64 + 16 + (48 + i)] = m[48 + i]  BY <1>3, <2>1 DEF Parts
  <2> QED  BY <1>5, <2>1, <2>2
<1>10. Vec(x, 128 + (l - 48))  BY <1>2, <1>3 DEF Parts
<1>11. Concat(x, t.absorbed, in)
  <2>1. TwoParts(x, t.absorbed, in, 128, l - 48)  BY ONLY <1>8, <1>9, <1>10 DEF TwoParts
  <2>2. Vec(t.absorbed, 128) /\ Vec(in, l - 48) /\ 128 \in Nat /\ l - 48 \in Nat
    BY <1>2, <1>5, <1>7
  <2> QED  BY ONLY <2>1, <2>2, JoinParts
<1>12. IncFinalize("sha256", t, in) = Fips("sha256", x)
  BY ONLY <1>2, <1>4, <1>5, <1>7, <1>11, Finalize256
<1> QED  BY <1>4, <1>6, <1>7, <1>12 DEF in, x, m

\* The inner digest goes behind the block.
LEMMA InnerStored ==
    ASSUME NEW c, Vec(c, 96), NEW b, b = Store(c, 64, DigestBytes("inner", "sha256"))
    PROVE  Vec(b, 96) /\ \A i \in 1 .. 32 : b[64 + i] = Byte("inner", 0, i)
<1> DEFINE d == DigestBytes("inner", "sha256")
<1>1. Vec(d, 32) /\ (\A i \in 1 .. 32 : d[i] = Byte("inner", 0, i)) /\ b = Store(c, 64, d)
  BY BytesVec DEF DigestBytes, OutBytes
<1>2. 96 \in Nat /\ 64 \in Nat /\ 32 \in Nat /\ 64 + 32 <= 96  OBVIOUS
<1> HIDE DEF d
<1>3. Stored(b, c, 64, d, 96, 32)  BY ONLY <1>1, <1>2, Vec(c, 96), StoreIs
<1> QED  BY <1>1, <1>3 DEF Stored

\* The outer hash: the key block over the first 64 bytes, the inner digest behind it.
LEMMA HmacOuterIs ==
    ASSUME NEW b, Vec(b, 96), \A i \in 1 .. 32 : b[64 + i] = Byte("inner", 0, i),
           NEW c, c = Store(b, 0, Pad("opad"))
    PROVE  Hash("sha256", Slice(c, 0, 96)) = Fips("sha256", OuterMessage)
<1> DEFINE a == Pad("opad")
           d == DigestBytes("inner", "sha256")
           in == Slice(c, 0, 96)
           x == OuterMessage
<1>1. /\ Vec(d, 32) /\ (\A i \in 1 .. 32 : d[i] = Byte("inner", 0, i)) /\ c = Store(b, 0, a)
      /\ Vec(a, 64)
  BY BytesVec, PadVec DEF DigestBytes, OutBytes
<1>2. 96 \in Nat /\ 64 \in Nat /\ 32 \in Nat /\ 0 \in Nat /\ 64 + 32 = 96 /\ 0 + 64 <= 96
  OBVIOUS
<1>3. Concat(x, a, d)  BY DEF OuterMessage, Concat
<1>4. Sliced(in, c, 0, 96)  BY ONLY <1>2, SliceIs
<1> HIDE DEF a, d, in, x
<1>5. TwoParts(x, a, d, 64, 32)  BY ONLY <1>1, <1>2, <1>3, ConcatIs
<1>6. Stored(c, b, 0, a, 96, 64)  BY ONLY <1>1, <1>2, Vec(b, 96), StoreIs
<1>7. TwoParts(in, a, d, 64, 32)
  <2>1. Vec(in, 64 + 32)  BY <1>2, <1>4 DEF Sliced
  <2>2. ASSUME NEW i \in 1 .. 64 PROVE in[i] = a[i]
    <3>1. 0 + i = i /\ i \in 1 .. 96  OBVIOUS
    <3>2. in[i] = c[0 + i]  BY <1>4, <3>1 DEF Sliced
    <3>3. c[0 + i] = a[i]  BY <1>6 DEF Stored
    <3> QED  BY <3>2, <3>3
  <2>3. ASSUME NEW i \in 1 .. 32 PROVE in[64 + i] = d[i]
    <3>1. 0 + (64 + i) = 64 + i /\ 64 + i \in 1 .. 96 /\ 64 + i \in 0 + 64 + 1 .. 96  OBVIOUS
    <3>2. in[64 + i] = c[0 + (64 + i)]  BY <1>4, <3>1 DEF Sliced
    <3>3. c[64 + i] = b[64 + i]  BY <1>6, <3>1 DEF Stored
    <3> QED  BY <1>1, <3>1, <3>2, <3>3
  <2> QED  BY <2>1, <2>2, <2>3 DEF TwoParts
<1>8. in = x  BY ONLY <1>1, <1>2, <1>5, <1>7, TwoPartsUnique
<1>9. Hash("sha256", x) = Fips("sha256", x)
  <2>1. "sha256" \in Hashes /\ "sha256" # "sha512"  BY DEF Hashes
  <2>2. Vec(x, 96)  BY <1>2, <1>5 DEF TwoParts
  <2> QED  BY ONLY <1>2, <2>1, <2>2, HashIs
<1> QED  BY <1>8, <1>9 DEF in, x

LEMMA HPrefixVec == Vec(HPrefix, 48) /\ Len(HPrefix) = 48
<1> DEFINE a == Bytes("R", 16)
           b == Bytes("pk", 32)
           x == HPrefix
<1>1. Vec(a, 16) /\ Vec(b, 32) /\ 16 \in Nat /\ 32 \in Nat  BY BytesVec
<1>2. Concat(x, a, b)  BY DEF HPrefix, Concat, SPX_N, SPX_PK_BYTES
<1> HIDE DEF a, b, x
<1>3. TwoParts(x, a, b, 16, 32)  BY ONLY <1>1, <1>2, ConcatIs
<1>4. 16 + 32 = 48 /\ 48 \in Nat  OBVIOUS
<1>5. Vec(x, 48)  BY <1>3, <1>4 DEF TwoParts
<1>6. Len(x) = 48  BY <1>4, <1>5, VecLen
<1> QED  BY <1>5, <1>6 DEF x

LEMMA SeedParts ==
    ASSUME NEW l \in Nat
    PROVE  TwoParts(SeedMessage(l), HPrefix, Bytes("m", l), 48, l)
<1> DEFINE a == HPrefix
           b == Bytes("m", l)
           x == SeedMessage(l)
<1>1. Vec(a, 48) /\ Vec(b, l) /\ 48 \in Nat /\ Concat(x, a, b)
  BY HPrefixVec, BytesVec DEF SeedMessage, Concat
<1> HIDE DEF a, b, x
<1>2. TwoParts(x, a, b, 48, l)  BY ONLY <1>1, l \in Nat, ConcatIs
<1> QED  BY <1>2 DEF a, b, x

\* hash_message, short message: R, pk and the message are in inbuf.
LEMMA HMsgShortIs ==
    ASSUME NEW l \in Nat, 48 + l < 64,
           NEW b, b = Store(Store(Zeros(64), 0, HPrefix), 48, Bytes("m", l))
    PROVE  /\ Vec(b, 64)
           /\ IncFinalize("sha256", IncInit, Slice(b, 0, 48 + l)) = Fips("sha256", SeedMessage(l))
<1> DEFINE z == Zeros(64)
           p == HPrefix
           m == Bytes("m", l)
           c == Store(z, 0, p)
           in == Slice(b, 0, 48 + l)
           x == SeedMessage(l)
<1>1. Vec(z, 64) /\ Vec(p, 48) /\ Vec(m, l) /\ b = Store(c, 48, m)
  BY ZerosVec, HPrefixVec, BytesVec
<1>2. 64 \in Nat /\ 48 \in Nat /\ 0 \in Nat /\ 48 + l \in Nat /\ 48 + l <= 64 /\ 0 + 48 <= 64
  OBVIOUS
<1>3. TwoParts(x, p, m, 48, l)  BY SeedParts
<1>4. Sliced(in, b, 0, 48 + l)  BY ONLY <1>2, SliceIs
<1> HIDE DEF z, p, m, in, x
<1>5. Stored(c, z, 0, p, 64, 48)  BY ONLY <1>1, <1>2, StoreIs
<1>6. Stored(b, c, 48, m, 64, l)
  <2>1. Vec(c, 64)  BY <1>5 DEF Stored
  <2> HIDE DEF c
  <2> QED  BY ONLY <1>1, <1>2, <2>1, l \in Nat, StoreIs
<1> HIDE DEF c
<1>7. TwoParts(in, p, m, 48, l)
  <2>1. Vec(in, 48 + l)  BY <1>4 DEF Sliced
  <2>2. ASSUME NEW i \in 1 .. 48 PROVE in[i] = p[i]
    <3>1. 0 + i = i /\ i \in 1 .. 48 + l  BY <1>2
    <3>2. in[i] = b[0 + i]  BY <1>4, <3>1 DEF Sliced
    <3>3. b[i] = c[i]  BY <1>6 DEF Stored
    <3>4. c[0 + i] = p[i]  BY <1>5 DEF Stored
    <3> QED  BY <3>1, <3>2, <3>3, <3>4
  <2>3. ASSUME NEW i \in 1 .. l PROVE in[48 + i] = m[i]
    <3>1. 0 + (48 + i) = 48 + i /\ 48 + i \in 1 .. 48 + l  BY <1>2
    <3>2. in[48 + i] = b[0 + (48 + i)]  BY <1>4, <3>1 DEF Sliced
    <3>3. b[48 + i] = m[i]  BY <1>6 DEF Stored
    <3> QED  BY <3>1, <3>2, <3>3
  <2> QED  BY <2>1, <2>2, <2>3 DEF TwoParts
<1>8. in = x  BY ONLY <1>1, <1>2, <1>3, <1>7, l \in Nat, TwoPartsUnique
<1>9. IncFinalize("sha256", IncInit, x) = Fips("sha256", x)
  <2>1. "sha256" \in Hashes /\ "sha256" # "sha512"  BY DEF Hashes
  <2>2. Vec(x, 48 + l)  BY <1>3 DEF TwoParts
  <2>3. Hash("sha256", x) = Fips("sha256", x)  BY ONLY <1>2, <2>1, <2>2, HashIs
  <2> QED  BY <2>3 DEF Hash
<1>10. Vec(b, 64)  BY <1>6 DEF Stored
<1> QED  BY <1>8, <1>9, <1>10 DEF in, x

\* Long message: the block is filled up, the rest hashed where it is.
LEMMA HMsgLongIs ==
    ASSUME NEW l \in Nat, ~(48 + l < 64),
           NEW b, b = Store(Store(Zeros(64), 0, HPrefix), 48, Slice(Bytes("m", l), 0, 16)),
           NEW t, t = IncBlocks("sha256", IncInit, b, 1)
    PROVE  /\ Vec(b, 64) /\ t.bytes = 64 /\ Vec(t.absorbed, 64)
           /\ IncFinalize("sha256", t, Slice(Bytes("m", l), 16, l - 16)) = Fips("sha256", SeedMessage(l))
<1> DEFINE z == Zeros(64)
           p == HPrefix
           m == Bytes("m", l)
           d == Slice(m, 0, 16)
           c == Store(z, 0, p)
           in == Slice(m, 16, l - 16)
           x == SeedMessage(l)
<1>1. Vec(z, 64) /\ Vec(p, 48) /\ Vec(m, l) /\ b = Store(c, 48, d)
  BY ZerosVec, HPrefixVec, BytesVec
<1>2. 64 \in Nat /\ 48 \in Nat /\ 16 \in Nat /\ 0 \in Nat /\ l - 16 \in Nat /\ 48 + 16 <= 64
      /\ 0 + 48 <= 64 /\ 64 + (l - 16) = 48 + l /\ 64 % 64 = 0
  OBVIOUS
<1>3. TwoParts(x, p, m, 48, l)  BY SeedParts
<1> HIDE DEF m
<1>4. Sliced(d, m, 0, 16)  BY ONLY <1>2, SliceIs
<1>5. Sliced(in, m, 16, l - 16)  BY ONLY <1>2, SliceIs
<1> HIDE DEF z, p, d, in, x
<1>6. Stored(c, z, 0, p, 64, 48)  BY ONLY <1>1, <1>2, StoreIs
<1>7. Stored(b, c, 48, d, 64, 16)
  <2>1. Vec(c, 64) /\ Vec(d, 16)  BY <1>4, <1>6 DEF Stored, Sliced
  <2> HIDE DEF c
  <2> QED  BY ONLY <1>1, <1>2, <2>1, StoreIs
<1> HIDE DEF c
<1>8. t.bytes = 64 /\ Vec(t.absorbed, 64) /\ \A i \in 1 .. 64 : t.absorbed[i] = b[i]
  BY FirstBlock
<1>9. ASSUME NEW i \in 1 .. 64 PROVE x[i] = t.absorbed[i]
  <2>1. CASE i \in 1 .. 48
    <3>1. 0 + i = i  OBVIOUS
    <3>2. b[i] = c[i]  BY <1>7, <2>1 DEF Stored
    <3>3. c[0 + i] = p[i]  BY <1>6, <2>1 DEF Stored
    <3>4. x[i] = p[i]  BY <1>3, <2>1 DEF TwoParts
    <3> QED  BY <1>8, <3>1, <3>2, <3>3, <3>4
  <2>2. CASE i \in 49 .. 64
    <3> DEFINE j == i - 48
    <3>1. j \in 1 .. 16 /\ j \in 1 .. l /\ 48 + j = i /\ 0 + j = j  BY <1>2, <2>2
    <3> HIDE DEF j
    <3>2. b[48 + j] = d[j]  BY <1>7, <3>1 DEF Stored
    <3>3. d[j] = m[0 + j]  BY <1>4, <3>1 DEF Sliced
    <3>4. x[48 + j] = m[j]  BY <1>3, <3>1 DEF TwoParts
    <3> QED  BY <1>8, <3>1, <3>2, <3>3, <3>4
  <2> QED  BY <2>1, <2>2
<1>10. ASSUME NEW i \in 1 .. l - 16 PROVE x[64 + i] = in[i]
  <2>1. 16 + i \in 1 .. l /\ 48 + (16 + i) = 64 + i  BY <1>2
  <2>2. x[48 + (16 + i)] = m[16 + i]  BY <1>3, <2>1 DEF TwoParts
  <2>3. in[i] = m[16 + i]  BY <1>5 DEF Sliced
  <2> QED  BY <2>1, <2>2, <2>3
<1>11. Vec(x, 64 + (l - 16)) /\ Vec(in, l - 16) /\ Vec(b, 64)
  BY <1>2, <1>3, <1>5, <1>7 DEF TwoParts, Sliced, Stored
<1>12. Concat(x, t.absorbed, in)
  <2>1. TwoParts(x, t.absorbed, in, 64, l - 16)  BY ONLY <1>9, <1>10, <1>11 DEF TwoParts
  <2>2. Vec(t.absorbed, 64) /\ Vec(in, l - 16) /\ 64 \in Nat /\ l - 16 \in Nat
    BY <1>2, <1>8, <1>11
  <2> QED  BY ONLY <2>1, <2>2, JoinParts
<1>13. IncFinalize("sha256", t, in) = Fips("sha256", x)
  <2>1. 64 \in Nat /\ l - 16 \in Nat /\ 64 % 64 = 0  BY <1>2
  <2>2. Vec(t.absorbed, 64) /\ t.bytes = 64 /\ Vec(in, l - 16)  BY <1>8, <1>11
  <2> QED  BY ONLY <1>12, <2>1, <2>2, Finalize256
<1> QED  BY <1>8, <1>11, <1>13 DEF in, x, m

\* mgf1_X_cached: the whole input is absorbed, the counter is left.
LEMMA Mgf1Is ==
    ASSUME NEW in, in = Bytes("R", SPX_N) \o Bytes("pk", SPX_N) \o DigestBytes("seed", "sha256")
    PROVE  /\ Len(in) = 64
           /\ IncFinalize("sha256", IncBlocks("sha256", IncInit, in, 1), Slice(in, 64, 0) \o BigEndian(0, 4))
                = Fips("sha256", Mgf1Message)
<1> DEFINE a == Bytes("R", 16)
           b == Bytes("pk", 16)
           d == DigestBytes("seed", "sha256")
           y == a \o b
           be == BigEndian(0, 4)
           e == Slice(in, 64, 0)
           tail == e \o be
           t == IncBlocks("sha256", IncInit, in, 1)
           x == Mgf1Message
<1>1. Vec(a, 16) /\ Vec(b, 16) /\ Vec(d, 32) /\ Vec(be, 4)
  BY BytesVec, BigEndianVec DEF DigestBytes, OutBytes
<1>2. Concat(y, a, b) /\ Concat(in, y, d) /\ Concat(tail, e, be) /\ Concat(x, in, be)
  BY DEF Concat, Mgf1Message, SPX_N
<1>3. 64 \in Nat /\ 32 \in Nat /\ 16 \in Nat /\ 0 \in Nat /\ 4 \in Nat /\ 16 + 16 + 32 = 64
      /\ 0 + 4 = 4 /\ 64 % 64 = 0
  OBVIOUS
<1>4. t.bytes = 64 /\ Vec(t.absorbed, 64) /\ \A i \in 1 .. 64 : t.absorbed[i] = in[i]
  BY FirstBlock
<1>5. Sliced(e, in, 64, 0)  BY ONLY <1>3, SliceIs
<1> HIDE DEF a, b, d, y, be, e, tail, t, x
<1>6. Vec(in, 64)
  <2>1. Parts(in, a, b, d, 16, 16, 32)  BY ONLY <1>1, <1>2, <1>3, ThreeParts
  <2> QED  BY <1>3, <2>1 DEF Parts
<1>7. t.absorbed = in  BY ONLY <1>4, <1>6, VecEqual
<1>8. tail = be
  <2>1. Vec(e, 0)  BY <1>5 DEF Sliced
  <2>2. TwoParts(tail, e, be, 0, 4)  BY ONLY <1>1, <1>2, <1>3, <2>1, ConcatIs
  <2>3. Vec(tail, 4) /\ \A i \in 1 .. 4 : tail[i] = be[i]
    <3>1. \A i \in 1 .. 4 : 0 + i = i  OBVIOUS
    <3> QED  BY <1>3, <2>2, <3>1 DEF TwoParts
  <2> QED  BY <1>1, <2>3, VecEqual
<1>9. Concat(x, t.absorbed, be)  BY <1>2, <1>7
<1>10. IncFinalize("sha256", t, be) = Fips("sha256", x)
  BY ONLY <1>1, <1>3, <1>4, <1>9, Finalize256
<1>11. Len(in) = 64  BY <1>3, <1>6, VecLen
<1> QED  BY <1>8, <1>10, <1>11 DEF t, tail, e, be, x

\* slh_dsa_derandomize: the secret key is the block absorbed ahead.
LEMMA DerandomizeIs ==
    ASSUME NEW l \in Nat, NEW t, t = IncBlocks("sha256", IncInit, Bytes("sk", 64), 1)
    PROVE  /\ t.bytes = 64 /\ Vec(t.absorbed, 64)
           /\ IncFinalize("sha256", t, Bytes("m", l)) = Fips("sha256", Digest0Message(l))
<1> DEFINE a == Bytes("sk", 64)
           m == Bytes("m", l)
           x == Digest0Message(l)
<1>1. Vec(a, 64) /\ Vec(m, l) /\ 64 \in Nat /\ 64 % 64 = 0  BY BytesVec
<1>2. Concat(x, a, m)  BY DEF Concat, Digest0Message, SPX_SK_BYTES
<1>3. t.bytes = 64 /\ Vec(t.absorbed, 64) /\ \A i \in 1 .. 64 : t.absorbed[i] = a[i]
  BY FirstBlock
<1> HIDE DEF a, m, x
<1>4. t.absorbed = a  BY <1>1, <1>3, VecEqual
<1>5. Concat(x, t.absorbed, m)  BY <1>2, <1>4
<1>6. IncFinalize("sha256", t, m) = Fips("sha256", x)
  BY ONLY <1>1, <1>3, <1>5, l \in Nat, Finalize256
<1> QED  BY <1>3, <1>6 DEF m, x

LEMMA Derandomize1Is == Hash("sha256", Digest1Message) = Fips("sha256", Digest1Message)
<1> DEFINE a == DigestBytes("digest0", "sha256")
           b == <<Num(1)>>
           x == Digest1Message
<1>1. Vec(a, 32) /\ Vec(b, 1) /\ 32 \in Nat /\ 1 \in Nat /\ 32 + 1 \in Nat
  BY BytesVec, OneVec DEF DigestBytes, OutBytes
<1>2. Concat(x, a, b)  BY DEF Concat, Digest1Message
<1> HIDE DEF a, b, x
<1>3. TwoParts(x, a, b, 32, 1)  BY ONLY <1>1, <1>2, ConcatIs
<1>4. Vec(x, 32 + 1)  BY <1>3 DEF TwoParts
<1>5. "sha256" \in Hashes /\ "sha256" # "sha512"  BY DEF Hashes
<1>6. Hash("sha256", x) = Fips("sha256", x)  BY ONLY <1>1, <1>4, <1>5, HashIs
<1> QED  BY <1>6 DEF x

\* wotsc_hash_counter: the counter's two bytes, high byte first.
LEMMA WotscIs ==
    ASSUME NEW l \in Nat, NEW b,
           b = Store(Bytes("root", 16), 16, <<Num(Shr(l, 8) % 256), Num(l % 256)>>)
    PROVE  Hash("sha256", b) = Fips("sha256", WotscMessage(l))
<1> DEFINE a == Bytes("root", 16)
           c == <<Num(Shr(l, 8) % 256), Num(l % 256)>>
           be == BigEndian(l, 2)
           x == WotscMessage(l)
<1>1. Vec(a, 16) /\ 16 \in Nat /\ 2 \in Nat /\ 16 + 2 \in Nat /\ b = Store(a, 16, c)  BY BytesVec
<1>2. Vec(c, 2)
  <2> DEFINE p == Num(Shr(l, 8) % 256)
             q == Num(l % 256)
  <2>1. c = <<p, q>>  OBVIOUS
  <2> HIDE DEF p, q
  <2>2. <<p, q>> \in Seq({p, q}) /\ Len(<<p, q>>) = 2  OBVIOUS
  <2>3. Vec(c, 2)
    <3> HIDE DEF c
    <3>1. c \in Seq({p, q}) /\ Len(c) = 2  BY <2>1, <2>2
    <3> QED  BY ONLY <3>1, SeqVec
  <2> QED  BY <2>3
<1>3. Vec(be, 2) /\ \A i \in 1 .. 2 : be[i] = Num(Shr(l, 8 * (2 - i)) % 256)  BY BigEndianVec
<1>4. Concat(x, a, be)  BY DEF Concat, WotscMessage, SPX_N
<1>5. c = be
  <2>1. Shr(l, 0) = l  BY ShrDef
  <2>2. 8 * (2 - 1) = 8 /\ 8 * (2 - 2) = 0 /\ 1 \in 1 .. 2 /\ 2 \in 1 .. 2  OBVIOUS
  <2>3. c[1] = Num(Shr(l, 8) % 256) /\ c[2] = Num(l % 256)  OBVIOUS
  <2> HIDE DEF c, be
  <2>4. be[1] = Num(Shr(l, 8) % 256) /\ be[2] = Num(Shr(l, 0) % 256)  BY <1>3, <2>2
  <2>5. \A i \in 1 .. 2 : i = 1 \/ i = 2  OBVIOUS
  <2>6. \A i \in 1 .. 2 : c[i] = be[i]  BY <2>1, <2>3, <2>4, <2>5
  <2> QED  BY <1>2, <1>3, <2>6, VecEqual
<1> HIDE DEF a, c, be, x
<1>6. TwoParts(b, a, be, 16, 2)  BY ONLY <1>1, <1>3, <1>5, StoreEndIs
<1>7. TwoParts(x, a, be, 16, 2)  BY ONLY <1>1, <1>3, <1>4, ConcatIs
<1>8. b = x  BY ONLY <1>1, <1>3, <1>6, <1>7, TwoPartsUnique
<1>9. Vec(x, 16 + 2)  BY <1>7 DEF TwoParts
<1>10. "sha256" \in Hashes /\ "sha256" # "sha512"  BY DEF Hashes
<1>11. Hash("sha256", x) = Fips("sha256", x)  BY ONLY <1>1, <1>9, <1>10, HashIs
<1> QED  BY <1>8, <1>11 DEF x

\* derive_keygen_seed_v1: the buffer is the message, and its length fits 64 bits.
LEMMA KeygenIs ==
    ASSUME NEW l \in Nat, Shr(65 + l, 64) = 0,
           NEW b1, b1 = Store(Zeros(65 + l), 0, Bytes("domain", 56)),
           NEW b2, b2 = Store(b1, 56, Zeros(1)),
           NEW b3, b3 = Store(b2, 57, LittleEndian(l, 8)),
           NEW b4, b4 = Store(b3, 65, Bytes("entropy", l))
    PROVE  Hash("sha512", b4) = Fips("sha512", KeygenMessage(l))
<1> DEFINE N == 65 + l
           z == Zeros(N)
           a == Bytes("domain", 56)
           o == Zeros(1)
           le == LittleEndian(l, 8)
           c == Bytes("entropy", l)
           y1 == a \o o
           y == y1 \o le
           x == KeygenMessage(l)
<1>1. Vec(z, N) /\ Vec(a, 56) /\ Vec(o, 1) /\ Vec(le, 8) /\ Vec(c, l)
  BY ZerosVec, BytesVec, LittleEndianVec
<1>2. b1 = Store(z, 0, a) /\ b2 = Store(b1, 56, o) /\ b3 = Store(b2, 57, le) /\ b4 = Store(b3, 65, c)
  OBVIOUS
<1>3. 0 \in Nat /\ 56 \in Nat /\ 1 \in Nat /\ 57 \in Nat /\ 8 \in Nat /\ 65 \in Nat /\ N \in Nat
      /\ 0 + 56 <= N /\ 56 + 1 <= N /\ 57 + 8 <= N /\ 65 + l <= N /\ 56 + 1 + 8 = 65
  OBVIOUS
<1>4. Concat(y1, a, o) /\ Concat(y, y1, le) /\ Concat(x, y, c)
  BY DEF Concat, KeygenMessage, KEYGEN_DOMAIN_BYTES
<1>n. N = 65 + l  OBVIOUS
<1> HIDE DEF N, z, a, o, le, c, y1, y, x
<1>5. Stored(b1, z, 0, a, N, 56)  BY ONLY <1>1, <1>2, <1>3, StoreIs
<1>6. Vec(b1, N)  BY <1>5 DEF Stored
<1>7. Stored(b2, b1, 56, o, N, 1)  BY ONLY <1>1, <1>2, <1>3, <1>6, StoreIs
<1>8. Vec(b2, N)  BY <1>7 DEF Stored
<1>9. Stored(b3, b2, 57, le, N, 8)  BY ONLY <1>1, <1>2, <1>3, <1>8, StoreIs
<1>10. Vec(b3, N)  BY <1>9 DEF Stored
<1>11. Stored(b4, b3, 65, c, N, l)  BY ONLY <1>1, <1>2, <1>3, <1>10, l \in Nat, StoreIs
<1>12. Parts(y, a, o, le, 56, 1, 8)  BY ONLY <1>1, <1>3, <1>4, ThreeParts
<1>13. Vec(y, 65)  BY <1>3, <1>12 DEF Parts
<1>14. ASSUME NEW i \in 1 .. 65 PROVE b4[i] = y[i]
  <2>1. b4[i] = b3[i]  BY <1>11 DEF Stored
  <2>2. CASE i \in 1 .. 56
    <3>1. i \in 1 .. 57 /\ 0 + i = i  BY <2>2
    <3>2. b3[i] = b2[i]  BY <1>9, <3>1 DEF Stored
    <3>3. b2[i] = b1[i]  BY <1>7, <2>2 DEF Stored
    <3>4. b1[0 + i] = a[i]  BY <1>5, <2>2 DEF Stored
    <3>5. y[i] = a[i]  BY <1>12, <2>2 DEF Parts
    <3> QED  BY <2>1, <3>1, <3>2, <3>3, <3>4, <3>5
  <2>3. CASE i = 57
    <3>1. i \in 1 .. 57 /\ 56 + 1 = i /\ 1 \in 1 .. 1  BY <2>3
    <3>2. b3[i] = b2[i]  BY <1>9, <3>1 DEF Stored
    <3>3. b2[56 + 1] = o[1]  BY <1>7, <3>1 DEF Stored
    <3>4. y[56 + 1] = o[1]  BY <1>12, <3>1 DEF Parts
    <3> QED  BY <2>1, <3>1, <3>2, <3>3, <3>4
  <2>4. CASE i \in 58 .. 65
    <3> DEFINE j == i - 57
    <3>1. j \in 1 .. 8 /\ 57 + j = i /\ 56 + 1 + j = i  BY <2>4
    <3> HIDE DEF j
    <3>2. b3[57 + j] = le[j]  BY <1>9, <3>1 DEF Stored
    <3>3. y[56 + 1 + j] = le[j]  BY <1>12, <3>1 DEF Parts
    <3> QED  BY <2>1, <3>1, <3>2, <3>3
  <2> QED  BY <2>2, <2>3, <2>4
<1>15. TwoParts(b4, y, c, 65, l)  BY <1>n, <1>11, <1>14 DEF TwoParts, Stored
<1>16. TwoParts(x, y, c, 65, l)  BY ONLY <1>1, <1>3, <1>4, <1>13, l \in Nat, ConcatIs
<1>17. b4 = x  BY ONLY <1>1, <1>3, <1>13, <1>15, <1>16, l \in Nat, TwoPartsUnique
<1>18. Vec(x, N)  BY <1>n, <1>16 DEF TwoParts
<1>19. "sha512" \in Hashes /\ Shr(N, 64) = 0  BY <1>n DEF Hashes
<1>20. Hash("sha512", x) = Fips("sha512", x)  BY ONLY <1>3, <1>18, <1>19, HashIs
<1> QED  BY <1>17, <1>20 DEF x

\* seed_state: the public seed and zeros, up to the end of the first block.
LEMMA SeedBlockIs ==
    /\ Vec(SeedBlock, 64)
    /\ \A i \in 1 .. 64 : SeedBlock[i] = IF i <= 16 THEN Byte("pub_seed", 0, i) ELSE Num(0)
<1> DEFINE a == Bytes("pub_seed", 16)
           z == Zeros(48)
           x == SeedBlock
<1>1. /\ Vec(a, 16) /\ (\A i \in 1 .. 16 : a[i] = Byte("pub_seed", 0, i))
      /\ Vec(z, 48) /\ \A i \in 1 .. 48 : z[i] = Num(0)
  BY BytesVec, ZerosVec
<1>2. Concat(x, a, z)
  <2>1. 64 - 16 = 48  OBVIOUS
  <2> QED  BY <2>1 DEF Concat, SeedBlock, SPX_N
<1>3. 16 \in Nat /\ 48 \in Nat /\ 16 + 48 = 64  OBVIOUS
<1> HIDE DEF a, z, x
<1>4. TwoParts(x, a, z, 16, 48)  BY ONLY <1>1, <1>2, <1>3, ConcatIs
<1>5. ASSUME NEW i \in 1 .. 64 PROVE x[i] = IF i <= 16 THEN Byte("pub_seed", 0, i) ELSE Num(0)
  <2>1. CASE i \in 1 .. 16  BY <1>1, <1>4, <2>1 DEF TwoParts
  <2>2. CASE i \in 17 .. 64
    <3>1. i - 16 \in 1 .. 48 /\ 16 + (i - 16) = i /\ ~(i <= 16)  BY <2>2
    <3>2. x[16 + (i - 16)] = z[i - 16]  BY <1>4, <3>1 DEF TwoParts
    <3>3. z[i - 16] = Num(0)  BY <1>1, <3>1
    <3> QED  BY <3>1, <3>2, <3>3
  <2> QED  BY <2>1, <2>2
<1>6. Vec(x, 64)  BY <1>3, <1>4 DEF TwoParts
<1> QED  BY <1>5, <1>6 DEF x

LEMMA SeedStateIs ==
    ASSUME NEW b, b = Bytes("pub_seed", 16) \o Zeros(112),
           NEW t, t = IncBlocks("sha256", IncInit, b, 1)
    PROVE  t.bytes = 64 /\ t.absorbed = SeedBlock
<1> DEFINE a == Bytes("pub_seed", 16)
           z == Zeros(112)
<1>1. /\ Vec(a, 16) /\ (\A i \in 1 .. 16 : a[i] = Byte("pub_seed", 0, i))
      /\ Vec(z, 112) /\ \A i \in 1 .. 112 : z[i] = Num(0)
  BY BytesVec, ZerosVec
<1>2. Concat(b, a, z) /\ 16 \in Nat /\ 112 \in Nat  BY DEF Concat
<1>3. t.bytes = 64 /\ Vec(t.absorbed, 64) /\ \A i \in 1 .. 64 : t.absorbed[i] = b[i]
  BY FirstBlock
<1> HIDE DEF a, z
<1>4. TwoParts(b, a, z, 16, 112)  BY ONLY <1>1, <1>2, ConcatIs
<1>5. ASSUME NEW i \in 1 .. 64 PROVE t.absorbed[i] = SeedBlock[i]
  <2>1. CASE i \in 1 .. 16
    <3>1. b[i] = Byte("pub_seed", 0, i)  BY <1>1, <1>4, <2>1 DEF TwoParts
    <3>2. i <= 16 /\ i \in 1 .. 64  BY <2>1
    <3>3. SeedBlock[i] = Byte("pub_seed", 0, i)  BY <3>2, SeedBlockIs
    <3> QED  BY <1>3, <3>1, <3>2, <3>3
  <2>2. CASE i \in 17 .. 64
    <3>1. i - 16 \in 1 .. 112 /\ 16 + (i - 16) = i /\ ~(i <= 16)  BY <2>2
    <3>2. b[16 + (i - 16)] = z[i - 16]  BY <1>4, <3>1 DEF TwoParts
    <3>3. b[i] = Num(0)  BY <1>1, <3>1, <3>2
    <3> QED  BY <1>3, <3>1, <3>3, SeedBlockIs
  <2> QED  BY <2>1, <2>2
<1>6. Vec(SeedBlock, 64)  BY SeedBlockIs
<1>7. t.absorbed = SeedBlock  BY ONLY <1>3, <1>5, <1>6, VecEqual
<1> QED  BY <1>3, <1>7

\* What follows the seed block for thash and prf_addr.
LaneInput(name, l, j) == IF name = "thash" THEN LaneBytes("in", j, l * 16) ELSE Bytes("sk_seed", 16)
LaneInputBytes(name, l) == IF name = "thash" THEN l * 16 ELSE 16
LaneMessage(name, l, j) == SeedBlock \o LaneBytes("addr", j, 22) \o LaneInput(name, l, j)

LEMMA LaneInputVec ==
    ASSUME NEW l \in Nat, NEW name, NEW j
    PROVE  /\ LaneInputBytes(name, l) \in Nat
           /\ Vec(LaneInput(name, l, j), LaneInputBytes(name, l))
           /\ Vec(LaneBytes("addr", j, 22), 22)
<1>1. l * 16 \in Nat /\ 16 \in Nat /\ 22 \in Nat  OBVIOUS
<1> QED  BY <1>1, LaneBytesVec, BytesVec DEF LaneInput, LaneInputBytes

\* The address and the input behind it make up the message of the lane.
LEMMA SeededMessage ==
    ASSUME NEW l \in Nat, NEW name, NEW j, NEW in, NEW n, n = LaneInputBytes(name, l),
           TwoParts(in, LaneBytes("addr", j, 22), LaneInput(name, l, j), 22, n)
    PROVE  /\ n \in Nat /\ 22 + n \in Nat /\ Vec(in, 22 + n)
           /\ Concat(LaneMessage(name, l, j), SeedBlock, in)
<1> DEFINE a == SeedBlock
           b == LaneBytes("addr", j, 22)
           c == LaneInput(name, l, j)
           y == a \o b
           x == LaneMessage(name, l, j)
<1>1. Vec(a, 64) /\ Vec(b, 22) /\ Vec(c, n) /\ n \in Nat /\ 64 \in Nat /\ 22 \in Nat /\ 22 + n \in Nat
  BY SeedBlockIs, LaneInputVec
<1>2. Concat(y, a, b) /\ Concat(x, y, c) /\ TwoParts(in, b, c, 22, n)  BY DEF Concat, LaneMessage
<1> HIDE DEF a, b, c, y, x
<1>3. Parts(x, a, b, c, 64, 22, n)  BY ONLY <1>1, <1>2, ThreeParts
<1>4. Concat(x, a, in)  BY ONLY <1>1, <1>2, <1>3, JoinLast
<1>5. Vec(in, 22 + n)  BY <1>2 DEF TwoParts
<1> QED  BY <1>1, <1>4, <1>5 DEF x, a

\* The scalar code and one lane of the eight-lane code, from the cached seed state.
LEMMA SeededScalar ==
    ASSUME NEW l \in Nat, NEW name, NEW in, NEW n, n = LaneInputBytes(name, l),
           TwoParts(in, LaneBytes("addr", 0, 22), LaneInput(name, l, 0), 22, n),
           NEW s, s.bytes = 64, s.absorbed = SeedBlock
    PROVE  IncFinalize("sha256", s, in) = Fips("sha256", LaneMessage(name, l, 0))
<1>1. /\ 22 + n \in Nat /\ Vec(in, 22 + n)
      /\ Concat(LaneMessage(name, l, 0), s.absorbed, in)
  BY SeededMessage
<1>2. 64 \in Nat /\ 64 % 64 = 0 /\ Vec(s.absorbed, 64)  BY SeedBlockIs
<1> QED  BY ONLY <1>1, <1>2, s.bytes = 64, Finalize256

LEMMA SeededLane ==
    ASSUME NEW l \in Nat, NEW name, NEW j, NEW in, NEW n, n = LaneInputBytes(name, l),
           TwoParts(in, LaneBytes("addr", j, 22), LaneInput(name, l, j), 22, n),
           NEW s, s.absorbed = SeedBlock
    PROVE  Lane(s, in) = Fips("sha256", LaneMessage(name, l, j))
<1>1. /\ 22 + n \in Nat /\ Vec(in, 22 + n)
      /\ Concat(LaneMessage(name, l, j), s.absorbed, in)
  BY SeededMessage
<1>2. Vec(s.absorbed, 64)  BY SeedBlockIs
<1> QED  BY ONLY <1>1, <1>2, LaneFinalize

\* thash: the address, then the nodes.
LEMMA ThashIs ==
    ASSUME NEW l \in Nat, NEW b, b = Store(Bytes("addr", 22), 22, Bytes("in", l * 16)),
           NEW s, s.bytes = 64, s.absorbed = SeedBlock
    PROVE  IncFinalize("sha256", s, b) = Fips("sha256", LaneMessage("thash", l, 0))
<1> DEFINE a == LaneBytes("addr", 0, 22)
           c == LaneInput("thash", l, 0)
           n == LaneInputBytes("thash", l)
<1>1. Vec(a, 22) /\ Vec(c, n) /\ n \in Nat /\ 22 \in Nat  BY LaneInputVec
<1>2. b = Store(a, 22, c)  BY DEF Bytes, LaneInput
<1> HIDE DEF a, c
<1>3. TwoParts(b, a, c, 22, n)
  <2> HIDE DEF n
  <2> QED  BY ONLY <1>1, <1>2, StoreEndIs
<1> QED  BY <1>3, SeededScalar DEF a, c

LEMMA PrfIs ==
    ASSUME NEW l \in Nat, NEW b, b = Bytes("addr", 22) \o Bytes("sk_seed", 16),
           NEW s, s.bytes = 64, s.absorbed = SeedBlock
    PROVE  IncFinalize("sha256", s, b) = Fips("sha256", LaneMessage("prf", l, 0))
<1> DEFINE a == LaneBytes("addr", 0, 22)
           c == LaneInput("prf", l, 0)
           n == LaneInputBytes("prf", l)
<1>1. Vec(a, 22) /\ Vec(c, n) /\ n \in Nat /\ 22 \in Nat  BY LaneInputVec
<1>2. Concat(b, a, c)  BY DEF Bytes, LaneInput, Concat
<1> HIDE DEF a, c
<1>3. TwoParts(b, a, c, 22, n)
  <2> HIDE DEF n
  <2> QED  BY ONLY <1>1, <1>2, ConcatIs
<1> QED  BY <1>3, SeededScalar DEF a, c

\* A quotient is determined by its remainder.
LEMMA QuotientIs ==
    ASSUME NEW n \in Nat \ {0}, NEW j \in Nat, NEW r \in 0 .. n - 1
    PROVE  (j * n + r) \div n = j
<1> DEFINE a == j * n + r
           q == a \div n
<1>1. a \in Nat /\ j * n \in Nat /\ n * j = j * n  OBVIOUS
<1>2. q \in Int /\ n * q <= a /\ a < n * q + n
  <2> HIDE DEF a
  <2>1. a % n \in 0 .. n - 1 /\ q \in Int /\ a - n * q = a % n  BY <1>1
  <2> DEFINE p == n * q
  <2>2. p \in Int  BY <2>1
  <2> HIDE DEF q, p
  <2> QED  BY <1>1, <2>1, <2>2 DEF p
<1> HIDE DEF q
<1>3. ~(q < j)
  <2> SUFFICES ASSUME q + 1 <= j PROVE FALSE  BY <1>2
  <2>1. n * (q + 1) <= n * j /\ n * (q + 1) = n * q + n  BY <1>2
  <2> QED  BY <1>1, <1>2, <2>1
<1>4. ~(j < q)
  <2> SUFFICES ASSUME j + 1 <= q PROVE FALSE  BY <1>2
  <2>1. n * (j + 1) <= n * q /\ n * (j + 1) = n * j + n  BY <1>2
  <2> QED  BY <1>1, <1>2, <2>1
<1> QED  BY <1>2, <1>3, <1>4 DEF q

\* bufx8 holds the eight inputs one behind the other.
LaneByte(name, j, k) == IF name = "thash" THEN Byte("in", j, k) ELSE Byte("sk_seed", 0, k)
BufByte(name, j, k) == IF k <= 22 THEN Byte("addr", j, k) ELSE LaneByte(name, j, k - 22)

BufX8(name, n) ==
    [i \in 1 .. 8 * n |-> BufByte(name, (i - 1) \div n, i - ((i - 1) \div n) * n)]

LEMMA LaneSlice ==
    ASSUME NEW l \in Nat, NEW name, NEW q, q = LaneInputBytes(name, l), NEW n, n = 22 + q,
           NEW u, u = BufX8(name, n),
           NEW j \in Lanes
    PROVE  TwoParts(Slice(u, j * n, n), LaneBytes("addr", j, 22), LaneInput(name, l, j), 22, q)
<1> DEFINE v == Slice(u, j * n, n)
           a == LaneBytes("addr", j, 22)
           c == LaneInput(name, l, j)
<1>1. q \in Nat /\ n \in Nat \ {0} /\ n \in Nat /\ j \in Nat /\ 0 <= j /\ j <= 7
  <2>1. q \in Nat  BY LaneInputVec
  <2>2. j \in Nat /\ 0 <= j /\ j <= 7  BY DEF Lanes
  <2> QED  BY <2>1, <2>2
<1> DEFINE p == j * n
<1>2. p \in Nat /\ p + n <= 8 * n
  <2>1. CASE j = 0  BY ONLY <1>1, <2>1
  <2>2. CASE j = 1  BY ONLY <1>1, <2>2
  <2>3. CASE j = 2  BY ONLY <1>1, <2>3
  <2>4. CASE j = 3  BY ONLY <1>1, <2>4
  <2>5. CASE j = 4  BY ONLY <1>1, <2>5
  <2>6. CASE j = 5  BY ONLY <1>1, <2>6
  <2>7. CASE j = 6  BY ONLY <1>1, <2>7
  <2>8. CASE j = 7  BY ONLY <1>1, <2>8
  <2> QED  BY <1>1, <2>1, <2>2, <2>3, <2>4, <2>5, <2>6, <2>7, <2>8
<1>3. Sliced(v, u, p, n)
  <2>1. v = Slice(u, p, n)  OBVIOUS
  <2> HIDE DEF p, v
  <2> QED  BY ONLY <1>1, <1>2, <2>1, SliceIs
<1>4. ASSUME NEW i \in 1 .. n PROVE v[i] = BufByte(name, j, i)
  <2> DEFINE k == p + i
  <2>1. k \in 1 .. 8 * n /\ k - 1 = p + (i - 1) /\ i - 1 \in 0 .. n - 1 /\ k - p = i
    <3> HIDE DEF p
    <3>1. i \in Nat /\ 1 <= i /\ i <= n  BY <1>1
    <3>2. 8 * n \in Nat  BY <1>1
    <3> QED  BY ONLY <1>1, <1>2, <3>1, <3>2
  <2>2. (k - 1) \div n = j
    <3>1. (j * n + (i - 1)) \div n = j  BY ONLY <1>1, <2>1, QuotientIs
    <3>2. k - 1 = j * n + (i - 1)  BY <2>1
    <3> QED  BY <3>1, <3>2
  <2>3. v[i] = u[k]
    <3> HIDE DEF p, v
    <3> QED  BY <1>3 DEF Sliced
  <2>4. u[k] = BufByte(name, (k - 1) \div n, k - ((k - 1) \div n) * n)
    <3> HIDE DEF k
    <3> QED  BY <2>1 DEF BufX8
  <2>5. k - j * n = i  BY <2>1
  <2> HIDE DEF k, v
  <2> QED  BY <2>2, <2>3, <2>4, <2>5
<1> HIDE DEF v, p
<1>5. Vec(v, 22 + q)  BY <1>3 DEF Sliced
<1>6. \A i \in 1 .. 22 : a[i] = Byte("addr", j, i)  BY LaneBytesVec
<1>7. \A i \in 1 .. q : c[i] = LaneByte(name, j, i)
  <2>1. l * 16 \in Nat /\ 16 \in Nat  OBVIOUS
  <2>2. CASE name = "thash"
    <3>1. q = l * 16 /\ c = LaneBytes("in", j, l * 16)  BY <2>2 DEF LaneInputBytes, LaneInput
    <3> HIDE DEF c
    <3> QED  BY <2>1, <2>2, <3>1, LaneBytesVec DEF LaneByte
  <2>3. CASE name # "thash"
    <3>1. q = 16 /\ c = Bytes("sk_seed", 16)  BY <2>3 DEF LaneInputBytes, LaneInput
    <3> HIDE DEF c
    <3> QED  BY <2>1, <2>3, <3>1, BytesVec DEF LaneByte
  <2> QED  BY <2>2, <2>3
<1> HIDE DEF a, c
<1>8. ASSUME NEW i \in 1 .. 22 PROVE v[i] = a[i]
  <2>1. i \in 1 .. n /\ i <= 22  BY <1>1
  <2>2. v[i] = BufByte(name, j, i)  BY <1>4, <2>1
  <2> QED  BY ONLY <1>6, <2>1, <2>2 DEF BufByte
<1>9. ASSUME NEW i \in 1 .. q PROVE v[22 + i] = c[i]
  <2>1. 22 + i \in 1 .. n /\ ~(22 + i <= 22) /\ 22 + i - 22 = i  BY <1>1
  <2>2. v[22 + i] = LaneByte(name, j, i)  BY <1>4, <2>1 DEF BufByte
  <2> QED  BY <1>7, <2>2
<1>10. TwoParts(v, a, c, 22, q)  BY <1>5, <1>8, <1>9 DEF TwoParts
<1> QED  BY <1>10 DEF v, a, c, p

\* Every lane hashes its own address and input.
LEMMA EightLanes ==
    ASSUME NEW l \in Nat, NEW name, NEW q, q = LaneInputBytes(name, l), NEW n, n = 22 + q,
           NEW u, u = BufX8(name, n),
           NEW s, s.absorbed = SeedBlock, NEW j \in Lanes
    PROVE  Lane(s, Slice(u, j * n, n)) = Fips("sha256", LaneMessage(name, l, j))
<1> DEFINE v == Slice(u, j * n, n)
<1>1. TwoParts(v, LaneBytes("addr", j, 22), LaneInput(name, l, j), 22, q)  BY LaneSlice
<1> HIDE DEF v
<1>2. Lane(s, v) = Fips("sha256", LaneMessage(name, l, j))  BY <1>1, SeededLane
<1> QED  BY <1>2 DEF v

----------------------------------------------------------------------------
(* The digests recorded, apart from the variables.                         *)

Is(d, name, h, x) == name \in DOMAIN d => d[name][0] = Fips(h, x)
LanesAre(d, l) ==
    \A name \in DOMAIN d \cap {"thash", "prf"} :
      \A j \in DOMAIN d[name] : d[name][j] = Fips("sha256", LaneMessage(name, l, j))

AllMeant(d, l) ==
    /\ Is(d, "inner", "sha256", InnerMessage(l))
    /\ Is(d, "outer", "sha256", OuterMessage)
    /\ Is(d, "seed", "sha256", SeedMessage(l))
    /\ Is(d, "mgf1", "sha256", Mgf1Message)
    /\ Is(d, "digest0", "sha256", Digest0Message(l))
    /\ Is(d, "digest1", "sha256", Digest1Message)
    /\ Is(d, "wotsc", "sha256", WotscMessage(l))
    /\ Is(d, "keygen", "sha512", KeygenMessage(l))
    /\ LanesAre(d, l)

LEMMA MeantLaneIs == \A name, j : MeantLane(name, j) = Fips("sha256", LaneMessage(name, len, j))
BY DEF MeantLane, LaneMessage, SeedBlock, LaneInput, SPX_N, SPX_ADDR_BYTES

LEMMA MeantIs == DigestsWhatIsMeant <=> AllMeant(digests, len)
<1>1. (\A name \in DOMAIN digests \cap {"thash", "prf"} :
         \A j \in DOMAIN digests[name] : digests[name][j] = MeantLane(name, j))
        <=> LanesAre(digests, len)
  BY MeantLaneIs DEF LanesAre
<1> DEFINE M1 == Pad("ipad") \o Bytes("optrand", SPX_N) \o Message
           M2 == Pad("opad") \o DigestBytes("inner", "sha256")
           M3 == HPrefix \o Message
           M4 == Bytes("R", SPX_N) \o Bytes("pk", SPX_N) \o DigestBytes("seed", "sha256") \o BigEndian(0, 4)
           M5 == Bytes("sk", SPX_SK_BYTES) \o Message
           M6 == DigestBytes("digest0", "sha256") \o <<Num(1)>>
           M7 == Bytes("root", SPX_N) \o BigEndian(len, 2)
           M8 == Bytes("domain", KEYGEN_DOMAIN_BYTES) \o Zeros(1) \o LittleEndian(len, 8) \o Bytes("entropy", len)
           Lns == \A name \in DOMAIN digests \cap {"thash", "prf"} :
                    \A j \in DOMAIN digests[name] : digests[name][j] = MeantLane(name, j)
<1>2. /\ InnerMessage(len) = M1 /\ OuterMessage = M2 /\ SeedMessage(len) = M3 /\ Mgf1Message = M4
      /\ Digest0Message(len) = M5 /\ Digest1Message = M6 /\ WotscMessage(len) = M7
      /\ KeygenMessage(len) = M8
  BY DEF InnerMessage, OuterMessage, SeedMessage, Mgf1Message, Digest0Message, Digest1Message,
         WotscMessage, KeygenMessage, Message
<1>3. DigestsWhatIsMeant <=>
        /\ Digested("inner", M1) /\ Digested("outer", M2) /\ Digested("seed", M3)
        /\ Digested("mgf1", M4) /\ Digested("digest0", M5) /\ Digested("digest1", M6)
        /\ Digested("wotsc", M7)
        /\ "keygen" \in DOMAIN digests => digests["keygen"][0] = Fips("sha512", M8)
        /\ Lns
  BY Zenon DEF DigestsWhatIsMeant
<1> HIDE DEF M1, M2, M3, M4, M5, M6, M7, M8
<1>4. LanesAre(digests, len) <=> Lns  BY <1>1
<1> HIDE DEF Lns
<1>5. \A name, x : Digested(name, x) <=> Is(digests, name, "sha256", x)  BY DEF Digested, Is
<1> QED  BY ONLY <1>2, <1>3, <1>4, <1>5 DEF AllMeant, Is

\* A new digest is added under its name.
Added(d, name, stream) ==
    [n \in DOMAIN d \cup {name} |-> IF n = name THEN [j \in {0} |-> stream] ELSE d[n]]

LEMMA AddedIs ==
    ASSUME NEW d, NEW name, NEW stream, NEW k, NEW h, NEW x,
           Is(d, k, h, x), k = name => stream = Fips(h, x)
    PROVE  Is(Added(d, name, stream), k, h, x)
BY DEF Is, Added

LEMMA AddedLanes ==
    ASSUME NEW d, NEW name, NEW stream, NEW l, LanesAre(d, l),
           name \in {"thash", "prf"} => stream = Fips("sha256", LaneMessage(name, l, 0))
    PROVE  LanesAre(Added(d, name, stream), l)
<1> DEFINE e == Added(d, name, stream)
<1> SUFFICES ASSUME NEW k \in DOMAIN e \cap {"thash", "prf"}, NEW j \in DOMAIN e[k]
             PROVE  e[k][j] = Fips("sha256", LaneMessage(k, l, j))
  BY DEF LanesAre
<1>1. CASE k = name
  <2>1. e[k] = [i \in {0} |-> stream]  BY <1>1 DEF Added
  <2>2. j = 0 /\ e[k][j] = stream  BY <2>1
  <2> QED  BY <1>1, <2>2
<1>2. CASE k # name
  <2>1. k \in DOMAIN d /\ e[k] = d[k]  BY <1>2 DEF Added
  <2> QED  BY <2>1 DEF LanesAre
<1> QED  BY <1>1, <1>2

\* What the stream added under name has to be.
Fits(name, l, stream) ==
    /\ name = "inner" => stream = Fips("sha256", InnerMessage(l))
    /\ name = "outer" => stream = Fips("sha256", OuterMessage)
    /\ name = "seed" => stream = Fips("sha256", SeedMessage(l))
    /\ name = "mgf1" => stream = Fips("sha256", Mgf1Message)
    /\ name = "digest0" => stream = Fips("sha256", Digest0Message(l))
    /\ name = "digest1" => stream = Fips("sha256", Digest1Message)
    /\ name = "wotsc" => stream = Fips("sha256", WotscMessage(l))
    /\ name = "keygen" => stream = Fips("sha512", KeygenMessage(l))
    /\ name \in {"thash", "prf"} => stream = Fips("sha256", LaneMessage(name, l, 0))

LEMMA AddedMeant ==
    ASSUME NEW d, NEW name, NEW stream, NEW l, AllMeant(d, l), Fits(name, l, stream)
    PROVE  AllMeant(Added(d, name, stream), l)
<1> DEFINE e == Added(d, name, stream)
<1>1. Is(e, "inner", "sha256", InnerMessage(l))  BY AddedIs DEF AllMeant, Fits
<1>2. Is(e, "outer", "sha256", OuterMessage)  BY AddedIs DEF AllMeant, Fits
<1>3. Is(e, "seed", "sha256", SeedMessage(l))  BY AddedIs DEF AllMeant, Fits
<1>4. Is(e, "mgf1", "sha256", Mgf1Message)  BY AddedIs DEF AllMeant, Fits
<1>5. Is(e, "digest0", "sha256", Digest0Message(l))  BY AddedIs DEF AllMeant, Fits
<1>6. Is(e, "digest1", "sha256", Digest1Message)  BY AddedIs DEF AllMeant, Fits
<1>7. Is(e, "wotsc", "sha256", WotscMessage(l))  BY AddedIs DEF AllMeant, Fits
<1>8. Is(e, "keygen", "sha512", KeygenMessage(l))  BY AddedIs DEF AllMeant, Fits
<1>9. LanesAre(e, l)  BY AddedLanes DEF AllMeant, Fits
<1> HIDE DEF e
<1>10. AllMeant(e, l)
  BY <1>1, <1>2, <1>3, <1>4, <1>5, <1>6, <1>7, <1>8, <1>9 DEF AllMeant
<1> QED  BY <1>10 DEF e

\* Nothing is claimed while no digest is there.
LEMMA NothingMeant == ASSUME NEW d, DOMAIN d = {}, NEW l PROVE AllMeant(d, l)
BY DEF AllMeant, Is, LanesAre

\* The eight lanes of thashx8 and prf_addrx8 are recorded on their own.
LEMMA LanesMeant ==
    ASSUME NEW name \in {"thash", "prf"}, NEW l, NEW f,
           \A j \in Lanes : f[j] = Fips("sha256", LaneMessage(name, l, j)),
           DOMAIN f = Lanes, NEW e, e = [d \in {name} |-> f]
    PROVE  AllMeant(e, l)
<1>1. DOMAIN e = {name} /\ e[name] = f  OBVIOUS
<1>2. LanesAre(e, l)  BY <1>1 DEF LanesAre
<1>3. \A k, h, x : k \notin {"thash", "prf"} => Is(e, k, h, x)  BY <1>1 DEF Is
<1> QED  BY ONLY <1>2, <1>3 DEF AllMeant

----------------------------------------------------------------------------
(* The inductive invariant.                                                *)

\* The state is a whole number of blocks, and counts them.
Blocks == state.bytes \in {0, 64, 128} /\ Vec(state.absorbed, state.bytes)

\* Nothing is recorded when a function is called.
Fresh == pc \in {"idle", "hmac_key", "h_msg", "derandomize", "keygen", "seed_state", "wotsc"}
           => DOMAIN digests = {}

\* gen_message_random: the key block is absorbed, optrand is in buf; later the
\* inner digest is.
HmacBuffer ==
    /\ pc = "hmac_message" =>
         /\ state.bytes = 64 /\ state.absorbed = Pad("ipad")
         /\ Vec(buf, 96) /\ \A i \in 1 .. 16 : buf[i] = Byte("optrand", 0, i)
    /\ pc = "hmac_outer" => Vec(buf, 96) /\ \A i \in 1 .. 32 : buf[64 + i] = Byte("inner", 0, i)

HMsgBuffer == pc = "mgf1" => Vec(buf, 64)

\* The cached state holds the seed block.
Seeded == pc \in {"thash", "thashx8", "prf", "prfx8"} =>
            state.bytes = 64 /\ state.absorbed = SeedBlock

Inv ==
    /\ len \in Nat
    /\ Blocks
    /\ Fresh
    /\ HmacBuffer
    /\ HMsgBuffer
    /\ Seeded
    /\ AllMeant(digests, len)

LEMMA InvTypeOK == Inv => TypeOK
<1> SUFFICES ASSUME Inv PROVE TypeOK  OBVIOUS
<1>1. len \in Nat  BY DEF Inv
<1>2. state.bytes \in Nat /\ state.bytes % 64 = 0 /\ Vec(state.absorbed, state.bytes)
  <2>1. state.bytes \in {0, 64, 128} /\ Vec(state.absorbed, state.bytes)  BY DEF Inv, Blocks
  <2> QED  BY <2>1
<1>3. state.bytes = Len(state.absorbed)  BY ONLY <1>2, VecLen
<1>4. pc \in {"hmac_message", "hmac_outer"} => Len(buf) = 96
  <2>1. pc \in {"hmac_message", "hmac_outer"} => Vec(buf, 96)  BY DEF Inv, HmacBuffer
  <2>2. 96 \in Nat  OBVIOUS
  <2> QED  BY ONLY <2>1, <2>2, VecLen
<1>5. pc = "mgf1" => Len(buf) = 64
  <2>1. pc = "mgf1" => Vec(buf, 64)  BY DEF Inv, HMsgBuffer
  <2>2. 64 \in Nat  OBVIOUS
  <2> QED  BY ONLY <2>1, <2>2, VecLen
<1> QED  BY <1>1, <1>2, <1>3, <1>4, <1>5 DEF TypeOK, Capacity

LEMMA InvMeant == Inv => DigestsWhatIsMeant
BY MeantIs DEF Inv

LEMMA InvInit == Init => Inv
<1> SUFFICES ASSUME Init PROVE Inv  OBVIOUS
<1>1. len \in Nat  BY DEF Init
<1>2. Blocks
  <2>1. state.bytes = 0 /\ state.absorbed = << >>  BY DEF Init, IncInit
  <2> QED  BY <2>1, EmptyVec DEF Blocks
<1>3. DOMAIN digests = {}
  <2>1. digests = << >>  BY DEF Init
  <2>2. DOMAIN << >> = {}  OBVIOUS
  <2> QED  BY <2>1, <2>2
<1>4. AllMeant(digests, len)  BY <1>3, NothingMeant
<1>5. pc = "idle"  BY DEF Init
<1> QED  BY <1>1, <1>2, <1>3, <1>4, <1>5 DEF Inv, Fresh, HmacBuffer, HMsgBuffer, Seeded

----------------------------------------------------------------------------
(* Every action keeps it.                                                  *)

LEMMA DigestAdds ==
    ASSUME NEW name, NEW stream, Digest(name, stream)
    PROVE  digests' = Added(digests, name, stream)
BY DEF Digest, Added

\* The step is over, or goes on to a place where nothing is known of the buffer.
LEMMA InvNext ==
    ASSUME len' \in Nat, Blocks', AllMeant(digests, len)',
           pc' \in {"ret", "derandomize1"}
    PROVE  Inv'
BY DEF Inv, Fresh, HmacBuffer, HMsgBuffer, Seeded

LEMMA CallKeeps == ASSUME Inv, Call PROVE Inv'
<1>1. DOMAIN digests' = {}  BY DEF Inv, Fresh, Call
<1>2. len' \in Nat
  <2>1. len' \in MessageLengths \/ len' \in EntropyLengths \/ len' \in ThashBlocks \/ len' \in Counters
    BY DEF Call
  <2>2. MessageLengths \subseteq Nat  BY SMT, LengthAssumption
  <2>3. EntropyLengths \subseteq Nat  BY SMT, LengthAssumption
  <2>4. ThashBlocks \subseteq Nat  BY SMT, LengthAssumption
  <2>5. Counters \subseteq Nat  BY SMT, LengthAssumption
  <2> QED  BY ONLY <2>1, <2>2, <2>3, <2>4, <2>5
<1>3. Blocks'  BY DEF Inv, Blocks, Call
<1>4. AllMeant(digests', len')  BY <1>1, NothingMeant
<1>5. pc' \in {"hmac_key", "h_msg", "derandomize", "keygen", "seed_state", "wotsc"}  BY DEF Call
<1> QED  BY <1>1, <1>2, <1>3, <1>4, <1>5 DEF Inv, Fresh, HmacBuffer, HMsgBuffer, Seeded

LEMMA ReturnKeeps == ASSUME Inv, Return PROVE Inv'
<1>1. len' \in Nat /\ pc' = "idle"  BY DEF Return
<1>2. Blocks'
  <2>1. state'.bytes = 0 /\ state'.absorbed = << >>  BY DEF Return, IncInit
  <2> QED  BY <2>1, EmptyVec DEF Blocks
<1>3. DOMAIN digests' = {}
  <2>1. digests' = << >>  BY DEF Return
  <2>2. DOMAIN << >> = {}  OBVIOUS
  <2> QED  BY <2>1, <2>2
<1>4. AllMeant(digests', len')  BY <1>3, NothingMeant
<1> QED  BY <1>1, <1>2, <1>3, <1>4 DEF Inv, Fresh, HmacBuffer, HMsgBuffer, Seeded

LEMMA HmacKeyKeeps == ASSUME Inv, HmacKey PROVE Inv'
<1> DEFINE b == Store(Zeros(96), 0, Pad("ipad"))
<1>1. /\ state' = IncBlocks("sha256", IncInit, b, 1) /\ buf' = Store(b, 0, Bytes("optrand", 16))
      /\ pc' = "hmac_message" /\ len' = len /\ digests' = digests
  BY DEF HmacKey, SPX_N
<1>0. b = Store(Zeros(96), 0, Pad("ipad"))  OBVIOUS
<1> HIDE DEF b
<1>2. /\ state'.bytes = 64 /\ state'.absorbed = Pad("ipad")
      /\ Vec(buf', 96) /\ \A i \in 1 .. 16 : buf'[i] = Byte("optrand", 0, i)
  BY ONLY <1>0, <1>1, HmacKeyBlock
<1>3. Blocks'  BY <1>2, PadVec DEF Blocks
<1>4. len' \in Nat /\ AllMeant(digests', len')  BY <1>1 DEF Inv
<1> QED  BY <1>1, <1>2, <1>3, <1>4 DEF Inv, Fresh, HmacBuffer, HMsgBuffer, Seeded

LEMMA HmacShortKeeps == ASSUME Inv, HmacShort PROVE Inv'
<1> DEFINE c == Store(buf, 16, Bytes("m", len))
           f == IncFinalize("sha256", state, Slice(c, 0, 16 + len))
<1>1. /\ 16 + len < 64 /\ Digest("inner", f) /\ buf' = Store(c, 64, DigestBytes("inner", "sha256"))
      /\ pc = "hmac_message" /\ pc' = "hmac_outer" /\ len' = len /\ state' = state
  BY DEF HmacShort, FitsOneBlock, SPX_N, Message
<1>2. /\ len \in Nat /\ Vec(buf, 96) /\ (\A i \in 1 .. 16 : buf[i] = Byte("optrand", 0, i))
      /\ state.bytes = 64 /\ state.absorbed = Pad("ipad")
  BY <1>1 DEF Inv, HmacBuffer
<1>3. Vec(c, 96) /\ f = Fips("sha256", InnerMessage(len))
  BY ONLY <1>1, <1>2, HmacShortIs
<1>4. digests' = Added(digests, "inner", f)  BY <1>1, DigestAdds
<1> HIDE DEF c, f
<1>5. Vec(buf', 96) /\ \A i \in 1 .. 32 : buf'[64 + i] = Byte("inner", 0, i)
  BY ONLY <1>1, <1>3, InnerStored
<1>6. AllMeant(digests', len')
  <2>1. Fits("inner", len, f)  BY <1>3 DEF Fits
  <2>2. AllMeant(digests, len)  BY DEF Inv
  <2> QED  BY ONLY <1>1, <1>4, <2>1, <2>2, AddedMeant
<1>7. Blocks'  BY <1>1 DEF Inv, Blocks
<1> QED  BY <1>1, <1>2, <1>5, <1>6, <1>7 DEF Inv, Fresh, HmacBuffer, HMsgBuffer, Seeded

LEMMA HmacLongKeeps == ASSUME Inv, HmacLong PROVE Inv'
<1> DEFINE m == Bytes("m", len)
           c == Store(buf, 16, Slice(m, 0, 48))
           t == IncBlocks("sha256", state, c, 1)
           f == IncFinalize("sha256", t, Slice(m, 48, len - 48))
<1>1. /\ ~(16 + len < 64) /\ Digest("inner", f) /\ buf' = Store(c, 64, DigestBytes("inner", "sha256"))
      /\ pc = "hmac_message" /\ pc' = "hmac_outer" /\ len' = len /\ state' = t
  <2>1. 64 - SPX_N = 48 /\ SPX_N = 16  BY DEF SPX_N
  <2> QED  BY <2>1 DEF HmacLong, FitsOneBlock, Message
<1>2. /\ len \in Nat /\ Vec(buf, 96) /\ (\A i \in 1 .. 16 : buf[i] = Byte("optrand", 0, i))
      /\ state.bytes = 64 /\ state.absorbed = Pad("ipad")
  BY <1>1 DEF Inv, HmacBuffer
<1>0. c = Store(buf, 16, Slice(Bytes("m", len), 0, 48))  OBVIOUS
<1>3. Vec(c, 96) /\ t.bytes = 128 /\ Vec(t.absorbed, 128) /\ f = Fips("sha256", InnerMessage(len))
  <2> HIDE DEF c
  <2>1. t = IncBlocks("sha256", state, c, 1)  OBVIOUS
  <2>2. f = IncFinalize("sha256", t, Slice(Bytes("m", len), 48, len - 48))  OBVIOUS
  <2> HIDE DEF t
  <2>3. IncFinalize("sha256", t, Slice(Bytes("m", len), 48, len - 48)) = Fips("sha256", InnerMessage(len))
        /\ Vec(c, 96) /\ t.bytes = 128 /\ Vec(t.absorbed, 128)
    BY ONLY <1>0, <1>1, <1>2, <2>1, HmacLongIs
  <2> QED  BY ONLY <2>2, <2>3
<1>4. digests' = Added(digests, "inner", f)  BY <1>1, DigestAdds
<1> HIDE DEF m, c, t, f
<1>5. Vec(buf', 96) /\ \A i \in 1 .. 32 : buf'[64 + i] = Byte("inner", 0, i)
  BY ONLY <1>1, <1>3, InnerStored
<1>6. AllMeant(digests', len')
  <2>1. Fits("inner", len, f)  BY <1>3 DEF Fits
  <2>2. AllMeant(digests, len)  BY DEF Inv
  <2> QED  BY ONLY <1>1, <1>4, <2>1, <2>2, AddedMeant
<1>7. Blocks'  BY <1>1, <1>3 DEF Blocks
<1> QED  BY <1>1, <1>2, <1>5, <1>6, <1>7 DEF Inv, Fresh, HmacBuffer, HMsgBuffer, Seeded

LEMMA HmacOuterKeeps == ASSUME Inv, HmacOuter PROVE Inv'
<1> DEFINE c == Store(buf, 0, Pad("opad"))
           f == Hash("sha256", Slice(c, 0, 96))
<1>1. Digest("outer", f) /\ pc = "hmac_outer" /\ pc' = "ret" /\ len' = len /\ state' = state
  BY DEF HmacOuter
<1>2. len \in Nat /\ Vec(buf, 96) /\ \A i \in 1 .. 32 : buf[64 + i] = Byte("inner", 0, i)
  BY <1>1 DEF Inv, HmacBuffer
<1>3. f = Fips("sha256", OuterMessage)  BY ONLY <1>2, HmacOuterIs
<1>4. digests' = Added(digests, "outer", f)  BY <1>1, DigestAdds
<1> HIDE DEF c, f
<1>5. AllMeant(digests', len')
  <2>1. Fits("outer", len, f)  BY <1>3 DEF Fits
  <2>2. AllMeant(digests, len)  BY DEF Inv
  <2> QED  BY ONLY <1>1, <1>4, <2>1, <2>2, AddedMeant
<1>6. Blocks'  BY <1>1 DEF Inv, Blocks
<1> QED  BY <1>1, <1>2, <1>5, <1>6, InvNext

LEMMA HMsgShortKeeps == ASSUME Inv, HMsgShort PROVE Inv'
<1> DEFINE f == IncFinalize("sha256", IncInit, Slice(buf', 0, 48 + len))
<1>0. Len(HPrefix) = 48  BY HPrefixVec
<1>1. /\ 48 + len < 64 /\ buf' = Store(Store(Zeros(64), 0, HPrefix), 48, Bytes("m", len))
      /\ Digest("seed", f) /\ pc' = "mgf1" /\ len' = len /\ state' = state
  BY <1>0 DEF HMsgShort, FitsOneBlock, Message
<1>2. len \in Nat  BY DEF Inv
<1>3. Vec(buf', 64) /\ f = Fips("sha256", SeedMessage(len))  BY ONLY <1>1, <1>2, HMsgShortIs
<1>4. digests' = Added(digests, "seed", f)  BY <1>1, DigestAdds
<1> HIDE DEF f
<1>5. AllMeant(digests', len')
  <2>1. Fits("seed", len, f)  BY <1>3 DEF Fits
  <2>2. AllMeant(digests, len)  BY DEF Inv
  <2> QED  BY ONLY <1>1, <1>4, <2>1, <2>2, AddedMeant
<1>6. Blocks'  BY <1>1 DEF Inv, Blocks
<1> QED  BY <1>1, <1>2, <1>3, <1>5, <1>6 DEF Inv, Fresh, HmacBuffer, HMsgBuffer, Seeded

LEMMA HMsgLongKeeps == ASSUME Inv, HMsgLong PROVE Inv'
<1> DEFINE f == IncFinalize("sha256", state', Slice(Bytes("m", len), 16, len - 16))
<1>0. Len(HPrefix) = 48 /\ 64 - 48 = 16  BY HPrefixVec
<1>1. /\ ~(48 + len < 64)
      /\ buf' = Store(Store(Zeros(64), 0, HPrefix), 48, Slice(Bytes("m", len), 0, 16))
      /\ state' = IncBlocks("sha256", IncInit, buf', 1)
      /\ Digest("seed", f) /\ pc' = "mgf1" /\ len' = len
  BY <1>0 DEF HMsgLong, FitsOneBlock, Message
<1>2. len \in Nat  BY DEF Inv
<1>3. /\ Vec(buf', 64) /\ state'.bytes = 64 /\ Vec(state'.absorbed, 64)
      /\ f = Fips("sha256", SeedMessage(len))
  BY ONLY <1>1, <1>2, HMsgLongIs
<1>4. digests' = Added(digests, "seed", f)  BY <1>1, DigestAdds
<1> HIDE DEF f
<1>5. AllMeant(digests', len')
  <2>1. Fits("seed", len, f)  BY <1>3 DEF Fits
  <2>2. AllMeant(digests, len)  BY DEF Inv
  <2> QED  BY ONLY <1>1, <1>4, <2>1, <2>2, AddedMeant
<1>6. Blocks'  BY <1>3 DEF Blocks
<1> QED  BY <1>1, <1>2, <1>3, <1>5, <1>6 DEF Inv, Fresh, HmacBuffer, HMsgBuffer, Seeded

LEMMA Mgf1Keeps == ASSUME Inv, Mgf1 PROVE Inv'
<1> DEFINE in == Bytes("R", SPX_N) \o Bytes("pk", SPX_N) \o DigestBytes("seed", "sha256")
           f == IncFinalize("sha256", IncBlocks("sha256", IncInit, in, 1), Slice(in, 64, 0) \o BigEndian(0, 4))
<1>1. Len(in) = 64 /\ f = Fips("sha256", Mgf1Message)
  <2>1. in = Bytes("R", SPX_N) \o Bytes("pk", SPX_N) \o DigestBytes("seed", "sha256")  OBVIOUS
  <2> HIDE DEF in
  <2> QED  BY ONLY <2>1, Mgf1Is
<1>2. Digest("mgf1", f) /\ pc' = "ret" /\ len' = len /\ state' = state
  <2>1. SPX_DGST_BYTES \div OutBytes("sha256") = 0  BY DEF SPX_DGST_BYTES, OutBytes
  <2>2. Len(in) \div 64 = 1 /\ Len(in) % 64 = 0 /\ 64 * 1 = 64  BY <1>1
  <2> QED  BY <2>1, <2>2 DEF Mgf1
<1>3. digests' = Added(digests, "mgf1", f)  BY <1>2, DigestAdds
<1> HIDE DEF f
<1>4. AllMeant(digests', len')
  <2>1. Fits("mgf1", len, f)  BY <1>1 DEF Fits
  <2>2. AllMeant(digests, len)  BY DEF Inv
  <2> QED  BY ONLY <1>2, <1>3, <2>1, <2>2, AddedMeant
<1>5. Blocks' /\ len' \in Nat  BY <1>2 DEF Inv, Blocks
<1> QED  BY <1>2, <1>4, <1>5, InvNext

LEMMA DerandomizeKeeps == ASSUME Inv, Derandomize PROVE Inv'
<1> DEFINE f == IncFinalize("sha256", state', Bytes("m", len))
<1>1. /\ state' = IncBlocks("sha256", IncInit, Bytes("sk", 64), 1)
      /\ Digest("digest0", f) /\ pc' = "derandomize1" /\ len' = len
  <2>1. SPX_SK_BYTES \div 64 = 1 /\ SPX_SK_BYTES = 64  BY DEF SPX_SK_BYTES
  <2> QED  BY <2>1 DEF Derandomize, Message
<1>2. len \in Nat  BY DEF Inv
<1>3. /\ state'.bytes = 64 /\ Vec(state'.absorbed, 64)
      /\ f = Fips("sha256", Digest0Message(len))
  BY ONLY <1>1, <1>2, DerandomizeIs
<1>4. digests' = Added(digests, "digest0", f)  BY <1>1, DigestAdds
<1> HIDE DEF f
<1>5. AllMeant(digests', len')
  <2>1. Fits("digest0", len, f)  BY <1>3 DEF Fits
  <2>2. AllMeant(digests, len)  BY DEF Inv
  <2> QED  BY ONLY <1>1, <1>4, <2>1, <2>2, AddedMeant
<1>6. Blocks' /\ len' \in Nat  BY <1>1, <1>2, <1>3 DEF Blocks
<1> QED  BY <1>1, <1>5, <1>6, InvNext

LEMMA Derandomize1Keeps == ASSUME Inv, Derandomize1 PROVE Inv'
<1> DEFINE f == Hash("sha256", Digest1Message)
<1>1. Digest("digest1", f) /\ pc' = "ret" /\ len' = len /\ state' = state
  BY DEF Derandomize1, Digest1Message
<1>2. f = Fips("sha256", Digest1Message)  BY Derandomize1Is
<1>3. digests' = Added(digests, "digest1", f)  BY <1>1, DigestAdds
<1> HIDE DEF f
<1>4. AllMeant(digests', len')
  <2>1. Fits("digest1", len, f)  BY <1>2 DEF Fits
  <2>2. AllMeant(digests, len)  BY DEF Inv
  <2> QED  BY ONLY <1>1, <1>3, <2>1, <2>2, AddedMeant
<1>5. Blocks' /\ len' \in Nat  BY <1>1 DEF Inv, Blocks
<1> QED  BY <1>1, <1>4, <1>5, InvNext

\* The refused entropy changes nothing; the accepted one fits size_t, so its
\* length fits the eight bytes that are not zero in the padding.
LEMMA DeriveKeygenSeedFailsKeeps == ASSUME Inv, DeriveKeygenSeedFails PROVE Inv'
<1>1. pc' = "ret" /\ len' = len /\ state' = state /\ digests' = digests
  BY DEF DeriveKeygenSeedFails
<1>2. len' \in Nat /\ Blocks' /\ AllMeant(digests', len')  BY <1>1 DEF Inv, Blocks
<1> QED  BY <1>1, <1>2, InvNext

LEMMA DeriveKeygenSeedKeeps == ASSUME Inv, DeriveKeygenSeed PROVE Inv'
<1> DEFINE b1 == Store(Zeros(65 + len), 0, Bytes("domain", 56))
           b2 == Store(b1, 56, Zeros(1))
           b3 == Store(b2, 57, LittleEndian(len, 8))
           b4 == Store(b3, 65, Bytes("entropy", len))
           f == Hash("sha512", b4)
<1>0. MetadataSize = 65 /\ KEYGEN_DOMAIN_BYTES = 56 /\ 56 + 1 = 57
  BY DEF MetadataSize, KEYGEN_DOMAIN_BYTES
<1>1. /\ Digest("keygen", f) /\ pc' = "ret" /\ len' = len /\ state' = state
      /\ Shr(65 + len, SIZE_BITS) = 0
  <2>1. buf' = b4  BY <1>0 DEF DeriveKeygenSeed
  <2> HIDE DEF b4
  <2>2. Digest("keygen", Hash("sha512", buf'))  BY DEF DeriveKeygenSeed
  <2>3. Shr(65 + len, SIZE_BITS) = 0  BY <1>0 DEF DeriveKeygenSeed, TooLong
  <2>4. pc' = "ret" /\ len' = len /\ state' = state  BY DEF DeriveKeygenSeed
  <2> QED  BY <2>1, <2>2, <2>3, <2>4
<1>2. len \in Nat  BY DEF Inv
<1>3. Shr(65 + len, 64) = 0
  <2> DEFINE n == 65 + len
             k == 64 - SIZE_BITS
  <2>1. SIZE_BITS \in Nat /\ SIZE_BITS <= 64  BY SMT, LengthAssumption
  <2>2. k \in Nat /\ SIZE_BITS + k = 64 /\ n \in Nat  BY ONLY <1>2, <2>1
  <2>3. Shr(n, SIZE_BITS) = 0  BY <1>1
  <2> HIDE DEF n, k
  <2>4. Shr(n, SIZE_BITS + k) = 0  BY ONLY <2>1, <2>2, <2>3, ShrStaysZero
  <2> QED  BY <2>2, <2>4 DEF n
<1>4. f = Fips("sha512", KeygenMessage(len))
  <2>1. /\ b1 = Store(Zeros(65 + len), 0, Bytes("domain", 56))
        /\ b2 = Store(b1, 56, Zeros(1))
        /\ b3 = Store(b2, 57, LittleEndian(len, 8))
        /\ b4 = Store(b3, 65, Bytes("entropy", len))
        /\ f = Hash("sha512", b4)
    OBVIOUS
  <2> HIDE DEF b1, b2, b3, b4, f
  <2> QED  BY ONLY <1>2, <1>3, <2>1, KeygenIs
<1>5. digests' = Added(digests, "keygen", f)  BY <1>1, DigestAdds
<1> HIDE DEF b1, b2, b3, b4, f
<1>6. AllMeant(digests', len')
  <2>1. Fits("keygen", len, f)  BY <1>4 DEF Fits
  <2>2. AllMeant(digests, len)  BY DEF Inv
  <2> QED  BY ONLY <1>1, <1>5, <2>1, <2>2, AddedMeant
<1>7. Blocks' /\ len' \in Nat  BY <1>1 DEF Inv, Blocks
<1> QED  BY <1>1, <1>6, <1>7, InvNext

LEMMA WotscKeeps == ASSUME Inv, WotscHashCounter PROVE Inv'
<1> DEFINE b == Store(Bytes("root", 16), 16, <<Num(Shr(len, 8) % 256), Num(len % 256)>>)
           f == Hash("sha256", b)
<1>1. Digest("wotsc", f) /\ pc' = "ret" /\ len' = len /\ state' = state
  BY DEF WotscHashCounter, SPX_N
<1>2. len \in Nat /\ b = Store(Bytes("root", 16), 16, <<Num(Shr(len, 8) % 256), Num(len % 256)>>)
  BY DEF Inv
<1>3. f = Fips("sha256", WotscMessage(len))
  <2> HIDE DEF b
  <2> QED  BY ONLY <1>2, WotscIs
<1>4. digests' = Added(digests, "wotsc", f)  BY <1>1, DigestAdds
<1> HIDE DEF b, f
<1>5. AllMeant(digests', len')
  <2>1. Fits("wotsc", len, f)  BY <1>3 DEF Fits
  <2>2. AllMeant(digests, len)  BY DEF Inv
  <2> QED  BY ONLY <1>1, <1>4, <2>1, <2>2, AddedMeant
<1>6. Blocks' /\ len' \in Nat  BY <1>1 DEF Inv, Blocks
<1> QED  BY <1>1, <1>5, <1>6, InvNext

LEMMA SeedStateKeeps == ASSUME Inv, SeedState PROVE Inv'
<1>1. /\ buf' = Bytes("pub_seed", 16) \o Zeros(112)
      /\ state' = IncBlocks("sha256", IncInit, buf', 1)
      /\ len' = len /\ digests' = digests /\ pc' \in {"thash", "thashx8", "prf", "prfx8"}
  <2>1. 128 - SPX_N = 112 /\ SPX_N = 16  BY DEF SPX_N
  <2> QED  BY <2>1 DEF SeedState
<1>2. state'.bytes = 64 /\ state'.absorbed = SeedBlock  BY ONLY <1>1, SeedStateIs
<1>3. Blocks'  BY <1>2, SeedBlockIs DEF Blocks
<1>4. len' \in Nat /\ AllMeant(digests', len')  BY <1>1 DEF Inv
<1> QED  BY <1>1, <1>2, <1>3, <1>4 DEF Inv, Fresh, HmacBuffer, HMsgBuffer, Seeded

LEMMA ThashKeeps == ASSUME Inv, Thash PROVE Inv'
<1> DEFINE b == Store(Bytes("addr", 22), 22, Bytes("in", len * 16))
           f == IncFinalize("sha256", state, b)
<1>1. Digest("thash", f) /\ pc = "thash" /\ pc' = "ret" /\ len' = len /\ state' = state
  BY DEF Thash, SPX_N, SPX_ADDR_BYTES
<1>2. /\ len \in Nat /\ b = Store(Bytes("addr", 22), 22, Bytes("in", len * 16))
      /\ state.bytes = 64 /\ state.absorbed = SeedBlock
  BY <1>1 DEF Inv, Seeded
<1>3. f = Fips("sha256", LaneMessage("thash", len, 0))
  <2> HIDE DEF b
  <2> QED  BY ONLY <1>2, ThashIs
<1>4. digests' = Added(digests, "thash", f)  BY <1>1, DigestAdds
<1> HIDE DEF b, f
<1>5. AllMeant(digests', len')
  <2>1. Fits("thash", len, f)  BY <1>3 DEF Fits
  <2>2. AllMeant(digests, len)  BY DEF Inv
  <2> QED  BY ONLY <1>1, <1>4, <2>1, <2>2, AddedMeant
<1>6. Blocks' /\ len' \in Nat  BY <1>1 DEF Inv, Blocks
<1> QED  BY <1>1, <1>5, <1>6, InvNext

LEMMA PrfAddrKeeps == ASSUME Inv, PrfAddr PROVE Inv'
<1> DEFINE b == Bytes("addr", 22) \o Bytes("sk_seed", 16)
           f == IncFinalize("sha256", state, b)
<1>1. Digest("prf", f) /\ pc = "prf" /\ pc' = "ret" /\ len' = len /\ state' = state
  BY DEF PrfAddr, SPX_N, SPX_ADDR_BYTES
<1>2. /\ len \in Nat /\ b = Bytes("addr", 22) \o Bytes("sk_seed", 16)
      /\ state.bytes = 64 /\ state.absorbed = SeedBlock
  BY <1>1 DEF Inv, Seeded
<1>3. f = Fips("sha256", LaneMessage("prf", len, 0))
  <2> HIDE DEF b
  <2> QED  BY ONLY <1>2, PrfIs
<1>4. digests' = Added(digests, "prf", f)  BY <1>1, DigestAdds
<1> HIDE DEF b, f
<1>5. AllMeant(digests', len')
  <2>1. Fits("prf", len, f)  BY <1>3 DEF Fits
  <2>2. AllMeant(digests, len)  BY DEF Inv
  <2> QED  BY ONLY <1>1, <1>4, <2>1, <2>2, AddedMeant
<1>6. Blocks' /\ len' \in Nat  BY <1>1 DEF Inv, Blocks
<1> QED  BY <1>1, <1>5, <1>6, InvNext

LEMMA ThashX8Keeps == ASSUME Inv, ThashX8 PROVE Inv'
<1> DEFINE n == 22 + len * 16
           u == BufX8("thash", n)
           f == [j \in Lanes |-> Lane(state, Slice(u, j * n, n))]
<1>1. /\ digests' = [d \in {"thash"} |-> f]
      /\ pc = "thashx8" /\ pc' = "ret" /\ len' = len /\ state' = state
  <2>1. buf' = u  BY DEF ThashX8, SPX_N, SPX_ADDR_BYTES, BufX8, BufByte, LaneByte
  <2>2. /\ digests' = [d \in {"thash"} |-> [j \in Lanes |-> Lane(state, Slice(buf', j * n, n))]]
        /\ pc = "thashx8" /\ pc' = "ret" /\ len' = len /\ state' = state
    BY DEF ThashX8, SPX_N, SPX_ADDR_BYTES
  <2> HIDE DEF u
  <2> QED  BY <2>1, <2>2
<1>2. len \in Nat /\ state.bytes = 64 /\ state.absorbed = SeedBlock
  BY <1>1 DEF Inv, Seeded
<1>3. ASSUME NEW j \in Lanes PROVE f[j] = Fips("sha256", LaneMessage("thash", len, j))
  <2> DEFINE q == LaneInputBytes("thash", len)
  <2>1. n = 22 + q  BY DEF LaneInputBytes
  <2>2. u = BufX8("thash", n)  OBVIOUS
  <2>3. f[j] = Lane(state, Slice(u, j * n, n))  OBVIOUS
  <2>4. q = LaneInputBytes("thash", len)  OBVIOUS
  <2> HIDE DEF n, q, u, f
  <2>5. Lane(state, Slice(u, j * n, n)) = Fips("sha256", LaneMessage("thash", len, j))
    BY ONLY <1>2, <2>1, <2>2, <2>4, j \in Lanes, EightLanes
  <2> QED  BY <2>3, <2>5
<1>4. DOMAIN f = Lanes  OBVIOUS
<1> HIDE DEF n, u, f
<1>5. AllMeant(digests', len')
  <2>1. "thash" \in {"thash", "prf"}  OBVIOUS
  <2>2. AllMeant(digests', len)  BY ONLY <1>1, <1>3, <1>4, <2>1, LanesMeant
  <2> QED  BY <1>1, <2>2
<1>6. Blocks' /\ len' \in Nat  BY <1>1 DEF Inv, Blocks
<1> QED  BY <1>1, <1>5, <1>6, InvNext

LEMMA PrfAddrX8Keeps == ASSUME Inv, PrfAddrX8 PROVE Inv'
<1> DEFINE n == 22 + 16
           u == BufX8("prf", n)
           f == [j \in Lanes |-> Lane(state, Slice(u, j * n, n))]
<1>1. /\ digests' = [d \in {"prf"} |-> f]
      /\ pc = "prfx8" /\ pc' = "ret" /\ len' = len /\ state' = state
  BY DEF PrfAddrX8, SPX_N, SPX_ADDR_BYTES, BufX8, BufByte, LaneByte
<1>2. len \in Nat /\ state.bytes = 64 /\ state.absorbed = SeedBlock
  BY <1>1 DEF Inv, Seeded
<1>3. ASSUME NEW j \in Lanes PROVE f[j] = Fips("sha256", LaneMessage("prf", len, j))
  <2> DEFINE q == LaneInputBytes("prf", len)
  <2>1. n = 22 + q  BY DEF LaneInputBytes
  <2>2. u = BufX8("prf", n)  OBVIOUS
  <2>3. f[j] = Lane(state, Slice(u, j * n, n))  OBVIOUS
  <2>4. q = LaneInputBytes("prf", len)  OBVIOUS
  <2> HIDE DEF n, q, u, f
  <2>5. Lane(state, Slice(u, j * n, n)) = Fips("sha256", LaneMessage("prf", len, j))
    BY ONLY <1>2, <2>1, <2>2, <2>4, j \in Lanes, EightLanes
  <2> QED  BY <2>3, <2>5
<1>4. DOMAIN f = Lanes  OBVIOUS
<1> HIDE DEF n, u, f
<1>5. AllMeant(digests', len')
  <2>1. "prf" \in {"thash", "prf"}  OBVIOUS
  <2>2. AllMeant(digests', len)  BY ONLY <1>1, <1>3, <1>4, <2>1, LanesMeant
  <2> QED  BY <1>1, <2>2
<1>6. Blocks' /\ len' \in Nat  BY <1>1 DEF Inv, Blocks
<1> QED  BY <1>1, <1>5, <1>6, InvNext

----------------------------------------------------------------------------
(* The theorems.                                                           *)

LEMMA InvKept == ASSUME Inv, [Next]_vars PROVE Inv'
<1>1. CASE Next
  BY <1>1, CallKeeps, ReturnKeeps, HmacKeyKeeps, HmacShortKeeps, HmacLongKeeps, HmacOuterKeeps,
     HMsgShortKeeps, HMsgLongKeeps, Mgf1Keeps, DerandomizeKeeps, Derandomize1Keeps,
     DeriveKeygenSeedKeeps, DeriveKeygenSeedFailsKeeps, WotscKeeps, SeedStateKeeps, ThashKeeps,
     ThashX8Keeps, PrfAddrKeeps, PrfAddrX8Keeps DEF Next
<1>2. CASE UNCHANGED vars
  BY <1>2 DEF vars, Inv, Blocks, Fresh, HmacBuffer, HMsgBuffer, Seeded
<1> QED  BY <1>1, <1>2

\* No copy leaves the buffers of gen_message_random and hash_message, and the
\* count kept beside a SHA-256 state is that of the blocks it has absorbed, for
\* messages and inputs of every length.
THEOREM TypeCorrect == Spec => []TypeOK
<1>1. Init => Inv  BY InvInit
<1>2. Inv /\ [Next]_vars => Inv'  BY InvKept
<1>3. Inv => TypeOK  BY InvTypeOK
<1> QED  BY <1>1, <1>2, <1>3, PTL DEF Spec

\* Every hash of the library is the SHA-2 digest of the message it is meant to be
\* of: the padding and the length are right, and no byte is skipped or repeated
\* where sha256_inc_blocks, a buffer and sha256_inc_finalize meet, for messages,
\* entropy and tweakable-hash inputs of every length, in scalar code and in every
\* lane of the AVX2 code.
THEOREM DigestsCorrect == Spec => []DigestsWhatIsMeant
<1>1. Init => Inv  BY InvInit
<1>2. Inv /\ [Next]_vars => Inv'  BY InvKept
<1>3. Inv => DigestsWhatIsMeant  BY InvMeant
<1> QED  BY <1>1, <1>2, <1>3, PTL DEF Spec
=============================================================================
