--------------------------- MODULE TreeHashProofs ---------------------------
(***************************************************************************)
(* Proofs about TreeHash, for trees of every height from three on, every   *)
(* number of FORS trees and every selected leaf.                           *)
(*                                                                         *)
(* The first part is arithmetic: Pow2 and Shr are recursive functions, so  *)
(* what they return is proved by induction, and so are the facts about     *)
(* shifts the builders rest on (what idx + 1 carries into, what an offset  *)
(* of whole trees shifts to).  The second part is one invariant per        *)
(* builder: LoopX1, LoopX8 and LoopPile say which nodes wait where.        *)
(***************************************************************************)
EXTENDS TreeHash, WellFoundedInduction, SequenceTheorems, TLAPS

----------------------------------------------------------------------------
(* Induction and recursion.                                                *)

\* Induction over the naturals, for a set instead of a predicate.
LEMMA Induct ==
    ASSUME NEW S, 0 \in S, \A n \in Nat : n \in S => n + 1 \in S
    PROVE  Nat \subseteq S
<1> DEFINE T == Nat \ S
<1>1. SUFFICES ASSUME T # {} PROVE FALSE OBVIOUS
<1>2. IsWellFoundedOn(OpToRel(<, Nat), Nat) BY NatLessThanWellFounded
<1>3. \E x \in T : \A y \in T : ~(<<y, x>> \in OpToRel(<, Nat)) BY <1>1, <1>2, WFMin
<1>4. PICK x \in T : \A y \in T : ~(<<y, x>> \in OpToRel(<, Nat)) BY <1>3
<1>5. \A y \in T : ~(y < x) BY <1>4 DEF OpToRel
<1>6. x # 0 /\ x - 1 \in Nat /\ x - 1 \in S BY <1>5
<1>7. x - 1 + 1 = x BY <1>6
<1> QED BY <1>6, <1>7

\* Functions defined by recursion exist: first on 0 .. n, then on all of Nat.
Iterates(g, n, a, F) == g[0] = a /\ \A k \in 1 .. n : g[k] = F[g[k - 1]]

Recursive(f, S, a, F) ==
    f \in [Nat -> S] /\ f[0] = a /\ \A n \in Nat : f[n + 1] = F[f[n]]

LEMMA Recursion ==
    ASSUME NEW S, NEW a, NEW F, a \in S, F \in [S -> S]
    PROVE  \E f : Recursive(f, S, a, F)
<1> DEFINE Part(n) == {g \in [0 .. n -> S] : Iterates(g, n, a, F)}
           T == {n \in Nat : Part(n) # {}}
<1>1. 0 \in T
  <2> DEFINE g == [k \in 0 .. 0 |-> a]
  <2>1. g \in [0 .. 0 -> S] /\ Iterates(g, 0, a, F)  BY DEF Iterates
  <2> QED  BY <2>1
<1>2. ASSUME NEW n \in Nat, n \in T PROVE n + 1 \in T
  <2>1. PICK g \in Part(n) : TRUE  BY <1>2
  <2> DEFINE e == [k \in 0 .. n + 1 |-> IF k = n + 1 THEN F[g[n]] ELSE g[k]]
  <2>2. e \in [0 .. n + 1 -> S]  BY <2>1
  <2>3. Iterates(e, n + 1, a, F)
    <3>1. e[0] = a  BY <2>1 DEF Iterates
    <3>2. ASSUME NEW k \in 1 .. n + 1 PROVE e[k] = F[e[k - 1]]
      <4>1. CASE k = n + 1  BY <4>1
      <4>2. CASE k \in 1 .. n
        <5>1. g[k] = F[g[k - 1]]  BY <2>1, <4>2 DEF Iterates
        <5>2. e[k] = g[k] /\ e[k - 1] = g[k - 1]  BY <4>2
        <5> QED  BY <5>1, <5>2
      <4> QED  BY <4>1, <4>2
    <3> QED  BY <3>1, <3>2 DEF Iterates
  <2> QED  BY <2>2, <2>3
<1>3. Nat \subseteq T
  <2> HIDE DEF T
  <2> QED  BY <1>1, <1>2, Induct
<1>4. \A n \in Nat : Part(n) # {}  BY <1>3
<1>5. ASSUME NEW n \in Nat, NEW p \in Nat, NEW g \in Part(n), NEW e \in Part(p)
      PROVE  \A k \in 0 .. n : k <= p => g[k] = e[k]
  <2> DEFINE A == {k \in Nat : k <= n /\ k <= p => g[k] = e[k]}
  <2>1. 0 \in A  BY DEF Iterates
  <2>2. ASSUME NEW k \in Nat, k \in A PROVE k + 1 \in A
    <3>1. CASE k + 1 <= n /\ k + 1 <= p
      <4>1. k + 1 \in 1 .. n /\ k + 1 \in 1 .. p /\ k + 1 - 1 = k /\ g[k] = e[k]  BY <2>2, <3>1
      <4>2. g[k + 1] = F[g[k + 1 - 1]] /\ e[k + 1] = F[e[k + 1 - 1]]  BY <4>1 DEF Iterates
      <4> QED  BY <4>1, <4>2
    <3>2. CASE ~(k + 1 <= n /\ k + 1 <= p)  BY <3>2
    <3> QED  BY <3>1, <3>2
  <2> HIDE DEF A
  <2>3. Nat \subseteq A  BY <2>1, <2>2, Induct
  <2> QED  BY <2>3 DEF A
<1> DEFINE G(n) == CHOOSE g : g \in Part(n)
           f == [n \in Nat |-> G(n)[n]]
<1>6. \A n \in Nat : G(n) \in Part(n)  BY <1>4
<1> HIDE DEF G
<1>7. f \in [Nat -> S]
  <2>1. ASSUME NEW n \in Nat PROVE G(n)[n] \in S
    <3>1. G(n) \in [0 .. n -> S]  BY <1>6
    <3> QED  BY <3>1
  <2> QED  BY <2>1
<1>8. f[0] = a
  <2>1. Iterates(G(0), 0, a, F)  BY <1>6
  <2> QED  BY <2>1 DEF Iterates
<1>9. ASSUME NEW n \in Nat PROVE f[n + 1] = F[f[n]]
  <2>1. Iterates(G(n + 1), n + 1, a, F)  BY <1>6
  <2>2. n + 1 \in 1 .. n + 1 /\ n + 1 - 1 = n  OBVIOUS
  <2>3. G(n + 1)[n + 1] = F[G(n + 1)[n]]  BY <2>1, <2>2 DEF Iterates
  <2>4. G(n + 1)[n] = G(n)[n]
    <3>1. G(n + 1) \in Part(n + 1) /\ G(n) \in Part(n) /\ n + 1 \in Nat  BY <1>6
    <3> HIDE DEF Part
    <3> QED  BY <1>5, <3>1
  <2> QED  BY <2>3, <2>4
<1> HIDE DEF f
<1> QED  BY <1>7, <1>8, <1>9 DEF Recursive

LEMMA Pow2Def == /\ \A n \in Nat : Pow2[n] \in Nat /\ Pow2[n + 1] = 2 * Pow2[n]
                 /\ Pow2[0] = 1
<1> DEFINE F == [y \in Nat |-> 2 * y]
<1>1. F \in [Nat -> Nat] /\ 1 \in Nat  OBVIOUS
<1> HIDE DEF F
<1>2. PICK f : Recursive(f, Nat, 1, F)  BY <1>1, Recursion
<1>3. f = [n \in Nat |-> IF n = 0 THEN 1 ELSE 2 * f[n - 1]]
  <2>0. f \in [Nat -> Nat] /\ f[0] = 1  BY <1>2 DEF Recursive
  <2>1. ASSUME NEW n \in Nat, n # 0 PROVE f[n] = 2 * f[n - 1]
    <3>1. n - 1 \in Nat /\ n - 1 + 1 = n  BY <2>1
    <3>2. f[n - 1 + 1] = F[f[n - 1]]  BY <1>2, <3>1 DEF Recursive
    <3> QED  BY <2>0, <3>1, <3>2 DEF F
  <2> QED  BY <2>0, <2>1
<1>4. Pow2 = [n \in Nat |-> IF n = 0 THEN 1 ELSE 2 * Pow2[n - 1]]
  BY <1>3 DEF Pow2
<1>5. Pow2[0] = 1  BY <1>4
<1>6. ASSUME NEW n \in Nat PROVE Pow2[n + 1] = 2 * Pow2[n]
  <2>1. n + 1 \in Nat /\ n + 1 # 0 /\ n + 1 - 1 = n  OBVIOUS
  <2> HIDE DEF Pow2
  <2>2. \A k \in Nat : k # 0 => Pow2[k] = 2 * Pow2[k - 1]  BY <1>4
  <2> QED  BY <2>1, <2>2
<1> DEFINE A == {n \in Nat : Pow2[n] \in Nat}
<1>7. 0 \in A  BY <1>5
<1>8. \A n \in Nat : n \in A => n + 1 \in A  BY <1>6
<1> HIDE DEF A
<1>9. Nat \subseteq A  BY <1>7, <1>8, Induct
<1> QED BY <1>5, <1>6, <1>9 DEF A

LEMMA ShrDef ==
    ASSUME NEW x \in Nat
    PROVE  /\ \A k \in Nat : Shr(x, k) \in Nat /\ Shr(x, k + 1) = Shr(x, k) \div 2
           /\ Shr(x, 0) = x
<1> DEFINE F == [y \in Nat |-> y \div 2]
           Def(f) == f = [j \in Nat |-> IF j = 0 THEN x ELSE f[j - 1] \div 2]
           s == CHOOSE f : Def(f)
<1>1. F \in [Nat -> Nat]  OBVIOUS
<1> HIDE DEF F
<1>2. PICK f : Recursive(f, Nat, x, F)  BY <1>1, Recursion
<1>3. Def(f)
  <2>0. f \in [Nat -> Nat] /\ f[0] = x  BY <1>2 DEF Recursive
  <2>1. ASSUME NEW n \in Nat, n # 0 PROVE f[n] = f[n - 1] \div 2
    <3>1. n - 1 \in Nat /\ n - 1 + 1 = n  BY <2>1
    <3>2. f[n - 1 + 1] = F[f[n - 1]]  BY <1>2, <3>1 DEF Recursive
    <3> QED  BY <2>0, <3>1, <3>2 DEF F
  <2> QED  BY <2>0, <2>1
<1>4. Def(s)
  <2> HIDE DEF Def
  <2> QED  BY <1>3
<1>5. \A k : Shr(x, k) = s[k]  BY DEF Shr
<1> HIDE DEF s
<1>6. s[0] = x  BY <1>4
<1>7. ASSUME NEW n \in Nat PROVE s[n + 1] = s[n] \div 2
  <2>1. n + 1 \in Nat /\ n + 1 # 0 /\ n + 1 - 1 = n  OBVIOUS
  <2>2. \A k \in Nat : k # 0 => s[k] = s[k - 1] \div 2  BY <1>4
  <2> QED  BY <2>1, <2>2
<1> DEFINE A == {n \in Nat : s[n] \in Nat}
<1>8. 0 \in A  BY <1>6
<1>9. \A n \in Nat : n \in A => n + 1 \in A  BY <1>7
<1> HIDE DEF A
<1>10. Nat \subseteq A  BY <1>8, <1>9, Induct
<1> QED BY <1>5, <1>6, <1>7, <1>10 DEF A

----------------------------------------------------------------------------
(* Powers of two and shifts.                                               *)

LEMMA Pow2Facts ==
    \A n \in Nat : /\ Pow2[n] \in Nat /\ Pow2[n] >= 1
                   /\ Pow2[n + 1] = 2 * Pow2[n]
<1> DEFINE A == {n \in Nat : Pow2[n] >= 1}
<1>1. 0 \in A  BY Pow2Def
<1>2. \A n \in Nat : n \in A => n + 1 \in A  BY Pow2Def
<1> HIDE DEF A
<1>3. Nat \subseteq A  BY <1>1, <1>2, Induct
<1> QED  BY <1>3, Pow2Def DEF A

\* One level up, counted from the top.
LEMMA Pow2Down ==
    ASSUME NEW n \in Nat, NEW k \in 0 .. n - 1
    PROVE  Pow2[n - k] = 2 * Pow2[n - (k + 1)] /\ Pow2[n - (k + 1)] \in Nat /\ Pow2[n - (k + 1)] >= 1
<1>1. n - (k + 1) \in Nat /\ (n - (k + 1)) + 1 = n - k  OBVIOUS
<1> QED  BY <1>1, Pow2Facts

LEMMA Parity ==
    ASSUME NEW x \in Nat
    PROVE  /\ x \div 2 \in Nat
           /\ Odd(x) <=> x = 2 * (x \div 2) + 1
           /\ ~Odd(x) <=> x = 2 * (x \div 2)
           /\ Sibling(x) \in Nat
           /\ Odd(x) => Sibling(x) = x - 1
           /\ ~Odd(x) => Sibling(x) = x + 1
BY DEF Odd, Sibling

LEMMA HalfNext ==
    ASSUME NEW x \in Nat
    PROVE  /\ Odd(x) => (x + 1) \div 2 = x \div 2 + 1
           /\ ~Odd(x) => (x + 1) \div 2 = x \div 2
BY DEF Odd

LEMMA ShrBound ==
    ASSUME NEW n \in Nat, NEW x \in Nat, x < Pow2[n]
    PROVE  \A k \in 0 .. n : Shr(x, k) < Pow2[n - k]
<1> DEFINE A == {k \in Nat : k <= n => Shr(x, k) < Pow2[n - k]}
<1>0. Shr(x, 0) = x /\ n - 0 = n  BY ShrDef
<1>1. 0 \in A  BY <1>0
<1>2. ASSUME NEW k \in Nat, k \in A PROVE k + 1 \in A
  <2>1. CASE k + 1 <= n
    <3>1. Shr(x, k) < 2 * Pow2[n - (k + 1)] /\ Pow2[n - (k + 1)] \in Nat
      BY <1>2, <2>1, Pow2Down
    <3>2. Shr(x, k) \in Nat /\ Shr(x, k + 1) = Shr(x, k) \div 2  BY ShrDef
    <3>3. Shr(x, k) \div 2 < Pow2[n - (k + 1)]  BY <3>1, <3>2
    <3> QED  BY <3>2, <3>3
  <2>2. CASE ~(k + 1 <= n)  BY <2>2
  <2> QED  BY <2>1, <2>2
<1> HIDE DEF A
<1>3. Nat \subseteq A  BY <1>1, <1>2, Induct
<1> QED  BY <1>3 DEF A

LEMMA ShrZero ==
    ASSUME NEW n \in Nat, NEW x \in Nat, x < Pow2[n]
    PROVE  \A k \in Nat : k >= n => Shr(x, k) = 0
<1> DEFINE A == {k \in Nat : k >= n => Shr(x, k) = 0}
<1>0. Shr(x, n) = 0
  <2>1. Shr(x, n) < Pow2[n - n]  BY ShrBound
  <2>2. n - n = 0 /\ Pow2[0] = 1  BY Pow2Def
  <2>3. Shr(x, n) \in Nat  BY ShrDef
  <2> QED  BY <2>1, <2>2, <2>3
<1>1. 0 \in A
  <2>1. CASE n = 0  BY <1>0, <2>1
  <2>2. CASE n # 0  BY <2>2
  <2> QED  BY <2>1, <2>2
<1>2. ASSUME NEW k \in Nat, k \in A PROVE k + 1 \in A
  <2>1. Shr(x, k + 1) = Shr(x, k) \div 2  BY ShrDef
  <2>2. CASE k >= n  BY <1>2, <2>1, <2>2
  <2>3. CASE k + 1 = n  BY <1>0, <2>3
  <2>4. CASE k + 1 < n  BY <2>4
  <2> QED  BY <2>2, <2>3, <2>4
<1> HIDE DEF A
<1>3. Nat \subseteq A  BY <1>1, <1>2, Induct
<1> QED  BY <1>3 DEF A

LEMMA ShrMonotone ==
    ASSUME NEW x \in Nat, NEW y \in Nat, x <= y
    PROVE  \A k \in Nat : Shr(x, k) <= Shr(y, k)
<1> DEFINE A == {k \in Nat : Shr(x, k) <= Shr(y, k)}
<1>1. 0 \in A  BY ShrDef
<1>2. ASSUME NEW k \in Nat, k \in A PROVE k + 1 \in A
  <2>1. /\ Shr(x, k) \in Nat /\ Shr(x, k + 1) = Shr(x, k) \div 2
        /\ Shr(y, k) \in Nat /\ Shr(y, k + 1) = Shr(y, k) \div 2
        /\ Shr(x, k) <= Shr(y, k)
    BY <1>2, ShrDef
  <2>2. Shr(x, k) \div 2 <= Shr(y, k) \div 2  BY <2>1
  <2> QED  BY <2>1, <2>2
<1> HIDE DEF A
<1>3. Nat \subseteq A  BY <1>1, <1>2, Induct
<1> QED  BY <1>3 DEF A

LEMMA ShrAtMost ==
    ASSUME NEW x \in Nat
    PROVE  \A k \in Nat : Shr(x, k) <= x
<1> DEFINE A == {k \in Nat : Shr(x, k) <= x}
<1>1. 0 \in A  BY ShrDef
<1>2. ASSUME NEW k \in Nat, k \in A PROVE k + 1 \in A
  <2>1. Shr(x, k) \in Nat /\ Shr(x, k + 1) = Shr(x, k) \div 2 /\ Shr(x, k) <= x
    BY <1>2, ShrDef
  <2>2. Shr(x, k) \div 2 <= x  BY <2>1
  <2> QED  BY <2>1, <2>2
<1> HIDE DEF A
<1>3. Nat \subseteq A  BY <1>1, <1>2, Induct
<1> QED  BY <1>3 DEF A

\* Whole trees of 2^n leaves, counted a level at a time.
LEMMA ShrTrees ==
    ASSUME NEW n \in Nat, NEW a \in Nat
    PROVE  /\ a * Pow2[n] \in Nat
           /\ \A k \in 0 .. n : Shr(a * Pow2[n], k) = a * Pow2[n - k]
<1>0. a * Pow2[n] \in Nat  BY Pow2Facts
<1> DEFINE x == a * Pow2[n]
           A == {k \in Nat : k <= n => Shr(x, k) = a * Pow2[n - k]}
<1>1. 0 \in A
  <2>1. Shr(x, 0) = x  BY <1>0, ShrDef
  <2>2. n - 0 = n  OBVIOUS
  <2> QED  BY <2>1, <2>2
<1>2. ASSUME NEW k \in Nat, k \in A PROVE k + 1 \in A
  <2>1. CASE k + 1 <= n
    <3> DEFINE p == Pow2[n - (k + 1)]
    <3>1. Shr(x, k) = a * (2 * p) /\ p \in Nat
      BY <1>2, <2>1, Pow2Down
    <3>2. Shr(x, k + 1) = Shr(x, k) \div 2  BY <1>0, ShrDef
    <3> HIDE DEF p
    <3>3. a * (2 * p) = 2 * (a * p) /\ a * p \in Nat  BY <3>1
    <3>4. (2 * (a * p)) \div 2 = a * p  BY <3>3
    <3> QED  BY <3>1, <3>2, <3>3, <3>4 DEF p
  <2>2. CASE ~(k + 1 <= n)  BY <2>2
  <2> QED  BY <2>1, <2>2
<1> HIDE DEF A
<1>3. Nat \subseteq A  BY <1>1, <1>2, Induct
<1> QED  BY <1>0, <1>3 DEF A

\* Counting on: below h all ones, at h a zero.
LEMMA Carry ==
    ASSUME NEW x \in Nat, NEW h0 \in Nat,
           \A k \in 0 .. h0 - 1 : Odd(Shr(x, k)), ~Odd(Shr(x, h0))
    PROVE  /\ \A k \in 0 .. h0 : Shr(x + 1, k) = Shr(x, k) + 1
           /\ \A k \in Nat : k > h0 => Shr(x + 1, k) = Shr(x, k)
<1> DEFINE A == {k \in Nat : Shr(x + 1, k) = IF k <= h0 THEN Shr(x, k) + 1 ELSE Shr(x, k)}
<1>0. \A k \in Nat : /\ Shr(x, k) \in Nat /\ Shr(x, k + 1) = Shr(x, k) \div 2
                     /\ Shr(x + 1, k) \in Nat /\ Shr(x + 1, k + 1) = Shr(x + 1, k) \div 2
  BY x + 1 \in Nat, ShrDef
<1>1. 0 \in A
  <2>1. Shr(x, 0) = x  BY ShrDef
  <2>2. Shr(x + 1, 0) = x + 1  BY x + 1 \in Nat, ShrDef
  <2> QED  BY <2>1, <2>2
<1>2. ASSUME NEW k \in Nat, k \in A PROVE k + 1 \in A
  <2>1. CASE k < h0
    <3>1. Odd(Shr(x, k)) /\ Shr(x + 1, k) = Shr(x, k) + 1  BY <1>2, <2>1
    <3>2. (Shr(x, k) + 1) \div 2 = Shr(x, k) \div 2 + 1  BY <1>0, <3>1, HalfNext
    <3> QED  BY <1>0, <2>1, <3>1, <3>2
  <2>2. CASE k = h0
    <3>1. ~Odd(Shr(x, k)) /\ Shr(x + 1, k) = Shr(x, k) + 1  BY <1>2, <2>2
    <3>2. (Shr(x, k) + 1) \div 2 = Shr(x, k) \div 2  BY <1>0, <3>1, HalfNext
    <3> QED  BY <1>0, <2>2, <3>1, <3>2
  <2>3. CASE k > h0  BY <1>0, <1>2, <2>3
  <2> QED  BY <2>1, <2>2, <2>3
<1> HIDE DEF A
<1>3. Nat \subseteq A  BY <1>1, <1>2, Induct
<1> QED  BY <1>3 DEF A

\* A number of n bits that are all ones is the last one.
LEMMA AllOnes ==
    ASSUME NEW n \in Nat, NEW x \in Nat, x < Pow2[n], \A k \in 0 .. n - 1 : Odd(Shr(x, k))
    PROVE  \A k \in 0 .. n : Shr(x, k) = Pow2[n - k] - 1
<1> DEFINE A == {j \in Nat : j <= n => Shr(x, n - j) = Pow2[j] - 1}
<1>1. 0 \in A  BY ShrZero, Pow2Def
<1>2. ASSUME NEW j \in Nat, j \in A PROVE j + 1 \in A
  <2>1. CASE j + 1 <= n
    <3> DEFINE k == n - (j + 1)
    <3>1. k \in 0 .. n - 1 /\ k \in Nat /\ k + 1 = n - j  BY <2>1
    <3>2. Shr(x, k + 1) = Pow2[j] - 1  BY <1>2, <2>1, <3>1
    <3>3. Shr(x, k) \in Nat /\ Shr(x, k + 1) = Shr(x, k) \div 2 /\ Odd(Shr(x, k))
      BY <3>1, ShrDef
    <3>4. Pow2[j + 1] = 2 * Pow2[j] /\ Pow2[j] \in Nat  BY Pow2Facts
    <3> HIDE DEF k
    <3>5. Shr(x, k) = Pow2[j + 1] - 1  BY <3>2, <3>3, <3>4, Parity
    <3> QED  BY <3>5 DEF k
  <2>2. CASE ~(j + 1 <= n)  BY <2>2
  <2> QED  BY <2>1, <2>2
<1> HIDE DEF A
<1>3. Nat \subseteq A  BY <1>1, <1>2, Induct
<1>4. ASSUME NEW k \in 0 .. n PROVE Shr(x, k) = Pow2[n - k] - 1
  <2>1. n - k \in Nat /\ n - k <= n /\ n - (n - k) = k  OBVIOUS
  <2>2. n - k \in A  BY <1>3, <2>1
  <2> QED  BY <2>1, <2>2 DEF A
<1> QED  BY <1>4

\* The last number of n bits is all ones.
LEMMA LastOnes ==
    ASSUME NEW n \in Nat
    PROVE  \A k \in 0 .. n : /\ Shr(Pow2[n] - 1, k) = Pow2[n - k] - 1
                             /\ k < n => Odd(Shr(Pow2[n] - 1, k))
<1>0. Pow2[n] - 1 \in Nat  BY Pow2Facts
<1> DEFINE x == Pow2[n] - 1
           A == {k \in Nat : k <= n => Shr(x, k) = Pow2[n - k] - 1}
<1>1. 0 \in A
  <2>1. Shr(x, 0) = x  BY <1>0, ShrDef
  <2>2. n - 0 = n  OBVIOUS
  <2> QED  BY <2>1, <2>2
<1>2. ASSUME NEW k \in Nat, k \in A PROVE k + 1 \in A
  <2>1. CASE k + 1 <= n
    <3> DEFINE p == Pow2[n - (k + 1)]
    <3>1. Shr(x, k) = 2 * p - 1 /\ p \in Nat /\ p >= 1  BY <1>2, <2>1, Pow2Down
    <3>2. Shr(x, k + 1) = Shr(x, k) \div 2  BY <1>0, ShrDef
    <3> HIDE DEF p
    <3>3. (2 * p - 1) \div 2 = p - 1  BY <3>1
    <3> QED  BY <3>1, <3>2, <3>3 DEF p
  <2>2. CASE ~(k + 1 <= n)  BY <2>2
  <2> QED  BY <2>1, <2>2
<1> HIDE DEF A
<1>3. Nat \subseteq A  BY <1>1, <1>2, Induct
<1>4. ASSUME NEW k \in 0 .. n - 1 PROVE Odd(Shr(x, k))
  <2> DEFINE p == Pow2[n - (k + 1)]
  <2>1. Shr(x, k) = Pow2[n - k] - 1  BY <1>3 DEF A
  <2>2. Shr(x, k) = 2 * p - 1 /\ p \in Nat /\ p >= 1  BY <2>1, Pow2Down
  <2> HIDE DEF p
  <2> QED  BY <2>2 DEF Odd
<1> QED  BY <1>3, <1>4 DEF A

----------------------------------------------------------------------------
(* The inductive invariant.                                                *)

\* The node of level k above leaf idx, and the one the path has there.
Above(k) == Node(k, Shr(idx, k) + Shr(Offset, k))
Beside(k) == Node(k, Sibling(Shr(job.leaf, k)) + Shr(Offset, k))

\* How many leaves gen_leaf makes, and how many levels its calls count.
Width == IF job.by = "x8" THEN 8 ELSE 1
Turns == IF job.by = "x8" THEN H - 3 ELSE H

\* treehashx1: left siblings on the stack, and the carry of idx below h.
LoopX1 ==
    /\ pc \in {"leaf", "climb"} =>
          \A k \in Levels : Odd(Shr(idx, k)) /\ (pc = "climb" => k >= h) =>
              stack[k][0] = Node(k, Shr(idx, k) - 1 + Shr(Offset, k))
    /\ pc = "climb" => current[0] = Above(h) /\ \A k \in 0 .. h - 1 : Odd(Shr(idx, k))

\* treehashx8: the same for eight nodes, up to the top three levels; there the
\* nodes of level h are the last Pow2[H - h] of the eight in hand.
LoopX8 ==
    /\ pc \in {"leaf", "climb"} =>
          \A k \in 0 .. H - 4, j \in Lanes : Odd(Shr(idx, k)) /\ (pc = "climb" => k >= h) =>
              stack[k][j] = Node(k, 8 * (Shr(idx, k) - 1) + j + Shr(Offset, k))
    /\ pc \in {"start", "leaf"} \/ (pc = "climb" /\ h < H - 3) => left_adj = 0 /\ prev_left_adj = 0
    /\ pc = "climb" =>
          /\ \A k \in 0 .. h - 1 : k < H - 3 => Odd(Shr(idx, k))
          /\ h <= H - 3 => \A j \in Lanes :
                current[j] = Node(h, 8 * Shr(idx, h) + j + Shr(Offset, h))
          /\ h >= H - 3 =>
                /\ left_adj = 8 - Pow2[H - h]
                /\ \A j \in Lanes : j >= left_adj =>
                      current[j] = Node(h, j - left_adj + Shr(Offset, h))

\* treehash: how many entries of the pile wait for their siblings.
Held == IF pc = "climb" THEN Len(pile) - 1 ELSE Len(pile)

\* What waits at place p of the pile.
Waits(e, p) ==
    /\ e.height \in 0 .. H - p
    /\ Odd(Shr(idx, e.height))
    /\ e.node = Node(e.height, Shr(idx, e.height) - 1 + Shr(Offset, e.height))

LoopPile ==
    /\ pile \in Seq([node : Nodes \cup {Junk}, height : Nat])
    /\ pc = "start" => pile = <<>>
    /\ pc \in {"leaf", "climb"} =>
          /\ \A p \in 1 .. Held : Waits(pile[p], p)
          /\ \A p, q \in 1 .. Held : p < q => pile[p].height > pile[q].height
          /\ \A k \in Levels : Odd(Shr(idx, k)) /\ (pc = "climb" => k >= PileTop.height) =>
                \E p \in 1 .. Held : pile[p].height = k
    /\ pc = "climb" =>
          /\ pile # <<>>
          /\ PileTop.height \in 0 .. H /\ PileTop.node = Above(PileTop.height)
          /\ \A p \in 1 .. Held : pile[p].height >= PileTop.height
          /\ \A k \in 0 .. PileTop.height - 1 : Odd(Shr(idx, k))

\* The level whose node is still to be compared with the path.
Reached == IF pc = "leaf" THEN 0 ELSE IF job.by = "stack" THEN PileTop.height + 1 ELSE h

\* The path has every node on it that was made so far, n leaves and then r
\* levels up; Group numbers the nodes that are in hand together.
Group(k) == Sibling(Shr(job.leaf, k)) \div Width
PathNow(path, n, r) ==
    \A k \in Levels :
        /\ job.leaf = NO_SIGN_LEAF => path[k] = None
        /\ Group(k) < Shr(n, k) \/ (Group(k) = Shr(n, k) /\ k < r) => path[k] = Beside(k)

PathOK ==
    /\ pc = "start" => \A k \in Levels : auth_path[k] = None
    /\ pc \in {"leaf", "climb"} => PathNow(auth_path, idx, Reached)

\* The leaf is opened first, by FORS, or when gen_leaf makes it, by WOTS.
Made == Width * (IF pc = "climb" THEN idx + 1 ELSE idx)
OpenedOK ==
    /\ pc = "start" => opened = None
    /\ pc \in {"leaf", "climb"} =>
          opened = IF job.kind = "fors" THEN job.leaf + Offset
                   ELSE IF job.leaf < Made THEN job.leaf ELSE None

\* compute_root has the node above the leaf and its neighbour in hand.
ClimbOK ==
    /\ pc \in {"check", "done"} => job.leaf # NO_SIGN_LEAF
    /\ pc = "check" =>
          buffer = Pair(Node(i, Shr(job.leaf, i) + Shr(Offset, i)), auth_path[i],
                        Shr(job.leaf, i))

Counting == (pc = "start" => idx = 0) /\ idx < Pow2[Turns]

Loops ==
    /\ job.by = "x1" => LoopX1
    /\ job.by = "x8" => LoopX8
    /\ job.by = "stack" => LoopPile
    /\ job.by # "stack" => pile = <<>>

IInv ==
    /\ TypeOK /\ Counting
    /\ Loops /\ PathOK /\ OpenedOK
    /\ BuildsTheTree /\ ClimbOK /\ VerifierAgrees

----------------------------------------------------------------------------
(* What a job is.                                                          *)

LEMMA JobFacts ==
    ASSUME job \in Jobs
    PROVE  /\ H \in Nat /\ H >= 3 /\ H \in Heights
           /\ job.kind \in {"merkle", "fors"} /\ job.by \in {"x1", "x8", "stack"}
           /\ job.tree \in Nat /\ job.leaf \in Nat
           /\ job.by = "stack" => job.kind = "fors"
           /\ job.kind = "merkle" => job.tree = 0
           /\ job.kind = "fors" => job.tree \in ForsTrees /\ job.leaf # NO_SIGN_LEAF
           /\ job.leaf # NO_SIGN_LEAF => job.leaf < Pow2[H]
           /\ NO_SIGN_LEAF \in Nat /\ NO_SIGN_LEAF >= 8 * Pow2[H] - 1
<1>1. \E n \in Heights : job \in MerkleJobs(n) \/ job \in ForsJobs(n)
  BY DEF Jobs
<1>2. PICK n \in Heights : job \in MerkleJobs(n) \/ job \in ForsJobs(n)
  BY <1>1
<1>3. /\ n \in Nat /\ n >= 3 /\ ForsTrees \subseteq Nat
      /\ 8 * Pow2[n] <= UINT32_MODULUS /\ UINT32_MODULUS \in Nat
  BY TreeAssumption
<1>4. Pow2[n] \in Nat /\ Pow2[n] >= 1  BY <1>3, Pow2Facts
<1>5. NO_SIGN_LEAF \in Nat /\ NO_SIGN_LEAF >= 8 * Pow2[n] - 1
  BY <1>3, <1>4 DEF NO_SIGN_LEAF
<1>6. H = n  BY <1>2 DEF H, MerkleJobs, ForsJobs
<1>7. /\ job.kind \in {"merkle", "fors"} /\ job.by \in {"x1", "x8", "stack"}
      /\ job.tree \in Nat
      /\ job.by = "stack" => job.kind = "fors"
      /\ job.kind = "merkle" => job.tree = 0
      /\ job.kind = "fors" => job.tree \in ForsTrees
  <2>1. CASE job \in MerkleJobs(n)
    <3>1. job.kind = "merkle" /\ job.by \in {"x1", "x8"} /\ job.tree = 0
      BY <2>1 DEF MerkleJobs
    <3> QED  BY <3>1
  <2>2. CASE job \in ForsJobs(n)
    <3>1. job.kind = "fors" /\ job.by \in {"x1", "x8", "stack"} /\ job.tree \in ForsTrees
      BY <2>2 DEF ForsJobs
    <3> QED  BY <1>3, <3>1
  <2> QED  BY <1>2, <2>1, <2>2
<1>8. /\ job.leaf \in 0 .. Pow2[n] - 1 \cup {NO_SIGN_LEAF}
      /\ job.kind = "fors" => job.leaf \in 0 .. Pow2[n] - 1
  BY <1>2 DEF MerkleJobs, ForsJobs
<1>9. \A x \in 0 .. Pow2[n] - 1 : x \in Nat /\ x < Pow2[n] /\ x # NO_SIGN_LEAF
  BY <1>4, <1>5
<1> HIDE DEF H
<1> QED  BY <1>3, <1>5, <1>6, <1>7, <1>8, <1>9

\* idx_offset is whole trees: halving it is exact, up to the number of the tree.
LEMMA OffsetFacts ==
    ASSUME job \in Jobs
    PROVE  /\ Offset \in Nat /\ Shr(Offset, 0) = Offset /\ Shr(Offset, H) = job.tree
           /\ job.kind = "merkle" => Offset = 0
           /\ \A k \in 0 .. H : Shr(Offset, k) \in Nat
           /\ \A k \in 0 .. H - 1 : Shr(Offset, k) = 2 * Shr(Offset, k + 1)
<1>1. H \in Nat /\ job.tree \in Nat /\ (job.kind = "merkle" => job.tree = 0)  BY JobFacts
<1> DEFINE a == job.tree
           n == H
<1>2. Offset = a * Pow2[n]  BY DEF Offset
<1>3. a \in Nat /\ n \in Nat  BY <1>1
<1> HIDE DEF a, n
<1>4. Offset \in Nat /\ \A k \in 0 .. n : Shr(Offset, k) = a * Pow2[n - k]
  BY <1>2, <1>3, ShrTrees
<1>5. Shr(Offset, n) = a
  <2>1. n \in 0 .. n /\ n - n = 0  BY <1>3
  <2>2. Shr(Offset, n) = a * Pow2[0]  BY <1>4, <2>1
  <2> QED  BY <1>3, <2>2, Pow2Def
<1>6. ASSUME NEW k \in 0 .. n - 1 PROVE Shr(Offset, k) = 2 * Shr(Offset, k + 1)
  <2> DEFINE p == Pow2[n - (k + 1)]
  <2>1. k \in 0 .. n /\ k + 1 \in 0 .. n  BY <1>3
  <2>2. Shr(Offset, k) = a * (2 * p) /\ Shr(Offset, k + 1) = a * p /\ p \in Nat
    BY <1>3, <1>4, <2>1, Pow2Down
  <2> HIDE DEF p
  <2>3. a * (2 * p) = 2 * (a * p)  BY <1>3, <2>2
  <2> QED  BY <2>2, <2>3
<1>7. Shr(Offset, 0) = Offset /\ \A k \in 0 .. n : Shr(Offset, k) \in Nat
  <2>1. \A k \in 0 .. n : k \in Nat  BY <1>3
  <2> QED  BY <1>4, <2>1, ShrDef
<1>8. job.kind = "merkle" => Offset = 0  
  <2>1. Pow2[n] \in Nat  BY <1>3, Pow2Facts
  <2> QED  BY <1>1, <1>2, <2>1 DEF a
<1> QED  BY <1>4, <1>5, <1>6, <1>7, <1>8 DEF a, n

\* The indices of a tree's nodes, counted across the trees, fit into uint32_t.
LEMMA IndexFits ==
    ASSUME job \in Jobs, NEW k \in 0 .. H, NEW y \in Nat, y < Pow2[H - k]
    PROVE  (y + Shr(Offset, k)) % UINT32_MODULUS = y + Shr(Offset, k)
<1> DEFINE a == job.tree
           n == H
           p == Pow2[n - k]
<1>0. H \in Nat /\ job.tree \in Nat /\ UINT32_MODULUS \in Nat  BY JobFacts, TreeAssumption
<1>1. a \in Nat /\ n \in Nat /\ k \in 0 .. n /\ k \in Nat /\ n - k \in Nat /\ y < p  BY <1>0
<1>2. (a + 1) * Pow2[n] <= UINT32_MODULUS
  <2>1. CASE job.kind = "fors"  BY <2>1, JobFacts, TreeAssumption
  <2>2. CASE job.kind = "merkle"
    <3>1. a = 0 /\ n \in Heights  BY <2>2, JobFacts
    <3>2. 8 * Pow2[n] <= UINT32_MODULUS /\ Pow2[n] \in Nat  BY <1>1, <3>1, TreeAssumption, Pow2Facts
    <3> HIDE DEF a, n
    <3>3. (a + 1) * Pow2[n] = Pow2[n]  BY <3>1, <3>2
    <3> QED  BY <1>0, <3>2, <3>3
  <2> QED  BY <2>1, <2>2, JobFacts
<1>3. Offset = a * Pow2[n]  BY DEF Offset
<1> HIDE DEF a, n
<1>4. p \in Nat  BY <1>1, Pow2Facts
<1>5. Shr(Offset, k) = a * p  BY <1>1, <1>3, ShrTrees
<1>6. (a + 1) * p <= (a + 1) * Pow2[n]
  <2> DEFINE b == a + 1
             x == b * Pow2[n]
  <2>1. b \in Nat  BY <1>1
  <2> HIDE DEF b
  <2>2. x \in Nat /\ Shr(x, k) = b * p  BY <1>1, <2>1, ShrTrees
  <2> HIDE DEF x
  <2>3. Shr(x, k) <= x  BY <1>1, <2>2, ShrAtMost
  <2> QED  BY <2>2, <2>3 DEF b, x
<1> HIDE DEF p
<1>7. (a + 1) * p = a * p + p /\ a * p \in Nat  BY <1>1, <1>4
<1>8. Pow2[n] \in Nat  BY <1>1, Pow2Facts
<1>9. (a + 1) * Pow2[n] \in Nat  BY <1>1, <1>8
<1>10. y + a * p < UINT32_MODULUS /\ y + a * p \in Nat
  BY ONLY <1>0, <1>1, <1>2, <1>4, <1>6, <1>7, <1>9, y \in Nat
<1> DEFINE z == y + a * p
<1>11. z \in 0 .. UINT32_MODULUS - 1  BY <1>0, <1>10
<1> HIDE DEF z
<1>12. z % UINT32_MODULUS = z  BY <1>0, <1>11
<1> QED  BY <1>5, <1>12 DEF z

\* The siblings on the way from the selected leaf are nodes of the tree; those of
\* no leaf are beyond it.
LEMMA LeafFacts ==
    ASSUME job \in Jobs, NEW k \in Levels
    PROVE  /\ Shr(job.leaf, k) \in Nat /\ Sibling(Shr(job.leaf, k)) \in Nat
           /\ job.leaf # NO_SIGN_LEAF => /\ Shr(job.leaf, k) < Pow2[H - k]
                                         /\ Sibling(Shr(job.leaf, k)) < Pow2[H - k]
           /\ job.leaf = NO_SIGN_LEAF => Shr(job.leaf, k) >= 8 * Pow2[H - k] - 1
<1>0. H \in Nat /\ job.leaf \in Nat /\ k \in Nat /\ k \in 0 .. H - 1 /\ k \in 0 .. H
  BY JobFacts DEF Levels
<1> DEFINE x == Shr(job.leaf, k)
           p == Pow2[H - (k + 1)]
<1>1. x \in Nat  BY <1>0, ShrDef
<1>2. Pow2[H - k] = 2 * p /\ p \in Nat /\ p >= 1  BY <1>0, Pow2Down
<1>3. ASSUME job.leaf # NO_SIGN_LEAF PROVE x < Pow2[H - k]
  <2>1. job.leaf < Pow2[H]  BY <1>3, JobFacts
  <2> QED  BY <1>0, <2>1, ShrBound
<1>4. ASSUME job.leaf = NO_SIGN_LEAF PROVE x >= 8 * Pow2[H - k] - 1
  <2> DEFINE n == H + 3
  <2>1. Pow2[n] = 8 * Pow2[H]
    <3>1. H + 1 \in Nat /\ H + 2 \in Nat /\ (H + 1) + 1 = H + 2 /\ (H + 2) + 1 = H + 3  BY <1>0
    <3>2. Pow2[H + 1] = 2 * Pow2[H] /\ Pow2[H + 2] = 2 * Pow2[H + 1] /\ Pow2[H + 3] = 2 * Pow2[H + 2]
          /\ Pow2[H] \in Nat
      BY <1>0, <3>1, Pow2Facts
    <3> QED  BY <3>2
  <2>2. Pow2[n - k] = 8 * Pow2[H - k]
    <3> DEFINE d == H - k
    <3>1. d \in Nat /\ d + 1 \in Nat /\ d + 2 \in Nat /\ (d + 1) + 1 = d + 2 /\ (d + 2) + 1 = d + 3
          /\ n - k = d + 3
      BY <1>0
    <3> HIDE DEF d
    <3>2. Pow2[d + 1] = 2 * Pow2[d] /\ Pow2[d + 2] = 2 * Pow2[d + 1] /\ Pow2[d + 3] = 2 * Pow2[d + 2]
          /\ Pow2[d] \in Nat
      BY <3>1, Pow2Facts
    <3>3. Pow2[n - k] = 8 * Pow2[d]  BY <3>1, <3>2
    <3> QED  BY <3>3 DEF d
  <2>3. n \in Nat /\ k \in 0 .. n  BY <1>0
  <2> HIDE DEF n
  <2>4. Shr(Pow2[n] - 1, k) = Pow2[n - k] - 1  BY <2>3, LastOnes
  <2>5. Pow2[n] - 1 \in Nat /\ Pow2[n] - 1 <= job.leaf
    <3>1. Pow2[n] \in Nat /\ Pow2[n] >= 1  BY <2>3, Pow2Facts
    <3> QED  BY <1>4, <2>1, <3>1, JobFacts
  <2>6. Shr(Pow2[n] - 1, k) <= x  BY <1>0, <2>5, ShrMonotone
  <2> QED  BY <1>1, <1>2, <2>2, <2>4, <2>6
<1> HIDE DEF x, p
<1>5. x < 2 * p => Sibling(x) < 2 * p  BY <1>1, <1>2, Parity
<1> QED  BY <1>1, <1>2, <1>3, <1>4, <1>5, Parity DEF x

LEMMA Pow2Three ==
    ASSUME NEW n \in Nat, n >= 3
    PROVE  n - 3 \in Nat /\ Pow2[n - 3] \in Nat /\ Pow2[n - 3] >= 1 /\ Pow2[n] = 8 * Pow2[n - 3]
<1> DEFINE d == n - 3
<1>1. d \in Nat /\ d + 1 \in Nat /\ d + 2 \in Nat /\ (d + 1) + 1 = d + 2 /\ (d + 2) + 1 = n
  OBVIOUS
<1> HIDE DEF d
<1>2. /\ Pow2[d + 1] = 2 * Pow2[d] /\ Pow2[d + 2] = 2 * Pow2[d + 1]
      /\ Pow2[n] = 2 * Pow2[d + 2] /\ Pow2[d] \in Nat /\ Pow2[d] >= 1
  BY <1>1, Pow2Facts
<1>3. d \in Nat /\ Pow2[d] \in Nat /\ Pow2[d] >= 1 /\ Pow2[n] = 8 * Pow2[d]  BY <1>1, <1>2
<1> QED  BY <1>3 DEF d

LEMMA TurnsFacts ==
    ASSUME job \in Jobs
    PROVE  /\ Turns \in Nat /\ Turns <= H
           /\ Width \in {1, 8} /\ Width * Pow2[Turns] = Pow2[H]
           /\ \A x \in Nat : x < Pow2[Turns] => x < Pow2[H]
           /\ Pow2[Turns] \in Nat /\ Pow2[Turns] >= 1 /\ Pow2[H] \in Nat
<1>1. H \in Nat /\ H >= 3 /\ Pow2[H] \in Nat /\ Pow2[H] >= 1  BY JobFacts, Pow2Facts
<1>2. H - 3 \in Nat /\ Pow2[H - 3] \in Nat /\ Pow2[H - 3] >= 1 /\ Pow2[H] = 8 * Pow2[H - 3]
  BY <1>1, Pow2Three
<1>3. CASE job.by = "x8"
  <2>1. Turns = H - 3 /\ Width = 8  BY <1>3 DEF Turns, Width
  <2> QED  BY <1>1, <1>2, <2>1
<1>4. CASE job.by # "x8"
  <2>1. Turns = H /\ Width = 1  BY <1>4 DEF Turns, Width
  <2> QED  BY <1>1, <2>1
<1> QED  BY <1>3, <1>4

LEMMA ThashNode ==
    ASSUME NEW k \in Nat, NEW x, NEW l, NEW r, l = Node(k, 2 * x), r = Node(k, 2 * x + 1)
    PROVE  Thash(l, r, k + 1, x) = Node(k + 1, x)
<1>1. k + 1 - 1 = k  OBVIOUS
<1> QED  BY <1>1 DEF Thash

LEMMA ThashType ==
    ASSUME NEW k \in Nat, NEW x \in Nat, NEW l, NEW r
    PROVE  Thash(l, r, k, x) \in Nodes \cup {Junk}
BY DEF Thash, Node, Nodes

LEMMA NodeType == ASSUME NEW k \in Nat, NEW x \in Nat PROVE Node(k, x) \in Nodes
BY DEF Node, Nodes

\* Nothing waits before the first leaf.
LEMMA ShrOfZero == \A k \in Nat : Shr(0, k) = 0 /\ ~Odd(Shr(0, k))
<1>1. 0 < Pow2[0]  BY Pow2Def
<1>2. \A k \in Nat : Shr(0, k) = 0  BY <1>1, ShrZero
<1> QED  BY <1>2 DEF Odd

----------------------------------------------------------------------------
(* The initial state, and one lemma per action.                            *)

LEMMA InitInv == Init => IInv
<1> SUFFICES ASSUME Init PROVE IInv  OBVIOUS
<1>0. job \in Jobs /\ pc = "start" /\ idx = 0 /\ h = 0 /\ pile = <<>>  BY DEF Init
<1>1. H \in Nat /\ H >= 3  BY <1>0, JobFacts
<1>2. Pow2[H] \in Nat /\ Pow2[H] >= 1 /\ Pow2[Turns] \in Nat /\ Pow2[Turns] >= 1
  BY <1>0, <1>1, TurnsFacts, Pow2Facts
<1>3. /\ current = Filled(Junk) /\ stack = [k \in Levels |-> Filled(Junk)]
      /\ auth_path = [k \in Levels |-> None]
      /\ left_adj = 0 /\ prev_left_adj = 0 /\ root = None /\ opened = None
      /\ buffer = <<Junk, Junk>> /\ i = 0 /\ computed = None
  BY DEF Init
<1>4. TypeOK
  <2>1. idx \in 0 .. Pow2[H] - 1 /\ h \in 0 .. H /\ i \in Levels  BY <1>0, <1>1, <1>2, <1>3 DEF Levels
  <2>2. current \in [Lanes -> Nodes \cup {Junk}]  BY <1>3 DEF Filled
  <2>3. stack \in [Levels -> [Lanes -> Nodes \cup {Junk}]]  BY <1>3 DEF Filled
  <2>4. left_adj \in Lanes /\ prev_left_adj \in Lanes  BY <1>3 DEF Lanes
  <2>5. Len(pile) <= H + 1  BY <1>0, <1>1
  <2>6. auth_path \in [Levels -> Nodes \cup {Junk, None}]  BY <1>3
  <2>7. /\ root \in Nodes \cup {Junk, None} /\ opened \in Nat \cup {None}
        /\ buffer[1] \in Nodes \cup {Junk, None} /\ buffer[2] \in Nodes \cup {Junk, None}
        /\ computed \in Nodes \cup {Junk, None}
    BY <1>3
  <2> QED  BY <1>0, <2>1, <2>2, <2>3, <2>4, <2>5, <2>6, <2>7 DEF TypeOK
<1>5. Counting  BY <1>0, <1>2 DEF Counting
<1>6. Loops
  <2>1. LoopX1 /\ LoopX8  BY <1>0, <1>3 DEF LoopX1, LoopX8
  <2>2. LoopPile  BY <1>0 DEF LoopPile
  <2> QED  BY <1>0, <2>1, <2>2 DEF Loops
<1>7. PathOK /\ OpenedOK  BY <1>0, <1>3 DEF PathOK, OpenedOK
<1>8. BuildsTheTree /\ ClimbOK /\ VerifierAgrees  BY <1>0 DEF BuildsTheTree, ClimbOK, VerifierAgrees
<1> QED  BY <1>4, <1>5, <1>6, <1>7, <1>8 DEF IInv

LEMMA StartInv == ASSUME IInv, MerkleStart \/ ForsStart PROVE IInv'
<1>0. TypeOK /\ Counting /\ Loops /\ PathOK /\ OpenedOK /\ pc = "start" /\ pc' = "leaf"
  BY DEF IInv, MerkleStart, ForsStart
<1>u. UNCHANGED <<job, idx, h, current, stack, left_adj, prev_left_adj, pile, auth_path, root, checking>>
  BY DEF MerkleStart, ForsStart, outputs
<1>1. job \in Jobs /\ idx = 0  BY <1>0 DEF TypeOK, Counting
<1>2. H \in Nat /\ Offset \in Nat /\ job.leaf \in Nat /\ job.by \in {"x1", "x8", "stack"}
      /\ (job.by = "stack" => job.kind = "fors") /\ job.kind \in {"merkle", "fors"}
  BY <1>1, JobFacts, OffsetFacts
<1>3. opened' = IF job.kind = "fors" THEN job.leaf + Offset ELSE None
  <2>1. opened = None  BY <1>0 DEF OpenedOK
  <2> QED  BY <2>1 DEF MerkleStart, ForsStart, outputs
<1>4. pile = <<>>  BY <1>0, <1>2 DEF Loops, LoopPile
<1>5. TypeOK'  
  <2>1. opened' \in Nat \cup {None}  BY <1>2, <1>3
  <2>2. H' = H /\ Levels' = Levels  BY <1>u DEF H, Levels
  <2> QED  BY <1>0, <1>u, <2>1, <2>2 DEF TypeOK, checking
<1>6. Counting'  BY <1>0, <1>u DEF Counting, Turns, H
<1>7. Loops'
  <2>1. job.by = "x8" => left_adj = 0 /\ prev_left_adj = 0  BY <1>0 DEF Loops, LoopX8
  <2>2. \A k \in Levels : ~Odd(Shr(idx, k))
    <3>1. \A k \in Levels : k \in Nat  BY <1>2 DEF Levels
    <3> QED  BY <1>1, <3>1, ShrOfZero
  <2>3. H' = H /\ Levels' = Levels /\ Offset' = Offset  BY <1>u DEF H, Levels, Offset
  <2>4. LoopX1'  BY <1>0, <1>u, <2>2, <2>3 DEF LoopX1
  <2>5. job.by = "x8" => LoopX8'
    <3>1. \A k \in 0 .. H - 4 : k \in Levels  BY <1>2 DEF Levels
    <3> QED  BY <1>0, <1>u, <2>1, <2>2, <2>3, <3>1 DEF LoopX8
  <2>6. Held' = 0 /\ 1 .. 0 = {} /\ <<>> \in Seq([node : Nodes \cup {Junk}, height : Nat])
    BY <1>0, <1>4, <1>u DEF Held
  <2>7. LoopPile'  BY <1>0, <1>4, <1>u, <2>2, <2>3, <2>6 DEF LoopPile
  <2> QED  BY <1>u, <1>4, <2>4, <2>5, <2>7 DEF Loops
<1>8. PathOK'
  <2>1. H' = H /\ Levels' = Levels /\ Width' = Width /\ Offset' = Offset  BY <1>u DEF H, Levels, Width, Offset
  <2>2. ASSUME NEW k \in Levels
        PROVE  /\ auth_path[k] = None
               /\ Shr(idx, k) = 0 /\ Group(k) \in Nat /\ ~(k < 0)
    <3>1. k \in Nat  BY <1>2 DEF Levels
    <3>2. Sibling(Shr(job.leaf, k)) \in Nat /\ Width \in {1, 8}  BY <1>1, LeafFacts, TurnsFacts
    <3>3. Shr(idx, k) = 0  BY <1>1, <3>1, ShrOfZero
    <3> QED  BY <1>0, <3>1, <3>2, <3>3 DEF PathOK, Group
  <2>3. Reached' = 0  BY <1>0 DEF Reached
  <2>4. \A k : Group(k)' = Group(k) /\ Beside(k)' = Beside(k)  BY <1>u, <2>1 DEF Group, Beside
  <2>5. PathNow(auth_path, idx, 0)  BY <2>2 DEF PathNow
  <2>6. PathNow(auth_path, idx, Reached)'  BY <1>u, <2>1, <2>3, <2>4, <2>5 DEF PathNow
  <2> QED  BY <1>0, <2>6 DEF PathOK
<1>9. OpenedOK'
  <2>1. Made' = 0  
    <3>1. Width' = Width /\ Width \in {1, 8}  BY <1>1, <1>u, TurnsFacts DEF Width
    <3>2. Made' = Width' * idx'  BY <1>0 DEF Made
    <3> QED  BY <1>1, <1>u, <3>1, <3>2
  <2>2. ~(job.leaf < 0)  BY <1>2
  <2>3. Offset' = Offset  BY <1>u DEF Offset, H
  <2> QED  BY <1>0, <1>3, <1>u, <2>1, <2>2, <2>3 DEF OpenedOK
<1>10. BuildsTheTree' /\ ClimbOK' /\ VerifierAgrees'
  BY <1>0 DEF BuildsTheTree, ClimbOK, VerifierAgrees
<1> QED  BY <1>5, <1>6, <1>7, <1>8, <1>9, <1>10 DEF IInv

\* What the four leaf callbacks have in common.
LEMMA GenLeafCommon ==
    ASSUME IInv, NEW kind, NEW by \in {"x1", "x8"}, GenLeaf(kind, by), opened' \in Nat \cup {None}
    PROVE  /\ TypeOK' /\ Counting' /\ Loops' /\ PathOK'
           /\ BuildsTheTree' /\ ClimbOK' /\ VerifierAgrees'
<1>0. /\ TypeOK /\ Counting /\ Loops /\ PathOK
      /\ pc = "leaf" /\ pc' = "climb" /\ h' = 0 /\ job.by = by
      /\ current' = IF by = "x8" THEN [j \in Lanes |-> Node(0, 8 * idx + Offset + j)]
                    ELSE [current EXCEPT ![0] = Node(0, idx + Offset)]
  BY DEF IInv, GenLeaf
<1>u. UNCHANGED <<job, idx, stack, left_adj, prev_left_adj, pile, auth_path, root, checking>>
  BY DEF GenLeaf
<1>1. job \in Jobs /\ current \in [Lanes -> Nodes \cup {Junk}] /\ idx \in 0 .. Pow2[H] - 1
  BY <1>0 DEF TypeOK
<1>2. /\ H \in Nat /\ H >= 3 /\ Offset \in Nat /\ Shr(Offset, 0) = Offset /\ Pow2[H] \in Nat
  BY <1>1, JobFacts, OffsetFacts, TurnsFacts
<1>3. idx \in Nat /\ Shr(idx, 0) = idx  BY <1>1, <1>2, ShrDef
<1>4. H' = H /\ Levels' = Levels /\ Offset' = Offset /\ Width' = Width /\ Turns' = Turns
  BY <1>u DEF H, Levels, Offset, Width, Turns
<1>5. current' \in [Lanes -> Nodes \cup {Junk}]
  <2>1. CASE by = "x8"
    <3>1. \A j \in Lanes : 8 * idx + Offset + j \in Nat  BY <1>2, <1>3 DEF Lanes
    <3>2. \A j \in Lanes : Node(0, 8 * idx + Offset + j) \in Nodes  BY <3>1, NodeType
    <3> QED  BY <1>0, <2>1, <3>2
  <2>2. CASE by = "x1"
    <3>1. Node(0, idx + Offset) \in Nodes  BY <1>2, <1>3, NodeType
    <3> QED  BY <1>0, <1>1, <2>2, <3>1
  <2> QED  BY <2>1, <2>2
<1>6. TypeOK'
  <2>1. h' \in 0 .. H'  BY <1>0, <1>2, <1>4
  <2> QED  BY <1>0, <1>u, <1>4, <1>5, <2>1 DEF TypeOK, checking
<1>7. Counting'  BY <1>0, <1>u, <1>4 DEF Counting
<1>8. Loops'
  <2>1. CASE by = "x1"
    <3>1. LoopX1  BY <1>0, <2>1 DEF Loops
    <3>2. current'[0] = Node(0, Shr(idx, 0) + Shr(Offset, 0))
      BY <1>0, <1>1, <1>2, <1>3, <2>1 DEF Lanes
    <3>3. 0 .. h' - 1 = {}  BY <1>0
    <3>4. LoopX1'
      BY <1>0, <1>u, <1>4, <3>1, <3>2, <3>3 DEF LoopX1, Above
    <3> QED  BY <1>0, <1>u, <2>1, <3>4 DEF Loops
  <2>2. CASE by = "x8"
    <3>1. LoopX8  BY <1>0, <2>2 DEF Loops
    <3>2. left_adj = 0 /\ prev_left_adj = 0  BY <1>0, <3>1 DEF LoopX8
    <3>3. \A j \in Lanes : current'[j] = Node(0, 8 * Shr(idx, 0) + j + Shr(Offset, 0))
      <4>1. \A j \in Lanes : 8 * idx + Offset + j = 8 * idx + j + Offset  BY <1>2, <1>3 DEF Lanes
      <4> QED  BY <1>0, <1>2, <1>3, <2>2, <4>1
    <3>4. /\ \A k \in 0 .. H - 4, j \in Lanes : Odd(Shr(idx, k)) =>
                stack[k][j] = Node(k, 8 * (Shr(idx, k) - 1) + j + Shr(Offset, k))
      BY <1>0, <3>1 DEF LoopX8
    <3>5. 0 .. h' - 1 = {}  BY <1>0
    <3>6. h' >= H - 3 =>
                /\ left_adj = 8 - Pow2[H - h']
                /\ \A j \in Lanes : j >= left_adj =>
                      current'[j] = Node(h', j - left_adj + Shr(Offset, h'))
      <4> SUFFICES ASSUME h' >= H - 3
                   PROVE  /\ left_adj = 8 - Pow2[H - h']
                          /\ \A j \in Lanes : j >= left_adj =>
                                current'[j] = Node(h', j - left_adj + Shr(Offset, h'))
        OBVIOUS
      <4>1. H = 3 /\ H - h' = 3  BY <1>0, <1>2
      <4>2. Pow2[3] = 8 * Pow2[3 - 3] /\ 3 - 3 = 0  BY Pow2Three
      <4>3. Pow2[H - h'] = 8  BY <4>1, <4>2, Pow2Def
      <4>4. idx = 0
        <5>1. Turns = 0  BY <1>0, <2>2, <4>1 DEF Turns
        <5> QED  BY <1>0, <1>3, <5>1, Pow2Def DEF Counting
      <4>5. \A j \in Lanes : j - left_adj = 8 * Shr(idx, 0) + j  BY <1>3, <3>2, <4>4 DEF Lanes
      <4> QED  BY <1>0, <3>2, <3>3, <4>3, <4>5
    <3>7. LoopX8'  
      <4>1. /\ \A k \in 0 .. h' - 1 : k < H - 3 => Odd(Shr(idx, k))  BY <3>5
      <4>2. \A j \in Lanes : current'[j] = Node(h', 8 * Shr(idx, h') + j + Shr(Offset, h'))
        BY <1>0, <3>3
      <4> QED  BY <1>0, <1>u, <1>4, <3>2, <3>4, <3>6, <4>1, <4>2 DEF LoopX8
    <3> QED  BY <1>0, <1>u, <2>2, <3>7 DEF Loops
  <2> QED  BY <2>1, <2>2
<1>9. PathOK'
  <2>1. Reached' = 0 /\ Reached = 0  BY <1>0, <1>u DEF Reached
  <2>2. \A k : Group(k)' = Group(k) /\ Beside(k)' = Beside(k)  BY <1>u, <1>4 DEF Group, Beside
  <2>3. PathNow(auth_path, idx, 0)  BY <1>0, <2>1 DEF PathOK
  <2>4. PathNow(auth_path, idx, Reached)'  BY <1>u, <1>4, <2>1, <2>2, <2>3 DEF PathNow
  <2> QED  BY <1>0, <2>4 DEF PathOK
<1>10. BuildsTheTree' /\ ClimbOK' /\ VerifierAgrees'
  BY <1>0 DEF BuildsTheTree, ClimbOK, VerifierAgrees
<1> QED  BY <1>6, <1>7, <1>8, <1>9, <1>10

LEMMA ForsLeafInv == ASSUME IInv, ForsLeafX1 \/ ForsLeafX8 PROVE IInv'
<1>1. PICK by \in {"x1", "x8"} : GenLeaf("fors", by) /\ UNCHANGED opened
  BY DEF ForsLeafX1, ForsLeafX8
<1>2. opened' \in Nat \cup {None}  BY <1>1 DEF IInv, TypeOK
<1>3. OpenedOK'
  <2>1. pc = "leaf" /\ pc' = "climb" /\ job' = job /\ job.kind = "fors"  BY <1>1 DEF GenLeaf
  <2>2. opened = job.leaf + Offset  BY <2>1 DEF IInv, OpenedOK
  <2> QED  BY <1>1, <2>1, <2>2 DEF OpenedOK, Offset, H
<1>4. /\ TypeOK' /\ Counting' /\ Loops' /\ PathOK'
      /\ BuildsTheTree' /\ ClimbOK' /\ VerifierAgrees'
  BY <1>1, <1>2, GenLeafCommon
<1> QED  BY <1>3, <1>4 DEF IInv

\* A key pair signs when its leaf is made, by whichever lane.
LEMMA WotsLeafInv == ASSUME IInv, WotsLeafX1 \/ WotsLeafX8 PROVE IInv'
<1>1. PICK by \in {"x1", "x8"} : GenLeaf("merkle", by)  BY DEF WotsLeafX1, WotsLeafX8
<1>2. /\ pc = "leaf" /\ pc' = "climb" /\ job' = job /\ idx' = idx
      /\ job.kind = "merkle" /\ job.by = by /\ TypeOK /\ Counting
  BY <1>1 DEF GenLeaf, IInv
<1>3. job \in Jobs  BY <1>2 DEF TypeOK
<1>4. /\ Offset = 0 /\ job.leaf \in Nat /\ H \in Nat /\ Pow2[H] \in Nat
      /\ NO_SIGN_LEAF >= 8 * Pow2[H] - 1 /\ NO_SIGN_LEAF \in Nat
      /\ Width * Pow2[Turns] = Pow2[H] /\ Pow2[Turns] \in Nat /\ Pow2[Turns] >= 1
  BY <1>2, <1>3, JobFacts, OffsetFacts, TurnsFacts
<1>5. idx \in Nat /\ idx < Pow2[Turns]  BY <1>2, <1>4 DEF TypeOK, Counting
<1>6. opened = IF job.leaf < Width * idx THEN job.leaf ELSE None
  BY <1>2 DEF IInv, OpenedOK, Made
<1>7. opened' = IF job.leaf < Width * (idx + 1) THEN job.leaf ELSE None
  <2>1. CASE by = "x1"
    <3>1. Width = 1  BY <1>2, <2>1 DEF Width
    <3>2. opened' = IF job.leaf # NO_SIGN_LEAF /\ job.leaf = idx THEN idx ELSE opened
      BY <1>2, <1>4, <1>5, <2>1 DEF WotsLeafX1, WotsLeafX8, GenLeaf
    <3>3. idx # NO_SIGN_LEAF  BY <1>4, <1>5, <3>1
    <3>4. job.leaf < 1 * (idx + 1) <=> job.leaf = idx \/ job.leaf < 1 * idx  BY <1>4, <1>5
    <3> QED  BY <1>6, <3>1, <3>2, <3>3, <3>4
  <2>2. CASE by = "x8"
    <3>1. Width = 8  BY <1>2, <2>2 DEF Width
    <3>2. opened' = IF job.leaf # NO_SIGN_LEAF /\ job.leaf \div 8 = (8 * idx + Offset) \div 8
                    THEN 8 * idx + Offset + SignLane ELSE opened
      BY <1>2, <2>2 DEF WotsLeafX1, WotsLeafX8, GenLeaf
    <3>3. (8 * idx + Offset) \div 8 = idx  BY <1>4, <1>5
    <3>4. job.leaf \div 8 = idx <=> 8 * idx <= job.leaf /\ job.leaf < 8 * (idx + 1)  BY <1>4, <1>5
    <3>5. job.leaf \div 8 = idx => 8 * idx + Offset + SignLane = job.leaf
      BY <1>4, <1>5 DEF SignLane
    <3>6. NO_SIGN_LEAF >= 8 * (idx + 1)  BY <1>4, <1>5, <3>1
    <3>7. job.leaf < 8 * idx => job.leaf < 8 * (idx + 1)  BY <1>4, <1>5
    <3> QED  BY <1>4, <1>5, <1>6, <3>1, <3>2, <3>3, <3>4, <3>5, <3>6, <3>7
  <2> QED  BY <2>1, <2>2
<1>8. opened' \in Nat \cup {None}  BY <1>4, <1>7
<1>9. OpenedOK'
  <2>1. Made' = Width * (idx + 1)  BY <1>2 DEF Made, Width
  <2> QED  BY <1>2, <1>7, <2>1 DEF OpenedOK
<1>10. /\ TypeOK' /\ Counting' /\ Loops' /\ PathOK'
      /\ BuildsTheTree' /\ ClimbOK' /\ VerifierAgrees'
  BY <1>1, <1>8, GenLeafCommon
<1> QED  BY <1>9, <1>10 DEF IInv

----------------------------------------------------------------------------
(* The authentication path.                                                *)

LEMMA GroupFacts ==
    ASSUME job \in Jobs, NEW k \in Levels
    PROVE  /\ Group(k) \in Nat /\ k \in Nat /\ k \in 0 .. H - 1
           /\ Group(k) = Shr(job.leaf, k) \div 8 \/ job.by # "x8"
           /\ job.by # "x8" => Group(k) = Sibling(Shr(job.leaf, k))
<1>1. H \in Nat /\ k \in Nat /\ k \in 0 .. H - 1  BY JobFacts DEF Levels
<1> DEFINE x == Shr(job.leaf, k)
<1>2. x \in Nat /\ Sibling(x) \in Nat  BY LeafFacts
<1>3. Group(k) = Sibling(x) \div Width  BY DEF Group
<1> HIDE DEF x
<1>4. CASE job.by = "x8"
  <2>1. Width = 8  BY <1>4 DEF Width
  <2>2. Sibling(x) \div 8 = x \div 8 /\ x \div 8 \in Nat  BY <1>2 DEF Sibling, Odd
  <2> QED  BY <1>1, <1>3, <1>4, <2>1, <2>2 DEF x
<1>5. CASE job.by # "x8"
  <2>1. Width = 1  BY <1>5 DEF Width
  <2>2. Sibling(x) \div 1 = Sibling(x)  BY <1>2
  <2> QED  BY <1>1, <1>2, <1>3, <1>5, <2>1, <2>2 DEF x
<1> QED  BY <1>4, <1>5

\* When no leaf is selected, no node is on the path.
LEMMA NoneSelected ==
    ASSUME job \in Jobs, job.leaf = NO_SIGN_LEAF, NEW k \in Levels, NEW n \in Nat, n < Pow2[Turns]
    PROVE  Group(k) # Shr(n, k)
<1>1. /\ H \in Nat /\ H >= 3 /\ k \in Nat /\ k \in 0 .. H - 1 /\ k \in 0 .. H
      /\ Shr(job.leaf, k) \in Nat /\ Shr(job.leaf, k) >= 8 * Pow2[H - k] - 1
  BY JobFacts, LeafFacts DEF Levels
<1>2. Pow2[H - k] = 2 * Pow2[H - (k + 1)] /\ Pow2[H - (k + 1)] \in Nat /\ Pow2[H - (k + 1)] >= 1
  BY <1>1, Pow2Down
<1>3. CASE job.by = "x8"
  <2>1. Group(k) >= Pow2[H - k] - 1
    <3>1. Group(k) = Shr(job.leaf, k) \div 8  BY <1>3, GroupFacts
    <3> QED  BY <1>1, <1>2, <3>1
  <2>2. Turns = H - 3 /\ H - 3 \in Nat /\ n < Pow2[H - 3]  BY <1>1, <1>3 DEF Turns
  <2>3. CASE k >= H - 3
    <3>1. Shr(n, k) = 0  BY <1>1, <2>2, <2>3, ShrZero
    <3> QED  BY <1>2, <2>1, <3>1
  <2>4. CASE k < H - 3
    <3> DEFINE d == H - k
    <3>1. Shr(n, k) < Pow2[(H - 3) - k]  BY <1>1, <2>2, <2>4, ShrBound
    <3>2. d \in Nat /\ d >= 3 /\ (H - 3) - k = d - 3  BY <1>1, <2>4
    <3>3. Pow2[d] = 8 * Pow2[d - 3] /\ Pow2[d - 3] \in Nat /\ Pow2[d - 3] >= 1  BY <3>2, Pow2Three
    <3>4. Shr(n, k) \in Nat  BY <1>1, ShrDef
    <3>5. Group(k) >= Pow2[d] - 1  BY <2>1
    <3>6. Shr(n, k) < Pow2[d - 3]  BY <3>1, <3>2
    <3> HIDE DEF d
    <3> QED  BY <3>3, <3>4, <3>5, <3>6
  <2> QED  BY <1>1, <2>3, <2>4
<1>4. CASE job.by # "x8"
  <2>1. Group(k) >= 8 * Pow2[H - k] - 2
    <3>1. Group(k) = Sibling(Shr(job.leaf, k))  BY <1>4, GroupFacts
    <3> QED  BY <1>1, <1>2, <3>1, Parity
  <2>2. Turns = H  BY <1>4 DEF Turns
  <2>3. Shr(n, k) < Pow2[H - k] /\ Shr(n, k) \in Nat  BY <1>1, <2>2, ShrBound, ShrDef
  <2> QED  BY <1>2, <2>1, <2>3
<1> QED  BY <1>3, <1>4

\* A node in hand that is on the path is written to it.
LEMMA PathTurn ==
    ASSUME job \in Jobs, NEW n \in Nat, n < Pow2[Turns], NEW r \in Levels,
           NEW path, NEW new, PathNow(path, n, r),
           Group(r) = Shr(n, r) /\ job.leaf # NO_SIGN_LEAF => new[r] = Beside(r),
           Group(r) # Shr(n, r) => new[r] = path[r],
           \A k \in Levels : k # r => new[k] = path[k]
    PROVE  PathNow(new, n, r + 1)
<1> SUFFICES ASSUME NEW k \in Levels
             PROVE  /\ job.leaf = NO_SIGN_LEAF => new[k] = None
                    /\ Group(k) < Shr(n, k) \/ (Group(k) = Shr(n, k) /\ k < r + 1) =>
                          new[k] = Beside(k)
  BY DEF PathNow
<1>0. k \in Nat /\ r \in Nat /\ Group(k) \in Nat /\ Shr(n, k) \in Nat
  BY GroupFacts, ShrDef
<1>1. /\ job.leaf = NO_SIGN_LEAF => path[k] = None
      /\ Group(k) < Shr(n, k) \/ (Group(k) = Shr(n, k) /\ k < r) => path[k] = Beside(k)
  BY DEF PathNow
<1>2. CASE k # r  BY <1>0, <1>1, <1>2
<1>3. CASE k = r
  <2>1. job.leaf = NO_SIGN_LEAF => Group(k) # Shr(n, k)  BY NoneSelected
  <2>2. CASE Group(k) = Shr(n, k)  BY <1>0, <1>3, <2>1, <2>2
  <2>3. CASE Group(k) # Shr(n, k)  BY <1>0, <1>1, <1>3, <2>3
  <2> QED  BY <2>2, <2>3
<1> QED  BY <1>2, <1>3

\* The next leaf finds the path as the climb to level r left it.
LEMMA PathPush ==
    ASSUME job \in Jobs, NEW n \in Nat, NEW r \in Nat, NEW path, PathNow(path, n, r + 1),
           \A k \in 0 .. r - 1 : Odd(Shr(n, k)), ~Odd(Shr(n, r))
    PROVE  PathNow(path, n + 1, 0)
<1>1. /\ \A k \in 0 .. r : Shr(n + 1, k) = Shr(n, k) + 1
      /\ \A k \in Nat : k > r => Shr(n + 1, k) = Shr(n, k)
  BY Carry
<1>2. ASSUME NEW k \in Levels
      PROVE  /\ job.leaf = NO_SIGN_LEAF => path[k] = None
             /\ Group(k) < Shr(n + 1, k) \/ (Group(k) = Shr(n + 1, k) /\ k < 0) => path[k] = Beside(k)
  <2>0. k \in Nat /\ Group(k) \in Nat /\ Shr(n, k) \in Nat  BY GroupFacts, ShrDef
  <2>1. /\ job.leaf = NO_SIGN_LEAF => path[k] = None
        /\ Group(k) < Shr(n, k) \/ (Group(k) = Shr(n, k) /\ k < r + 1) => path[k] = Beside(k)
    BY DEF PathNow
  <2>2. CASE k <= r
    <3>1. Shr(n + 1, k) = Shr(n, k) + 1  BY <1>1, <2>0, <2>2
    <3> QED  BY <2>0, <2>1, <2>2, <3>1
  <2>3. CASE k > r
    <3>1. Shr(n + 1, k) = Shr(n, k)  BY <1>1, <2>0, <2>3
    <3> QED  BY <2>0, <2>1, <3>1
  <2> QED  BY <2>0, <2>2, <2>3
<1> QED  BY <1>2 DEF PathNow

\* The last leaf completes it.
LEMMA PathLast ==
    ASSUME job \in Jobs, NEW n \in Nat, n < Pow2[Turns], NEW path, PathNow(path, n, H),
           \A k \in 0 .. Turns - 1 : Odd(Shr(n, k))
    PROVE  /\ n = Pow2[Turns] - 1
           /\ \A k \in Levels : path[k] = IF job.leaf = NO_SIGN_LEAF THEN None ELSE Beside(k)
<1>0. Turns \in Nat /\ H \in Nat /\ H >= 3  BY TurnsFacts, JobFacts
<1>1. \A k \in 0 .. Turns : Shr(n, k) = Pow2[Turns - k] - 1  BY <1>0, AllOnes
<1>2. n = Pow2[Turns] - 1
  <2>1. Shr(n, 0) = n /\ Turns - 0 = Turns  BY <1>0, ShrDef
  <2> QED  BY <1>0, <1>1, <2>1
<1>3. ASSUME NEW k \in Levels, job.leaf # NO_SIGN_LEAF PROVE path[k] = Beside(k)
  <2>0. /\ k \in Nat /\ k \in 0 .. H - 1 /\ Group(k) \in Nat /\ Shr(n, k) \in Nat
        /\ Shr(job.leaf, k) \in Nat /\ Shr(job.leaf, k) < Pow2[H - k]
        /\ Sibling(Shr(job.leaf, k)) < Pow2[H - k]
    BY <1>3, GroupFacts, ShrDef, LeafFacts
  <2>1. Group(k) <= Shr(n, k)
    <3>1. CASE job.by # "x8"
      <4>1. Turns = H /\ Group(k) = Sibling(Shr(job.leaf, k))  BY <3>1, GroupFacts DEF Turns
      <4>2. Shr(n, k) = Pow2[H - k] - 1  BY <1>0, <1>1, <2>0, <4>1
      <4>3. Pow2[H - k] \in Nat  BY <1>0, <2>0, Pow2Facts
      <4> QED  BY <2>0, <4>1, <4>2, <4>3
    <3>2. CASE job.by = "x8" /\ k >= H - 3
      <4> DEFINE d == H - k
      <4>1. Group(k) = Shr(job.leaf, k) \div 8  BY <3>2, GroupFacts
      <4>2. d \in 0 .. 3 /\ 3 - d \in Nat  BY <1>0, <2>0, <3>2
      <4>3. Pow2[3] = 8 /\ Pow2[d] <= 8
        <5>1. Pow2[0] = 1 /\ Pow2[1] = 2 /\ Pow2[2] = 4 /\ Pow2[3] = 8
          <6>1. Pow2[0 + 1] = 2 * Pow2[0] /\ Pow2[1 + 1] = 2 * Pow2[1] /\ Pow2[2 + 1] = 2 * Pow2[2]
            BY Pow2Facts
          <6> QED  BY <6>1, Pow2Def
        <5> QED  BY <4>2, <5>1
      <4>4. Shr(job.leaf, k) < Pow2[d]  BY <2>0
      <4>5. Pow2[d] \in Nat  BY <4>2, Pow2Facts
      <4> HIDE DEF d
      <4>6. Shr(job.leaf, k) \div 8 = 0  BY <2>0, <4>3, <4>4, <4>5
      <4> QED  BY <2>0, <4>1, <4>6
    <3>3. CASE job.by = "x8" /\ k < H - 3
      <4> DEFINE d == H - k
      <4>1. Group(k) = Shr(job.leaf, k) \div 8 /\ Turns = H - 3  BY <3>3, GroupFacts DEF Turns
      <4>2. d \in Nat /\ d >= 3 /\ (H - 3) - k = d - 3 /\ k \in 0 .. H - 3  BY <1>0, <2>0, <3>3
      <4>3. Pow2[d] = 8 * Pow2[d - 3] /\ Pow2[d - 3] \in Nat  BY <4>2, Pow2Three
      <4>4. Shr(n, k) = Pow2[d - 3] - 1  BY <1>1, <4>1, <4>2
      <4>5. Shr(job.leaf, k) < Pow2[d]  BY <2>0
      <4> HIDE DEF d
      <4>6. Shr(job.leaf, k) \div 8 < Pow2[d - 3]  BY <2>0, <4>3, <4>5
      <4> QED  BY <2>0, <4>1, <4>3, <4>4, <4>6
    <3> QED  BY <1>0, <2>0, <3>1, <3>2, <3>3
  <2>2. k < H  BY <1>0, <2>0
  <2> QED  BY <2>0, <2>1, <2>2 DEF PathNow
<1>4. ASSUME NEW k \in Levels, job.leaf = NO_SIGN_LEAF PROVE path[k] = None
  BY <1>4 DEF PathNow
<1> QED  BY <1>2, <1>3, <1>4

----------------------------------------------------------------------------
(* treehashx1                                                              *)

\* The root, the path and the opening, when the last leaf has been climbed from.
LEMMA BuiltFacts ==
    ASSUME job \in Jobs, idx \in Nat, idx < Pow2[Turns], OpenedOK, pc = "climb",
           NEW path, PathNow(path, idx, H), \A k \in 0 .. Turns - 1 : Odd(Shr(idx, k))
    PROVE  IF job.leaf = NO_SIGN_LEAF
           THEN opened = None /\ \A k \in Levels : path[k] = None
           ELSE opened = job.leaf + Offset /\ \A k \in Levels : path[k] = Beside(k)
<1>1. /\ idx = Pow2[Turns] - 1
      /\ \A k \in Levels : path[k] = IF job.leaf = NO_SIGN_LEAF THEN None ELSE Beside(k)
  BY PathLast
<1>2. /\ Width * Pow2[Turns] = Pow2[H] /\ Width \in {1, 8} /\ Pow2[Turns] \in Nat /\ Pow2[H] \in Nat
      /\ Pow2[Turns] >= 1
  BY TurnsFacts
<1>3. Made = Pow2[H]
  <2>1. Made = Width * (idx + 1)  BY DEF Made
  <2>2. idx + 1 = Pow2[Turns]  BY <1>1, <1>2
  <2> QED  BY <1>2, <2>1, <2>2
<1>4. opened = IF job.kind = "fors" THEN job.leaf + Offset
               ELSE IF job.leaf < Pow2[H] THEN job.leaf ELSE None
  BY <1>3 DEF OpenedOK
<1>5. /\ job.kind \in {"merkle", "fors"} /\ job.leaf \in Nat
      /\ job.kind = "fors" => job.leaf # NO_SIGN_LEAF
      /\ job.leaf # NO_SIGN_LEAF => job.leaf < Pow2[H]
      /\ NO_SIGN_LEAF \in Nat /\ NO_SIGN_LEAF >= 8 * Pow2[H] - 1
      /\ job.kind = "merkle" => Offset = 0
  BY JobFacts, OffsetFacts
<1>6. Pow2[H] >= 1  BY <1>2
<1>7. ~(NO_SIGN_LEAF < Pow2[H])  BY <1>2, <1>5, <1>6
<1>8. job.leaf + 0 = job.leaf  BY <1>5
<1> QED  BY <1>1, <1>4, <1>5, <1>7, <1>8

LEMMA ClimbX1Inv == ASSUME IInv, ClimbX1 PROVE IInv'
<1>0. /\ TypeOK /\ Counting /\ Loops /\ PathOK /\ OpenedOK
      /\ pc = "climb" /\ job.by = "x1" /\ UNCHANGED <<job, pile, opened, checking>>
  BY DEF IInv, ClimbX1
<1>1. /\ job \in Jobs /\ LoopX1 /\ h \in 0 .. H /\ idx \in 0 .. Pow2[H] - 1
      /\ current \in [Lanes -> Nodes \cup {Junk}]
      /\ stack \in [Levels -> [Lanes -> Nodes \cup {Junk}]]
      /\ auth_path \in [Levels -> Nodes \cup {Junk, None}]
      /\ pile = <<>>
  BY <1>0 DEF TypeOK, Loops
<1>2. /\ H \in Nat /\ H >= 3 /\ Turns = H /\ Pow2[H] \in Nat /\ idx \in Nat /\ idx < Pow2[H]
      /\ h \in Nat /\ Offset \in Nat
  <2>1. H \in Nat /\ H >= 3 /\ Pow2[H] \in Nat /\ Offset \in Nat  BY <1>1, JobFacts, TurnsFacts, OffsetFacts
  <2> QED  BY <1>0, <1>1, <2>1 DEF Turns
<1>3. /\ current[0] = Node(h, Shr(idx, h) + Shr(Offset, h))
      /\ \A k \in 0 .. h - 1 : Odd(Shr(idx, k))
      /\ \A k \in Levels : Odd(Shr(idx, k)) /\ k >= h =>
            stack[k][0] = Node(k, Shr(idx, k) - 1 + Shr(Offset, k))
  BY <1>0, <1>1 DEF LoopX1, Above
<1>4. PathNow(auth_path, idx, h)  BY <1>0 DEF PathOK, Reached
<1>5. /\ H' = H /\ Levels' = Levels /\ Offset' = Offset /\ Width' = Width /\ Turns' = Turns
      /\ \A k : Group(k)' = Group(k) /\ Beside(k)' = Beside(k)
  <2>1. H' = H /\ Levels' = Levels /\ Offset' = Offset /\ Width' = Width /\ Turns' = Turns
    BY <1>0 DEF H, Levels, Offset, Width, Turns
  <2> QED  BY <1>0, <2>1 DEF Group, Beside
<1>6. CASE h = H /\ Built(current[0])
  <2>1. /\ root' = current[0] /\ pc' = "built"
        /\ UNCHANGED <<idx, h, current, stack, left_adj, prev_left_adj, auth_path>>
    BY <1>6 DEF Built
  <2>2. root' = Node(H, job.tree)
    <3>1. Shr(idx, H) = 0  BY <1>2, ShrZero
    <3>2. Shr(Offset, H) = job.tree /\ job.tree \in Nat  BY <1>1, OffsetFacts, JobFacts
    <3>3. 0 + job.tree = job.tree  BY <3>2
    <3> QED  BY <1>3, <1>6, <2>1, <3>1, <3>2, <3>3
  <2>3. IF job.leaf = NO_SIGN_LEAF
        THEN opened = None /\ \A k \in Levels : auth_path[k] = None
        ELSE opened = job.leaf + Offset /\ \A k \in Levels : auth_path[k] = Beside(k)
    BY <1>0, <1>1, <1>2, <1>3, <1>4, <1>6, BuiltFacts
  <2>4. BuildsTheTree'  BY <1>0, <1>5, <2>1, <2>2, <2>3 DEF BuildsTheTree, Beside
  <2>5. TypeOK'
    <3>1. root' \in Nodes \cup {Junk, None}  BY <1>1, <2>1 DEF Lanes
    <3> QED  BY <1>0, <1>5, <2>1, <3>1 DEF TypeOK, checking
  <2>6. Counting' /\ Loops' /\ PathOK' /\ OpenedOK' /\ ClimbOK' /\ VerifierAgrees'
    BY <1>0, <1>1, <1>5, <2>1
       DEF Counting, Loops, LoopX1, PathOK, OpenedOK, ClimbOK, VerifierAgrees
  <2> QED  BY <2>4, <2>5, <2>6 DEF IInv
<1>7. ASSUME h < H,
             auth_path' = IF Shr(idx, h) = Sibling(Shr(job.leaf, h))
                          THEN [auth_path EXCEPT ![h] = current[0]] ELSE auth_path
      PROVE  /\ PathNow(auth_path', idx, h + 1)
             /\ auth_path' \in [Levels -> Nodes \cup {Junk, None}]
  <2>1. h \in Levels /\ 0 \in Lanes  BY <1>2, <1>7 DEF Levels, Lanes
  <2>2. Group(h) = Sibling(Shr(job.leaf, h))  BY <1>0, <1>1, <2>1, GroupFacts
  <2>3. auth_path' \in [Levels -> Nodes \cup {Junk, None}]  BY <1>1, <1>7, <2>1
  <2>4. Group(h) = Shr(idx, h) => auth_path'[h] = Beside(h)
    BY <1>1, <1>3, <1>7, <2>1, <2>2 DEF Beside
  <2>5. Group(h) # Shr(idx, h) => auth_path'[h] = auth_path[h]  BY <1>7, <2>2
  <2>6. \A k \in Levels : k # h => auth_path'[k] = auth_path[k]  BY <1>1, <1>7, <2>1
  <2>7. PathNow(auth_path', idx, h + 1)
    BY ONLY <1>1, <1>2, <1>4, <2>1, <2>4, <2>5, <2>6, PathTurn
  <2> QED  BY <2>3, <2>7
<1>8. CASE /\ h < H /\ StopsX1 /\ Push /\ UNCHANGED <<root, left_adj, prev_left_adj>>
           /\ auth_path' = IF Shr(idx, h) = Sibling(Shr(job.leaf, h))
                           THEN [auth_path EXCEPT ![h] = current[0]] ELSE auth_path
  <2>1. /\ stack' = [stack EXCEPT ![h] = current] /\ idx' = idx + 1 /\ pc' = "leaf"
        /\ UNCHANGED <<h, current>> /\ ~Odd(Shr(idx, h)) /\ idx < Pow2[H] - 1
    BY <1>8 DEF Push, StopsX1
  <2>2. h \in Levels /\ 0 \in Lanes  BY <1>2, <1>8 DEF Levels, Lanes
  <2>3. /\ \A k \in 0 .. h : Shr(idx + 1, k) = Shr(idx, k) + 1
        /\ \A k \in Nat : k > h => Shr(idx + 1, k) = Shr(idx, k)
    BY ONLY <1>2, <1>3, <2>1, Carry
  <2>4. LoopX1'
    <3>1. ASSUME NEW k \in Levels, Odd(Shr(idx + 1, k))
          PROVE  stack'[k][0] = Node(k, Shr(idx + 1, k) - 1 + Shr(Offset, k))
      <4>0. k \in Nat /\ Shr(idx, k) \in Nat  BY <1>1, <1>2, GroupFacts, ShrDef
      <4>1. CASE k < h
        <5>1. Shr(idx + 1, k) = Shr(idx, k) + 1 /\ Odd(Shr(idx, k))
          BY <1>2, <1>3, <2>3, <4>0, <4>1
        <5> QED  BY <3>1, <4>0, <5>1 DEF Odd
      <4>2. CASE k = h
        <5>1. Shr(idx + 1, k) - 1 = Shr(idx, k)  BY <1>2, <2>3, <4>0, <4>2
        <5> QED  BY <1>1, <1>3, <2>1, <2>2, <4>2, <5>1
      <4>3. CASE k > h
        <5>1. Shr(idx + 1, k) = Shr(idx, k)  BY <2>3, <4>0, <4>3
        <5>2. stack'[k] = stack[k]  BY <1>1, <1>2, <2>1, <4>0, <4>3
        <5>3. k >= h  BY <1>2, <4>0, <4>3
        <5> QED  BY <1>3, <3>1, <5>1, <5>2, <5>3
      <4> QED  BY <1>2, <4>0, <4>1, <4>2, <4>3
    <3> QED  BY <1>5, <2>1, <3>1 DEF LoopX1
  <2>5. Loops'  BY <1>0, <1>1, <2>4 DEF Loops
  <2>6. PathNow(auth_path', idx + 1, 0)
    <3>1. PathNow(auth_path', idx, h + 1)  BY <1>7, <1>8
    <3> QED  BY ONLY <1>1, <1>2, <1>3, <2>1, <3>1, PathPush
  <2>7. PathOK'
    <3>1. Reached' = 0  BY <2>1 DEF Reached
    <3>2. PathNow(auth_path, idx, Reached)'  BY <1>0, <1>5, <2>1, <2>6, <3>1 DEF PathNow
    <3> QED  BY <2>1, <3>2 DEF PathOK
  <2>8. Counting'  BY <1>2, <1>5, <2>1 DEF Counting
  <2>9. OpenedOK'
    <3>1. Made' = Made  BY <1>0, <1>5, <2>1 DEF Made
    <3> QED  BY <1>0, <1>5, <2>1, <3>1 DEF OpenedOK
  <2>10. TypeOK'
    <3>1. stack' \in [Levels -> [Lanes -> Nodes \cup {Junk}]]  BY <1>1, <2>1, <2>2
    <3>2. auth_path' \in [Levels -> Nodes \cup {Junk, None}]  BY <1>7, <1>8
    <3>3. idx' \in 0 .. Pow2[H] - 1  BY <1>2, <2>1
    <3> QED  BY <1>0, <1>5, <1>8, <2>1, <3>1, <3>2, <3>3 DEF TypeOK, checking
  <2>11. BuildsTheTree' /\ ClimbOK' /\ VerifierAgrees'
    BY <2>1 DEF BuildsTheTree, ClimbOK, VerifierAgrees
  <2> QED  BY <2>5, <2>7, <2>8, <2>9, <2>10, <2>11 DEF IInv
<1>9. CASE /\ h < H /\ ~StopsX1
           /\ auth_path' = IF Shr(idx, h) = Sibling(Shr(job.leaf, h))
                           THEN [auth_path EXCEPT ![h] = current[0]] ELSE auth_path
           /\ current' = [current EXCEPT ![0] =
                      Thash(stack[h][0], current[0], h + 1,
                            Shr(idx, h) \div 2 + Shr(Offset, h + 1))]
           /\ h' = h + 1 /\ UNCHANGED <<pc, idx, stack>>
           /\ UNCHANGED <<root, left_adj, prev_left_adj>>
  <2>1. h \in Levels /\ 0 \in Lanes /\ h \in 0 .. H - 1  BY <1>2, <1>9 DEF Levels, Lanes
  <2>2. Odd(Shr(idx, h))
    <3>1. ASSUME ~Odd(Shr(idx, h)) PROVE FALSE
      <4>1. idx = Pow2[H] - 1  BY <1>2, <1>9, <3>1 DEF StopsX1
      <4>2. h \in 0 .. H /\ h < H  BY <1>2, <1>9
      <4> QED  BY <1>2, <3>1, <4>1, <4>2, LastOnes
    <3> QED  BY <3>1
  <2> DEFINE x == Shr(idx, h)
             y == Shr(idx, h + 1)
             o == Shr(Offset, h + 1)
             z == y + o
  <2>3. x \in Nat /\ y = x \div 2 /\ x = 2 * y + 1 /\ y \in Nat
    <3>1. x \in Nat /\ y = x \div 2 /\ Odd(x)  BY <1>2, <2>2, ShrDef
    <3> HIDE DEF x, y
    <3> QED  BY <3>1, Parity
  <2>4. Shr(Offset, h) = 2 * o /\ o \in Nat
    <3>1. h + 1 \in 0 .. H  BY <1>2, <1>9
    <3> QED  BY <1>1, <2>1, <3>1, OffsetFacts
  <2>5. stack[h][0] = Node(h, x - 1 + Shr(Offset, h))
    <3>1. h >= h  BY <1>2
    <3> QED  BY <1>3, <2>1, <2>2, <3>1
  <2>6. current[0] = Node(h, x + Shr(Offset, h))  BY <1>3
  <2>7. current' = [current EXCEPT ![0] = Thash(stack[h][0], current[0], h + 1, z)]
    BY <1>9, <2>3
  <2> HIDE DEF x, y, o
  <2>8. x - 1 + Shr(Offset, h) = 2 * z /\ x + Shr(Offset, h) = 2 * z + 1 /\ z \in Nat
    BY <2>3, <2>4
  <2> HIDE DEF z
  <2>9. Thash(stack[h][0], current[0], h + 1, z) = Node(h + 1, z)
    BY <1>2, <2>5, <2>6, <2>8, ThashNode
  <2>10. current'[0] = Node(h + 1, z) /\ current' \in [Lanes -> Nodes \cup {Junk}]
    <3>1. Node(h + 1, z) \in Nodes  BY <1>2, <2>8, NodeType
    <3> QED  BY <1>1, <2>1, <2>7, <2>9, <3>1
  <2>11. LoopX1'
    <3>1. current'[0] = Above(h)'
      BY <1>5, <1>9, <2>10 DEF Above, z, y, o
    <3>2. \A k \in 0 .. h' - 1 : Odd(Shr(idx, k))
      <4>1. \A k \in 0 .. h' - 1 : k \in 0 .. h - 1 \/ k = h  BY <1>2, <1>9
      <4> QED  BY <1>3, <2>2, <4>1
    <3>3. \A k \in Levels : k >= h + 1 => k >= h
      <4>1. \A k \in Levels : k \in Nat  BY <1>2 DEF Levels
      <4> QED  BY <1>2, <4>1
    <3> QED  BY <1>0, <1>3, <1>5, <1>9, <3>1, <3>2, <3>3 DEF LoopX1
  <2>12. Loops'  BY <1>0, <1>1, <2>11 DEF Loops
  <2>13. PathOK'
    <3>1. PathNow(auth_path', idx, h + 1)  BY <1>7, <1>9
    <3>2. Reached' = h + 1  BY <1>0, <1>9 DEF Reached
    <3>3. PathNow(auth_path, idx, Reached)'  BY <1>0, <1>5, <1>9, <3>1, <3>2 DEF PathNow
    <3> QED  BY <1>0, <1>9, <3>3 DEF PathOK
  <2>14. TypeOK'
    <3>1. auth_path' \in [Levels -> Nodes \cup {Junk, None}]  BY <1>7, <1>9
    <3>2. h' \in 0 .. H  BY <1>2, <1>9
    <3> QED  BY <1>0, <1>5, <1>9, <2>10, <3>1, <3>2 DEF TypeOK, checking
  <2>15. Counting' /\ OpenedOK'
    <3>1. Made' = Made  BY <1>0, <1>5, <1>9 DEF Made
    <3> QED  BY <1>0, <1>5, <1>9, <3>1 DEF Counting, OpenedOK
  <2>16. BuildsTheTree' /\ ClimbOK' /\ VerifierAgrees'
    BY <1>0, <1>9 DEF BuildsTheTree, ClimbOK, VerifierAgrees
  <2> QED  BY <2>12, <2>13, <2>14, <2>15, <2>16 DEF IInv
<1> QED  BY <1>6, <1>8, <1>9 DEF ClimbX1

----------------------------------------------------------------------------
(* treehashx8                                                              *)

\* The top three levels have at most eight nodes together in hand.
LEMMA TopLevels ==
    ASSUME job \in Jobs, NEW k \in Levels, k >= H - 3
    PROVE  Pow2[H - k] = 2 * Pow2[H - k - 1] /\ Pow2[H - k - 1] \in {1, 2, 4}
<1>1. H \in Nat /\ H >= 3 /\ k \in 0 .. H - 1  BY JobFacts DEF Levels
<1>2. H - k - 1 = H - (k + 1) /\ H - k - 1 \in {0, 1, 2}  BY <1>1
<1>3. Pow2[0] = 1 /\ Pow2[1] = 2 /\ Pow2[2] = 4
  <2>1. Pow2[0 + 1] = 2 * Pow2[0] /\ Pow2[1 + 1] = 2 * Pow2[1]  BY Pow2Facts
  <2> QED  BY <2>1, Pow2Def
<1>4. Pow2[H - k] = 2 * Pow2[H - (k + 1)]  BY <1>1, Pow2Down
<1> QED  BY <1>2, <1>3, <1>4

\* The lane that is written to the path is the sibling.
LEMMA PathLane ==
    ASSUME IInv, pc = "climb", job.by = "x8", h < H, job.leaf # NO_SIGN_LEAF,
           Shr(idx, h) = Shr(job.leaf, h) \div 8
    PROVE  current[Sibling(Shr(job.leaf, h) % 8) + PrevLeftAdj] = Beside(h)
<1>0. job \in Jobs /\ h \in 0 .. H /\ LoopX8  BY DEF IInv, TypeOK, Loops
<1>1. H \in Nat /\ H >= 3 /\ h \in Levels /\ h \in Nat /\ h \in 0 .. H  BY <1>0, JobFacts DEF Levels
<1> DEFINE x == Shr(job.leaf, h)
           lane == Sibling(x % 8) + PrevLeftAdj
<1>2. x \in Nat /\ x < Pow2[H - h] /\ Sibling(x) < Pow2[H - h] /\ Sibling(x) \in Nat
  BY <1>0, <1>1, LeafFacts
<1>3. Shr(Offset, h) \in Nat  BY <1>0, <1>1, OffsetFacts
<1>4. CASE h < H - 3
  <2>1. PrevLeftAdj = 0
    <3>1. prev_left_adj = 0  BY <1>0, <1>4 DEF LoopX8
    <3>2. ~(h >= H - 3)  BY <1>1, <1>4
    <3> QED  BY <3>1, <3>2 DEF PrevLeftAdj
  <2> HIDE DEF x
  <2>2. Sibling(x % 8) \in 0 .. 7 /\ 8 * (x \div 8) + Sibling(x % 8) = Sibling(x)
    BY <1>2 DEF Sibling, Odd
  <2>3. lane \in Lanes /\ 8 * (x \div 8) + lane = Sibling(x)  BY <2>1, <2>2 DEF Lanes
  <2> HIDE DEF lane
  <2>4. h <= H - 3  BY <1>1, <1>4
  <2>5. current[lane] = Node(h, 8 * Shr(idx, h) + lane + Shr(Offset, h))
    BY <1>0, <2>3, <2>4 DEF LoopX8
  <2>6. current[lane] = Beside(h)  BY <2>3, <2>5 DEF Beside, x
  <2> QED  BY <2>6 DEF lane, x
<1>5. CASE h >= H - 3
  <2> DEFINE P == Pow2[H - h - 1]
  <2>1. Pow2[H - h] = 2 * P /\ P \in {1, 2, 4}  BY <1>0, <1>1, <1>5, TopLevels
  <2>2. PrevLeftAdj = left_adj /\ left_adj = 8 - 2 * P
    BY <1>0, <1>5, <2>1 DEF PrevLeftAdj, LoopX8
  <2> HIDE DEF P
  <2>3. x < 8 /\ x % 8 = x  
    <3> HIDE DEF x
    <3> QED  BY <1>2, <2>1
  <2>4. lane = Sibling(x) + left_adj  BY <2>2, <2>3
  <2>5. lane \in Lanes /\ lane >= left_adj /\ lane - left_adj = Sibling(x)
    <3> HIDE DEF lane, x
    <3> QED  BY <1>2, <2>1, <2>2, <2>4 DEF Lanes
  <2> HIDE DEF lane
  <2>6. current[lane] = Node(h, lane - left_adj + Shr(Offset, h))
    BY <1>0, <1>5, <2>5 DEF LoopX8
  <2>7. current[lane] = Beside(h)  BY <2>5, <2>6 DEF Beside, x
  <2> QED  BY <2>7 DEF lane, x
<1> QED  BY <1>1, <1>4, <1>5

\* Hashing eight pairs: every lane gives a node or junk; below the top three
\* levels all are real, in them those from LeftAdj on.
LEMMA LanesTyped ==
    ASSUME job \in Jobs, idx \in Nat, h \in 0 .. H - 1, LeftAdj \in Lanes, NEW l, NEW r
    PROVE  ThashX8(l, r) \in [Lanes -> Nodes \cup {Junk}]
<1>1. H \in Nat /\ h \in Nat /\ h + 1 \in 0 .. H /\ h + 1 \in Nat  BY JobFacts
<1>2. Shr(idx, h + 1) \in Nat /\ Shr(Offset, h + 1) \in Nat /\ LeftAdj \in 0 .. 7
  BY <1>1, OffsetFacts, ShrDef DEF Lanes
<1>3. UINT32_MODULUS \in Nat /\ UINT32_MODULUS > 0
  <2>1. 8 * Pow2[H] <= UINT32_MODULUS /\ UINT32_MODULUS \in Nat  BY JobFacts, TreeAssumption
  <2>2. Pow2[H] \in Nat /\ Pow2[H] >= 1  BY <1>1, Pow2Facts
  <2> QED  BY <2>1, <2>2
<1> DEFINE T(j) == (8 * Shr(idx, h + 1) + j - LeftAdj + Shr(Offset, h + 1)) % UINT32_MODULUS
<1>4. ASSUME NEW j \in Lanes PROVE T(j) \in Nat
  <2>1. 8 * Shr(idx, h + 1) + j - LeftAdj + Shr(Offset, h + 1) \in Int  BY <1>2 DEF Lanes
  <2> QED  BY <1>3, <2>1
<1> HIDE DEF T
<1>5. ASSUME NEW j \in Lanes, NEW a, NEW b PROVE Thash(a, b, h + 1, T(j)) \in Nodes \cup {Junk}
  BY <1>1, <1>4, ThashType
<1>6. ThashX8(l, r) = [j \in Lanes |-> Thash((IF j < 4 THEN l ELSE r)[2 * (j % 4)],
                                             (IF j < 4 THEN l ELSE r)[2 * (j % 4) + 1], h + 1, T(j))]
  BY DEF ThashX8, T
<1> QED  BY <1>5, <1>6

LEMMA LanesBelow ==
    ASSUME IInv, pc = "climb", job.by = "x8", h < H - 3, ~StopsX8
    PROVE  /\ Odd(Shr(idx, h))
           /\ \A j \in Lanes : ThashX8(stack[h], current)[j] =
                 Node(h + 1, 8 * Shr(idx, h + 1) + j + Shr(Offset, h + 1))
<1>0. job \in Jobs /\ h \in 0 .. H /\ LoopX8 /\ idx \in 0 .. Pow2[H] - 1 /\ Counting
  BY DEF IInv, TypeOK, Loops
<1>1. /\ H \in Nat /\ H >= 3 /\ h \in Nat /\ h \in 0 .. H - 1 /\ h + 1 \in 0 .. H /\ h + 1 \in Nat
      /\ H - 3 \in Nat /\ h + 1 \in 0 .. H - 3 /\ h \in 0 .. H - 4
  <2>1. H \in Nat /\ H >= 3  BY <1>0, JobFacts
  <2> QED  BY <1>0, <2>1
<1>2. idx \in Nat /\ idx < Pow2[H - 3] /\ Pow2[H - 3] \in Nat
  <2>1. Pow2[H] \in Nat /\ Pow2[H - 3] \in Nat  BY <1>1, Pow2Facts
  <2> QED  BY <1>0, <2>1 DEF Counting, Turns
<1> DEFINE x == Shr(idx, h)
           y == Shr(idx, h + 1)
           o == Shr(Offset, h + 1)
<1>3. Odd(x)
  <2>1. ASSUME ~Odd(x) PROVE FALSE
    <3>1. idx = Pow2[H - 3] - 1  BY <1>2, <2>1 DEF StopsX8
    <3>2. h \in 0 .. H - 3  BY <1>1
    <3> QED  BY <1>1, <2>1, <3>1, <3>2, LastOnes
  <2> QED  BY <2>1
<1>4. x = 2 * y + 1 /\ y \in Nat
  <2>1. x \in Nat /\ y = x \div 2  BY <1>1, <1>2, ShrDef
  <2> HIDE DEF x, y
  <2> QED  BY <1>3, <2>1, Parity
<1>5. Shr(Offset, h) = 2 * o /\ o \in Nat  BY <1>0, <1>1, OffsetFacts
<1>6. LeftAdj = 0
  <2>1. left_adj = 0  BY <1>0 DEF LoopX8
  <2>2. ~(h >= H - 3)  BY <1>1
  <2> QED  BY <2>1, <2>2 DEF LeftAdj
<1>7. /\ \A j \in Lanes : stack[h][j] = Node(h, 8 * (x - 1) + j + 2 * o)
      /\ \A j \in Lanes : current[j] = Node(h, 8 * x + j + 2 * o)
  <2>1. h >= h /\ h <= H - 3  BY <1>1
  <2> QED  BY <1>0, <1>1, <1>3, <1>5, <2>1 DEF LoopX8
<1>8. ASSUME NEW j \in Lanes
      PROVE  ThashX8(stack[h], current)[j] = Node(h + 1, 8 * y + j + o)
  <2> DEFINE z == 8 * y + j + o
             k == 2 * (j % 4)
             from == IF j < 4 THEN stack[h] ELSE current
             t == (8 * y + j - LeftAdj + o) % UINT32_MODULUS
  <2>1. ThashX8(stack[h], current)[j] = Thash(from[k], from[k + 1], h + 1, t)
    BY DEF ThashX8
  <2>2. t = z
    <3>1. 8 * y + j < Pow2[H - (h + 1)] /\ 8 * y + j \in Nat
      <4> DEFINE d == H - (h + 1)
      <4>1. d \in Nat /\ d >= 3 /\ (H - 3) - (h + 1) = d - 3  BY <1>1
      <4>2. y < Pow2[d - 3]  BY <1>1, <1>2, <4>1, ShrBound
      <4>3. Pow2[d] = 8 * Pow2[d - 3] /\ Pow2[d - 3] \in Nat  BY <4>1, Pow2Three
      <4> HIDE DEF y, d
      <4>4. 8 * y + j < Pow2[d] /\ 8 * y + j \in Nat  BY <1>4, <4>2, <4>3 DEF Lanes
      <4> QED  BY <4>4 DEF d
    <3> DEFINE q == 8 * y + j
    <3>2. j - LeftAdj = j /\ z = q + o  BY <1>6 DEF Lanes
    <3>3. t = (q + o) % UINT32_MODULUS  BY <3>2
    <3> HIDE DEF q, t, z
    <3>4. (q + o) % UINT32_MODULUS = q + o  BY <1>0, <1>1, <3>1, IndexFits DEF q
    <3> QED  BY <3>2, <3>3, <3>4
  <2> HIDE DEF t
  <2>3. from[k] = Node(h, 2 * z) /\ from[k + 1] = Node(h, 2 * z + 1)
    <3>1. j \in 0 .. 7 /\ k \in Lanes /\ k + 1 \in Lanes  BY DEF Lanes
    <3>2. CASE j < 4
      <4>1. k = 2 * j  BY <3>1, <3>2
      <4>2. stack[h][k] = Node(h, 8 * (x - 1) + k + 2 * o)
            /\ stack[h][k + 1] = Node(h, 8 * (x - 1) + (k + 1) + 2 * o)
        BY <1>7, <3>1
      <4> HIDE DEF x, y, o, k
      <4>3. 8 * (x - 1) + k + 2 * o = 2 * z /\ 8 * (x - 1) + (k + 1) + 2 * o = 2 * z + 1
        BY <1>4, <1>5, <3>1, <4>1
      <4> QED  BY <3>2, <4>2, <4>3
    <3>3. CASE ~(j < 4)
      <4>1. k = 2 * j - 8  BY <3>1, <3>3
      <4>2. current[k] = Node(h, 8 * x + k + 2 * o)
            /\ current[k + 1] = Node(h, 8 * x + (k + 1) + 2 * o)
        BY <1>7, <3>1
      <4> HIDE DEF x, y, o, k
      <4>3. 8 * x + k + 2 * o = 2 * z /\ 8 * x + (k + 1) + 2 * o = 2 * z + 1
        BY <1>4, <1>5, <3>1, <4>1
      <4> QED  BY <3>3, <4>2, <4>3
    <3> QED  BY <3>2, <3>3
  <2> HIDE DEF z, from, k
  <2>4. Thash(from[k], from[k + 1], h + 1, z) = Node(h + 1, z)  BY <1>1, <2>3, ThashNode
  <2> QED  BY <2>1, <2>2, <2>4 DEF z
<1> QED  BY <1>3, <1>8

LEMMA LanesTop ==
    ASSUME IInv, pc = "climb", job.by = "x8", h >= H - 3, h < H
    PROVE  /\ LeftAdj = 8 - Pow2[H - (h + 1)] /\ LeftAdj \in 4 .. 7
           /\ \A j \in Lanes : j >= LeftAdj => ThashX8(stack[h], current)[j] =
                 Node(h + 1, j - LeftAdj + Shr(Offset, h + 1))
<1>0. job \in Jobs /\ h \in 0 .. H /\ LoopX8 /\ idx \in 0 .. Pow2[H] - 1 /\ Counting
  BY DEF IInv, TypeOK, Loops
<1>1. /\ H \in Nat /\ H >= 3 /\ h \in Nat /\ h \in 0 .. H - 1 /\ h + 1 \in 0 .. H /\ h + 1 \in Nat
      /\ H - 3 \in Nat /\ h \in Levels /\ h + 1 >= H - 3 /\ H - h - 1 = H - (h + 1)
  <2>1. H \in Nat /\ H >= 3  BY <1>0, JobFacts
  <2> QED  BY <1>0, <2>1 DEF Levels
<1> DEFINE P == Pow2[H - (h + 1)]
           o == Shr(Offset, h + 1)
<1>2. Pow2[H - h] = 2 * P /\ P \in {1, 2, 4}  BY <1>0, <1>1, TopLevels
<1>3. LeftAdj = 8 - P  BY <1>1 DEF LeftAdj
<1>4. left_adj = 8 - 2 * P /\ \A j \in Lanes : j >= left_adj =>
                      current[j] = Node(h, j - left_adj + Shr(Offset, h))
  BY <1>0, <1>2 DEF LoopX8
<1>5. Shr(Offset, h) = 2 * o /\ o \in Nat  BY <1>0, <1>1, OffsetFacts
<1>6. Shr(idx, h + 1) = 0
  <2>1. idx \in Nat /\ idx < Pow2[H - 3]
    <3>1. Pow2[H] \in Nat  BY <1>1, Pow2Facts
    <3> QED  BY <1>0, <3>1 DEF Counting, Turns
  <2> QED  BY <1>1, <2>1, ShrZero
<1>7. ASSUME NEW j \in Lanes, j >= LeftAdj
      PROVE  ThashX8(stack[h], current)[j] = Node(h + 1, j - LeftAdj + o)
  <2> DEFINE z == j - LeftAdj + o
             k == 2 * (j % 4)
             q == 8 * Shr(idx, h + 1) + j - LeftAdj
  <2>1. j \in 0 .. 7 /\ ~(j < 4) /\ k = 2 * j - 8 /\ k \in Lanes /\ k + 1 \in Lanes
    <3>1. j \in 0 .. 7  BY DEF Lanes
    <3>2. j >= 4  BY <1>2, <1>3, <1>7, <3>1
    <3> QED  BY <3>1, <3>2 DEF Lanes
  <2>2. ThashX8(stack[h], current)[j] =
           Thash(current[k], current[k + 1], h + 1, (q + o) % UINT32_MODULUS)
    BY <2>1 DEF ThashX8
  <2>3. q = j - LeftAdj /\ q \in Nat /\ q < P
    <3>1. LeftAdj \in Nat /\ q = 8 * 0 + j - LeftAdj  
      <4> HIDE DEF P
      <4> QED  BY <1>2, <1>3, <1>6
    <3> HIDE DEF P, q
    <3> QED  BY <1>2, <1>3, <1>7, <2>1, <3>1
  <2> HIDE DEF q
  <2>4. (q + o) % UINT32_MODULUS = q + o  BY <1>0, <1>1, <2>3, IndexFits
  <2>5. q + o = z  BY <2>3
  <2>6. k >= left_adj /\ k + 1 >= left_adj
    <3> HIDE DEF P, k
    <3> QED  BY <1>2, <1>3, <1>4, <1>7, <2>1
  <2>7. current[k] = Node(h, k - left_adj + 2 * o) /\ current[k + 1] = Node(h, (k + 1) - left_adj + 2 * o)
    BY <1>4, <1>5, <2>1, <2>6
  <2>8. k - left_adj + 2 * o = 2 * z /\ (k + 1) - left_adj + 2 * o = 2 * z + 1
    <3> HIDE DEF P, k, o
    <3> QED  BY <1>2, <1>3, <1>4, <1>5, <2>1
  <2> HIDE DEF z, k
  <2>9. Thash(current[k], current[k + 1], h + 1, z) = Node(h + 1, z)
    BY <1>1, <2>7, <2>8, ThashNode
  <2> QED  BY <2>2, <2>4, <2>5, <2>9 DEF z
<1>8. LeftAdj \in 4 .. 7  
  <2> HIDE DEF P
  <2> QED  BY <1>2, <1>3
<1> QED  BY <1>3, <1>7, <1>8

LEMMA ClimbX8Inv == ASSUME IInv, ClimbX8 PROVE IInv'
<1>0. /\ TypeOK /\ Counting /\ Loops /\ PathOK /\ OpenedOK
      /\ pc = "climb" /\ job.by = "x8" /\ UNCHANGED <<job, pile, opened, checking>>
  BY DEF IInv, ClimbX8
<1>1. /\ job \in Jobs /\ LoopX8 /\ h \in 0 .. H /\ idx \in 0 .. Pow2[H] - 1
      /\ current \in [Lanes -> Nodes \cup {Junk}]
      /\ stack \in [Levels -> [Lanes -> Nodes \cup {Junk}]]
      /\ auth_path \in [Levels -> Nodes \cup {Junk, None}]
      /\ pile = <<>> /\ left_adj \in Lanes /\ prev_left_adj \in Lanes
  BY <1>0 DEF TypeOK, Loops
<1>2. /\ H \in Nat /\ H >= 3 /\ Turns = H - 3 /\ H - 3 \in Nat /\ Pow2[H] \in Nat
      /\ Pow2[H - 3] \in Nat /\ idx \in Nat /\ idx < Pow2[H - 3] /\ h \in Nat /\ Offset \in Nat
  <2>1. H \in Nat /\ H >= 3 /\ Pow2[H] \in Nat /\ Offset \in Nat  BY <1>1, JobFacts, TurnsFacts, OffsetFacts
  <2>2. Turns = H - 3  BY <1>0 DEF Turns
  <2>3. H - 3 \in Nat /\ Pow2[H - 3] \in Nat  BY <2>1, Pow2Three
  <2> QED  BY <1>0, <1>1, <2>1, <2>2, <2>3 DEF Counting
<1>3. \A k \in 0 .. h - 1 : k < H - 3 => Odd(Shr(idx, k))  BY <1>0, <1>1 DEF LoopX8
<1>4. PathNow(auth_path, idx, h)  BY <1>0 DEF PathOK, Reached
<1>5. /\ H' = H /\ Levels' = Levels /\ Offset' = Offset /\ Width' = Width /\ Turns' = Turns
      /\ \A k : Group(k)' = Group(k) /\ Beside(k)' = Beside(k)
  <2>1. H' = H /\ Levels' = Levels /\ Offset' = Offset /\ Width' = Width /\ Turns' = Turns
    BY <1>0 DEF H, Levels, Offset, Width, Turns
  <2> QED  BY <1>0, <2>1 DEF Group, Beside
<1>6. CASE h = H /\ Built(current[7])
  <2>1. /\ root' = current[7] /\ pc' = "built"
        /\ UNCHANGED <<idx, h, current, stack, left_adj, prev_left_adj, auth_path>>
    BY <1>6 DEF Built
  <2>2. root' = Node(H, job.tree)
    <3>1. h >= H - 3 /\ H - h = 0  BY <1>2, <1>6
    <3>2. left_adj = 7  
      <4>1. left_adj = 8 - Pow2[H - h]  BY <1>0, <1>1, <3>1 DEF LoopX8
      <4> QED  BY <3>1, <4>1, Pow2Def
    <3>3. 7 \in Lanes /\ 7 >= left_adj  BY <3>2 DEF Lanes
    <3>4. current[7] = Node(h, 7 - left_adj + Shr(Offset, h))  BY <1>0, <1>1, <3>1, <3>3 DEF LoopX8
    <3>5. Shr(Offset, H) = job.tree /\ job.tree \in Nat  BY <1>1, OffsetFacts, JobFacts
    <3>6. 7 - left_adj + job.tree = job.tree  BY <3>2, <3>5
    <3> QED  BY <1>6, <2>1, <3>4, <3>5, <3>6
  <2>3. IF job.leaf = NO_SIGN_LEAF
        THEN opened = None /\ \A k \in Levels : auth_path[k] = None
        ELSE opened = job.leaf + Offset /\ \A k \in Levels : auth_path[k] = Beside(k)
    <3>1. \A k \in 0 .. Turns - 1 : Odd(Shr(idx, k))
      <4>1. \A k \in 0 .. Turns - 1 : k \in 0 .. h - 1 /\ k < H - 3  BY <1>2, <1>6
      <4> QED  BY <1>3, <4>1
    <3>2. idx < Pow2[Turns] /\ PathNow(auth_path, idx, H)  BY <1>2, <1>4, <1>6
    <3> QED  BY ONLY <1>0, <1>1, <1>2, <3>1, <3>2, BuiltFacts
  <2>4. BuildsTheTree'  BY <1>0, <1>5, <2>1, <2>2, <2>3 DEF BuildsTheTree, Beside
  <2>5. TypeOK'
    <3>1. root' \in Nodes \cup {Junk, None}  BY <1>1, <2>1 DEF Lanes
    <3> QED  BY <1>0, <1>5, <2>1, <3>1 DEF TypeOK, checking
  <2>6. Counting' /\ Loops' /\ PathOK' /\ OpenedOK' /\ ClimbOK' /\ VerifierAgrees'
    BY <1>0, <1>1, <1>5, <2>1
       DEF Counting, Loops, LoopX8, PathOK, OpenedOK, ClimbOK, VerifierAgrees
  <2> QED  BY <2>4, <2>5, <2>6 DEF IInv
<1>7. ASSUME h < H,
             auth_path' = IF Shr(idx, h) = Shr(job.leaf, h) \div 8
                          THEN [auth_path EXCEPT ![h] =
                                  current[Sibling(Shr(job.leaf, h) % 8) + PrevLeftAdj]]
                          ELSE auth_path
      PROVE  /\ PathNow(auth_path', idx, h + 1)
             /\ auth_path' \in [Levels -> Nodes \cup {Junk, None}]
  <2>1. h \in Levels  BY <1>2, <1>7 DEF Levels
  <2>2. Group(h) = Shr(job.leaf, h) \div 8  BY <1>0, <1>1, <2>1, GroupFacts
  <2>3. job.leaf = NO_SIGN_LEAF => Group(h) # Shr(idx, h)
    BY <1>1, <1>2, <2>1, NoneSelected
  <2> DEFINE node == current[Sibling(Shr(job.leaf, h) % 8) + PrevLeftAdj]
  <2>4. Group(h) = Shr(idx, h) => node = Beside(h)
    <3>1. ASSUME Group(h) = Shr(idx, h) PROVE node = Beside(h)
      <4>1. job.leaf # NO_SIGN_LEAF /\ Shr(idx, h) = Shr(job.leaf, h) \div 8  BY <2>2, <2>3, <3>1
      <4> QED  BY <1>0, <1>7, <4>1, PathLane
    <3> QED  BY <3>1
  <2> HIDE DEF node
  <2>5. auth_path' = IF Group(h) = Shr(idx, h) THEN [auth_path EXCEPT ![h] = Beside(h)] ELSE auth_path
    BY <1>7, <2>2, <2>4 DEF node
  <2>6. Beside(h) \in Nodes
    <3>1. Sibling(Shr(job.leaf, h)) \in Nat  BY <1>1, <2>1, LeafFacts
    <3>2. Shr(Offset, h) \in Nat  BY <1>1, OffsetFacts
    <3> QED  BY <1>2, <3>1, <3>2, NodeType DEF Beside
  <2>7. auth_path' \in [Levels -> Nodes \cup {Junk, None}]  BY <1>1, <2>1, <2>5, <2>6
  <2>8. /\ Group(h) = Shr(idx, h) => auth_path'[h] = Beside(h)
        /\ Group(h) # Shr(idx, h) => auth_path'[h] = auth_path[h]
        /\ \A k \in Levels : k # h => auth_path'[k] = auth_path[k]
    BY <1>1, <2>1, <2>5
  <2>9. PathNow(auth_path', idx, h + 1)
    BY ONLY <1>1, <1>2, <1>4, <2>1, <2>8, PathTurn
  <2> QED  BY <2>7, <2>9
<1>8. CASE /\ h < H /\ StopsX8 /\ Push /\ UNCHANGED root
           /\ left_adj' = LeftAdj /\ prev_left_adj' = PrevLeftAdj
           /\ auth_path' = IF Shr(idx, h) = Shr(job.leaf, h) \div 8
                          THEN [auth_path EXCEPT ![h] =
                                  current[Sibling(Shr(job.leaf, h) % 8) + PrevLeftAdj]]
                          ELSE auth_path
  <2>1. /\ stack' = [stack EXCEPT ![h] = current] /\ idx' = idx + 1 /\ pc' = "leaf"
        /\ UNCHANGED <<h, current>> /\ ~Odd(Shr(idx, h)) /\ idx < Pow2[H - 3] - 1
    BY <1>8 DEF Push, StopsX8
  <2>2. h < H - 3
    <3>1. ASSUME h >= H - 3 PROVE FALSE
      <4>1. \A k \in 0 .. (H - 3) - 1 : k \in 0 .. h - 1 /\ k < H - 3  BY <1>2, <3>1
      <4>2. \A k \in 0 .. (H - 3) - 1 : Odd(Shr(idx, k))  BY <1>3, <4>1
      <4>3. 0 \in 0 .. H - 3 /\ (H - 3) - 0 = H - 3  BY <1>2
      <4>4. Shr(idx, 0) = Pow2[(H - 3) - 0] - 1
        BY ONLY <1>2, <4>2, <4>3, AllOnes
      <4>5. Shr(idx, 0) = idx  BY <1>2, ShrDef
      <4> QED  BY <1>2, <2>1, <4>3, <4>4, <4>5
    <3> QED  BY <1>2, <3>1
  <2>3. left_adj' = 0 /\ prev_left_adj' = 0
    <3>1. left_adj = 0 /\ prev_left_adj = 0  BY <1>0, <1>1, <2>2 DEF LoopX8
    <3>2. ~(h >= H - 3)  BY <1>2, <2>2
    <3> QED  BY <1>8, <3>1, <3>2 DEF LeftAdj, PrevLeftAdj
  <2>4. h \in Levels /\ h \in 0 .. H - 4  BY <1>2, <2>2 DEF Levels
  <2>5. \A k \in 0 .. h - 1 : Odd(Shr(idx, k))
    <3>1. \A k \in 0 .. h - 1 : k < H - 3  BY <1>2, <2>2
    <3> QED  BY <1>3, <3>1
  <2>6. /\ \A k \in 0 .. h : Shr(idx + 1, k) = Shr(idx, k) + 1
        /\ \A k \in Nat : k > h => Shr(idx + 1, k) = Shr(idx, k)
    BY ONLY <1>2, <2>1, <2>5, Carry
  <2>7. LoopX8'
    <3>1. ASSUME NEW k \in 0 .. H - 4, NEW j \in Lanes, Odd(Shr(idx + 1, k))
          PROVE  stack'[k][j] = Node(k, 8 * (Shr(idx + 1, k) - 1) + j + Shr(Offset, k))
      <4>00. k \in Nat /\ k \in Levels  BY <1>2 DEF Levels
      <4>0. k \in Nat /\ Shr(idx, k) \in Nat /\ k \in Levels  BY <1>2, <4>00, ShrDef
      <4>1. CASE k < h
        <5>1. Shr(idx + 1, k) = Shr(idx, k) + 1 /\ Odd(Shr(idx, k))
          BY <1>2, <2>5, <2>6, <4>0, <4>1
        <5> QED  BY <3>1, <4>0, <5>1 DEF Odd
      <4>2. CASE k = h
        <5>1. Shr(idx + 1, k) - 1 = Shr(idx, k)  BY <1>2, <2>6, <4>0, <4>2
        <5>2. h <= H - 3  BY <1>2, <2>2
        <5>3. current[j] = Node(h, 8 * Shr(idx, h) + j + Shr(Offset, h))
          BY <1>0, <1>1, <5>2 DEF LoopX8
        <5> QED  BY <1>1, <2>1, <2>4, <4>2, <5>1, <5>3
      <4>3. CASE k > h
        <5>1. Shr(idx + 1, k) = Shr(idx, k)  BY <2>6, <4>0, <4>3
        <5>2. stack'[k] = stack[k]  BY <1>1, <1>2, <2>1, <4>0, <4>3
        <5>3. k >= h  BY <1>2, <4>0, <4>3
        <5> QED  BY <1>0, <1>1, <3>1, <5>1, <5>2, <5>3 DEF LoopX8
      <4> QED  BY <1>2, <4>0, <4>1, <4>2, <4>3
    <3> QED  BY <1>5, <2>1, <2>3, <3>1 DEF LoopX8
  <2>8. Loops'  BY <1>0, <1>1, <2>7 DEF Loops
  <2>9. PathNow(auth_path', idx + 1, 0)
    <3>1. PathNow(auth_path', idx, h + 1)  BY <1>7, <1>8
    <3> QED  BY ONLY <1>1, <1>2, <2>1, <2>5, <3>1, PathPush
  <2>10. PathOK'
    <3>1. Reached' = 0  BY <2>1 DEF Reached
    <3>2. PathNow(auth_path, idx, Reached)'  BY <1>0, <1>5, <2>1, <2>9, <3>1 DEF PathNow
    <3> QED  BY <2>1, <3>2 DEF PathOK
  <2>11. Counting'  BY <1>2, <1>5, <2>1 DEF Counting
  <2>12. OpenedOK'
    <3>1. Made' = Made  BY <1>0, <1>5, <2>1 DEF Made
    <3> QED  BY <1>0, <1>5, <2>1, <3>1 DEF OpenedOK
  <2>13. TypeOK'
    <3>1. stack' \in [Levels -> [Lanes -> Nodes \cup {Junk}]]  BY <1>1, <2>1, <2>4
    <3>2. auth_path' \in [Levels -> Nodes \cup {Junk, None}]  BY <1>7, <1>8
    <3>3. idx' \in 0 .. Pow2[H] - 1
      <4>1. idx + 1 < Pow2[H]
        <5>1. \A x \in Nat : x < Pow2[Turns] => x < Pow2[H]  BY <1>1, TurnsFacts
        <5>2. idx + 1 \in Nat /\ idx + 1 < Pow2[Turns]  BY <1>2, <2>1
        <5> QED  BY <5>1, <5>2
      <4> QED  BY <1>2, <2>1, <4>1
    <3>4. left_adj' \in Lanes /\ prev_left_adj' \in Lanes  BY <2>3 DEF Lanes
    <3> QED  BY <1>0, <1>5, <1>8, <2>1, <3>1, <3>2, <3>3, <3>4 DEF TypeOK, checking
  <2>14. BuildsTheTree' /\ ClimbOK' /\ VerifierAgrees'
    BY <2>1 DEF BuildsTheTree, ClimbOK, VerifierAgrees
  <2> QED  BY <2>8, <2>10, <2>11, <2>12, <2>13, <2>14 DEF IInv
<1>9. CASE /\ h < H /\ ~StopsX8
           /\ left_adj' = LeftAdj /\ prev_left_adj' = PrevLeftAdj
           /\ auth_path' = IF Shr(idx, h) = Shr(job.leaf, h) \div 8
                          THEN [auth_path EXCEPT ![h] =
                                  current[Sibling(Shr(job.leaf, h) % 8) + PrevLeftAdj]]
                          ELSE auth_path
           /\ current' = ThashX8(stack[h], current)
           /\ h' = h + 1 /\ UNCHANGED <<pc, idx, stack>> /\ UNCHANGED root
  <2>1. h \in Levels /\ h \in 0 .. H - 1 /\ h + 1 \in Nat  BY <1>2, <1>9 DEF Levels
  <2>2. LeftAdj \in Lanes /\ PrevLeftAdj \in Lanes
    <3>1. CASE h >= H - 3
      <4>1. LeftAdj \in 4 .. 7  BY <1>0, <1>9, <3>1, LanesTop
      <4> QED  BY <1>1, <3>1, <4>1 DEF PrevLeftAdj, Lanes
    <3>2. CASE ~(h >= H - 3)  BY <1>1, <3>2 DEF LeftAdj, PrevLeftAdj
    <3> QED  BY <3>1, <3>2
  <2>3. \A k \in 0 .. h' - 1 : k < H - 3 => Odd(Shr(idx, k))
    <3>1. h < H - 3 => Odd(Shr(idx, h))  BY <1>0, <1>9, LanesBelow
    <3>2. \A k \in 0 .. h' - 1 : k \in 0 .. h - 1 \/ k = h  BY <1>2, <1>9
    <3> QED  BY <1>3, <3>1, <3>2
  <2>4. /\ h' <= H - 3 => \A j \in Lanes :
                current'[j] = Node(h', 8 * Shr(idx, h') + j + Shr(Offset, h'))
        /\ h' >= H - 3 =>
                /\ left_adj' = 8 - Pow2[H - h']
                /\ \A j \in Lanes : j >= left_adj' =>
                      current'[j] = Node(h', j - left_adj' + Shr(Offset, h'))
        /\ h' < H - 3 => left_adj' = 0 /\ prev_left_adj' = 0
    <3>1. CASE h < H - 3
      <4>1. \A j \in Lanes : current'[j] = Node(h', 8 * Shr(idx, h') + j + Shr(Offset, h'))
        BY <1>0, <1>9, <3>1, LanesBelow
      <4>2. left_adj' = 0 /\ prev_left_adj' = 0
        <5>1. left_adj = 0 /\ prev_left_adj = 0  BY <1>0, <1>1, <3>1 DEF LoopX8
        <5>2. ~(h >= H - 3)  BY <1>2, <3>1
        <5> QED  BY <1>9, <5>1, <5>2 DEF LeftAdj, PrevLeftAdj
      <4>3. ASSUME h' >= H - 3
            PROVE  /\ left_adj' = 8 - Pow2[H - h']
                   /\ \A j \in Lanes : current'[j] = Node(h', j - left_adj' + Shr(Offset, h'))
        <5>1. h' = H - 3 /\ H - h' = 3  BY <1>2, <1>9, <3>1, <4>3
        <5>2. Pow2[3] = 8 * Pow2[3 - 3] /\ 3 - 3 = 0  BY Pow2Three
        <5>3. Pow2[H - h'] = 8  BY <5>1, <5>2, Pow2Def
        <5>4. Shr(idx, h') = 0  BY <1>2, <5>1, ShrZero
        <5>5. \A j \in Lanes : j - left_adj' = 8 * Shr(idx, h') + j  BY <4>2, <5>4 DEF Lanes
        <5> QED  BY <4>1, <4>2, <5>3, <5>5
      <4> QED  BY <4>1, <4>2, <4>3
    <3>2. CASE h >= H - 3
      <4>1. ~(h' <= H - 3) /\ ~(h' < H - 3)  BY <1>2, <1>9, <3>2
      <4>2. /\ LeftAdj = 8 - Pow2[H - h']
            /\ \A j \in Lanes : j >= LeftAdj => current'[j] = Node(h', j - LeftAdj + Shr(Offset, h'))
        BY <1>0, <1>9, <3>2, LanesTop
      <4> QED  BY <1>9, <4>1, <4>2
    <3> QED  BY <1>2, <3>1, <3>2
  <2>5. LoopX8'
    <3>1. ASSUME NEW k \in 0 .. H - 4, NEW j \in Lanes, Odd(Shr(idx, k)), k >= h + 1
          PROVE  stack[k][j] = Node(k, 8 * (Shr(idx, k) - 1) + j + Shr(Offset, k))
      <4>1. k >= h  BY <1>2, <3>1
      <4> QED  BY <1>0, <1>1, <3>1, <4>1 DEF LoopX8
    <3> QED  BY <1>0, <1>5, <1>9, <2>3, <2>4, <3>1 DEF LoopX8
  <2>6. Loops'  BY <1>0, <1>1, <2>5 DEF Loops
  <2>7. PathOK'
    <3>1. PathNow(auth_path', idx, h + 1)  BY <1>7, <1>9
    <3>2. Reached' = h + 1  BY <1>0, <1>9 DEF Reached
    <3>3. PathNow(auth_path, idx, Reached)'  BY <1>0, <1>5, <1>9, <3>1, <3>2 DEF PathNow
    <3> QED  BY <1>0, <1>9, <3>3 DEF PathOK
  <2>8. TypeOK'
    <3>1. auth_path' \in [Levels -> Nodes \cup {Junk, None}]  BY <1>7, <1>9
    <3>2. h' \in 0 .. H  BY <1>2, <1>9
    <3>3. current' \in [Lanes -> Nodes \cup {Junk}]  BY <1>1, <1>2, <1>9, <2>1, <2>2, LanesTyped
    <3> QED  BY <1>0, <1>5, <1>9, <2>2, <3>1, <3>2, <3>3 DEF TypeOK, checking
  <2>9. Counting' /\ OpenedOK'
    <3>1. Made' = Made  BY <1>0, <1>5, <1>9 DEF Made
    <3> QED  BY <1>0, <1>5, <1>9, <3>1 DEF Counting, OpenedOK
  <2>10. BuildsTheTree' /\ ClimbOK' /\ VerifierAgrees'
    BY <1>0, <1>9 DEF BuildsTheTree, ClimbOK, VerifierAgrees
  <2> QED  BY <2>6, <2>7, <2>8, <2>9, <2>10 DEF IInv
<1> QED  BY <1>6, <1>8, <1>9 DEF ClimbX8

----------------------------------------------------------------------------
(* treehash                                                                *)

Entries == [node : Nodes \cup {Junk}, height : Nat]

LEMMA Pushed ==
    ASSUME NEW s \in Seq(Entries), NEW e \in Entries, NEW t, t = Append(s, e)
    PROVE  /\ t \in Seq(Entries) /\ Len(t) = Len(s) + 1 /\ t # <<>>
           /\ \A p \in 1 .. Len(s) : t[p] = s[p]
           /\ t[Len(t)] = e
BY AppendProperties

\* t is s with e in the place of its last two entries.
Merger(s, e, t) == t = Append(Front(Front(s)), e)

LEMMA Merged ==
    ASSUME NEW s \in Seq(Entries), Len(s) >= 2, NEW e \in Entries, NEW t, Merger(s, e, t)
    PROVE  /\ t \in Seq(Entries) /\ Len(t) = Len(s) - 1 /\ t # <<>>
           /\ \A p \in 1 .. Len(s) - 2 : t[p] = s[p]
           /\ t[Len(t)] = e
<1> DEFINE a == Front(s)
           b == Front(a)
<1>1. a \in Seq(Entries) /\ Len(a) = Len(s) - 1 /\ \A p \in 1 .. Len(s) - 1 : a[p] = s[p]
  BY DEF Front
<1> HIDE DEF a
<1>2. b \in Seq(Entries) /\ Len(b) = Len(s) - 2 /\ \A p \in 1 .. Len(s) - 2 : b[p] = a[p]
  BY <1>1 DEF Front
<1>3. t = Append(b, e)  BY DEF a, Merger
<1> HIDE DEF b
<1>4. /\ t \in Seq(Entries) /\ Len(t) = Len(b) + 1 /\ t # <<>>
      /\ \A p \in 1 .. Len(b) : t[p] = b[p]
      /\ t[Len(t)] = e
  BY <1>2, <1>3, Pushed
<1>5. Len(s) \in Nat  OBVIOUS
<1>6. Len(t) = Len(s) - 1 /\ 1 .. Len(b) = 1 .. Len(s) - 2  BY <1>2, <1>4, <1>5
<1>7. \A p \in 1 .. Len(s) - 2 : t[p] = s[p]
  <2>1. \A p \in 1 .. Len(s) - 2 : p \in 1 .. Len(s) - 1  BY <1>5
  <2> QED  BY <1>1, <1>2, <1>4, <1>6, <2>1
<1> QED  BY <1>4, <1>6, <1>7

\* The invariant of the pile, spelled out for its length n and its top t.
LEMMA PileFacts ==
    ASSUME IInv, job.by = "stack", pc \in {"leaf", "climb"}
    PROVE  /\ job \in Jobs /\ H \in Nat /\ H >= 3 /\ Turns = H /\ Pow2[H] \in Nat
           /\ idx \in Nat /\ idx < Pow2[H] /\ job.leaf # NO_SIGN_LEAF
           /\ opened = job.leaf + Offset /\ job.kind = "fors"
           /\ auth_path \in [Levels -> Nodes \cup {Junk, None}]
           /\ pile \in Seq(Entries) /\ Len(pile) \in Nat /\ Held \in Nat /\ Held <= H
           /\ \A p \in 1 .. Held : Waits(pile[p], p)
           /\ \A p, q \in 1 .. Held : p < q => pile[p].height > pile[q].height
           /\ \A k \in Levels : Odd(Shr(idx, k)) /\ (pc = "climb" => k >= PileTop.height) =>
                \E p \in 1 .. Held : pile[p].height = k
           /\ \A k \in Nat : Shr(idx, k) \in Nat
<1>1. job \in Jobs /\ LoopPile /\ OpenedOK /\ idx \in 0 .. Pow2[H] - 1 /\ Len(pile) <= H + 1
      /\ auth_path \in [Levels -> Nodes \cup {Junk, None}]
  BY DEF IInv, TypeOK, Loops
<1>2. H \in Nat /\ H >= 3 /\ Pow2[H] \in Nat /\ job.kind = "fors" /\ job.leaf # NO_SIGN_LEAF
  BY <1>1, JobFacts, TurnsFacts
<1>3. Turns = H  BY DEF Turns
<1>4. idx \in Nat /\ idx < Pow2[H]  BY <1>1, <1>2
<1>5. opened = job.leaf + Offset  BY <1>1, <1>2 DEF OpenedOK
<1>6. pile \in Seq(Entries) /\ Len(pile) \in Nat /\ (pc = "climb" => pile # <<>>)
  BY <1>1 DEF LoopPile, Entries
<1>7. Held \in Nat
  <2>1. pile # <<>> => Len(pile) >= 1  BY <1>6
  <2> QED  BY <1>6, <2>1 DEF Held
<1>8. /\ \A p \in 1 .. Held : Waits(pile[p], p)
      /\ \A p, q \in 1 .. Held : p < q => pile[p].height > pile[q].height
      /\ \A k \in Levels : Odd(Shr(idx, k)) /\ (pc = "climb" => k >= PileTop.height) =>
            \E p \in 1 .. Held : pile[p].height = k
  BY <1>1 DEF LoopPile
<1>9. Held <= H
  <2>1. CASE Held = 0  BY <1>2, <2>1
  <2>2. CASE Held # 0
    <3>1. Held \in 1 .. Held  BY <1>7, <2>2
    <3>2. pile[Held].height \in 0 .. H - Held  BY <1>8, <3>1 DEF Waits
    <3> QED  BY <1>2, <1>7, <3>2
  <2> QED  BY <2>1, <2>2
<1>10. \A k \in Nat : Shr(idx, k) \in Nat  BY <1>4, ShrDef
<1> QED  BY <1>1, <1>2, <1>3, <1>4, <1>5, <1>6, <1>7, <1>8, <1>9, <1>10

LEMMA TopFacts ==
    ASSUME IInv, job.by = "stack", pc = "climb"
    PROVE  /\ Len(pile) >= 1 /\ Held = Len(pile) - 1 /\ PileTop = pile[Len(pile)]
           /\ PileTop.height \in 0 .. H /\ PileTop.height \in Nat
           /\ PileTop.node = Node(PileTop.height, Shr(idx, PileTop.height) + Shr(Offset, PileTop.height))
           /\ \A p \in 1 .. Held : pile[p].height >= PileTop.height
           /\ \A k \in 0 .. PileTop.height - 1 : Odd(Shr(idx, k))
           /\ PathNow(auth_path, idx, PileTop.height + 1)
           /\ PileTop.height < H /\ Odd(Shr(idx, PileTop.height)) => Merges
<1>1. LoopPile /\ PathOK /\ H \in Nat /\ pile \in Seq(Entries) /\ Len(pile) \in Nat /\ Held \in Nat
  BY PileFacts DEF IInv, Loops
<1>2. /\ pile # <<>>
      /\ PileTop.height \in 0 .. H /\ PileTop.node = Above(PileTop.height)
      /\ \A p \in 1 .. Held : pile[p].height >= PileTop.height
      /\ \A k \in 0 .. PileTop.height - 1 : Odd(Shr(idx, k))
  BY <1>1 DEF LoopPile
<1>3. Len(pile) >= 1 /\ Held = Len(pile) - 1  BY <1>1, <1>2 DEF Held
<1>4. PileTop.height \in Nat /\ PileTop = pile[Len(pile)]  BY <1>1, <1>2 DEF PileTop, Last
<1>5. PathNow(auth_path, idx, PileTop.height + 1)  BY <1>1 DEF PathOK, Reached
<1>6. ASSUME PileTop.height < H, Odd(Shr(idx, PileTop.height)) PROVE Merges
  <2> DEFINE t == PileTop.height
  <2>1. t \in Nat /\ t \in Levels /\ t >= t  BY <1>1, <1>4, <1>6 DEF Levels
  <2>2. \E p \in 1 .. Held : pile[p].height = t  BY <1>6, <2>1, PileFacts
  <2>3. PICK p \in 1 .. Held : pile[p].height = t  BY <2>2
  <2> HIDE DEF t
  <2>4. Held \in 1 .. Held /\ p <= Held  BY <1>1
  <2>5. p = Held
    <3>1. ASSUME p < Held PROVE FALSE
      <4>1. pile[p].height > pile[Held].height  BY <2>4, <3>1, PileFacts
      <4>2. pile[Held].height >= t  BY <1>2, <2>4 DEF t
      <4>3. pile[Held].height \in Nat
        <5>1. Waits(pile[Held], Held)  BY <2>4, PileFacts
        <5>2. pile[Held].height \in 0 .. H - Held  BY <5>1 DEF Waits
        <5> QED  BY <1>1, <5>2
      <4> QED  BY <2>1, <2>3, <4>1, <4>2, <4>3
    <3> QED  BY <1>1, <2>4, <3>1
  <2>6. Len(pile) >= 2 /\ Len(pile) - 1 = Held  BY <1>1, <1>3, <2>4
  <2> QED  BY <2>3, <2>5, <2>6 DEF Merges, t
<1> QED  BY <1>2, <1>3, <1>4, <1>5, <1>6 DEF Above

LEMMA PathBeyond ==
    ASSUME job \in Jobs, NEW path, NEW n \in Nat, NEW r \in Nat, r >= H
    PROVE  PathNow(path, n, r) <=> PathNow(path, n, H)
<1>1. H \in Nat  BY JobFacts
<1>2. \A k \in Levels : k < r /\ k < H  BY <1>1 DEF Levels
<1> QED  BY <1>2 DEF PathNow

LEMMA PathWithTurn ==
    ASSUME IInv, job.by = "stack", pc \in {"leaf", "climb"}, NEW level \in 0 .. H,
           PathNow(auth_path, idx, level), NEW node, node = Above(level),
           NEW path, path = PathWith(level, Shr(idx, level), node)
    PROVE  PathNow(path, idx, level + 1) /\ path \in [Levels -> Nodes \cup {Junk, None}]
<1>1. /\ job \in Jobs /\ H \in Nat /\ Turns = H /\ idx \in Nat /\ idx < Pow2[H]
      /\ job.leaf # NO_SIGN_LEAF /\ auth_path \in [Levels -> Nodes \cup {Junk, None}]
  BY PileFacts
<1>2. CASE level = H
  <2>1. Shr(idx, H) = 0 /\ Shr(job.leaf, H) = 0
    <3>1. job.leaf \in Nat /\ job.leaf < Pow2[H]  BY <1>1, JobFacts
    <3> QED  BY <1>1, <3>1, ShrZero
  <2>2. Sibling(0) = 1  BY Parity DEF Odd
  <2>3. path = auth_path  BY <1>2, <2>1, <2>2 DEF PathWith
  <2>4. PathNow(path, idx, H + 1)  BY <1>1, <1>2, <2>3, PathBeyond
  <2> QED  BY <1>1, <1>2, <2>3, <2>4
<1>3. CASE level # H
  <2>1. level \in Levels  BY <1>1, <1>3 DEF Levels
  <2>2. Group(level) = Sibling(Shr(job.leaf, level))  BY <1>1, <2>1, GroupFacts
  <2>3. path = IF Group(level) = Shr(idx, level)
               THEN [k \in Levels |-> IF k = level THEN node ELSE auth_path[k]] ELSE auth_path
    <3>1. Levels \cup {level} = Levels  BY <2>1
    <3> QED  BY <2>2, <3>1 DEF PathWith
  <2>4. node \in Nodes
    <3>1. level \in Nat /\ Shr(idx, level) \in Nat  BY <1>1, <2>1, PileFacts DEF Levels
    <3>2. Shr(Offset, level) \in Nat  BY <1>1, OffsetFacts
    <3>3. Shr(idx, level) + Shr(Offset, level) \in Nat  BY <3>1, <3>2
    <3> QED  BY <3>1, <3>3, NodeType DEF Above
  <2>5. path \in [Levels -> Nodes \cup {Junk, None}]  BY <1>1, <2>3, <2>4
  <2>6. Group(level) = Shr(idx, level) => path[level] = Beside(level)
    BY <2>1, <2>2, <2>3 DEF Beside, Above
  <2>7. /\ Group(level) # Shr(idx, level) => path[level] = auth_path[level]
        /\ \A k \in Levels : k # level => path[k] = auth_path[k]
    BY <1>1, <2>1, <2>3
  <2>8. PathNow(path, idx, level + 1)
    BY ONLY <1>1, <2>1, <2>6, <2>7, PathNow(auth_path, idx, level), PathTurn
  <2> QED  BY <2>5, <2>8
<1> QED  BY <1>2, <1>3

\* What the three actions of treehash leave as it was.
LEMMA PileFrame ==
    ASSUME IInv, job.by = "stack", pc \in {"leaf", "climb"}, pc' \in {"leaf", "climb"},
           UNCHANGED <<job, h, current, stack, left_adj, prev_left_adj, root, opened, checking>>,
           idx' \in Nat, idx' < Pow2[H], Len(pile') <= H + 1,
           auth_path' \in [Levels -> Nodes \cup {Junk, None}], LoopPile',
           PathNow(auth_path', idx', Reached')
    PROVE  IInv'
<1>0. /\ job \in Jobs /\ H \in Nat /\ Turns = H /\ Pow2[H] \in Nat
      /\ opened = job.leaf + Offset /\ job.kind = "fors" /\ TypeOK
  BY PileFacts DEF IInv
<1>1. /\ H' = H /\ Levels' = Levels /\ Offset' = Offset /\ Width' = Width /\ Turns' = Turns
      /\ \A k : Group(k)' = Group(k) /\ Beside(k)' = Beside(k)
  <2>1. H' = H /\ Levels' = Levels /\ Offset' = Offset /\ Width' = Width /\ Turns' = Turns
    BY DEF H, Levels, Offset, Width, Turns
  <2> QED  BY <2>1 DEF Group, Beside
<1>2. TypeOK'
  <2>1. idx' \in 0 .. Pow2[H] - 1  BY <1>0
  <2> QED  BY <1>0, <1>1, <2>1 DEF TypeOK, checking
<1>3. Counting' /\ OpenedOK'  BY <1>0, <1>1 DEF Counting, OpenedOK
<1>4. Loops'  BY DEF Loops
<1>5. PathOK'
  <2>1. PathNow(auth_path, idx, Reached)'  BY <1>1 DEF PathNow
  <2> QED  BY <2>1 DEF PathOK
<1>6. BuildsTheTree' /\ ClimbOK' /\ VerifierAgrees'  BY DEF BuildsTheTree, ClimbOK, VerifierAgrees
<1> QED  BY <1>2, <1>3, <1>4, <1>5, <1>6 DEF IInv

LEMMA PileLeafInv == ASSUME IInv, PileLeaf PROVE IInv'
<1> DEFINE leaf == Node(0, idx + Offset)
           n == Len(pile)
<1>0. /\ pc = "leaf" /\ pc' = "climb" /\ job.by = "stack"
      /\ pile' = Append(pile, [node |-> leaf, height |-> 0])
      /\ auth_path' = PathWith(0, idx, leaf)
      /\ UNCHANGED <<job, idx, h, current, stack, left_adj, prev_left_adj, root, opened, checking>>
  BY DEF PileLeaf
<1>1. /\ job \in Jobs /\ H \in Nat /\ H >= 3 /\ idx \in Nat /\ idx < Pow2[H]
      /\ pile \in Seq(Entries) /\ n \in Nat /\ n <= H
      /\ \A p \in 1 .. n : Waits(pile[p], p)
      /\ \A p, q \in 1 .. n : p < q => pile[p].height > pile[q].height
      /\ \A k \in Levels : Odd(Shr(idx, k)) => \E p \in 1 .. n : pile[p].height = k
  <2>1. Held = n  BY <1>0 DEF Held
  <2> QED  BY <1>0, <2>1, PileFacts
<1>2. Shr(idx, 0) = idx /\ Shr(Offset, 0) = Offset /\ Offset \in Nat
  BY <1>1, OffsetFacts, ShrDef
<1>3. leaf = Above(0) /\ leaf \in Nodes
  <2>1. idx + Offset \in Nat  BY <1>1, <1>2
  <2> QED  BY <1>2, <2>1, NodeType DEF Above
<1>4. PathNow(auth_path', idx, 0 + 1) /\ auth_path' \in [Levels -> Nodes \cup {Junk, None}]
  <2>1. PathNow(auth_path, idx, 0)  BY <1>0 DEF IInv, PathOK, Reached
  <2>2. 0 \in 0 .. H /\ auth_path' = PathWith(0, Shr(idx, 0), leaf)  BY <1>0, <1>1, <1>2
  <2> HIDE DEF leaf
  <2> QED  BY <1>0, <1>3, <2>1, <2>2, PathWithTurn
<1>5. /\ pile' \in Seq(Entries) /\ Len(pile') = n + 1 /\ pile' # <<>>
      /\ \A p \in 1 .. n : pile'[p] = pile[p]
      /\ pile'[Len(pile')] = [node |-> leaf, height |-> 0]
  <2> DEFINE e == [node |-> leaf, height |-> 0]
  <2>1. e \in Entries  BY <1>3 DEF Entries
  <2>2. pile' = Append(pile, e)  BY <1>0
  <2> HIDE DEF e
  <2>3. /\ pile' \in Seq(Entries) /\ Len(pile') = Len(pile) + 1 /\ pile' # <<>>
        /\ \A p \in 1 .. Len(pile) : pile'[p] = pile[p]
        /\ pile'[Len(pile')] = e
    BY <1>1, <2>1, <2>2, Pushed
  <2> QED  BY <2>3 DEF e
<1>6. Held' = n /\ PileTop'.height = 0 /\ PileTop'.node = leaf
  <2>1. Held' = Len(pile') - 1  BY <1>0 DEF Held
  <2>2. PileTop' = pile'[Len(pile')]  BY DEF PileTop, Last
  <2> QED  BY <1>1, <1>5, <2>1, <2>2
<1>7. H' = H /\ Levels' = Levels /\ Offset' = Offset  BY <1>0 DEF H, Levels, Offset
<1>8. LoopPile'
  <2>1. \A p \in 1 .. n : Waits(pile[p], p)'
    BY <1>0, <1>1, <1>5, <1>7 DEF Waits
  <2>2. \A p \in 1 .. n : pile'[p].height >= 0
    <3>1. \A p \in 1 .. n : pile[p].height \in 0 .. H - p  BY <1>1 DEF Waits
    <3>2. \A p \in 1 .. n : pile[p].height >= 0  BY <1>1, <3>1
    <3> QED  BY <1>5, <3>2
  <2>3. leaf = Above(0)'  BY <1>0, <1>3, <1>7 DEF Above
  <2>4. 0 .. 0 - 1 = {} /\ 0 \in 0 .. H  BY <1>1
  <2>5. \A p, q \in 1 .. n : p < q => pile'[p].height > pile'[q].height  BY <1>1, <1>5
  <2>6. \A k \in Levels : Odd(Shr(idx, k)) => \E p \in 1 .. n : pile'[p].height = k
    BY <1>1, <1>5
  <2>7. pile' \in Seq([node : Nodes \cup {Junk}, height : Nat])  BY <1>5 DEF Entries
  <2> HIDE DEF leaf, n
  <2> QED  BY <1>0, <1>5, <1>6, <1>7, <2>1, <2>2, <2>3, <2>4, <2>5, <2>6, <2>7 DEF LoopPile
<1>9. Reached' = 0 + 1  BY <1>0, <1>6 DEF Reached
<1>10. Len(pile') <= H + 1  BY <1>1, <1>5
<1> QED  BY ONLY IInv, <1>0, <1>1, <1>4, <1>8, <1>9, <1>10, PileFrame

LEMMA PileMergeInv == ASSUME IInv, PileMerge PROVE IInv'
<1> DEFINE t == PileTop.height
           n == Len(pile)
           up == t + 1
           y == Shr(idx, up)
           o == Shr(Offset, up)
           below == pile[n - 1]
           node == Thash(below.node, PileTop.node, up, y + o)
           e == [node |-> node, height |-> below.height + 1]
<1>0. /\ pc = "climb" /\ pc' = "climb" /\ job.by = "stack" /\ n >= 2 /\ below.height = t
      /\ pile' = Append(Front(Front(pile)), e)
      /\ auth_path' = PathWith(up, y, node)
      /\ UNCHANGED <<pc, job, idx, h, current, stack, left_adj, prev_left_adj, root, opened, checking>>
  BY DEF PileMerge, Merges
<1>1. /\ job \in Jobs /\ H \in Nat /\ H >= 3 /\ idx \in Nat /\ idx < Pow2[H]
      /\ pile \in Seq(Entries) /\ n \in Nat /\ Held \in Nat /\ Held <= H
      /\ \A p \in 1 .. Held : Waits(pile[p], p)
      /\ \A p, q \in 1 .. Held : p < q => pile[p].height > pile[q].height
      /\ \A k \in Levels : Odd(Shr(idx, k)) /\ k >= t => \E p \in 1 .. Held : pile[p].height = k
      /\ \A k \in Nat : Shr(idx, k) \in Nat
  BY <1>0, PileFacts
<1>2. /\ Held = n - 1 /\ t \in Nat
      /\ PileTop.node = Node(t, Shr(idx, t) + Shr(Offset, t))
      /\ \A k \in 0 .. t - 1 : Odd(Shr(idx, k))
      /\ PathNow(auth_path, idx, t + 1)
  BY <1>0, TopFacts
<1>3. n - 1 \in 1 .. Held  BY <1>0, <1>1, <1>2
<1>4. /\ t \in 0 .. H - (n - 1) /\ Odd(Shr(idx, t))
      /\ below.node = Node(t, Shr(idx, t) - 1 + Shr(Offset, t))
  <2>1. Waits(below, n - 1)  BY <1>1, <1>3
  <2> HIDE DEF below, t
  <2> QED  BY <1>0, <2>1 DEF Waits
<1>5. t \in 0 .. H - 1 /\ up \in 0 .. H /\ up \in Nat
  <2> HIDE DEF t, n
  <2> QED  BY <1>0, <1>1, <1>2, <1>4
<1>6. Shr(idx, t) = 2 * y + 1 /\ y \in Nat
  <2> DEFINE x == Shr(idx, t)
  <2>1. x \in Nat /\ y = x \div 2 /\ Odd(x)  BY <1>1, <1>2, <1>4, ShrDef
  <2> HIDE DEF x, y
  <2>2. x = 2 * y + 1 /\ y \in Nat  BY <2>1, Parity
  <2> QED  BY <2>2 DEF x
<1>7. Shr(Offset, t) = 2 * o /\ o \in Nat  BY <1>1, <1>5, OffsetFacts
<1>8. node = Above(up) /\ node \in Nodes
  <2> DEFINE z == y + o
  <2>1. Shr(idx, t) - 1 + Shr(Offset, t) = 2 * z /\ Shr(idx, t) + Shr(Offset, t) = 2 * z + 1 /\ z \in Nat
    <3> HIDE DEF y, o
    <3> QED  BY <1>6, <1>7
  <2>2. below.node = Node(t, 2 * z) /\ PileTop.node = Node(t, 2 * z + 1)
    BY <1>2, <1>4, <2>1
  <2>3. node = Thash(below.node, PileTop.node, t + 1, z) /\ Above(up) = Node(t + 1, z)
    BY DEF Above
  <2> HIDE DEF z, t, below, node
  <2>4. node = Node(t + 1, z)  BY <1>2, <2>2, <2>3, ThashNode
  <2>5. Node(t + 1, z) \in Nodes  BY <1>2, <2>1, NodeType
  <2> QED  BY <2>3, <2>4, <2>5
<1> HIDE DEF node
<1>9. PathNow(auth_path', idx, up + 1) /\ auth_path' \in [Levels -> Nodes \cup {Junk, None}]
  <2> HIDE DEF up
  <2> QED  BY <1>0, <1>2, <1>5, <1>8, PathWithTurn DEF up
<1>10. /\ pile' \in Seq(Entries) /\ Len(pile') = n - 1 /\ pile' # <<>>
       /\ \A p \in 1 .. n - 2 : pile'[p] = pile[p]
       /\ pile'[Len(pile')] = e
  <2>1. e \in Entries  BY <1>0, <1>2, <1>8 DEF Entries
  <2> HIDE DEF e
  <2>2. pile \in Seq(Entries) /\ Len(pile) >= 2 /\ Merger(pile, e, pile')
    BY <1>0, <1>1 DEF Merger
  <2>3. /\ pile' \in Seq(Entries) /\ Len(pile') = Len(pile) - 1 /\ pile' # <<>>
        /\ \A p \in 1 .. Len(pile) - 2 : pile'[p] = pile[p]
        /\ pile'[Len(pile')] = e
    BY ONLY <2>1, <2>2, Merged
  <2> QED  BY <2>3
<1>11. Held' = n - 2 /\ PileTop'.height = up /\ PileTop'.node = node
  <2>1. Held' = Len(pile') - 1  BY <1>0 DEF Held
  <2>2. PileTop' = pile'[Len(pile')]  BY DEF PileTop, Last
  <2> QED  BY <1>0, <1>1, <1>10, <2>1, <2>2
<1>12. H' = H /\ Levels' = Levels /\ Offset' = Offset  BY <1>0 DEF H, Levels, Offset
<1>13. \A p \in 1 .. n - 2 : p \in 1 .. Held /\ p < n - 1
  <2> HIDE DEF n, t
  <2> QED  BY <1>0, <1>1, <1>2
<1>14. LoopPile'
  <2>1. \A p \in 1 .. n - 2 : Waits(pile[p], p)'
    BY <1>0, <1>1, <1>10, <1>12, <1>13 DEF Waits
  <2>2. ASSUME NEW p \in 1 .. n - 2 PROVE pile'[p].height >= up
    <3>1. pile[p].height > t  BY <1>0, <1>1, <1>3, <1>13
    <3>2. pile[p].height \in Nat
      <4>1. pile[p].height \in 0 .. H - p  BY <1>1, <1>13 DEF Waits
      <4> QED  BY <1>1, <4>1
    <3> HIDE DEF t
    <3> QED  BY <1>2, <1>10, <3>1, <3>2
  <2>3. PileTop'.node = Above(PileTop.height)'
    <3> HIDE DEF up
    <3>1. node = Node(up, Shr(idx', up) + Shr(Offset', up))  BY <1>0, <1>8, <1>12 DEF Above
    <3> QED  BY <1>11, <3>1 DEF Above
  <2>4. \A k \in 0 .. up - 1 : Odd(Shr(idx, k))
    <3> HIDE DEF t
    <3>1. \A k \in 0 .. up - 1 : k \in 0 .. t - 1 \/ k = t  BY <1>2
    <3> QED  BY <1>2, <1>4, <3>1
  <2>5. \A p, q \in 1 .. n - 2 : p < q => pile'[p].height > pile'[q].height
    BY <1>1, <1>10, <1>13
  <2>6. ASSUME NEW k \in Levels, Odd(Shr(idx, k)), k >= up
        PROVE  \E p \in 1 .. n - 2 : pile'[p].height = k
    <3>1. k \in Nat  BY <1>1 DEF Levels
    <3> HIDE DEF t
    <3>2. k >= t /\ k # t  BY <1>2, <2>6, <3>1
    <3>3. \E p \in 1 .. Held : pile[p].height = k  BY <1>1, <2>6, <3>2
    <3>4. PICK p \in 1 .. Held : pile[p].height = k  BY <3>3
    <3>5. p # n - 1  BY <1>0, <3>2, <3>4
    <3>6. p \in 1 .. n - 2  BY <1>1, <1>2, <3>5
    <3> QED  BY <1>10, <3>4, <3>6
  <2>7. pile' \in Seq([node : Nodes \cup {Junk}, height : Nat])  BY <1>10 DEF Entries
  <2> HIDE DEF up, n
  <2> QED  BY <1>0, <1>5, <1>10, <1>11, <1>12, <2>1, <2>2, <2>3, <2>4, <2>5, <2>6, <2>7 DEF LoopPile
<1>15. Reached' = up + 1  BY <1>0, <1>11 DEF Reached
<1>16. Len(pile') <= H + 1  BY <1>1, <1>2, <1>10
<1> HIDE DEF up
<1> QED  BY ONLY IInv, <1>0, <1>1, <1>9, <1>14, <1>15, <1>16, PileFrame

LEMMA PileNextInv == ASSUME IInv, PileNext PROVE IInv'
<1> DEFINE t == PileTop.height
           n == Len(pile)
<1>0. /\ pc = "climb" /\ job.by = "stack" /\ ~Merges
      /\ UNCHANGED <<job, h, current, stack, left_adj, prev_left_adj, pile, auth_path, opened, checking>>
  BY DEF PileNext
<1>1. /\ job \in Jobs /\ H \in Nat /\ H >= 3 /\ idx \in Nat /\ idx < Pow2[H] /\ Pow2[H] \in Nat
      /\ Turns = H /\ job.leaf # NO_SIGN_LEAF /\ opened = job.leaf + Offset
      /\ auth_path \in [Levels -> Nodes \cup {Junk, None}]
      /\ pile \in Seq(Entries) /\ n \in Nat /\ Held \in Nat /\ Held <= H
      /\ \A p \in 1 .. Held : Waits(pile[p], p)
      /\ \A p, q \in 1 .. Held : p < q => pile[p].height > pile[q].height
      /\ \A k \in Levels : Odd(Shr(idx, k)) /\ k >= t => \E p \in 1 .. Held : pile[p].height = k
      /\ \A k \in Nat : Shr(idx, k) \in Nat
  BY <1>0, PileFacts
<1>2. /\ n >= 1 /\ Held = n - 1 /\ t \in Nat /\ t \in 0 .. H /\ PileTop = pile[n]
      /\ PileTop.node = Node(t, Shr(idx, t) + Shr(Offset, t))
      /\ \A p \in 1 .. Held : pile[p].height >= t
      /\ \A k \in 0 .. t - 1 : Odd(Shr(idx, k))
      /\ PathNow(auth_path, idx, t + 1)
      /\ t < H => ~Odd(Shr(idx, t))
  BY <1>0, TopFacts
<1>3. /\ H' = H /\ Levels' = Levels /\ Offset' = Offset /\ Turns' = Turns /\ PileTop' = PileTop
  BY <1>0 DEF H, Levels, Offset, Turns, PileTop
<1>4. \A p \in 1 .. Held : pile[p].height \in 0 .. H - p /\ Odd(Shr(idx, pile[p].height))
  BY <1>1 DEF Waits
<1> HIDE DEF t, n
<1>n. /\ H \in Nat /\ idx \in Nat /\ idx < Pow2[H] /\ Pow2[H] \in Nat /\ n \in Nat /\ n >= 1
      /\ Held \in Nat /\ Held = n - 1 /\ Held <= H /\ t \in Nat /\ t <= H
  <2>1. t <= H  BY <1>1, <1>2
  <2> QED  BY <1>1, <1>2, <2>1
<1>5. CASE idx < Pow2[H] - 1 /\ idx' = idx + 1 /\ pc' = "leaf" /\ UNCHANGED root
  <2>1. t < H
    <3>1. ASSUME t = H PROVE FALSE
      <4>1. \A k \in 0 .. H - 1 : Odd(Shr(idx, k))  BY <1>2, <3>1
      <4>2. 0 \in 0 .. H /\ H - 0 = H  BY <1>1
      <4>3. Shr(idx, 0) = Pow2[H - 0] - 1  BY ONLY <1>1, <4>1, <4>2, AllOnes
      <4>4. Shr(idx, 0) = idx  BY <1>1, ShrDef
      <4> QED  BY <1>n, <1>5, <4>2, <4>3, <4>4
    <3> QED  BY <1>1, <1>2, <3>1
  <2>2. ~Odd(Shr(idx, t)) /\ t \in Levels  BY <1>1, <1>2, <2>1 DEF Levels
  <2>3. /\ \A k \in 0 .. t : Shr(idx + 1, k) = Shr(idx, k) + 1
        /\ \A k \in Nat : k > t => Shr(idx + 1, k) = Shr(idx, k)
    BY ONLY <1>1, <1>2, <2>2, Carry
  <2>4. ASSUME NEW p \in 1 .. Held
        PROVE  pile[p].height \in Nat /\ pile[p].height > t
    <3>1. pile[p].height \in Nat  BY <1>1, <1>4
    <3>2. pile[p].height # t  BY <1>4, <2>2
    <3>3. pile[p].height >= t  BY <1>2
    <3> QED  BY <1>2, <3>1, <3>2, <3>3
  <2>5. t <= H - n
    <3>1. CASE n = 1  BY <1>1, <1>2, <2>1, <3>1
    <3>2. CASE n # 1
      <4>1. Held \in 1 .. Held  BY <1>1, <1>2, <3>2
      <4>2. pile[Held].height > t /\ pile[Held].height \in 0 .. H - Held  BY <1>4, <2>4, <4>1
      <4> QED  BY <1>n, <4>2
    <3> QED  BY <3>1, <3>2
  <2>6. Held' = n  BY <1>0, <1>5 DEF Held, n
  <2>7. \A p \in 1 .. n : p \in 1 .. Held \/ p = n  BY <1>1, <1>2
  <2>8. ASSUME NEW p \in 1 .. n PROVE Waits(pile[p], p)'
    <3> DEFINE e == pile[p]
               k == e.height
    <3>1. CASE p \in 1 .. Held
      <4>1. /\ k \in 0 .. H - p /\ Odd(Shr(idx, k))
            /\ e.node = Node(k, Shr(idx, k) - 1 + Shr(Offset, k))
        BY <1>1, <3>1 DEF Waits
      <4>2. Shr(idx + 1, k) = Shr(idx, k)  BY <2>3, <2>4, <3>1
      <4> HIDE DEF k
      <4>3. /\ k \in 0 .. H' - p /\ Odd(Shr(idx', k))
            /\ e.node = Node(k, Shr(idx', k) - 1 + Shr(Offset', k))
        BY <1>3, <1>5, <4>1, <4>2
      <4> QED  BY <1>0, <4>3 DEF Waits, k
    <3>2. CASE p = n
      <4>1. k = t /\ e.node = Node(t, Shr(idx, t) + Shr(Offset, t))  BY <1>2, <3>2 DEF t
      <4>2. Shr(idx + 1, t) = Shr(idx, t) + 1 /\ Shr(idx, t) \in Nat  BY <1>1, <1>2, <2>3
      <4>3. Odd(Shr(idx + 1, t)) /\ Shr(idx + 1, t) - 1 = Shr(idx, t)  BY <2>2, <4>2 DEF Odd
      <4>4. k \in 0 .. H - p  BY <1>1, <1>2, <2>5, <3>2, <4>1
      <4> HIDE DEF k
      <4>5. /\ k \in 0 .. H' - p /\ Odd(Shr(idx', k))
            /\ e.node = Node(k, Shr(idx', k) - 1 + Shr(Offset', k))
        BY <1>3, <1>5, <4>1, <4>3, <4>4
      <4> QED  BY <1>0, <4>5 DEF Waits, k
    <3> QED  BY <2>7, <3>1, <3>2
  <2>9. ASSUME NEW p \in 1 .. n, NEW q \in 1 .. n, p < q
        PROVE  pile[p].height > pile[q].height
    <3>1. p \in 1 .. Held  BY <1>1, <1>2, <2>9
    <3>2. CASE q \in 1 .. Held  BY <1>1, <2>9, <3>1, <3>2
    <3>3. CASE q = n  BY <1>2, <2>4, <3>1, <3>3 DEF t
    <3> QED  BY <2>7, <3>2, <3>3
  <2>10. ASSUME NEW k \in Levels, Odd(Shr(idx + 1, k))
         PROVE  \E p \in 1 .. n : pile[p].height = k
    <3>0. k \in Nat /\ Shr(idx, k) \in Nat  BY <1>1 DEF Levels
    <3>1. CASE k < t
      <4>1. Shr(idx + 1, k) = Shr(idx, k) + 1 /\ Odd(Shr(idx, k))  BY <1>2, <2>3, <3>0, <3>1
      <4> QED  BY <2>10, <3>0, <4>1 DEF Odd
    <3>2. CASE k = t
      <4>1. n \in 1 .. n  BY <1>1, <1>2
      <4> QED  BY <1>2, <3>2, <4>1 DEF t
    <3>3. CASE k > t
      <4>1. Odd(Shr(idx, k)) /\ k >= t  BY <1>2, <2>3, <2>10, <3>0, <3>3
      <4>2. \E p \in 1 .. Held : pile[p].height = k  BY <1>1, <4>1 DEF t
      <4>3. \A p \in 1 .. Held : p \in 1 .. n  BY <1>1, <1>2
      <4> QED  BY <4>2, <4>3
    <3> QED  BY <1>2, <3>0, <3>1, <3>2, <3>3
  <2>11. LoopPile'
    <3>1. pile \in Seq([node : Nodes \cup {Junk}, height : Nat])  BY <1>1 DEF Entries
    <3>2. \A p \in 1 .. Held' : Waits(pile[p], p)'  BY <2>6, <2>8
    <3>3. \A p, q \in 1 .. Held' : p < q => pile[p].height > pile[q].height  BY <2>6, <2>9
    <3>4. \A k \in Levels : Odd(Shr(idx', k)) => \E p \in 1 .. Held' : pile[p].height = k
      BY <1>5, <2>6, <2>10
    <3> QED  BY <1>0, <1>3, <1>5, <3>1, <3>2, <3>3, <3>4 DEF LoopPile
  <2>12. PathNow(auth_path, idx + 1, 0)  BY ONLY <1>1, <1>2, <2>2, PathPush
  <2>13. PathNow(auth_path', idx', Reached')
    <3>1. Reached' = 0  BY <1>5 DEF Reached
    <3> QED  BY <1>0, <1>5, <2>12, <3>1
  <2>14. Len(pile') <= H + 1 /\ idx' \in Nat /\ idx' < Pow2[H]
    <3>1. n <= H + 1  BY <1>n
    <3>2. Len(pile') = n  BY <1>0 DEF n
    <3> QED  BY <1>n, <1>5, <3>1, <3>2
  <2>15. auth_path' \in [Levels -> Nodes \cup {Junk, None}] /\ pc' \in {"leaf", "climb"} /\ pc \in {"leaf", "climb"}
         /\ UNCHANGED <<job, h, current, stack, left_adj, prev_left_adj, root, opened, checking>>
    BY <1>0, <1>1, <1>5
  <2> QED  BY ONLY IInv, <1>0, <2>11, <2>13, <2>14, <2>15, PileFrame
<1>6. CASE idx = Pow2[H] - 1 /\ root' = pile[1].node /\ pc' = "built" /\ UNCHANGED idx
  <2>1. \A k \in 0 .. H - 1 : Odd(Shr(idx, k))
    <3>1. \A k \in 0 .. H - 1 : k \in 0 .. H /\ k < H  BY <1>1
    <3> QED  BY <1>1, <1>6, <3>1, LastOnes
  <2>2. t = H
    <3>1. ~(t < H)
      <4>1. t < H => t \in 0 .. H - 1  BY <1>1, <1>2
      <4> QED  BY <1>2, <2>1, <4>1
    <3> QED  BY <1>1, <1>2, <3>1
  <2>3. n = 1
    <3>1. ASSUME n # 1 PROVE FALSE
      <4>1. 1 \in 1 .. Held  BY <1>1, <1>2, <3>1
      <4>2. pile[1].height >= H /\ pile[1].height \in 0 .. H - 1  BY <1>2, <1>4, <2>2, <4>1
      <4> QED  BY <1>n, <4>2
    <3> QED  BY <3>1
  <2>4. root' = Node(H, job.tree)
    <3>1. Shr(idx, H) = 0  BY ONLY <1>n, H >= H, ShrZero
    <3>2. Shr(Offset, H) = job.tree /\ job.tree \in Nat  BY <1>1, OffsetFacts, JobFacts
    <3>3. 0 + job.tree = job.tree  BY <3>2
    <3> QED  BY <1>2, <1>6, <2>2, <2>3, <3>1, <3>2, <3>3
  <2>5. opened = job.leaf + Offset /\ \A k \in Levels : auth_path[k] = Beside(k)
    <3>1. PathNow(auth_path, idx, H)
      <4>1. H + 1 \in Nat /\ H + 1 >= H  BY <1>1
      <4>2. PathNow(auth_path, idx, H + 1)  BY <1>2, <2>2
      <4> QED  BY ONLY <1>1, <4>1, <4>2, PathBeyond
    <3>2. \A k \in 0 .. Turns - 1 : Odd(Shr(idx, k))  BY <1>1, <2>1
    <3>3. OpenedOK /\ idx < Pow2[Turns]  BY <1>1 DEF IInv
    <3> QED  BY ONLY <1>0, <1>1, <3>1, <3>2, <3>3, BuiltFacts
  <2>6. \A k : Beside(k)' = Beside(k)  BY <1>0, <1>3 DEF Beside
  <2>7. BuildsTheTree'  BY <1>0, <1>1, <1>3, <1>6, <2>4, <2>5, <2>6 DEF BuildsTheTree, Beside
  <2>8. TypeOK'
    <3>1. root' \in Nodes \cup {Junk, None}
      <4>1. job.tree \in Nat  BY <1>1, JobFacts
      <4> QED  BY <1>1, <2>4, <4>1, NodeType
    <3>2. TypeOK  BY DEF IInv
    <3> QED  BY <1>0, <1>3, <1>6, <3>1, <3>2 DEF TypeOK, checking
  <2>9. Loops'
    <3>1. pile \in Seq([node : Nodes \cup {Junk}, height : Nat])  BY <1>1 DEF Entries
    <3> QED  BY <1>0, <1>6, <3>1 DEF Loops, LoopPile
  <2>10. Counting' /\ PathOK' /\ OpenedOK' /\ ClimbOK' /\ VerifierAgrees'
    BY <1>0, <1>1, <1>3, <1>6 DEF Counting, PathOK, OpenedOK, ClimbOK, VerifierAgrees
  <2> QED  BY <2>7, <2>8, <2>9, <2>10 DEF IInv
<1> QED  BY <1>5, <1>6 DEF PileNext

----------------------------------------------------------------------------
(* compute_root                                                            *)

\* What the signer has published when the tree is built.
LEMMA Published ==
    ASSUME IInv, pc \in {"built", "check"}, job.leaf # NO_SIGN_LEAF
    PROVE  /\ job \in Jobs /\ H \in Nat /\ H >= 3 /\ job.leaf \in Nat
           /\ root = Node(H, job.tree) /\ opened = job.leaf + Offset
           /\ auth_path \in [Levels -> Nodes \cup {Junk, None}]
           /\ \A k \in Levels : auth_path[k] = Beside(k)
           /\ \A k \in 0 .. H : /\ k \in Nat /\ Shr(job.leaf, k) \in Nat
                                /\ Shr(Offset, k) \in Nat
                                /\ Node(k, Shr(job.leaf, k) + Shr(Offset, k)) \in Nodes
<1>1. job \in Jobs /\ BuildsTheTree /\ auth_path \in [Levels -> Nodes \cup {Junk, None}]
  BY DEF IInv, TypeOK
<1>2. H \in Nat /\ H >= 3 /\ job.leaf \in Nat  BY <1>1, JobFacts
<1>3. \A k \in 0 .. H : k \in Nat /\ Shr(job.leaf, k) \in Nat /\ Shr(Offset, k) \in Nat
  <2>1. \A k \in 0 .. H : k \in Nat  BY <1>2
  <2> QED  BY <1>1, <1>2, <2>1, ShrDef, OffsetFacts
<1>4. \A k \in 0 .. H : Node(k, Shr(job.leaf, k) + Shr(Offset, k)) \in Nodes
  BY <1>3, NodeType
<1>5. /\ root = Node(H, job.tree) /\ opened = job.leaf + Offset
      /\ \A k \in Levels : auth_path[k] = Beside(k)
  BY <1>1 DEF BuildsTheTree, Beside
<1> QED  BY <1>1, <1>2, <1>3, <1>4, <1>5

\* Two neighbours hash to the node above them.
LEMMA ParentIs ==
    ASSUME IInv, pc = "check"
    PROVE  /\ i \in Levels /\ job.leaf # NO_SIGN_LEAF
           /\ Parent = Node(i + 1, Shr(job.leaf, i + 1) + Shr(Offset, i + 1))
<1>0. /\ i \in Levels /\ job.leaf # NO_SIGN_LEAF
      /\ buffer = Pair(Node(i, Shr(job.leaf, i) + Shr(Offset, i)), auth_path[i], Shr(job.leaf, i))
  BY DEF IInv, TypeOK, ClimbOK
<1>1. job \in Jobs /\ H \in Nat /\ job.leaf \in Nat /\ auth_path[i] = Beside(i)
  BY <1>0, Published
<1>2. i \in Nat /\ i \in 0 .. H - 1 /\ i + 1 \in 0 .. H  BY <1>0, <1>1 DEF Levels
<1> DEFINE x == Shr(job.leaf, i)
           y == Shr(job.leaf, i + 1)
           o == Shr(Offset, i + 1)
           z == y + o
<1>3. x \in Nat /\ y = x \div 2  BY <1>1, <1>2, ShrDef
<1>4. Shr(Offset, i) = 2 * o /\ o \in Nat  BY <1>1, <1>2, OffsetFacts
<1>5. auth_path[i] = Node(i, Sibling(x) + 2 * o)  BY <1>1, <1>4 DEF Beside
<1>6. buffer = Pair(Node(i, x + 2 * o), auth_path[i], x)  BY <1>0, <1>4
<1>7. Parent = Thash(buffer[1], buffer[2], i + 1, z)  BY DEF Parent
<1> HIDE DEF x, y, o
<1>8. buffer[1] = Node(i, 2 * z) /\ buffer[2] = Node(i, 2 * z + 1)
  <2>1. CASE Odd(x)
    <3>1. Sibling(x) + 2 * o = 2 * z /\ x + 2 * o = 2 * z + 1  BY <1>3, <1>4, <2>1, Parity
    <3>2. buffer = <<auth_path[i], Node(i, x + 2 * o)>>  BY <1>6, <2>1 DEF Pair
    <3> HIDE DEF z
    <3> QED  BY <1>5, <3>1, <3>2
  <2>2. CASE ~Odd(x)
    <3>1. Sibling(x) + 2 * o = 2 * z + 1 /\ x + 2 * o = 2 * z  BY <1>3, <1>4, <2>2, Parity
    <3>2. buffer = <<Node(i, x + 2 * o), auth_path[i]>>  BY <1>6, <2>2 DEF Pair
    <3> HIDE DEF z
    <3> QED  BY <1>5, <3>1, <3>2
  <2> QED  BY <2>1, <2>2
<1> HIDE DEF z
<1>9. Thash(buffer[1], buffer[2], i + 1, z) = Node(i + 1, z)  BY <1>2, <1>8, ThashNode
<1>10. Parent = Node(i + 1, z)  BY <1>7, <1>9
<1> QED  BY <1>0, <1>10 DEF z, y, o

\* The verifier's actions leave the builder's variables alone.
LEMMA CheckFrame ==
    ASSUME IInv, pc \in {"built", "check"}, pc' \in {"check", "done"}, TypeOK', ClimbOK',
           VerifierAgrees',
           UNCHANGED <<job, idx, h, current, stack, left_adj, prev_left_adj, pile, outputs>>
    PROVE  IInv'
<1>1. H' = H /\ Levels' = Levels /\ Offset' = Offset /\ Turns' = Turns  BY DEF H, Levels, Offset, Turns
<1>2. Counting'  BY <1>1 DEF IInv, Counting
<1>3. Loops'
  <2>1. job.by = "stack" => pile \in Seq([node : Nodes \cup {Junk}, height : Nat])
    BY DEF IInv, Loops, LoopPile
  <2>2. job.by # "stack" => pile = <<>>  BY DEF IInv, Loops
  <2>3. LoopX1' /\ LoopX8'  BY DEF LoopX1, LoopX8
  <2>4. job.by = "stack" => LoopPile'  BY <2>1 DEF LoopPile
  <2> QED  BY <2>2, <2>3, <2>4 DEF Loops
<1>4. PathOK' /\ OpenedOK'  BY DEF PathOK, OpenedOK
<1>5. BuildsTheTree'  BY <1>1 DEF IInv, BuildsTheTree, outputs
<1> QED  BY <1>2, <1>3, <1>4, <1>5 DEF IInv

LEMMA RootOpenInv == ASSUME IInv, RootOpen PROVE IInv'
<1> DEFINE leaf == IF job.kind = "fors" THEN ForsLeafFromSig ELSE WotsLeafFromSig
<1>0. /\ pc = "built" /\ job.leaf # NO_SIGN_LEAF /\ pc' = "check" /\ i' = 0
      /\ buffer' = Pair(leaf, auth_path[0], job.leaf)
      /\ UNCHANGED <<job, idx, h, current, stack, left_adj, prev_left_adj, pile, outputs, computed>>
  BY DEF RootOpen
<1>1. /\ job \in Jobs /\ H \in Nat /\ H >= 3 /\ job.leaf \in Nat
      /\ opened = job.leaf + Offset /\ auth_path \in [Levels -> Nodes \cup {Junk, None}]
      /\ Node(0, Shr(job.leaf, 0) + Shr(Offset, 0)) \in Nodes
  <2>1. H \in Nat /\ H >= 3  BY <1>0, Published
  <2>2. 0 \in 0 .. H  BY <2>1
  <2> QED  BY <1>0, <2>2, Published
<1>2. Shr(job.leaf, 0) = job.leaf /\ Shr(Offset, 0) = Offset /\ Offset \in Nat
      /\ job.kind \in {"merkle", "fors"} /\ (job.kind = "merkle" => Offset = 0)
  BY <1>1, ShrDef, OffsetFacts, JobFacts
<1>3. leaf = Node(0, Shr(job.leaf, 0) + Shr(Offset, 0))
  <2>1. CASE job.kind = "fors"  BY <1>1, <1>2, <2>1 DEF ForsLeafFromSig
  <2>2. CASE job.kind = "merkle"
    <3>1. opened = job.leaf  BY <1>1, <1>2, <2>2
    <3> QED  BY <1>1, <1>2, <2>2, <3>1 DEF WotsLeafFromSig
  <2> QED  BY <1>2, <2>1, <2>2
<1> HIDE DEF leaf
<1>4. H' = H /\ Levels' = Levels /\ Offset' = Offset  BY <1>0 DEF H, Levels, Offset
<1>5. 0 \in Levels  BY <1>1 DEF Levels
<1>6. TypeOK'
  <2>1. leaf \in Nodes /\ auth_path[0] \in Nodes \cup {Junk, None}  BY <1>1, <1>3, <1>5
  <2>2. buffer'[1] \in Nodes \cup {Junk, None} /\ buffer'[2] \in Nodes \cup {Junk, None}
    <3>1. CASE Odd(job.leaf)  BY <1>0, <2>1, <3>1 DEF Pair
    <3>2. CASE ~Odd(job.leaf)  BY <1>0, <2>1, <3>2 DEF Pair
    <3> QED  BY <3>1, <3>2
  <2>3. TypeOK  BY DEF IInv
  <2> QED  BY <1>0, <1>4, <1>5, <2>2, <2>3 DEF TypeOK, outputs
<1>7. ClimbOK' /\ VerifierAgrees'
  <2>1. auth_path' = auth_path /\ job' = job  BY <1>0 DEF outputs
  <2>2. buffer' = Pair(Node(i', Shr(job'.leaf, i') + Shr(Offset', i')), auth_path'[i'],
                       Shr(job'.leaf, i'))
    BY <1>0, <1>2, <1>3, <1>4, <2>1
  <2> QED  BY <1>0, <2>1, <2>2 DEF ClimbOK, VerifierAgrees
<1> QED  BY <1>0, <1>6, <1>7, CheckFrame

LEMMA RootTurnInv == ASSUME IInv, RootTurn PROVE IInv'
<1>0. /\ pc = "check" /\ pc' = "check" /\ i < H - 1 /\ i' = i + 1
      /\ buffer' = Pair(Parent, auth_path[i + 1], Shr(job.leaf, i + 1))
      /\ UNCHANGED <<pc, job, idx, h, current, stack, left_adj, prev_left_adj, pile, outputs, computed>>
  BY DEF RootTurn
<1>1. /\ i \in Levels /\ job.leaf # NO_SIGN_LEAF
      /\ Parent = Node(i + 1, Shr(job.leaf, i + 1) + Shr(Offset, i + 1))
  BY <1>0, ParentIs
<1>2. H \in Nat /\ auth_path \in [Levels -> Nodes \cup {Junk, None}]  BY <1>0, <1>1, Published
<1>3. i + 1 \in Levels /\ i + 1 \in 0 .. H  BY <1>0, <1>1, <1>2 DEF Levels
<1>4. Parent \in Nodes  BY <1>0, <1>1, <1>3, Published
<1>5. H' = H /\ Levels' = Levels /\ Offset' = Offset  BY <1>0 DEF H, Levels, Offset
<1>6. TypeOK'
  <2>1. auth_path[i + 1] \in Nodes \cup {Junk, None}  BY <1>2, <1>3
  <2>2. buffer'[1] \in Nodes \cup {Junk, None} /\ buffer'[2] \in Nodes \cup {Junk, None}
    <3>1. CASE Odd(Shr(job.leaf, i + 1))  BY <1>0, <1>4, <2>1, <3>1 DEF Pair
    <3>2. CASE ~Odd(Shr(job.leaf, i + 1))  BY <1>0, <1>4, <2>1, <3>2 DEF Pair
    <3> QED  BY <3>1, <3>2
  <2>3. TypeOK  BY DEF IInv
  <2> QED  BY <1>0, <1>3, <1>5, <2>2, <2>3 DEF TypeOK, outputs
<1>7. ClimbOK' /\ VerifierAgrees'
  <2>1. auth_path' = auth_path /\ job' = job  BY <1>0 DEF outputs
  <2>2. buffer' = Pair(Node(i', Shr(job'.leaf, i') + Shr(Offset', i')), auth_path'[i'],
                       Shr(job'.leaf, i'))
    BY <1>0, <1>1, <1>5, <2>1
  <2> QED  BY <1>0, <1>1, <2>1, <2>2 DEF ClimbOK, VerifierAgrees
<1> QED  BY <1>0, <1>6, <1>7, CheckFrame

LEMMA RootCloseInv == ASSUME IInv, RootClose PROVE IInv'
<1>0. /\ pc = "check" /\ pc' = "done" /\ i = H - 1 /\ computed' = Parent
      /\ UNCHANGED <<job, idx, h, current, stack, left_adj, prev_left_adj, pile, outputs, buffer, i>>
  BY DEF RootClose
<1>1. /\ job.leaf # NO_SIGN_LEAF
      /\ Parent = Node(i + 1, Shr(job.leaf, i + 1) + Shr(Offset, i + 1))
  BY <1>0, ParentIs
<1>2. job \in Jobs /\ H \in Nat /\ job.leaf \in Nat /\ root = Node(H, job.tree)
  BY <1>0, <1>1, Published
<1>3. Parent = root
  <2>1. i + 1 = H  BY <1>0, <1>2
  <2>2. job.leaf < Pow2[H] /\ Shr(Offset, H) = job.tree /\ job.tree \in Nat
    BY <1>1, <1>2, JobFacts, OffsetFacts
  <2>3. Shr(job.leaf, H) = 0  BY <1>2, <2>2, ShrZero
  <2>4. 0 + job.tree = job.tree  BY <2>2
  <2> QED  BY <1>1, <1>2, <2>1, <2>2, <2>3, <2>4
<1>4. TypeOK'
  <2>1. TypeOK  BY DEF IInv
  <2>2. computed' \in Nodes \cup {Junk, None}  BY <1>0, <1>3, <2>1 DEF TypeOK
  <2>3. H' = H /\ Levels' = Levels  BY <1>0 DEF H, Levels
  <2> QED  BY <1>0, <2>1, <2>2, <2>3 DEF TypeOK, outputs
<1>5. ClimbOK' /\ VerifierAgrees'
  <2>1. root' = root /\ job' = job  BY <1>0 DEF outputs
  <2> QED  BY <1>0, <1>1, <1>3, <2>1 DEF ClimbOK, VerifierAgrees
<1> QED  BY <1>0, <1>4, <1>5, CheckFrame

LEMMA StutterInv == ASSUME IInv, UNCHANGED vars PROVE IInv'
<1>1. UNCHANGED <<pc, job, idx, h, current, stack, left_adj, prev_left_adj, pile, auth_path, root,
                  opened, buffer, i, computed>>
  BY DEF vars, outputs, checking
<1>2. /\ H' = H /\ Levels' = Levels /\ Offset' = Offset /\ Width' = Width /\ Turns' = Turns
      /\ PileTop' = PileTop /\ Held' = Held
  BY <1>1 DEF H, Levels, Offset, Width, Turns, PileTop, Held
<1>3. /\ \A k : Group(k)' = Group(k) /\ Beside(k)' = Beside(k) /\ Above(k)' = Above(k)
      /\ \A p : Waits(pile[p], p)' <=> Waits(pile[p], p)
      /\ Reached' = Reached /\ Made' = Made
  BY <1>1, <1>2 DEF Group, Beside, Above, Waits, Reached, Made
<1>4. TypeOK' /\ Counting'  BY <1>1, <1>2 DEF IInv, TypeOK, Counting
<1>5. Loops'
  <2>1. LoopX1 => LoopX1'
    <3>1. current'[0] = Above(h)' <=> current[0] = Above(h)  BY <1>1, <1>2 DEF Above
    <3> QED  BY <1>1, <1>2, <3>1 DEF LoopX1
  <2>2. LoopX8 => LoopX8'  BY <1>1, <1>2 DEF LoopX8
  <2>3. LoopPile => LoopPile'
    <3>1. PileTop'.node = Above(PileTop.height)' <=> PileTop.node = Above(PileTop.height)
      BY <1>1, <1>2 DEF Above
    <3> QED  BY <1>1, <1>2, <1>3, <3>1 DEF LoopPile
  <2> QED  BY <1>1, <2>1, <2>2, <2>3 DEF IInv, Loops
<1>6. PathOK'
  <2>1. PathNow(auth_path, idx, Reached)' <=> PathNow(auth_path, idx, Reached)
    BY <1>1, <1>2, <1>3 DEF PathNow
  <2> QED  BY <1>1, <1>2, <2>1 DEF IInv, PathOK
<1>7. OpenedOK'  BY <1>1, <1>2, <1>3 DEF IInv, OpenedOK
<1>8. BuildsTheTree' /\ ClimbOK' /\ VerifierAgrees'
  BY <1>1, <1>2 DEF IInv, BuildsTheTree, ClimbOK, VerifierAgrees
<1> QED  BY <1>4, <1>5, <1>6, <1>7, <1>8 DEF IInv

----------------------------------------------------------------------------
(* The theorems.                                                           *)

\* The inductive invariant holds at all times: the initial state satisfies it
\* and every action of the builders and of compute_root preserves it.
THEOREM Invariance == Spec => []IInv
<1>1. IInv /\ [Next]_vars => IInv'
  <2> SUFFICES ASSUME IInv, [Next]_vars PROVE IInv'  OBVIOUS
  <2>1. CASE MerkleStart \/ ForsStart  BY <2>1, StartInv
  <2>2. CASE ForsLeafX1 \/ ForsLeafX8  BY <2>2, ForsLeafInv
  <2>3. CASE WotsLeafX1 \/ WotsLeafX8  BY <2>3, WotsLeafInv
  <2>4. CASE ClimbX1  BY <2>4, ClimbX1Inv
  <2>5. CASE ClimbX8  BY <2>5, ClimbX8Inv
  <2>6. CASE PileLeaf  BY <2>6, PileLeafInv
  <2>7. CASE PileMerge  BY <2>7, PileMergeInv
  <2>8. CASE PileNext  BY <2>8, PileNextInv
  <2>9. CASE RootOpen  BY <2>9, RootOpenInv
  <2>10. CASE RootTurn  BY <2>10, RootTurnInv
  <2>11. CASE RootClose  BY <2>11, RootCloseInv
  <2>12. CASE Finished \/ UNCHANGED vars  BY <2>12, StutterInv DEF Finished
  <2> QED
    BY <2>1, <2>2, <2>3, <2>4, <2>5, <2>6, <2>7, <2>8, <2>9, <2>10, <2>11, <2>12 DEF Next
<1> QED  BY InitInv, <1>1, PTL DEF Spec

\* treehashx1, treehashx8 and treehash all produce the root, the authentication
\* path of the selected leaf and its opening, for every height, tree and leaf.
THEOREM TreeBuilt == Spec => []BuildsTheTree
<1>1. IInv => BuildsTheTree  BY DEF IInv
<1> QED  BY Invariance, <1>1, PTL

\* While the scalar and the eight-lane loop climb, the left siblings they will
\* read wait on the stack, and nothing is read or written outside the buffers.
THEOREM SiblingsWait == Spec => []StackHoldsSiblings
<1>1. ASSUME IInv PROVE StackHoldsSiblings
  <2>1. TypeOK /\ job \in Jobs /\ h \in 0 .. H  BY <1>1 DEF IInv, TypeOK
  <2>2. H \in Nat  BY <2>1, JobFacts
  <2>3. /\ \A k \in h .. H - 1 : k \in Levels /\ k >= h
        /\ \A k \in h .. H - 4 : k \in 0 .. H - 4 /\ k >= h
    BY <2>1, <2>2 DEF Levels
  <2>4. ASSUME pc = "climb", job.by = "x1"
        PROVE  /\ current[0] = Node(h, Shr(idx, h) + Shr(Offset, h))
               /\ \A k \in h .. H - 1 : Odd(Shr(idx, k)) =>
                      stack[k][0] = Node(k, Shr(idx, k) - 1 + Shr(Offset, k))
    <3>1. LoopX1  BY <1>1, <2>4 DEF IInv, Loops
    <3> QED  BY <2>3, <2>4, <3>1 DEF LoopX1, Above
  <2>5. ASSUME pc = "climb", job.by = "x8", h <= H - 3, NEW j \in Lanes
        PROVE  /\ current[j] = Node(h, 8 * Shr(idx, h) + j + Shr(Offset, h))
               /\ \A k \in h .. H - 4 : Odd(Shr(idx, k)) =>
                     stack[k][j] = Node(k, 8 * (Shr(idx, k) - 1) + j + Shr(Offset, k))
    <3>1. LoopX8  BY <1>1, <2>5 DEF IInv, Loops
    <3> QED  BY <2>3, <2>5, <3>1 DEF LoopX8
  <2> QED  BY <2>1, <2>4, <2>5 DEF StackHoldsSiblings
<1> QED  BY Invariance, <1>1, PTL

\* compute_root, climbing from the opened leaf along the published path, arrives
\* at the root the signer built.
THEOREM VerifierReachesRoot == Spec => []VerifierAgrees
<1>1. IInv => VerifierAgrees  BY DEF IInv
<1> QED  BY Invariance, <1>1, PTL
=============================================================================
