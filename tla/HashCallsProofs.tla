---------------------------- MODULE HashCallsProofs ----------------------------
(***************************************************************************)
(* Proofs about WotsChain, for every size of digest and digit, every       *)
(* number of lanes and key pairs, every limit and every hash function:     *)
(* base_w yields digits, the fixed checksum keeps a signature to its own   *)
(* digest, and the verifier completes it to the signer's public key.       *)
(*                                                                         *)
(* Then about HashAddress, for every height and number of layers, trees    *)
(* and chains its fields hold, and every sequence of calls: an address     *)
(* names one hash, and the verifier makes only hashes of the signer.       *)
(*                                                                         *)
(* Then about DigestFields, for every size of bytes and fields: no bit of  *)
(* a digest is read for two fields, and all of theirs are.                 *)
(***************************************************************************)
EXTENDS HashCalls, FiniteSetTheorems, WellFoundedInduction, TLAPS

----------------------------------------------------------------------------
(* Induction, recursion and division.                                      *)

\* Induction over the naturals, for a set instead of a predicate.
LEMMA Induct ==
    ASSUME NEW S, 0 \in S, \A n \in Nat : n \in S => n + 1 \in S
    PROVE  Nat \subseteq S
<1> DEFINE T == Nat \ S
<1>1. SUFFICES ASSUME T # {} PROVE FALSE OBVIOUS
<1>2. IsWellFoundedOn(OpToRel(<, Nat), Nat) BY NatLessThanWellFounded
<1>3. \E x \in T : \A y \in T : ~(<<y, x>> \in OpToRel(<, Nat)) BY <1>1, <1>2, WFMin
<1>4. PICK x \in T : \A y \in T : ~(<<y, x>> \in OpToRel(<, Nat)) BY <1>3
<1>5. \A y \in T : ~(y < x) BY <1>4 DEF OpToRel
<1>6. x # 0 /\ x - 1 \in Nat /\ x - 1 \in S BY <1>5
<1>7. x - 1 + 1 = x BY <1>6
<1> QED BY <1>6, <1>7

\* A function defined by recursion on 0 .. m exists.
Iterates(g, m, a, F) == g[0] = a /\ \A i \in 1 .. m : g[i] = F[<<i, g[i - 1]>>]

LEMMA Recursion ==
    ASSUME NEW m \in Nat, NEW S, NEW a \in S, NEW F \in [(1 .. m) \X S -> S]
    PROVE  \E g \in [0 .. m -> S] : Iterates(g, m, a, F)
<1> DEFINE Part(n) == {g \in [0 .. n -> S] : Iterates(g, n, a, F)}
           T == {n \in Nat : n <= m => Part(n) # {}}
<1>1. 0 \in T
  <2> DEFINE g == [i \in 0 .. 0 |-> a]
  <2>1. g \in [0 .. 0 -> S] /\ Iterates(g, 0, a, F)  BY DEF Iterates
  <2> QED  BY <2>1
<1>2. ASSUME NEW n \in Nat, n \in T PROVE n + 1 \in T
  <2> SUFFICES ASSUME n + 1 <= m PROVE Part(n + 1) # {}  OBVIOUS
  <2>1. PICK g \in Part(n) : TRUE  BY <1>2
  <2> DEFINE e == [i \in 0 .. n + 1 |-> IF i = n + 1 THEN F[<<i, g[n]>>] ELSE g[i]]
  <2>2. g[n] \in S /\ <<n + 1, g[n]>> \in (1 .. m) \X S  BY <2>1
  <2>3. e \in [0 .. n + 1 -> S]  BY <2>1, <2>2
  <2>4. Iterates(e, n + 1, a, F)
    <3>1. e[0] = a  BY <2>1 DEF Iterates
    <3>2. ASSUME NEW i \in 1 .. n + 1 PROVE e[i] = F[<<i, e[i - 1]>>]
      <4>1. CASE i = n + 1  BY <4>1
      <4>2. CASE i \in 1 .. n
        <5>1. g[i] = F[<<i, g[i - 1]>>]  BY <2>1, <4>2 DEF Iterates
        <5>2. e[i] = g[i] /\ e[i - 1] = g[i - 1]  BY <4>2
        <5> QED  BY <5>1, <5>2
      <4> QED  BY <4>1, <4>2
    <3> QED  BY <3>1, <3>2 DEF Iterates
  <2> QED  BY <2>3, <2>4
<1>3. Nat \subseteq T
  <2> HIDE DEF T
  <2> QED  BY <1>1, <1>2, Induct
<1>4. Part(m) # {}  BY <1>3
<1> QED  BY <1>4

\* Quotient and remainder.
LEMMA DivMod ==
    ASSUME NEW a \in Nat, NEW b \in Nat \ {0}
    PROVE  \E q \in Nat, r \in 0 .. b - 1 : q = a \div b /\ r = a % b /\ a = b * q + r
<1> DEFINE q == a \div b
           r == a % b
<1>1. r \in 0 .. b - 1 /\ q \in Int /\ a - b * q = r  OBVIOUS
<1> HIDE DEF q, r
<1>2. b * q \in Int  BY <1>1
<1>3. a = b * q + r  BY <1>1, <1>2
<1>4. q >= 0  BY <1>1, <1>3
<1>5. q \in Nat  BY <1>1, <1>4
<1> QED  BY <1>1, <1>3, <1>5 DEF q, r

LEMMA DivExact ==
    ASSUME NEW a \in Nat, NEW b \in Nat \ {0}
    PROVE  (b * a) \div b = a
OBVIOUS

LEMMA MulNat == ASSUME NEW a \in Nat, NEW b \in Nat PROVE a * b \in Nat
OBVIOUS
LEMMA MulLess ==
    ASSUME NEW a \in Nat, NEW b \in Nat, NEW d \in Nat \ {0}, d * a < d * b
    PROVE  a < b
OBVIOUS

----------------------------------------------------------------------------
(* Digits and checksum.                                                    *)

LEMMA Sizes ==
    ASSUME WotsAssumption
    PROVE  /\ N \in Nat \ {0} /\ BYTE_BITS \in Nat \ {0} /\ LOGW \in Nat \ {0}
           /\ LANES \in Nat \ {0} /\ Leaves \in Nat \ {0}
BY DEF WotsAssumption

LEMMA Pow2Positive ==
    ASSUME WotsAssumption PROVE \A n \in 0 .. BYTE_BITS : Pow2[n] \in Nat \ {0}
<1> DEFINE S == Nat \ {0}
           F == [p \in (1 .. BYTE_BITS) \X S |-> 2 * p[2]]
<1>1. BYTE_BITS \in Nat /\ 1 \in S  BY Sizes
<1>2. F \in [(1 .. BYTE_BITS) \X S -> S]  OBVIOUS
<1> HIDE DEF S, F
<1>3. PICK g \in [0 .. BYTE_BITS -> S] : Iterates(g, BYTE_BITS, 1, F)  BY <1>1, <1>2, Recursion
<1>4. g = [n \in 0 .. BYTE_BITS |-> IF n = 0 THEN 1 ELSE 2 * g[n - 1]]
  <2>1. ASSUME NEW n \in 0 .. BYTE_BITS, n # 0 PROVE g[n] = 2 * g[n - 1]
    <3>1. n \in 1 .. BYTE_BITS /\ n - 1 \in 0 .. BYTE_BITS  BY <1>1, <2>1
    <3>2. g[n] = F[<<n, g[n - 1]>>]  BY <1>3, <3>1 DEF Iterates
    <3>3. <<n, g[n - 1]>> \in (1 .. BYTE_BITS) \X S  BY <3>1
    <3> QED  BY <3>2, <3>3 DEF F
  <2>2. g[0] = 1  BY <1>3 DEF Iterates
  <2> QED  BY <2>1, <2>2
<1>5. Pow2 = [n \in 0 .. BYTE_BITS |-> IF n = 0 THEN 1 ELSE 2 * Pow2[n - 1]]  BY <1>4 DEF Pow2
<1> DEFINE T == {n \in Nat : n <= BYTE_BITS => Pow2[n] \in Nat \ {0}}
<1>6. 0 \in T  BY <1>1, <1>5
<1>7. ASSUME NEW n \in Nat, n \in T PROVE n + 1 \in T
  <2> SUFFICES ASSUME n + 1 <= BYTE_BITS PROVE Pow2[n + 1] \in Nat \ {0}  OBVIOUS
  <2>1. n + 1 \in 0 .. BYTE_BITS /\ n + 1 # 0 /\ n + 1 - 1 = n /\ n <= BYTE_BITS  BY <1>1
  <2>2. Pow2[n + 1] = 2 * Pow2[n]  BY <1>5, <2>1
  <2> QED  BY <1>7, <2>1, <2>2
<1> HIDE DEF T
<1>8. Nat \subseteq T  BY <1>6, <1>7, Induct
<1> QED  BY <1>1, <1>8 DEF T

\* How many digits a byte has, and a digest.
PER == BYTE_BITS \div LOGW

LEMMA Per ==
    ASSUME WotsAssumption
    PROVE  PER \in Nat \ {0} /\ BYTE_BITS = LOGW * PER /\ LEN = N * PER /\ LEN \in Nat \ {0}
<1>1. BYTE_BITS = LOGW * PER + 0 /\ PER \in Nat
  <2>1. BYTE_BITS % LOGW = 0  BY DEF WotsAssumption
  <2>2. PICK q \in Nat, r \in 0 .. LOGW - 1 :
            q = BYTE_BITS \div LOGW /\ r = BYTE_BITS % LOGW /\ BYTE_BITS = LOGW * q + r
    BY Sizes, DivMod
  <2>3. r = 0 /\ PER = q  BY <2>1, <2>2 DEF PER
  <2> QED  BY <2>2, <2>3
<1>2. BYTE_BITS = LOGW * PER  BY <1>1, Sizes
<1>3. PER # 0  BY <1>2, Sizes
<1>4. N * PER \in Nat /\ N * PER # 0  BY <1>1, <1>3, Sizes
<1>5. N * BYTE_BITS = LOGW * (N * PER)  BY <1>1, <1>2, Sizes
<1>6. LEN = N * PER  BY <1>4, <1>5, Sizes, DivExact DEF LEN
<1> QED  BY <1>1, <1>2, <1>3, <1>4, <1>6

LEMMA WPositive == ASSUME WotsAssumption PROVE W \in Nat \ {0} /\ LOGW <= BYTE_BITS
<1>1. PER \in Nat \ {0} /\ BYTE_BITS = LOGW * PER /\ LOGW \in Nat \ {0}  BY Per, Sizes
<1>2. LOGW * PER >= LOGW  BY <1>1
<1>3. LOGW <= BYTE_BITS  BY <1>1, <1>2
<1> QED  BY <1>3, Sizes, Pow2Positive DEF W

CutStep(input, s) ==
    IF s.bits = 0 THEN [bits |-> BYTE_BITS - LOGW, in |-> s.in + 1, total |-> input[s.in]]
    ELSE [bits |-> s.bits - LOGW, in |-> s.in, total |-> s.total]

\* The loop of base_w as an equation.
LEMMA CutIs ==
    ASSUME WotsAssumption, NEW input
    PROVE  /\ Cut(input)[0] = [bits |-> 0, in |-> 0, total |-> 0]
           /\ \A x \in 1 .. LEN : Cut(input)[x] = CutStep(input, Cut(input)[x - 1])
<1> DEFINE S == [bits : Int, in : Nat, total : {0} \cup {input[j] : j \in Nat}]
           a == [bits |-> 0, in |-> 0, total |-> 0]
           F == [p \in (1 .. LEN) \X S |-> CutStep(input, p[2])]
           Body(g) == [x \in 0 .. LEN |-> IF x = 0 THEN a ELSE CutStep(input, g[x - 1])]
<1>1. LEN \in Nat  BY Per
<1>2. a \in S  OBVIOUS
<1>3. ASSUME NEW s \in S PROVE CutStep(input, s) \in S
  BY Sizes DEF CutStep
<1>4. F \in [(1 .. LEN) \X S -> S]  BY <1>3
<1>5. \A x \in 1 .. LEN, s \in S : F[<<x, s>>] = CutStep(input, s)  OBVIOUS
<1> HIDE DEF S, F, a
<1>6. PICK g \in [0 .. LEN -> S] : Iterates(g, LEN, a, F)  BY <1>1, <1>2, <1>4, Recursion
<1>7. g = Body(g)
  <2>1. ASSUME NEW x \in 0 .. LEN, x # 0 PROVE g[x] = CutStep(input, g[x - 1])
    <3>1. x \in 1 .. LEN /\ x - 1 \in 0 .. LEN  BY <1>1, <2>1
    <3>2. g[x] = F[<<x, g[x - 1]>>] /\ g[x - 1] \in S  BY <1>6, <3>1 DEF Iterates
    <3> QED  BY <1>5, <3>1, <3>2
  <2>2. g[0] = a  BY <1>6 DEF Iterates
  <2> QED  BY <2>1, <2>2
<1>8. Cut(input) = Body(Cut(input))
  <2>1. Cut(input) = CHOOSE f : f = Body(f)  BY DEF Cut, CutStep, a
  <2> HIDE DEF Body
  <2> QED  BY <1>7, <2>1
<1>9. Cut(input)[0] = a  BY <1>1, <1>8
<1>10. ASSUME NEW x \in 1 .. LEN PROVE Cut(input)[x] = CutStep(input, Cut(input)[x - 1])
  <2>1. x \in 0 .. LEN /\ x # 0  BY <1>1
  <2> QED  BY <1>8, <2>1
<1> QED  BY <1>9, <1>10 DEF a

\* Digit x - 1 comes from the byte it should, and from its place in it.
Place(input, x, s) ==
    /\ s.in \in 0 .. N
    /\ \E m \in 0 .. PER - 1 : s.bits = LOGW * m /\ x = PER * s.in - m
    /\ s.in > 0 => s.total = input[s.in - 1]

LEMMA CutPlaces ==
    ASSUME WotsAssumption, NEW input PROVE \A x \in 0 .. LEN : Place(input, x, Cut(input)[x])
<1> DEFINE T == {x \in Nat : x <= LEN => Place(input, x, Cut(input)[x])}
<1>0. /\ PER \in Nat \ {0} /\ BYTE_BITS = LOGW * PER /\ LEN = N * PER /\ LEN \in Nat \ {0}
      /\ N \in Nat \ {0} /\ LOGW \in Nat \ {0} /\ BYTE_BITS \in Nat
  BY Per, Sizes
<1>1. 0 \in T
  <2>1. Cut(input)[0] = [bits |-> 0, in |-> 0, total |-> 0]  BY CutIs
  <2>2. 0 \in 0 .. PER - 1 /\ LOGW * 0 = 0 /\ 0 = PER * 0 - 0 /\ 0 \in 0 .. N  BY <1>0
  <2> QED  BY <2>1, <2>2 DEF Place
<1>2. ASSUME NEW x \in Nat, x \in T PROVE x + 1 \in T
  <2> SUFFICES ASSUME x + 1 <= LEN PROVE Place(input, x + 1, Cut(input)[x + 1])  OBVIOUS
  <2> DEFINE s == Cut(input)[x]
             e == Cut(input)[x + 1]
  <2>1. x <= LEN /\ x + 1 \in 1 .. LEN /\ x + 1 - 1 = x  BY <1>0
  <2>2. Place(input, x, s) /\ e = CutStep(input, s)  BY <1>2, <2>1, CutIs
  <2> HIDE DEF s, e
  <2>3. PICK m \in 0 .. PER - 1 : s.bits = LOGW * m /\ x = PER * s.in - m  BY <2>2 DEF Place
  <2>4. s.in \in 0 .. N /\ s.in \in Nat  BY <1>0, <2>2 DEF Place
  <2>5. CASE m = 0
    <3>1. s.bits = 0  BY <1>0, <2>3, <2>5
    <3>2. e.bits = BYTE_BITS - LOGW /\ e.in = s.in + 1 /\ e.total = input[s.in]
      BY <2>2, <3>1 DEF CutStep
    <3>3. x = PER * s.in  BY <1>0, <2>3, <2>4, <2>5
    <3>4. PER * s.in < PER * N
      <4>1. PER * N = LEN  BY <1>0
      <4> QED  BY <2>1, <3>3, <4>1, <1>0
    <3>5. s.in < N  BY <1>0, <2>4, <3>4, MulLess
    <3>6. BYTE_BITS - LOGW = LOGW * (PER - 1)  BY <1>0
    <3>7. PER * (s.in + 1) = PER * s.in + PER  BY <1>0, <2>4
    <3>8. x + 1 = PER * e.in - (PER - 1)
      <4>1. PER * e.in = x + PER  BY <3>2, <3>3, <3>7
      <4> QED  BY <1>0, <4>1
    <3>9. PER - 1 \in 0 .. PER - 1 /\ e.in \in 0 .. N /\ e.in - 1 = s.in
      <4>1. N \in Nat /\ PER \in Nat \ {0}  BY <1>0
      <4>2. \A y \in Nat : y < N => y + 1 \in 0 .. N /\ y + 1 - 1 = y  BY <4>1
      <4>3. PER - 1 \in 0 .. PER - 1  BY <4>1
      <4> QED  BY <2>4, <3>2, <3>5, <4>2, <4>3
    <3> QED  BY <3>2, <3>6, <3>8, <3>9 DEF Place, e
  <2>6. CASE m # 0
    <3>1. s.bits # 0  BY <1>0, <2>3, <2>6
    <3>2. e.bits = s.bits - LOGW /\ e.in = s.in /\ e.total = s.total  BY <2>2, <3>1 DEF CutStep
    <3>3. LOGW * m - LOGW = LOGW * (m - 1)  BY <1>0, <2>3
    <3>4. m - 1 \in 0 .. PER - 1  BY <1>0, <2>3, <2>6
    <3>5. PER * s.in \in Int  BY <1>0, <2>4
    <3>6. x + 1 = PER * s.in - (m - 1)  BY <1>0, <2>3, <3>5
    <3>7. s.in > 0 => s.total = input[s.in - 1]  BY <2>2 DEF Place
    <3> QED  BY <2>3, <2>4, <3>2, <3>3, <3>4, <3>6, <3>7 DEF Place, e
  <2> QED  BY <2>5, <2>6
<1> HIDE DEF T
<1>3. Nat \subseteq T  BY <1>1, <1>2, Induct
<1> QED  BY <1>0, <1>3 DEF T

\* So base_w returns digits.
LEMMA base_wType ==
    ASSUME WotsAssumption, NEW input \in Digests PROVE base_w(input) \in [Chains -> 0 .. W - 1]
<1>0. /\ PER \in Nat \ {0} /\ BYTE_BITS = LOGW * PER /\ LEN \in Nat \ {0}
      /\ N \in Nat \ {0} /\ LOGW \in Nat \ {0} /\ BYTE_BITS \in Nat /\ W \in Nat \ {0}
  BY Per, Sizes, WPositive
<1>1. \A j \in 0 .. N - 1 : input[j] \in Nat
  <2>1. Pow2[BYTE_BITS] \in Nat  BY <1>0, Pow2Positive
  <2> QED  BY <2>1 DEF WotsAssumption, Bytes
<1>2. ASSUME NEW x \in Chains
      PROVE  Digit(Cut(input)[x + 1].total, Cut(input)[x + 1].bits) \in 0 .. W - 1
  <2> DEFINE s == Cut(input)[x + 1]
  <2>1. x + 1 \in 0 .. LEN /\ x \in Nat  BY <1>0 DEF Chains
  <2>2. Place(input, x + 1, s)  BY <2>1, CutPlaces
  <2> HIDE DEF s
  <2>3. PICK m \in 0 .. PER - 1 : s.bits = LOGW * m /\ x + 1 = PER * s.in - m  BY <2>2 DEF Place
  <2>4. s.in \in 0 .. N /\ s.in # 0
    <3>1. s.in \in 0 .. N  BY <2>2 DEF Place
    <3>2. s.in = 0 => PER * s.in = 0  BY <1>0
    <3> QED  BY <1>0, <2>1, <2>3, <3>1, <3>2
  <2>5. s.total \in Nat
    <3>1. s.in - 1 \in 0 .. N - 1 /\ s.in > 0  BY <1>0, <2>4
    <3> QED  BY <1>1, <2>2, <3>1 DEF Place
  <2>6. s.bits \in 0 .. BYTE_BITS
    <3>1. LOGW * m \in Nat /\ LOGW * m <= LOGW * PER  BY <1>0, <2>3
    <3> QED  BY <1>0, <2>3, <3>1
  <2>7. Pow2[s.bits] \in Nat \ {0}  BY <2>6, Pow2Positive
  <2>8. s.total \div Pow2[s.bits] \in Nat  BY <2>5, <2>7, DivMod
  <2>9. \A d \in Nat : d % W \in 0 .. W - 1  BY <1>0
  <2> QED  BY <2>8, <2>9 DEF Digit, s
<1> QED  BY <1>2 DEF base_w

\* The sum of wotsc_hash_counter as an equation.
LEMMA SumsAre ==
    ASSUME WotsAssumption, NEW d \in [Chains -> 0 .. W - 1]
    PROVE  /\ Sums(d) \in [0 .. LEN -> Int] /\ Sums(d)[0] = 0
           /\ \A i \in 1 .. LEN : Sums(d)[i] = Sums(d)[i - 1] + (W - 1 - d[i - 1])
<1> DEFINE F == [p \in (1 .. LEN) \X Int |-> p[2] + (W - 1 - d[p[1] - 1])]
           Body(g) == [i \in 0 .. LEN |-> IF i = 0 THEN 0 ELSE g[i - 1] + (W - 1 - d[i - 1])]
<1>1. LEN \in Nat /\ W \in Nat /\ 0 \in Int  BY Per, WPositive
<1>2. \A i \in 1 .. LEN : d[i - 1] \in Int /\ i - 1 \in 0 .. LEN  BY <1>1 DEF Chains
<1>3. F \in [(1 .. LEN) \X Int -> Int]  BY <1>1, <1>2
<1>4. \A i \in 1 .. LEN, y \in Int : F[<<i, y>>] = y + (W - 1 - d[i - 1])  OBVIOUS
<1> HIDE DEF F
<1>5. PICK g \in [0 .. LEN -> Int] : Iterates(g, LEN, 0, F)  BY <1>1, <1>3, Recursion
<1>6. g = Body(g)
  <2>1. ASSUME NEW i \in 0 .. LEN, i # 0 PROVE g[i] = g[i - 1] + (W - 1 - d[i - 1])
    <3>1. i \in 1 .. LEN /\ i - 1 \in 0 .. LEN  BY <1>1, <2>1
    <3>2. g[i] = F[<<i, g[i - 1]>>] /\ g[i - 1] \in Int  BY <1>5, <3>1 DEF Iterates
    <3> QED  BY <1>4, <3>1, <3>2
  <2>2. g[0] = 0  BY <1>5 DEF Iterates
  <2> QED  BY <2>1, <2>2
<1>7. Sums(d) = Body(Sums(d))
  <2>1. Sums(d) = CHOOSE f : f = Body(f)  BY DEF Sums
  <2> HIDE DEF Body
  <2> QED  BY <1>6, <2>1
<1> DEFINE z == Sums(d)
<1>8. z = Body(z)  BY <1>7
<1> HIDE DEF z
<1>9. z[0] = 0  BY <1>1, <1>8
<1>10. ASSUME NEW i \in 1 .. LEN PROVE z[i] = z[i - 1] + (W - 1 - d[i - 1])
  <2>1. i \in 0 .. LEN /\ i # 0  BY <1>1
  <2> QED  BY <1>8, <2>1
<1> DEFINE T == {i \in Nat : i <= LEN => z[i] \in Int}
<1>11. 0 \in T  BY <1>9
<1>12. ASSUME NEW i \in Nat, i \in T PROVE i + 1 \in T
  <2> SUFFICES ASSUME i + 1 <= LEN PROVE z[i + 1] \in Int  OBVIOUS
  <2>1. i + 1 \in 1 .. LEN /\ i + 1 - 1 = i /\ i <= LEN  BY <1>1
  <2>2. z[i + 1] = z[i] + (W - 1 - d[i]) /\ d[i] \in Int  BY <1>2, <1>10, <2>1
  <2> QED  BY <1>1, <1>12, <2>1, <2>2
<1> HIDE DEF T
<1>13. Nat \subseteq T  BY <1>11, <1>12, Induct
<1>14. \A i \in 0 .. LEN : z[i] \in Int  BY <1>1, <1>13 DEF T
<1>15. z \in [0 .. LEN -> Int]
  <2>1. z = [i \in 0 .. LEN |-> z[i]]  BY <1>8
  <2> QED  BY <1>14, <2>1
<1> QED  BY <1>9, <1>10, <1>15 DEF z

\* A vector of digits that is nowhere below another and somewhere above it lacks
\* less to the tops of the chains.
LEMMA ChecksumFalls ==
    ASSUME WotsAssumption, NEW d \in [Chains -> 0 .. W - 1], NEW e \in [Chains -> 0 .. W - 1],
           \A x \in Chains : d[x] <= e[x], e # d
    PROVE  checksum(e) < checksum(d)
<1>1. LEN \in Nat /\ W \in Nat  BY Per, WPositive
<1>2. PICK z \in Chains : d[z] < e[z]
  <2>1. \E x \in Chains : d[x] # e[x]  OBVIOUS
  <2> QED  BY <1>1, <2>1
<1> DEFINE a == Sums(d)
           b == Sums(e)
           T == {i \in Nat : i <= LEN => b[i] <= a[i] /\ (z < i => b[i] < a[i])}
<1>3. /\ a \in [0 .. LEN -> Int] /\ a[0] = 0
      /\ b \in [0 .. LEN -> Int] /\ b[0] = 0
      /\ \A i \in 1 .. LEN : a[i] = a[i - 1] + (W - 1 - d[i - 1])
      /\ \A i \in 1 .. LEN : b[i] = b[i - 1] + (W - 1 - e[i - 1])
  BY SumsAre
<1> HIDE DEF a, b
<1>4. z \in 0 .. LEN - 1  BY DEF Chains
<1>5. 0 \in T  BY <1>1, <1>3, <1>4
<1>6. ASSUME NEW i \in Nat, i \in T PROVE i + 1 \in T
  <2> SUFFICES ASSUME i + 1 <= LEN PROVE b[i + 1] <= a[i + 1] /\ (z < i + 1 => b[i + 1] < a[i + 1])
    OBVIOUS
  <2>1. i + 1 \in 1 .. LEN /\ i + 1 - 1 = i /\ i <= LEN /\ i \in Chains  BY <1>1 DEF Chains
  <2>2. /\ a[i + 1] = a[i] + (W - 1 - d[i]) /\ b[i + 1] = b[i] + (W - 1 - e[i])
        /\ d[i] \in Int /\ e[i] \in Int /\ d[i] <= e[i] /\ a[i] \in Int /\ b[i] \in Int
    BY <1>1, <1>3, <2>1
  <2>3. b[i] <= a[i] /\ (z < i => b[i] < a[i])  BY <1>6, <2>1
  <2>4. CASE z < i  BY <1>1, <1>4, <2>2, <2>3, <2>4
  <2>5. CASE z = i  BY <1>1, <1>2, <2>2, <2>3, <2>5
  <2>6. CASE z > i  BY <1>1, <1>4, <2>2, <2>3, <2>6
  <2> QED  BY <1>4, <2>4, <2>5, <2>6
<1> HIDE DEF T
<1>7. Nat \subseteq T  BY <1>5, <1>6, Induct
<1>8. b[LEN] < a[LEN]  BY <1>1, <1>4, <1>7 DEF T
<1> QED  BY <1>8 DEF checksum, a, b

----------------------------------------------------------------------------
(* The inductive invariant.                                                *)

Keys == 0 .. Leaves - 1
Signer == sign_leaf # NO_SIGN_LEAF

\* What the counters are worth: every digest below s misses, that of s hits.
Missed(s) == \A x \in 0 .. s - 1 : x \in DOMAIN oracle /\ ~Hit(base_w(oracle[x]))

Found(s) ==
    /\ s \in DOMAIN oracle /\ Hit(base_w(oracle[s]))
    /\ Missed(s)
    /\ lengths = base_w(oracle[s])

Types ==
    /\ pc \in {"start", "search", "leaf", "chain", "idle", "chains", "verified"}
    /\ op \in {"sign", "verify", "derive"}
    /\ build \in Builds /\ sign_leaf \in 0 .. Leaves
    /\ limit \in 0 .. MaxCounter /\ counter \in 0 .. limit
    /\ DOMAIN oracle \subseteq 0 .. MaxCounter
    /\ \A x \in DOMAIN oracle : oracle[x] \in Digests
    /\ lengths \in [Chains -> 0 .. W - 1]
    /\ leaf_idx \in Keys /\ c \in Nat /\ k \in 0 .. W - 1
    /\ sig \in [Chains -> Values \cup {None}] /\ derived \in [Chains -> Values \cup {None}]
    /\ pk \in [Keys -> [Chains -> Values \cup {None}]]
    /\ signed \in BOOLEAN

\* The signer's search and the verifier's: both stop at the same counter.
SearchInv ==
    /\ pc = "start" => leaf_idx = 0 /\ c = 0
    /\ pc \in {"start", "leaf", "chain"} \/ (pc = "search" /\ op = "sign") => ~signed
    /\ pc = "search" /\ op = "sign" => Signer /\ leaf_idx = 0 /\ Missed(counter)
    /\ pc = "search" /\ op = "verify" => Signer /\ signed /\ limit = MaxCounter
    /\ pc \in {"chains", "verified"} => Signer /\ signed
    /\ Signer /\ (signed \/ pc \in {"leaf", "chain"}) =>
         \E s \in 0 .. MaxCounter : Found(s) /\ (pc = "search" /\ op = "verify" => counter <= s)

\* What the leaf callbacks have finished: the groups of key pairs before
\* leaf_idx, and of those at hand the chains before c.
Done(l, x) == l < leaf_idx \/ (l < leaf_idx + LeafStride /\ x < c)

Group == \E q \in Nat : leaf_idx = LeafStride * q

LeafInv ==
    /\ pc \in {"leaf", "chain"} =>
         /\ Group
         /\ \A l \in Keys, x \in Chains : Done(l, x) => pk[l][x] = Value(l, x, W - 1)
         /\ Signer => \A x \in Chains : Done(sign_leaf, x) => sig[x] = Value(sign_leaf, x, lengths[x])
    /\ pc = "chain" =>
         /\ c < LEN
         /\ \A j \in Used : bufs[j] = Value(KeyOf(j), ChainOf(j), k)
         /\ \A j \in Used : Signs(j) /\ lengths[ChainOf(j)] < k =>
               sig[ChainOf(j)] = Value(sign_leaf, ChainOf(j), lengths[ChainOf(j)])
    /\ signed =>
         /\ \A l \in Keys, x \in Chains : pk[l][x] = Value(l, x, W - 1)
         /\ Signer => \A x \in Chains : sig[x] = Value(sign_leaf, x, lengths[x])

VerifyInv ==
    /\ pc = "chains" => c \in 0 .. LEN
    /\ pc \in {"chains", "verified"} =>
         \A x \in Chains : pc = "verified" \/ x < c => derived[x] = Value(sign_leaf, x, W - 1)

Inv == Types /\ SearchInv /\ LeafInv /\ VerifyInv

----------------------------------------------------------------------------
(* Lanes.                                                                  *)

LEMMA DivUnique ==
    ASSUME NEW b \in Nat \ {0}, NEW q \in Nat, NEW r \in 0 .. b - 1
    PROVE  (b * q + r) \div b = q /\ (b * q + r) % b = r
<1> DEFINE a == b * q + r
<1>1. a \in Nat  BY MulNat
<1>2. PICK p \in Nat, t \in 0 .. b - 1 : p = a \div b /\ t = a % b /\ a = b * p + t
  BY <1>1, DivMod
<1>3. b * p + t = b * q + r  BY <1>2
<1>4. ~(p < q)
  <2> SUFFICES ASSUME p + 1 <= q PROVE FALSE  OBVIOUS
  <2>1. b * (p + 1) <= b * q /\ b * (p + 1) = b * p + b  OBVIOUS
  <2> QED  BY <1>3, <2>1, MulNat
<1>5. ~(q < p)
  <2> SUFFICES ASSUME q + 1 <= p PROVE FALSE  OBVIOUS
  <2>1. b * (q + 1) <= b * p /\ b * (q + 1) = b * q + b  OBVIOUS
  <2> QED  BY <1>3, <2>1, MulNat
<1>6. p = q  BY <1>4, <1>5
<1>7. t = r  BY <1>3, <1>6, MulNat
<1> QED  BY <1>2, <1>6, <1>7

LEMMA Strides ==
    ASSUME WotsAssumption, Types, Group
    PROVE  /\ LeafStride \in Nat \ {0} /\ ChainStride \in Nat \ {0}
           /\ leaf_idx + LeafStride <= Leaves
           /\ \E q \in Nat : leaf_idx = LeafStride * q /\ leaf_idx \div LeafStride = q
<1>1. LANES \in Nat \ {0} /\ Leaves \in Nat \ {0} /\ leaf_idx \in 0 .. Leaves - 1
  BY Sizes DEF Types, Keys
<1>2. LeafStride \in Nat \ {0} /\ ChainStride \in Nat \ {0}  BY <1>1 DEF LeafStride, ChainStride
<1>3. PICK q \in Nat : leaf_idx = LeafStride * q  BY DEF Group
<1>4. PICK m \in Nat : Leaves = LeafStride * m
  <2>1. CASE build = "x8"
    <3>1. Leaves % LANES = 0  BY DEF WotsAssumption
    <3>2. PICK p \in Nat, t \in 0 .. LANES - 1 :
              p = Leaves \div LANES /\ t = Leaves % LANES /\ Leaves = LANES * p + t
      BY <1>1, DivMod
    <3>3. LANES * p \in Nat  BY <1>1, MulNat
    <3>4. Leaves = LANES * p  BY <3>1, <3>2, <3>3
    <3> QED  BY <2>1, <3>4 DEF LeafStride
  <2>2. CASE build # "x8"
    <3>1. LeafStride = 1  BY <2>2 DEF LeafStride
    <3>2. Leaves = 1 * Leaves  BY <1>1
    <3> QED  BY <1>1, <3>1, <3>2
  <2> QED  BY <2>1, <2>2
<1> DEFINE b == LeafStride
<1>5. b \in Nat \ {0} /\ b * q < b * m  BY <1>1, <1>2, <1>3, <1>4
<1> HIDE DEF b
<1>6. q < m  BY <1>5, MulLess
<1>7. b * (q + 1) <= b * m /\ b * (q + 1) = b * q + b  BY <1>5, <1>6
<1>8. (b * q) \div b = q  BY <1>5, DivExact
<1> QED  BY <1>2, <1>3, <1>4, <1>7, <1>8 DEF b

\* do_sign holds for the lane of the signing key pair and for no other.
LEMMA SigningLane ==
    ASSUME WotsAssumption, Types, Group, Signer
    PROVE  /\ \A j \in Lanes : Signs(j) => KeyOf(j) = sign_leaf
           /\ \A j \in Lanes : Signs(j) => sign_leaf >= leaf_idx /\ sign_leaf < leaf_idx + LeafStride
           /\ sign_leaf >= leaf_idx /\ sign_leaf < leaf_idx + LeafStride =>
                /\ build # "x8" => \A j \in Lanes : Signs(j)
                /\ build = "x8" => \E j \in Lanes : Signs(j)
<1> DEFINE b == LeafStride
           p == sign_leaf \div b
           t == sign_leaf % b
<1>1. /\ sign_leaf \in Nat /\ leaf_idx \in Nat /\ b \in Nat \ {0} /\ LANES \in Nat \ {0}
      /\ Leaves \in Nat
  BY Strides, Sizes DEF Types, Keys
<1>2. PICK q \in Nat : leaf_idx = b * q /\ leaf_idx \div b = q  BY Strides
<1>3. p \in Nat /\ t \in 0 .. b - 1 /\ sign_leaf = b * p + t
  <2> HIDE DEF b
  <2> QED  BY <1>1, DivMod
<1>4. \A j : Signs(j) <=> q = p /\ (build = "x8" => j = t)
  <2>1. build = "x8" => SignLane = t  BY DEF SignLane, LeafStride
  <2> HIDE DEF t
  <2> QED  BY <1>2, <2>1 DEF Signs, Signer
<1>5. b = IF build = "x8" THEN LANES ELSE 1  BY DEF LeafStride
<1> HIDE DEF b, p, t
<1>6. q = p => sign_leaf = leaf_idx + t  BY <1>2, <1>3
<1>7. ASSUME NEW j \in Lanes, Signs(j)
      PROVE  KeyOf(j) = sign_leaf /\ sign_leaf >= leaf_idx /\ sign_leaf < leaf_idx + b
  <2>1. sign_leaf = leaf_idx + t /\ (build = "x8" => j = t)  BY <1>4, <1>6, <1>7
  <2> QED  BY <1>1, <1>3, <1>5, <2>1 DEF KeyOf
<1>8. ASSUME sign_leaf >= leaf_idx, sign_leaf < leaf_idx + b
      PROVE  /\ build # "x8" => \A j \in Lanes : Signs(j)
             /\ build = "x8" => \E j \in Lanes : Signs(j)
  <2> DEFINE r == sign_leaf - leaf_idx
  <2>1. r \in 0 .. b - 1 /\ sign_leaf = leaf_idx + r  BY <1>1, <1>8
  <2> HIDE DEF r
  <2>2. (b * q + r) \div b = q /\ (b * q + r) % b = r  BY <1>1, <2>1, DivUnique
  <2>3. p = q /\ t = r  BY <1>2, <2>1, <2>2 DEF p, t
  <2>4. build = "x8" => t \in Lanes  BY <1>3, <1>5 DEF Lanes
  <2> QED  BY <1>4, <2>3, <2>4
<1> QED  BY <1>7, <1>8 DEF b

\* The lanes work on chains of key pairs at hand, no two on the same.
LEMMA LaneTypes ==
    ASSUME WotsAssumption, Types, Group
    PROVE  /\ \A j \in Used : KeyOf(j) \in Keys /\ ChainOf(j) \in Chains /\ ChainOf(j) >= c
           /\ \A j \in Used : KeyOf(j) >= leaf_idx /\ KeyOf(j) < leaf_idx + LeafStride
           /\ \A j \in Used : ChainOf(j) < c + ChainStride
<1>1. /\ leaf_idx \in 0 .. Leaves - 1 /\ c \in Nat /\ LANES \in Nat \ {0} /\ Leaves \in Nat \ {0}
      /\ LEN \in Nat /\ leaf_idx + LeafStride <= Leaves /\ build \in Builds
  BY Strides, Sizes, Per DEF Types, Keys
<1> SUFFICES ASSUME NEW j \in Used
             PROVE  /\ KeyOf(j) \in Keys /\ ChainOf(j) \in Chains /\ ChainOf(j) >= c
                    /\ KeyOf(j) >= leaf_idx /\ KeyOf(j) < leaf_idx + LeafStride
                    /\ ChainOf(j) < c + ChainStride
  OBVIOUS
<1>2. j \in 0 .. LANES - 1 /\ ChainOf(j) < LEN /\ (build = "x1" => j = 0)  BY DEF Used, Lanes
<1>3. CASE build = "x8"
  BY <1>1, <1>2, <1>3 DEF KeyOf, ChainOf, LeafStride, ChainStride, Keys, Chains
<1>4. CASE build # "x8"
  BY <1>1, <1>2, <1>4 DEF KeyOf, ChainOf, LeafStride, ChainStride, Keys, Chains
<1> QED  BY <1>3, <1>4

\* And every chain of every key pair at hand has its lane.
LEMMA LaneFor ==
    ASSUME WotsAssumption, Types, Group, NEW l \in Keys, NEW x \in Chains,
           l >= leaf_idx, l < leaf_idx + LeafStride, x >= c, x < c + ChainStride
    PROVE  \E j \in Used : KeyOf(j) = l /\ ChainOf(j) = x
<1>1. /\ leaf_idx \in Nat /\ c \in Nat /\ LANES \in Nat \ {0} /\ l \in Nat /\ x \in Nat
      /\ LEN \in Nat /\ build \in Builds /\ x < LEN /\ Leaves \in Nat
  <2>1. leaf_idx \in Keys /\ c \in Nat /\ build \in Builds  BY DEF Types
  <2>2. LANES \in Nat \ {0} /\ Leaves \in Nat /\ LEN \in Nat  BY Sizes, Per
  <2> QED  BY <2>1, <2>2 DEF Keys, Chains
<1>2. CASE build = "x8"
  <2> DEFINE j == l - leaf_idx
  <2>1. j \in 0 .. LANES - 1 /\ leaf_idx + j = l /\ x = c  BY <1>1, <1>2 DEF LeafStride, ChainStride
  <2> HIDE DEF j
  <2>2. KeyOf(j) = l /\ ChainOf(j) = x  BY <1>2, <2>1 DEF KeyOf, ChainOf
  <2> QED  BY <1>1, <1>2, <2>1, <2>2 DEF Used, Lanes
<1>3. CASE build = "x1avx2"
  <2> DEFINE j == x - c
  <2>1. j \in 0 .. LANES - 1 /\ c + j = x /\ l = leaf_idx  BY <1>1, <1>3 DEF LeafStride, ChainStride
  <2> HIDE DEF j
  <2>2. KeyOf(j) = l /\ ChainOf(j) = x  BY <1>3, <2>1 DEF KeyOf, ChainOf
  <2> QED  BY <1>1, <1>3, <2>1, <2>2 DEF Used, Lanes
<1>4. CASE build = "x1"
  <2>1. 0 \in 0 .. LANES - 1 /\ c = x /\ l = leaf_idx  BY <1>1, <1>4 DEF LeafStride, ChainStride
  <2>2. KeyOf(0) = l /\ ChainOf(0) = x  BY <1>4, <2>1 DEF KeyOf, ChainOf
  <2> QED  BY <1>1, <1>4, <2>1, <2>2 DEF Used, Lanes
<1> QED  BY <1>1, <1>2, <1>3, <1>4 DEF Builds

LEMMA SigningLaneFor ==
    ASSUME WotsAssumption, Types, Group, Signer, NEW x \in Chains,
           sign_leaf >= leaf_idx, sign_leaf < leaf_idx + LeafStride, x >= c, x < c + ChainStride
    PROVE  \E j \in Used : Signs(j) /\ ChainOf(j) = x
<1>1. sign_leaf \in Keys
  <2>1. leaf_idx + LeafStride <= Leaves /\ Leaves \in Nat /\ leaf_idx \in Nat /\ LeafStride \in Nat
    BY Strides, Sizes DEF Types, Keys
  <2>2. sign_leaf \in Nat  BY <2>1 DEF Types
  <2> QED  BY <2>1, <2>2 DEF Keys
<1>2. PICK j \in Used : KeyOf(j) = sign_leaf /\ ChainOf(j) = x  BY <1>1, LaneFor
<1>3. j \in Lanes  BY DEF Used
<1>4. Signs(j)
  <2>1. CASE build # "x8"  BY <1>3, <2>1, SigningLane
  <2>2. CASE build = "x8"
    <3>1. PICK i \in Lanes : Signs(i)  BY <2>2, SigningLane
    <3>2. KeyOf(i) = sign_leaf  BY <3>1, SigningLane
    <3>3. i \in Int /\ j \in Int /\ leaf_idx \in Int  BY <1>3, Sizes DEF Lanes, Types, Keys
    <3>4. i = j  BY <1>2, <2>2, <3>2, <3>3 DEF KeyOf
    <3> QED  BY <3>1, <3>4
  <2> QED  BY <2>1, <2>2
<1> QED  BY <1>2, <1>4

\* gen_chain completes a chain from the value at its start.
LEMMA GenChainCompletes ==
    ASSUME WotsAssumption, NEW x \in Chains, NEW start \in 0 .. W - 1
    PROVE  GenChain(Value(sign_leaf, x, start), x, start, steps(start)) = Value(sign_leaf, x, W - 1)
<1> DEFINE n == steps(start)
           v == Value(sign_leaf, x, start)
           Body(f) == [y \in 0 .. n |-> IF y = 0 THEN v
                                        ELSE IF start + y - 1 >= W THEN f[y - 1]
                                        ELSE Thash(f[y - 1], sign_leaf, x, start + y - 1)]
           g == [y \in 0 .. n |-> Value(sign_leaf, x, start + y)]
<1>1. W \in Nat \ {0} /\ start \in Nat /\ n \in Nat /\ start + n = W - 1  BY WPositive DEF steps
<1> HIDE DEF n
<1>2. g = Body(g)
  <2>1. ASSUME NEW y \in 0 .. n
        PROVE  Value(sign_leaf, x, start + y) =
                   IF y = 0 THEN v ELSE IF start + y - 1 >= W THEN g[y - 1]
                   ELSE Thash(g[y - 1], sign_leaf, x, start + y - 1)
    <3>1. CASE y = 0
      <4>1. start + y = start  BY <1>1, <3>1
      <4> QED  BY <3>1, <4>1
    <3>2. CASE y # 0
      <4>1. y - 1 \in 0 .. n /\ ~(start + y - 1 >= W) /\ start + (y - 1) = start + y - 1
            /\ start + y - 1 + 1 = start + y
        BY <1>1, <3>2
      <4>2. g[y - 1] = Value(sign_leaf, x, start + y - 1)  BY <4>1
      <4> HIDE DEF g
      <4>3. Thash(g[y - 1], sign_leaf, x, start + y - 1) = Value(sign_leaf, x, start + y)
        BY <4>1, <4>2 DEF Thash
      <4> QED  BY <3>2, <4>1, <4>3
    <3> QED  BY <3>1, <3>2
  <2> QED  BY <2>1
<1> DEFINE out == CHOOSE f : f = Body(f)
<1>3. out = Body(out)
  <2> HIDE DEF Body, g
  <2> QED  BY <1>2
<1>4. GenChain(v, x, start, n) = out[n]  BY DEF GenChain
<1> HIDE DEF out
<1> DEFINE T == {y \in Nat : y <= n => out[y] = Value(sign_leaf, x, start + y)}
<1>5. 0 \in T
  <2>1. start + 0 = start /\ 0 \in 0 .. n  BY <1>1
  <2> QED  BY <1>3, <2>1
<1>6. ASSUME NEW y \in Nat, y \in T PROVE y + 1 \in T
  <2> SUFFICES ASSUME y + 1 <= n PROVE out[y + 1] = Value(sign_leaf, x, start + (y + 1))  OBVIOUS
  <2>1. /\ y + 1 \in 0 .. n /\ y + 1 # 0 /\ ~(start + (y + 1) - 1 >= W) /\ y + 1 - 1 = y
        /\ start + (y + 1) - 1 = start + y /\ start + (y + 1) = start + y + 1 /\ y <= n
    BY <1>1
  <2>2. out[y + 1] = Thash(out[y], sign_leaf, x, start + y)  BY <1>3, <2>1
  <2>3. out[y] = Value(sign_leaf, x, start + y)  BY <1>6, <2>1
  <2> QED  BY <2>1, <2>2, <2>3 DEF Thash
<1> HIDE DEF T
<1>7. Nat \subseteq T  BY <1>5, <1>6, Induct
<1>8. out[n] = Value(sign_leaf, x, W - 1)  BY <1>1, <1>7 DEF T
<1> QED  BY <1>4, <1>8 DEF n

LEMMA ValueType ==
    ASSUME NEW l \in Keys, NEW x \in Chains, NEW p \in 0 .. W - 1
    PROVE  Value(l, x, p) \in Values
BY DEF Value, Values, Keys

----------------------------------------------------------------------------
(* The invariant is inductive.                                             *)

LEMMA SameFound ==
    ASSUME UNCHANGED <<oracle, lengths>>
    PROVE  \A s : (Found(s)' <=> Found(s)) /\ (Missed(s)' <=> Missed(s))
BY DEF Found, Missed

LEMMA InvInit == ASSUME WotsAssumption, Init PROVE Inv
<1>0. /\ W \in Nat \ {0} /\ LEN \in Nat /\ Leaves \in Nat \ {0} /\ MaxCounter \in Nat
  BY WPositive, Per, Sizes DEF WotsAssumption
<1>1. Types
  <2>1. oracle = << >> /\ DOMAIN oracle = {}  BY DEF Init
  <2>2. limit \in 0 .. MaxCounter /\ counter \in 0 .. limit  BY <1>0 DEF Init
  <2>3. lengths \in [Chains -> 0 .. W - 1]  BY <1>0 DEF Init, NoLengths
  <2>4. leaf_idx \in Keys /\ c \in Nat /\ k \in 0 .. W - 1  BY <1>0 DEF Init, Keys
  <2>5. sig \in [Chains -> Values \cup {None}] /\ derived \in [Chains -> Values \cup {None}]
    BY DEF Init
  <2>6. pk \in [Keys -> [Chains -> Values \cup {None}]]  BY DEF Init, Keys
  <2> QED  BY <2>1, <2>2, <2>3, <2>4, <2>5, <2>6 DEF Types, Init
<1>2. pc = "start" /\ ~signed /\ leaf_idx = 0 /\ c = 0  BY DEF Init
<1> QED  BY <1>1, <1>2 DEF Inv, SearchInv, LeafInv, VerifyInv

LEMMA InvStart ==
    ASSUME WotsAssumption, Inv, SignStart \/ KeyGenStart \/ VerifyStart \/ DeriveStart
    PROVE  Inv'
<1>0. /\ Types /\ SearchInv /\ LeafInv /\ MaxCounter \in Nat /\ Leaves \in Nat /\ LEN \in Nat
      /\ Limits \subseteq 0 .. MaxCounter
  BY Sizes, Per DEF Inv, WotsAssumption
<1>1. /\ UNCHANGED <<build, sign_leaf, oracle, lengths, results, leaf_idx, c, k, bufs, sig, signed,
                     pk, derived>>
      /\ pc' \in {"search", "leaf"}
  BY DEF SignStart, KeyGenStart, VerifyStart, DeriveStart, Search, search, leaf
<1>2. Types'
  <2>1. /\ op' \in {"sign", "verify", "derive"}
        /\ limit' \in 0 .. MaxCounter /\ counter' \in 0 .. limit'
    BY <1>0 DEF SignStart, KeyGenStart, VerifyStart, DeriveStart, Search, search, Types
  <2> QED  BY <1>0, <1>1, <2>1 DEF Types
<1>3. Signer' = Signer  BY <1>1 DEF Signer, NO_SIGN_LEAF
<1>4. \A s : (Found(s)' <=> Found(s)) /\ (Missed(s)' <=> Missed(s))  BY <1>1, SameFound
<1>5. SearchInv'
  <2>1. CASE SignStart
    <3>1. pc = "start" /\ Signer /\ pc' = "search" /\ op' = "sign" /\ counter' = 0
      BY <2>1 DEF SignStart, Search, Signer
    <3>2. leaf_idx = 0 /\ ~signed  BY <1>0, <3>1 DEF SearchInv
    <3>4. Missed(counter)'  BY <3>1 DEF Missed
    <3> QED  BY <1>0, <1>1, <1>3, <1>4, <3>1, <3>2, <3>4 DEF SearchInv
  <2>2. CASE KeyGenStart
    <3>1. ~Signer /\ pc = "start" /\ pc' = "leaf"  BY <2>2 DEF KeyGenStart, Signer
    <3>2. ~signed'  BY <1>0, <1>1, <3>1 DEF SearchInv
    <3> QED  BY <1>3, <3>1, <3>2 DEF SearchInv
  <2>3. CASE VerifyStart
    <3>1. pc' = "search" /\ op' = "verify" /\ limit' = MaxCounter /\ counter' = 0 /\ Signer /\ signed
      BY <2>3 DEF VerifyStart, Search, Signer
    <3>2. PICK s \in 0 .. MaxCounter : Found(s)  BY <1>0, <3>1 DEF SearchInv
    <3>3. Found(s)' /\ counter' <= s  BY <1>4, <3>1, <3>2
    <3> QED  BY <1>1, <1>3, <3>1, <3>3 DEF SearchInv
  <2>4. CASE DeriveStart
    <3>1. pc' = "search" /\ op' = "derive"  BY <2>4 DEF DeriveStart, Search
    <3>2. Signer /\ signed => \E s \in 0 .. MaxCounter : Found(s)  BY <1>0 DEF SearchInv
    <3> QED  BY <1>1, <1>3, <1>4, <3>1, <3>2 DEF SearchInv
  <2> QED  BY <2>1, <2>2, <2>3, <2>4
<1>6. LeafInv'
  <2>1. signed' =>
         /\ \A l \in Keys, x \in Chains : pk'[l][x] = Value(l, x, W - 1)
         /\ Signer' => \A x \in Chains : sig'[x] = Value(sign_leaf', x, lengths'[x])
    BY <1>0, <1>1, <1>3 DEF LeafInv
  <2>2. CASE pc' = "search"  BY <2>1, <2>2 DEF LeafInv
  <2>3. CASE KeyGenStart
    <3>1. ~Signer /\ pc' = "leaf" /\ pc = "start"  BY <2>3 DEF KeyGenStart, Signer
    <3>2. leaf_idx = 0 /\ c = 0  BY <1>0, <3>1 DEF SearchInv
    <3>3. \A l \in Keys, x \in Chains : ~Done(l, x)'
      BY <1>0, <1>1, <3>2 DEF Done, Keys, Chains
    <3>4. Group'
      <4>1. LeafStride' \in Nat  BY Sizes DEF LeafStride
      <4>2. \A y \in Nat : y * 0 = 0  OBVIOUS
      <4> QED  BY <1>1, <3>2, <4>1, <4>2 DEF Group
    <3> QED  BY <1>3, <2>1, <3>1, <3>3, <3>4 DEF LeafInv
  <2>4. ~KeyGenStart => pc' = "search"  BY DEF SignStart, VerifyStart, DeriveStart, Search
  <2> QED  BY <2>2, <2>3, <2>4
<1>7. VerifyInv'  BY <1>1 DEF VerifyInv
<1> QED  BY <1>2, <1>5, <1>6, <1>7 DEF Inv

\* A search: its tries change nothing of what the oracle said before, so the
\* verifier's stops where the signer's did.
LEMMA InvSearchTry == ASSUME WotsAssumption, Inv, SearchTry PROVE Inv'
<1>0. /\ Types /\ SearchInv /\ LeafInv /\ MaxCounter \in Nat /\ Leaves \in Nat /\ LEN \in Nat
      /\ W \in Nat \ {0}
  BY Sizes, Per, WPositive DEF Inv, WotsAssumption
<1>1. PICK found \in Digests :
        /\ counter \in DOMAIN oracle => found = oracle[counter]
        /\ oracle' = [x \in DOMAIN oracle \cup {counter} |->
                        IF x = counter THEN found ELSE oracle[x]]
        /\ \/ /\ Hit(base_w(found))
              /\ lengths' = IF op = "derive" THEN lengths ELSE base_w(found)
              /\ pc' = AfterHit[op]
              /\ UNCHANGED counter
           \/ /\ ~Hit(base_w(found)) /\ Exhausted
              /\ pc' = "idle"
              /\ UNCHANGED <<counter, lengths>>
           \/ /\ ~Hit(base_w(found)) /\ ~Exhausted
              /\ counter' = counter + 1
              /\ UNCHANGED <<pc, lengths>>
  BY DEF SearchTry
<1>2. /\ pc = "search" /\ c' = 0
      /\ UNCHANGED <<op, build, sign_leaf, limit, leaf_idx, k, bufs, sig, signed, pk, derived>>
  BY DEF SearchTry
<1>3. base_w(found) \in [Chains -> 0 .. W - 1]  BY base_wType
<1>4. /\ counter \in Nat /\ limit \in Nat /\ counter <= limit /\ limit <= MaxCounter
      /\ op \in {"sign", "verify", "derive"}
  BY <1>0 DEF Types
<1>5. /\ DOMAIN oracle' = DOMAIN oracle \cup {counter} /\ oracle'[counter] = found
      /\ \A x \in DOMAIN oracle : oracle'[x] = oracle[x]
  BY <1>1
<1>6. /\ op = "sign" => AfterHit[op] = "leaf"
      /\ op = "verify" => AfterHit[op] = "chains"
      /\ op = "derive" => AfterHit[op] = "idle"
  BY DEF AfterHit
<1>7. pc' \in {"search", "leaf", "chains", "idle"} /\ counter' \in 0 .. limit
  BY <1>1, <1>2, <1>4, <1>6 DEF Exhausted
<1>8. Types'
  <2>1. DOMAIN oracle' \subseteq 0 .. MaxCounter /\ \A x \in DOMAIN oracle' : oracle'[x] \in Digests
    BY <1>0, <1>4, <1>5 DEF Types
  <2>2. lengths' \in [Chains -> 0 .. W - 1]  BY <1>0, <1>1, <1>3 DEF Types
  <2> QED  BY <1>0, <1>2, <1>7, <2>1, <2>2 DEF Types
<1>9. Signer' = Signer  BY <1>2 DEF Signer, NO_SIGN_LEAF
<1>10. \A s \in Nat : Missed(s) => Missed(s)'
  BY <1>5 DEF Missed
<1>11. \A s \in Nat : Found(s) /\ lengths' = lengths => Found(s)'
  BY <1>5, <1>10 DEF Found
<1>12. \A s \in Nat : Found(s) /\ counter \in 0 .. s => (Hit(base_w(found)) <=> counter = s)
  <2> SUFFICES ASSUME NEW s \in Nat, Found(s), counter \in 0 .. s
               PROVE  Hit(base_w(found)) <=> counter = s
    OBVIOUS
  <2>1. CASE counter = s  BY <1>1, <2>1 DEF Found
  <2>2. CASE counter # s
    <3>1. counter \in 0 .. s - 1  BY <2>2
    <3>2. counter \in DOMAIN oracle /\ ~Hit(base_w(oracle[counter]))  BY <3>1 DEF Found, Missed
    <3> QED  BY <1>1, <2>2, <3>2
  <2> QED  BY <2>1, <2>2
<1>13. CASE Hit(base_w(found)) /\ op = "sign"
  <2>1. Signer /\ leaf_idx = 0 /\ Missed(counter) /\ ~signed  BY <1>0, <1>2, <1>13 DEF SearchInv
  <2>2. lengths' = base_w(found) /\ pc' = "leaf" /\ counter' = counter  BY <1>1, <1>6, <1>13
  <2>3. Found(counter)'
    <3>1. counter' \in DOMAIN oracle' /\ oracle'[counter'] = found  BY <1>5, <2>2
    <3>2. Missed(counter)'
      <4>1. \A x \in 0 .. counter' - 1 : x \in DOMAIN oracle /\ ~Hit(base_w(oracle[x]))
        BY <2>1, <2>2 DEF Missed
      <4>2. \A x \in 0 .. counter' - 1 : x \in DOMAIN oracle' /\ ~Hit(base_w(oracle'[x]))
        BY <1>5, <4>1
      <4> QED  BY <4>2 DEF Missed
    <3> QED  BY <1>13, <2>2, <3>1, <3>2 DEF Found
  <2>4. counter' \in 0 .. MaxCounter  BY <1>0, <1>4, <2>2
  <2>5. SearchInv'
    <3>1. op' = "sign" /\ pc' = "leaf"  BY <1>2, <1>13, <2>2
    <3>2. \E s \in 0 .. MaxCounter : Found(s)'  BY <2>3, <2>4
    <3> QED  BY <1>2, <2>1, <3>1, <3>2 DEF SearchInv
  <2>6. LeafInv'
    <3>1. \A l \in Nat, x \in Chains : ~Done(l, x)'
      BY <1>0, <1>2, <2>1 DEF Done, Chains
    <3>2. Keys \subseteq Nat /\ sign_leaf' \in Nat  BY <1>0, <1>2 DEF Types, Keys
    <3>3. Group'
      <4>1. LeafStride' \in Nat  BY Sizes DEF LeafStride
      <4>2. \A y \in Nat : y * 0 = 0  OBVIOUS
      <4> QED  BY <1>2, <2>1, <4>1, <4>2 DEF Group
    <3> QED  BY <1>2, <2>1, <2>2, <3>1, <3>2, <3>3 DEF LeafInv
  <2>7. VerifyInv'  BY <2>2 DEF VerifyInv
  <2> QED  BY <1>8, <2>5, <2>6, <2>7 DEF Inv
<1>14. CASE ~(Hit(base_w(found)) /\ op = "sign")
  <2>1. Signer /\ signed => \E s \in 0 .. MaxCounter : Found(s) /\ (op = "verify" => counter \in 0 .. s)
    BY <1>0, <1>2, <1>4 DEF SearchInv
  <2>2. op = "verify" => Signer /\ signed /\ limit = MaxCounter  BY <1>0, <1>2 DEF SearchInv
  <2>3. op = "sign" => Signer /\ leaf_idx = 0 /\ Missed(counter) /\ ~signed
    BY <1>0, <1>2 DEF SearchInv
  <2>4. lengths' = lengths
    <3>1. CASE ~Hit(base_w(found)) \/ op = "derive"  BY <1>1, <3>1
    <3>2. CASE Hit(base_w(found)) /\ op = "verify"
      <4>1. PICK s \in 0 .. MaxCounter : Found(s) /\ counter \in 0 .. s  BY <2>1, <2>2, <3>2
      <4>2. counter = s  BY <1>12, <3>2, <4>1
      <4>3. counter \in DOMAIN oracle /\ lengths = base_w(oracle[counter])  BY <4>1, <4>2 DEF Found
      <4> QED  BY <1>1, <3>2, <4>3
    <3> QED  BY <1>4, <1>14, <3>1, <3>2
  <2>5. pc' \in {"search", "chains", "idle"} /\ (pc' = "chains" => op = "verify")
    BY <1>1, <1>2, <1>4, <1>6, <1>14
  <2>6. SearchInv'
    <3>1. ASSUME pc' = "search" PROVE ~Hit(base_w(found)) /\ counter' = counter + 1
      BY <1>1, <1>4, <1>6, <3>1
    <3>2. ASSUME pc' = "search", op = "sign" PROVE Missed(counter)'
      <4>1. ~Hit(base_w(found)) /\ counter' = counter + 1  BY <3>1, <3>2
      <4>2. ASSUME NEW x \in 0 .. counter' - 1 PROVE x \in DOMAIN oracle' /\ ~Hit(base_w(oracle'[x]))
        <5>1. CASE x = counter  BY <1>5, <4>1, <5>1
        <5>2. CASE x # counter
          <6>1. x \in 0 .. counter - 1  BY <1>4, <4>1, <5>2
          <6>2. x \in DOMAIN oracle /\ ~Hit(base_w(oracle[x]))  BY <2>3, <3>2, <6>1 DEF Missed
          <6> QED  BY <1>5, <6>2
        <5> QED  BY <5>1, <5>2
      <4> QED  BY <4>2 DEF Missed
    <3>3. ASSUME Signer, signed
          PROVE  \E s \in 0 .. MaxCounter : Found(s)' /\ (pc' = "search" /\ op = "verify" => counter' <= s)
      <4>1. PICK s \in 0 .. MaxCounter : Found(s) /\ (op = "verify" => counter \in 0 .. s)
        BY <2>1, <3>3
      <4>2. Found(s)'  BY <1>11, <2>4, <4>1
      <4>3. ASSUME pc' = "search", op = "verify" PROVE counter' <= s
        <5>1. ~Hit(base_w(found)) /\ counter' = counter + 1  BY <3>1, <4>3
        <5>2. counter # s  BY <1>12, <4>1, <4>3, <5>1
        <5> QED  BY <1>4, <4>1, <4>3, <5>1, <5>2
      <4> QED  BY <4>2, <4>3
    <3> QED  BY <1>2, <1>9, <2>2, <2>3, <2>5, <3>2, <3>3 DEF SearchInv
  <2>7. LeafInv'
    <3>1. signed' =>
            /\ \A l \in Keys, x \in Chains : pk'[l][x] = Value(l, x, W - 1)
            /\ Signer' => \A x \in Chains : sig'[x] = Value(sign_leaf', x, lengths'[x])
      BY <1>0, <1>2, <1>9, <2>4 DEF LeafInv
    <3> QED  BY <2>5, <3>1 DEF LeafInv
  <2>8. VerifyInv'
    <3>1. \A x \in Chains : ~(x < c')  BY <1>0, <1>2 DEF Chains
    <3>2. c' \in 0 .. LEN  BY <1>0, <1>2
    <3> QED  BY <2>5, <3>1, <3>2 DEF VerifyInv
  <2> QED  BY <1>8, <2>6, <2>7, <2>8 DEF Inv
<1> QED  BY <1>13, <1>14

\* What the steps of the leaf callbacks share.
LEMMA SameLanes ==
    ASSUME UNCHANGED <<build, sign_leaf, leaf_idx>>
    PROVE  /\ Signer' = Signer /\ Group' = Group /\ LeafStride' = LeafStride
           /\ \A j : KeyOf(j)' = KeyOf(j) /\ Signs(j)' = Signs(j)
           /\ c' = c => Used' = Used /\ \A j : ChainOf(j)' = ChainOf(j)
<1>1. Signer' = Signer  BY DEF Signer, NO_SIGN_LEAF
<1>2. LeafStride' = LeafStride /\ Group' = Group  BY DEF LeafStride, Group
<1>3. \A j : KeyOf(j)' = KeyOf(j)  BY DEF KeyOf
<1>4. SignLane' = SignLane  BY DEF SignLane
<1>5. \A j : Signs(j)' = Signs(j)  BY <1>2, <1>4 DEF Signs, NO_SIGN_LEAF
<1>6. c' = c => \A j : ChainOf(j)' = ChainOf(j)  BY DEF ChainOf
<1>7. c' = c => Used' = Used  BY <1>6 DEF Used
<1> QED  BY <1>1, <1>2, <1>3, <1>5, <1>6, <1>7

LEMMA InvChainStart == ASSUME WotsAssumption, Inv, ChainStart PROVE Inv'
<1>0. /\ Types /\ SearchInv /\ LeafInv /\ W \in Nat \ {0} /\ LEN \in Nat
  BY WPositive, Per DEF Inv
<1>1. /\ pc = "leaf" /\ c < LEN /\ k' = 0 /\ pc' = "chain"
      /\ bufs' = [j \in Lanes |-> IF j \in Used THEN Value(KeyOf(j), ChainOf(j), 0) ELSE Junk]
      /\ UNCHANGED <<op, build, sign_leaf, oracle, limit, counter, lengths, results, leaf_idx, c,
                     sig, signed, pk, derived>>
  BY DEF ChainStart, search
<1>2. Group  BY <1>0, <1>1 DEF LeafInv
<1>3. Types'
  <2>1. k' \in 0 .. W - 1  BY <1>0, <1>1
  <2> QED  BY <1>0, <1>1, <2>1 DEF Types
<1>4. /\ Signer' = Signer /\ Group' /\ LeafStride' = LeafStride /\ Used' = Used
      /\ \A j : KeyOf(j)' = KeyOf(j) /\ Signs(j)' = Signs(j) /\ ChainOf(j)' = ChainOf(j)
  BY <1>1, <1>2, SameLanes
<1>5. \A s : Found(s)' <=> Found(s)  BY <1>1, SameFound
<1>6. SearchInv'  BY <1>0, <1>1, <1>4, <1>5 DEF SearchInv
<1>7. LeafInv'
  <2>1. \A l, x : Done(l, x)' = Done(l, x)  BY <1>1, <1>4 DEF Done
  <2>2. \A j \in Used : bufs'[j] = Value(KeyOf(j), ChainOf(j), 0)  BY <1>1 DEF Used
  <2>3. \A j \in Used : ~(lengths[ChainOf(j)] < 0)
    <3>1. \A j \in Used : ChainOf(j) \in Chains  BY <1>0, <1>2, LaneTypes
    <3>2. \A x \in Chains : lengths[x] \in 0 .. W - 1  BY <1>0 DEF Types
    <3> QED  BY <1>0, <3>1, <3>2
  <2>4. /\ \A l \in Keys, x \in Chains : Done(l, x) => pk[l][x] = Value(l, x, W - 1)
        /\ Signer => \A x \in Chains : Done(sign_leaf, x) => sig[x] = Value(sign_leaf, x, lengths[x])
    BY <1>0, <1>1 DEF LeafInv
  <2>5. ~signed'  BY <1>0, <1>1 DEF SearchInv
  <2> QED  BY <1>1, <1>4, <2>1, <2>2, <2>3, <2>4, <2>5 DEF LeafInv
<1>8. VerifyInv'  BY <1>1 DEF VerifyInv
<1> QED  BY <1>3, <1>6, <1>7, <1>8 DEF Inv

\* A turn of the chains: what is published belongs to the signing key pair and
\* is at its digit, what is kept of a chain is its top.
LEMMA InvChainTurn == ASSUME WotsAssumption, Inv, ChainTurn PROVE Inv'
<1>0. /\ Types /\ SearchInv /\ LeafInv /\ W \in Nat \ {0} /\ LEN \in Nat /\ pc = "chain"
      /\ Leaves \in Nat
  BY WPositive, Per, Sizes DEF Inv, ChainTurn
<1>1. UNCHANGED <<op, build, sign_leaf, oracle, limit, counter, lengths, results, leaf_idx,
                  signed, derived>>
  BY DEF ChainTurn, search
<1>2. Group /\ c < LEN /\ k \in 0 .. W - 1 /\ c \in Nat /\ leaf_idx \in Nat /\ sign_leaf \in Nat
  BY <1>0 DEF LeafInv, Types, Keys
<1>3. \A x \in Chains : lengths[x] \in 0 .. W - 1  BY <1>0 DEF Types
<1>4. \A j \in Used : /\ KeyOf(j) \in Keys /\ ChainOf(j) \in Chains /\ j \in Lanes
                      /\ bufs[j] = Value(KeyOf(j), ChainOf(j), k)
  BY <1>0, <1>2, LaneTypes DEF LeafInv, Used
<1>5. \A x \in Chains :
        sig'[x] = IF \E j \in Used : Signs(j) /\ ChainOf(j) = x /\ k = lengths[x]
                  THEN Value(sign_leaf, x, lengths[x]) ELSE sig[x]
  <2> SUFFICES ASSUME NEW x \in Chains, \E j \in Used : Signs(j) /\ ChainOf(j) = x /\ k = lengths[x]
               PROVE  sig'[x] = Value(sign_leaf, x, lengths[x])
    BY DEF ChainTurn
  <2> DEFINE i == CHOOSE j \in Used : Signs(j) /\ ChainOf(j) = x
  <2>1. sig'[x] = bufs[i]  BY DEF ChainTurn
  <2>2. i \in Used /\ Signs(i) /\ ChainOf(i) = x /\ k = lengths[x]  OBVIOUS
  <2> HIDE DEF i
  <2>3. Signer  BY <2>2 DEF Signs, Signer
  <2>4. KeyOf(i) = sign_leaf  BY <1>0, <1>2, <1>4, <2>2, <2>3, SigningLane
  <2> QED  BY <1>4, <2>1, <2>2, <2>4
<1>6. sig' \in [Chains -> Values \cup {None}]
  <2>1. \A x \in Chains : sig'[x] \in Values \cup {None}
    <3> SUFFICES ASSUME NEW x \in Chains PROVE sig'[x] \in Values \cup {None}  OBVIOUS
    <3>1. CASE \E j \in Used : Signs(j) /\ ChainOf(j) = x /\ k = lengths[x]
      <4>1. sig'[x] = Value(sign_leaf, x, lengths[x])  BY <1>5, <3>1
      <4>2. PICK j \in Used : Signs(j)  BY <3>1
      <4>3. Signer  BY <4>2 DEF Signs, Signer
      <4>4. sign_leaf \in Keys  BY <1>0, <1>2, <1>4, <4>2, <4>3, SigningLane
      <4> QED  BY <1>3, <4>1, <4>4, ValueType
    <3>2. CASE ~\E j \in Used : Signs(j) /\ ChainOf(j) = x /\ k = lengths[x]
      BY <1>0, <1>5, <3>2 DEF Types
    <3> QED  BY <3>1, <3>2
  <2>2. sig' = [x \in Chains |-> sig'[x]]  BY DEF ChainTurn
  <2> QED  BY <2>1, <2>2
<1>7. \A x \in Chains : sig[x] = Value(sign_leaf, x, lengths[x]) => sig'[x] = sig[x]  BY <1>5
<1>8. /\ \A l \in Keys, x \in Chains : Done(l, x) => pk[l][x] = Value(l, x, W - 1)
      /\ Signer => \A x \in Chains : Done(sign_leaf, x) => sig[x] = Value(sign_leaf, x, lengths[x])
      /\ \A j \in Used : Signs(j) /\ lengths[ChainOf(j)] < k =>
             sig[ChainOf(j)] = Value(sign_leaf, ChainOf(j), lengths[ChainOf(j)])
      /\ ~signed
  BY <1>0 DEF LeafInv, SearchInv
<1>9. \A j \in Used : Signs(j) /\ lengths[ChainOf(j)] <= k =>
             sig'[ChainOf(j)] = Value(sign_leaf, ChainOf(j), lengths[ChainOf(j)])
  <2> SUFFICES ASSUME NEW j \in Used, Signs(j), lengths[ChainOf(j)] <= k
               PROVE  sig'[ChainOf(j)] = Value(sign_leaf, ChainOf(j), lengths[ChainOf(j)])
    OBVIOUS
  <2>1. ChainOf(j) \in Chains /\ lengths[ChainOf(j)] \in Int  BY <1>0, <1>3, <1>4
  <2>2. CASE lengths[ChainOf(j)] = k  BY <1>5, <2>1, <2>2
  <2>3. CASE lengths[ChainOf(j)] < k  BY <1>7, <1>8, <2>1, <2>3
  <2> QED  BY <1>2, <2>1, <2>2, <2>3
<1>10. /\ Signer' = Signer /\ Group' /\ LeafStride' = LeafStride
       /\ \A j : KeyOf(j)' = KeyOf(j) /\ Signs(j)' = Signs(j)
       /\ c' = c => Used' = Used /\ \A j : ChainOf(j)' = ChainOf(j)
  BY <1>1, <1>2, SameLanes
<1>11. \A s : Found(s)' <=> Found(s)  BY <1>1, SameFound
<1>12. pc' \in {"leaf", "chain"}  BY <1>0 DEF ChainTurn
<1>13. SearchInv'  BY <1>0, <1>1, <1>10, <1>11, <1>12 DEF SearchInv
<1>14. VerifyInv'  BY <1>12 DEF VerifyInv
<1>15. CASE k = W - 1
  <2>1. c' = c + ChainStride /\ pc' = "leaf" /\ k' = k
    BY <1>0, <1>15 DEF ChainTurn
  <2>2. ChainStride \in Nat \ {0} /\ LeafStride \in Nat \ {0}  BY <1>0, <1>2, Strides
  <2>3. DOMAIN pk = Keys  BY <1>0 DEF Types
  <2>4. pk' = [l \in Keys |-> [x \in Chains |->
                 IF \E j \in Used : KeyOf(j) = l /\ ChainOf(j) = x
                 THEN bufs[CHOOSE j \in Used : KeyOf(j) = l /\ ChainOf(j) = x] ELSE pk[l][x]]]
    BY <1>0, <1>15, <2>3 DEF ChainTurn
  <2>5. \A l \in Keys, x \in Chains :
          pk'[l][x] = IF \E j \in Used : KeyOf(j) = l /\ ChainOf(j) = x
                      THEN Value(l, x, W - 1) ELSE pk[l][x]
    <3> SUFFICES ASSUME NEW l \in Keys, NEW x \in Chains,
                        \E j \in Used : KeyOf(j) = l /\ ChainOf(j) = x
                 PROVE  pk'[l][x] = Value(l, x, W - 1)
      BY <2>4
    <3> DEFINE i == CHOOSE j \in Used : KeyOf(j) = l /\ ChainOf(j) = x
    <3>1. pk'[l][x] = bufs[i]  BY <2>4
    <3>2. i \in Used /\ KeyOf(i) = l /\ ChainOf(i) = x  OBVIOUS
    <3> HIDE DEF i
    <3> QED  BY <1>4, <1>15, <3>1, <3>2
  <2>6. pk' \in [Keys -> [Chains -> Values \cup {None}]]
    <3>1. \A l \in Keys, x \in Chains : pk'[l][x] \in Values \cup {None}
      <4>1. W - 1 \in 0 .. W - 1  BY <1>0
      <4>2. \A l \in Keys, x \in Chains : Value(l, x, W - 1) \in Values  BY <4>1, ValueType
      <4>3. \A l \in Keys, x \in Chains : pk[l][x] \in Values \cup {None}  BY <1>0 DEF Types
      <4> QED  BY <2>5, <4>2, <4>3
    <3>2. pk' = [l \in Keys |-> [x \in Chains |-> pk'[l][x]]]  BY <2>4
    <3> QED  BY <3>1, <3>2
  <2>7. Types'
    <3>1. c' \in Nat  BY <1>2, <2>1, <2>2
    <3> QED  BY <1>0, <1>1, <1>6, <2>1, <2>6, <3>1 DEF Types
  <2>8. ASSUME NEW l \in Nat, NEW x \in Chains, Done(l, x)', ~Done(l, x)
        PROVE  l >= leaf_idx /\ l < leaf_idx + LeafStride /\ x >= c /\ x < c + ChainStride
    <3>1. x \in Nat  BY <1>0 DEF Chains
    <3> QED  BY <1>1, <1>2, <1>10, <2>1, <2>2, <2>8, <3>1 DEF Done
  <2>9. ASSUME NEW l \in Keys, NEW x \in Chains, Done(l, x)' PROVE pk'[l][x] = Value(l, x, W - 1)
    <3>1. CASE Done(l, x)  BY <1>8, <2>5, <3>1
    <3>2. CASE ~Done(l, x)
      <4>1. l \in Nat  BY <1>0 DEF Keys
      <4>2. \E j \in Used : KeyOf(j) = l /\ ChainOf(j) = x
        BY <1>0, <1>2, <2>8, <2>9, <3>2, <4>1, LaneFor
      <4> QED  BY <2>5, <4>2
    <3> QED  BY <3>1, <3>2
  <2>10. ASSUME Signer, NEW x \in Chains, Done(sign_leaf, x)'
         PROVE  sig'[x] = Value(sign_leaf, x, lengths[x])
    <3>1. CASE Done(sign_leaf, x)  BY <1>7, <1>8, <2>10, <3>1
    <3>2. CASE ~Done(sign_leaf, x)
      <4>1. sign_leaf >= leaf_idx /\ sign_leaf < leaf_idx + LeafStride /\ x >= c /\ x < c + ChainStride
        <5>1. x \in Nat  BY <1>0 DEF Chains
        <5>2. sign_leaf < leaf_idx \/ (sign_leaf < leaf_idx + LeafStride /\ x < c')
          BY <1>1, <1>10, <2>10 DEF Done
        <5> QED  BY <1>2, <2>1, <2>2, <3>2, <5>1, <5>2 DEF Done
      <4>2. PICK j \in Used : Signs(j) /\ ChainOf(j) = x
        BY <1>0, <1>2, <2>10, <4>1, SigningLaneFor
      <4>3. lengths[x] <= k  BY <1>0, <1>3, <1>15
      <4> QED  BY <1>9, <4>2, <4>3
    <3> QED  BY <3>1, <3>2
  <2>11. LeafInv'  BY <1>1, <1>8, <1>10, <2>1, <2>9, <2>10 DEF LeafInv
  <2> QED  BY <1>13, <1>14, <2>7, <2>11 DEF Inv
<1>16. CASE k # W - 1
  <2>1. /\ k < W - 1 /\ k' = k + 1 /\ UNCHANGED <<pc, c, pk>>
        /\ bufs' = [j \in Lanes |-> IF j \in Used THEN Thash(bufs[j], KeyOf(j), ChainOf(j), k)
                                    ELSE bufs[j]]
    BY <1>16 DEF ChainTurn
  <2>2. k' \in 0 .. W - 1  BY <1>0, <1>2, <2>1
  <2>3. Types'  BY <1>0, <1>1, <1>6, <2>1, <2>2 DEF Types
  <2>4. \A l, x : Done(l, x)' = Done(l, x)  BY <1>1, <1>10, <2>1 DEF Done
  <2>5. \A j \in Used : bufs'[j] = Value(KeyOf(j), ChainOf(j), k')
    BY <1>4, <2>1 DEF Thash
  <2>6. \A j \in Used : Signs(j) /\ lengths[ChainOf(j)] < k' =>
             sig'[ChainOf(j)] = Value(sign_leaf, ChainOf(j), lengths[ChainOf(j)])
    <3>1. \A j \in Used : lengths[ChainOf(j)] < k' => lengths[ChainOf(j)] <= k
      <4>1. \A j \in Used : lengths[ChainOf(j)] \in Int  BY <1>0, <1>3, <1>4
      <4> QED  BY <1>2, <2>1, <4>1
    <3> QED  BY <1>9, <3>1
  <2>7. Signer => \A x \in Chains : Done(sign_leaf, x) => sig'[x] = Value(sign_leaf, x, lengths[x])
    BY <1>7, <1>8
  <2>8. LeafInv'
    <3>1. /\ Used' = Used /\ \A j : ChainOf(j)' = ChainOf(j)
          /\ \A j : KeyOf(j)' = KeyOf(j) /\ Signs(j)' = Signs(j)
          /\ Signer' = Signer /\ Group'
      BY <1>10, <2>1
    <3>2. /\ Group' /\ c' < LEN
          /\ \A l \in Keys, x \in Chains : Done(l, x)' => pk'[l][x] = Value(l, x, W - 1)
          /\ Signer' => \A x \in Chains : Done(sign_leaf, x)' => sig'[x] = Value(sign_leaf', x, lengths'[x])
      BY <1>1, <1>2, <1>8, <2>1, <2>4, <2>7, <3>1
    <3>3. \A j \in Used' : bufs'[j] = Value(KeyOf(j)', ChainOf(j)', k')  BY <2>5, <3>1
    <3>4. \A j \in Used' : Signs(j)' /\ lengths'[ChainOf(j)'] < k' =>
               sig'[ChainOf(j)'] = Value(sign_leaf', ChainOf(j)', lengths'[ChainOf(j)'])
      BY <1>1, <2>6, <3>1
    <3> QED  BY <1>0, <1>1, <1>8, <2>1, <3>2, <3>3, <3>4 DEF LeafInv
  <2> QED  BY <1>13, <1>14, <2>3, <2>8 DEF Inv
<1> QED  BY <1>15, <1>16

LEMMA InvLeafDone == ASSUME WotsAssumption, Inv, LeafDone PROVE Inv'
<1>0. /\ Types /\ SearchInv /\ LeafInv /\ LEN \in Nat /\ Leaves \in Nat /\ pc = "leaf" /\ c >= LEN
  BY Per, Sizes DEF Inv, LeafDone
<1>1. UNCHANGED <<op, build, sign_leaf, oracle, limit, counter, lengths, results, k, bufs, sig, pk,
                  derived>>
  BY DEF LeafDone, search
<1>2. Group /\ c \in Nat /\ leaf_idx \in Nat /\ sign_leaf \in 0 .. Leaves
  BY <1>0 DEF LeafInv, Types, Keys
<1>3. LeafStride \in Nat \ {0} /\ leaf_idx + LeafStride <= Leaves  BY <1>0, <1>2, Strides
<1>4. Signer' = Signer /\ LeafStride' = LeafStride  BY <1>1 DEF Signer, NO_SIGN_LEAF, LeafStride
<1>5. \A s : Found(s)' <=> Found(s)  BY <1>1, SameFound
<1>6. /\ \A l \in Keys, x \in Chains : Done(l, x) => pk[l][x] = Value(l, x, W - 1)
      /\ Signer => \A x \in Chains : Done(sign_leaf, x) => sig[x] = Value(sign_leaf, x, lengths[x])
      /\ ~signed
  BY <1>0 DEF LeafInv, SearchInv
<1>7. \A l \in Nat, x \in Chains : l < leaf_idx + LeafStride => Done(l, x)
  <2>1. \A x \in Chains : x < c  BY <1>0, <1>2 DEF Chains
  <2> QED  BY <2>1 DEF Done
<1>8. CASE leaf_idx + LeafStride < Leaves
  <2>1. leaf_idx' = leaf_idx + LeafStride /\ c' = 0 /\ UNCHANGED <<pc, signed>>
    BY <1>8 DEF LeafDone
  <2>2. leaf_idx' \in Keys  BY <1>0, <1>2, <1>3, <1>8, <2>1 DEF Keys
  <2>3. Types'  BY <1>0, <1>1, <2>1, <2>2 DEF Types
  <2>4. SearchInv'  BY <1>0, <1>1, <1>4, <1>5, <2>1 DEF SearchInv
  <2>5. Group'
    <3>1. PICK q \in Nat : leaf_idx = LeafStride * q  BY <1>2 DEF Group
    <3> DEFINE b == LeafStride
    <3>2. b \in Nat  BY <1>3
    <3> HIDE DEF b
    <3>3. b * (q + 1) = b * q + b  BY <3>2
    <3>4. leaf_idx' = LeafStride' * (q + 1)  BY <1>4, <2>1, <3>1, <3>3 DEF b
    <3> QED  BY <3>4 DEF Group
  <2>6. \A l \in Nat, x \in Chains : Done(l, x)' => Done(l, x)
    <3>1. \A x \in Chains : ~(x < 0)  BY <1>0 DEF Chains
    <3>2. \A l \in Nat, x \in Chains : Done(l, x)' => l < leaf_idx + LeafStride
      BY <2>1, <3>1 DEF Done
    <3> QED  BY <1>7, <3>2
  <2>7. LeafInv'
    <3>1. Keys \subseteq Nat /\ sign_leaf \in Nat  BY <1>0, <1>2 DEF Keys
    <3>2. \A x \in Chains : Done(sign_leaf, x)' => Done(sign_leaf, x)
      <4>1. \A x \in Chains : ~(x < 0)  BY <1>0 DEF Chains
      <4>2. \A x \in Chains : Done(sign_leaf, x)' => sign_leaf < leaf_idx + LeafStride
        BY <1>1, <2>1, <4>1 DEF Done
      <4> QED  BY <1>7, <3>1, <4>2
    <3>3. /\ \A l \in Keys, x \in Chains : Done(l, x)' => pk'[l][x] = Value(l, x, W - 1)
          /\ Signer' => \A x \in Chains : Done(sign_leaf, x)' => sig'[x] = Value(sign_leaf', x, lengths'[x])
      BY <1>1, <1>4, <1>6, <2>6, <3>1, <3>2
    <3> QED  BY <1>0, <1>6, <2>1, <2>5, <3>3 DEF LeafInv
  <2>8. VerifyInv'  BY <1>0, <2>1 DEF VerifyInv
  <2> QED  BY <2>3, <2>4, <2>7, <2>8 DEF Inv
<1>9. CASE ~(leaf_idx + LeafStride < Leaves)
  <2>1. pc' = "idle" /\ signed' = TRUE /\ UNCHANGED <<leaf_idx, c>>  BY <1>9 DEF LeafDone
  <2>2. Types'  BY <1>0, <1>1, <2>1 DEF Types
  <2>3. SearchInv'  BY <1>0, <1>1, <1>4, <1>5, <2>1 DEF SearchInv
  <2>4. leaf_idx + LeafStride = Leaves  BY <1>0, <1>2, <1>3, <1>9
  <2>5. \A l \in Keys, x \in Chains : Done(l, x)  BY <1>0, <1>7, <2>4 DEF Keys
  <2>6. Signer => sign_leaf \in Keys  BY <1>0, <1>2 DEF Signer, NO_SIGN_LEAF, Keys
  <2>7. LeafInv'  BY <1>1, <1>4, <1>6, <2>1, <2>5, <2>6 DEF LeafInv
  <2>8. VerifyInv'  BY <2>1 DEF VerifyInv
  <2> QED  BY <2>2, <2>3, <2>7, <2>8 DEF Inv
<1> QED  BY <1>8, <1>9

LEMMA InvVerify == ASSUME WotsAssumption, Inv, VerifyChain \/ VerifyDone PROVE Inv'
<1>0. /\ Types /\ SearchInv /\ LeafInv /\ VerifyInv /\ LEN \in Nat /\ Leaves \in Nat
      /\ W \in Nat \ {0} /\ pc = "chains"
  BY Per, Sizes, WPositive DEF Inv, VerifyChain, VerifyDone
<1>1. UNCHANGED <<op, build, sign_leaf, oracle, limit, counter, lengths, results, leaf_idx, k, bufs,
                  sig, signed, pk>>
  BY DEF VerifyChain, VerifyDone, search, leaf
<1>2. Signer' = Signer  BY <1>1 DEF Signer, NO_SIGN_LEAF
<1>3. \A s : Found(s)' <=> Found(s)  BY <1>1, SameFound
<1>4. pc' \in {"chains", "verified"}  BY <1>0 DEF VerifyChain, VerifyDone
<1>5. SearchInv'  BY <1>0, <1>1, <1>2, <1>3, <1>4 DEF SearchInv
<1>6. Signer /\ signed  BY <1>0 DEF SearchInv
<1>7. LeafInv'  BY <1>0, <1>1, <1>2, <1>4, <1>6 DEF LeafInv
<1>8. CASE VerifyChain
  <2>1. /\ c < LEN /\ c' = c + 1 /\ pc' = pc
        /\ derived' = [derived EXCEPT ![c] = GenChain(sig[c], c, lengths[c], steps(lengths[c]))]
    BY <1>8 DEF VerifyChain
  <2>2. c \in Chains /\ c \in Nat /\ c' \in 0 .. LEN
    BY <1>0, <2>1 DEF VerifyInv, Chains
  <2>3. sig[c] = Value(sign_leaf, c, lengths[c]) /\ lengths[c] \in 0 .. W - 1
    BY <1>0, <1>6, <2>2 DEF LeafInv, Types
  <2> DEFINE start == lengths[c]
             top == GenChain(sig[c], c, start, steps(start))
  <2>4. top = Value(sign_leaf, c, W - 1)
    <3>1. \A x \in Chains, y \in 0 .. W - 1 :
            GenChain(Value(sign_leaf, x, y), x, y, steps(y)) = Value(sign_leaf, x, W - 1)
      BY GenChainCompletes
    <3> QED  BY <2>2, <2>3, <3>1
  <2>5. derived' = [derived EXCEPT ![c] = top]  BY <2>1
  <2> HIDE DEF top, start
  <2>6. sign_leaf \in Keys  BY <1>0, <1>6 DEF Types, Signer, NO_SIGN_LEAF, Keys
  <2>7. top \in Values
    <3>1. W - 1 \in 0 .. W - 1  BY <1>0
    <3> QED  BY <2>2, <2>4, <2>6, <3>1, ValueType
  <2>8. derived' \in [Chains -> Values \cup {None}] /\ derived \in [Chains -> Values \cup {None}]
    BY <1>0, <2>5, <2>7 DEF Types
  <2>9. Types'  BY <1>0, <1>1, <1>4, <2>2, <2>8 DEF Types
  <2>10. VerifyInv'
    <3>1. ASSUME NEW x \in Chains, x < c' PROVE derived'[x] = Value(sign_leaf, x, W - 1)
      <4>1. CASE x = c  BY <2>2, <2>4, <2>5, <2>8, <4>1
      <4>2. CASE x # c
        <5>1. x < c  BY <1>0, <2>1, <2>2, <3>1, <4>2 DEF Chains
        <5>2. derived[x] = Value(sign_leaf, x, W - 1)  BY <1>0, <5>1 DEF VerifyInv
        <5> QED  BY <2>5, <2>8, <4>2, <5>2
      <4> QED  BY <4>1, <4>2
    <3> QED  BY <1>0, <1>1, <2>1, <2>2, <3>1 DEF VerifyInv
  <2> QED  BY <1>5, <1>7, <2>9, <2>10 DEF Inv
<1>9. CASE VerifyDone
  <2>1. c = LEN /\ pc' = "verified" /\ UNCHANGED <<c, derived>>
    BY <1>9 DEF VerifyDone, leaf
  <2>2. Types'  BY <1>0, <1>1, <1>4, <2>1 DEF Types
  <2>3. \A x \in Chains : x < c  BY <1>0, <2>1 DEF Chains
  <2>4. VerifyInv'  BY <1>0, <1>1, <2>1, <2>3 DEF VerifyInv
  <2> QED  BY <1>5, <1>7, <2>2, <2>4 DEF Inv
<1> QED  BY <1>8, <1>9

LEMMA InvStep == ASSUME WotsAssumption, Inv, [Next]_vars PROVE Inv'
<1>1. CASE UNCHANGED vars
  <2>1. UNCHANGED <<pc, op, build, sign_leaf, oracle, limit, counter, lengths, results, leaf_idx, c, k,
                    bufs, sig, signed, pk, derived>>
    BY <1>1 DEF vars, search, leaf
  <2>2. /\ Signer' = Signer /\ Group' = Group /\ LeafStride' = LeafStride /\ Used' = Used
        /\ \A j : KeyOf(j)' = KeyOf(j) /\ Signs(j)' = Signs(j) /\ ChainOf(j)' = ChainOf(j)
    BY <2>1, SameLanes
  <2>3. \A s : (Found(s)' <=> Found(s)) /\ (Missed(s)' <=> Missed(s))  BY <2>1, SameFound
  <2>4. \A l, x : Done(l, x)' = Done(l, x)  BY <2>1, <2>2 DEF Done
  <2>5. Types'  BY <2>1 DEF Inv, Types
  <2>6. SearchInv'
    <3>1. Missed(counter)' <=> Missed(counter)  BY <2>1 DEF Missed
    <3> QED  BY <2>1, <2>2, <2>3, <3>1 DEF Inv, SearchInv
  <2>7. LeafInv'
    <3>1. \A x : Done(sign_leaf, x)' = Done(sign_leaf, x)  BY <2>1, <2>2 DEF Done
    <3> QED  BY <2>1, <2>2, <2>4, <3>1 DEF Inv, LeafInv
  <2>8. VerifyInv'  BY <2>1 DEF Inv, VerifyInv
  <2> QED  BY <2>5, <2>6, <2>7, <2>8 DEF Inv
<1>2. CASE Finished  BY <1>1, <1>2 DEF Finished
<1> QED
  BY <1>1, <1>2, InvStart, InvSearchTry, InvChainStart, InvChainTurn, InvLeafDone, InvVerify DEF Next

----------------------------------------------------------------------------
(* The theorems.                                                           *)

LEMMA InvType == ASSUME WotsAssumption, Inv PROVE TypeOK
<1>0. Types /\ LeafInv  BY DEF Inv
<1>1. pc = "chain" => \A j \in Used : bufs[j] \in Values
  <2> SUFFICES ASSUME pc = "chain", NEW j \in Used PROVE bufs[j] \in Values  OBVIOUS
  <2>1. Group /\ bufs[j] = Value(KeyOf(j), ChainOf(j), k)  BY <1>0 DEF LeafInv
  <2>2. KeyOf(j) \in Keys /\ ChainOf(j) \in Chains /\ k \in 0 .. W - 1
    BY <1>0, <2>1, LaneTypes DEF Types
  <2> QED  BY <2>1, <2>2, ValueType
<1>2. \A x \in Chains : {sig[x], derived[x]} \subseteq Values \cup {None}  BY <1>0 DEF Types
<1>3. \A l \in DOMAIN pk, x \in Chains : pk[l][x] \in Values \cup {None}  BY <1>0 DEF Types
<1>4. leaf_idx \in 0 .. Leaves - 1  BY <1>0 DEF Types, Keys
<1> QED  BY <1>0, <1>1, <1>2, <1>3, <1>4 DEF Types, TypeOK

LEMMA InvCompletes == ASSUME WotsAssumption, Inv PROVE SignatureCompletes
<1>0. Types /\ SearchInv /\ LeafInv /\ VerifyInv /\ Leaves \in Nat  BY Sizes DEF Inv
<1>1. DOMAIN pk = Keys /\ pk \in [Keys -> [Chains -> Values \cup {None}]]  BY <1>0 DEF Types
<1>2. signed => \A l \in DOMAIN pk, x \in Chains : pk[l][x] = Value(l, x, W - 1)
  BY <1>0, <1>1 DEF LeafInv
<1>3. ASSUME pc = "verified" PROVE derived = pk[sign_leaf]
  <2>1. Signer /\ signed  BY <1>0, <1>3 DEF SearchInv
  <2>2. sign_leaf \in Keys  BY <1>0, <2>1 DEF Types, Signer, NO_SIGN_LEAF, Keys
  <2>3. derived \in [Chains -> Values \cup {None}] /\ pk[sign_leaf] \in [Chains -> Values \cup {None}]
    BY <1>0, <1>1, <2>2 DEF Types
  <2>4. \A x \in Chains : derived[x] = pk[sign_leaf][x]
    BY <1>0, <1>1, <1>2, <1>3, <2>1, <2>2 DEF VerifyInv
  <2> QED  BY <2>3, <2>4
<1> QED  BY <1>2, <1>3, InvType DEF SignatureCompletes

LEMMA InvOwn == ASSUME WotsAssumption, Inv PROVE NoSignatureFromAnother
<1>0. Types /\ SearchInv /\ LEN \in Nat /\ W \in Nat \ {0}  BY Per, WPositive DEF Inv
<1> SUFFICES ASSUME pc = "verified", NEW other \in [Chains -> 0 .. W - 1], other # lengths,
                    \A x \in Chains : ~(other[x] < lengths[x])
             PROVE  checksum(other) # TARGET
  BY DEF NoSignatureFromAnother
<1>1. lengths \in [Chains -> 0 .. W - 1]  BY <1>0 DEF Types
<1>2. checksum(lengths) = TARGET
  <2>1. Signer /\ signed  BY <1>0 DEF SearchInv
  <2>2. PICK s \in 0 .. MaxCounter : Found(s)  BY <1>0, <2>1 DEF SearchInv
  <2> QED  BY <2>2 DEF Found, Hit
<1>3. \A x \in Chains : lengths[x] <= other[x]
  <2>1. \A x \in Chains : lengths[x] \in Int /\ other[x] \in Int  BY <1>0, <1>1
  <2> QED  BY <2>1
<1>4. checksum(other) < checksum(lengths)  BY <1>1, <1>3, ChecksumFalls
<1>5. checksum(lengths) \in Int
  <2>1. Sums(lengths) \in [0 .. LEN -> Int]  BY <1>1, SumsAre
  <2> QED  BY <1>0, <2>1 DEF checksum
<1>6. checksum(other) \in Int
  <2>1. Sums(other) \in [0 .. LEN -> Int]  BY SumsAre
  <2> QED  BY <1>0, <2>1 DEF checksum
<1> QED  BY <1>2, <1>4, <1>5, <1>6

\* Whichever leaf callback a build has, and however its lanes divide the chains
\* and the key pairs, wots_pk_from_sig completes a signature to the public key of
\* the key pair that signed: its own search stops at the signer's counter.  On
\* the way no search leaves its limit, and gen_chain and the callbacks hash no
\* value but under its own address and none beyond the W of a chain.
THEOREM VerifierCompletesSignature ==
    ASSUME WotsAssumption PROVE Spec => []SignatureCompletes
<1>1. Init => Inv  BY InvInit
<1>2. Inv /\ [Next]_vars => Inv'  BY InvStep
<1>3. Inv => SignatureCompletes  BY InvCompletes
<1> QED  BY <1>1, <1>2, <1>3, PTL DEF Spec

\* The fixed target of chain_lengths does what checksum chains do elsewhere: no
\* other digits that the search accepts are at or above the published ones in
\* every chain.
THEOREM FixedSumProtects == ASSUME WotsAssumption PROVE Spec => []NoSignatureFromAnother
<1>1. Init => Inv  BY InvInit
<1>2. Inv /\ [Next]_vars => Inv'  BY InvStep
<1>3. Inv => NoSignatureFromAnother  BY InvOwn
<1> QED  BY <1>1, <1>2, <1>3, PTL DEF Spec
----------------------------------------------------------------------------
(* The numbers of HashAddress: powers, shifts and the bytes of a number.   *)

\* A function defined by recursion on all of Nat exists.
Recursive(f, S, a, F) ==
    f \in [Nat -> S] /\ f[0] = a /\ \A n \in Nat : f[n + 1] = F[f[n]]

LEMMA RecursionNat ==
    ASSUME NEW S, NEW a \in S, NEW F \in [S -> S]
    PROVE  \E f : Recursive(f, S, a, F)
<1> DEFINE Step(n) == [p \in (1 .. n) \X S |-> F[p[2]]]
           Part(n) == {g \in [0 .. n -> S] : Iterates(g, n, a, Step(n))}
           G(n) == CHOOSE g : g \in Part(n)
           f == [n \in Nat |-> G(n)[n]]
<1>1. ASSUME NEW n \in Nat PROVE Part(n) # {}
  <2>1. Step(n) \in [(1 .. n) \X S -> S]  OBVIOUS
  <2> HIDE DEF Step
  <2>2. \E g \in [0 .. n -> S] : Iterates(g, n, a, Step(n))  BY <2>1, Recursion
  <2> QED  BY <2>2
<1>2. \A n \in Nat : G(n) \in Part(n)  BY <1>1
<1>3. ASSUME NEW n \in Nat, NEW g \in Part(n)
      PROVE  g \in [0 .. n -> S] /\ g[0] = a /\ \A x \in 1 .. n : g[x] = F[g[x - 1]]
  <2>1. ASSUME NEW x \in 1 .. n PROVE g[x] = F[g[x - 1]]
    <3>1. g[x] = Step(n)[<<x, g[x - 1]>>]  BY DEF Iterates
    <3>2. <<x, g[x - 1]>> \in (1 .. n) \X S  OBVIOUS
    <3> QED  BY <3>1, <3>2
  <2> QED  BY <2>1 DEF Iterates
<1> HIDE DEF Part
<1>4. ASSUME NEW n \in Nat, NEW g \in Part(n), NEW e \in Part(n + 1)
      PROVE  g[n] = e[n]
  <2> DEFINE A == {x \in Nat : x <= n => g[x] = e[x]}
  <2>0. n + 1 \in Nat  OBVIOUS
  <2>1. 0 \in A  BY <1>3, <2>0
  <2>2. ASSUME NEW x \in Nat, x \in A PROVE x + 1 \in A
    <3> SUFFICES ASSUME x + 1 <= n PROVE g[x + 1] = e[x + 1]  OBVIOUS
    <3>1. x + 1 \in 1 .. n /\ x + 1 \in 1 .. n + 1 /\ x + 1 - 1 = x /\ g[x] = e[x]  BY <2>2
    <3>2. g[x + 1] = F[g[x + 1 - 1]] /\ e[x + 1] = F[e[x + 1 - 1]]  BY <1>3, <2>0, <3>1
    <3> QED  BY <3>1, <3>2
  <2> HIDE DEF A
  <2>3. Nat \subseteq A  BY <2>1, <2>2, Induct
  <2> QED  BY <2>3 DEF A
<1> HIDE DEF G
<1>5. f \in [Nat -> S]
  <2>1. ASSUME NEW n \in Nat PROVE G(n)[n] \in S
    <3>1. G(n) \in [0 .. n -> S]  BY <1>2, <1>3
    <3> QED  BY <3>1
  <2> QED  BY <2>1
<1>6. f[0] = a  BY <1>2, <1>3
<1>7. ASSUME NEW n \in Nat PROVE f[n + 1] = F[f[n]]
  <2>1. n + 1 \in Nat /\ n + 1 \in 1 .. n + 1 /\ n + 1 - 1 = n  OBVIOUS
  <2>2. G(n + 1)[n + 1] = F[G(n + 1)[n + 1 - 1]]  BY <1>2, <1>3, <2>1
  <2>3. G(n)[n] = G(n + 1)[n]  BY <1>2, <1>4, <2>1
  <2> QED  BY <2>1, <2>2, <2>3
<1> HIDE DEF f
<1> QED  BY <1>5, <1>6, <1>7 DEF Recursive

LEMMA AddrPow2 ==
    /\ Addr!Pow2[0] = 1
    /\ \A n \in Nat : Addr!Pow2[n] \in Nat \ {0} /\ Addr!Pow2[n + 1] = 2 * Addr!Pow2[n]
<1> DEFINE S == Nat \ {0}
           F == [y \in S |-> 2 * y]
<1>1. F \in [S -> S] /\ 1 \in S  OBVIOUS
<1>1a. \A y \in S : F[y] = 2 * y  OBVIOUS
<1> HIDE DEF F, S
<1>2. PICK f : Recursive(f, S, 1, F)  BY <1>1, RecursionNat
<1>3. f = [n \in Nat |-> IF n = 0 THEN 1 ELSE 2 * f[n - 1]]
  <2>0. f \in [Nat -> S] /\ f[0] = 1  BY <1>2 DEF Recursive
  <2>1. ASSUME NEW n \in Nat, n # 0 PROVE f[n] = 2 * f[n - 1]
    <3>1. n - 1 \in Nat /\ n - 1 + 1 = n  BY <2>1
    <3>2. f[n - 1 + 1] = F[f[n - 1]]  BY <1>2, <3>1 DEF Recursive
    <3> QED  BY <1>1a, <2>0, <3>1, <3>2
  <2> QED  BY <2>0, <2>1
<1>4. Addr!Pow2 = [n \in Nat |-> IF n = 0 THEN 1 ELSE 2 * Addr!Pow2[n - 1]]
  BY <1>3 DEF Addr!Pow2
<1>5. Addr!Pow2[0] = 1  BY <1>4
<1>6. ASSUME NEW n \in Nat PROVE Addr!Pow2[n + 1] = 2 * Addr!Pow2[n]
  <2>1. n + 1 \in Nat /\ n + 1 # 0 /\ n + 1 - 1 = n  OBVIOUS
  <2> HIDE DEF Addr!Pow2
  <2>2. \A x \in Nat : x # 0 => Addr!Pow2[x] = 2 * Addr!Pow2[x - 1]  BY <1>4
  <2> QED  BY <2>1, <2>2
<1> DEFINE A == {n \in Nat : Addr!Pow2[n] \in Nat \ {0}}
<1>7. 0 \in A  BY <1>5
<1>8. \A n \in Nat : n \in A => n + 1 \in A  BY <1>6
<1> HIDE DEF A
<1>9. Nat \subseteq A  BY <1>7, <1>8, Induct
<1> QED BY <1>5, <1>6, <1>9 DEF A

LEMMA Pow2Eight ==
    ASSUME NEW n \in Nat, n >= 3
    PROVE  n - 3 \in Nat /\ Addr!Pow2[n] = 8 * Addr!Pow2[n - 3] /\ Addr!Pow2[n - 3] \in Nat \ {0}
<1>1. n - 3 \in Nat /\ n - 3 + 1 = n - 2 /\ n - 2 + 1 = n - 1 /\ n - 1 + 1 = n
      /\ n - 2 \in Nat /\ n - 1 \in Nat  OBVIOUS
<1>2. Addr!Pow2[n - 2] = 2 * Addr!Pow2[n - 3] /\ Addr!Pow2[n - 1] = 2 * Addr!Pow2[n - 2]
      /\ Addr!Pow2[n] = 2 * Addr!Pow2[n - 1] /\ Addr!Pow2[n - 3] \in Nat \ {0}
  BY <1>1, AddrPow2
<1> QED  BY <1>1, <1>2

LEMMA AddrSizes ==
    ASSUME Addr!AddressAssumption
    PROVE  /\ D \in Nat \ {0} /\ FORS_SIG_TREES \in Nat \ {0} /\ WOTS_LEN \in Nat \ {0}
           /\ TREE_HEIGHT \in Nat /\ FORS_HEIGHT \in Nat /\ WOTS_W \in Nat /\ BYTE \in Nat
           /\ MaxOps \in Nat
           /\ TREE_HEIGHT >= 3 /\ FORS_HEIGHT >= 3 /\ WOTS_W >= 2 /\ BYTE >= 7
           /\ D <= BYTE /\ TREE_HEIGHT < BYTE /\ FORS_HEIGHT < BYTE
           /\ WOTS_LEN <= BYTE /\ WOTS_W - 1 <= BYTE
           /\ TREE_HEIGHT * (D - 1) \in Nat
<1>1. D \in Nat \ {0} /\ TREE_HEIGHT \in Nat  BY DEF Addr!AddressAssumption
<1>2. D - 1 \in Nat  BY <1>1
<1>3. TREE_HEIGHT * (D - 1) \in Nat  BY <1>1, <1>2
<1> QED  BY <1>3 DEF Addr!AddressAssumption

\* Power[n] is BYTE^n.
LEMMA Powers ==
    ASSUME Addr!AddressAssumption
    PROVE  /\ Addr!Power[0] = 1
           /\ \A n \in 0 .. 8 : Addr!Power[n] \in Nat \ {0}
           /\ \A n \in 1 .. 8 : Addr!Power[n] = BYTE * Addr!Power[n - 1]
<1> DEFINE S == Nat \ {0}
           F == [p \in (1 .. 8) \X S |-> BYTE * p[2]]
<1>1. BYTE \in Nat \ {0} /\ 1 \in S /\ 8 \in Nat  BY AddrSizes
<1>2. \A y \in S : BYTE * y \in S  BY <1>1
<1>3. F \in [(1 .. 8) \X S -> S]  BY <1>2
<1>4. \A n \in 1 .. 8, y \in S : F[<<n, y>>] = BYTE * y  OBVIOUS
<1> HIDE DEF S, F
<1>5. PICK g \in [0 .. 8 -> S] : Iterates(g, 8, 1, F)  BY <1>1, <1>3, Recursion
<1>6. g = [n \in 0 .. 8 |-> IF n = 0 THEN 1 ELSE BYTE * g[n - 1]]
  <2>1. ASSUME NEW n \in 0 .. 8, n # 0 PROVE g[n] = BYTE * g[n - 1]
    <3>1. n \in 1 .. 8 /\ n - 1 \in 0 .. 8  BY <2>1
    <3>2. g[n] = F[<<n, g[n - 1]>>] /\ g[n - 1] \in S  BY <1>5, <3>1 DEF Iterates
    <3> QED  BY <1>4, <3>1, <3>2
  <2>2. g[0] = 1  BY <1>5 DEF Iterates
  <2> QED  BY <2>1, <2>2
<1>7. Addr!Power = [n \in 0 .. 8 |-> IF n = 0 THEN 1 ELSE BYTE * Addr!Power[n - 1]]
  BY <1>6 DEF Addr!Power
<1> HIDE DEF Addr!Power
<1>8. Addr!Power[0] = 1  BY <1>7
<1>9. ASSUME NEW n \in 1 .. 8 PROVE Addr!Power[n] = BYTE * Addr!Power[n - 1]
  <2>1. n \in 0 .. 8 /\ n # 0  OBVIOUS
  <2> QED  BY <1>7, <2>1
<1> DEFINE T == {n \in Nat : n <= 8 => Addr!Power[n] \in S}
<1>10. 0 \in T  BY <1>8 DEF S
<1>11. ASSUME NEW n \in Nat, n \in T PROVE n + 1 \in T
  <2> SUFFICES ASSUME n + 1 <= 8 PROVE Addr!Power[n + 1] \in S  OBVIOUS
  <2>1. n + 1 \in 1 .. 8 /\ n + 1 - 1 = n /\ n <= 8  OBVIOUS
  <2>2. Addr!Power[n + 1] = BYTE * Addr!Power[n] /\ Addr!Power[n] \in S  BY <1>9, <1>11, <2>1
  <2> QED  BY <1>2, <2>2
<1> HIDE DEF T
<1>12. Nat \subseteq T  BY <1>10, <1>11, Induct
<1> QED  BY <1>8, <1>9, <1>12 DEF S, T

\* The quotients the loop of ull_to_bytes runs through.
Quotients(g, x) ==
    /\ g \in [0 .. 8 -> Int] /\ g[0] = x
    /\ \A n \in 1 .. 8 : g[n] = g[n - 1] \div BYTE
    /\ \A e \in 0 .. 8 : Addr!ByteOf(x, e) = g[e] % BYTE

LEMMA ByteLoop ==
    ASSUME Addr!AddressAssumption, NEW x \in Int
    PROVE  \E g : Quotients(g, x)
<1> DEFINE F == [p \in (1 .. 8) \X Int |-> p[2] \div BYTE]
           Body(g) == [n \in 0 .. 8 |-> IF n = 0 THEN x ELSE g[n - 1] \div BYTE]
           loop == CHOOSE g : g = Body(g)
<1>1. BYTE \in Nat \ {0} /\ 8 \in Nat  BY AddrSizes
<1>2. \A y \in Int : y \div BYTE \in Int  BY <1>1
<1>3. F \in [(1 .. 8) \X Int -> Int]  BY <1>2
<1>4. \A n \in 1 .. 8, y \in Int : F[<<n, y>>] = y \div BYTE  OBVIOUS
<1> HIDE DEF F
<1>5. PICK g \in [0 .. 8 -> Int] : Iterates(g, 8, x, F)  BY <1>1, <1>3, Recursion
<1>6. g = Body(g)
  <2>1. ASSUME NEW n \in 0 .. 8, n # 0 PROVE g[n] = g[n - 1] \div BYTE
    <3>1. n \in 1 .. 8 /\ n - 1 \in 0 .. 8  BY <2>1
    <3>2. g[n] = F[<<n, g[n - 1]>>] /\ g[n - 1] \in Int  BY <1>5, <3>1 DEF Iterates
    <3> QED  BY <1>4, <3>1, <3>2
  <2>2. g[0] = x  BY <1>5 DEF Iterates
  <2> QED  BY <2>1, <2>2
<1>7. loop = Body(loop)
  <2> HIDE DEF Body
  <2> QED  BY <1>6
<1>8. \A e : Addr!ByteOf(x, e) = loop[e] % BYTE  BY DEF Addr!ByteOf
<1> HIDE DEF loop
<1>9. loop[0] = x  BY <1>7
<1>10. ASSUME NEW n \in 1 .. 8 PROVE loop[n] = loop[n - 1] \div BYTE
  <2>1. n \in 0 .. 8 /\ n # 0  OBVIOUS
  <2> QED  BY <1>7, <2>1
<1> DEFINE T == {n \in Nat : n <= 8 => loop[n] \in Int}
<1>11. 0 \in T  BY <1>9
<1>12. ASSUME NEW n \in Nat, n \in T PROVE n + 1 \in T
  <2> SUFFICES ASSUME n + 1 <= 8 PROVE loop[n + 1] \in Int  OBVIOUS
  <2>1. n + 1 \in 1 .. 8 /\ n + 1 - 1 = n /\ n <= 8  OBVIOUS
  <2>2. loop[n + 1] = loop[n] \div BYTE /\ loop[n] \in Int  BY <1>10, <1>12, <2>1
  <2> QED  BY <1>2, <2>2
<1> HIDE DEF T
<1>13. Nat \subseteq T  BY <1>11, <1>12, Induct
<1>14. \A n \in 0 .. 8 : loop[n] \in Int  BY <1>13 DEF T
<1>15. loop = [n \in 0 .. 8 |-> loop[n]]  BY <1>7
<1>16. loop \in [0 .. 8 -> Int]  BY <1>14, <1>15
<1> QED  BY <1>8, <1>9, <1>10, <1>16 DEF Quotients

LEMMA ByteRange ==
    ASSUME Addr!AddressAssumption, NEW x \in Int, NEW e \in 0 .. 8
    PROVE  Addr!ByteOf(x, e) \in 0 .. BYTE - 1
<1>1. PICK g : Quotients(g, x)  BY ByteLoop
<1>2. g[e] \in Int /\ Addr!ByteOf(x, e) = g[e] % BYTE  BY <1>1 DEF Quotients
<1>3. BYTE \in Nat \ {0}  BY AddrSizes
<1>4. g[e] % BYTE \in 0 .. BYTE - 1  BY <1>2, <1>3
<1> QED  BY <1>2, <1>4

\* The cast to unsigned char leaves a byte as it is.
LEMMA ByteSmall ==
    ASSUME Addr!AddressAssumption, NEW x \in 0 .. BYTE - 1
    PROVE  Addr!ByteOf(x, 0) = x /\ \A e \in 1 .. 8 : Addr!ByteOf(x, e) = 0
<1>0. BYTE \in Nat \ {0} /\ x \in Int  BY AddrSizes
<1>1. PICK g : Quotients(g, x)  BY <1>0, ByteLoop
<1>2. Addr!ByteOf(x, 0) = x % BYTE /\ \A n \in 1 .. 8 : g[n] = g[n - 1] \div BYTE
  BY <1>1 DEF Quotients
<1>3. x % BYTE = x /\ x \div BYTE = 0  BY <1>0
<1>4. 0 % BYTE = 0 /\ 0 \div BYTE = 0  BY <1>0
<1>5. g[1] = 0  BY <1>1, <1>3 DEF Quotients
<1> DEFINE T == {n \in Nat : n + 1 <= 8 => g[n + 1] = 0}
<1>6. 0 \in T  BY <1>5
<1>7. ASSUME NEW n \in Nat, n \in T PROVE n + 1 \in T
  <2> SUFFICES ASSUME n + 2 <= 8 PROVE g[n + 2] = 0  OBVIOUS
  <2>1. n + 2 \in 1 .. 8 /\ n + 2 - 1 = n + 1 /\ n + 1 <= 8  OBVIOUS
  <2> QED  BY <1>2, <1>4, <1>7, <2>1
<1> HIDE DEF T
<1>8. Nat \subseteq T  BY <1>6, <1>7, Induct
<1>9. ASSUME NEW e \in 1 .. 8 PROVE Addr!ByteOf(x, e) = 0
  <2>1. e - 1 \in T /\ e - 1 + 1 = e  BY <1>8
  <2>2. g[e] = 0  BY <2>1 DEF T
  <2>3. Addr!ByteOf(x, e) = g[e] % BYTE  BY <1>1 DEF Quotients
  <2> QED  BY <1>4, <2>2, <2>3
<1> QED  BY <1>2, <1>3, <1>9

LEMMA ByteZero == ASSUME Addr!AddressAssumption PROVE \A e \in 0 .. 8 : Addr!ByteOf(0, e) = 0
<1>1. 0 \in 0 .. BYTE - 1  BY AddrSizes
<1>2. Addr!ByteOf(0, 0) = 0 /\ \A e \in 1 .. 8 : Addr!ByteOf(0, e) = 0  BY <1>1, ByteSmall
<1>3. ASSUME NEW e \in 0 .. 8 PROVE e = 0 \/ e \in 1 .. 8  OBVIOUS
<1> QED  BY <1>2, <1>3

\* A number of n bytes is used up by n divisions.
LEMMA UsedUp ==
    ASSUME Addr!AddressAssumption, NEW n \in 0 .. 8, NEW x \in 0 .. Addr!Power[n] - 1,
           NEW g, Quotients(g, x)
    PROVE  g[n] = 0
<1>0. BYTE \in Nat \ {0}  BY AddrSizes
<1> DEFINE T == {e \in Nat : e <= n => g[e] \in 0 .. Addr!Power[n - e] - 1}
<1>1. 0 \in T
  <2>1. n - 0 = n  OBVIOUS
  <2> QED  BY <2>1 DEF Quotients
<1>2. ASSUME NEW e \in Nat, e \in T PROVE e + 1 \in T
  <2> SUFFICES ASSUME e + 1 <= n PROVE g[e + 1] \in 0 .. Addr!Power[n - (e + 1)] - 1  OBVIOUS
  <2>1. e + 1 \in 1 .. 8 /\ e + 1 - 1 = e /\ n - e \in 1 .. 8 /\ n - e - 1 = n - (e + 1)
        /\ n - (e + 1) \in 0 .. 8  OBVIOUS
  <2>2. g[e + 1] = g[e] \div BYTE  BY <2>1 DEF Quotients
  <2> DEFINE p == Addr!Power[n - (e + 1)]
  <2>3. Addr!Power[n - e] = BYTE * p /\ p \in Nat \ {0}  BY <2>1, Powers
  <2>4. g[e] \in 0 .. BYTE * p - 1
    <3>1. g[e] \in 0 .. Addr!Power[n - e] - 1  BY <1>2, <2>1
    <3> QED  BY <2>3, <3>1
  <2> HIDE DEF p
  <2>5. PICK q \in Nat, r \in 0 .. BYTE - 1 :
           q = g[e] \div BYTE /\ r = g[e] % BYTE /\ g[e] = BYTE * q + r
    <3>1. BYTE * p \in Nat  BY <1>0, <2>3
    <3>2. g[e] \in Nat  BY <2>4, <3>1
    <3> QED  BY <1>0, <3>2, DivMod
  <2>6. BYTE * q < BYTE * p
    <3>1. BYTE * p \in Nat /\ BYTE * q \in Nat  BY <1>0, <2>3
    <3> QED  BY <2>4, <2>5, <3>1, <1>0
  <2>7. q < p  BY <2>6, <2>3, <1>0, MulLess
  <2> QED  BY <2>2, <2>3, <2>5, <2>7 DEF p
<1> HIDE DEF T
<1>3. Nat \subseteq T  BY <1>1, <1>2, Induct
<1>4. n \in T /\ n - n = 0  BY <1>3
<1>5. g[n] \in 0 .. Addr!Power[0] - 1  BY <1>4 DEF T
<1> QED  BY <1>5, Powers

\* The n bytes of a number determine it.
LEMMA BytesDetermine ==
    ASSUME Addr!AddressAssumption, NEW n \in 0 .. 8,
           NEW x \in 0 .. Addr!Power[n] - 1, NEW y \in 0 .. Addr!Power[n] - 1,
           \A e \in 0 .. n - 1 : Addr!ByteOf(x, e) = Addr!ByteOf(y, e)
    PROVE  x = y
<1>0. BYTE \in Nat \ {0} /\ x \in Int /\ y \in Int  BY AddrSizes
<1>1. PICK g : Quotients(g, x)  BY <1>0, ByteLoop
<1>2. PICK h : Quotients(h, y)  BY <1>0, ByteLoop
<1>3. g[n] = 0 /\ h[n] = 0  BY <1>1, <1>2, UsedUp
<1> DEFINE T == {e \in Nat : e <= n => g[n - e] = h[n - e]}
<1>4. 0 \in T
  <2>1. n - 0 = n  OBVIOUS
  <2> QED  BY <1>3, <2>1
<1>5. ASSUME NEW e \in Nat, e \in T PROVE e + 1 \in T
  <2> SUFFICES ASSUME e + 1 <= n PROVE g[n - (e + 1)] = h[n - (e + 1)]  OBVIOUS
  <2> DEFINE b == n - (e + 1)
  <2>1. b \in 0 .. n - 1 /\ b + 1 = n - e /\ b + 1 \in 1 .. 8 /\ b + 1 - 1 = b /\ b \in 0 .. 8
        /\ e <= n  OBVIOUS
  <2>2. g[b + 1] = h[b + 1]  BY <1>5, <2>1
  <2> HIDE DEF b
  <2>3. g[b] \in Int /\ h[b] \in Int /\ g[b + 1] = g[b] \div BYTE /\ h[b + 1] = h[b] \div BYTE
        /\ Addr!ByteOf(x, b) = g[b] % BYTE /\ Addr!ByteOf(y, b) = h[b] % BYTE
    BY <1>1, <1>2, <2>1 DEF Quotients
  <2>4. g[b] % BYTE = h[b] % BYTE /\ g[b] \div BYTE = h[b] \div BYTE  BY <2>1, <2>2, <2>3
  <2>5. ASSUME NEW u \in Int PROVE u = BYTE * (u \div BYTE) + (u % BYTE)  BY <1>0
  <2>6. g[b] = h[b]  BY <2>3, <2>4, <2>5
  <2> QED  BY <2>6 DEF b
<1> HIDE DEF T
<1>6. Nat \subseteq T  BY <1>4, <1>5, Induct
<1>7. n \in T /\ n - n = 0  BY <1>6
<1>8. g[0] = h[0]  BY <1>7 DEF T
<1> QED  BY <1>1, <1>2, <1>8 DEF Quotients

LEMMA ByteBelow == ASSUME Addr!AddressAssumption PROVE BYTE <= Addr!Power[4] /\ Addr!Power[4] \in Nat
<1>1. Addr!Power[4] = BYTE * Addr!Power[3] /\ Addr!Power[3] \in Nat \ {0} /\ Addr!Power[4] \in Nat
  <2>1. 4 - 1 = 3  OBVIOUS
  <2> QED  BY <2>1, Powers
<1>2. \A p \in Nat \ {0} : BYTE * p >= BYTE  BY AddrSizes
<1> QED  BY <1>1, <1>2

\* A shift to the right.
LEMMA Shifts ==
    ASSUME NEW x \in Nat, NEW l \in Nat PROVE Addr!Shr(x, l) \in 0 .. x
<1>1. Addr!Pow2[l] \in Nat \ {0}  BY AddrPow2
<1>2. PICK q \in Nat, r \in 0 .. Addr!Pow2[l] - 1 :
         q = x \div Addr!Pow2[l] /\ r = x % Addr!Pow2[l] /\ x = Addr!Pow2[l] * q + r  BY <1>1, DivMod
<1>3. \A p \in Nat \ {0} : p * q >= q /\ p * q \in Nat  BY <1>2
<1>3a. Addr!Pow2[l] * q >= q /\ Addr!Pow2[l] * q \in Nat  BY <1>1, <1>3
<1>4. q <= x
  <2> DEFINE m == Addr!Pow2[l] * q
  <2>1. x = m + r /\ m >= q /\ m \in Nat /\ r \in Nat  BY <1>1, <1>2, <1>3a
  <2> HIDE DEF m
  <2> QED  BY <1>2, <2>1
<1> QED  BY <1>2, <1>4 DEF Addr!Shr

----------------------------------------------------------------------------
(* An address, field by field.                                             *)

SubOf(a) == [b \in 0 .. 8 |-> a[b]]             \* layer and tree
TypeOf(a) == a[9]
PairOf(a) == [b \in 10 .. 13 |-> a[b]]
PadOf(a) == [b \in 14 .. 16 |-> a[b]]           \* no field: never set
UpOf(a) == a[17]                                \* chain, or height
MidOf(a) == [b \in 18 .. 20 |-> a[b]]           \* index but for its last byte
LowOf(a) == a[21]                               \* that byte, or hash

Subtree(layer, t) == [b \in 0 .. 8 |-> IF b = 0 THEN layer ELSE Addr!ByteOf(t, 8 - b)]
Pair(x) == [b \in 10 .. 13 |-> Addr!ByteOf(x, 13 - b)]
NoPad == [b \in 14 .. 16 |-> 0]
Mid(x) == [b \in 18 .. 20 |-> Addr!ByteOf(x, 21 - b)]
Low(x) == Addr!ByteOf(x, 0)

Is(a, s, t, p, z, u, m, w) ==
    /\ a \in Addr!Address
    /\ SubOf(a) = s /\ TypeOf(a) = t /\ PairOf(a) = p /\ PadOf(a) = z
    /\ UpOf(a) = u /\ MidOf(a) = m /\ LowOf(a) = w

\* Its fields determine an address.
LEMMA FieldsDetermine ==
    ASSUME NEW a \in Addr!Address, NEW e \in Addr!Address,
           Is(a, SubOf(e), TypeOf(e), PairOf(e), PadOf(e), UpOf(e), MidOf(e), LowOf(e))
    PROVE  a = e
<1>1. ASSUME NEW b \in 0 .. 8 PROVE a[b] = e[b]
  <2>1. SubOf(a)[b] = SubOf(e)[b]  BY DEF Is
  <2> QED  BY <2>1 DEF SubOf
<1>2. ASSUME NEW b \in 10 .. 13 PROVE a[b] = e[b]
  <2>1. PairOf(a)[b] = PairOf(e)[b]  BY DEF Is
  <2> QED  BY <2>1 DEF PairOf
<1>3. ASSUME NEW b \in 14 .. 16 PROVE a[b] = e[b]
  <2>1. PadOf(a)[b] = PadOf(e)[b]  BY DEF Is
  <2> QED  BY <2>1 DEF PadOf
<1>4. ASSUME NEW b \in 18 .. 20 PROVE a[b] = e[b]
  <2>1. MidOf(a)[b] = MidOf(e)[b]  BY DEF Is
  <2> QED  BY <2>1 DEF MidOf
<1>5. a[9] = e[9] /\ a[17] = e[17] /\ a[21] = e[21]  BY DEF Is, TypeOf, UpOf, LowOf
<1>6. ASSUME NEW b \in Addr!AddrBytes PROVE a[b] = e[b]
  <2>1. b \in 0 .. 8 \/ b = 9 \/ b \in 10 .. 13 \/ b \in 14 .. 16 \/ b = 17 \/ b \in 18 .. 20
        \/ b = 21  BY DEF Addr!AddrBytes
  <2> QED  BY <1>1, <1>2, <1>3, <1>4, <1>5, <2>1
<1> QED  BY <1>6 DEF Addr!Address

LEMMA PutIsAddress ==
    ASSUME Addr!AddressAssumption, NEW a \in Addr!Address, NEW first \in Nat, NEW n \in 1 .. 8, NEW x \in Int
    PROVE  Addr!Put(a, first, n, x) \in Addr!Address
<1>1. ASSUME NEW b \in Addr!AddrBytes, b \in first .. first + n - 1
      PROVE  Addr!ByteOf(x, first + n - 1 - b) \in 0 .. BYTE - 1
  <2>1. first + n - 1 - b \in 0 .. 8  BY <1>1
  <2> QED  BY <2>1, ByteRange
<1>2. \A b \in Addr!AddrBytes : a[b] \in 0 .. BYTE - 1  BY DEF Addr!Address
<1> QED  BY <1>1, <1>2 DEF Addr!Put, Addr!Address

\* What the setters of address.c do to the fields.
LEMMA SetType ==
    ASSUME Addr!AddressAssumption, NEW a \in Addr!Address, NEW t \in 0 .. 6
    PROVE  Is(Addr!set_type(a, t), SubOf(a), t, PairOf(a), PadOf(a), UpOf(a), MidOf(a), LowOf(a))
<1>0. BYTE >= 7 /\ BYTE \in Nat  BY AddrSizes
<1>1. t \in Int /\ t \in 0 .. BYTE - 1  BY <1>0
<1>2. Addr!set_type(a, t) \in Addr!Address  BY <1>1, PutIsAddress DEF Addr!set_type, Addr!Offset
<1>3. \A b \in Addr!AddrBytes : Addr!set_type(a, t)[b] = IF b = 9 THEN Addr!ByteOf(t, 0) ELSE a[b]
  BY DEF Addr!set_type, Addr!Offset, Addr!Put, Addr!AddrBytes
<1>4. Addr!ByteOf(t, 0) = t  BY <1>1, ByteSmall
<1> HIDE DEF Addr!set_type
<1> QED  BY <1>2, <1>3, <1>4
         DEF Is, SubOf, TypeOf, PairOf, PadOf, UpOf, MidOf, LowOf, Addr!AddrBytes

LEMMA SetLayer ==
    ASSUME Addr!AddressAssumption, NEW a \in Addr!Address, NEW l \in 0 .. BYTE - 1, NEW t \in Int,
           \A b \in 1 .. 8 : a[b] = Addr!ByteOf(t, 8 - b)
    PROVE  Is(Addr!set_layer_addr(a, l), Subtree(l, t), TypeOf(a), PairOf(a), PadOf(a), UpOf(a),
              MidOf(a), LowOf(a))
<1>0. BYTE \in Nat /\ l \in Int  BY AddrSizes
<1>2. Addr!set_layer_addr(a, l) \in Addr!Address
  BY <1>0, PutIsAddress DEF Addr!set_layer_addr, Addr!Offset
<1>3. \A b \in Addr!AddrBytes : Addr!set_layer_addr(a, l)[b] = IF b = 0 THEN Addr!ByteOf(l, 0) ELSE a[b]
  BY DEF Addr!set_layer_addr, Addr!Offset, Addr!Put, Addr!AddrBytes
<1>4. Addr!ByteOf(l, 0) = l  BY ByteSmall
<1>5. SubOf(Addr!set_layer_addr(a, l)) = Subtree(l, t)
  BY <1>3, <1>4 DEF SubOf, Subtree, Addr!AddrBytes
<1> HIDE DEF Addr!set_layer_addr
<1> QED  BY <1>2, <1>3, <1>5
         DEF Is, SubOf, TypeOf, PairOf, PadOf, UpOf, MidOf, LowOf, Addr!AddrBytes

LEMMA SetPair ==
    ASSUME Addr!AddressAssumption, NEW a \in Addr!Address, NEW x \in Int
    PROVE  Is(Addr!set_keypair_addr(a, x), SubOf(a), TypeOf(a), Pair(x), PadOf(a), UpOf(a),
              MidOf(a), LowOf(a))
<1>2. Addr!set_keypair_addr(a, x) \in Addr!Address
  BY PutIsAddress DEF Addr!set_keypair_addr, Addr!Offset
<1>3. \A b \in Addr!AddrBytes :
        Addr!set_keypair_addr(a, x)[b] = IF b \in 10 .. 13 THEN Addr!ByteOf(x, 13 - b) ELSE a[b]
  BY DEF Addr!set_keypair_addr, Addr!Offset, Addr!Put, Addr!AddrBytes
<1> HIDE DEF Addr!set_keypair_addr
<1> QED  BY <1>2, <1>3
         DEF Is, SubOf, TypeOf, PairOf, PadOf, UpOf, MidOf, LowOf, Addr!AddrBytes, Pair

\* set_chain_addr and set_tree_height share a byte.
LEMMA SetUp ==
    ASSUME Addr!AddressAssumption, NEW a \in Addr!Address, NEW x \in Int
    PROVE  /\ Addr!set_tree_height(a, x) = Addr!set_chain_addr(a, x)
           /\ Is(Addr!set_chain_addr(a, x), SubOf(a), TypeOf(a), PairOf(a), PadOf(a), Low(x),
                 MidOf(a), LowOf(a))
<1>1. Addr!set_tree_height(a, x) = Addr!set_chain_addr(a, x)
  BY DEF Addr!set_tree_height, Addr!set_chain_addr, Addr!Offset
<1>2. Addr!set_chain_addr(a, x) \in Addr!Address  BY PutIsAddress DEF Addr!set_chain_addr, Addr!Offset
<1>3. \A b \in Addr!AddrBytes : Addr!set_chain_addr(a, x)[b] = IF b = 17 THEN Addr!ByteOf(x, 0) ELSE a[b]
  BY DEF Addr!set_chain_addr, Addr!Offset, Addr!Put, Addr!AddrBytes
<1> HIDE DEF Addr!set_chain_addr
<1> QED  BY <1>1, <1>2, <1>3
         DEF Is, SubOf, TypeOf, PairOf, PadOf, UpOf, MidOf, LowOf, Addr!AddrBytes, Low

LEMMA SetHash ==
    ASSUME Addr!AddressAssumption, NEW a \in Addr!Address, NEW x \in Int
    PROVE  Is(Addr!set_hash_addr(a, x), SubOf(a), TypeOf(a), PairOf(a), PadOf(a), UpOf(a),
              MidOf(a), Low(x))
<1>2. Addr!set_hash_addr(a, x) \in Addr!Address  BY PutIsAddress DEF Addr!set_hash_addr, Addr!Offset
<1>3. \A b \in Addr!AddrBytes : Addr!set_hash_addr(a, x)[b] = IF b = 21 THEN Addr!ByteOf(x, 0) ELSE a[b]
  BY DEF Addr!set_hash_addr, Addr!Offset, Addr!Put, Addr!AddrBytes
<1> HIDE DEF Addr!set_hash_addr
<1> QED  BY <1>2, <1>3
         DEF Is, SubOf, TypeOf, PairOf, PadOf, UpOf, MidOf, LowOf, Addr!AddrBytes, Low

LEMMA SetIndex ==
    ASSUME Addr!AddressAssumption, NEW a \in Addr!Address, NEW x \in Int
    PROVE  Is(Addr!set_tree_index(a, x), SubOf(a), TypeOf(a), PairOf(a), PadOf(a), UpOf(a),
              Mid(x), Low(x))
<1>2. Addr!set_tree_index(a, x) \in Addr!Address  BY PutIsAddress DEF Addr!set_tree_index, Addr!Offset
<1>3. \A b \in Addr!AddrBytes :
        Addr!set_tree_index(a, x)[b] = IF b \in 18 .. 21 THEN Addr!ByteOf(x, 21 - b) ELSE a[b]
  BY DEF Addr!set_tree_index, Addr!Offset, Addr!Put, Addr!AddrBytes
<1> HIDE DEF Addr!set_tree_index
<1> QED  BY <1>2, <1>3
         DEF Is, SubOf, TypeOf, PairOf, PadOf, UpOf, MidOf, LowOf, Addr!AddrBytes, Mid, Low

\* Layer, then tree: the whole of the subtree's field.
LEMMA SetSubtree ==
    ASSUME Addr!AddressAssumption, NEW a \in Addr!Address, NEW l \in 0 .. BYTE - 1, NEW t \in Int
    PROVE  Is(Addr!set_tree_addr(Addr!set_layer_addr(a, l), t), Subtree(l, t), TypeOf(a), PairOf(a),
              PadOf(a), UpOf(a), MidOf(a), LowOf(a))
<1>0. BYTE \in Nat /\ l \in Int  BY AddrSizes
<1> DEFINE e == Addr!set_layer_addr(a, l)
           r == Addr!set_tree_addr(e, t)
<1>1. e \in Addr!Address  BY <1>0, PutIsAddress DEF Addr!set_layer_addr, Addr!Offset
<1>2. \A b \in Addr!AddrBytes : e[b] = IF b = 0 THEN Addr!ByteOf(l, 0) ELSE a[b]
  BY DEF Addr!set_layer_addr, Addr!Offset, Addr!Put, Addr!AddrBytes
<1> HIDE DEF e
<1>3. r \in Addr!Address  BY <1>1, PutIsAddress DEF Addr!set_tree_addr, Addr!Offset
<1>4. \A b \in Addr!AddrBytes : r[b] = IF b \in 1 .. 8 THEN Addr!ByteOf(t, 8 - b) ELSE e[b]
  BY DEF Addr!set_tree_addr, Addr!Offset, Addr!Put, Addr!AddrBytes
<1>5. Addr!ByteOf(l, 0) = l  BY ByteSmall
<1>6. ASSUME NEW b \in 0 .. 8 PROVE r[b] = IF b = 0 THEN l ELSE Addr!ByteOf(t, 8 - b)
  BY <1>2, <1>4, <1>5 DEF Addr!AddrBytes
<1>7. ASSUME NEW b \in 9 .. 21 PROVE r[b] = a[b]  BY <1>2, <1>4 DEF Addr!AddrBytes
<1> HIDE DEF r
<1>8. SubOf(r) = Subtree(l, t)  BY <1>6 DEF SubOf, Subtree
<1>9. TypeOf(r) = TypeOf(a) /\ PairOf(r) = PairOf(a) /\ PadOf(r) = PadOf(a) /\ UpOf(r) = UpOf(a)
      /\ MidOf(r) = MidOf(a) /\ LowOf(r) = LowOf(a)
  BY <1>7 DEF TypeOf, PairOf, PadOf, UpOf, MidOf, LowOf
<1>10. Is(r, Subtree(l, t), TypeOf(a), PairOf(a), PadOf(a), UpOf(a), MidOf(a), LowOf(a))
  BY <1>3, <1>8, <1>9 DEF Is
<1> QED  BY <1>10 DEF r, e

LEMMA SetTree ==
    ASSUME Addr!AddressAssumption, NEW a \in Addr!Address, NEW t \in Int
    PROVE  Is(Addr!set_tree_addr(a, t), Subtree(a[0], t), TypeOf(a), PairOf(a),
              PadOf(a), UpOf(a), MidOf(a), LowOf(a))
<1> DEFINE r == Addr!set_tree_addr(a, t)
<1>1. r \in Addr!Address  BY PutIsAddress DEF Addr!set_tree_addr, Addr!Offset
<1>2. \A b \in Addr!AddrBytes : r[b] = IF b \in 1 .. 8 THEN Addr!ByteOf(t, 8 - b) ELSE a[b]
  BY DEF Addr!set_tree_addr, Addr!Offset, Addr!Put, Addr!AddrBytes
<1> HIDE DEF r
<1>3. SubOf(r) = Subtree(a[0], t)
  <2>1. ASSUME NEW b \in 0 .. 8 PROVE r[b] = IF b = 0 THEN a[0] ELSE Addr!ByteOf(t, 8 - b)
    BY <1>2 DEF Addr!AddrBytes
  <2> QED  BY <2>1 DEF SubOf, Subtree
<1>4. Is(r, Subtree(a[0], t), TypeOf(a), PairOf(a), PadOf(a), UpOf(a), MidOf(a), LowOf(a))
  BY <1>1, <1>2, <1>3 DEF Is, TypeOf, PairOf, PadOf, UpOf, MidOf, LowOf, Addr!AddrBytes
<1> QED  BY <1>4 DEF r

LEMMA CopySubtree ==
    ASSUME Addr!AddressAssumption, NEW out \in Addr!Address, NEW in \in Addr!Address
    PROVE  Is(Addr!copy_subtree_addr(out, in), SubOf(in), TypeOf(out), PairOf(out), PadOf(out),
              UpOf(out), MidOf(out), LowOf(out))
<1> DEFINE r == Addr!copy_subtree_addr(out, in)
<1>1. \A b \in Addr!AddrBytes : r[b] = IF b < 9 THEN in[b] ELSE out[b]
  BY DEF Addr!copy_subtree_addr, Addr!Offset
<1>2. r \in Addr!Address  BY DEF Addr!copy_subtree_addr, Addr!Address
<1> HIDE DEF r
<1>3. Is(r, SubOf(in), TypeOf(out), PairOf(out), PadOf(out), UpOf(out), MidOf(out), LowOf(out))
  BY <1>1, <1>2 DEF Is, SubOf, TypeOf, PairOf, PadOf, UpOf, MidOf, LowOf, Addr!AddrBytes
<1> QED  BY <1>3 DEF r

LEMMA CopyPair ==
    ASSUME Addr!AddressAssumption, NEW out \in Addr!Address, NEW in \in Addr!Address
    PROVE  Is(Addr!copy_keypair_addr(out, in), SubOf(in), TypeOf(out), PairOf(in), PadOf(out),
              UpOf(out), MidOf(out), LowOf(out))
<1> DEFINE r == Addr!copy_keypair_addr(out, in)
<1>1. \A b \in Addr!AddrBytes : r[b] = IF b < 9 \/ b \in 10 .. 13 THEN in[b] ELSE out[b]
  BY DEF Addr!copy_keypair_addr, Addr!Offset
<1>2. r \in Addr!Address  BY DEF Addr!copy_keypair_addr, Addr!Address
<1> HIDE DEF r
<1>3. Is(r, SubOf(in), TypeOf(out), PairOf(in), PadOf(out), UpOf(out), MidOf(out), LowOf(out))
  BY <1>1, <1>2 DEF Is, SubOf, TypeOf, PairOf, PadOf, UpOf, MidOf, LowOf, Addr!AddrBytes
<1> QED  BY <1>3 DEF r

LEMMA ZeroIs ==
    ASSUME Addr!AddressAssumption
    PROVE  Is(Addr!Zero, Subtree(0, 0), 0, Pair(0), NoPad, 0, Mid(0), 0) /\ Low(0) = 0
<1>0. BYTE \in Nat /\ BYTE >= 7  BY AddrSizes
<1>1. \A e \in 0 .. 8 : Addr!ByteOf(0, e) = 0  BY ByteZero
<1>2. Addr!Zero \in Addr!Address  BY <1>0 DEF Addr!Zero, Addr!Address
<1>3. \A b \in Addr!AddrBytes : Addr!Zero[b] = 0  BY DEF Addr!Zero
<1>4. SubOf(Addr!Zero) = Subtree(0, 0)
  <2>1. ASSUME NEW b \in 0 .. 8 PROVE Addr!Zero[b] = IF b = 0 THEN 0 ELSE Addr!ByteOf(0, 8 - b)
    BY <1>1, <1>3 DEF Addr!AddrBytes
  <2> QED  BY <2>1 DEF SubOf, Subtree
<1>5. PairOf(Addr!Zero) = Pair(0)
  <2>1. ASSUME NEW b \in 10 .. 13 PROVE Addr!Zero[b] = Addr!ByteOf(0, 13 - b)
    BY <1>1, <1>3 DEF Addr!AddrBytes
  <2> QED  BY <2>1 DEF PairOf, Pair
<1>6. MidOf(Addr!Zero) = Mid(0)
  <2>1. ASSUME NEW b \in 18 .. 20 PROVE Addr!Zero[b] = Addr!ByteOf(0, 21 - b)
    BY <1>1, <1>3 DEF Addr!AddrBytes
  <2> QED  BY <2>1 DEF MidOf, Mid
<1>7. PadOf(Addr!Zero) = NoPad  BY <1>3 DEF PadOf, NoPad, Addr!AddrBytes
<1>8. TypeOf(Addr!Zero) = 0 /\ UpOf(Addr!Zero) = 0 /\ LowOf(Addr!Zero) = 0
  BY <1>3 DEF TypeOf, UpOf, LowOf, Addr!AddrBytes
<1>9. Low(0) = 0  BY <1>1 DEF Low
<1> HIDE DEF Addr!Zero
<1> QED  BY <1>2, <1>4, <1>5, <1>6, <1>7, <1>8, <1>9 DEF Is

\* A byte in a field of four.
LEMMA SmallIndex ==
    ASSUME Addr!AddressAssumption, NEW x \in 0 .. BYTE - 1
    PROVE  Mid(x) = Mid(0) /\ Low(x) = x
<1>1. Low(x) = x /\ \A e \in 1 .. 8 : Addr!ByteOf(x, e) = 0  BY ByteSmall DEF Low
<1>2. ASSUME NEW b \in 18 .. 20 PROVE Addr!ByteOf(x, 21 - b) = Addr!ByteOf(0, 21 - b)
  <2>1. 21 - b \in 1 .. 8 /\ 21 - b \in 0 .. 8  OBVIOUS
  <2> QED  BY <1>1, <2>1, ByteZero
<1> QED  BY <1>1, <1>2 DEF Mid

----------------------------------------------------------------------------
(* The invariant.                                                          *)

\* A role within the fields' ranges, and the address that names it.
Legal(r) ==
    r \in [use : DOMAIN Addr!Type, layer : 0 .. BYTE - 1, tree : 0 .. Addr!Power[8] - 1,
           keypair : 0 .. Addr!Power[4] - 1, a : 0 .. BYTE - 1, b : 0 .. Addr!Power[4] - 1]

Named(r, addr) ==
    Is(addr, Subtree(r.layer, r.tree), Addr!Type[r.use], Pair(r.keypair), NoPad, r.a, Mid(r.b), Low(r.b))

Good(e) == Legal(e.role) /\ Named(e.role, e.addr)
Recorded(calls) == \A e \in calls : Good(e)

\* What the buffers hold between the hashes, as far as no setter follows.
LeafBuffer(a, l, t) == SubOf(a) = Subtree(l, t) /\ PadOf(a) = NoPad /\ MidOf(a) = Mid(0)
PkBuffer(a) == TypeOf(a) = Addr!Type.wotspk /\ PadOf(a) = NoPad /\ UpOf(a) = 0 /\ MidOf(a) = Mid(0)
               /\ LowOf(a) = 0
TreeBuffer(a, t, p) == TypeOf(a) = t /\ PairOf(a) = Pair(p) /\ PadOf(a) = NoPad

InTree == {"wots", "chain", "combine"}
InFors == {"fors", "forsleaf", "forscombine"}
InLeaf == {"forsleaf", "forscombine"}

\* Which call may be where.
Places ==
    /\ aop.name \in {"sign", "verify"} => digest \in MessageDigests
    /\ apc \in InTree => aop.name \in {"keygen", "sign"} /\ idx \in 0 .. Addr!Last(TREE_HEIGHT)
    /\ apc \in InLeaf => aop.name = "sign" /\ idx \in 0 .. Addr!Last(FORS_HEIGHT)
    /\ apc = "chains" => aop.name = "verify"
    /\ apc \in InFors \cup {"forspk", "layer"} => aop.name \in {"sign", "verify"}
    /\ apc \in InFors => ai < FORS_SIG_TREES
    /\ apc \in InTree \cup {"layer", "chains"} => ai < D

TreeBuffers ==
    apc \in InTree =>
      \A j \in Addr!Lanes :
        /\ LeafBuffer(leaf_addr[j], ai, tree)
        /\ SubOf(pk_addr[j]) = Subtree(ai, tree) /\ PkBuffer(pk_addr[j])
        /\ SubOf(node_addr[j]) = Subtree(ai, tree)
        /\ TreeBuffer(node_addr[j], Addr!Type.hashtree, 0)
        /\ apc = "chain" => PairOf(leaf_addr[j]) = Pair(Addr!Leaf(j)) /\ PairOf(pk_addr[j]) = Pair(Addr!Leaf(j))

ForsBuffers ==
    /\ apc \in InFors => SubOf(wots_addr) = Subtree(0, tree) /\ PairOf(wots_addr) = Pair(idx_leaf)
    /\ apc \in InFors \cup {"forspk"} =>
          Is(fors_pk_addr, Subtree(0, tree), Addr!Type.forspk, Pair(idx_leaf), NoPad, 0, Mid(0), 0)
    /\ apc \in InLeaf =>
          \A j \in Addr!Lanes :
            /\ SubOf(leaf_addr[j]) = Subtree(0, tree) /\ PairOf(leaf_addr[j]) = Pair(idx_leaf)
            /\ PadOf(leaf_addr[j]) = NoPad /\ UpOf(leaf_addr[j]) = 0
            /\ SubOf(node_addr[j]) = Subtree(0, tree)
            /\ TreeBuffer(node_addr[j], Addr!Type.forstree, idx_leaf)
    /\ apc = "fors" /\ aop.name = "verify" =>
          /\ SubOf(node_addr[0]) = Subtree(0, tree)
          /\ TreeBuffer(node_addr[0], Addr!Type.forstree, idx_leaf)

LayerBuffers ==
    /\ apc # "idle" /\ aop.name \in {"sign", "verify"} =>
          /\ TypeOf(wots_addr) = Addr!Type.wots /\ PadOf(wots_addr) = NoPad /\ MidOf(wots_addr) = Mid(0)
          /\ TreeBuffer(tree_addr, Addr!Type.hashtree, 0)
    /\ apc # "idle" /\ aop.name = "verify" => PkBuffer(wots_pk_addr)
    /\ apc = "chains" =>
          /\ SubOf(wots_addr) = Subtree(ai, tree) /\ PairOf(wots_addr) = Pair(idx_leaf)
          /\ SubOf(wots_pk_addr) = Subtree(ai, tree) /\ PairOf(wots_pk_addr) = Pair(idx_leaf)
          /\ SubOf(tree_addr) = Subtree(ai, tree)

AddrInv ==
    /\ Addr!TypeOK /\ Places
    /\ TreeBuffers /\ ForsBuffers /\ LayerBuffers
    /\ Recorded(log \cup fresh)

LEMMA TypeFacts ==
    ASSUME Addr!AddressAssumption, Addr!TypeOK
    PROVE  /\ aop.wide \in BOOLEAN /\ ai \in Nat /\ idx \in Nat /\ ac \in Nat
           /\ tree \in 0 .. Addr!Power[8] - 1 /\ tree \in Int
           /\ idx_leaf \in 0 .. Addr!Pow2[TREE_HEIGHT] - 1 /\ idx_leaf \in 0 .. Addr!Power[4] - 1
           /\ idx_leaf \in Int
           /\ wots_addr \in Addr!Address /\ tree_addr \in Addr!Address /\ wots_pk_addr \in Addr!Address
           /\ fors_pk_addr \in Addr!Address
           /\ \A j \in Addr!Lanes : node_addr[j] \in Addr!Address /\ leaf_addr[j] \in Addr!Address
                               /\ pk_addr[j] \in Addr!Address
<1>1. /\ Addr!Pow2[TREE_HEIGHT * (D - 1)] \in Nat /\ Addr!Pow2[TREE_HEIGHT] \in Nat
      /\ Addr!Power[8] \in Nat /\ Addr!Power[4] \in Nat
      /\ Addr!Pow2[TREE_HEIGHT * (D - 1)] <= Addr!Power[8] /\ Addr!Pow2[TREE_HEIGHT] <= Addr!Power[4]
  BY AddrSizes, AddrPow2, Powers DEF Addr!AddressAssumption
<1>2. tree \in 0 .. Addr!Power[8] - 1 /\ tree \in Int
  <2>1. tree \in 0 .. Addr!Pow2[TREE_HEIGHT * (D - 1)] - 1  BY DEF Addr!TypeOK
  <2> HIDE DEF Addr!TypeOK
  <2> QED  BY <1>1, <2>1
<1>3. idx_leaf \in 0 .. Addr!Pow2[TREE_HEIGHT] - 1  BY DEF Addr!TypeOK
<1>4. idx_leaf \in 0 .. Addr!Power[4] - 1 /\ idx_leaf \in Int  BY <1>1, <1>3
<1>5. WOTS_LEN \in Nat  BY AddrSizes
<1> QED  BY <1>2, <1>3, <1>4, <1>5 DEF Addr!TypeOK

\* Fields determine the numbers in them.
LEMMA PairDetermines ==
    ASSUME Addr!AddressAssumption, NEW x \in 0 .. Addr!Power[4] - 1, NEW y \in 0 .. Addr!Power[4] - 1,
           Pair(x) = Pair(y)
    PROVE  x = y
<1>1. ASSUME NEW e \in 0 .. 4 - 1 PROVE Addr!ByteOf(x, e) = Addr!ByteOf(y, e)
  <2>1. 13 - e \in 10 .. 13 /\ 13 - (13 - e) = e  OBVIOUS
  <2>2. Pair(x)[13 - e] = Pair(y)[13 - e]  OBVIOUS
  <2> QED  BY <2>1, <2>2 DEF Pair
<1> QED  BY <1>1, BytesDetermine

LEMMA IndexDetermines ==
    ASSUME Addr!AddressAssumption, NEW x \in 0 .. Addr!Power[4] - 1, NEW y \in 0 .. Addr!Power[4] - 1,
           Mid(x) = Mid(y), Low(x) = Low(y)
    PROVE  x = y
<1>1. ASSUME NEW e \in 0 .. 4 - 1 PROVE Addr!ByteOf(x, e) = Addr!ByteOf(y, e)
  <2>1. CASE e = 0  BY <2>1 DEF Low
  <2>2. CASE e \in 1 .. 3
    <3>1. 21 - e \in 18 .. 20 /\ 21 - (21 - e) = e  BY <2>2
    <3>2. Mid(x)[21 - e] = Mid(y)[21 - e]  OBVIOUS
    <3> QED  BY <3>1, <3>2 DEF Mid
  <2> QED  BY <2>1, <2>2
<1> QED  BY <1>1, BytesDetermine

LEMMA SubtreeDetermines ==
    ASSUME Addr!AddressAssumption, NEW l, NEW m, NEW x \in 0 .. Addr!Power[8] - 1,
           NEW y \in 0 .. Addr!Power[8] - 1, Subtree(l, x) = Subtree(m, y)
    PROVE  l = m /\ x = y
<1>1. ASSUME NEW e \in 0 .. 8 - 1 PROVE Addr!ByteOf(x, e) = Addr!ByteOf(y, e)
  <2>1. 8 - e \in 0 .. 8 /\ 8 - e # 0 /\ 8 - (8 - e) = e  OBVIOUS
  <2>2. Subtree(l, x)[8 - e] = Subtree(m, y)[8 - e]  OBVIOUS
  <2> QED  BY <2>1, <2>2 DEF Subtree
<1>2. Subtree(l, x)[0] = Subtree(m, y)[0]  OBVIOUS
<1>3. l = m  BY <1>2 DEF Subtree
<1> QED  BY <1>1, <1>3, BytesDetermine

\* Domain separation: an address names one role, and a role has one address.
LEMMA Separates ==
    ASSUME Addr!AddressAssumption, NEW e, NEW h, Good(e), Good(h)
    PROVE  e.role = h.role <=> e.addr = h.addr
<1> DEFINE r == e.role
           s == h.role
<1>1. e.addr \in Addr!Address /\ h.addr \in Addr!Address  BY DEF Good, Named, Is
<1>2. ASSUME r = s PROVE e.addr = h.addr
  <2>1. Is(e.addr, SubOf(h.addr), TypeOf(h.addr), PairOf(h.addr), PadOf(h.addr), UpOf(h.addr),
           MidOf(h.addr), LowOf(h.addr))  BY <1>2 DEF Good, Named, Is
  <2> QED  BY <1>1, <2>1, FieldsDetermine
<1>3. ASSUME e.addr = h.addr PROVE r = s
  <2>1. /\ Subtree(r.layer, r.tree) = Subtree(s.layer, s.tree) /\ Addr!Type[r.use] = Addr!Type[s.use]
        /\ Pair(r.keypair) = Pair(s.keypair) /\ r.a = s.a
        /\ Mid(r.b) = Mid(s.b) /\ Low(r.b) = Low(s.b)
    BY <1>3 DEF Good, Named, Is
  <2>2. Legal(r) /\ Legal(s)  BY DEF Good
  <2> HIDE DEF r, s
  <2>3. r.use = s.use
    <3>1. r.use \in DOMAIN Addr!Type /\ s.use \in DOMAIN Addr!Type  BY <2>2 DEF Legal
    <3> QED  BY <2>1, <3>1 DEF Addr!Type
  <2>4. r.layer = s.layer /\ r.tree = s.tree
    <3>1. r.tree \in 0 .. Addr!Power[8] - 1 /\ s.tree \in 0 .. Addr!Power[8] - 1  BY <2>2 DEF Legal
    <3> QED  BY <2>1, <3>1, SubtreeDetermines
  <2>5. r.keypair = s.keypair
    <3>1. r.keypair \in 0 .. Addr!Power[4] - 1 /\ s.keypair \in 0 .. Addr!Power[4] - 1
      BY <2>2 DEF Legal
    <3> QED  BY <2>1, <3>1, PairDetermines
  <2>6. r.b = s.b
    <3>1. r.b \in 0 .. Addr!Power[4] - 1 /\ s.b \in 0 .. Addr!Power[4] - 1  BY <2>2 DEF Legal
    <3> QED  BY <2>1, <3>1, IndexDetermines
  <2> QED  BY <2>1, <2>2, <2>3, <2>4, <2>5, <2>6 DEF Legal
<1> QED  BY <1>2, <1>3

\* A call whose address has the fields of its role.
LEMMA GoodCall ==
    ASSUME Addr!AddressAssumption, NEW use \in DOMAIN Addr!Type, NEW l \in 0 .. BYTE - 1,
           NEW t \in 0 .. Addr!Power[8] - 1, NEW p \in 0 .. Addr!Power[4] - 1, NEW x \in 0 .. BYTE - 1,
           NEW y \in 0 .. Addr!Power[4] - 1, NEW addr,
           Is(addr, Subtree(l, t), Addr!Type[use], Pair(p), NoPad, x, Mid(y), Low(y))
    PROVE  Good(Addr!Call(Addr!Role(use, l, t, p, x, y), addr))
<1>1. Legal(Addr!Role(use, l, t, p, x, y))  BY DEF Legal, Addr!Role
<1>2. Named(Addr!Role(use, l, t, p, x, y), addr)  BY DEF Named, Addr!Role
<1> HIDE DEF Addr!Role
<1> QED  BY <1>1, <1>2 DEF Good, Addr!Call

LEMMA TypeNumbers ==
    /\ Addr!Type.wots = 0 /\ Addr!Type.wotspk = 1 /\ Addr!Type.hashtree = 2 /\ Addr!Type.forstree = 3
    /\ Addr!Type.forspk = 4 /\ Addr!Type.wotsprf = 5 /\ Addr!Type.forsprf = 6
    /\ Addr!Type["wots"] = 0 /\ Addr!Type["wotspk"] = 1 /\ Addr!Type["hashtree"] = 2 /\ Addr!Type["forstree"] = 3
    /\ Addr!Type["forspk"] = 4 /\ Addr!Type["wotsprf"] = 5 /\ Addr!Type["forsprf"] = 6
    /\ DOMAIN Addr!Type = {"wots", "wotspk", "hashtree", "forstree", "forspk", "wotsprf", "forsprf"}
BY DEF Addr!Type

LEMMA Widths ==
    ASSUME aop.wide \in BOOLEAN
    PROVE  /\ Addr!Width \in {1, 8} /\ Addr!Used \subseteq Addr!Lanes /\ 0 \in Addr!Used
           /\ \A j \in Addr!Used : j \in 0 .. Addr!Width - 1
           /\ Addr!Wide => Addr!Width = 8 
           /\ ~Addr!Wide => Addr!Width = 1 /\ Addr!Used = {0}
BY DEF Addr!Width, Addr!Used, Addr!Wide, Addr!Lanes

\* The leaves of the last call of gen_leaf are leaves of the tree.
LEMMA LeafRange ==
    ASSUME aop.wide \in BOOLEAN, NEW height \in Nat, idx \in 0 .. Addr!Last(height)
    PROVE  /\ \A j \in Addr!Lanes : Addr!Leaf(j) \in Int
           /\ \A j \in Addr!Used : Addr!Leaf(j) \in 0 .. Addr!Pow2[height] - 1
           /\ idx \in Nat /\ Addr!Width * idx + Addr!Width <= Addr!Pow2[height]
<1>1. Addr!Width \in {1, 8} /\ \A j \in Addr!Used : j \in 0 .. Addr!Width - 1  BY Widths
<1>2. Addr!Pow2[height] \in Nat \ {0}  BY AddrPow2
<1> DEFINE p == Addr!Pow2[height]
           d == p \div Addr!Width
<1>3. d \in Int /\ Addr!Width * d <= p
  <2> HIDE DEF p
  <2>1. CASE Addr!Width = 1  BY <1>2, <2>1 DEF p
  <2>2. CASE Addr!Width = 8  BY <1>2, <2>2 DEF p
  <2> QED  BY <1>1, <2>1, <2>2
<1>4. idx \in 0 .. d - 1  BY DEF Addr!Last
<1> HIDE DEF d, p
<1>5. idx \in Nat /\ Addr!Width * idx + Addr!Width <= p /\ p \in Nat
  <2>1. CASE Addr!Width = 1  BY <1>2, <1>3, <1>4, <2>1 DEF p
  <2>2. CASE Addr!Width = 8  BY <1>2, <1>3, <1>4, <2>2 DEF p
  <2> QED  BY <1>1, <2>1, <2>2
<1>6. ASSUME NEW j \in Addr!Lanes PROVE Addr!Leaf(j) \in Int
  <2>1. j \in Int  BY DEF Addr!Lanes
  <2> QED  BY <1>1, <1>5, <2>1 DEF Addr!Leaf
<1>7. ASSUME NEW j \in Addr!Used PROVE Addr!Leaf(j) \in 0 .. p - 1
  <2>1. CASE Addr!Width = 1  BY <1>1, <1>5, <2>1 DEF Addr!Leaf
  <2>2. CASE Addr!Width = 8  BY <1>1, <1>5, <2>2 DEF Addr!Leaf
  <2> QED  BY <1>1, <2>1, <2>2
<1> QED  BY <1>5, <1>6, <1>7 DEF p

\* The nodes treehashx1 and treehashx8 make have indices within the field.
LEMMA NodeRange ==
    ASSUME aop.wide \in BOOLEAN, NEW height \in Nat, idx \in 0 .. Addr!Last(height),
           NEW offset \in Nat, NEW l \in 1 .. height
    PROVE  /\ \A j \in Addr!Lanes : Addr!NodeIndex(height, offset, l, j) \in Int
           /\ \A j \in Addr!Real(height, l) :
                 j \in Addr!Lanes /\ Addr!NodeIndex(height, offset, l, j) \in 0 .. Addr!Pow2[height] + offset - 1
<1>1. Addr!Width \in {1, 8} /\ Addr!Used \subseteq Addr!Lanes /\ \A j \in Addr!Used : j \in 0 .. Addr!Width - 1
  BY Widths
<1>2. idx \in Nat /\ Addr!Width * idx + Addr!Width <= Addr!Pow2[height]  BY LeafRange
<1>3a. l \in Nat  OBVIOUS
<1>3. Addr!Shr(idx, l) \in 0 .. idx /\ Addr!Shr(offset, l) \in 0 .. offset  BY <1>2, <1>3a, Shifts
<1>4. Addr!left_adj(height, l) \in Nat
  <2>1. CASE ~(Addr!Wide /\ l > height - 3)  BY <2>1 DEF Addr!left_adj
  <2>2. CASE Addr!Wide /\ l > height - 3
    <3>1. height - l \in {0, 1, 2}  BY <2>2
    <3>2. Addr!Pow2[0] = 1 /\ Addr!Pow2[0 + 1] = 2 * Addr!Pow2[0] /\ Addr!Pow2[1 + 1] = 2 * Addr!Pow2[1]
      BY AddrPow2
    <3>3. Addr!Pow2[0] = 1 /\ Addr!Pow2[1] = 2 /\ Addr!Pow2[2] = 4  BY <3>2
    <3>4. Addr!Pow2[height - l] \in {1, 2, 4}  BY <3>1, <3>3
    <3> QED  BY <2>2, <3>4 DEF Addr!left_adj
  <2> QED  BY <2>1, <2>2
<1>5. ASSUME NEW j \in Addr!Lanes PROVE Addr!NodeIndex(height, offset, l, j) \in Int
  <2>1. j \in Int  BY DEF Addr!Lanes
  <2>2. CASE Addr!Width = 1  BY <1>2, <1>3, <1>4, <2>1, <2>2 DEF Addr!NodeIndex
  <2>3. CASE Addr!Width = 8  BY <1>2, <1>3, <1>4, <2>1, <2>3 DEF Addr!NodeIndex
  <2> QED  BY <1>1, <2>2, <2>3
<1>6. ASSUME NEW j \in Addr!Real(height, l)
      PROVE  j \in Addr!Lanes /\ Addr!NodeIndex(height, offset, l, j) \in 0 .. Addr!Pow2[height] + offset - 1
  <2>1. j \in Addr!Used /\ j >= Addr!left_adj(height, l)  BY DEF Addr!Real
  <2>2. j \in Addr!Lanes /\ j \in 0 .. Addr!Width - 1  BY <1>1, <2>1
  <2>3. Addr!Pow2[height] \in Nat  BY AddrPow2
  <2> DEFINE s == Addr!Shr(idx, l)
             o == Addr!Shr(offset, l)
             d == Addr!left_adj(height, l)
             p == Addr!Pow2[height]
  <2>4. s \in 0 .. idx /\ o \in 0 .. offset /\ d \in Nat /\ j >= d /\ p \in Nat
        /\ Addr!Width * idx + Addr!Width <= p  BY <1>2, <1>3, <1>4, <2>1, <2>3
  <2>5. Addr!NodeIndex(height, offset, l, j) = Addr!Width * s + j - d + o  BY DEF Addr!NodeIndex
  <2> HIDE DEF s, o, d, p
  <2>6. Addr!Width * s + j - d + o \in 0 .. p + offset - 1
    <3>1. CASE Addr!Width = 1  BY <1>2, <2>2, <2>4, <3>1
    <3>2. CASE Addr!Width = 8  BY <1>2, <2>2, <2>4, <3>2
    <3> QED  BY <1>1, <3>1, <3>2
  <2> QED  BY <2>2, <2>5, <2>6 DEF p
<1> QED  BY <1>5, <1>6

LEMMA RecordedMore ==
    ASSUME Recorded(log \cup fresh), Recorded(fresh'), log' = log \cup fresh
    PROVE  Recorded(log \cup fresh)'
BY DEF Recorded

LEMMA RecordedNone ==
    ASSUME Recorded(log \cup fresh), Addr!NoHash
    PROVE  Recorded(log \cup fresh)' /\ fresh' = {}
BY DEF Recorded, Addr!NoHash, Addr!Hash

LEMMA AddrInvInit == ASSUME Addr!AddressAssumption, Addr!Init PROVE AddrInv
<1>1. Is(Addr!Zero, Subtree(0, 0), 0, Pair(0), NoPad, 0, Mid(0), 0)  BY ZeroIs
<1>2. Addr!Zero \in Addr!Address  BY <1>1 DEF Is
<1>3. /\ Addr!Pow2[TREE_HEIGHT * (D - 1)] \in Nat \ {0} /\ Addr!Pow2[TREE_HEIGHT] \in Nat \ {0}
      /\ MaxOps \in Nat /\ WOTS_LEN \in Nat
  BY AddrPow2, AddrSizes
<1>4. Addr!TypeOK  BY <1>2, <1>3 DEF Addr!Init, Addr!TypeOK
<1>5. Places /\ TreeBuffers /\ ForsBuffers /\ LayerBuffers
  BY DEF Addr!Init, Places, TreeBuffers, ForsBuffers, LayerBuffers, InTree, InFors, InLeaf
<1>6. Recorded(log \cup fresh)  BY DEF Addr!Init, Recorded
<1> QED  BY <1>4, <1>5, <1>6 DEF AddrInv

\* merkle_sign sets up its buffers.
LEMMA StartTree ==
    ASSUME Addr!AddressAssumption, NEW wots \in Addr!Address, NEW tr \in Addr!Address, NEW wide \in BOOLEAN,
           NEW l, NEW t, SubOf(wots) = Subtree(l, t), SubOf(tr) = Subtree(l, t),
           PairOf(tr) = Pair(0), PadOf(tr) = NoPad, Addr!MerkleStart(wots, tr, wide)
    PROVE  /\ tree_addr' \in Addr!Address
           /\ TypeOf(tr) = Addr!Type.hashtree => TreeBuffer(tree_addr', Addr!Type.hashtree, 0)
           /\ node_addr' \in [Addr!Lanes -> Addr!Address] /\ leaf_addr' \in [Addr!Lanes -> Addr!Address]
           /\ pk_addr' \in [Addr!Lanes -> Addr!Address]
           /\ \A j \in Addr!Lanes :
                /\ LeafBuffer(leaf_addr'[j], l, t)
                /\ SubOf(pk_addr'[j]) = Subtree(l, t) /\ PkBuffer(pk_addr'[j])
                /\ SubOf(node_addr'[j]) = Subtree(l, t)
                /\ TreeBuffer(node_addr'[j], Addr!Type.hashtree, 0)
           /\ idx' = 0 /\ apc' = "wots"
<1>1. Addr!Zero \in Addr!Address /\ Is(Addr!Zero, Subtree(0, 0), 0, Pair(0), NoPad, 0, Mid(0), 0)
  BY ZeroIs DEF Is
<1>2. ASSUME NEW x \in {Addr!Type.wots, Addr!Type.wotspk, Addr!Type.hashtree}
      PROVE  Is(Addr!copy_subtree_addr(Addr!set_type(Addr!Zero, x), wots), Subtree(l, t), x, Pair(0), NoPad, 0, Mid(0), 0)
             /\ Is(Addr!copy_subtree_addr(Addr!set_type(Addr!Zero, x), tr), Subtree(l, t), x, Pair(0), NoPad, 0, Mid(0), 0)
  <2>1. x \in 0 .. 6  BY TypeNumbers
  <2>2. Is(Addr!set_type(Addr!Zero, x), Subtree(0, 0), x, Pair(0), NoPad, 0, Mid(0), 0)
    BY <1>1, <2>1, SetType DEF Is
  <2> QED  BY <2>2, CopySubtree DEF Is
<1>3. Is(Addr!copy_subtree_addr(Addr!Zero, wots), Subtree(l, t), 0, Pair(0), NoPad, 0, Mid(0), 0)
  BY <1>1, CopySubtree DEF Is
<1>4. Is(Addr!set_type(tr, Addr!Type.hashtree), Subtree(l, t), Addr!Type.hashtree, Pair(0), NoPad, UpOf(tr),
         MidOf(tr), LowOf(tr))
  BY TypeNumbers, SetType
<1>5. /\ tree_addr' = IF wide THEN tr ELSE Addr!set_type(tr, Addr!Type.hashtree)
      /\ node_addr' = [j \in Addr!Lanes |->
                        IF wide THEN Addr!copy_subtree_addr(Addr!set_type(Addr!Zero, Addr!Type.hashtree), tr)
                        ELSE Addr!set_type(tr, Addr!Type.hashtree)]
      /\ leaf_addr' = [j \in Addr!Lanes |->
                        Addr!copy_subtree_addr(IF wide THEN Addr!set_type(Addr!Zero, Addr!Type.wots) ELSE Addr!Zero, wots)]
      /\ pk_addr' = [j \in Addr!Lanes |-> Addr!copy_subtree_addr(Addr!set_type(Addr!Zero, Addr!Type.wotspk), wots)]
      /\ idx' = 0 /\ apc' = "wots"
  BY DEF Addr!MerkleStart
<1>6. tree_addr' \in Addr!Address /\ (TypeOf(tr) = Addr!Type.hashtree => TreeBuffer(tree_addr', Addr!Type.hashtree, 0))
  BY <1>4, <1>5 DEF Is, TreeBuffer
<1>7. ASSUME NEW j \in Addr!Lanes
      PROVE  /\ node_addr'[j] \in Addr!Address /\ SubOf(node_addr'[j]) = Subtree(l, t)
             /\ TreeBuffer(node_addr'[j], Addr!Type.hashtree, 0)
  <2>1. node_addr'[j] = IF wide THEN Addr!copy_subtree_addr(Addr!set_type(Addr!Zero, Addr!Type.hashtree), tr)
                        ELSE Addr!set_type(tr, Addr!Type.hashtree)  BY <1>5
  <2> QED  BY <1>2, <1>4, <2>1 DEF Is, TreeBuffer
<1>8. ASSUME NEW j \in Addr!Lanes
      PROVE  leaf_addr'[j] \in Addr!Address /\ LeafBuffer(leaf_addr'[j], l, t)
  <2>1. leaf_addr'[j] = Addr!copy_subtree_addr(IF wide THEN Addr!set_type(Addr!Zero, Addr!Type.wots) ELSE Addr!Zero, wots)
    BY <1>5
  <2> QED  BY <1>2, <1>3, <2>1 DEF Is, LeafBuffer
<1>9. ASSUME NEW j \in Addr!Lanes
      PROVE  /\ pk_addr'[j] \in Addr!Address /\ SubOf(pk_addr'[j]) = Subtree(l, t)
             /\ PkBuffer(pk_addr'[j])
  <2>1. pk_addr'[j] = Addr!copy_subtree_addr(Addr!set_type(Addr!Zero, Addr!Type.wotspk), wots)  BY <1>5
  <2> QED  BY <1>2, <2>1 DEF Is, PkBuffer
<1>10. node_addr' \in [Addr!Lanes -> Addr!Address] /\ leaf_addr' \in [Addr!Lanes -> Addr!Address]
       /\ pk_addr' \in [Addr!Lanes -> Addr!Address]
  BY <1>5, <1>7, <1>8, <1>9
<1> QED  BY <1>5, <1>6, <1>7, <1>8, <1>9, <1>10

LEMMA LastNat ==
    ASSUME NEW height \in Nat, height >= 3, NEW w \in {1, 8} PROVE Addr!Pow2[height] \div w - 1 \in Nat
<1>4. Addr!Pow2[height] >= 8 /\ Addr!Pow2[height] \in Nat  BY Pow2Eight, AddrPow2
<1> DEFINE p == Addr!Pow2[height]
<1> HIDE DEF p
<1>5. CASE w = 1  BY <1>4, <1>5 DEF p
<1>6. CASE w = 8  BY <1>4, <1>6 DEF p
<1> QED  BY <1>5, <1>6

LEMMA KeyGenKeeps == ASSUME Addr!AddressAssumption, AddrInv, Addr!KeyGen PROVE AddrInv'
<1> DEFINE top == Addr!set_layer_addr(Addr!Zero, Addr!TopLayer)
<1>0. Addr!TypeOK  BY DEF AddrInv
<1>1. PICK wide \in BOOLEAN : Addr!Begin("keygen", wide) /\ Addr!MerkleStart(top, top, wide)
  BY DEF Addr!KeyGen
<1>2. /\ wots_addr' = top /\ ai' = D - 1 /\ tree' = 0 /\ Addr!NoHash
      /\ UNCHANGED <<digest, asigned, idx_leaf, ac, wots_pk_addr, fors_pk_addr>>
  BY DEF Addr!KeyGen
<1>3. aop' = [name |-> "keygen", wide |-> wide] /\ ops' = ops + 1 /\ ops < MaxOps
  BY <1>1 DEF Addr!Begin
<1>4. D - 1 \in 0 .. BYTE - 1 /\ D - 1 < D /\ D - 1 \in Nat /\ MaxOps \in Nat  BY AddrSizes
<1>5. Is(top, Subtree(D - 1, 0), 0, Pair(0), NoPad, 0, Mid(0), 0)
  <2>1. Is(Addr!Zero, Subtree(0, 0), 0, Pair(0), NoPad, 0, Mid(0), 0)  BY ZeroIs
  <2>2. ASSUME NEW b \in 1 .. 8 PROVE Addr!Zero[b] = Addr!ByteOf(0, 8 - b)
    <3>1. 8 - b \in 0 .. 8  OBVIOUS
    <3> QED  BY <3>1, ByteZero DEF Addr!Zero, Addr!AddrBytes
  <2> QED  BY <1>4, <2>1, <2>2, SetLayer DEF Is, Addr!TopLayer
<1> HIDE DEF top
<1>6. /\ tree_addr' \in Addr!Address
      /\ node_addr' \in [Addr!Lanes -> Addr!Address] /\ leaf_addr' \in [Addr!Lanes -> Addr!Address]
      /\ pk_addr' \in [Addr!Lanes -> Addr!Address]
      /\ \A j \in Addr!Lanes :
           /\ LeafBuffer(leaf_addr'[j], D - 1, 0)
           /\ SubOf(pk_addr'[j]) = Subtree(D - 1, 0) /\ PkBuffer(pk_addr'[j])
           /\ SubOf(node_addr'[j]) = Subtree(D - 1, 0)
           /\ TreeBuffer(node_addr'[j], Addr!Type.hashtree, 0)
      /\ idx' = 0 /\ apc' = "wots"
  BY <1>1, <1>5, StartTree DEF Is
<1>7. Recorded(log \cup fresh)' /\ fresh' = {}  BY <1>2, RecordedNone DEF AddrInv
<1>8. Addr!TypeOK'
  <2>1. 0 \in 0 .. Addr!Pow2[TREE_HEIGHT * (D - 1)] - 1  BY AddrPow2, AddrSizes
  <2>2. ops' \in 0 .. MaxOps  BY <1>0, <1>3, <1>4 DEF Addr!TypeOK
  <2>3. wots_addr' \in Addr!Address  BY <1>2, <1>5 DEF Is
  <2> QED  BY <1>0, <1>2, <1>3, <1>4, <1>6, <1>7, <2>1, <2>2, <2>3 DEF Addr!TypeOK
<1>9. Places'
  <2>1. Addr!Width' \in {1, 8}  BY <1>3 DEF Addr!Width, Addr!Wide
  <2>2. Addr!Last(TREE_HEIGHT)' \in Nat  BY <2>1, AddrSizes, LastNat DEF Addr!Last
  <2> QED  BY <1>2, <1>3, <1>4, <1>6, <2>2 DEF Places, InTree, InLeaf, InFors
<1>10. TreeBuffers'  BY <1>2, <1>6 DEF TreeBuffers
<1>11. ForsBuffers' /\ LayerBuffers'  BY <1>3, <1>6 DEF ForsBuffers, LayerBuffers, InFors, InLeaf
<1> QED  BY <1>7, <1>8, <1>9, <1>10, <1>11 DEF AddrInv

LEMMA WotsLeafKeeps == ASSUME Addr!AddressAssumption, AddrInv, Addr!WotsLeaf PROVE AddrInv'
<1>0. Addr!TypeOK /\ Places /\ TreeBuffers /\ LayerBuffers /\ Recorded(log \cup fresh)  BY DEF AddrInv
<1>1. apc = "wots" /\ apc' = "chain" /\ ac' = 0 /\ Addr!NoHash
      /\ UNCHANGED <<Addr!callVars, tree, idx_leaf, ai, idx, Addr!addrs, node_addr>>
        BY DEF Addr!WotsLeaf
<1>2. UNCHANGED <<aop, ops, digest, asigned, wots_addr, tree_addr, wots_pk_addr, fors_pk_addr>>
  BY <1>1 DEF Addr!callVars, Addr!addrs
<1>3. Recorded(log \cup fresh)' /\ fresh' = {}  BY <1>0, <1>1, RecordedNone
<1>4. \A j \in Addr!Lanes : Addr!Leaf(j) \in Int
  BY <1>0, <1>1, AddrSizes, TypeFacts, LeafRange DEF Places, InTree
<1>5. leaf_addr' = [j \in Addr!Lanes |-> Addr!set_keypair_addr(leaf_addr[j], Addr!Leaf(j))]
      /\ pk_addr' = [j \in Addr!Lanes |-> Addr!set_keypair_addr(pk_addr[j], Addr!Leaf(j))]
        BY DEF Addr!WotsLeaf
<1>6. ASSUME NEW j \in Addr!Lanes
      PROVE  /\ leaf_addr'[j] \in Addr!Address /\ LeafBuffer(leaf_addr'[j], ai, tree)
             /\ pk_addr'[j] \in Addr!Address /\ PkBuffer(pk_addr'[j])
             /\ SubOf(pk_addr'[j]) = Subtree(ai, tree)
             /\ PairOf(leaf_addr'[j]) = Pair(Addr!Leaf(j)) /\ PairOf(pk_addr'[j]) = Pair(Addr!Leaf(j))
  <2>1. leaf_addr'[j] = Addr!set_keypair_addr(leaf_addr[j], Addr!Leaf(j))
        /\ pk_addr'[j] = Addr!set_keypair_addr(pk_addr[j], Addr!Leaf(j))  BY <1>5
  <2>2. leaf_addr[j] \in Addr!Address /\ pk_addr[j] \in Addr!Address /\ Addr!Leaf(j) \in Int
    BY <1>0, <1>4, TypeFacts
  <2>3. LeafBuffer(leaf_addr[j], ai, tree) /\ SubOf(pk_addr[j]) = Subtree(ai, tree)
        /\ PkBuffer(pk_addr[j])  BY <1>0, <1>1 DEF TreeBuffers, InTree
  <2>4. /\ Is(leaf_addr'[j], SubOf(leaf_addr[j]), TypeOf(leaf_addr[j]), Pair(Addr!Leaf(j)),
              PadOf(leaf_addr[j]), UpOf(leaf_addr[j]), MidOf(leaf_addr[j]), LowOf(leaf_addr[j]))
        /\ Is(pk_addr'[j], SubOf(pk_addr[j]), TypeOf(pk_addr[j]), Pair(Addr!Leaf(j)),
              PadOf(pk_addr[j]), UpOf(pk_addr[j]), MidOf(pk_addr[j]), LowOf(pk_addr[j]))
    BY <2>1, <2>2, SetPair
  <2> QED  BY <2>3, <2>4 DEF Is, LeafBuffer, PkBuffer
<1>7. leaf_addr' \in [Addr!Lanes -> Addr!Address] /\ pk_addr' \in [Addr!Lanes -> Addr!Address]
  BY <1>5, <1>6
<1>8. Addr!TypeOK'
  <2>1. 0 \in 0 .. WOTS_LEN  BY AddrSizes
  <2> QED  BY <1>0, <1>1, <1>2, <1>3, <1>7, <2>1 DEF Addr!TypeOK
<1>9. Places'  BY <1>0, <1>1, <1>2 DEF Places, InTree, InLeaf, InFors, Addr!Last, Addr!Width, Addr!Wide
<1>10. TreeBuffers'
  <2>1. \A j \in Addr!Lanes : Addr!Leaf(j)' = Addr!Leaf(j)
    BY <1>1, <1>2 DEF Addr!Leaf, Addr!Width, Addr!Wide
  <2>2. \A j \in Addr!Lanes : SubOf(node_addr[j]) = Subtree(ai, tree)
                         /\ TreeBuffer(node_addr[j], Addr!Type.hashtree, 0)
    BY <1>0, <1>1 DEF TreeBuffers, InTree
  <2> QED  BY <1>1, <1>6, <2>1, <2>2 DEF TreeBuffers
<1>11. ForsBuffers'  BY <1>1 DEF ForsBuffers, InFors, InLeaf
<1>12. LayerBuffers'  BY <1>0, <1>1, <1>2 DEF LayerBuffers
<1> QED  BY <1>3, <1>8, <1>9, <1>10, <1>11, <1>12 DEF AddrInv

LEMMA WotsChainKeeps == ASSUME Addr!AddressAssumption, AddrInv, Addr!WotsChain PROVE AddrInv'
<1>0. Addr!TypeOK /\ Places /\ TreeBuffers /\ LayerBuffers /\ Recorded(log \cup fresh)  BY DEF AddrInv
<1> DEFINE prf(j) == Addr!set_type(Addr!set_hash_addr(Addr!set_chain_addr(leaf_addr[j], ac), 0), Addr!prf_type)
           wots(j) == Addr!set_type(prf(j), Addr!Type.wots)
<1>1. /\ apc = "chain" /\ ac < WOTS_LEN
      /\ Addr!Hash({Addr!Call(Addr!Role("wotsprf", ai, tree, Addr!Leaf(j), ac, 0), prf(j)) : j \in Addr!Used}
              \cup {Addr!Call(Addr!Role("wots", ai, tree, Addr!Leaf(j), ac, pos), Addr!set_hash_addr(wots(j), pos)) :
                       j \in Addr!Used, pos \in 0 .. WOTS_W - 2})
      /\ leaf_addr' = [j \in Addr!Lanes |-> Addr!set_hash_addr(wots(j), WOTS_W - 2)]
      /\ ac' = ac + 1
      /\ UNCHANGED <<apc, Addr!callVars, tree, idx_leaf, ai, idx, Addr!addrs, node_addr, pk_addr>>
  BY DEF Addr!WotsChain
<1>2. UNCHANGED <<aop, ops, digest, asigned, wots_addr, tree_addr, wots_pk_addr, fors_pk_addr>>
  BY <1>1 DEF Addr!callVars, Addr!addrs
<1>3. /\ \A j \in Addr!Lanes : Addr!Leaf(j) \in Int
      /\ \A j \in Addr!Used : Addr!Leaf(j) \in 0 .. Addr!Power[4] - 1
  <2>1. idx \in 0 .. Addr!Last(TREE_HEIGHT) /\ TREE_HEIGHT \in Nat /\ aop.wide \in BOOLEAN
    BY <1>0, <1>1, AddrSizes, TypeFacts DEF Places, InTree
  <2>2. Addr!Pow2[TREE_HEIGHT] <= Addr!Power[4] /\ Addr!Pow2[TREE_HEIGHT] \in Nat /\ Addr!Power[4] \in Nat
    BY <2>1, AddrPow2, Powers DEF Addr!AddressAssumption
  <2>3. (\A j \in Addr!Lanes : Addr!Leaf(j) \in Int) /\ \A j \in Addr!Used : Addr!Leaf(j) \in 0 .. Addr!Pow2[TREE_HEIGHT] - 1
    BY <2>1, LeafRange
  <2> QED  BY <2>2, <2>3
<1>4. /\ ai \in 0 .. BYTE - 1 /\ tree \in 0 .. Addr!Power[8] - 1 /\ ac \in 0 .. BYTE - 1 /\ ac \in Int
      /\ WOTS_W - 2 \in 0 .. BYTE - 1 /\ BYTE \in Nat /\ WOTS_W \in Nat
  BY <1>0, <1>1, AddrSizes, TypeFacts DEF Places, InTree
<1>5. BYTE <= Addr!Power[4] /\ Addr!Power[4] \in Nat  BY ByteBelow
<1>6. ASSUME NEW j \in Addr!Lanes
      PROVE  /\ Is(prf(j), Subtree(ai, tree), Addr!Type.wotsprf, Pair(Addr!Leaf(j)), NoPad, ac, Mid(0), Low(0))
             /\ Is(wots(j), Subtree(ai, tree), Addr!Type.wots, Pair(Addr!Leaf(j)), NoPad, ac, Mid(0), Low(0))
  <2>1. leaf_addr[j] \in Addr!Address  BY <1>0, TypeFacts
  <2>2. LeafBuffer(leaf_addr[j], ai, tree) /\ PairOf(leaf_addr[j]) = Pair(Addr!Leaf(j))
    BY <1>0, <1>1 DEF TreeBuffers, InTree
  <2>3. Is(leaf_addr[j], Subtree(ai, tree), TypeOf(leaf_addr[j]), Pair(Addr!Leaf(j)), NoPad,
           UpOf(leaf_addr[j]), Mid(0), LowOf(leaf_addr[j]))
    BY <2>1, <2>2 DEF LeafBuffer, Is
  <2> DEFINE a == Addr!set_chain_addr(leaf_addr[j], ac)
             b == Addr!set_hash_addr(a, 0)
  <2>4. Is(a, Subtree(ai, tree), TypeOf(leaf_addr[j]), Pair(Addr!Leaf(j)), NoPad, ac, Mid(0),
           LowOf(leaf_addr[j]))
    BY <1>4, <2>3, SetUp, SmallIndex DEF Is
  <2> HIDE DEF a
  <2>5. Is(b, Subtree(ai, tree), TypeOf(leaf_addr[j]), Pair(Addr!Leaf(j)), NoPad, ac, Mid(0), Low(0))
    BY <2>4, SetHash DEF Is
  <2> HIDE DEF b
  <2>6. Is(Addr!set_type(b, Addr!Type.wotsprf), Subtree(ai, tree), Addr!Type.wotsprf, Pair(Addr!Leaf(j)), NoPad, ac, Mid(0), Low(0))
    BY <2>5, SetType, TypeNumbers DEF Is
  <2>7. prf(j) = Addr!set_type(b, Addr!Type.wotsprf)  BY DEF a, b, Addr!prf_type
  <2>8. Is(prf(j), Subtree(ai, tree), Addr!Type.wotsprf, Pair(Addr!Leaf(j)), NoPad, ac, Mid(0), Low(0))
    BY <2>6, <2>7
  <2> HIDE DEF prf
  <2>9. Is(wots(j), Subtree(ai, tree), Addr!Type.wots, Pair(Addr!Leaf(j)), NoPad, ac, Mid(0), Low(0))
    BY <2>8, SetType, TypeNumbers DEF Is
  <2> QED  BY <2>8, <2>9
<1> HIDE DEF prf, wots
<1>7. ASSUME NEW j \in Addr!Lanes, NEW pos \in 0 .. WOTS_W - 2
      PROVE  Is(Addr!set_hash_addr(wots(j), pos), Subtree(ai, tree), Addr!Type.wots, Pair(Addr!Leaf(j)), NoPad, ac,
                Mid(pos), Low(pos))
  <2>1. pos \in 0 .. BYTE - 1 /\ pos \in Int  BY <1>4
  <2>2. Mid(pos) = Mid(0)  BY <2>1, SmallIndex
  <2> QED  BY <1>6, <2>1, <2>2, SetHash DEF Is
<1>8. Addr!Used \subseteq Addr!Lanes  BY <1>0, TypeFacts, Widths
<1>9. ASSUME NEW j \in Addr!Used
      PROVE  Good(Addr!Call(Addr!Role("wotsprf", ai, tree, Addr!Leaf(j), ac, 0), prf(j)))
  <2>1. Is(prf(j), Subtree(ai, tree), Addr!Type["wotsprf"], Pair(Addr!Leaf(j)), NoPad, ac, Mid(0), Low(0))
    BY <1>6, <1>8, TypeNumbers
  <2>2. 0 \in 0 .. Addr!Power[4] - 1 /\ "wotsprf" \in DOMAIN Addr!Type  BY Powers, TypeNumbers
  <2> QED  BY <1>3, <1>4, <2>1, <2>2, GoodCall
<1>10. ASSUME NEW j \in Addr!Used, NEW pos \in 0 .. WOTS_W - 2
       PROVE  Good(Addr!Call(Addr!Role("wots", ai, tree, Addr!Leaf(j), ac, pos), Addr!set_hash_addr(wots(j), pos)))
  <2>1. Is(Addr!set_hash_addr(wots(j), pos), Subtree(ai, tree), Addr!Type["wots"], Pair(Addr!Leaf(j)), NoPad, ac,
           Mid(pos), Low(pos))
    BY <1>7, <1>8, TypeNumbers
  <2>2. pos \in 0 .. Addr!Power[4] - 1 /\ "wots" \in DOMAIN Addr!Type
    BY <1>4, <1>5, Powers, TypeNumbers
  <2> QED  BY <1>3, <1>4, <2>1, <2>2, GoodCall
<1>11. Recorded(log \cup fresh)' /\ Recorded(fresh')
  <2>1. Recorded(fresh') /\ log' = log \cup fresh  BY <1>1, <1>9, <1>10 DEF Addr!Hash, Recorded
  <2> QED  BY <1>0, <2>1, RecordedMore
<1>12. ASSUME NEW j \in Addr!Lanes
       PROVE  /\ leaf_addr'[j] \in Addr!Address /\ LeafBuffer(leaf_addr'[j], ai, tree)
              /\ PairOf(leaf_addr'[j]) = Pair(Addr!Leaf(j))
  <2>1. leaf_addr'[j] = Addr!set_hash_addr(wots(j), WOTS_W - 2)  BY <1>1
  <2>2. WOTS_W - 2 \in 0 .. WOTS_W - 2  BY <1>4
  <2>3. Is(leaf_addr'[j], Subtree(ai, tree), Addr!Type.wots, Pair(Addr!Leaf(j)), NoPad, ac,
           Mid(WOTS_W - 2), Low(WOTS_W - 2))  BY <1>7, <2>1, <2>2
  <2>4. Mid(WOTS_W - 2) = Mid(0)  BY <1>4, SmallIndex
  <2> QED  BY <2>3, <2>4 DEF Is, LeafBuffer
<1>13. leaf_addr' \in [Addr!Lanes -> Addr!Address]  BY <1>1, <1>12
<1>14. Addr!TypeOK'
  <2>1. ac' \in 0 .. WOTS_LEN  BY <1>0, <1>1, AddrSizes DEF Addr!TypeOK
  <2>2. \A e \in fresh' : e.addr \in Addr!Address  BY <1>11 DEF Recorded, Good, Named, Is
  <2> QED  BY <1>0, <1>1, <1>2, <1>13, <2>1, <2>2 DEF Addr!TypeOK
<1>15. Places'  BY <1>0, <1>1, <1>2 DEF Places, InTree, InLeaf, InFors, Addr!Last, Addr!Width, Addr!Wide
<1>16. TreeBuffers'
  <2>1. \A j \in Addr!Lanes : Addr!Leaf(j)' = Addr!Leaf(j)
    BY <1>1, <1>2 DEF Addr!Leaf, Addr!Width, Addr!Wide
  <2> QED  BY <1>0, <1>1, <1>12, <2>1 DEF TreeBuffers, InTree
<1>17. ForsBuffers'  BY <1>1 DEF ForsBuffers, InFors, InLeaf
<1>18. LayerBuffers'  BY <1>0, <1>1, <1>2 DEF LayerBuffers
<1> QED  BY <1>11, <1>14, <1>15, <1>16, <1>17, <1>18 DEF AddrInv

LEMMA WotsPkKeeps == ASSUME Addr!AddressAssumption, AddrInv, Addr!WotsPk PROVE AddrInv'
<1>0. Addr!TypeOK /\ Places /\ TreeBuffers /\ LayerBuffers /\ Recorded(log \cup fresh)  BY DEF AddrInv
<1>1. /\ apc = "chain" /\ apc' = "combine"
      /\ Addr!Hash({Addr!Call(Addr!Role("wotspk", ai, tree, Addr!Leaf(j), 0, 0), pk_addr[j]) : j \in Addr!Used})
      /\ UNCHANGED <<Addr!callVars, tree, idx_leaf, ai, idx, ac, Addr!addrs, Addr!laneAddrs>>
  BY DEF Addr!WotsPk
<1>2. UNCHANGED <<aop, ops, digest, asigned, wots_addr, tree_addr, wots_pk_addr, fors_pk_addr,
                  node_addr, leaf_addr, pk_addr>>
  BY <1>1 DEF Addr!callVars, Addr!addrs, Addr!laneAddrs
<1>3. \A j \in Addr!Used : Addr!Leaf(j) \in 0 .. Addr!Power[4] - 1
  <2>1. idx \in 0 .. Addr!Last(TREE_HEIGHT) /\ TREE_HEIGHT \in Nat /\ aop.wide \in BOOLEAN
    BY <1>0, <1>1, AddrSizes, TypeFacts DEF Places, InTree
  <2>2. Addr!Pow2[TREE_HEIGHT] <= Addr!Power[4] /\ Addr!Pow2[TREE_HEIGHT] \in Nat /\ Addr!Power[4] \in Nat
    BY <2>1, AddrPow2, Powers DEF Addr!AddressAssumption
  <2>3. \A j \in Addr!Used : Addr!Leaf(j) \in 0 .. Addr!Pow2[TREE_HEIGHT] - 1  BY <2>1, LeafRange
  <2> QED  BY <2>2, <2>3
<1>4. ai \in 0 .. BYTE - 1 /\ tree \in 0 .. Addr!Power[8] - 1 /\ 0 \in 0 .. BYTE - 1
      /\ 0 \in 0 .. Addr!Power[4] - 1
  BY <1>0, <1>1, AddrSizes, TypeFacts, Powers DEF Places, InTree
<1>5. ASSUME NEW j \in Addr!Used
      PROVE  Good(Addr!Call(Addr!Role("wotspk", ai, tree, Addr!Leaf(j), 0, 0), pk_addr[j]))
  <2>1. j \in Addr!Lanes /\ pk_addr[j] \in Addr!Address  BY <1>0, TypeFacts, Widths
  <2>2. /\ SubOf(pk_addr[j]) = Subtree(ai, tree) /\ PkBuffer(pk_addr[j])
        /\ PairOf(pk_addr[j]) = Pair(Addr!Leaf(j))  BY <1>0, <1>1, <2>1 DEF TreeBuffers, InTree
  <2>3. Is(pk_addr[j], Subtree(ai, tree), Addr!Type["wotspk"], Pair(Addr!Leaf(j)), NoPad, 0, Mid(0), Low(0))
    BY <2>1, <2>2, TypeNumbers, ZeroIs DEF PkBuffer, Is
  <2> QED  BY <1>3, <1>4, <2>3, TypeNumbers, GoodCall
<1>6. Recorded(log \cup fresh)' /\ Recorded(fresh')
  <2>1. Recorded(fresh') /\ log' = log \cup fresh  BY <1>1, <1>5 DEF Addr!Hash, Recorded
  <2> QED  BY <1>0, <2>1, RecordedMore
<1>7. Addr!TypeOK'
  <2>2. \A e \in fresh' : e.addr \in Addr!Address  BY <1>6 DEF Recorded, Good, Named, Is
  <2> QED  BY <1>0, <1>1, <1>2, <2>2 DEF Addr!TypeOK
<1>8. Places'  BY <1>0, <1>1, <1>2 DEF Places, InTree, InLeaf, InFors, Addr!Last, Addr!Width, Addr!Wide
<1>9. TreeBuffers'  BY <1>0, <1>1, <1>2 DEF TreeBuffers, InTree
<1>10. ForsBuffers'  BY <1>1 DEF ForsBuffers, InFors, InLeaf
<1>11. LayerBuffers'  BY <1>0, <1>1, <1>2 DEF LayerBuffers
<1> QED  BY <1>6, <1>7, <1>8, <1>9, <1>10, <1>11 DEF AddrInv

\* Cardinality, as HashAddress has it through its own EXTENDS.
LEMMA CountsAgree == ASSUME NEW S PROVE Addr!Cardinality(S) = Cardinality(S)
BY DEF Addr!Cardinality, Cardinality

\* The inner loops of treehashx1 and treehashx8.
LEMMA CombineKeeps ==
    ASSUME Addr!AddressAssumption, Addr!TypeOK, NEW use \in {"hashtree", "forstree"},
           NEW height \in Nat, height < BYTE, idx \in 0 .. Addr!Last(height),
           NEW offset \in Nat, Addr!Pow2[height] + offset <= Addr!Power[4],
           NEW layer \in 0 .. BYTE - 1, NEW keypair \in 0 .. Addr!Power[4] - 1,
           \A j \in Addr!Lanes : SubOf(node_addr[j]) = Subtree(layer, tree)
                            /\ TreeBuffer(node_addr[j], Addr!Type[use], keypair),
           Addr!Combine(use, height, offset, layer, keypair)
    PROVE  /\ Recorded(fresh') /\ log' = log \cup fresh
           /\ node_addr' \in [Addr!Lanes -> Addr!Address]
           /\ \A j \in Addr!Lanes : SubOf(node_addr'[j]) = Subtree(layer, tree)
                               /\ TreeBuffer(node_addr'[j], Addr!Type[use], keypair)
<1> DEFINE levels == Addr!Completed(height)
           addr(l, j) == Addr!set_tree_index(Addr!set_tree_height(node_addr[j], l),
                                        Addr!NodeIndex(height, offset, l, j))
<1>1. /\ log' = log \cup fresh
      /\ fresh' = UNION {{Addr!Call(Addr!Role(use, layer, tree, keypair, l, Addr!NodeIndex(height, offset, l, j)),
                               addr(l, j)) : j \in Addr!Real(height, l)} : l \in levels}
      /\ node_addr' = IF levels = {} THEN node_addr
                      ELSE [j \in Addr!Lanes |-> addr(Cardinality(levels), j)]
  <2>1. /\ log' = log \cup fresh
        /\ fresh' = UNION {{Addr!Call(Addr!Role(use, layer, tree, keypair, l, Addr!NodeIndex(height, offset, l, j)),
                                 addr(l, j)) : j \in Addr!Real(height, l)} : l \in levels}
    BY DEF Addr!Combine, Addr!Hash
  <2>2. node_addr' = IF levels = {} THEN node_addr
                     ELSE [j \in Addr!Lanes |-> addr(Cardinality(levels), j)]
    BY CountsAgree DEF Addr!Combine
  <2> QED  BY <2>1, <2>2
<1>2. levels \subseteq 1 .. height  BY DEF Addr!Completed
<1>3. levels # {} => Cardinality(levels) \in 1 .. height
  <2>1. IsFiniteSet(1 .. height) /\ Cardinality(1 .. height) = height
    BY FS_Interval
  <2>2. IsFiniteSet(levels) /\ Cardinality(levels) <= height  BY <1>2, <2>1, FS_Subset
  <2>3. Cardinality(levels) \in Nat  BY <2>2, FS_CardinalityType
  <2>4. Cardinality(levels) = 0 <=> levels = {}  BY <2>2, FS_EmptySet
  <2> QED  BY <2>2, <2>3, <2>4
<1> HIDE DEF levels
<1>4. aop.wide \in BOOLEAN /\ tree \in 0 .. Addr!Power[8] - 1  BY TypeFacts
<1>5. ASSUME NEW l \in 1 .. height, NEW j \in Addr!Lanes
      PROVE  Is(addr(l, j), Subtree(layer, tree), Addr!Type[use], Pair(keypair), NoPad, l,
                Mid(Addr!NodeIndex(height, offset, l, j)), Low(Addr!NodeIndex(height, offset, l, j)))
  <2>1. node_addr[j] \in Addr!Address  BY TypeFacts
  <2>2. l \in 0 .. BYTE - 1 /\ l \in Int /\ Low(l) = l  BY AddrSizes, SmallIndex
  <2>3. Addr!NodeIndex(height, offset, l, j) \in Int  BY <1>4, NodeRange
  <2> DEFINE a == Addr!set_tree_height(node_addr[j], l)
  <2>4. Is(a, Subtree(layer, tree), Addr!Type[use], Pair(keypair), NoPad, l, MidOf(node_addr[j]),
           LowOf(node_addr[j]))
    BY <2>1, <2>2, SetUp DEF Is, TreeBuffer
  <2> HIDE DEF a
  <2>5. Is(Addr!set_tree_index(a, Addr!NodeIndex(height, offset, l, j)), Subtree(layer, tree), Addr!Type[use],
           Pair(keypair), NoPad, l,
           Mid(Addr!NodeIndex(height, offset, l, j)), Low(Addr!NodeIndex(height, offset, l, j)))
    BY <2>3, <2>4, SetIndex DEF Is
  <2> QED  BY <2>5 DEF a
<1> HIDE DEF addr
<1>6. ASSUME NEW l \in levels, NEW j \in Addr!Real(height, l)
      PROVE  Good(Addr!Call(Addr!Role(use, layer, tree, keypair, l, Addr!NodeIndex(height, offset, l, j)), addr(l, j)))
  <2>1. l \in 1 .. height /\ l \in 0 .. BYTE - 1  BY <1>2, AddrSizes
  <2>2. j \in Addr!Lanes /\ Addr!NodeIndex(height, offset, l, j) \in 0 .. Addr!Pow2[height] + offset - 1
    BY <1>4, <2>1, NodeRange
  <2>3. Addr!NodeIndex(height, offset, l, j) \in 0 .. Addr!Power[4] - 1
    <3>1. Addr!Pow2[height] \in Nat /\ Addr!Power[4] \in Nat  BY AddrPow2, Powers
    <3> QED  BY <2>2, <3>1
  <2>4. use \in DOMAIN Addr!Type  BY TypeNumbers
  <2> QED  BY <1>4, <1>5, <2>1, <2>2, <2>3, <2>4, GoodCall
<1>7. Recorded(fresh')  BY <1>1, <1>6 DEF Recorded
<1>8. CASE levels = {}  BY <1>1, <1>7, <1>8 DEF Addr!TypeOK
<1>9. CASE levels # {}
  <2>1. node_addr' = [j \in Addr!Lanes |-> addr(Cardinality(levels), j)]  BY <1>1, <1>9
  <2>2. ASSUME NEW j \in Addr!Lanes
        PROVE  node_addr'[j] \in Addr!Address /\ SubOf(node_addr'[j]) = Subtree(layer, tree)
               /\ TreeBuffer(node_addr'[j], Addr!Type[use], keypair)
    BY <1>3, <1>5, <1>9, <2>1 DEF Is, TreeBuffer
  <2> QED  BY <1>1, <1>7, <2>1, <2>2
<1> QED  BY <1>8, <1>9

\* The position in the layer above stays in the hypertree.
LEMMA NextLayerTypes ==
    ASSUME Addr!AddressAssumption, Addr!TypeOK, Addr!NextLayer
    PROVE  /\ tree' \in 0 .. Addr!Pow2[TREE_HEIGHT * (D - 1)] - 1
           /\ idx_leaf' \in 0 .. Addr!Pow2[TREE_HEIGHT] - 1 /\ ai' = ai + 1 /\ ai' \in Nat
<1>1. TREE_HEIGHT \in Nat /\ TREE_HEIGHT * (D - 1) \in Nat  BY AddrSizes
<1> DEFINE p == Addr!Pow2[TREE_HEIGHT * (D - 1)]
           q == Addr!Pow2[TREE_HEIGHT]
<1>2. p \in Nat \ {0} /\ q \in Nat \ {0}  BY <1>1, AddrPow2
<1>3. tree \in 0 .. p - 1 /\ ai \in Nat  BY DEF Addr!TypeOK
<1>4. Addr!Shr(tree, TREE_HEIGHT) \in 0 .. tree
  <2>1. tree \in Nat
    <3> HIDE DEF p
    <3> QED  BY <1>2, <1>3
  <2> QED  BY <1>1, <2>1, Shifts
<1>5. idx_leaf' = tree % q /\ tree' = Addr!Shr(tree, TREE_HEIGHT) /\ ai' = ai + 1
  BY DEF Addr!NextLayer, Addr!ParentLeaf
<1> HIDE DEF p, q
<1>6. tree' \in 0 .. p - 1  BY <1>2, <1>3, <1>4, <1>5
<1>7. idx_leaf' \in 0 .. q - 1  BY <1>2, <1>3, <1>5
<1> QED  BY <1>3, <1>5, <1>6, <1>7 DEF p, q

LEMMA MerkleCombineKeeps == ASSUME Addr!AddressAssumption, AddrInv, Addr!MerkleCombine PROVE AddrInv'
<1>0. Addr!TypeOK /\ Places /\ TreeBuffers /\ LayerBuffers /\ Recorded(log \cup fresh)  BY DEF AddrInv
<1>1. /\ apc = "combine" /\ Addr!Combine("hashtree", TREE_HEIGHT, 0, ai, 0)
      /\ tree_addr' = IF Addr!Wide THEN tree_addr ELSE node_addr'[0]
      /\ UNCHANGED <<aop, ops, digest, ac, wots_addr, wots_pk_addr, fors_pk_addr, leaf_addr, pk_addr>>
  BY DEF Addr!MerkleCombine
<1>2. aop.name \in {"keygen", "sign"} /\ idx \in 0 .. Addr!Last(TREE_HEIGHT) /\ ai < D /\ idx \in Nat
      /\ (aop.name = "sign" => digest \in MessageDigests)
  BY <1>0, <1>1, TypeFacts DEF Places, InTree
<1>3. \A j \in Addr!Lanes :
        /\ LeafBuffer(leaf_addr[j], ai, tree)
        /\ SubOf(pk_addr[j]) = Subtree(ai, tree) /\ PkBuffer(pk_addr[j])
        /\ SubOf(node_addr[j]) = Subtree(ai, tree)
        /\ TreeBuffer(node_addr[j], Addr!Type["hashtree"], 0)
  BY <1>0, <1>1, TypeNumbers DEF TreeBuffers, InTree
<1>4. /\ Recorded(fresh') /\ log' = log \cup fresh
      /\ node_addr' \in [Addr!Lanes -> Addr!Address]
      /\ \A j \in Addr!Lanes : SubOf(node_addr'[j]) = Subtree(ai, tree)
                          /\ TreeBuffer(node_addr'[j], Addr!Type["hashtree"], 0)
  <2>1. Addr!Pow2[TREE_HEIGHT] + 0 <= Addr!Power[4] /\ ai \in 0 .. BYTE - 1 /\ 0 \in 0 .. Addr!Power[4] - 1
        /\ TREE_HEIGHT \in Nat /\ TREE_HEIGHT < BYTE
    BY <1>0, <1>2, AddrSizes, AddrPow2, Powers, TypeFacts DEF Addr!AddressAssumption
  <2> QED  BY <1>0, <1>1, <1>2, <1>3, <2>1, CombineKeeps
<1>5. Recorded(log \cup fresh)'  BY <1>0, <1>4, RecordedMore
<1>6. tree_addr' \in Addr!Address
      /\ (aop.name = "sign" => TreeBuffer(tree_addr', Addr!Type.hashtree, 0))
  <2>1. 0 \in Addr!Lanes  BY DEF Addr!Lanes
  <2>2. aop.name = "sign" => TreeBuffer(tree_addr, Addr!Type.hashtree, 0)
    BY <1>0, <1>1 DEF LayerBuffers
  <2> QED  BY <1>0, <1>1, <1>4, <2>1, <2>2, TypeNumbers, TypeFacts
<1>7. /\ apc' \in {"idle", "wots", "layer"} /\ asigned' \subseteq MessageDigests
      /\ tree' \in 0 .. Addr!Pow2[TREE_HEIGHT * (D - 1)] - 1 /\ idx_leaf' \in 0 .. Addr!Pow2[TREE_HEIGHT] - 1
      /\ ai' \in Nat /\ idx' \in Nat
      /\ apc' = "wots" => idx' \in 0 .. Addr!Last(TREE_HEIGHT) /\ tree' = tree /\ ai' = ai
      /\ apc' = "layer" => aop.name = "sign" /\ ai' < D
  <2>1. CASE idx < Addr!Last(TREE_HEIGHT) /\ idx' = idx + 1 /\ apc' = "wots"
             /\ UNCHANGED <<tree, idx_leaf, ai, asigned>>
    <3>1. idx' \in 0 .. Addr!Last(TREE_HEIGHT)
      <4>1. Addr!Width \in {1, 8} /\ TREE_HEIGHT \in Nat /\ TREE_HEIGHT >= 3
        BY <1>0, TypeFacts, Widths, AddrSizes
      <4>2. Addr!Last(TREE_HEIGHT) \in Nat  BY <4>1, LastNat DEF Addr!Last
      <4> QED  BY <1>2, <2>1, <4>2
    <3> QED  BY <1>0, <1>2, <2>1, <3>1 DEF Addr!TypeOK
  <2>2. CASE apc' = "idle" /\ UNCHANGED <<tree, idx_leaf, ai, idx, asigned>>
    BY <1>0, <2>2 DEF Addr!TypeOK
  <2>3. CASE /\ aop.name = "sign" /\ Addr!NextLayer
             /\ apc' = IF ai = D - 1 THEN "idle" ELSE "layer"
             /\ asigned' = IF ai = D - 1 THEN asigned \cup {digest} ELSE asigned
             /\ UNCHANGED idx
    <3>1. /\ tree' \in 0 .. Addr!Pow2[TREE_HEIGHT * (D - 1)] - 1
          /\ idx_leaf' \in 0 .. Addr!Pow2[TREE_HEIGHT] - 1 /\ ai' = ai + 1 /\ ai' \in Nat
      BY <1>0, <2>3, NextLayerTypes
    <3>2. asigned' \subseteq MessageDigests  BY <1>0, <1>2, <2>3 DEF Addr!TypeOK
    <3>3. apc' = "layer" => ai' < D  BY <1>0, <1>2, <2>3, <3>1, AddrSizes, TypeFacts
    <3> QED  BY <1>2, <2>3, <3>1, <3>2, <3>3
  <2> QED  BY <2>1, <2>2, <2>3 DEF Addr!MerkleCombine
<1>8. Addr!TypeOK'
  <2>2. \A e \in fresh' : e.addr \in Addr!Address  BY <1>4 DEF Recorded, Good, Named, Is
  <2> QED  BY <1>0, <1>1, <1>4, <1>6, <1>7, <2>2 DEF Addr!TypeOK
<1>9. Places'
  <2>1. Addr!Last(TREE_HEIGHT)' = Addr!Last(TREE_HEIGHT)  BY <1>1 DEF Addr!Last, Addr!Width, Addr!Wide
  <2> QED  BY <1>1, <1>2, <1>7, <2>1 DEF Places, InTree, InLeaf, InFors
<1>10. TreeBuffers'  BY <1>1, <1>3, <1>4, <1>7, TypeNumbers DEF TreeBuffers, InTree
<1>11. ForsBuffers'  BY <1>7 DEF ForsBuffers, InFors, InLeaf
<1>12. LayerBuffers'  BY <1>0, <1>1, <1>2, <1>6, <1>7 DEF LayerBuffers
<1> QED  BY <1>5, <1>8, <1>9, <1>10, <1>11, <1>12 DEF AddrInv

\* The buffers of signer and verifier before the first tree.
LEMMA OpenBuffers ==
    ASSUME Addr!AddressAssumption, NEW d \in MessageDigests, Addr!Open(d)
    PROVE  /\ Is(wots_addr', Subtree(0, d.tree), Addr!Type.wots, Pair(d.idx_leaf), NoPad, 0, Mid(0), 0)
           /\ Is(tree_addr', Subtree(0, 0), Addr!Type.hashtree, Pair(0), NoPad, 0, Mid(0), 0)
           /\ Is(fors_pk_addr', Subtree(0, d.tree), Addr!Type.forspk, Pair(d.idx_leaf), NoPad, 0, Mid(0), 0)
           /\ tree' = d.tree /\ idx_leaf' = d.idx_leaf /\ ai' = 0 /\ digest' = d
           /\ d.tree \in 0 .. Addr!Pow2[TREE_HEIGHT * (D - 1)] - 1
           /\ d.idx_leaf \in 0 .. Addr!Pow2[TREE_HEIGHT] - 1
<1>1. /\ d.tree \in 0 .. Addr!Pow2[TREE_HEIGHT * (D - 1)] - 1
      /\ d.idx_leaf \in 0 .. Addr!Pow2[TREE_HEIGHT] - 1
  BY DEF Addr!AddressAssumption
<1>2. d.tree \in Int /\ d.idx_leaf \in Int
  BY <1>1, AddrSizes, AddrPow2
<1>3. Is(Addr!Zero, Subtree(0, 0), 0, Pair(0), NoPad, 0, Mid(0), 0)  BY ZeroIs
<1> DEFINE a == Addr!set_type(Addr!Zero, Addr!Type.wots)
           b == Addr!set_tree_addr(a, d.tree)
           e == Addr!set_keypair_addr(b, d.idx_leaf)
           f == Addr!copy_keypair_addr(Addr!Zero, e)
<1>4. wots_addr' = e /\ tree_addr' = Addr!set_type(Addr!Zero, Addr!Type.hashtree)
      /\ fors_pk_addr' = Addr!set_type(f, Addr!Type.forspk)
      /\ tree' = d.tree /\ idx_leaf' = d.idx_leaf /\ ai' = 0 /\ digest' = d
  BY DEF Addr!Open
<1>5. Is(a, Subtree(0, 0), Addr!Type.wots, Pair(0), NoPad, 0, Mid(0), 0)
  BY <1>3, SetType, TypeNumbers DEF Is
<1> HIDE DEF a
<1>6. Is(b, Subtree(0, d.tree), Addr!Type.wots, Pair(0), NoPad, 0, Mid(0), 0)
  <2>1. a[0] = 0
    <3>1. SubOf(a)[0] = Subtree(0, 0)[0]  BY <1>5 DEF Is
    <3> QED  BY <3>1 DEF SubOf, Subtree
  <2> QED  BY <1>2, <1>5, <2>1, SetTree DEF Is
<1> HIDE DEF b
<1>7. Is(e, Subtree(0, d.tree), Addr!Type.wots, Pair(d.idx_leaf), NoPad, 0, Mid(0), 0)
  BY <1>2, <1>6, SetPair DEF Is
<1> HIDE DEF e
<1>8. Is(f, Subtree(0, d.tree), 0, Pair(d.idx_leaf), NoPad, 0, Mid(0), 0)
  BY <1>3, <1>7, CopyPair DEF Is
<1> HIDE DEF f
<1>9. Is(Addr!set_type(f, Addr!Type.forspk), Subtree(0, d.tree), Addr!Type.forspk, Pair(d.idx_leaf), NoPad, 0, Mid(0), 0)
  BY <1>8, SetType, TypeNumbers DEF Is
<1>10. Is(Addr!set_type(Addr!Zero, Addr!Type.hashtree), Subtree(0, 0), Addr!Type.hashtree, Pair(0), NoPad, 0, Mid(0), 0)
  BY <1>3, SetType, TypeNumbers DEF Is
<1> QED  BY <1>1, <1>4, <1>7, <1>9, <1>10

LEMMA SignBeginKeeps == ASSUME Addr!AddressAssumption, AddrInv, Addr!SignBegin PROVE AddrInv'
<1>0. Addr!TypeOK /\ Recorded(log \cup fresh)  BY DEF AddrInv
<1>1. /\ apc' = "fors" /\ Addr!NoHash /\ UNCHANGED <<asigned, idx, ac, wots_pk_addr, Addr!laneAddrs>>
  BY DEF Addr!SignBegin
<1>2. PICK wide \in BOOLEAN : Addr!Begin("sign", wide)  BY DEF Addr!SignBegin
<1>3. PICK d \in MessageDigests : Addr!Open(d)  BY DEF Addr!SignBegin
<1>4. aop' = [name |-> "sign", wide |-> wide] /\ ops' = ops + 1 /\ ops < MaxOps  BY <1>2 DEF Addr!Begin
<1>5. /\ Is(wots_addr', Subtree(0, d.tree), Addr!Type.wots, Pair(d.idx_leaf), NoPad, 0, Mid(0), 0)
      /\ Is(tree_addr', Subtree(0, 0), Addr!Type.hashtree, Pair(0), NoPad, 0, Mid(0), 0)
      /\ Is(fors_pk_addr', Subtree(0, d.tree), Addr!Type.forspk, Pair(d.idx_leaf), NoPad, 0, Mid(0), 0)
      /\ tree' = d.tree /\ idx_leaf' = d.idx_leaf /\ ai' = 0 /\ digest' = d
      /\ d.tree \in 0 .. Addr!Pow2[TREE_HEIGHT * (D - 1)] - 1
      /\ d.idx_leaf \in 0 .. Addr!Pow2[TREE_HEIGHT] - 1
  BY <1>3, OpenBuffers
<1>6. Recorded(log \cup fresh)' /\ fresh' = {}  BY <1>0, <1>1, RecordedNone
<1>7. Addr!TypeOK'
  <2>1. ops' \in 0 .. MaxOps  BY <1>0, <1>4, AddrSizes DEF Addr!TypeOK
  <2>2. wots_addr' \in Addr!Address /\ tree_addr' \in Addr!Address /\ fors_pk_addr' \in Addr!Address
    BY <1>5 DEF Is
  <2>3. UNCHANGED <<node_addr, leaf_addr, pk_addr>>  BY <1>1 DEF Addr!laneAddrs
  <2> QED  BY <1>0, <1>1, <1>4, <1>5, <1>6, <2>1, <2>2, <2>3 DEF Addr!TypeOK
<1>8. Places'
  <2>1. 0 < FORS_SIG_TREES  BY AddrSizes
  <2> QED  BY <1>1, <1>4, <1>5, <2>1 DEF Places, InTree, InLeaf, InFors
<1>9. TreeBuffers'  BY <1>1 DEF TreeBuffers, InTree
<1>10. ForsBuffers'
  <2>1. SubOf(wots_addr') = Subtree(0, d.tree) /\ PairOf(wots_addr') = Pair(d.idx_leaf)  BY <1>5 DEF Is
  <2> QED  BY <1>1, <1>4, <1>5, <2>1 DEF ForsBuffers, InFors, InLeaf
<1>11. LayerBuffers'
  <2>1. /\ TypeOf(wots_addr') = Addr!Type.wots /\ PadOf(wots_addr') = NoPad /\ MidOf(wots_addr') = Mid(0)
        /\ TreeBuffer(tree_addr', Addr!Type.hashtree, 0)  BY <1>5 DEF Is, TreeBuffer
  <2> QED  BY <1>1, <1>4, <2>1 DEF LayerBuffers
<1> QED  BY <1>6, <1>7, <1>8, <1>9, <1>10, <1>11 DEF AddrInv

\* FORS leaves and nodes, of whichever tree, have indices within the field.
LEMMA ForsRange ==
    ASSUME Addr!AddressAssumption, Addr!TypeOK, ai < FORS_SIG_TREES
    PROVE  /\ Addr!ForsOffset \in Nat /\ Addr!Pow2[FORS_HEIGHT] \in Nat \ {0} /\ Addr!Power[4] \in Nat
           /\ Addr!Pow2[FORS_HEIGHT] + Addr!ForsOffset <= Addr!Power[4]
<1> DEFINE p == Addr!Pow2[FORS_HEIGHT]
<1>1. p \in Nat \ {0} /\ ai \in Nat /\ FORS_SIG_TREES \in Nat /\ Addr!Power[4] \in Nat
  BY AddrSizes, AddrPow2, Powers DEF Addr!TypeOK
<1>2. FORS_SIG_TREES * p <= Addr!Power[4]  BY DEF Addr!AddressAssumption
<1>3. Addr!ForsOffset = ai * p  BY DEF Addr!ForsOffset
<1> HIDE DEF p
<1>4. ai * p \in Nat /\ FORS_SIG_TREES * p \in Nat  BY <1>1
<1>5. (ai + 1) * p = ai * p + p  BY <1>1
<1>6. \A n \in Nat : n >= ai + 1 => n * p >= (ai + 1) * p
  <2>1. ASSUME NEW n \in Nat, n >= ai + 1 PROVE n * p >= (ai + 1) * p
    <3>1. PICK m \in Nat : n = ai + 1 + m
      <4>1. n - (ai + 1) \in Nat  BY <1>1, <2>1
      <4> QED  BY <1>1, <4>1
    <3>2. n * p = (ai + 1) * p + m * p /\ m * p \in Nat /\ (ai + 1) * p \in Nat  BY <1>1, <3>1
    <3> QED  BY <3>2
  <2> QED  BY <2>1
<1>7. FORS_SIG_TREES * p >= ai * p + p  BY <1>1, <1>5, <1>6
<1> QED  BY <1>1, <1>2, <1>3, <1>4, <1>7 DEF p

LEMMA SelectedLeaf ==
    ASSUME Addr!AddressAssumption, Addr!TypeOK, digest \in MessageDigests, ai < FORS_SIG_TREES
    PROVE  /\ digest.indices[ai] \in 0 .. Addr!Pow2[FORS_HEIGHT] - 1 /\ digest.indices[ai] \in Nat
           /\ digest.indices[ai] + Addr!ForsOffset \in 0 .. Addr!Power[4] - 1
<1>1. ai \in 0 .. FORS_SIG_TREES - 1  BY AddrSizes, TypeFacts
<1>2. digest.indices[ai] \in 0 .. Addr!Pow2[FORS_HEIGHT] - 1  BY <1>1 DEF Addr!AddressAssumption
<1> DEFINE x == digest.indices[ai]
           p == Addr!Pow2[FORS_HEIGHT]
<1> HIDE DEF x, p
<1>3. Addr!ForsOffset \in Nat /\ p \in Nat \ {0} /\ Addr!Power[4] \in Nat /\ p + Addr!ForsOffset <= Addr!Power[4]
      /\ x \in 0 .. p - 1
  BY <1>2, ForsRange DEF x, p
<1>4. x \in Nat /\ x + Addr!ForsOffset \in 0 .. Addr!Power[4] - 1  BY <1>3
<1> QED  BY <1>2, <1>4 DEF x

LEMMA SmallZero ==
    ASSUME Addr!AddressAssumption
    PROVE  0 \in 0 .. BYTE - 1 /\ 0 \in 0 .. Addr!Power[4] - 1 /\ Low(0) = 0
BY AddrSizes, Powers, ZeroIs

LEMMA ForsTreeKeeps == ASSUME Addr!AddressAssumption, AddrInv, Addr!ForsTree PROVE AddrInv'
<1>0. Addr!TypeOK /\ Places /\ ForsBuffers /\ LayerBuffers /\ Recorded(log \cup fresh)  BY DEF AddrInv
<1> DEFINE own == Addr!copy_keypair_addr(Addr!Zero, wots_addr)
           index == digest.indices[ai] + Addr!ForsOffset
           prf == Addr!set_type(Addr!set_tree_index(Addr!set_tree_height(own, 0), index), Addr!Type.forsprf)
<1>1. /\ apc = "fors" /\ aop.name = "sign" /\ apc' = "forsleaf" /\ idx' = 0
      /\ Addr!Hash({Addr!Call(Addr!Role("forsprf", 0, tree, idx_leaf, 0, index), prf)})
      /\ node_addr' = [j \in Addr!Lanes |-> Addr!set_type(IF j = 0 THEN prf ELSE own, Addr!Type.forstree)]
      /\ leaf_addr' = [j \in Addr!Lanes |-> own]
      /\ UNCHANGED <<Addr!callVars, tree, idx_leaf, ai, ac, Addr!addrs, pk_addr>>
  BY DEF Addr!ForsTree
<1>2. UNCHANGED <<aop, ops, digest, asigned, wots_addr, tree_addr, wots_pk_addr, fors_pk_addr>>
  BY <1>1 DEF Addr!callVars, Addr!addrs
<1>3. digest \in MessageDigests /\ ai < FORS_SIG_TREES  BY <1>0, <1>1 DEF Places, InFors
<1>4. index \in 0 .. Addr!Power[4] - 1 /\ index \in Int
  <2>1. index \in 0 .. Addr!Power[4] - 1  BY <1>0, <1>3, SelectedLeaf
  <2> HIDE DEF index
  <2> QED  BY <2>1, Powers
<1> HIDE DEF index
<1>5. Is(own, Subtree(0, tree), 0, Pair(idx_leaf), NoPad, 0, Mid(0), 0)
  <2>1. SubOf(wots_addr) = Subtree(0, tree) /\ PairOf(wots_addr) = Pair(idx_leaf)
    BY <1>0, <1>1 DEF ForsBuffers, InFors
  <2> QED  BY <1>0, <2>1, ZeroIs, CopyPair, TypeFacts DEF Is
<1> HIDE DEF own
<1>6. Is(prf, Subtree(0, tree), Addr!Type.forsprf, Pair(idx_leaf), NoPad, 0, Mid(index), Low(index))
  <2> DEFINE a == Addr!set_tree_height(own, 0)
             b == Addr!set_tree_index(a, index)
  <2>1. Is(a, Subtree(0, tree), 0, Pair(idx_leaf), NoPad, 0, Mid(0), 0)
    BY <1>5, SetUp, SmallZero DEF Is
  <2> HIDE DEF a
  <2>2. Is(b, Subtree(0, tree), 0, Pair(idx_leaf), NoPad, 0, Mid(index), Low(index))
    BY <1>4, <2>1, SetIndex DEF Is
  <2> HIDE DEF b
  <2>3. Is(Addr!set_type(b, Addr!Type.forsprf), Subtree(0, tree), Addr!Type.forsprf, Pair(idx_leaf), NoPad, 0,
           Mid(index), Low(index))
    BY <2>2, SetType, TypeNumbers DEF Is
  <2> QED  BY <2>3 DEF a, b
<1> HIDE DEF prf
<1>7. Good(Addr!Call(Addr!Role("forsprf", 0, tree, idx_leaf, 0, index), prf))
  <2>1. Is(prf, Subtree(0, tree), Addr!Type["forsprf"], Pair(idx_leaf), NoPad, 0, Mid(index), Low(index))
        /\ "forsprf" \in DOMAIN Addr!Type
    BY <1>6, TypeNumbers
  <2> QED  BY <1>0, <1>4, <2>1, SmallZero, TypeFacts, GoodCall
<1>8. Recorded(log \cup fresh)' /\ Recorded(fresh')
  <2>1. Recorded(fresh') /\ log' = log \cup fresh  BY <1>1, <1>7 DEF Addr!Hash, Recorded
  <2> QED  BY <1>0, <2>1, RecordedMore
<1>9. ASSUME NEW j \in Addr!Lanes
      PROVE  /\ node_addr'[j] \in Addr!Address /\ SubOf(node_addr'[j]) = Subtree(0, tree)
             /\ TreeBuffer(node_addr'[j], Addr!Type.forstree, idx_leaf)
             /\ leaf_addr'[j] \in Addr!Address /\ SubOf(leaf_addr'[j]) = Subtree(0, tree)
             /\ PairOf(leaf_addr'[j]) = Pair(idx_leaf)
             /\ PadOf(leaf_addr'[j]) = NoPad /\ UpOf(leaf_addr'[j]) = 0
  <2>1. node_addr'[j] = Addr!set_type(IF j = 0 THEN prf ELSE own, Addr!Type.forstree) /\ leaf_addr'[j] = own
    BY <1>1
  <2>2. \A a \in {prf, own} :
           LET r == Addr!set_type(a, Addr!Type.forstree)
           IN  r \in Addr!Address /\ SubOf(r) = Subtree(0, tree)
               /\ TreeBuffer(r, Addr!Type.forstree, idx_leaf)
    BY <1>5, <1>6, SetType, TypeNumbers DEF Is, TreeBuffer
  <2> QED  BY <1>5, <2>1, <2>2 DEF Is
<1>10. node_addr' \in [Addr!Lanes -> Addr!Address] /\ leaf_addr' \in [Addr!Lanes -> Addr!Address]
  BY <1>1, <1>9
<1>11. Addr!TypeOK'
  <2>2. \A e \in fresh' : e.addr \in Addr!Address  BY <1>8 DEF Recorded, Good, Named, Is
  <2> QED  BY <1>0, <1>1, <1>2, <1>10, <2>2 DEF Addr!TypeOK
<1>12. Places'
  <2>1. Addr!Width' \in {1, 8}  BY <1>0, <1>2 DEF Addr!Width, Addr!Wide
  <2>2. Addr!Last(FORS_HEIGHT)' \in Nat  BY <2>1, AddrSizes, LastNat DEF Addr!Last
  <2> QED  BY <1>0, <1>1, <1>2, <2>2 DEF Places, InTree, InLeaf, InFors
<1>13. TreeBuffers'  BY <1>1 DEF TreeBuffers, InTree
<1>14. ForsBuffers'  BY <1>0, <1>1, <1>2, <1>9 DEF ForsBuffers, InFors, InLeaf
<1>15. LayerBuffers'  BY <1>0, <1>1, <1>2 DEF LayerBuffers
<1> QED  BY <1>8, <1>11, <1>12, <1>13, <1>14, <1>15 DEF AddrInv

LEMMA ForsLeafKeeps == ASSUME Addr!AddressAssumption, AddrInv, Addr!ForsLeaf PROVE AddrInv'
<1>0. Addr!TypeOK /\ Places /\ ForsBuffers /\ LayerBuffers /\ Recorded(log \cup fresh)  BY DEF AddrInv
<1> DEFINE prf(j) == Addr!set_type(Addr!set_tree_index(leaf_addr[j], Addr!Leaf(j) + Addr!ForsOffset), Addr!Type.forsprf)
           lf(j) == Addr!set_type(prf(j), Addr!Type.forstree)
           role(use, j) == Addr!Role(use, 0, tree, idx_leaf, 0, Addr!Leaf(j) + Addr!ForsOffset)
<1>1. /\ apc = "forsleaf" /\ apc' = "forscombine"
      /\ Addr!Hash({Addr!Call(role("forsprf", j), prf(j)) : j \in Addr!Used}
              \cup {Addr!Call(role("forstree", j), lf(j)) : j \in Addr!Used})
      /\ leaf_addr' = [j \in Addr!Lanes |-> lf(j)]
      /\ UNCHANGED <<Addr!callVars, tree, idx_leaf, ai, idx, ac, Addr!addrs, node_addr, pk_addr>>
  BY DEF Addr!ForsLeaf
<1>2. UNCHANGED <<aop, ops, digest, asigned, wots_addr, tree_addr, wots_pk_addr, fors_pk_addr>>
  BY <1>1 DEF Addr!callVars, Addr!addrs
<1>3. idx \in 0 .. Addr!Last(FORS_HEIGHT) /\ ai < FORS_SIG_TREES /\ FORS_HEIGHT \in Nat
      /\ aop.wide \in BOOLEAN /\ Addr!Used \subseteq Addr!Lanes
  BY <1>0, <1>1, AddrSizes, TypeFacts, Widths DEF Places, InLeaf, InFors
<1>4. Addr!ForsOffset \in Nat /\ Addr!Pow2[FORS_HEIGHT] \in Nat \ {0} /\ Addr!Power[4] \in Nat
      /\ Addr!Pow2[FORS_HEIGHT] + Addr!ForsOffset <= Addr!Power[4]
  BY <1>0, <1>3, ForsRange
<1>5. /\ \A j \in Addr!Lanes : Addr!Leaf(j) + Addr!ForsOffset \in Int
      /\ \A j \in Addr!Used : Addr!Leaf(j) + Addr!ForsOffset \in 0 .. Addr!Power[4] - 1
  <2>1. (\A j \in Addr!Lanes : Addr!Leaf(j) \in Int) /\ \A j \in Addr!Used : Addr!Leaf(j) \in 0 .. Addr!Pow2[FORS_HEIGHT] - 1
    BY <1>3, LeafRange
  <2> QED  BY <1>4, <2>1
<1>6. ASSUME NEW j \in Addr!Lanes
      PROVE  /\ Is(prf(j), Subtree(0, tree), Addr!Type.forsprf, Pair(idx_leaf), NoPad, 0,
                   Mid(Addr!Leaf(j) + Addr!ForsOffset), Low(Addr!Leaf(j) + Addr!ForsOffset))
             /\ Is(lf(j), Subtree(0, tree), Addr!Type.forstree, Pair(idx_leaf), NoPad, 0,
                   Mid(Addr!Leaf(j) + Addr!ForsOffset), Low(Addr!Leaf(j) + Addr!ForsOffset))
  <2>1. leaf_addr[j] \in Addr!Address  BY <1>0, TypeFacts
  <2>2. /\ SubOf(leaf_addr[j]) = Subtree(0, tree) /\ PairOf(leaf_addr[j]) = Pair(idx_leaf)
        /\ PadOf(leaf_addr[j]) = NoPad /\ UpOf(leaf_addr[j]) = 0
    BY <1>0, <1>1 DEF ForsBuffers, InLeaf
  <2> DEFINE x == Addr!Leaf(j) + Addr!ForsOffset
             a == Addr!set_tree_index(leaf_addr[j], x)
  <2>3. x \in Int  BY <1>5
  <2>4. Is(a, Subtree(0, tree), TypeOf(leaf_addr[j]), Pair(idx_leaf), NoPad, 0, Mid(x), Low(x))
    <3> HIDE DEF x
    <3> QED  BY <2>1, <2>2, <2>3, SetIndex DEF Is
  <2> HIDE DEF a
  <2>5. Is(Addr!set_type(a, Addr!Type.forsprf), Subtree(0, tree), Addr!Type.forsprf, Pair(idx_leaf), NoPad, 0,
           Mid(x), Low(x))
    BY <2>4, SetType, TypeNumbers DEF Is
  <2>6. prf(j) = Addr!set_type(a, Addr!Type.forsprf)  BY DEF a
  <2> HIDE DEF prf
  <2>7. Is(lf(j), Subtree(0, tree), Addr!Type.forstree, Pair(idx_leaf), NoPad, 0, Mid(x), Low(x))
    BY <2>5, <2>6, SetType, TypeNumbers DEF Is
  <2> QED  BY <2>5, <2>6, <2>7
<1> HIDE DEF prf, lf
<1>7. ASSUME NEW j \in Addr!Used
      PROVE  Good(Addr!Call(role("forsprf", j), prf(j))) /\ Good(Addr!Call(role("forstree", j), lf(j)))
  <2>1. /\ Is(prf(j), Subtree(0, tree), Addr!Type["forsprf"], Pair(idx_leaf), NoPad, 0,
              Mid(Addr!Leaf(j) + Addr!ForsOffset), Low(Addr!Leaf(j) + Addr!ForsOffset))
        /\ Is(lf(j), Subtree(0, tree), Addr!Type["forstree"], Pair(idx_leaf), NoPad, 0,
              Mid(Addr!Leaf(j) + Addr!ForsOffset), Low(Addr!Leaf(j) + Addr!ForsOffset))
        /\ "forsprf" \in DOMAIN Addr!Type /\ "forstree" \in DOMAIN Addr!Type
    BY <1>3, <1>6, TypeNumbers
  <2>2. Addr!Leaf(j) + Addr!ForsOffset \in 0 .. Addr!Power[4] - 1  BY <1>5
  <2>3. idx_leaf \in 0 .. Addr!Power[4] - 1 /\ tree \in 0 .. Addr!Power[8] - 1 /\ 0 \in 0 .. BYTE - 1
    BY <1>0, TypeFacts, SmallZero
  <2> QED  BY <2>1, <2>2, <2>3, GoodCall
<1> HIDE DEF role
<1>8. Recorded(log \cup fresh)' /\ Recorded(fresh')
  <2>1. Recorded(fresh') /\ log' = log \cup fresh  BY <1>1, <1>7 DEF Addr!Hash, Recorded
  <2> QED  BY <1>0, <2>1, RecordedMore
<1>9. ASSUME NEW j \in Addr!Lanes
      PROVE  /\ leaf_addr'[j] \in Addr!Address /\ SubOf(leaf_addr'[j]) = Subtree(0, tree)
             /\ PairOf(leaf_addr'[j]) = Pair(idx_leaf)
             /\ PadOf(leaf_addr'[j]) = NoPad /\ UpOf(leaf_addr'[j]) = 0
  <2>1. leaf_addr'[j] = lf(j)  BY <1>1
  <2> QED  BY <1>6, <2>1 DEF Is
<1>10. leaf_addr' \in [Addr!Lanes -> Addr!Address]  BY <1>1, <1>9
<1>11. Addr!TypeOK'
  <2>2. \A e \in fresh' : e.addr \in Addr!Address  BY <1>8 DEF Recorded, Good, Named, Is
  <2> QED  BY <1>0, <1>1, <1>2, <1>10, <2>2 DEF Addr!TypeOK
<1>12. Places'  BY <1>0, <1>1, <1>2 DEF Places, InTree, InLeaf, InFors, Addr!Last, Addr!Width, Addr!Wide
<1>13. TreeBuffers'  BY <1>1 DEF TreeBuffers, InTree
<1>14. ForsBuffers'  BY <1>0, <1>1, <1>2, <1>9 DEF ForsBuffers, InFors, InLeaf
<1>15. LayerBuffers'  BY <1>0, <1>1, <1>2 DEF LayerBuffers
<1> QED  BY <1>8, <1>11, <1>12, <1>13, <1>14, <1>15 DEF AddrInv

LEMMA ForsCombineKeeps == ASSUME Addr!AddressAssumption, AddrInv, Addr!ForsCombine PROVE AddrInv'
<1>0. Addr!TypeOK /\ Places /\ ForsBuffers /\ LayerBuffers /\ Recorded(log \cup fresh)  BY DEF AddrInv
<1>1. /\ apc = "forscombine" /\ Addr!Combine("forstree", FORS_HEIGHT, Addr!ForsOffset, 0, idx_leaf)
      /\ UNCHANGED <<Addr!callVars, tree, idx_leaf, ac, Addr!addrs, leaf_addr, pk_addr>>
  BY DEF Addr!ForsCombine
<1>2. UNCHANGED <<aop, ops, digest, asigned, wots_addr, tree_addr, wots_pk_addr, fors_pk_addr>>
  BY <1>1 DEF Addr!callVars, Addr!addrs
<1>3. idx \in 0 .. Addr!Last(FORS_HEIGHT) /\ ai < FORS_SIG_TREES /\ aop.name = "sign" /\ idx \in Nat
      /\ digest \in MessageDigests
  BY <1>0, <1>1, TypeFacts DEF Places, InLeaf, InFors
<1>4. /\ Recorded(fresh') /\ log' = log \cup fresh
      /\ node_addr' \in [Addr!Lanes -> Addr!Address]
      /\ \A j \in Addr!Lanes : SubOf(node_addr'[j]) = Subtree(0, tree)
                          /\ TreeBuffer(node_addr'[j], Addr!Type["forstree"], idx_leaf)
  <2>1. Addr!ForsOffset \in Nat /\ Addr!Pow2[FORS_HEIGHT] + Addr!ForsOffset <= Addr!Power[4]
    BY <1>0, <1>3, ForsRange
  <2>2. FORS_HEIGHT \in Nat /\ FORS_HEIGHT < BYTE /\ 0 \in 0 .. BYTE - 1
        /\ idx_leaf \in 0 .. Addr!Power[4] - 1
    BY <1>0, AddrSizes, SmallZero, TypeFacts
  <2>3. \A j \in Addr!Lanes : SubOf(node_addr[j]) = Subtree(0, tree)
                         /\ TreeBuffer(node_addr[j], Addr!Type["forstree"], idx_leaf)
    BY <1>0, <1>1, TypeNumbers DEF ForsBuffers, InLeaf
  <2> QED  BY <1>0, <1>1, <1>3, <2>1, <2>2, <2>3, CombineKeeps
<1>5. Recorded(log \cup fresh)'  BY <1>0, <1>4, RecordedMore
<1>6. /\ apc' \in {"forsleaf", "fors", "forspk"} /\ ai' \in Nat /\ idx' \in Nat
      /\ apc' = "forsleaf" => idx' \in 0 .. Addr!Last(FORS_HEIGHT)
      /\ apc' # "forspk" => ai' < FORS_SIG_TREES
  <2>1. CASE idx < Addr!Last(FORS_HEIGHT) /\ idx' = idx + 1 /\ apc' = "forsleaf" /\ UNCHANGED ai
    <3>1. idx' \in 0 .. Addr!Last(FORS_HEIGHT)
      <4>1. Addr!Width \in {1, 8} /\ FORS_HEIGHT \in Nat /\ FORS_HEIGHT >= 3
        BY <1>0, TypeFacts, Widths, AddrSizes
      <4>2. Addr!Last(FORS_HEIGHT) \in Nat  BY <4>1, LastNat DEF Addr!Last
      <4> QED  BY <1>3, <2>1, <4>2
    <3> QED  BY <1>0, <1>3, <2>1, <3>1 DEF Addr!TypeOK
  <2>2. CASE ai' = ai + 1 /\ apc' = (IF ai = FORS_SIG_TREES - 1 THEN "forspk" ELSE "fors") /\ UNCHANGED idx
    <3>1. ai \in Nat /\ FORS_SIG_TREES \in Nat  BY <1>0, TypeFacts, AddrSizes
    <3> QED  BY <1>3, <2>2, <3>1
  <2> QED  BY <2>1, <2>2 DEF Addr!ForsCombine
<1>7. Addr!TypeOK'
  <2>2. \A e \in fresh' : e.addr \in Addr!Address  BY <1>4 DEF Recorded, Good, Named, Is
  <2> QED  BY <1>0, <1>1, <1>2, <1>4, <1>6, <2>2 DEF Addr!TypeOK
<1>8. Places'
  <2>1. Addr!Last(FORS_HEIGHT)' = Addr!Last(FORS_HEIGHT)  BY <1>2 DEF Addr!Last, Addr!Width, Addr!Wide
  <2> QED  BY <1>2, <1>3, <1>6, <2>1 DEF Places, InTree, InLeaf, InFors
<1>9. TreeBuffers'  BY <1>6 DEF TreeBuffers, InTree
<1>10. ForsBuffers'  BY <1>0, <1>1, <1>2, <1>3, <1>4, <1>6, TypeNumbers DEF ForsBuffers, InFors, InLeaf
<1>11. LayerBuffers'  BY <1>0, <1>1, <1>2, <1>3, <1>6 DEF LayerBuffers
<1> QED  BY <1>5, <1>7, <1>8, <1>9, <1>10, <1>11 DEF AddrInv

LEMMA ForsPkKeeps == ASSUME Addr!AddressAssumption, AddrInv, Addr!ForsPk PROVE AddrInv'
<1>0. Addr!TypeOK /\ Places /\ ForsBuffers /\ LayerBuffers /\ Recorded(log \cup fresh)  BY DEF AddrInv
<1>1. /\ apc = "forspk" /\ apc' = "layer" /\ ai' = 0
      /\ Addr!Hash({Addr!Call(Addr!Role("forspk", 0, tree, idx_leaf, 0, 0), fors_pk_addr)})
      /\ UNCHANGED <<Addr!callVars, tree, idx_leaf, idx, ac, Addr!addrs, Addr!laneAddrs>>
  BY DEF Addr!ForsPk
<1>2. UNCHANGED <<aop, ops, digest, asigned, wots_addr, tree_addr, wots_pk_addr, fors_pk_addr,
                  node_addr, leaf_addr, pk_addr>>
  BY <1>1 DEF Addr!callVars, Addr!addrs, Addr!laneAddrs
<1>3. Good(Addr!Call(Addr!Role("forspk", 0, tree, idx_leaf, 0, 0), fors_pk_addr))
  <2>1. Is(fors_pk_addr, Subtree(0, tree), Addr!Type["forspk"], Pair(idx_leaf), NoPad, 0, Mid(0), Low(0))
        /\ "forspk" \in DOMAIN Addr!Type
    BY <1>0, <1>1, TypeNumbers, SmallZero DEF ForsBuffers
  <2> QED  BY <1>0, <2>1, SmallZero, TypeFacts, GoodCall
<1>4. Recorded(log \cup fresh)' /\ Recorded(fresh')
  <2>1. Recorded(fresh') /\ log' = log \cup fresh  BY <1>1, <1>3 DEF Addr!Hash, Recorded
  <2> QED  BY <1>0, <2>1, RecordedMore
<1>5. Addr!TypeOK'
  <2>2. \A e \in fresh' : e.addr \in Addr!Address  BY <1>4 DEF Recorded, Good, Named, Is
  <2> QED  BY <1>0, <1>1, <1>2, <2>2 DEF Addr!TypeOK
<1>6. Places'
  <2>1. 0 < D  BY AddrSizes
  <2> QED  BY <1>0, <1>1, <1>2, <2>1 DEF Places, InTree, InLeaf, InFors
<1>7. TreeBuffers'  BY <1>1 DEF TreeBuffers, InTree
<1>8. ForsBuffers'  BY <1>1 DEF ForsBuffers, InFors, InLeaf
<1>9. LayerBuffers'  BY <1>0, <1>1, <1>2 DEF LayerBuffers
<1> QED  BY <1>4, <1>5, <1>6, <1>7, <1>8, <1>9 DEF AddrInv

\* The addresses of a layer, from buffers the layer below used.
LEMMA LayerAddresses ==
    ASSUME Addr!AddressAssumption, AddrInv, apc = "layer"
    PROVE  /\ aop.name \in {"sign", "verify"} /\ ai < D
           /\ Is(Addr!LayerTree, Subtree(ai, tree), Addr!Type.hashtree, Pair(0), NoPad, UpOf(tree_addr),
                 MidOf(tree_addr), LowOf(tree_addr))
           /\ Is(Addr!LayerWots, Subtree(ai, tree), Addr!Type.wots, Pair(idx_leaf), NoPad, UpOf(wots_addr),
                 Mid(0), LowOf(wots_addr))
<1>0. Addr!TypeOK /\ Places /\ LayerBuffers  BY DEF AddrInv
<1>1. aop.name \in {"sign", "verify"} /\ ai < D  BY <1>0 DEF Places
<1>2. /\ TypeOf(wots_addr) = Addr!Type.wots /\ PadOf(wots_addr) = NoPad /\ MidOf(wots_addr) = Mid(0)
      /\ TreeBuffer(tree_addr, Addr!Type.hashtree, 0)  BY <1>0, <1>1 DEF LayerBuffers
<1>3. ai \in 0 .. BYTE - 1 /\ tree \in Int /\ idx_leaf \in Int /\ wots_addr \in Addr!Address
      /\ tree_addr \in Addr!Address
  BY <1>0, <1>1, AddrSizes, TypeFacts
<1>4. Is(Addr!LayerTree, Subtree(ai, tree), Addr!Type.hashtree, Pair(0), NoPad, UpOf(tree_addr),
         MidOf(tree_addr), LowOf(tree_addr))
  BY <1>2, <1>3, SetSubtree DEF Addr!LayerTree, Is, TreeBuffer
<1> DEFINE a == Addr!copy_subtree_addr(wots_addr, Addr!LayerTree)
<1>5. Is(a, Subtree(ai, tree), Addr!Type.wots, PairOf(wots_addr), NoPad, UpOf(wots_addr), Mid(0),
         LowOf(wots_addr))
  BY <1>2, <1>3, <1>4, CopySubtree DEF Is
<1>6. Addr!LayerWots = Addr!set_keypair_addr(a, idx_leaf)  BY DEF Addr!LayerWots
<1> HIDE DEF a
<1>7. Is(Addr!LayerWots, Subtree(ai, tree), Addr!Type.wots, Pair(idx_leaf), NoPad, UpOf(wots_addr),
         Mid(0), LowOf(wots_addr))
  BY <1>3, <1>5, <1>6, SetPair DEF Is
<1> QED  BY <1>1, <1>4, <1>7

LEMMA SignLayerKeeps == ASSUME Addr!AddressAssumption, AddrInv, Addr!SignLayer PROVE AddrInv'
<1>0. Addr!TypeOK /\ Places /\ LayerBuffers /\ Recorded(log \cup fresh)  BY DEF AddrInv
<1>1. /\ apc = "layer" /\ aop.name = "sign" /\ wots_addr' = Addr!LayerWots /\ Addr!NoHash
      /\ UNCHANGED <<Addr!callVars, tree, idx_leaf, ai, ac, wots_pk_addr, fors_pk_addr>>
  BY DEF Addr!SignLayer
<1>2. UNCHANGED <<aop, ops, digest, asigned>>  BY <1>1 DEF Addr!callVars
<1>3. /\ ai < D
      /\ Is(Addr!LayerTree, Subtree(ai, tree), Addr!Type.hashtree, Pair(0), NoPad, UpOf(tree_addr),
            MidOf(tree_addr), LowOf(tree_addr))
      /\ Is(Addr!LayerWots, Subtree(ai, tree), Addr!Type.wots, Pair(idx_leaf), NoPad, UpOf(wots_addr),
            Mid(0), LowOf(wots_addr))
  BY <1>1, LayerAddresses
<1>4. Recorded(log \cup fresh)' /\ fresh' = {}  BY <1>0, <1>1, RecordedNone
<1>5. CASE Addr!MerkleStart(Addr!LayerWots, Addr!LayerTree, Addr!Wide)
  <2>1. Addr!Wide \in BOOLEAN  BY <1>0, TypeFacts DEF Addr!Wide
  <2>2. /\ tree_addr' \in Addr!Address /\ TreeBuffer(tree_addr', Addr!Type.hashtree, 0)
        /\ node_addr' \in [Addr!Lanes -> Addr!Address] /\ leaf_addr' \in [Addr!Lanes -> Addr!Address]
        /\ pk_addr' \in [Addr!Lanes -> Addr!Address]
        /\ \A j \in Addr!Lanes :
             /\ LeafBuffer(leaf_addr'[j], ai, tree)
             /\ SubOf(pk_addr'[j]) = Subtree(ai, tree) /\ PkBuffer(pk_addr'[j])
             /\ SubOf(node_addr'[j]) = Subtree(ai, tree)
             /\ TreeBuffer(node_addr'[j], Addr!Type.hashtree, 0)
        /\ idx' = 0 /\ apc' = "wots"
    BY <1>3, <1>5, <2>1, StartTree DEF Is
  <2>3. Addr!TypeOK'
    <3>1. wots_addr' \in Addr!Address  BY <1>1, <1>3 DEF Is
    <3> QED  BY <1>0, <1>1, <1>2, <1>4, <2>2, <3>1 DEF Addr!TypeOK
  <2>4. Places'
    <3>1. Addr!Width' \in {1, 8}  BY <1>0, <1>2 DEF Addr!Width, Addr!Wide
    <3>2. Addr!Last(TREE_HEIGHT)' \in Nat  BY <3>1, AddrSizes, LastNat DEF Addr!Last
    <3> QED  BY <1>0, <1>1, <1>2, <1>3, <2>2, <3>2 DEF Places, InTree, InLeaf, InFors
  <2>5. TreeBuffers'  BY <1>1, <2>2 DEF TreeBuffers
  <2>6. ForsBuffers'  BY <2>2 DEF ForsBuffers, InFors, InLeaf
  <2>7. LayerBuffers'  BY <1>1, <1>2, <1>3, <2>2 DEF LayerBuffers, Is
  <2> QED  BY <1>4, <2>3, <2>4, <2>5, <2>6, <2>7 DEF AddrInv
<1>6. CASE tree_addr' = Addr!LayerTree /\ apc' = "idle" /\ UNCHANGED <<idx, Addr!laneAddrs>>
  <2>1. wots_addr' \in Addr!Address /\ tree_addr' \in Addr!Address
        /\ UNCHANGED <<node_addr, leaf_addr, pk_addr>>  BY <1>1, <1>3, <1>6 DEF Is, Addr!laneAddrs
  <2>2. Addr!TypeOK'  BY <1>0, <1>1, <1>2, <1>4, <1>6, <2>1 DEF Addr!TypeOK
  <2>3. Places'  BY <1>0, <1>2, <1>6 DEF Places, InTree, InLeaf, InFors
  <2>4. TreeBuffers' /\ ForsBuffers' /\ LayerBuffers'
    BY <1>6 DEF TreeBuffers, ForsBuffers, LayerBuffers, InTree, InFors, InLeaf
  <2> QED  BY <1>4, <2>2, <2>3, <2>4 DEF AddrInv
<1> QED  BY <1>5, <1>6 DEF Addr!SignLayer

LEMMA VerifyBeginKeeps == ASSUME Addr!AddressAssumption, AddrInv, Addr!VerifyBegin PROVE AddrInv'
<1>0. Addr!TypeOK /\ Recorded(log \cup fresh)  BY DEF AddrInv
<1>1. /\ apc' = "fors" /\ Addr!NoHash /\ UNCHANGED <<asigned, idx, ac, leaf_addr, pk_addr>>
      /\ wots_pk_addr' = Addr!set_type(Addr!Zero, Addr!Type.wotspk) /\ Addr!Begin("verify", FALSE)
  BY DEF Addr!VerifyBegin
<1>2. PICK d \in asigned :
        /\ Addr!Open(d)
        /\ node_addr' = [node_addr EXCEPT ![0] =
                            Addr!set_type(Addr!copy_keypair_addr(Addr!Zero, wots_addr'), Addr!Type.forstree)]
  BY DEF Addr!VerifyBegin
<1>3. d \in MessageDigests  BY <1>0 DEF Addr!TypeOK
<1>4. aop' = [name |-> "verify", wide |-> FALSE] /\ ops' = ops + 1 /\ ops < MaxOps
  BY <1>1 DEF Addr!Begin
<1>5. /\ Is(wots_addr', Subtree(0, d.tree), Addr!Type.wots, Pair(d.idx_leaf), NoPad, 0, Mid(0), 0)
      /\ Is(tree_addr', Subtree(0, 0), Addr!Type.hashtree, Pair(0), NoPad, 0, Mid(0), 0)
      /\ Is(fors_pk_addr', Subtree(0, d.tree), Addr!Type.forspk, Pair(d.idx_leaf), NoPad, 0, Mid(0), 0)
      /\ tree' = d.tree /\ idx_leaf' = d.idx_leaf /\ ai' = 0 /\ digest' = d
      /\ d.tree \in 0 .. Addr!Pow2[TREE_HEIGHT * (D - 1)] - 1
      /\ d.idx_leaf \in 0 .. Addr!Pow2[TREE_HEIGHT] - 1
  BY <1>2, <1>3, OpenBuffers
<1>6. Is(wots_pk_addr', Subtree(0, 0), Addr!Type.wotspk, Pair(0), NoPad, 0, Mid(0), 0)
  BY <1>1, SetType, TypeNumbers, ZeroIs DEF Is
<1>7. node_addr' \in [Addr!Lanes -> Addr!Address] /\ SubOf(node_addr'[0]) = Subtree(0, d.tree)
      /\ TreeBuffer(node_addr'[0], Addr!Type.forstree, d.idx_leaf)
  <2> DEFINE a == Addr!copy_keypair_addr(Addr!Zero, wots_addr')
             b == Addr!set_type(a, Addr!Type.forstree)
  <2>1. Is(a, Subtree(0, d.tree), 0, Pair(d.idx_leaf), NoPad, 0, Mid(0), 0)
    BY <1>5, ZeroIs, CopyPair DEF Is
  <2>2. node_addr' = [node_addr EXCEPT ![0] = b]  BY <1>2
  <2> HIDE DEF a
  <2>3. Is(b, Subtree(0, d.tree), Addr!Type.forstree, Pair(d.idx_leaf), NoPad, 0, Mid(0), 0)
    BY <2>1, SetType, TypeNumbers DEF Is
  <2> HIDE DEF b
  <2>4. node_addr \in [Addr!Lanes -> Addr!Address] /\ 0 \in Addr!Lanes
    BY <1>0 DEF Addr!TypeOK, Addr!Lanes
  <2>5. node_addr'[0] = b  BY <2>2, <2>4
  <2>6. node_addr' \in [Addr!Lanes -> Addr!Address]  BY <2>2, <2>3, <2>4 DEF Is
  <2> QED  BY <2>3, <2>5, <2>6 DEF Is, TreeBuffer
<1>8. Recorded(log \cup fresh)' /\ fresh' = {}  BY <1>0, <1>1, RecordedNone
<1>9. Addr!TypeOK'
  <2>1. ops' \in 0 .. MaxOps  BY <1>0, <1>4, AddrSizes DEF Addr!TypeOK
  <2>2. wots_addr' \in Addr!Address /\ tree_addr' \in Addr!Address /\ fors_pk_addr' \in Addr!Address
        /\ wots_pk_addr' \in Addr!Address  BY <1>5, <1>6 DEF Is
  <2> QED  BY <1>0, <1>1, <1>3, <1>4, <1>5, <1>7, <1>8, <2>1, <2>2 DEF Addr!TypeOK
<1>10. Places'
  <2>1. 0 < FORS_SIG_TREES  BY AddrSizes
  <2> QED  BY <1>1, <1>3, <1>4, <1>5, <2>1 DEF Places, InTree, InLeaf, InFors
<1>11. TreeBuffers'  BY <1>1 DEF TreeBuffers, InTree
<1>12. ForsBuffers'
  <2>1. SubOf(wots_addr') = Subtree(0, d.tree) /\ PairOf(wots_addr') = Pair(d.idx_leaf)  BY <1>5 DEF Is
  <2> QED  BY <1>1, <1>4, <1>5, <1>7, <2>1 DEF ForsBuffers, InFors, InLeaf
<1>13. LayerBuffers'
  <2>1. /\ TypeOf(wots_addr') = Addr!Type.wots /\ PadOf(wots_addr') = NoPad /\ MidOf(wots_addr') = Mid(0)
        /\ TreeBuffer(tree_addr', Addr!Type.hashtree, 0) /\ PkBuffer(wots_pk_addr')
    BY <1>5, <1>6 DEF Is, TreeBuffer, PkBuffer
  <2> QED  BY <1>1, <1>4, <2>1 DEF LayerBuffers
<1> QED  BY <1>8, <1>9, <1>10, <1>11, <1>12, <1>13 DEF AddrInv

\* compute_root: the address of a node on the path.
LEMMA PathAddress ==
    ASSUME Addr!AddressAssumption, NEW a \in Addr!Address, NEW s, NEW x, NEW p,
           SubOf(a) = s, TreeBuffer(a, x, p),
           NEW lf \in Nat, NEW offset \in Nat, NEW l \in 0 .. BYTE - 1
    PROVE  /\ Addr!PathIndex(lf, offset, l) \in 0 .. lf + offset
           /\ Is(Addr!PathAddr(a, lf, offset, l), s, x, Pair(p), NoPad, l,
                 Mid(Addr!PathIndex(lf, offset, l)), Low(Addr!PathIndex(lf, offset, l)))
<1>1. l \in Nat /\ l \in Int /\ Low(l) = l  BY AddrSizes, SmallIndex
<1>2. Addr!Shr(lf, l) \in 0 .. lf /\ Addr!Shr(offset, l) \in 0 .. offset  BY <1>1, Shifts
<1>3. Addr!PathIndex(lf, offset, l) \in 0 .. lf + offset  BY <1>2 DEF Addr!PathIndex
<1>4. Addr!PathIndex(lf, offset, l) \in Int  BY <1>3
<1> DEFINE b == Addr!set_tree_height(a, l)
<1>5. Is(b, s, x, Pair(p), NoPad, l, MidOf(a), LowOf(a))
  BY <1>1, SetUp DEF Is, TreeBuffer
<1>6. Addr!PathAddr(a, lf, offset, l) = Addr!set_tree_index(b, Addr!PathIndex(lf, offset, l))
  BY DEF Addr!PathAddr
<1> HIDE DEF b
<1>7. Is(Addr!PathAddr(a, lf, offset, l), s, x, Pair(p), NoPad, l,
         Mid(Addr!PathIndex(lf, offset, l)), Low(Addr!PathIndex(lf, offset, l)))
  BY <1>4, <1>5, <1>6, SetIndex DEF Is
<1> QED  BY <1>3, <1>7

LEMMA VerifyForsTreeKeeps == ASSUME Addr!AddressAssumption, AddrInv, Addr!VerifyForsTree PROVE AddrInv'
<1>0. Addr!TypeOK /\ Places /\ ForsBuffers /\ LayerBuffers /\ Recorded(log \cup fresh)  BY DEF AddrInv
<1> DEFINE index == digest.indices[ai]
           lf == Addr!LeafAddr(node_addr[0], index + Addr!ForsOffset)
           role(l) == Addr!Role("forstree", 0, tree, idx_leaf, l, Addr!PathIndex(index, Addr!ForsOffset, l))
<1>1. /\ apc = "fors" /\ aop.name = "verify"
      /\ Addr!Hash({Addr!Call(role(0), lf)}
              \cup {Addr!Call(role(l), Addr!PathAddr(lf, index, Addr!ForsOffset, l)) : l \in 1 .. FORS_HEIGHT})
      /\ node_addr' = [node_addr EXCEPT ![0] = Addr!PathAddr(lf, index, Addr!ForsOffset, FORS_HEIGHT)]
      /\ ai' = ai + 1 /\ apc' = IF ai = FORS_SIG_TREES - 1 THEN "forspk" ELSE "fors"
      /\ UNCHANGED <<Addr!callVars, tree, idx_leaf, idx, ac, Addr!addrs, leaf_addr, pk_addr>>
  BY DEF Addr!VerifyForsTree
<1>2. UNCHANGED <<aop, ops, digest, asigned, wots_addr, tree_addr, wots_pk_addr, fors_pk_addr>>
  BY <1>1 DEF Addr!callVars, Addr!addrs
<1>3. digest \in MessageDigests /\ ai < FORS_SIG_TREES  BY <1>0, <1>1 DEF Places, InFors
<1>4. index \in Nat /\ index + Addr!ForsOffset \in 0 .. Addr!Power[4] - 1 /\ Addr!ForsOffset \in Nat
  BY <1>0, <1>3, SelectedLeaf, ForsRange
<1> HIDE DEF index
<1>5. 0 \in Addr!Lanes /\ node_addr[0] \in Addr!Address /\ node_addr \in [Addr!Lanes -> Addr!Address]
      /\ SubOf(node_addr[0]) = Subtree(0, tree)
      /\ TreeBuffer(node_addr[0], Addr!Type.forstree, idx_leaf)
  BY <1>0, <1>1 DEF Addr!TypeOK, Addr!Lanes, ForsBuffers
<1>6. Addr!PathIndex(index, Addr!ForsOffset, 0) = index + Addr!ForsOffset
  <2>1. \A x \in Nat : x \div 1 = x  OBVIOUS
  <2> QED  BY <1>4, <2>1, AddrPow2 DEF Addr!PathIndex, Addr!Shr
<1>7. Is(lf, Subtree(0, tree), Addr!Type.forstree, Pair(idx_leaf), NoPad, 0, Mid(index + Addr!ForsOffset),
         Low(index + Addr!ForsOffset))
  <2> DEFINE a == Addr!set_tree_height(node_addr[0], 0)
  <2>1. Is(a, Subtree(0, tree), Addr!Type.forstree, Pair(idx_leaf), NoPad, 0, MidOf(node_addr[0]),
           LowOf(node_addr[0]))
    BY <1>5, SetUp, SmallZero DEF Is, TreeBuffer
  <2>2. lf = Addr!set_tree_index(a, index + Addr!ForsOffset)  BY DEF Addr!LeafAddr
  <2> HIDE DEF a, lf
  <2>3. index + Addr!ForsOffset \in Int  BY <1>4
  <2> QED  BY <2>1, <2>2, <2>3, SetIndex DEF Is
<1> HIDE DEF lf
<1>8. ASSUME NEW l \in 0 .. FORS_HEIGHT
      PROVE  /\ l \in 0 .. BYTE - 1 /\ Addr!PathIndex(index, Addr!ForsOffset, l) \in 0 .. Addr!Power[4] - 1
             /\ Is(Addr!PathAddr(lf, index, Addr!ForsOffset, l), Subtree(0, tree), Addr!Type.forstree,
                   Pair(idx_leaf), NoPad, l,
                   Mid(Addr!PathIndex(index, Addr!ForsOffset, l)), Low(Addr!PathIndex(index, Addr!ForsOffset, l)))
  <2>1. l \in 0 .. BYTE - 1  BY AddrSizes
  <2>2. /\ Addr!PathIndex(index, Addr!ForsOffset, l) \in 0 .. index + Addr!ForsOffset
        /\ Is(Addr!PathAddr(lf, index, Addr!ForsOffset, l), Subtree(0, tree), Addr!Type.forstree,
              Pair(idx_leaf), NoPad, l,
              Mid(Addr!PathIndex(index, Addr!ForsOffset, l)), Low(Addr!PathIndex(index, Addr!ForsOffset, l)))
    <3>1. lf \in Addr!Address /\ SubOf(lf) = Subtree(0, tree)
          /\ TreeBuffer(lf, Addr!Type.forstree, idx_leaf)  BY <1>7 DEF Is, TreeBuffer
    <3> QED  BY <1>4, <2>1, <3>1, PathAddress
  <2>3. Addr!PathIndex(index, Addr!ForsOffset, l) \in 0 .. Addr!Power[4] - 1
    <3>1. Addr!Power[4] \in Nat  BY Powers
    <3> QED  BY <1>4, <2>2, <3>1
  <2> QED  BY <2>1, <2>2, <2>3
<1>9. FORS_HEIGHT \in Nat /\ idx_leaf \in 0 .. Addr!Power[4] - 1 /\ tree \in 0 .. Addr!Power[8] - 1
      /\ 0 \in 0 .. BYTE - 1 /\ "forstree" \in DOMAIN Addr!Type /\ Addr!Type["forstree"] = Addr!Type.forstree
  BY <1>0, AddrSizes, TypeFacts, SmallZero, TypeNumbers
<1>10. Good(Addr!Call(role(0), lf))
  <2>1. Addr!PathIndex(index, Addr!ForsOffset, 0) \in 0 .. Addr!Power[4] - 1  BY <1>4, <1>6
  <2>2. Is(lf, Subtree(0, tree), Addr!Type["forstree"], Pair(idx_leaf), NoPad, 0,
           Mid(Addr!PathIndex(index, Addr!ForsOffset, 0)), Low(Addr!PathIndex(index, Addr!ForsOffset, 0)))
    BY <1>6, <1>7, <1>9
  <2> QED  BY <1>9, <2>1, <2>2, GoodCall
<1>11. ASSUME NEW l \in 1 .. FORS_HEIGHT
       PROVE  Good(Addr!Call(role(l), Addr!PathAddr(lf, index, Addr!ForsOffset, l)))
  <2>1. l \in 0 .. FORS_HEIGHT  OBVIOUS
  <2> QED  BY <1>8, <1>9, <2>1, GoodCall
<1> HIDE DEF role
<1>12. Recorded(log \cup fresh)' /\ Recorded(fresh')
  <2>1. Recorded(fresh') /\ log' = log \cup fresh  BY <1>1, <1>10, <1>11 DEF Addr!Hash, Recorded
  <2> QED  BY <1>0, <2>1, RecordedMore
<1>13. node_addr' \in [Addr!Lanes -> Addr!Address] /\ SubOf(node_addr'[0]) = Subtree(0, tree)
       /\ TreeBuffer(node_addr'[0], Addr!Type.forstree, idx_leaf)
  <2> DEFINE a == Addr!PathAddr(lf, index, Addr!ForsOffset, FORS_HEIGHT)
  <2>1. a \in Addr!Address /\ SubOf(a) = Subtree(0, tree) /\ TreeBuffer(a, Addr!Type.forstree, idx_leaf)
    <3>1. FORS_HEIGHT \in 0 .. FORS_HEIGHT  BY <1>9
    <3> QED  BY <1>8, <3>1 DEF Is, TreeBuffer
  <2>2. node_addr' = [node_addr EXCEPT ![0] = a]  BY <1>1
  <2> HIDE DEF a
  <2>3. node_addr'[0] = a /\ node_addr' \in [Addr!Lanes -> Addr!Address]  BY <1>5, <2>1, <2>2
  <2> QED  BY <2>1, <2>3
<1>14. ai' \in Nat /\ apc' \in {"fors", "forspk"} /\ (apc' = "fors" => ai' < FORS_SIG_TREES)
  <2>1. ai \in Nat /\ FORS_SIG_TREES \in Nat  BY <1>0, TypeFacts, AddrSizes
  <2> QED  BY <1>1, <1>3, <2>1
<1>15. Addr!TypeOK'
  <2>2. \A e \in fresh' : e.addr \in Addr!Address  BY <1>12 DEF Recorded, Good, Named, Is
  <2> QED  BY <1>0, <1>1, <1>2, <1>13, <1>14, <2>2 DEF Addr!TypeOK
<1>16. Places'  BY <1>0, <1>1, <1>2, <1>3, <1>14 DEF Places, InTree, InLeaf, InFors
<1>17. TreeBuffers'  BY <1>14 DEF TreeBuffers, InTree
<1>18. ForsBuffers'  BY <1>0, <1>1, <1>2, <1>13, <1>14 DEF ForsBuffers, InFors, InLeaf
<1>19. LayerBuffers'  BY <1>0, <1>1, <1>2, <1>14 DEF LayerBuffers
<1> QED  BY <1>12, <1>15, <1>16, <1>17, <1>18, <1>19 DEF AddrInv

LEMMA VerifyLayerKeeps == ASSUME Addr!AddressAssumption, AddrInv, Addr!VerifyLayer PROVE AddrInv'
<1>0. Addr!TypeOK /\ Places /\ LayerBuffers /\ Recorded(log \cup fresh)  BY DEF AddrInv
<1>1. /\ apc = "layer" /\ aop.name = "verify" /\ tree_addr' = Addr!LayerTree /\ wots_addr' = Addr!LayerWots
      /\ wots_pk_addr' = Addr!copy_keypair_addr(wots_pk_addr, Addr!LayerWots)
      /\ ac' = 0 /\ apc' = "chains" /\ Addr!NoHash
      /\ UNCHANGED <<Addr!callVars, tree, idx_leaf, ai, idx, fors_pk_addr, Addr!laneAddrs>>
  BY DEF Addr!VerifyLayer
<1>2. UNCHANGED <<aop, ops, digest, asigned, node_addr, leaf_addr, pk_addr>>
  BY <1>1 DEF Addr!callVars, Addr!laneAddrs
<1>3. /\ ai < D
      /\ Is(Addr!LayerTree, Subtree(ai, tree), Addr!Type.hashtree, Pair(0), NoPad, UpOf(tree_addr),
            MidOf(tree_addr), LowOf(tree_addr))
      /\ Is(Addr!LayerWots, Subtree(ai, tree), Addr!Type.wots, Pair(idx_leaf), NoPad, UpOf(wots_addr),
            Mid(0), LowOf(wots_addr))
  BY <1>1, LayerAddresses
<1>4. Is(wots_pk_addr', Subtree(ai, tree), Addr!Type.wotspk, Pair(idx_leaf), NoPad, 0, Mid(0), 0)
  <2>1. PkBuffer(wots_pk_addr) /\ wots_pk_addr \in Addr!Address
    BY <1>0, <1>1, TypeFacts DEF LayerBuffers
  <2> QED  BY <1>1, <1>3, <2>1, CopyPair DEF Is, PkBuffer
<1>5. Recorded(log \cup fresh)' /\ fresh' = {}  BY <1>0, <1>1, RecordedNone
<1>6. Addr!TypeOK'
  <2>1. wots_addr' \in Addr!Address /\ tree_addr' \in Addr!Address /\ wots_pk_addr' \in Addr!Address
    BY <1>1, <1>3, <1>4 DEF Is
  <2>2. 0 \in 0 .. WOTS_LEN  BY AddrSizes
  <2> QED  BY <1>0, <1>1, <1>2, <1>5, <2>1, <2>2 DEF Addr!TypeOK
<1>7. Places'  BY <1>0, <1>1, <1>2, <1>3 DEF Places, InTree, InLeaf, InFors
<1>8. TreeBuffers' /\ ForsBuffers'  BY <1>1 DEF TreeBuffers, ForsBuffers, InTree, InFors, InLeaf
<1>9. LayerBuffers'
  BY <1>1, <1>2, <1>3, <1>4 DEF LayerBuffers, Is, TreeBuffer, PkBuffer
<1> QED  BY <1>5, <1>6, <1>7, <1>8, <1>9 DEF AddrInv

LEMMA VerifyChainKeeps == ASSUME Addr!AddressAssumption, AddrInv, Addr!VerifyChain PROVE AddrInv'
<1>0. Addr!TypeOK /\ Places /\ LayerBuffers /\ Recorded(log \cup fresh)  BY DEF AddrInv
<1> DEFINE chain == Addr!set_chain_addr(wots_addr, ac)
<1>1. /\ apc = "chains" /\ ac < WOTS_LEN /\ ac' = ac + 1
      /\ UNCHANGED <<apc, Addr!callVars, tree, idx_leaf, ai, idx, tree_addr, wots_pk_addr, fors_pk_addr,
                     Addr!laneAddrs>>
  BY DEF Addr!VerifyChain
<1>2. UNCHANGED <<aop, ops, digest, asigned, node_addr, leaf_addr, pk_addr>>
  BY <1>1 DEF Addr!callVars, Addr!laneAddrs
<1>3. PICK lens \in Lengths :
        /\ Addr!Hash({Addr!Call(Addr!Role("wots", ai, tree, idx_leaf, ac, pos), Addr!set_hash_addr(chain, pos)) :
                   pos \in Addr!ChainSteps(lens[ac])})
        /\ wots_addr' = IF Addr!ChainSteps(lens[ac]) = {} THEN chain ELSE Addr!set_hash_addr(chain, WOTS_W - 2)
  BY DEF Addr!VerifyChain
<1>4. aop.name = "verify" /\ ai < D  BY <1>0, <1>1 DEF Places
<1>5. /\ SubOf(wots_addr) = Subtree(ai, tree) /\ PairOf(wots_addr) = Pair(idx_leaf)
      /\ TypeOf(wots_addr) = Addr!Type.wots /\ PadOf(wots_addr) = NoPad /\ MidOf(wots_addr) = Mid(0)
  BY <1>0, <1>1, <1>4 DEF LayerBuffers
<1>6. /\ ai \in 0 .. BYTE - 1 /\ tree \in 0 .. Addr!Power[8] - 1 /\ idx_leaf \in 0 .. Addr!Power[4] - 1
      /\ ac \in 0 .. BYTE - 1 /\ ac \in 0 .. WOTS_LEN - 1 /\ ac \in Int /\ wots_addr \in Addr!Address
      /\ WOTS_W - 2 \in 0 .. BYTE - 1 /\ WOTS_W \in Nat /\ BYTE \in Nat
  BY <1>0, <1>1, <1>4, AddrSizes, TypeFacts
<1>7. Is(chain, Subtree(ai, tree), Addr!Type.wots, Pair(idx_leaf), NoPad, ac, Mid(0), LowOf(wots_addr))
  BY <1>5, <1>6, SetUp, SmallIndex DEF Is
<1> HIDE DEF chain
<1>8. BYTE <= Addr!Power[4] /\ Addr!Power[4] \in Nat  BY ByteBelow
<1>9. ASSUME NEW pos \in 0 .. WOTS_W - 2
      PROVE  Is(Addr!set_hash_addr(chain, pos), Subtree(ai, tree), Addr!Type["wots"], Pair(idx_leaf), NoPad, ac,
                Mid(pos), Low(pos)) /\ Mid(pos) = Mid(0) /\ pos \in 0 .. Addr!Power[4] - 1
  <2>1. pos \in 0 .. BYTE - 1 /\ pos \in Int /\ pos \in 0 .. Addr!Power[4] - 1  BY <1>6, <1>8
  <2>2. Mid(pos) = Mid(0)  BY <2>1, SmallIndex
  <2>3. Is(Addr!set_hash_addr(chain, pos), Subtree(ai, tree), Addr!Type.wots, Pair(idx_leaf), NoPad, ac,
           Mid(0), Low(pos))  BY <1>7, <2>1, SetHash DEF Is
  <2> QED  BY <2>1, <2>2, <2>3, TypeNumbers
<1>10. Addr!ChainSteps(lens[ac]) \subseteq 0 .. WOTS_W - 2
  <2>1. lens[ac] \in 0 .. WOTS_W - 1  BY <1>6 DEF Addr!AddressAssumption
  <2> QED  BY <1>6, <2>1 DEF Addr!ChainSteps
<1>11. ASSUME NEW pos \in Addr!ChainSteps(lens[ac])
       PROVE  Good(Addr!Call(Addr!Role("wots", ai, tree, idx_leaf, ac, pos), Addr!set_hash_addr(chain, pos)))
  <2>1. pos \in 0 .. WOTS_W - 2 /\ "wots" \in DOMAIN Addr!Type  BY <1>10, TypeNumbers
  <2> QED  BY <1>6, <1>9, <2>1, GoodCall
<1>12. Recorded(log \cup fresh)' /\ Recorded(fresh')
  <2>1. Recorded(fresh') /\ log' = log \cup fresh  BY <1>3, <1>11 DEF Addr!Hash, Recorded
  <2> QED  BY <1>0, <2>1, RecordedMore
<1>13. /\ wots_addr' \in Addr!Address
       /\ SubOf(wots_addr') = Subtree(ai, tree) /\ PairOf(wots_addr') = Pair(idx_leaf)
       /\ TypeOf(wots_addr') = Addr!Type.wots /\ PadOf(wots_addr') = NoPad /\ MidOf(wots_addr') = Mid(0)
  <2>1. CASE wots_addr' = chain  BY <1>7, <2>1 DEF Is
  <2>2. CASE wots_addr' = Addr!set_hash_addr(chain, WOTS_W - 2)
    <3>1. WOTS_W - 2 \in 0 .. WOTS_W - 2  BY <1>6
    <3> QED  BY <1>9, <2>2, <3>1, TypeNumbers DEF Is
  <2> QED  BY <1>3, <2>1, <2>2
<1>14. Addr!TypeOK'
  <2>1. ac' \in 0 .. WOTS_LEN  BY <1>1, <1>6, AddrSizes
  <2>2. \A e \in fresh' : e.addr \in Addr!Address  BY <1>12 DEF Recorded, Good, Named, Is
  <2> QED  BY <1>0, <1>1, <1>2, <1>13, <2>1, <2>2 DEF Addr!TypeOK
<1>15. Places'  BY <1>0, <1>1, <1>2 DEF Places, InTree, InLeaf, InFors
<1>16. TreeBuffers' /\ ForsBuffers'  BY <1>1 DEF TreeBuffers, ForsBuffers, InTree, InFors, InLeaf
<1>17. LayerBuffers'  BY <1>0, <1>1, <1>2, <1>13 DEF LayerBuffers
<1> QED  BY <1>12, <1>14, <1>15, <1>16, <1>17 DEF AddrInv

LEMMA VerifyRootKeeps == ASSUME Addr!AddressAssumption, AddrInv, Addr!VerifyRoot PROVE AddrInv'
<1>0. Addr!TypeOK /\ Places /\ LayerBuffers /\ Recorded(log \cup fresh)  BY DEF AddrInv
<1>1. /\ apc = "chains"
      /\ Addr!Hash({Addr!Call(Addr!Role("wotspk", ai, tree, idx_leaf, 0, 0), wots_pk_addr)}
              \cup {Addr!Call(Addr!Role("hashtree", ai, tree, 0, l, Addr!PathIndex(idx_leaf, 0, l)),
                         Addr!PathAddr(tree_addr, idx_leaf, 0, l)) : l \in 1 .. TREE_HEIGHT})
      /\ tree_addr' = Addr!PathAddr(tree_addr, idx_leaf, 0, TREE_HEIGHT)
      /\ Addr!NextLayer /\ apc' = IF ai = D - 1 THEN "idle" ELSE "layer"
      /\ UNCHANGED <<Addr!callVars, idx, ac, wots_addr, wots_pk_addr, fors_pk_addr, Addr!laneAddrs>>
  BY DEF Addr!VerifyRoot
<1>2. UNCHANGED <<aop, ops, digest, asigned, node_addr, leaf_addr, pk_addr>>
  BY <1>1 DEF Addr!callVars, Addr!laneAddrs
<1>3. aop.name = "verify" /\ ai < D  BY <1>0, <1>1 DEF Places
<1>4. /\ SubOf(wots_pk_addr) = Subtree(ai, tree) /\ PairOf(wots_pk_addr) = Pair(idx_leaf)
      /\ PkBuffer(wots_pk_addr)
      /\ SubOf(tree_addr) = Subtree(ai, tree) /\ TreeBuffer(tree_addr, Addr!Type.hashtree, 0)
  BY <1>0, <1>1, <1>3 DEF LayerBuffers
<1>5. /\ ai \in 0 .. BYTE - 1 /\ tree \in 0 .. Addr!Power[8] - 1 /\ idx_leaf \in 0 .. Addr!Power[4] - 1
      /\ tree_addr \in Addr!Address /\ wots_pk_addr \in Addr!Address
      /\ 0 \in 0 .. BYTE - 1 /\ 0 \in 0 .. Addr!Power[4] - 1 /\ Low(0) = 0 /\ Addr!Power[4] \in Nat
      /\ TREE_HEIGHT \in Nat
  BY <1>0, <1>3, AddrSizes, TypeFacts, SmallZero, Powers
<1>6. Good(Addr!Call(Addr!Role("wotspk", ai, tree, idx_leaf, 0, 0), wots_pk_addr))
  <2>1. Is(wots_pk_addr, Subtree(ai, tree), Addr!Type["wotspk"], Pair(idx_leaf), NoPad, 0, Mid(0), Low(0))
        /\ "wotspk" \in DOMAIN Addr!Type
    BY <1>4, <1>5, TypeNumbers DEF Is, PkBuffer
  <2> QED  BY <1>5, <2>1, GoodCall
<1>7. ASSUME NEW l \in 1 .. TREE_HEIGHT
      PROVE  /\ l \in 0 .. BYTE - 1 /\ Addr!PathIndex(idx_leaf, 0, l) \in 0 .. Addr!Power[4] - 1
             /\ Is(Addr!PathAddr(tree_addr, idx_leaf, 0, l), Subtree(ai, tree), Addr!Type.hashtree, Pair(0),
                   NoPad, l, Mid(Addr!PathIndex(idx_leaf, 0, l)), Low(Addr!PathIndex(idx_leaf, 0, l)))
  <2>1. l \in 0 .. BYTE - 1 /\ idx_leaf \in Nat  BY <1>5, AddrSizes
  <2>2. /\ Addr!PathIndex(idx_leaf, 0, l) \in 0 .. idx_leaf + 0
        /\ Is(Addr!PathAddr(tree_addr, idx_leaf, 0, l), Subtree(ai, tree), Addr!Type.hashtree, Pair(0),
              NoPad, l, Mid(Addr!PathIndex(idx_leaf, 0, l)), Low(Addr!PathIndex(idx_leaf, 0, l)))
    BY <1>4, <1>5, <2>1, PathAddress
  <2>3. Addr!PathIndex(idx_leaf, 0, l) \in 0 .. Addr!Power[4] - 1  BY <1>5, <2>2
  <2> QED  BY <2>1, <2>2, <2>3
<1>8. ASSUME NEW l \in 1 .. TREE_HEIGHT
      PROVE  Good(Addr!Call(Addr!Role("hashtree", ai, tree, 0, l, Addr!PathIndex(idx_leaf, 0, l)),
                       Addr!PathAddr(tree_addr, idx_leaf, 0, l)))
  <2>1. "hashtree" \in DOMAIN Addr!Type /\ Addr!Type["hashtree"] = Addr!Type.hashtree  BY TypeNumbers
  <2> QED  BY <1>5, <1>7, <2>1, GoodCall
<1>9. Recorded(log \cup fresh)' /\ Recorded(fresh')
  <2>1. Recorded(fresh') /\ log' = log \cup fresh  BY <1>1, <1>6, <1>8 DEF Addr!Hash, Recorded
  <2> QED  BY <1>0, <2>1, RecordedMore
<1>10. tree_addr' \in Addr!Address /\ TreeBuffer(tree_addr', Addr!Type.hashtree, 0)
  <2>1. TREE_HEIGHT \in 1 .. TREE_HEIGHT  BY AddrSizes
  <2> QED  BY <1>1, <1>7, <2>1 DEF Is, TreeBuffer
<1>11. /\ tree' \in 0 .. Addr!Pow2[TREE_HEIGHT * (D - 1)] - 1
       /\ idx_leaf' \in 0 .. Addr!Pow2[TREE_HEIGHT] - 1 /\ ai' = ai + 1 /\ ai' \in Nat
  BY <1>0, <1>1, NextLayerTypes
<1>12. apc' \in {"idle", "layer"} /\ (apc' = "layer" => ai' < D)
  BY <1>0, <1>1, <1>3, <1>11, AddrSizes, TypeFacts
<1>13. Addr!TypeOK'
  <2>2. \A e \in fresh' : e.addr \in Addr!Address  BY <1>9 DEF Recorded, Good, Named, Is
  <2> QED  BY <1>0, <1>1, <1>2, <1>10, <1>11, <1>12, <2>2 DEF Addr!TypeOK
<1>14. Places'  BY <1>0, <1>1, <1>2, <1>3, <1>12 DEF Places, InTree, InLeaf, InFors
<1>15. TreeBuffers' /\ ForsBuffers'  BY <1>12 DEF TreeBuffers, ForsBuffers, InTree, InFors, InLeaf
<1>16. LayerBuffers'  BY <1>0, <1>1, <1>2, <1>3, <1>10, <1>12 DEF LayerBuffers
<1> QED  BY <1>9, <1>13, <1>14, <1>15, <1>16 DEF AddrInv

LEMMA AddrInvStep ==
    ASSUME Addr!AddressAssumption, AddrInv, Addr!Next \/ UNCHANGED Addr!vars
    PROVE  AddrInv'
<1>1. CASE UNCHANGED Addr!vars
  <2>1. UNCHANGED <<apc, aop, ops, digest, asigned, tree, idx_leaf, ai, idx, ac, wots_addr, tree_addr,
                    wots_pk_addr, fors_pk_addr, node_addr, leaf_addr, pk_addr, fresh, log>>
    BY <1>1 DEF Addr!vars, Addr!callVars, Addr!addrs, Addr!laneAddrs
  <2>2. Addr!TypeOK' /\ Recorded(log \cup fresh)'  BY <2>1 DEF AddrInv, Addr!TypeOK, Recorded
  <2>3. Places'  BY <2>1 DEF AddrInv, Places, Addr!Last, Addr!Width, Addr!Wide
  <2>4. TreeBuffers' /\ ForsBuffers' /\ LayerBuffers'
    BY <2>1 DEF AddrInv, TreeBuffers, ForsBuffers, LayerBuffers, Addr!Leaf, Addr!Width, Addr!Wide
  <2> QED  BY <2>2, <2>3, <2>4 DEF AddrInv
<1>2. CASE Addr!Next
  BY <1>1, <1>2, KeyGenKeeps, WotsLeafKeeps, WotsChainKeeps, WotsPkKeeps, MerkleCombineKeeps,
     SignBeginKeeps, ForsTreeKeeps, ForsLeafKeeps, ForsCombineKeeps, ForsPkKeeps, SignLayerKeeps,
     VerifyBeginKeeps, VerifyForsTreeKeeps, VerifyLayerKeeps, VerifyChainKeeps, VerifyRootKeeps
     DEF Addr!Next, Addr!Finished
<1> QED  BY <1>1, <1>2

LEMMA AddrInvNames == ASSUME Addr!AddressAssumption, AddrInv PROVE Addr!AddressNamesRole
<1>1. Addr!TypeOK  BY DEF AddrInv
<1>2. ASSUME NEW new \in fresh, NEW old \in log \cup fresh
      PROVE  new.role = old.role <=> new.addr = old.addr
  <2>1. Good(new) /\ Good(old)  BY DEF AddrInv, Recorded
  <2> QED  BY <2>1, Separates
<1> QED  BY <1>1, <1>2 DEF Addr!AddressNamesRole

----------------------------------------------------------------------------
(* What the signer has hashed.                                             *)

Has(r) == \E e \in log \cup fresh : e.role = r

\* Where a digest's signature passes each layer: <<tree, idx_leaf>>.
Path(d) ==
    LET at[x \in 0 .. D] ==
          IF x = 0 THEN <<d.tree, d.idx_leaf>>
          ELSE <<Addr!Shr(at[x - 1][1], TREE_HEIGHT), at[x - 1][1] % Addr!Pow2[TREE_HEIGHT]>>
    IN  at

\* The nodes of which call g of gen_leaf is the last leaf.
CompletedAt(height, g) == {l \in 1 .. height : (g + 1) % Addr!Pow2[l] = 0 \/ g = Addr!Last(height)}
NodeAt(height, offset, g, l, j) == Addr!Width * Addr!Shr(g, l) + j - Addr!left_adj(height, l) + Addr!Shr(offset, l)

HasNodes(use, height, offset, layer, t, keypair, n) ==
    \A g \in 0 .. n - 1 : \A l \in CompletedAt(height, g) : \A j \in Addr!Real(height, l) :
       Has(Addr!Role(use, layer, t, keypair, l, NodeAt(height, offset, g, l, j)))

HasPath(use, height, offset, layer, t, keypair, lf) ==
    \A l \in 1 .. height : Has(Addr!Role(use, layer, t, keypair, l, Addr!PathIndex(lf, offset, l)))

HasChain(layer, t, keypair, cc) ==
    \A pos \in 0 .. WOTS_W - 2 : Has(Addr!Role("wots", layer, t, keypair, cc, pos))
HasKeyPair(layer, t, keypair) ==
    /\ \A cc \in 0 .. WOTS_LEN - 1 : HasChain(layer, t, keypair, cc)
    /\ Has(Addr!Role("wotspk", layer, t, keypair, 0, 0))

\* One FORS tree, one layer, and a whole signature.
HasFors(d, x) ==
    \A y \in 0 .. Addr!Pow2[FORS_HEIGHT] - 1 :
       /\ Has(Addr!Role("forstree", 0, d.tree, d.idx_leaf, 0, y + x * Addr!Pow2[FORS_HEIGHT]))
       /\ HasPath("forstree", FORS_HEIGHT, x * Addr!Pow2[FORS_HEIGHT], 0, d.tree, d.idx_leaf, y)
HasForsPk(d) == Has(Addr!Role("forspk", 0, d.tree, d.idx_leaf, 0, 0))
HasLayer(x, t, lf) ==
    HasKeyPair(x, t, lf) /\ HasPath("hashtree", TREE_HEIGHT, 0, x, t, 0, lf)
HasLayers(d, n) == \A x \in 0 .. n - 1 : HasLayer(x, Path(d)[x][1], Path(d)[x][2])
HasAll(d) ==
    (\A x \in 0 .. FORS_SIG_TREES - 1 : HasFors(d, x)) /\ HasForsPk(d) /\ HasLayers(d, D)

\* Where the call is on its digest's path.
OnPath ==
    /\ aop.name = "verify" => digest \in asigned
    /\ apc \in InFors \cup {"forspk"} => tree = digest.tree /\ idx_leaf = digest.idx_leaf
    /\ apc \in InTree \cup {"layer", "chains"} /\ aop.name \in {"sign", "verify"} =>
          <<tree, idx_leaf>> = Path(digest)[ai]

\* The calls of gen_leaf made so far for the tree in progress.
LeavesMade == IF apc \in {"combine", "forscombine"} THEN idx + 1 ELSE idx

ForsProgress ==
    aop.name = "sign" =>
      /\ apc \in InFors => \A x \in 0 .. ai - 1 : HasFors(digest, x)
      /\ apc \in InLeaf =>
           /\ \A g \in 0 .. LeavesMade - 1, j \in Addr!Used :
                 Has(Addr!Role("forstree", 0, tree, idx_leaf, 0, Addr!Width * g + j + Addr!ForsOffset))
           /\ HasNodes("forstree", FORS_HEIGHT, Addr!ForsOffset, 0, tree, idx_leaf, idx)
      /\ apc \in InTree \cup {"forspk", "layer"} =>
           \A x \in 0 .. FORS_SIG_TREES - 1 : HasFors(digest, x)
      /\ apc \in InTree \cup {"layer"} => HasForsPk(digest) /\ HasLayers(digest, ai)

TreeProgress ==
    /\ apc \in InTree =>
         /\ \A g \in 0 .. LeavesMade - 1, j \in Addr!Used : HasKeyPair(ai, tree, Addr!Width * g + j)
         /\ HasNodes("hashtree", TREE_HEIGHT, 0, ai, tree, 0, idx)
    /\ apc = "chain" => \A cc \in 0 .. ac - 1, j \in Addr!Used : HasChain(ai, tree, Addr!Leaf(j), cc)

SignedHas == \A d \in asigned : HasAll(d)
CallsShaped == \A e \in log \cup fresh : e = Addr!Call(e.role, e.addr)

RetraceInv ==
    OnPath /\ ForsProgress /\ TreeProgress /\ SignedHas /\ CallsShaped /\ Addr!VerifierRetraces

\* 1 << (l + m)
LEMMA Pow2Sum == \A l \in Nat, m \in Nat : Addr!Pow2[l + m] = Addr!Pow2[l] * Addr!Pow2[m]
<1> SUFFICES ASSUME NEW l \in Nat PROVE \A m \in Nat : Addr!Pow2[l + m] = Addr!Pow2[l] * Addr!Pow2[m]
  OBVIOUS
<1> DEFINE T == {m \in Nat : Addr!Pow2[l + m] = Addr!Pow2[l] * Addr!Pow2[m]}
<1>1. 0 \in T
  <2>1. Addr!Pow2[l] \in Nat /\ Addr!Pow2[0] = 1 /\ l + 0 = l  BY AddrPow2
  <2> QED  BY <2>1
<1>2. ASSUME NEW m \in Nat, m \in T PROVE m + 1 \in T
  <2>1. l + m \in Nat /\ l + (m + 1) = l + m + 1  OBVIOUS
  <2>2. Addr!Pow2[l + m + 1] = 2 * Addr!Pow2[l + m] /\ Addr!Pow2[m + 1] = 2 * Addr!Pow2[m]
        /\ Addr!Pow2[l] \in Nat /\ Addr!Pow2[m] \in Nat  BY <2>1, AddrPow2
  <2>3. Addr!Pow2[l + m] = Addr!Pow2[l] * Addr!Pow2[m]  BY <1>2
  <2>4. \A x \in Nat, y \in Nat : 2 * (x * y) = x * (2 * y)  OBVIOUS
  <2> QED  BY <2>1, <2>2, <2>3, <2>4
<1> HIDE DEF T
<1>3. Nat \subseteq T  BY <1>1, <1>2, Induct
<1> QED  BY <1>3 DEF T

\* Quotients below a product.
LEMMA DivBelow ==
    ASSUME NEW x \in Nat, NEW p \in Nat \ {0}, NEW n \in Nat, x < n * p
    PROVE  x \div p \in 0 .. n - 1
<1>1. PICK q \in Nat, r \in 0 .. p - 1 : q = x \div p /\ r = x % p /\ x = p * q + r  BY DivMod
<1>2. p * q < p * n
  <2>1. p * q \in Nat /\ p * n = n * p /\ n * p \in Nat  OBVIOUS
  <2> QED  BY <1>1, <2>1
<1>3. q < n  BY <1>2, MulLess
<1> QED  BY <1>1, <1>3

\* The last leaf below node m of level l.
LEMMA LastBelow ==
    ASSUME NEW m \in Nat, NEW l \in Nat
    PROVE  LET g == (m + 1) * Addr!Pow2[l] - 1
           IN  g \in Nat /\ Addr!Shr(g, l) = m /\ (g + 1) % Addr!Pow2[l] = 0
<1> DEFINE p == Addr!Pow2[l]
           g == (m + 1) * p - 1
<1>1. p \in Nat \ {0}  BY AddrPow2
<1> HIDE DEF p
<1>2. (m + 1) * p = m * p + p /\ m * p \in Nat  BY <1>1
<1>3. g \in Nat /\ g = p * m + (p - 1)
  <2>1. m * p = p * m  BY <1>1
  <2> QED  BY <1>1, <1>2, <2>1
<1>4. g \div p = m
  <2>1. PICK q \in Nat, r \in 0 .. p - 1 : q = g \div p /\ r = g % p /\ g = p * q + r
    BY <1>1, <1>3, DivMod
  <2>2. p - 1 \in 0 .. p - 1  BY <1>1
  <2>3. p * q + r = p * m + (p - 1)  BY <1>3, <2>1
  <2>4. q = m
    <3>1. CASE q < m
      <4>1. p * (q + 1) <= p * m
        <5>1. PICK u \in Nat : m = q + 1 + u
          <6>1. m - (q + 1) \in Nat  BY <3>1
          <6> QED  BY <6>1
        <5>2. p * m = p * (q + 1) + p * u /\ p * u \in Nat /\ p * (q + 1) \in Nat  BY <1>1, <5>1
        <5> QED  BY <5>2
      <4>2. p * (q + 1) = p * q + p /\ p * q \in Nat /\ p * m \in Nat  BY <1>1
      <4> QED  BY <1>1, <2>1, <2>3, <4>1, <4>2
    <3>2. CASE q > m
      <4>1. p * (m + 1) <= p * q
        <5>1. PICK u \in Nat : q = m + 1 + u
          <6>1. q - (m + 1) \in Nat  BY <3>2
          <6> QED  BY <6>1
        <5>2. p * q = p * (m + 1) + p * u /\ p * u \in Nat /\ p * (m + 1) \in Nat  BY <1>1, <5>1
        <5> QED  BY <5>2
      <4>2. p * (m + 1) = p * m + p /\ p * m \in Nat /\ p * q \in Nat  BY <1>1
      <4> QED  BY <1>1, <2>1, <2>3, <4>1, <4>2
    <3> QED  BY <3>1, <3>2
  <2> QED  BY <2>1, <2>4
<1>5. (g + 1) % p = 0
  <2>1. g + 1 = p * (m + 1) /\ p * (m + 1) \in Nat  BY <1>1, <1>2
  <2>2. (p * (m + 1)) \div p = m + 1  BY <1>1, DivExact
  <2>3. PICK q \in Nat, r \in 0 .. p - 1 :
           q = (g + 1) \div p /\ r = (g + 1) % p /\ g + 1 = p * q + r
    <3>1. g + 1 \in Nat  BY <1>3
    <3> HIDE DEF g
    <3> QED  BY <1>1, <3>1, DivMod
  <2>4. q = m + 1  BY <2>1, <2>2, <2>3
  <2>5. p * q = p * (m + 1) /\ p * q \in Nat  BY <1>1, <2>4
  <2> QED  BY <2>1, <2>3, <2>5
<1> QED  BY <1>3, <1>4, <1>5 DEF p, Addr!Shr

\* Every node on the way of a leaf to the root is made, in either build.
LEMMA NodeCovered ==
    ASSUME aop.wide \in BOOLEAN, NEW height \in Nat, height >= 3, NEW offset,
           NEW y \in 0 .. Addr!Pow2[height] - 1, NEW l \in 1 .. height
    PROVE  \E g \in 0 .. Addr!Last(height) :
             /\ l \in CompletedAt(height, g)
             /\ \E j \in Addr!Real(height, l) : NodeAt(height, offset, g, l, j) = Addr!PathIndex(y, offset, l)
<1> DEFINE z == Addr!Shr(y, l)
           p == Addr!Pow2[l]
           n == Addr!Pow2[height - l]
<1>1. /\ height - l \in Nat /\ l \in Nat /\ p \in Nat \ {0} /\ n \in Nat \ {0}
      /\ Addr!Pow2[height] = n * p /\ y \in Nat
  <2>1. height - l \in Nat /\ l \in Nat /\ (height - l) + l = height  OBVIOUS
  <2>2. p \in Nat \ {0} /\ n \in Nat \ {0} /\ Addr!Pow2[height] \in Nat  BY <2>1, AddrPow2
  <2>3. Addr!Pow2[height] = n * p  BY <2>1, Pow2Sum
  <2> HIDE DEF p, n
  <2> QED  BY <2>1, <2>2, <2>3
<1>2. z \in 0 .. n - 1
  <2>1. y < n * p  BY <1>1
  <2> HIDE DEF n
  <2> QED  BY <1>1, <2>1, DivBelow DEF Addr!Shr
<1>2a. z \in Nat
  <2> HIDE DEF z, n
  <2> QED  BY <1>1, <1>2
<1>3. ASSUME NEW g \in 0 .. Addr!Last(height), l \in CompletedAt(height, g),
             NEW j \in Addr!Real(height, l), Addr!Width * Addr!Shr(g, l) + j - Addr!left_adj(height, l) = z
      PROVE  NodeAt(height, offset, g, l, j) = Addr!PathIndex(y, offset, l)
  BY <1>3 DEF NodeAt, Addr!PathIndex
<1>4. CASE ~aop.wide
  <2> DEFINE g == (z + 1) * p - 1
  <2>1. Addr!Width = 1 /\ Addr!Used = {0} /\ Addr!left_adj(height, l) = 0 /\ Addr!Real(height, l) = {0}
    BY <1>4 DEF Addr!Width, Addr!Used, Addr!Wide, Addr!left_adj, Addr!Real
  <2>2. g \in Nat /\ Addr!Shr(g, l) = z /\ (g + 1) % Addr!Pow2[l] = 0
    <3> HIDE DEF z
    <3> QED  BY <1>1, <1>2a, LastBelow
  <2>3. g <= Addr!Last(height)
    <3>1. Addr!Last(height) = n * p - 1
      <4>1. n * p \in Nat  BY <1>1
      <4>2. \A x \in Nat : x \div 1 = x  OBVIOUS
      <4> QED  BY <1>1, <2>1, <4>1, <4>2 DEF Addr!Last
    <3>2. (z + 1) * p <= n * p
      <4> HIDE DEF z, n, p
      <4>1. PICK u \in Nat : n = z + 1 + u
        <5>1. n - (z + 1) \in Nat  BY <1>1, <1>2
        <5> QED  BY <1>1, <1>2, <5>1
      <4>2. n * p = (z + 1) * p + u * p /\ u * p \in Nat /\ (z + 1) * p \in Nat  BY <1>1, <1>2, <4>1
      <4> QED  BY <4>2
    <3>3. n * p \in Nat /\ (z + 1) * p \in Int
      <4> HIDE DEF z, n, p
      <4> QED  BY <1>1, <1>2
    <3> HIDE DEF z, n, p
    <3> QED  BY <3>1, <3>2, <3>3
  <2>4. Addr!Last(height) \in Int
    <3>1. Addr!Pow2[height] \in Nat  BY AddrPow2
    <3> QED  BY <2>1, <3>1 DEF Addr!Last
  <2>5. g \in 0 .. Addr!Last(height) /\ l \in CompletedAt(height, g)
    <3> HIDE DEF g
    <3> QED  BY <2>2, <2>3, <2>4 DEF CompletedAt
  <2>6. 0 \in Addr!Real(height, l) /\ Addr!Width * Addr!Shr(g, l) + 0 - Addr!left_adj(height, l) = z
    <3> HIDE DEF g, z, n
    <3> QED  BY <1>1, <1>2, <2>1, <2>2
  <2> HIDE DEF g, z, p, n
  <2> QED  BY <1>3, <2>5, <2>6
<1>5. CASE aop.wide
  <2>0. Addr!Width = 8 /\ Addr!Used = 0 .. 7  BY <1>5 DEF Addr!Width, Addr!Used, Addr!Wide, Addr!Lanes
  <2>1. height - 3 \in Nat /\ Addr!Pow2[height] = 8 * Addr!Pow2[height - 3] /\ Addr!Pow2[height - 3] \in Nat \ {0}
    BY Pow2Eight
  <2>2. Addr!Last(height) = Addr!Pow2[height - 3] - 1 /\ Addr!Last(height) \in Nat
    <3> DEFINE w == Addr!Pow2[height - 3]
    <3>1. \A x \in Nat : (8 * x) \div 8 = x  OBVIOUS
    <3>2. (8 * w) \div 8 = w /\ w \in Nat \ {0} /\ Addr!Last(height) = (8 * w) \div 8 - 1
      BY <2>0, <2>1, <3>1 DEF Addr!Last
    <3> HIDE DEF w
    <3>3. Addr!Last(height) = w - 1 /\ Addr!Last(height) \in Nat  BY <3>2
    <3> QED  BY <3>3 DEF w
  <2>3. CASE l <= height - 3
    <3> DEFINE m == z \div 8
               j == z % 8
               g == (m + 1) * p - 1
               v == Addr!Pow2[height - 3 - l]
    <3>1. Addr!left_adj(height, l) = 0 /\ Addr!Real(height, l) = 0 .. 7
      BY <2>0, <2>3 DEF Addr!left_adj, Addr!Real, Addr!Lanes
    <3>2. height - 3 - l \in Nat /\ v \in Nat \ {0} /\ Addr!Pow2[height - 3] = v * p /\ n = 8 * v
      <4>1. height - 3 - l \in Nat /\ height - 3 - l + l = height - 3
            /\ height - l >= 3 /\ height - l - 3 = height - 3 - l  BY <1>1, <2>3
      <4>2. Addr!Pow2[height - 3] = v * p  BY <1>1, <4>1, Pow2Sum
      <4>3. n = 8 * v
        <5>1. height - l \in Nat /\ height - l >= 3  BY <1>1, <4>1
        <5> QED  BY <4>1, <5>1, Pow2Eight
      <4> QED  BY <4>1, <4>2, <4>3, AddrPow2
    <3> HIDE DEF v
    <3>3. m \in 0 .. v - 1 /\ j \in 0 .. 7 /\ z = 8 * m + j
      <4> HIDE DEF z, n
      <4> QED  BY <1>2, <3>2
    <3> HIDE DEF m, j
    <3>4. g \in Nat /\ Addr!Shr(g, l) = m /\ (g + 1) % Addr!Pow2[l] = 0
      <4>1. m \in Nat  BY <3>2, <3>3
      <4> QED  BY <1>1, <4>1, LastBelow
    <3>5. g <= Addr!Last(height)
      <4> HIDE DEF p
      <4>1. PICK u \in Nat : v = m + 1 + u
        <5>1. v - (m + 1) \in Nat  BY <3>2, <3>3
        <5> QED  BY <3>2, <3>3, <5>1
      <4>2. v * p = (m + 1) * p + u * p /\ u * p \in Nat /\ (m + 1) * p \in Nat /\ v * p \in Nat
        BY <1>1, <3>2, <3>3, <4>1
      <4> QED  BY <2>2, <3>2, <4>2
    <3> HIDE DEF g
    <3>6. g \in 0 .. Addr!Last(height) /\ l \in CompletedAt(height, g)
      BY <2>2, <3>4, <3>5 DEF CompletedAt
    <3>7. j \in Addr!Real(height, l) /\ Addr!Width * Addr!Shr(g, l) + j - Addr!left_adj(height, l) = z
      <4> HIDE DEF z
      <4> QED  BY <2>0, <3>1, <3>2, <3>3, <3>4
    <3> HIDE DEF z, p, n
    <3> QED  BY <1>3, <3>6, <3>7
  <2>4. CASE l > height - 3
    <3> DEFINE g == Addr!Last(height)
               j == z + Addr!left_adj(height, l)
    <3>1. n \in {1, 2, 4} /\ Addr!left_adj(height, l) = 8 - n
      <4>1. height - l \in {0, 1, 2}  BY <1>1, <2>4
      <4>2. Addr!Pow2[0] = 1 /\ Addr!Pow2[0 + 1] = 2 * Addr!Pow2[0] /\ Addr!Pow2[1 + 1] = 2 * Addr!Pow2[1]
        BY AddrPow2
      <4>3. Addr!Pow2[0] = 1 /\ Addr!Pow2[1] = 2 /\ Addr!Pow2[2] = 4  BY <4>2
      <4> QED  BY <1>5, <2>4, <4>1, <4>3 DEF Addr!left_adj, Addr!Wide
    <3>2. j \in Addr!Real(height, l)
      <4> HIDE DEF z, n
      <4> QED  BY <1>2, <2>0, <3>1 DEF Addr!Real
    <3>3. Addr!Shr(g, l) = 0
      <4>1. g \in Nat /\ g < 1 * p
        <5>1. n * p = 8 * Addr!Pow2[height - 3]  BY <1>1, <2>1
        <5> DEFINE w == Addr!Pow2[height - 3]
        <5> HIDE DEF n, p, w
        <5>2. n * p = 8 * w /\ w \in Nat \ {0} /\ Addr!Last(height) = w - 1 /\ p \in Nat \ {0}
          BY <1>1, <2>1, <2>2, <5>1 DEF w
        <5>3. w <= p
          <6>1. CASE n = 1  BY <5>2, <6>1
          <6>2. CASE n = 2  BY <5>2, <6>2
          <6>3. CASE n = 4  BY <5>2, <6>3
          <6> QED  BY <3>1, <6>1, <6>2, <6>3
        <5> QED  BY <5>2, <5>3
      <4>2. g \div p \in 0 .. 1 - 1
        <5> HIDE DEF p, g
        <5> QED  BY <1>1, <4>1, DivBelow
      <4> QED  BY <4>2 DEF Addr!Shr
    <3>4. l \in CompletedAt(height, g)  BY DEF CompletedAt
    <3>5. Addr!Width * Addr!Shr(g, l) + j - Addr!left_adj(height, l) = z
      <4> HIDE DEF z, g, n
      <4> QED  BY <1>2, <1>1, <2>0, <3>1, <3>3
    <3>6. g \in 0 .. Addr!Last(height)  BY <2>2
    <3> HIDE DEF g, j, z, p, n
    <3> QED  BY <1>3, <3>2, <3>4, <3>5, <3>6
  <2> QED  BY <1>1, <2>3, <2>4
<1> QED  BY <1>4, <1>5

\* The leaves of a tree are those of the calls of gen_leaf.
LEMMA LeafCovered ==
    ASSUME aop.wide \in BOOLEAN, NEW height \in Nat, height >= 3, NEW y \in 0 .. Addr!Pow2[height] - 1
    PROVE  \E g \in 0 .. Addr!Last(height), j \in Addr!Used : Addr!Width * g + j = y
<1>1. Addr!Pow2[height] \in Nat /\ y \in Nat  BY AddrPow2
<1>2. CASE ~aop.wide
  <2>1. Addr!Width = 1 /\ Addr!Used = {0} /\ Addr!Last(height) = Addr!Pow2[height] - 1
    <3>1. \A x \in Nat : x \div 1 = x  OBVIOUS
    <3> QED  BY <1>1, <1>2, <3>1 DEF Addr!Width, Addr!Used, Addr!Wide, Addr!Last
  <2>2. y \in 0 .. Addr!Last(height) /\ 0 \in Addr!Used /\ Addr!Width * y + 0 = y  BY <1>1, <2>1
  <2> QED  BY <2>2
<1>3. CASE aop.wide
  <2> DEFINE g == y \div 8
             j == y % 8
  <2>1. Addr!Width = 8 /\ Addr!Used = 0 .. 7  BY <1>3 DEF Addr!Width, Addr!Used, Addr!Wide, Addr!Lanes
  <2>2. height - 3 \in Nat /\ Addr!Pow2[height] = 8 * Addr!Pow2[height - 3] /\ Addr!Pow2[height - 3] \in Nat \ {0}
    BY Pow2Eight
  <2> DEFINE w == Addr!Pow2[height - 3]
  <2>3. \A x \in Nat : (8 * x) \div 8 = x  OBVIOUS
  <2>4. Addr!Last(height) = w - 1 /\ w \in Nat \ {0} /\ y < 8 * w
    <3>1. Addr!Last(height) = (8 * w) \div 8 - 1  BY <2>1, <2>2 DEF Addr!Last
    <3> QED  BY <1>1, <2>2, <2>3, <3>1
  <2> HIDE DEF w
  <2>5. g \in 0 .. w - 1 /\ j \in 0 .. 7 /\ y = 8 * g + j  BY <1>1, <2>4
  <2> HIDE DEF g, j
  <2> QED  BY <2>1, <2>4, <2>5
<1> QED  BY <1>2, <1>3

LEMMA PathIs ==
    ASSUME Addr!AddressAssumption, NEW d \in MessageDigests
    PROVE  /\ Path(d)[0] = <<d.tree, d.idx_leaf>>
           /\ \A x \in 1 .. D : Path(d)[x] = <<Addr!Shr(Path(d)[x - 1][1], TREE_HEIGHT),
                                              Path(d)[x - 1][1] % Addr!Pow2[TREE_HEIGHT]>>
<1> DEFINE S == Nat \X Nat
           a == <<d.tree, d.idx_leaf>>
           Up(s) == <<Addr!Shr(s[1], TREE_HEIGHT), s[1] % Addr!Pow2[TREE_HEIGHT]>>
           F == [q \in (1 .. D) \X S |-> Up(q[2])]
           Body(g) == [x \in 0 .. D |-> IF x = 0 THEN a ELSE Up(g[x - 1])]
<1>1. D \in Nat /\ TREE_HEIGHT \in Nat /\ Addr!Pow2[TREE_HEIGHT] \in Nat \ {0}  BY AddrSizes, AddrPow2
<1>2. a \in S
  <2>1. /\ d.tree \in 0 .. Addr!Pow2[TREE_HEIGHT * (D - 1)] - 1
        /\ d.idx_leaf \in 0 .. Addr!Pow2[TREE_HEIGHT] - 1  BY DEF Addr!AddressAssumption
  <2>2. d.tree \in Nat /\ d.idx_leaf \in Nat  BY <2>1, AddrSizes, AddrPow2
  <2> QED  BY <2>2
<1>3. ASSUME NEW s \in S PROVE Up(s) \in S
  <2>1. s[1] \in Nat  OBVIOUS
  <2>2. ASSUME NEW x \in Nat
        PROVE  Addr!Shr(x, TREE_HEIGHT) \in Nat /\ x % Addr!Pow2[TREE_HEIGHT] \in Nat
    <3> DEFINE p == Addr!Pow2[TREE_HEIGHT]
    <3>1. p \in Nat \ {0}  BY <1>1
    <3> HIDE DEF p
    <3>2. x \div p \in Nat /\ x % p \in Nat  BY <3>1, DivMod
    <3> QED  BY <3>2 DEF Addr!Shr, p
  <2> QED  BY <2>1, <2>2
<1>4. \A x \in 1 .. D, s \in S : F[<<x, s>>] = Up(s)  OBVIOUS
<1>5. F \in [(1 .. D) \X S -> S]  BY <1>3
<1> HIDE DEF S, F, a, Up
<1>6. PICK g \in [0 .. D -> S] : Iterates(g, D, a, F)  BY <1>1, <1>2, <1>5, Recursion
<1>7. g = Body(g)
  <2>1. ASSUME NEW x \in 0 .. D, x # 0 PROVE g[x] = Up(g[x - 1])
    <3>1. x \in 1 .. D /\ x - 1 \in 0 .. D  BY <1>1, <2>1
    <3>2. g[x] = F[<<x, g[x - 1]>>] /\ g[x - 1] \in S  BY <1>6, <3>1 DEF Iterates
    <3> QED  BY <1>4, <3>1, <3>2
  <2>2. g[0] = a  BY <1>6 DEF Iterates
  <2> QED  BY <2>1, <2>2
<1>8. Path(d) = Body(Path(d))
  <2>1. Path(d) = CHOOSE f : f = Body(f)  BY DEF Path, Up, a
  <2> HIDE DEF Body
  <2> QED  BY <1>7, <2>1
<1>9. Path(d)[0] = a  BY <1>1, <1>8
<1>10. ASSUME NEW x \in 1 .. D PROVE Path(d)[x] = Up(Path(d)[x - 1])
  <2>1. x \in 0 .. D /\ x # 0  BY <1>1
  <2> QED  BY <1>8, <2>1
<1> QED  BY <1>9, <1>10 DEF a, Up

\* What was hashed stays hashed.
LEMMA Grows ==
    ASSUME log' = log \cup fresh
    PROVE  /\ \A r : Has(r) => Has(r)'
           /\ \A l, t, p, x : HasChain(l, t, p, x) => HasChain(l, t, p, x)'
           /\ \A l, t, p : HasKeyPair(l, t, p) => HasKeyPair(l, t, p)'
           /\ \A d, x : HasFors(d, x) => HasFors(d, x)'
           /\ \A d : HasForsPk(d) => HasForsPk(d)'
           /\ \A d, n : HasLayers(d, n) => HasLayers(d, n)'
           /\ \A d : HasAll(d) => HasAll(d)'
<1>1. ASSUME NEW r, Has(r) PROVE Has(r)'  BY <1>1 DEF Has
<1> HIDE DEF Has
<1>2. ASSUME NEW l, NEW t, NEW p, NEW x, HasChain(l, t, p, x) PROVE HasChain(l, t, p, x)'
  BY <1>1, <1>2 DEF HasChain
<1>3. ASSUME NEW l, NEW t, NEW p, HasKeyPair(l, t, p) PROVE HasKeyPair(l, t, p)'
  BY <1>1, <1>2, <1>3 DEF HasKeyPair
<1>4. ASSUME NEW u, NEW h, NEW o, NEW l, NEW t, NEW p, NEW y, HasPath(u, h, o, l, t, p, y)
      PROVE  HasPath(u, h, o, l, t, p, y)'
  BY <1>1, <1>4 DEF HasPath
<1>5. ASSUME NEW d, NEW x, HasFors(d, x) PROVE HasFors(d, x)'
  BY <1>1, <1>4, <1>5 DEF HasFors
<1>6. ASSUME NEW d, HasForsPk(d) PROVE HasForsPk(d)'  BY <1>1, <1>6 DEF HasForsPk
<1>7. ASSUME NEW x, NEW t, NEW y, HasLayer(x, t, y) PROVE HasLayer(x, t, y)'
  BY <1>3, <1>4, <1>7 DEF HasLayer
<1>8. ASSUME NEW d, NEW n, HasLayers(d, n) PROVE HasLayers(d, n)'
  <2>1. ASSUME NEW x \in 0 .. n - 1 PROVE HasLayer(x, Path(d)[x][1], Path(d)[x][2])'
    <3>1. HasLayer(x, Path(d)[x][1], Path(d)[x][2])  BY <1>8 DEF HasLayers
    <3> QED  BY <1>7, <3>1
  <2> QED  BY <2>1 DEF HasLayers
<1>9. ASSUME NEW d, HasAll(d) PROVE HasAll(d)'
  BY <1>5, <1>6, <1>8, <1>9 DEF HasAll
<1> QED  BY <1>1, <1>2, <1>3, <1>5, <1>6, <1>8, <1>9

\* A step of the same call: the nodes have the same places.
LEMMA NodesSame ==
    ASSUME aop' = aop, NEW height, NEW offset
    PROVE  /\ \A x : Addr!Real(height, x)' = Addr!Real(height, x)
           /\ \A g : CompletedAt(height, g)' = CompletedAt(height, g)
           /\ \A g, x, j : NodeAt(height, offset, g, x, j)' = NodeAt(height, offset, g, x, j)
<1>1. /\ Addr!Width' = Addr!Width /\ Addr!Last(height)' = Addr!Last(height)
      /\ \A x : Addr!left_adj(height, x)' = Addr!left_adj(height, x) /\ Addr!Real(height, x)' = Addr!Real(height, x)
  BY DEF Addr!Width, Addr!Wide, Addr!Last, Addr!left_adj, Addr!Real, Addr!Used
<1>2. \A g : CompletedAt(height, g)' = CompletedAt(height, g)  BY <1>1 DEF CompletedAt
<1>3. \A g, x, j : NodeAt(height, offset, g, x, j)' = NodeAt(height, offset, g, x, j)
  BY <1>1 DEF NodeAt
<1> QED  BY <1>1, <1>2, <1>3

LEMMA NodesGrow ==
    ASSUME log' = log \cup fresh, aop' = aop, NEW use, NEW height, NEW offset, NEW l, NEW t, NEW p, NEW n,
           HasNodes(use, height, offset, l, t, p, n)
    PROVE  HasNodes(use, height, offset, l, t, p, n)'
<1>1. /\ \A x : Addr!Real(height, x)' = Addr!Real(height, x)
      /\ \A g : CompletedAt(height, g)' = CompletedAt(height, g)
      /\ \A g, x, j : NodeAt(height, offset, g, x, j)' = NodeAt(height, offset, g, x, j)
  BY NodesSame
<1>2. ASSUME NEW g \in 0 .. n - 1, NEW x \in CompletedAt(height, g), NEW j \in Addr!Real(height, x)
      PROVE  Has(Addr!Role(use, l, t, p, x, NodeAt(height, offset, g, x, j)))'
  <2>1. Has(Addr!Role(use, l, t, p, x, NodeAt(height, offset, g, x, j)))  BY DEF HasNodes
  <2>2. Has(Addr!Role(use, l, t, p, x, NodeAt(height, offset, g, x, j))) =>
          \E e \in log' \cup fresh' : e.role = Addr!Role(use, l, t, p, x, NodeAt(height, offset, g, x, j))
    BY DEF Has
  <2> QED  BY <1>1, <2>1, <2>2 DEF Has
<1> QED  BY <1>1, <1>2 DEF HasNodes

LEMMA Shaped ==
    ASSUME NEW r, NEW a
    PROVE  /\ Addr!Call(r, a) = Addr!Call(Addr!Call(r, a).role, Addr!Call(r, a).addr)
           /\ Addr!Call(r, a).role = r
BY DEF Addr!Call

\* A call of the verifier that the signer made.
LEMMA Retraced ==
    ASSUME Addr!AddressAssumption, AddrInv, RetraceInv, NEW r, NEW a, Has(r), Good(Addr!Call(r, a))
    PROVE  Addr!Call(r, a) \in log \cup fresh
<1>1. PICK e \in log \cup fresh : e.role = r  BY DEF Has
<1>2. Good(e) /\ e = Addr!Call(e.role, e.addr)  BY DEF AddrInv, Recorded, RetraceInv, CallsShaped
<1>3. Addr!Call(r, a).role = r /\ Addr!Call(r, a).addr = a  BY DEF Addr!Call
<1>4. e.addr = a  BY <1>1, <1>2, <1>3, Separates
<1> QED  BY <1>1, <1>2, <1>4

\* The parts of the invariant that need no more than the shape of the calls.
LEMMA RetraceFrame ==
    ASSUME RetraceInv, log' = log \cup fresh, \A e \in fresh' : e = Addr!Call(e.role, e.addr)
    PROVE  CallsShaped' /\ (asigned' = asigned => SignedHas')
<1>1. CallsShaped'  BY DEF RetraceInv, CallsShaped
<1>2. ASSUME asigned' = asigned, NEW d \in asigned' PROVE HasAll(d)'
  <2>1. HasAll(d)  BY <1>2 DEF RetraceInv, SignedHas
  <2> QED  BY <2>1, Grows
<1> QED  BY <1>1, <1>2 DEF SignedHas

\* A verifier's step, when the signer made each of its calls.
LEMMA RetracedStep ==
    ASSUME Addr!AddressAssumption, AddrInv, AddrInv', RetraceInv, log' = log \cup fresh,
           \A e \in fresh' : e = Addr!Call(e.role, e.addr) /\ Has(e.role)
    PROVE  Addr!VerifierRetraces'
<1>1. ASSUME NEW e \in fresh' PROVE e \in log'
  <2>1. Good(e)  BY DEF AddrInv, Recorded
  <2>2. e = Addr!Call(e.role, e.addr) /\ Has(e.role)  OBVIOUS
  <2> QED  BY <2>1, <2>2, Retraced
<1> QED  BY <1>1 DEF Addr!VerifierRetraces

LEMMA KeyGenRetraces ==
    ASSUME Addr!AddressAssumption, AddrInv, RetraceInv, Addr!KeyGen
    PROVE  RetraceInv'
<1>1. /\ apc' = "wots" /\ idx' = 0 /\ aop'.name = "keygen" /\ Addr!NoHash /\ asigned' = asigned
  BY DEF Addr!KeyGen, Addr!Begin, Addr!MerkleStart
<1>2. log' = log \cup fresh /\ fresh' = {}  BY <1>1 DEF Addr!NoHash, Addr!Hash
<1>3. CallsShaped' /\ SignedHas'  BY <1>1, <1>2, RetraceFrame
<1>4. OnPath' /\ ForsProgress' /\ Addr!VerifierRetraces'
  BY <1>1 DEF OnPath, ForsProgress, Addr!VerifierRetraces, InFors, InTree
<1>5. TreeProgress'
  <2>1. LeavesMade' = 0 /\ 0 .. LeavesMade' - 1 = {} /\ 0 .. idx' - 1 = {}  BY <1>1 DEF LeavesMade
  <2> QED  BY <1>1, <2>1 DEF TreeProgress, HasNodes
<1> QED  BY <1>3, <1>4, <1>5 DEF RetraceInv

\* What a step within a tree of the hypertree keeps.
LEMMA ForsKept ==
    ASSUME RetraceInv, log' = log \cup fresh, UNCHANGED <<aop, digest, ai>>,
           apc \in InTree \cup {"layer"}, apc' \in InTree \cup {"layer"}
    PROVE  ForsProgress'
<1>1. ASSUME aop.name = "sign"
      PROVE  (\A x \in 0 .. FORS_SIG_TREES - 1 : HasFors(digest, x)) /\ HasForsPk(digest)
             /\ HasLayers(digest, ai)
  BY <1>1 DEF RetraceInv, ForsProgress
<1>2. ASSUME aop.name = "sign"
      PROVE  (\A x \in 0 .. FORS_SIG_TREES - 1 : HasFors(digest, x)') /\ HasForsPk(digest)'
             /\ HasLayers(digest, ai)'
  BY <1>1, <1>2, Grows
<1> QED  BY <1>2 DEF ForsProgress, InFors, InTree, InLeaf

LEMMA TreeKept ==
    ASSUME RetraceInv, log' = log \cup fresh, UNCHANGED <<aop, ai, tree>>, apc \in InTree
    PROVE  /\ \A g \in 0 .. LeavesMade - 1, j \in Addr!Used : HasKeyPair(ai, tree, Addr!Width * g + j)'
           /\ Addr!Used' = Addr!Used /\ Addr!Width' = Addr!Width
<1>1. Addr!Used' = Addr!Used /\ Addr!Width' = Addr!Width  BY DEF Addr!Used, Addr!Width, Addr!Wide
<1>2. ASSUME NEW g \in 0 .. LeavesMade - 1, NEW j \in Addr!Used
      PROVE  HasKeyPair(ai, tree, Addr!Width * g + j)'
  <2>1. HasKeyPair(ai, tree, Addr!Width * g + j)  BY DEF RetraceInv, TreeProgress
  <2> QED  BY <1>1, <2>1, Grows
<1> QED  BY <1>1, <1>2

LEMMA WotsLeafRetraces ==
    ASSUME Addr!AddressAssumption, AddrInv, RetraceInv, Addr!WotsLeaf
    PROVE  RetraceInv'
<1>1. /\ apc = "wots" /\ apc' = "chain" /\ ac' = 0 /\ Addr!NoHash
      /\ UNCHANGED <<aop, digest, asigned, tree, idx_leaf, ai, idx>>
  BY DEF Addr!WotsLeaf, Addr!callVars
<1>2. log' = log \cup fresh /\ fresh' = {}  BY <1>1 DEF Addr!NoHash, Addr!Hash
<1>3. CallsShaped' /\ SignedHas'  BY <1>1, <1>2, RetraceFrame
<1>4. aop.name \in {"keygen", "sign"}  BY <1>1 DEF AddrInv, Places, InTree
<1>5. OnPath' /\ Addr!VerifierRetraces'
  BY <1>1, <1>2, <1>4 DEF RetraceInv, OnPath, Addr!VerifierRetraces, InFors, InTree
<1>6. ForsProgress'  BY <1>1, <1>2, ForsKept DEF InTree
<1>7. TreeProgress'
  <2>1. /\ LeavesMade = idx /\ LeavesMade' = idx /\ 0 .. ac' - 1 = {}
        /\ HasNodes("hashtree", TREE_HEIGHT, 0, ai, tree, 0, idx)
    BY <1>1 DEF LeavesMade, RetraceInv, TreeProgress, InTree
  <2>2. HasNodes("hashtree", TREE_HEIGHT, 0, ai, tree, 0, idx)'  BY <1>1, <1>2, <2>1, NodesGrow
  <2>3. /\ \A g \in 0 .. idx - 1, j \in Addr!Used : HasKeyPair(ai, tree, Addr!Width * g + j)'
        /\ Addr!Used' = Addr!Used /\ Addr!Width' = Addr!Width
    BY <1>1, <1>2, <2>1, TreeKept DEF InTree
  <2> QED  BY <1>1, <2>1, <2>2, <2>3 DEF TreeProgress
<1> QED  BY <1>3, <1>5, <1>6, <1>7 DEF RetraceInv

LEMMA WotsChainRetraces ==
    ASSUME Addr!AddressAssumption, AddrInv, RetraceInv, Addr!WotsChain
    PROVE  RetraceInv'
<1> DEFINE prf(j) == Addr!set_type(Addr!set_hash_addr(Addr!set_chain_addr(leaf_addr[j], ac), 0), Addr!prf_type)
           wots(j) == Addr!set_type(prf(j), Addr!Type.wots)
           P == {Addr!Call(Addr!Role("wotsprf", ai, tree, Addr!Leaf(j), ac, 0), prf(j)) : j \in Addr!Used}
           Ws == {Addr!Call(Addr!Role("wots", ai, tree, Addr!Leaf(j), ac, pos), Addr!set_hash_addr(wots(j), pos)) :
                    j \in Addr!Used, pos \in 0 .. WOTS_W - 2}
<1>1. /\ apc = "chain" /\ apc' = "chain" /\ ac' = ac + 1 /\ Addr!Hash(P \cup Ws)
      /\ UNCHANGED <<aop, digest, asigned, tree, idx_leaf, ai, idx>>
  BY DEF Addr!WotsChain, Addr!callVars
<1>2. log' = log \cup fresh /\ fresh' = P \cup Ws  BY <1>1 DEF Addr!Hash
<1>3. \A e \in fresh' : e = Addr!Call(e.role, e.addr)  BY <1>2, Shaped
<1>4. CallsShaped' /\ SignedHas'  BY <1>1, <1>2, <1>3, RetraceFrame
<1>5. aop.name \in {"keygen", "sign"}  BY <1>1 DEF AddrInv, Places, InTree
<1>6. OnPath' /\ Addr!VerifierRetraces'
  BY <1>1, <1>5 DEF RetraceInv, OnPath, Addr!VerifierRetraces, InFors, InTree
<1>7. ForsProgress'  BY <1>1, <1>2, ForsKept DEF InTree
<1>8. Addr!Used' = Addr!Used /\ Addr!Width' = Addr!Width /\ \A j : Addr!Leaf(j)' = Addr!Leaf(j)
  BY <1>1 DEF Addr!Used, Addr!Width, Addr!Wide, Addr!Leaf
<1>9. ASSUME NEW j \in Addr!Used, NEW cc, cc = ac PROVE HasChain(ai, tree, Addr!Leaf(j), cc)'
  <2>1. ASSUME NEW pos \in 0 .. WOTS_W - 2
        PROVE  \E e \in fresh' : e.role = Addr!Role("wots", ai, tree, Addr!Leaf(j), ac, pos)
    <3>1. Addr!Call(Addr!Role("wots", ai, tree, Addr!Leaf(j), ac, pos), Addr!set_hash_addr(wots(j), pos)) \in fresh'
      BY <1>2
    <3> QED  BY <3>1, Shaped
  <2> HIDE DEF P, Ws
  <2> QED  BY <1>1, <1>8, <1>9, <2>1 DEF HasChain, Has
<1>10. TreeProgress'
  <2>1. /\ LeavesMade = idx /\ LeavesMade' = idx
        /\ HasNodes("hashtree", TREE_HEIGHT, 0, ai, tree, 0, idx)
        /\ \A cc \in 0 .. ac - 1, j \in Addr!Used : HasChain(ai, tree, Addr!Leaf(j), cc)
    BY <1>1 DEF LeavesMade, RetraceInv, TreeProgress, InTree
  <2>2. HasNodes("hashtree", TREE_HEIGHT, 0, ai, tree, 0, idx)'  BY <1>1, <1>2, <2>1, NodesGrow
  <2>3. \A g \in 0 .. idx - 1, j \in Addr!Used : HasKeyPair(ai, tree, Addr!Width * g + j)'
    BY <1>1, <1>2, <2>1, TreeKept DEF InTree
  <2>4. ASSUME NEW cc \in 0 .. ac, NEW j \in Addr!Used PROVE HasChain(ai, tree, Addr!Leaf(j), cc)'
    <3>0. ac \in Nat  BY AddrSizes DEF AddrInv, Addr!TypeOK
    <3>1. CASE cc = ac
      BY <1>9, <3>1
    <3>2. CASE cc \in 0 .. ac - 1
      BY <1>1, <1>2, <1>8, <2>1, <3>2, Grows
    <3> QED  BY <3>0, <3>1, <3>2
  <2>5. 0 .. ac' - 1 = 0 .. ac
    <3>0. ac \in Nat  BY AddrSizes DEF AddrInv, Addr!TypeOK
    <3> QED  BY <1>1, <3>0
  <2> QED  BY <1>1, <1>8, <2>1, <2>2, <2>3, <2>4, <2>5 DEF TreeProgress
<1> QED  BY <1>4, <1>6, <1>7, <1>10 DEF RetraceInv

LEMMA WotsPkRetraces ==
    ASSUME Addr!AddressAssumption, AddrInv, RetraceInv, Addr!WotsPk
    PROVE  RetraceInv'
<1> DEFINE P == {Addr!Call(Addr!Role("wotspk", ai, tree, Addr!Leaf(j), 0, 0), pk_addr[j]) : j \in Addr!Used}
<1>1. /\ apc = "chain" /\ apc' = "combine" /\ ac = WOTS_LEN /\ Addr!Hash(P)
      /\ UNCHANGED <<aop, digest, asigned, tree, idx_leaf, ai, idx>>
  BY DEF Addr!WotsPk, Addr!callVars
<1>2. log' = log \cup fresh /\ fresh' = P  BY <1>1 DEF Addr!Hash
<1>3. \A e \in fresh' : e = Addr!Call(e.role, e.addr)  BY <1>2, Shaped
<1>4. CallsShaped' /\ SignedHas'  BY <1>1, <1>2, <1>3, RetraceFrame
<1>5. aop.name \in {"keygen", "sign"}  BY <1>1 DEF AddrInv, Places, InTree
<1>6. OnPath' /\ Addr!VerifierRetraces'
  BY <1>1, <1>5 DEF RetraceInv, OnPath, Addr!VerifierRetraces, InFors, InTree
<1>7. ForsProgress'  BY <1>1, <1>2, ForsKept DEF InTree
<1>8. /\ LeavesMade = idx /\ LeavesMade' = idx + 1 /\ idx \in Nat
      /\ HasNodes("hashtree", TREE_HEIGHT, 0, ai, tree, 0, idx)
      /\ \A cc \in 0 .. WOTS_LEN - 1, j \in Addr!Used : HasChain(ai, tree, Addr!Leaf(j), cc)
  BY <1>1 DEF LeavesMade, RetraceInv, TreeProgress, InTree, AddrInv, Addr!TypeOK
<1>9. /\ \A g \in 0 .. idx - 1, j \in Addr!Used : HasKeyPair(ai, tree, Addr!Width * g + j)'
      /\ Addr!Used' = Addr!Used /\ Addr!Width' = Addr!Width
  BY <1>1, <1>2, <1>8, TreeKept DEF InTree
<1>10. ASSUME NEW j \in Addr!Used PROVE HasKeyPair(ai, tree, Addr!Width * idx + j)'
  <2>0. Addr!Leaf(j) = Addr!Width * idx + j  BY DEF Addr!Leaf
  <2> DEFINE y == Addr!Width * idx + j
  <2>1. \A cc \in 0 .. WOTS_LEN - 1 : HasChain(ai, tree, y, cc)  BY <1>8, <2>0
  <2>2. \E e \in fresh' : e.role = Addr!Role("wotspk", ai, tree, y, 0, 0)
    <3>1. Addr!Call(Addr!Role("wotspk", ai, tree, y, 0, 0), pk_addr[j]) \in fresh'  BY <1>2, <2>0
    <3> QED  BY <3>1, Shaped
  <2>3. y' = y  BY <1>1, <1>9
  <2> HIDE DEF y, P
  <2>4. \A cc \in 0 .. WOTS_LEN - 1 : HasChain(ai, tree, y, cc)'  BY <1>1, <1>2, <2>1, <2>3, Grows
  <2>5. Has(Addr!Role("wotspk", ai, tree, y, 0, 0))'  BY <1>1, <2>2, <2>3 DEF Has
  <2>6. HasKeyPair(ai, tree, y)'  BY <2>4, <2>5 DEF HasKeyPair
  <2> QED  BY <2>6 DEF y
<1>11. TreeProgress'
  <2>1. HasNodes("hashtree", TREE_HEIGHT, 0, ai, tree, 0, idx)'  BY <1>1, <1>2, <1>8, NodesGrow
  <2>2. ASSUME NEW g \in 0 .. idx, NEW j \in Addr!Used PROVE HasKeyPair(ai, tree, Addr!Width * g + j)'
    <3>1. CASE g = idx  BY <1>1, <1>9, <1>10, <3>1
    <3>2. CASE g \in 0 .. idx - 1  BY <1>9, <3>2
    <3> QED  BY <1>8, <3>1, <3>2
  <2>3. 0 .. LeavesMade' - 1 = 0 .. idx  BY <1>8
  <2> QED  BY <1>1, <1>9, <2>1, <2>2, <2>3 DEF TreeProgress
<1> QED  BY <1>4, <1>6, <1>7, <1>11 DEF RetraceInv

\* The inner loops complete the nodes of this call of gen_leaf.
LEMMA CombineHas ==
    ASSUME aop' = aop, idx \in Nat, NEW use, NEW height, NEW offset, NEW layer, NEW keypair,
           NEW t, t = tree, NEW n, n = idx + 1,
           HasNodes(use, height, offset, layer, t, keypair, idx),
           Addr!Combine(use, height, offset, layer, keypair)
    PROVE  /\ log' = log \cup fresh
           /\ \A e \in fresh' : e = Addr!Call(e.role, e.addr)
           /\ HasNodes(use, height, offset, layer, t, keypair, n)'
<1> DEFINE addr(l, j) == Addr!set_tree_index(Addr!set_tree_height(node_addr[j], l),
                                        Addr!NodeIndex(height, offset, l, j))
           made(l, j) == Addr!Call(Addr!Role(use, layer, tree, keypair, l, Addr!NodeIndex(height, offset, l, j)),
                              addr(l, j))
<1>1. /\ log' = log \cup fresh
      /\ fresh' = UNION {{made(l, j) : j \in Addr!Real(height, l)} : l \in Addr!Completed(height)}
  BY DEF Addr!Combine, Addr!Hash
<1>2. \A e \in fresh' : e = Addr!Call(e.role, e.addr)
  <2>1. \A l, j : made(l, j) = Addr!Call(made(l, j).role, made(l, j).addr)  BY Shaped
  <2> HIDE DEF made
  <2> QED  BY <1>1, <2>1
<1>3. ASSUME NEW g \in 0 .. n - 1, NEW x \in CompletedAt(height, g), NEW j \in Addr!Real(height, x)
      PROVE  \E e \in log' \cup fresh' :
               e.role = Addr!Role(use, layer, t, keypair, x, NodeAt(height, offset, g, x, j))
  <2>1. CASE g \in 0 .. idx - 1
    <3>1. Has(Addr!Role(use, layer, t, keypair, x, NodeAt(height, offset, g, x, j)))
      BY <2>1 DEF HasNodes
    <3> QED  BY <1>1, <3>1 DEF Has
  <2>2. CASE g = idx
    <3>1. /\ CompletedAt(height, g) = Addr!Completed(height)
          /\ NodeAt(height, offset, g, x, j) = Addr!NodeIndex(height, offset, x, j)
      BY <2>2 DEF CompletedAt, Addr!Completed, NodeAt, Addr!NodeIndex
    <3>2. made(x, j) \in fresh'
      <4> HIDE DEF made
      <4> QED  BY <1>1, <3>1
    <3>3. made(x, j).role = Addr!Role(use, layer, t, keypair, x, NodeAt(height, offset, g, x, j))
      BY <3>1, Shaped
    <3> HIDE DEF made
    <3> QED  BY <3>2, <3>3
  <2> QED  BY <2>1, <2>2
<1>4. /\ \A x : Addr!Real(height, x)' = Addr!Real(height, x)
      /\ \A g : CompletedAt(height, g)' = CompletedAt(height, g)
      /\ \A g, x, j : NodeAt(height, offset, g, x, j)' = NodeAt(height, offset, g, x, j)
  BY NodesSame
<1>5. HasNodes(use, height, offset, layer, t, keypair, n)'
  BY <1>3, <1>4 DEF HasNodes, Has
<1> QED  BY <1>1, <1>2, <1>5

\* After the last leaf every path to the root is there.
LEMMA NodesDone ==
    ASSUME aop' = aop, aop.wide \in BOOLEAN, NEW height \in Nat, height >= 3, NEW use, NEW offset,
           NEW layer, NEW t, NEW keypair, NEW n, n = Addr!Last(height) + 1, Addr!Last(height) \in Nat,
           HasNodes(use, height, offset, layer, t, keypair, n)', NEW y \in 0 .. Addr!Pow2[height] - 1
    PROVE  HasPath(use, height, offset, layer, t, keypair, y)'
<1> SUFFICES ASSUME NEW l \in 1 .. height
             PROVE  Has(Addr!Role(use, layer, t, keypair, l, Addr!PathIndex(y, offset, l)))'
  BY DEF HasPath
<1>1. PICK g \in 0 .. Addr!Last(height) :
         /\ l \in CompletedAt(height, g)
         /\ \E j \in Addr!Real(height, l) : NodeAt(height, offset, g, l, j) = Addr!PathIndex(y, offset, l)
  BY NodeCovered
<1>2. PICK j \in Addr!Real(height, l) : NodeAt(height, offset, g, l, j) = Addr!PathIndex(y, offset, l)
  BY <1>1
<1>3. /\ Addr!Real(height, l)' = Addr!Real(height, l)
      /\ CompletedAt(height, g)' = CompletedAt(height, g)
      /\ NodeAt(height, offset, g, l, j)' = NodeAt(height, offset, g, l, j)
  BY NodesSame
<1>4. g \in 0 .. n - 1  OBVIOUS
<1>5. Has(Addr!Role(use, layer, t, keypair, l, NodeAt(height, offset, g, l, j)))'
  BY <1>1, <1>2, <1>3, <1>4 DEF HasNodes
<1> QED  BY <1>2, <1>3, <1>5

LEMMA MerkleCombineRetraces ==
    ASSUME Addr!AddressAssumption, AddrInv, RetraceInv, Addr!MerkleCombine PROVE RetraceInv'
<1>1. /\ apc = "combine" /\ Addr!Combine("hashtree", TREE_HEIGHT, 0, ai, 0)
      /\ UNCHANGED <<aop, digest, ac>>
  BY DEF Addr!MerkleCombine
<1>2. /\ aop.name \in {"keygen", "sign"} /\ aop.wide \in BOOLEAN /\ idx \in 0 .. Addr!Last(TREE_HEIGHT)
      /\ idx \in Nat /\ ai \in Nat /\ ai < D /\ idx_leaf \in 0 .. Addr!Pow2[TREE_HEIGHT] - 1
      /\ D \in Nat /\ TREE_HEIGHT \in Nat /\ TREE_HEIGHT >= 3
  BY <1>1, AddrSizes DEF AddrInv, Places, Addr!TypeOK, InTree
<1>3. /\ LeavesMade = idx + 1 /\ HasNodes("hashtree", TREE_HEIGHT, 0, ai, tree, 0, idx)
      /\ \A g \in 0 .. idx, j \in Addr!Used : HasKeyPair(ai, tree, Addr!Width * g + j)
  <2>1. LeavesMade = idx + 1 /\ 0 .. LeavesMade - 1 = 0 .. idx  BY <1>1, <1>2 DEF LeavesMade
  <2> QED  BY <1>1, <2>1 DEF RetraceInv, TreeProgress, InTree
<1>4. PICK l, t, n : l = ai /\ t = tree /\ n = idx + 1  OBVIOUS
<1>5. /\ log' = log \cup fresh /\ \A e \in fresh' : e = Addr!Call(e.role, e.addr)
      /\ HasNodes("hashtree", TREE_HEIGHT, 0, l, t, 0, n)'
  BY <1>1, <1>2, <1>3, <1>4, CombineHas
<1>6. CallsShaped' /\ (asigned' = asigned => SignedHas')  BY <1>5, RetraceFrame
<1>7. Addr!VerifierRetraces'  BY <1>1, <1>2 DEF Addr!VerifierRetraces
<1>8. \A g \in 0 .. idx, j \in Addr!Used : HasKeyPair(l, t, Addr!Width * g + j)'
  <2>1. Addr!Used' = Addr!Used /\ Addr!Width' = Addr!Width  BY <1>1 DEF Addr!Used, Addr!Width, Addr!Wide
  <2>2. ASSUME NEW g \in 0 .. idx, NEW j \in Addr!Used, NEW y, y = Addr!Width * g + j
        PROVE  HasKeyPair(l, t, y)'
    BY <1>3, <1>4, <1>5, <2>2, Grows
  <2> QED  BY <2>1, <2>2
<1>9. CASE idx < Addr!Last(TREE_HEIGHT) /\ idx' = idx + 1 /\ apc' = "wots" /\ UNCHANGED <<tree, idx_leaf, ai, asigned>>
  <2>1. OnPath'  BY <1>1, <1>2, <1>9 DEF RetraceInv, OnPath, InTree, InFors
  <2>2. ForsProgress'  BY <1>1, <1>5, <1>9, ForsKept DEF InTree
  <2>3. TreeProgress'
    <3>1. HasNodes("hashtree", TREE_HEIGHT, 0, ai, tree, 0, idx)'  BY <1>4, <1>5, <1>9
    <3>2. 0 .. LeavesMade' - 1 = 0 .. idx  BY <1>2, <1>9 DEF LeavesMade
    <3>3. Addr!Used' = Addr!Used /\ Addr!Width' = Addr!Width
      BY <1>1 DEF Addr!Used, Addr!Width, Addr!Wide
    <3> QED  BY <1>4, <1>8, <1>9, <3>1, <3>2, <3>3 DEF TreeProgress
  <2> QED  BY <1>6, <1>7, <1>9, <2>1, <2>2, <2>3 DEF RetraceInv
<1>10. CASE aop.name = "keygen" /\ apc' = "idle" /\ UNCHANGED <<tree, idx_leaf, ai, idx, asigned>>
  <2>1. OnPath' /\ ForsProgress' /\ TreeProgress'
    BY <1>1, <1>10 DEF OnPath, ForsProgress, TreeProgress, InTree, InFors
  <2> QED  BY <1>6, <1>7, <1>10, <2>1 DEF RetraceInv
<1>11. CASE /\ idx = Addr!Last(TREE_HEIGHT) /\ aop.name = "sign" /\ Addr!NextLayer
            /\ apc' = IF ai = D - 1 THEN "idle" ELSE "layer"
            /\ asigned' = IF ai = D - 1 THEN asigned \cup {digest} ELSE asigned
  <2>1. PICK y, d : y = idx_leaf /\ d = digest  OBVIOUS
  <2>2. <<t, y>> = Path(d)[l] /\ t = Path(d)[l][1] /\ y = Path(d)[l][2]
    <3>1. <<tree, idx_leaf>> = Path(digest)[ai]
      BY <1>1, <1>11 DEF RetraceInv, OnPath, InTree
    <3> QED  BY <1>4, <2>1, <3>1
  <2>3. HasKeyPair(l, t, y)'
    <3>1. PICK g \in 0 .. Addr!Last(TREE_HEIGHT), j \in Addr!Used : Addr!Width * g + j = y
      BY <1>2, <2>1, LeafCovered
    <3>2. Addr!Used' = Addr!Used /\ Addr!Width' = Addr!Width
      BY <1>1 DEF Addr!Used, Addr!Width, Addr!Wide
    <3> QED  BY <1>8, <1>11, <3>1, <3>2
  <2>4. HasPath("hashtree", TREE_HEIGHT, 0, l, t, 0, y)'
    BY <1>1, <1>2, <1>4, <1>5, <1>11, <2>1, NodesDone
  <2>5. HasLayer(l, t, y)'  BY <2>3, <2>4 DEF HasLayer
  <2>6. /\ \A x \in 0 .. FORS_SIG_TREES - 1 : HasFors(d, x)
        /\ HasForsPk(d) /\ HasLayers(d, l)
    BY <1>1, <1>4, <1>11, <2>1 DEF RetraceInv, ForsProgress, InTree
  <2>7. /\ \A x \in 0 .. FORS_SIG_TREES - 1 : HasFors(d, x)'
        /\ HasForsPk(d)' /\ HasLayers(d, l)'
    BY <1>5, <2>6, Grows
  <2>8. HasLayers(d, l + 1)'
    <3>1. ASSUME NEW x \in 0 .. l PROVE HasLayer(x, Path(d)[x][1], Path(d)[x][2])'
      <4>1. CASE x = l  BY <2>2, <2>5, <4>1
      <4>2. CASE x \in 0 .. l - 1  BY <2>7, <4>2 DEF HasLayers
      <4> QED  BY <1>2, <1>4, <4>1, <4>2
    <3>2. 0 .. (l + 1) - 1 = 0 .. l  BY <1>2, <1>4
    <3> QED  BY <3>1, <3>2 DEF HasLayers
  <2>9. d \in MessageDigests /\ d' = digest' /\ digest' = d
    BY <1>1, <1>11, <2>1 DEF AddrInv, Places
  <2>10. TreeProgress'  BY <1>11 DEF TreeProgress, InTree
  <2>11. CASE ai = D - 1
    <3>1. apc' = "idle" /\ asigned' = asigned \cup {d}  BY <1>11, <2>1, <2>11
    <3>2. OnPath' /\ ForsProgress'
      BY <1>1, <1>11, <3>1 DEF OnPath, ForsProgress, InTree, InFors, InLeaf
    <3>3. HasAll(d)'
      <4>1. l + 1 = D  BY <1>2, <1>4, <2>11
      <4> QED  BY <2>7, <2>8, <4>1 DEF HasAll
    <3>4. ASSUME NEW x \in asigned PROVE HasAll(x)'
      <4>1. HasAll(x)  BY DEF RetraceInv, SignedHas
      <4> QED  BY <1>5, <4>1, Grows
    <3>5. SignedHas'  BY <3>1, <3>3, <3>4 DEF SignedHas
    <3> QED  BY <1>6, <1>7, <2>10, <3>2, <3>5 DEF RetraceInv
  <2>12. CASE ai # D - 1
    <3>1. /\ apc' = "layer" /\ asigned' = asigned /\ ai' = l + 1
          /\ tree' = Addr!Shr(t, TREE_HEIGHT) /\ idx_leaf' = t % Addr!Pow2[TREE_HEIGHT]
      BY <1>4, <1>11, <2>12 DEF Addr!NextLayer, Addr!ParentLeaf
    <3>2. l + 1 \in 1 .. D /\ (l + 1) - 1 = l  BY <1>2, <1>4, <2>12
    <3>3. Path(d)[l + 1] = <<Addr!Shr(t, TREE_HEIGHT), t % Addr!Pow2[TREE_HEIGHT]>>
      BY <2>2, <2>9, <3>2, PathIs
    <3>4. <<tree', idx_leaf'>> = Path(d)[ai']  BY <3>1, <3>3
    <3>5. OnPath'
      <4>1. (Path(digest)[ai])' = Path(d)[ai']  BY <2>9
      <4> QED  BY <1>1, <1>11, <3>1, <3>4, <4>1 DEF OnPath, InFors
    <3>6. ForsProgress'
      <4>1. /\ \A x \in 0 .. FORS_SIG_TREES - 1 : HasFors(digest, x)'
            /\ HasForsPk(digest)' /\ HasLayers(digest, ai)'
        BY <2>7, <2>8, <2>9, <3>1
      <4> QED  BY <1>1, <3>1, <4>1 DEF ForsProgress, InFors, InLeaf
    <3> QED  BY <1>6, <1>7, <2>10, <3>1, <3>5, <3>6 DEF RetraceInv
  <2> QED  BY <2>11, <2>12
<1> QED  BY <1>9, <1>10, <1>11 DEF Addr!MerkleCombine

LEMMA SignBeginRetraces ==
    ASSUME Addr!AddressAssumption, AddrInv, RetraceInv, Addr!SignBegin
    PROVE  RetraceInv'
<1>1. PICK d \in MessageDigests : Addr!Open(d)  BY DEF Addr!SignBegin
<1>2. /\ apc' = "fors" /\ aop'.name = "sign" /\ Addr!NoHash /\ asigned' = asigned
  BY DEF Addr!SignBegin, Addr!Begin
<1>3. tree' = d.tree /\ idx_leaf' = d.idx_leaf /\ ai' = 0 /\ digest' = d  BY <1>1 DEF Addr!Open
<1>4. log' = log \cup fresh /\ fresh' = {}  BY <1>2 DEF Addr!NoHash, Addr!Hash
<1>5. CallsShaped' /\ SignedHas'  BY <1>2, <1>4, RetraceFrame
<1>6. OnPath' /\ Addr!VerifierRetraces'  BY <1>2, <1>3 DEF OnPath, Addr!VerifierRetraces, InTree
<1>7. ForsProgress' /\ TreeProgress'
  <2>1. 0 .. ai' - 1 = {}  BY <1>3
  <2> QED  BY <1>2, <2>1 DEF ForsProgress, TreeProgress, InFors, InTree, InLeaf
<1> QED  BY <1>5, <1>6, <1>7 DEF RetraceInv

\* What a step within a FORS tree keeps.
LEMMA ForsTreesKept ==
    ASSUME RetraceInv, log' = log \cup fresh, digest' = digest, apc \in InFors, aop.name = "sign"
    PROVE  \A x \in 0 .. ai - 1 : HasFors(digest, x)'
<1>1. ASSUME NEW x \in 0 .. ai - 1 PROVE HasFors(digest, x)'
  <2>1. HasFors(digest, x)  BY DEF RetraceInv, ForsProgress
  <2> QED  BY <2>1, Grows
<1> QED  BY <1>1

LEMMA ForsTreeRetraces ==
    ASSUME Addr!AddressAssumption, AddrInv, RetraceInv, Addr!ForsTree
    PROVE  RetraceInv'
<1> DEFINE own == Addr!copy_keypair_addr(Addr!Zero, wots_addr)
           index == digest.indices[ai] + Addr!ForsOffset
           prf == Addr!set_type(Addr!set_tree_index(Addr!set_tree_height(own, 0), index), Addr!Type.forsprf)
<1>1. /\ apc = "fors" /\ apc' = "forsleaf" /\ aop.name = "sign" /\ idx' = 0
      /\ Addr!Hash({Addr!Call(Addr!Role("forsprf", 0, tree, idx_leaf, 0, index), prf)})
      /\ UNCHANGED <<aop, digest, asigned, tree, idx_leaf, ai>>
  BY DEF Addr!ForsTree, Addr!callVars
<1> HIDE DEF prf, index
<1>2. log' = log \cup fresh /\ \A e \in fresh' : e = Addr!Call(e.role, e.addr)
  BY <1>1, Shaped DEF Addr!Hash
<1>3. CallsShaped' /\ SignedHas'  BY <1>1, <1>2, RetraceFrame
<1>4. OnPath' /\ Addr!VerifierRetraces'
  BY <1>1 DEF RetraceInv, OnPath, Addr!VerifierRetraces, InFors, InTree
<1>5. ForsProgress' /\ TreeProgress'
  <2>1. \A x \in 0 .. ai - 1 : HasFors(digest, x)'  BY <1>1, <1>2, ForsTreesKept DEF InFors
  <2>2. LeavesMade' = 0 /\ 0 .. LeavesMade' - 1 = {} /\ 0 .. idx' - 1 = {}  BY <1>1 DEF LeavesMade
  <2> QED  BY <1>1, <2>1, <2>2 DEF ForsProgress, TreeProgress, HasNodes, InFors, InTree, InLeaf
<1> QED  BY <1>3, <1>4, <1>5 DEF RetraceInv

LEMMA ForsLeafRetraces ==
    ASSUME Addr!AddressAssumption, AddrInv, RetraceInv, Addr!ForsLeaf
    PROVE  RetraceInv'
<1> DEFINE prf(j) == Addr!set_type(Addr!set_tree_index(leaf_addr[j], Addr!Leaf(j) + Addr!ForsOffset), Addr!Type.forsprf)
           lf(j) == Addr!set_type(prf(j), Addr!Type.forstree)
           role(use, j) == Addr!Role(use, 0, tree, idx_leaf, 0, Addr!Leaf(j) + Addr!ForsOffset)
           P == {Addr!Call(role("forsprf", j), prf(j)) : j \in Addr!Used}
           Ws == {Addr!Call(role("forstree", j), lf(j)) : j \in Addr!Used}
<1>1. /\ apc = "forsleaf" /\ apc' = "forscombine" /\ Addr!Hash(P \cup Ws)
      /\ UNCHANGED <<aop, digest, asigned, tree, idx_leaf, ai, idx>>
  BY DEF Addr!ForsLeaf, Addr!callVars
<1>2. log' = log \cup fresh /\ fresh' = P \cup Ws  BY <1>1 DEF Addr!Hash
<1>3. \A e \in fresh' : e = Addr!Call(e.role, e.addr)
  <2> HIDE DEF prf, lf, role
  <2> QED  BY <1>2, Shaped
<1>4. CallsShaped' /\ SignedHas'  BY <1>1, <1>2, <1>3, RetraceFrame
<1>5. aop.name = "sign" /\ idx \in Nat  BY <1>1 DEF AddrInv, Addr!TypeOK, Places, InLeaf
<1>6. OnPath' /\ Addr!VerifierRetraces'
  BY <1>1, <1>5 DEF RetraceInv, OnPath, Addr!VerifierRetraces, InFors, InTree
<1>7. /\ Addr!Used' = Addr!Used /\ Addr!Width' = Addr!Width /\ Addr!ForsOffset' = Addr!ForsOffset
      /\ LeavesMade = idx /\ LeavesMade' = idx + 1
  BY <1>1 DEF Addr!Used, Addr!Width, Addr!Wide, Addr!ForsOffset, LeavesMade
<1>8. /\ \A g \in 0 .. idx - 1, j \in Addr!Used :
            Has(Addr!Role("forstree", 0, tree, idx_leaf, 0, Addr!Width * g + j + Addr!ForsOffset))
      /\ HasNodes("forstree", FORS_HEIGHT, Addr!ForsOffset, 0, tree, idx_leaf, idx)
  BY <1>1, <1>5, <1>7 DEF RetraceInv, ForsProgress, InLeaf
<1>9. ASSUME NEW g \in 0 .. idx, NEW j \in Addr!Used
      PROVE  Has(Addr!Role("forstree", 0, tree, idx_leaf, 0, Addr!Width * g + j + Addr!ForsOffset))'
  <2> DEFINE r == Addr!Role("forstree", 0, tree, idx_leaf, 0, Addr!Width * g + j + Addr!ForsOffset)
  <2>1. r' = r  BY <1>1, <1>7
  <2>2. CASE g \in 0 .. idx - 1
    <3>1. Has(r)  BY <1>8, <2>2
    <3> HIDE DEF r
    <3>2. Has(r)'  BY <1>2, <2>1, <3>1, Grows
    <3> QED  BY <3>2 DEF r
  <2>3. CASE g = idx
    <3>1. role("forstree", j) = r  BY <2>3 DEF Addr!Leaf
    <3>2. Addr!Call(role("forstree", j), lf(j)) \in fresh'
      <4> HIDE DEF role, lf
      <4> QED  BY <1>2
    <3> HIDE DEF r, role, lf, P, Ws
    <3>3. \E e \in fresh' : e.role = r  BY <3>1, <3>2, Shaped
    <3>4. Has(r)'  BY <2>1, <3>3 DEF Has
    <3> QED  BY <3>4 DEF r
  <2> QED  BY <1>5, <2>2, <2>3
<1>10. ForsProgress' /\ TreeProgress'
  <2>1. \A x \in 0 .. ai - 1 : HasFors(digest, x)'  BY <1>1, <1>2, <1>5, ForsTreesKept DEF InFors
  <2>2. HasNodes("forstree", FORS_HEIGHT, Addr!ForsOffset, 0, tree, idx_leaf, idx)'
    BY <1>1, <1>2, <1>7, <1>8, NodesGrow
  <2>3. 0 .. LeavesMade' - 1 = 0 .. idx  BY <1>5, <1>7
  <2> QED  BY <1>1, <1>7, <1>9, <2>1, <2>2, <2>3
           DEF ForsProgress, TreeProgress, InFors, InTree, InLeaf
<1> QED  BY <1>4, <1>6, <1>10 DEF RetraceInv

LEMMA ForsCombineRetraces ==
    ASSUME Addr!AddressAssumption, AddrInv, RetraceInv, Addr!ForsCombine PROVE RetraceInv'
<1>1. /\ apc = "forscombine" /\ Addr!Combine("forstree", FORS_HEIGHT, Addr!ForsOffset, 0, idx_leaf)
      /\ UNCHANGED <<aop, digest, asigned, tree, idx_leaf>>
  BY DEF Addr!ForsCombine, Addr!callVars
<1>2. /\ aop.name = "sign" /\ aop.wide \in BOOLEAN /\ idx \in 0 .. Addr!Last(FORS_HEIGHT)
      /\ idx \in Nat /\ ai \in Nat /\ ai < FORS_SIG_TREES
      /\ FORS_SIG_TREES \in Nat /\ FORS_HEIGHT \in Nat /\ FORS_HEIGHT >= 3
  BY <1>1, AddrSizes DEF AddrInv, Places, Addr!TypeOK, InLeaf, InFors
<1>3. /\ LeavesMade = idx + 1
      /\ HasNodes("forstree", FORS_HEIGHT, Addr!ForsOffset, 0, tree, idx_leaf, idx)
      /\ \A g \in 0 .. idx, j \in Addr!Used :
            Has(Addr!Role("forstree", 0, tree, idx_leaf, 0, Addr!Width * g + j + Addr!ForsOffset))
  <2>1. LeavesMade = idx + 1 /\ 0 .. LeavesMade - 1 = 0 .. idx  BY <1>1, <1>2 DEF LeavesMade
  <2> QED  BY <1>1, <1>2, <2>1 DEF RetraceInv, ForsProgress, InLeaf
<1>4. PICK f, t, n, p, o, d : f = ai /\ t = tree /\ n = idx + 1 /\ p = idx_leaf /\ o = Addr!ForsOffset
                              /\ d = digest
  OBVIOUS
<1>5. /\ log' = log \cup fresh /\ \A e \in fresh' : e = Addr!Call(e.role, e.addr)
      /\ HasNodes("forstree", FORS_HEIGHT, o, 0, t, p, n)'
  BY <1>1, <1>2, <1>3, <1>4, CombineHas
<1>6. CallsShaped' /\ SignedHas'  BY <1>1, <1>5, RetraceFrame
<1>7. Addr!VerifierRetraces'  BY <1>1, <1>2 DEF Addr!VerifierRetraces
<1>8. ASSUME NEW g \in 0 .. idx, NEW j \in Addr!Used, NEW y, y = Addr!Width * g + j
      PROVE  Has(Addr!Role("forstree", 0, t, p, 0, y + o))'
  <2>1. Has(Addr!Role("forstree", 0, t, p, 0, y + o))  BY <1>3, <1>4, <1>8
  <2> QED  BY <1>5, <2>1, Grows
<1>9. t = d.tree /\ p = d.idx_leaf /\ o = f * Addr!Pow2[FORS_HEIGHT]
  BY <1>1, <1>4 DEF RetraceInv, OnPath, InFors, Addr!ForsOffset
<1>10. \A x \in 0 .. f - 1 : HasFors(d, x)'
  BY <1>1, <1>2, <1>4, <1>5, ForsTreesKept DEF InFors
<1>11. CASE idx < Addr!Last(FORS_HEIGHT) /\ idx' = idx + 1 /\ apc' = "forsleaf" /\ UNCHANGED ai
  <2>1. OnPath'  BY <1>1, <1>2, <1>11 DEF RetraceInv, OnPath, InTree, InFors
  <2>2. ForsProgress' /\ TreeProgress'
    <3>1. Addr!ForsOffset' = o /\ Addr!Used' = Addr!Used /\ Addr!Width' = Addr!Width
      BY <1>1, <1>4, <1>11 DEF Addr!ForsOffset, Addr!Used, Addr!Width, Addr!Wide
    <3>2. HasNodes("forstree", FORS_HEIGHT, Addr!ForsOffset, 0, tree, idx_leaf, idx)'
      BY <1>1, <1>4, <1>5, <1>11, <3>1
    <3>3. 0 .. LeavesMade' - 1 = 0 .. idx  BY <1>2, <1>11 DEF LeavesMade
    <3>4. ASSUME NEW g \in 0 .. idx, NEW j \in Addr!Used
          PROVE  Has(Addr!Role("forstree", 0, tree, idx_leaf, 0, Addr!Width * g + j + Addr!ForsOffset))'
      <4>1. PICK y : y = Addr!Width * g + j  OBVIOUS
      <4>2. (Addr!Role("forstree", 0, tree, idx_leaf, 0, Addr!Width * g + j + Addr!ForsOffset))'
            = Addr!Role("forstree", 0, t, p, 0, y + o)
        BY <1>1, <1>4, <3>1, <4>1
      <4>3. Has(Addr!Role("forstree", 0, t, p, 0, y + o))'  BY <1>8, <4>1
      <4> QED  BY <4>2, <4>3 DEF Has
    <3> QED  BY <1>1, <1>4, <1>10, <1>11, <3>1, <3>2, <3>3, <3>4
             DEF ForsProgress, TreeProgress, InFors, InTree, InLeaf
  <2> QED  BY <1>6, <1>7, <2>1, <2>2 DEF RetraceInv
<1>12. CASE idx = Addr!Last(FORS_HEIGHT) /\ ai' = ai + 1
            /\ apc' = IF ai = FORS_SIG_TREES - 1 THEN "forspk" ELSE "fors"
  <2>1. HasFors(d, f)'
    <3>1. ASSUME NEW y \in 0 .. Addr!Pow2[FORS_HEIGHT] - 1
          PROVE  /\ Has(Addr!Role("forstree", 0, t, p, 0, y + o))'
                 /\ HasPath("forstree", FORS_HEIGHT, o, 0, t, p, y)'
      <4>1. PICK g \in 0 .. Addr!Last(FORS_HEIGHT), j \in Addr!Used : Addr!Width * g + j = y
        BY <1>2, LeafCovered
      <4>2. Has(Addr!Role("forstree", 0, t, p, 0, y + o))'  BY <1>8, <1>12, <4>1
      <4>3. HasPath("forstree", FORS_HEIGHT, o, 0, t, p, y)'
        BY <1>1, <1>2, <1>4, <1>5, <1>12, NodesDone
      <4> QED  BY <4>2, <4>3
    <3> QED  BY <1>9, <3>1 DEF HasFors
  <2>2. ASSUME NEW x \in 0 .. f PROVE HasFors(d, x)'
    <3>1. CASE x = f  BY <2>1, <3>1
    <3>2. CASE x \in 0 .. f - 1  BY <1>10, <3>2
    <3> QED  BY <1>2, <1>4, <3>1, <3>2
  <2>3. 0 .. ai' - 1 = 0 .. f /\ digest' = d  BY <1>1, <1>2, <1>4, <1>12
  <2>4. \A x \in 0 .. f : HasFors(digest, x)'  BY <2>2, <2>3
  <2>5. apc' = "forspk" => 0 .. FORS_SIG_TREES - 1 = 0 .. f  BY <1>2, <1>4, <1>12
  <2>6. apc' \in {"fors", "forspk"}  BY <1>12
  <2>7. OnPath'  BY <1>1, <1>2, <2>6 DEF RetraceInv, OnPath, InTree, InFors
  <2>8. ForsProgress' /\ TreeProgress'
    BY <2>3, <2>4, <2>5, <2>6 DEF ForsProgress, TreeProgress, InFors, InTree, InLeaf
  <2> QED  BY <1>6, <1>7, <2>7, <2>8 DEF RetraceInv
<1> QED  BY <1>11, <1>12 DEF Addr!ForsCombine

LEMMA SignLayerRetraces ==
    ASSUME Addr!AddressAssumption, AddrInv, RetraceInv, Addr!SignLayer
    PROVE  RetraceInv'
<1>1. /\ apc = "layer" /\ aop.name = "sign" /\ Addr!NoHash
      /\ UNCHANGED <<aop, digest, asigned, tree, idx_leaf, ai>>
  BY DEF Addr!SignLayer, Addr!callVars
<1>2. log' = log \cup fresh /\ fresh' = {}  BY <1>1 DEF Addr!NoHash, Addr!Hash
<1>3. CallsShaped' /\ SignedHas'  BY <1>1, <1>2, RetraceFrame
<1>4. Addr!VerifierRetraces'  BY <1>1 DEF Addr!VerifierRetraces
<1>5. CASE apc' = "wots" /\ idx' = 0
  <2>1. OnPath'  BY <1>1, <1>5 DEF RetraceInv, OnPath, InTree, InFors
  <2>2. ForsProgress'  BY <1>1, <1>2, <1>5, ForsKept DEF InTree
  <2>3. TreeProgress'
    <3>1. LeavesMade' = 0 /\ 0 .. LeavesMade' - 1 = {} /\ 0 .. idx' - 1 = {}  BY <1>5 DEF LeavesMade
    <3> QED  BY <1>5, <3>1 DEF TreeProgress, HasNodes
  <2> QED  BY <1>3, <1>4, <2>1, <2>2, <2>3 DEF RetraceInv
<1>6. CASE apc' = "idle"
  <2>1. OnPath' /\ ForsProgress' /\ TreeProgress'
    BY <1>1, <1>6 DEF OnPath, ForsProgress, TreeProgress, InTree, InFors, InLeaf
  <2> QED  BY <1>3, <1>4, <2>1 DEF RetraceInv
<1> QED  BY <1>5, <1>6 DEF Addr!SignLayer, Addr!MerkleStart

\* What the signer of the digest being verified has hashed.
LEMMA VerifiedHas ==
    ASSUME RetraceInv, aop.name = "verify" PROVE digest \in asigned /\ HasAll(digest)
BY DEF RetraceInv, OnPath, SignedHas

LEMMA ForsPkRetraces ==
    ASSUME Addr!AddressAssumption, AddrInv, AddrInv', RetraceInv, Addr!ForsPk PROVE RetraceInv'
<1> DEFINE r == Addr!Role("forspk", 0, tree, idx_leaf, 0, 0)
<1>1. /\ apc = "forspk" /\ apc' = "layer" /\ ai' = 0 /\ Addr!Hash({Addr!Call(r, fors_pk_addr)})
      /\ UNCHANGED <<aop, digest, asigned, tree, idx_leaf>>
  BY DEF Addr!ForsPk, Addr!callVars
<1>2. /\ aop.name \in {"sign", "verify"} /\ digest \in MessageDigests
      /\ tree = digest.tree /\ idx_leaf = digest.idx_leaf
  BY <1>1 DEF RetraceInv, OnPath, AddrInv, Places
<1>3. r = Addr!Role("forspk", 0, digest.tree, digest.idx_leaf, 0, 0)  BY <1>2
<1> HIDE DEF r
<1>4. log' = log \cup fresh /\ fresh' = {Addr!Call(r, fors_pk_addr)}  BY <1>1 DEF Addr!Hash
<1>5. \A e \in fresh' : e = Addr!Call(e.role, e.addr) /\ e.role = r  BY <1>4, Shaped
<1>6. CallsShaped' /\ SignedHas'  BY <1>1, <1>4, <1>5, RetraceFrame
<1>7. OnPath'
  <2>1. Path(digest)[0] = <<tree, idx_leaf>>  BY <1>2, PathIs
  <2>2. (Path(digest)[ai])' = Path(digest)[0]  BY <1>1
  <2> QED  BY <1>1, <1>2, <2>1, <2>2 DEF RetraceInv, OnPath, InFors
<1>8. TreeProgress'  BY <1>1 DEF TreeProgress, InTree
<1>9. CASE aop.name = "sign"
  <2>1. PICK d : d = digest  OBVIOUS
  <2>2. \A x \in 0 .. FORS_SIG_TREES - 1 : HasFors(d, x)
    BY <1>1, <1>9, <2>1 DEF RetraceInv, ForsProgress
  <2>3. \A x \in 0 .. FORS_SIG_TREES - 1 : HasFors(d, x)'  BY <1>4, <2>2, Grows
  <2>4. HasForsPk(d)'
    <3>1. \E e \in fresh' : e.role = Addr!Role("forspk", 0, d.tree, d.idx_leaf, 0, 0)
      BY <1>3, <1>4, <1>5, <2>1
    <3> QED  BY <3>1 DEF HasForsPk, Has
  <2>5. HasLayers(d, 0)'
    <3>1. 0 .. 0 - 1 = {}  OBVIOUS
    <3> QED  BY <3>1 DEF HasLayers
  <2>6. digest' = d /\ ai' = 0  BY <1>1, <2>1
  <2>7. ForsProgress'
    <3>1. /\ \A x \in 0 .. FORS_SIG_TREES - 1 : HasFors(digest, x)'
          /\ HasForsPk(digest)' /\ HasLayers(digest, ai)'
      BY <2>3, <2>4, <2>5, <2>6
    <3> QED  BY <1>1, <3>1 DEF ForsProgress, InFors, InLeaf
  <2>8. Addr!VerifierRetraces'  BY <1>1, <1>9 DEF Addr!VerifierRetraces
  <2> QED  BY <1>6, <1>7, <1>8, <2>7, <2>8 DEF RetraceInv
<1>10. CASE aop.name = "verify"
  <2>1. Has(r)  BY <1>3, <1>10, VerifiedHas DEF HasAll, HasForsPk
  <2>2. Addr!VerifierRetraces'  BY <1>4, <1>5, <2>1, RetracedStep
  <2>3. ForsProgress'  BY <1>1, <1>10 DEF ForsProgress
  <2> QED  BY <1>6, <1>7, <1>8, <2>2, <2>3 DEF RetraceInv
<1> QED  BY <1>2, <1>9, <1>10

LEMMA VerifyBeginRetraces ==
    ASSUME Addr!AddressAssumption, AddrInv, RetraceInv, Addr!VerifyBegin PROVE RetraceInv'
<1>1. PICK d \in asigned : Addr!Open(d)  BY DEF Addr!VerifyBegin
<1>2. /\ apc' = "fors" /\ aop'.name = "verify" /\ Addr!NoHash /\ asigned' = asigned
  BY DEF Addr!VerifyBegin, Addr!Begin
<1>3. tree' = d.tree /\ idx_leaf' = d.idx_leaf /\ ai' = 0 /\ digest' = d  BY <1>1 DEF Addr!Open
<1>4. log' = log \cup fresh /\ fresh' = {}  BY <1>2 DEF Addr!NoHash, Addr!Hash
<1>5. CallsShaped' /\ SignedHas'  BY <1>2, <1>4, RetraceFrame
<1>6. OnPath' /\ Addr!VerifierRetraces'
  BY <1>1, <1>2, <1>3, <1>4 DEF OnPath, Addr!VerifierRetraces, InTree
<1>7. ForsProgress' /\ TreeProgress'  BY <1>2 DEF ForsProgress, TreeProgress, InTree
<1> QED  BY <1>5, <1>6, <1>7 DEF RetraceInv

LEMMA VerifyForsTreeRetraces ==
    ASSUME Addr!AddressAssumption, AddrInv, AddrInv', RetraceInv, Addr!VerifyForsTree PROVE RetraceInv'
<1> DEFINE index == digest.indices[ai]
           lf == Addr!LeafAddr(node_addr[0], index + Addr!ForsOffset)
           role(l) == Addr!Role("forstree", 0, tree, idx_leaf, l, Addr!PathIndex(index, Addr!ForsOffset, l))
           up(l) == Addr!PathAddr(lf, index, Addr!ForsOffset, l)
<1>1. /\ apc = "fors" /\ aop.name = "verify" /\ ai' = ai + 1
      /\ apc' = IF ai = FORS_SIG_TREES - 1 THEN "forspk" ELSE "fors"
      /\ Addr!Hash({Addr!Call(role(0), lf)} \cup {Addr!Call(role(l), up(l)) : l \in 1 .. FORS_HEIGHT})
      /\ UNCHANGED <<aop, digest, asigned, tree, idx_leaf>>
  BY DEF Addr!VerifyForsTree, Addr!callVars
<1>2. /\ log' = log \cup fresh
      /\ fresh' = {Addr!Call(role(0), lf)} \cup {Addr!Call(role(l), up(l)) : l \in 1 .. FORS_HEIGHT}
  BY <1>1 DEF Addr!Hash
<1>3. /\ digest \in MessageDigests /\ ai \in 0 .. FORS_SIG_TREES - 1
      /\ tree = digest.tree /\ idx_leaf = digest.idx_leaf
  BY <1>1, AddrSizes DEF RetraceInv, OnPath, AddrInv, Addr!TypeOK, Places, InFors
<1>4. index \in 0 .. Addr!Pow2[FORS_HEIGHT] - 1 /\ Addr!Pow2[FORS_HEIGHT] \in Nat /\ index \in Nat
  <2>1. index \in 0 .. Addr!Pow2[FORS_HEIGHT] - 1  BY <1>3 DEF Addr!AddressAssumption
  <2>2. Addr!Pow2[FORS_HEIGHT] \in Nat  BY AddrSizes, AddrPow2
  <2> QED  BY <2>1, <2>2
<1>5. /\ Has(Addr!Role("forstree", 0, tree, idx_leaf, 0, index + Addr!ForsOffset))
      /\ \A l \in 1 .. FORS_HEIGHT : Has(role(l))
  <2>1. HasFors(digest, ai)  BY <1>1, <1>3, VerifiedHas DEF HasAll
  <2> QED  BY <1>3, <1>4, <2>1 DEF HasFors, HasPath, Addr!ForsOffset
<1>6. Has(role(0))
  <2>1. Addr!PathIndex(index, Addr!ForsOffset, 0) = index + Addr!ForsOffset
    <3>1. Addr!Pow2[0] = 1  BY AddrPow2
    <3>2. Addr!ForsOffset \in Nat  BY <1>3, <1>4 DEF Addr!ForsOffset
    <3>3. \A x \in Nat : x \div 1 = x  OBVIOUS
    <3> QED  BY <1>4, <3>1, <3>2, <3>3 DEF Addr!PathIndex, Addr!Shr
  <2> QED  BY <1>5, <2>1
<1> HIDE DEF index, lf, role, up
<1>7. \A e \in fresh' : e = Addr!Call(e.role, e.addr) /\ Has(e.role)
  <2>1. ASSUME NEW e \in fresh' PROVE e = Addr!Call(e.role, e.addr) /\ Has(e.role)
    <3>1. CASE e = Addr!Call(role(0), lf)  BY <1>6, <3>1, Shaped
    <3>2. CASE e \in {Addr!Call(role(l), up(l)) : l \in 1 .. FORS_HEIGHT}
      <4>1. PICK l \in 1 .. FORS_HEIGHT : e = Addr!Call(role(l), up(l))  BY <3>2
      <4> QED  BY <1>5, <4>1, Shaped
    <3> QED  BY <1>2, <3>1, <3>2
  <2> QED  BY <2>1
<1>8. CallsShaped' /\ SignedHas'  BY <1>1, <1>2, <1>7, RetraceFrame
<1>9. Addr!VerifierRetraces'  BY <1>2, <1>7, RetracedStep
<1>10. apc' \in {"fors", "forspk"}  BY <1>1
<1>11. OnPath'  BY <1>1, <1>10 DEF RetraceInv, OnPath, InTree, InFors
<1>12. ForsProgress' /\ TreeProgress'  BY <1>1, <1>10 DEF ForsProgress, TreeProgress, InTree
<1> QED  BY <1>8, <1>9, <1>11, <1>12 DEF RetraceInv

LEMMA VerifyLayerRetraces ==
    ASSUME Addr!AddressAssumption, AddrInv, RetraceInv, Addr!VerifyLayer PROVE RetraceInv'
<1>1. /\ apc = "layer" /\ apc' = "chains" /\ aop.name = "verify" /\ Addr!NoHash
      /\ UNCHANGED <<aop, digest, asigned, tree, idx_leaf, ai>>
  BY DEF Addr!VerifyLayer, Addr!callVars
<1>2. log' = log \cup fresh /\ fresh' = {}  BY <1>1 DEF Addr!NoHash, Addr!Hash
<1>3. CallsShaped' /\ SignedHas'  BY <1>1, <1>2, RetraceFrame
<1>4. OnPath' /\ Addr!VerifierRetraces'
  BY <1>1, <1>2 DEF RetraceInv, OnPath, Addr!VerifierRetraces, InTree, InFors
<1>5. ForsProgress' /\ TreeProgress'  BY <1>1 DEF ForsProgress, TreeProgress, InTree
<1> QED  BY <1>3, <1>4, <1>5 DEF RetraceInv

\* The layer the verifier is in.
LEMMA LayerHashed ==
    ASSUME Addr!AddressAssumption, AddrInv, RetraceInv, apc = "chains"
    PROVE  aop.name = "verify" /\ HasLayer(ai, tree, idx_leaf)
<1>1. aop.name = "verify" /\ ai \in 0 .. D - 1  BY AddrSizes DEF AddrInv, Places, Addr!TypeOK
<1>2. <<tree, idx_leaf>> = Path(digest)[ai]  BY <1>1 DEF RetraceInv, OnPath
<1>3. tree = Path(digest)[ai][1] /\ idx_leaf = Path(digest)[ai][2]  BY <1>2
<1>4. HasLayers(digest, D)  BY <1>1, VerifiedHas DEF HasAll
<1> QED  BY <1>1, <1>3, <1>4 DEF HasLayers

LEMMA VerifyChainRetraces ==
    ASSUME Addr!AddressAssumption, AddrInv, AddrInv', RetraceInv, Addr!VerifyChain PROVE RetraceInv'
<1>1. PICK lens \in Lengths :
         Addr!Hash({Addr!Call(Addr!Role("wots", ai, tree, idx_leaf, ac, pos), Addr!set_hash_addr(Addr!set_chain_addr(wots_addr, ac), pos)) :
                 pos \in Addr!ChainSteps(lens[ac])})
  BY DEF Addr!VerifyChain
<1> DEFINE made(pos) == Addr!Call(Addr!Role("wots", ai, tree, idx_leaf, ac, pos),
                           Addr!set_hash_addr(Addr!set_chain_addr(wots_addr, ac), pos))
<1>2. log' = log \cup fresh /\ fresh' = {made(pos) : pos \in Addr!ChainSteps(lens[ac])}
  BY <1>1 DEF Addr!Hash
<1>3. /\ apc = "chains" /\ apc' = "chains" /\ ac < WOTS_LEN
      /\ UNCHANGED <<aop, digest, asigned, tree, idx_leaf, ai>>
  BY DEF Addr!VerifyChain, Addr!callVars
<1>4. ac \in 0 .. WOTS_LEN - 1 /\ Addr!ChainSteps(lens[ac]) \subseteq 0 .. WOTS_W - 2
  <2>1. ac \in 0 .. WOTS_LEN - 1  BY <1>3, AddrSizes DEF AddrInv, Addr!TypeOK
  <2>2. lens[ac] \in 0 .. WOTS_W - 1  BY <2>1 DEF Addr!AddressAssumption
  <2> QED  BY <2>1, <2>2, AddrSizes DEF Addr!ChainSteps
<1>5. aop.name = "verify" /\ HasLayer(ai, tree, idx_leaf)  BY <1>3, LayerHashed
<1>6. \A pos \in 0 .. WOTS_W - 2 : Has(Addr!Role("wots", ai, tree, idx_leaf, ac, pos))
  BY <1>4, <1>5 DEF HasLayer, HasKeyPair, HasChain
<1>7. \A e \in fresh' : e = Addr!Call(e.role, e.addr) /\ Has(e.role)
  <2>1. \A pos \in 0 .. WOTS_W - 2 : made(pos) = Addr!Call(made(pos).role, made(pos).addr) /\ Has(made(pos).role)
    BY <1>6, Shaped
  <2> HIDE DEF made
  <2> QED  BY <1>2, <1>4, <2>1
<1>8. CallsShaped' /\ SignedHas'  BY <1>2, <1>3, <1>7, RetraceFrame
<1>9. Addr!VerifierRetraces'  BY <1>2, <1>7, RetracedStep
<1>10. OnPath'  BY <1>3, <1>5 DEF RetraceInv, OnPath, InTree, InFors
<1>11. ForsProgress' /\ TreeProgress'  BY <1>3, <1>5 DEF ForsProgress, TreeProgress, InTree
<1> QED  BY <1>8, <1>9, <1>10, <1>11 DEF RetraceInv

LEMMA VerifyRootRetraces ==
    ASSUME Addr!AddressAssumption, AddrInv, AddrInv', RetraceInv, Addr!VerifyRoot PROVE RetraceInv'
<1> DEFINE pkRole == Addr!Role("wotspk", ai, tree, idx_leaf, 0, 0)
           role(l) == Addr!Role("hashtree", ai, tree, 0, l, Addr!PathIndex(idx_leaf, 0, l))
           up(l) == Addr!PathAddr(tree_addr, idx_leaf, 0, l)
<1>1. /\ apc = "chains" /\ apc' = (IF ai = D - 1 THEN "idle" ELSE "layer") /\ Addr!NextLayer
      /\ Addr!Hash({Addr!Call(pkRole, wots_pk_addr)} \cup {Addr!Call(role(l), up(l)) : l \in 1 .. TREE_HEIGHT})
      /\ UNCHANGED <<aop, digest, asigned>>
  BY DEF Addr!VerifyRoot, Addr!callVars
<1>2. /\ log' = log \cup fresh
      /\ fresh' = {Addr!Call(pkRole, wots_pk_addr)} \cup {Addr!Call(role(l), up(l)) : l \in 1 .. TREE_HEIGHT}
  BY <1>1 DEF Addr!Hash
<1>3. aop.name = "verify" /\ HasLayer(ai, tree, idx_leaf)  BY <1>1, LayerHashed
<1>4. Has(pkRole) /\ \A l \in 1 .. TREE_HEIGHT : Has(role(l))
  BY <1>3 DEF HasLayer, HasKeyPair, HasPath
<1> HIDE DEF pkRole, role, up
<1>5. \A e \in fresh' : e = Addr!Call(e.role, e.addr) /\ Has(e.role)
  <2>1. ASSUME NEW e \in fresh' PROVE e = Addr!Call(e.role, e.addr) /\ Has(e.role)
    <3>1. CASE e = Addr!Call(pkRole, wots_pk_addr)  BY <1>4, <3>1, Shaped
    <3>2. CASE e \in {Addr!Call(role(l), up(l)) : l \in 1 .. TREE_HEIGHT}
      <4>1. PICK l \in 1 .. TREE_HEIGHT : e = Addr!Call(role(l), up(l))  BY <3>2
      <4> QED  BY <1>4, <4>1, Shaped
    <3> QED  BY <1>2, <3>1, <3>2
  <2> QED  BY <2>1
<1>6. CallsShaped' /\ SignedHas'  BY <1>1, <1>2, <1>5, RetraceFrame
<1>7. Addr!VerifierRetraces'  BY <1>2, <1>5, RetracedStep
<1>8. ForsProgress' /\ TreeProgress'
  BY <1>1, <1>3 DEF ForsProgress, TreeProgress, InTree
<1>9. OnPath'
  <2>1. digest \in MessageDigests /\ digest \in asigned /\ ai \in Nat /\ ai < D /\ D \in Nat
    BY <1>1, <1>3, VerifiedHas, AddrSizes DEF AddrInv, Places, Addr!TypeOK
  <2>2. CASE ai = D - 1
    <3>1. apc' = "idle"  BY <1>1, <2>2
    <3> QED  BY <1>1, <2>1, <3>1 DEF OnPath, InFors, InTree
  <2>3. CASE ai # D - 1
    <3>1. PICK l, t, d : l = ai /\ t = tree /\ d = digest  OBVIOUS
    <3>2. <<tree, idx_leaf>> = Path(digest)[ai]  BY <1>1, <1>3 DEF RetraceInv, OnPath
    <3>3. t = Path(d)[l][1]  BY <3>1, <3>2
    <3>4. /\ apc' = "layer" /\ ai' = l + 1 /\ digest' = d
          /\ tree' = Addr!Shr(t, TREE_HEIGHT) /\ idx_leaf' = t % Addr!Pow2[TREE_HEIGHT]
      BY <1>1, <2>3, <3>1 DEF Addr!NextLayer, Addr!ParentLeaf
    <3>5. l + 1 \in 1 .. D /\ (l + 1) - 1 = l  BY <2>1, <2>3, <3>1
    <3>6. Path(d)[l + 1] = <<Addr!Shr(t, TREE_HEIGHT), t % Addr!Pow2[TREE_HEIGHT]>>
      BY <2>1, <3>1, <3>3, <3>5, PathIs
    <3>7. <<tree', idx_leaf'>> = Path(d)[ai']  BY <3>4, <3>6
    <3>8. (Path(digest)[ai])' = Path(d)[ai']  BY <3>4
    <3> QED  BY <1>1, <2>1, <3>4, <3>7, <3>8 DEF OnPath, InFors
  <2> QED  BY <2>2, <2>3
<1> QED  BY <1>6, <1>7, <1>8, <1>9 DEF RetraceInv

LEMMA RetraceInit == ASSUME Addr!Init PROVE RetraceInv
BY DEF Addr!Init, RetraceInv, OnPath, ForsProgress, TreeProgress, SignedHas, CallsShaped, Addr!VerifierRetraces,
       InTree, InFors

LEMMA RetraceStep ==
    ASSUME Addr!AddressAssumption, AddrInv, RetraceInv, Addr!Next \/ UNCHANGED Addr!vars
    PROVE  RetraceInv'
<1>1. AddrInv'  BY AddrInvStep
<1>2. CASE Addr!KeyGen  BY <1>2, KeyGenRetraces
<1>3. CASE Addr!WotsLeaf  BY <1>3, WotsLeafRetraces
<1>4. CASE Addr!WotsChain  BY <1>4, WotsChainRetraces
<1>5. CASE Addr!WotsPk  BY <1>5, WotsPkRetraces
<1>6. CASE Addr!MerkleCombine  BY <1>6, MerkleCombineRetraces
<1>7. CASE Addr!SignBegin  BY <1>7, SignBeginRetraces
<1>8. CASE Addr!ForsTree  BY <1>8, ForsTreeRetraces
<1>9. CASE Addr!ForsLeaf  BY <1>9, ForsLeafRetraces
<1>10. CASE Addr!ForsCombine  BY <1>10, ForsCombineRetraces
<1>11. CASE Addr!ForsPk  BY <1>1, <1>11, ForsPkRetraces
<1>12. CASE Addr!SignLayer  BY <1>12, SignLayerRetraces
<1>13. CASE Addr!VerifyBegin  BY <1>13, VerifyBeginRetraces
<1>14. CASE Addr!VerifyForsTree  BY <1>1, <1>14, VerifyForsTreeRetraces
<1>15. CASE Addr!VerifyLayer  BY <1>15, VerifyLayerRetraces
<1>16. CASE Addr!VerifyChain  BY <1>1, <1>16, VerifyChainRetraces
<1>17. CASE Addr!VerifyRoot  BY <1>1, <1>17, VerifyRootRetraces
<1>18. CASE UNCHANGED Addr!vars
  <2>1. UNCHANGED <<apc, aop, digest, asigned, tree, idx_leaf, ai, idx, ac, fresh, log>>
    BY <1>18 DEF Addr!vars, Addr!callVars
  <2> QED  BY <2>1 DEF RetraceInv, OnPath, ForsProgress, TreeProgress, SignedHas, CallsShaped,
              Addr!VerifierRetraces, HasAll, HasFors, HasForsPk, HasLayers, HasLayer, HasKeyPair, HasChain,
              HasPath, HasNodes, Has, NodeAt, CompletedAt, Addr!Real, Addr!left_adj, Addr!Last, Addr!Width, Addr!Used, Addr!Wide,
              LeavesMade, Addr!Leaf, Addr!ForsOffset
<1> QED  BY <1>2, <1>3, <1>4, <1>5, <1>6, <1>7, <1>8, <1>9, <1>10, <1>11, <1>12, <1>13, <1>14, <1>15,
         <1>16, <1>17, <1>18 DEF Addr!Next, Addr!Finished

----------------------------------------------------------------------------
(* The fields of a message digest: powers and sums.                        *)

LEMMA FieldsPow ==
    /\ Fields!Pow2[0] = 1
    /\ \A n \in Nat : Fields!Pow2[n] \in Nat \ {0} /\ Fields!Pow2[n + 1] = 2 * Fields!Pow2[n]
    /\ \A l \in Nat, m \in Nat : Fields!Pow2[l + m] = Fields!Pow2[l] * Fields!Pow2[m]
<1>1. Fields!Pow2 = Addr!Pow2  BY DEF Fields!Pow2, Addr!Pow2
<1> QED  BY <1>1, AddrPow2, Pow2Sum

\* A power below another divides it, an even number of times.
LEMMA PowerBetween ==
    ASSUME NEW x \in Nat, NEW y \in Nat, x < y
    PROVE  \E b \in Nat \ {0} : Fields!Pow2[y] = Fields!Pow2[x] * (2 * b) /\ Fields!Pow2[x] < Fields!Pow2[y]
<1> DEFINE z == y - x - 1
           p == Fields!Pow2[x]
           b == Fields!Pow2[z]
<1>1. z \in Nat /\ z + 1 \in Nat /\ y = x + (z + 1)  OBVIOUS
<1>2. p \in Nat \ {0} /\ b \in Nat \ {0} /\ Fields!Pow2[z + 1] = 2 * b
  BY <1>1, FieldsPow
<1>3. Fields!Pow2[y] = p * (2 * b)  BY <1>1, <1>2, FieldsPow
<1> HIDE DEF z, p, b
<1>4. p * (2 * b) = 2 * (p * b) /\ p * b >= p /\ p * b \in Nat  BY <1>2
<1>5. p < p * (2 * b)  BY <1>2, <1>4
<1> QED  BY <1>2, <1>3, <1>5 DEF p

\* The recursion of Sum.
LEMMA SumIs ==
    ASSUME NEW n \in Nat, NEW t \in [1 .. n -> Int]
    PROVE  \E g \in [0 .. n -> Int] :
             g[0] = 0 /\ (\A b \in 1 .. n : g[b] = g[b - 1] + t[b]) /\ Fields!Sum(n, t) = g[n]
<1> DEFINE F == [p \in (1 .. n) \X Int |-> p[2] + t[p[1]]]
           Body(g) == [b \in 0 .. n |-> IF b = 0 THEN 0 ELSE g[b - 1] + t[b]]
           s == CHOOSE g : g = Body(g)
<1>1. F \in [(1 .. n) \X Int -> Int] /\ 0 \in Int  OBVIOUS
<1>2. \A b \in 1 .. n, y \in Int : F[<<b, y>>] = y + t[b]  OBVIOUS
<1> HIDE DEF F
<1>3. PICK g \in [0 .. n -> Int] : Iterates(g, n, 0, F)  BY <1>1, Recursion
<1>4. g = Body(g)
  <2>1. ASSUME NEW b \in 0 .. n, b # 0 PROVE g[b] = g[b - 1] + t[b]
    <3>1. b \in 1 .. n /\ b - 1 \in 0 .. n  BY <2>1
    <3>2. g[b] = F[<<b, g[b - 1]>>] /\ g[b - 1] \in Int  BY <1>3, <3>1 DEF Iterates
    <3> QED  BY <1>2, <3>1, <3>2
  <2>2. g[0] = 0  BY <1>3 DEF Iterates
  <2> QED  BY <2>1, <2>2
<1>5. s = Body(s)
  <2> HIDE DEF Body
  <2> QED  BY <1>4
<1>6. Fields!Sum(n, t) = s[n]  BY DEF Fields!Sum
<1> HIDE DEF s
<1>7. s[0] = 0  BY <1>5
<1>8. ASSUME NEW b \in 1 .. n PROVE s[b] = s[b - 1] + t[b]
  <2>1. b \in 0 .. n /\ b # 0  OBVIOUS
  <2> QED  BY <1>5, <2>1
<1> DEFINE T == {b \in Nat : b <= n => s[b] \in Int}
<1>9. 0 \in T  BY <1>7
<1>10. ASSUME NEW b \in Nat, b \in T PROVE b + 1 \in T
  <2> SUFFICES ASSUME b + 1 <= n PROVE s[b + 1] \in Int  OBVIOUS
  <2>1. b + 1 \in 1 .. n /\ b + 1 - 1 = b /\ b <= n  OBVIOUS
  <2> QED  BY <1>8, <1>10, <2>1
<1> HIDE DEF T
<1>11. Nat \subseteq T  BY <1>9, <1>10, Induct
<1>12. \A b \in 0 .. n : s[b] \in Int  BY <1>11 DEF T
<1>13. s \in [0 .. n -> Int]
  <2>1. s = [b \in 0 .. n |-> s[b]]  BY <1>5
  <2> QED  BY <1>12, <2>1
<1> QED  BY <1>6, <1>7, <1>8, <1>13

\* Terms that differ in one place, by as much as the sums.
LEMMA SumsDiffer ==
    ASSUME NEW n \in Nat, NEW t \in [1 .. n -> Int], NEW u \in [1 .. n -> Int],
           NEW x \in 1 .. n, NEW d \in Int, \A b \in 1 .. n : b # x => u[b] = t[b], u[x] = t[x] + d
    PROVE  Fields!Sum(n, u) = Fields!Sum(n, t) + d /\ Fields!Sum(n, t) \in Int
<1>1. PICK g \in [0 .. n -> Int] :
        g[0] = 0 /\ (\A b \in 1 .. n : g[b] = g[b - 1] + t[b]) /\ Fields!Sum(n, t) = g[n]  BY SumIs
<1>2. PICK h \in [0 .. n -> Int] :
        h[0] = 0 /\ (\A b \in 1 .. n : h[b] = h[b - 1] + u[b]) /\ Fields!Sum(n, u) = h[n]  BY SumIs
<1>3. \A b \in 0 .. n : g[b] \in Int /\ h[b] \in Int  OBVIOUS
<1>4. \A b \in 1 .. n : t[b] \in Int /\ u[b] \in Int  OBVIOUS
<1> DEFINE T == {b \in Nat : b <= n => h[b] = (IF b < x THEN g[b] ELSE g[b] + d)}
<1>6. 0 \in T  BY <1>1, <1>2
<1>7. ASSUME NEW b \in Nat, b \in T PROVE b + 1 \in T
  <2> SUFFICES ASSUME b + 1 <= n
               PROVE  h[b + 1] = (IF b + 1 < x THEN g[b + 1] ELSE g[b + 1] + d)  OBVIOUS
  <2>1. b + 1 \in 1 .. n /\ b + 1 - 1 = b /\ b <= n /\ b \in 0 .. n /\ b + 1 \in 0 .. n  OBVIOUS
  <2>2a. h[b + 1] = h[b + 1 - 1] + u[b + 1] /\ g[b + 1] = g[b + 1 - 1] + t[b + 1]
    BY ONLY <1>1, <1>2, <2>1
  <2>2. h[b + 1] = h[b] + u[b + 1] /\ g[b + 1] = g[b] + t[b + 1]  BY ONLY <2>1, <2>2a
  <2>3. h[b] = (IF b < x THEN g[b] ELSE g[b] + d)  BY <1>7, <2>1
  <2>4. PICK p \in Int, q \in Int : p = g[b] /\ q = t[b + 1]  BY <1>3, <1>4, <2>1
  <2>5. CASE b + 1 = x
    <3>0. u[b + 1] = u[x] /\ t[b + 1] = t[x]  BY ONLY <2>5
    <3>0a. b < x /\ ~(b + 1 < x)  BY <2>5
    <3>1. b < x /\ ~(b + 1 < x) /\ u[b + 1] = q + d  BY <2>4, <3>0, <3>0a
    <3>2. h[b + 1] = p + (q + d) /\ g[b + 1] = p + q  BY <2>2, <2>3, <2>4, <3>1
    <3>3. h[b + 1] = g[b + 1] + d  BY <3>2
    <3> QED  BY <3>1, <3>3
  <2>6. CASE b + 1 < x
    <3>1. b < x /\ u[b + 1] = t[b + 1]  BY <2>1, <2>6
    <3> QED  BY <2>2, <2>3, <2>6, <3>1
  <2>7. CASE b + 1 > x
    <3>1. ~(b < x) /\ ~(b + 1 < x) /\ u[b + 1] = q  BY <2>1, <2>4, <2>7
    <3>2. h[b + 1] = (p + d) + q /\ g[b + 1] = p + q  BY <2>2, <2>3, <2>4, <3>1
    <3>3. h[b + 1] = g[b + 1] + d  BY <3>2
    <3> QED  BY <3>1, <3>3
  <2> QED  BY <2>5, <2>6, <2>7
<1> HIDE DEF T
<1>8. Nat \subseteq T  BY <1>6, <1>7, Induct
<1>9. h[n] = g[n] + d  BY <1>8 DEF T
<1> QED  BY <1>1, <1>2, <1>3, <1>9

Differ(n, t, u, x, d) ==
    /\ n \in Nat /\ {t, u} \subseteq [1 .. n -> Int] /\ x \in 1 .. n /\ d \in Int
    /\ (\A b \in 1 .. n : b # x => u[b] = t[b]) /\ u[x] = t[x] + d

LEMMA SumChange ==
    ASSUME NEW n, NEW t, NEW u, NEW x, NEW d, Differ(n, t, u, x, d)
    PROVE  Fields!Sum(n, u) = Fields!Sum(n, t) + d /\ Fields!Sum(n, t) \in Int
<1>1. /\ n \in Nat /\ t \in [1 .. n -> Int] /\ u \in [1 .. n -> Int] /\ x \in 1 .. n /\ d \in Int
      /\ (\A b \in 1 .. n : b # x => u[b] = t[b]) /\ u[x] = t[x] + d
  BY DEF Differ
<1> QED  BY <1>1, SumsDiffer, Zenon

\* Sums of naturals, and of digits of base two.
LEMMA SumNat ==
    ASSUME NEW n \in Nat, NEW t \in [1 .. n -> Nat] PROVE Fields!Sum(n, t) \in Nat
<1>1. PICK g \in [0 .. n -> Int] :
        g[0] = 0 /\ (\A b \in 1 .. n : g[b] = g[b - 1] + t[b]) /\ Fields!Sum(n, t) = g[n]
  <2>1. t \in [1 .. n -> Int]  OBVIOUS
  <2> QED  BY <2>1, SumIs
<1> DEFINE T == {b \in Nat : b <= n => g[b] \in Nat}
<1>2. 0 \in T  BY <1>1
<1>3. ASSUME NEW b \in Nat, b \in T PROVE b + 1 \in T
  <2> SUFFICES ASSUME b + 1 <= n PROVE g[b + 1] \in Nat  OBVIOUS
  <2>1. b + 1 \in 1 .. n /\ b + 1 - 1 = b /\ b <= n  OBVIOUS
  <2>2. g[b + 1] = g[b] + t[b + 1] /\ t[b + 1] \in Nat /\ g[b] \in Nat  BY <1>1, <1>3, <2>1
  <2> QED  BY <2>2
<1> HIDE DEF T
<1>4. Nat \subseteq T  BY <1>2, <1>3, Induct
<1> QED  BY <1>1, <1>4 DEF T

LEMMA SumBits ==
    ASSUME NEW n \in Nat, NEW t \in [1 .. n -> Int],
           \A b \in 1 .. n : t[b] \in {0, Fields!Pow2[b - 1]}
    PROVE  Fields!Sum(n, t) \in 0 .. Fields!Pow2[n] - 1
<1>1. PICK g \in [0 .. n -> Int] :
        g[0] = 0 /\ (\A b \in 1 .. n : g[b] = g[b - 1] + t[b]) /\ Fields!Sum(n, t) = g[n]  BY SumIs
<1> DEFINE T == {b \in Nat : b <= n => g[b] \in 0 .. Fields!Pow2[b] - 1}
<1>2. 0 \in T
  <2>1. g[0] = 0 /\ Fields!Pow2[0] - 1 = 0  BY <1>1, FieldsPow
  <2> QED  BY <2>1
<1>3. ASSUME NEW b \in Nat, b \in T PROVE b + 1 \in T
  <2> SUFFICES ASSUME b + 1 <= n PROVE g[b + 1] \in 0 .. Fields!Pow2[b + 1] - 1  OBVIOUS
  <2>1. b + 1 \in 1 .. n /\ b + 1 - 1 = b /\ b <= n  OBVIOUS
  <2>2. g[b + 1] = g[b] + t[b + 1] /\ t[b + 1] \in {0, Fields!Pow2[b]}  BY <1>1, <2>1
  <2>3. g[b] \in 0 .. Fields!Pow2[b] - 1  BY <1>3, <2>1
  <2>4. Fields!Pow2[b + 1] = 2 * Fields!Pow2[b] /\ Fields!Pow2[b] \in Nat  BY FieldsPow
  <2>5. \A p \in Nat : \A y \in 0 .. p - 1, z \in {0, p} : y + z \in 0 .. 2 * p - 1  OBVIOUS
  <2>6. g[b] + t[b + 1] \in 0 .. 2 * Fields!Pow2[b] - 1  BY ONLY <2>2, <2>3, <2>4, <2>5
  <2> QED  BY ONLY <2>2, <2>4, <2>6
<1> HIDE DEF T
<1>4. Nat \subseteq T  BY <1>2, <1>3, Induct
<1> QED  BY <1>1, <1>4 DEF T

----------------------------------------------------------------------------
(* One bit turned over.                                                    *)

\* A bit of a number, and the number with the bit turned over.
BitAt(v, e) == (v \div Fields!Pow2[e]) % 2
Turned(v, b) == IF BitAt(v, b) = 1 THEN v - Fields!Pow2[b] ELSE v + Fields!Pow2[b]

\* The bits of a number given as what is above one bit, the bit, and what is below.
Whole(p, a, t, r) == (p * 2) * a + (p * t + r)

LEMMA WholeAt ==
    ASSUME NEW p \in Nat \ {0}, NEW a \in Nat, NEW t \in {0, 1}, NEW r \in 0 .. p - 1
    PROVE  (Whole(p, a, t, r) \div p) % 2 = t
<1>1. PICK y \in Nat : y = 2 * a + t  OBVIOUS
<1>2. Whole(p, a, t, r) = p * y + r  BY <1>1 DEF Whole
<1>3. (p * y + r) \div p = y  BY DivUnique
<1>4. y % 2 = t  BY <1>1
<1> QED  BY <1>2, <1>3, <1>4

Multiple(f, p, q) == f = (p * 2) * q

LEMMA WholeAbove ==
    ASSUME NEW p \in Nat \ {0}, NEW a \in Nat, NEW t \in {0, 1}, NEW r \in 0 .. p - 1,
           NEW q \in Nat \ {0}, NEW f \in Nat, Multiple(f, p, q)
    PROVE  Whole(p, a, t, r) \div f = a \div q
<1>1. PICK u \in Nat, s \in 0 .. q - 1 : u = a \div q /\ s = a % q /\ a = q * u + s  BY DivMod
<1>2. PICK h \in Nat \ {0}, w \in Nat : h = p * 2 /\ w = p * t + r /\ w < h
  <2>1. p * t \in Nat /\ p * t + r \in 0 .. p * 2 - 1 /\ p * 2 \in Nat \ {0}  OBVIOUS
  <2> QED  BY <2>1
<1>3. f = h * q /\ f \in Nat \ {0}  BY <1>2 DEF Multiple
<1>4. Whole(p, a, t, r) = h * a + w  BY <1>2 DEF Whole
<1>5. h * a = f * u + h * s
  <2>1. PICK y \in Nat : y = q * u  BY MulNat
  <2>2. h * y = f * u  BY <1>3, <2>1
  <2>3. h * (y + s) = h * y + h * s  OBVIOUS
  <2> QED  BY <1>1, <2>1, <2>2, <2>3
<1>6. h * s <= h * (q - 1) /\ h * (q - 1) = h * q - h /\ h * s \in Nat  OBVIOUS
<1>7. PICK x \in 0 .. f - 1 : x = h * s + w  BY <1>2, <1>3, <1>6
<1>8. Whole(p, a, t, r) = f * u + x
  <2>1. f * u \in Nat  BY <1>3, MulNat
  <2> QED  BY <1>4, <1>5, <1>6, <1>7, <2>1
<1>9. (f * u + x) \div f = u  BY <1>3, DivUnique
<1> QED  BY <1>1, <1>8, <1>9

\* The lowest bit of v over q.
LowBit(v, q) == (v \div q) % 2

LEMMA WholeBelow ==
    ASSUME NEW p \in Nat, NEW a \in Nat, NEW t \in {0, 1}, NEW r \in 0 .. p - 1,
           NEW q \in Nat \ {0}, NEW z \in Nat, Multiple(p, q, z)
    PROVE  LowBit(Whole(p, a, t, r), q) = LowBit(r, q)
<1>1. r \in Nat  OBVIOUS
<1>2. PICK w \in Nat, v \in 0 .. q - 1 : w = r \div q /\ v = r % q /\ r = q * w + v  BY <1>1, DivMod
<1>3. PICK g \in Nat : g = 2 * a + t  OBVIOUS
<1>4. PICK y \in Nat : y = z * g  BY MulNat
<1>5. Whole(p, a, t, r) = p * g + r  BY <1>3 DEF Whole
<1>6. p * g = q * (2 * y)  BY <1>4 DEF Multiple
<1>7. q * (2 * y) + q * w = q * (2 * y + w)
  <2>1. \A x \in Nat : q * x + q * w = q * (x + w)  OBVIOUS
  <2> QED  BY <2>1
<1>8. Whole(p, a, t, r) = q * (2 * y + w) + v
  <2>1. q * (2 * y) \in Nat /\ q * w \in Nat  BY MulNat
  <2> QED  BY <1>2, <1>5, <1>6, <1>7, <2>1
<1>9. PICK x \in Nat : x = 2 * y + w  OBVIOUS
<1>10. (q * x + v) \div q = x  BY DivUnique
<1>11. x % 2 = w % 2  BY <1>9
<1> QED  BY <1>2, <1>8, <1>9, <1>10, <1>11 DEF LowBit

LEMMA WholeBits ==
    ASSUME NEW b \in Nat, NEW a \in Nat, NEW t \in {0, 1}, NEW r \in 0 .. Fields!Pow2[b] - 1, NEW e \in Nat
    PROVE  BitAt(Whole(Fields!Pow2[b], a, t, r), e)
             = IF e = b THEN t
               ELSE IF e > b THEN (a \div Fields!Pow2[e - b - 1]) % 2 ELSE (r \div Fields!Pow2[e]) % 2
<1>1. Fields!Pow2[b] \in Nat \ {0}  BY FieldsPow
<1>2. CASE e = b  BY <1>1, <1>2, WholeAt DEF BitAt
<1>3. CASE e > b
  <2>1. PICK f \in Nat : f = e - b - 1 /\ b + 1 \in Nat /\ e = (b + 1) + f  BY <1>3
  <2>2. Fields!Pow2[f] \in Nat \ {0} /\ Fields!Pow2[e] \in Nat  BY FieldsPow
  <2>3. Fields!Pow2[e] = (Fields!Pow2[b] * 2) * Fields!Pow2[f]
    <3>1. Fields!Pow2[(b + 1) + f] = Fields!Pow2[b + 1] * Fields!Pow2[f]  BY <2>1, FieldsPow
    <3>2. Fields!Pow2[b + 1] = 2 * Fields!Pow2[b]  BY FieldsPow
    <3>3. Fields!Pow2[b + 1] = Fields!Pow2[b] * 2  BY <1>1, <3>2
    <3> QED  BY ONLY <2>1, <3>1, <3>3
  <2>3a. Multiple(Fields!Pow2[e], Fields!Pow2[b], Fields!Pow2[f])  BY <2>3 DEF Multiple
  <2>4. Whole(Fields!Pow2[b], a, t, r) \div Fields!Pow2[e] = a \div Fields!Pow2[f]
    BY <1>1, <2>2, <2>3a, WholeAbove
  <2>5. e # b  BY <1>3
  <2> QED  BY ONLY <1>3, <2>1, <2>4, <2>5 DEF BitAt
<1>4. CASE e < b
  <2>1. PICK z \in Nat : Fields!Pow2[b] = Fields!Pow2[e] * (2 * z)  BY <1>4, PowerBetween
  <2>2. Fields!Pow2[e] \in Nat \ {0}  BY FieldsPow
  <2>3. (Whole(Fields!Pow2[b], a, t, r) \div Fields!Pow2[e]) % 2 = (r \div Fields!Pow2[e]) % 2
    <3>1. PICK p \in Nat, q \in Nat \ {0} : p = Fields!Pow2[b] /\ q = Fields!Pow2[e]  BY <1>1, <2>2
    <3>2. Multiple(p, q, z) /\ r \in 0 .. p - 1  BY <2>1, <3>1 DEF Multiple
    <3>3. LowBit(Whole(p, a, t, r), q) = LowBit(r, q)  BY <3>2, WholeBelow
    <3> QED  BY <3>1, <3>3 DEF LowBit
  <2>4. e # b /\ ~(e > b)  BY <1>4
  <2> QED  BY ONLY <2>3, <2>4 DEF BitAt
<1> QED  BY <1>2, <1>3, <1>4

LEMMA WholeOf ==
    ASSUME NEW v \in Nat, NEW b \in Nat
    PROVE  \E a \in Nat, t \in {0, 1}, r \in 0 .. Fields!Pow2[b] - 1 : v = Whole(Fields!Pow2[b], a, t, r)
<1>1. PICK p \in Nat \ {0} : p = Fields!Pow2[b]  BY FieldsPow
<1>2. PICK q \in Nat, r \in 0 .. p - 1 : q = v \div p /\ r = v % p /\ v = p * q + r  BY DivMod
<1>3. PICK a \in Nat, t \in 0 .. 2 - 1 : a = q \div 2 /\ t = q % 2 /\ q = 2 * a + t  BY DivMod
<1>4. t \in {0, 1}  OBVIOUS
<1>5. p * q = (p * 2) * a + p * t  BY <1>3
<1>6. v = (p * 2) * a + (p * t + r)
  <2>1. (p * 2) * a \in Nat /\ p * t \in Nat  BY MulNat
  <2> QED  BY <1>2, <1>5, <2>1
<1> QED  BY <1>1, <1>4, <1>6 DEF Whole

\* A bit turned over is, and no other.
LEMMA TurnedBits ==
    ASSUME NEW v \in Nat, NEW b \in Nat
    PROVE  /\ Turned(v, b) \in Nat
           /\ Turned(v, b) \in {v + Fields!Pow2[b], v - Fields!Pow2[b]}
           /\ BitAt(v, b) \in {0, 1}
           /\ \A e \in Nat : BitAt(Turned(v, b), e) = BitAt(v, e) <=> e # b
<1>1. PICK a \in Nat, t \in {0, 1}, r \in 0 .. Fields!Pow2[b] - 1 : v = Whole(Fields!Pow2[b], a, t, r)
  BY WholeOf
<1>2. PICK p \in Nat \ {0} : p = Fields!Pow2[b]  BY FieldsPow
<1>3. BitAt(v, b) = t  BY <1>1, WholeBits
<1>4. PICK u \in {0, 1} : u = 1 - t  OBVIOUS
<1>5. PICK y \in Nat : y = (p * 2) * a  BY MulNat
<1>6. v = y + (p * t + r)  BY <1>1, <1>2, <1>5 DEF Whole
<1>7. Turned(v, b) = y + (p * u + r)
  <2>1. CASE t = 1
    <3>1. Turned(v, b) = v - p  BY <1>2, <1>3, <2>1 DEF Turned
    <3>2. p * t = p /\ p * u = 0  BY <1>4, <2>1
    <3> QED  BY <1>2, <1>6, <3>1, <3>2
  <2>2. CASE t = 0
    <3>1. Turned(v, b) = v + p  BY <1>2, <1>3, <2>2 DEF Turned
    <3>2. p * t = 0 /\ p * u = p  BY <1>4, <2>2
    <3> QED  BY <1>2, <1>6, <3>1, <3>2
  <2> QED  BY <2>1, <2>2
<1>8. Turned(v, b) = Whole(Fields!Pow2[b], a, u, r)  BY <1>2, <1>5, <1>7 DEF Whole
<1>9. Turned(v, b) \in Nat
  <2>1. p * u \in Nat /\ r \in Nat  BY <1>2, <1>4, MulNat
  <2> QED  BY <1>7, <2>1
<1>10. ASSUME NEW e \in Nat PROVE BitAt(Turned(v, b), e) = BitAt(v, e) <=> e # b
  BY <1>1, <1>4, <1>8, WholeBits
<1> QED  BY <1>3, <1>9, <1>10 DEF Turned

LEMMA TurnedBit ==
    ASSUME NEW v \in Nat, NEW b \in Nat, NEW e \in Nat
    PROVE  BitAt(Turned(v, b), e) = BitAt(v, e) <=> e # b
<1>1. \A f \in Nat : BitAt(Turned(v, b), f) = BitAt(v, f) <=> f # b  BY TurnedBits
<1> QED  BY <1>1

\* Below a power of two, a number changes with the bits below the power.
LEMMA ModChange ==
    ASSUME NEW v \in Nat, NEW e \in Nat, NEW m \in Nat
    PROVE  (v + Fields!Pow2[e]) % Fields!Pow2[m] = v % Fields!Pow2[m] <=> e >= m
<1>1. PICK s \in Nat \ {0}, p \in Nat \ {0} : s = Fields!Pow2[e] /\ p = Fields!Pow2[m]  BY FieldsPow
<1>2. PICK q \in Nat, r \in 0 .. p - 1 : q = v \div p /\ r = v % p /\ v = p * q + r  BY DivMod
<1>3. CASE e >= m
  <2>1. PICK f \in Nat : e = m + f  BY <1>3
  <2>2. PICK z \in Nat \ {0} : z = Fields!Pow2[f]  BY FieldsPow
  <2>3. s = p * z  BY <1>1, <2>1, <2>2, FieldsPow
  <2>4. v + s = p * (q + z) + r  BY <1>2, <2>3
  <2>5. (p * (q + z) + r) % p = r  BY DivUnique
  <2> QED  BY <1>1, <1>2, <1>3, <2>4, <2>5
<1>4. CASE e < m
  <2>1. s < p  BY <1>1, <1>4, PowerBetween
  <2>2. SUFFICES ASSUME (v + s) % p = r PROVE FALSE  BY <1>1, <1>2, <1>4
  <2>3. PICK h \in Nat, t \in 0 .. p - 1 : h = (v + s) \div p /\ t = (v + s) % p /\ v + s = p * h + t
    BY DivMod
  <2>4. p * q + s = p * h
    <3>1. p * q \in Nat /\ p * h \in Nat  BY MulNat
    <3> QED  BY <1>2, <2>2, <2>3, <3>1
  <2>5. q < h
    <3>1. p * q \in Nat /\ p * h \in Nat  BY MulNat
    <3>2. p * q < p * h  BY <2>4, <3>1
    <3> QED  BY <3>2, MulLess
  <2>6. p * h >= p * (q + 1) /\ p * (q + 1) = p * q + p  BY <2>5
  <2> QED  BY <2>1, <2>4, <2>6, MulNat
<1> QED  BY <1>3, <1>4

----------------------------------------------------------------------------
(* The digest with one bit turned over.                                    *)

LEMMA BytesHold ==
    ASSUME NEW w \in Nat, DIGEST_BYTE_BITS \in Nat \ {0}
    PROVE  /\ Fields!BytesFor(w) \in Nat /\ w <= DIGEST_BYTE_BITS * Fields!BytesFor(w)
           /\ w = 0 => Fields!BytesFor(w) = 0
<1>1. PICK p \in Nat \ {0} : p = DIGEST_BYTE_BITS  OBVIOUS
<1>2. w + p - 1 \in Nat  OBVIOUS
<1>3. PICK q \in Nat, r \in 0 .. p - 1 : q = (w + p - 1) \div p /\ r = (w + p - 1) % p /\ w + p - 1 = p * q + r
  BY <1>2, DivMod
<1>4. Fields!BytesFor(w) = q  BY <1>1, <1>3 DEF Fields!BytesFor
<1>5. w <= p * q  BY <1>3, MulNat
<1>6. ASSUME w = 0 PROVE q = 0
  <2>1. p * q < p * 1  BY <1>3, <1>6, MulNat
  <2>2. q < 1  BY <2>1, MulLess
  <2> QED  BY <2>2
<1> QED  BY <1>1, <1>4, <1>5, <1>6

LEMMA FieldSizes ==
    ASSUME Fields!FieldsAssumption
    PROVE  /\ DIGEST_BYTE_BITS \in Nat \ {0} /\ FORS_SIG_TREES \in Nat /\ D \in Nat \ {0}
           /\ FORS_HEIGHT \in Nat /\ TREE_HEIGHT \in Nat
           /\ FORS_HEIGHT * (FORS_SIG_TREES + 1) \in Nat
           /\ Fields!TREE_BITS \in Nat /\ Fields!LEAF_BITS \in Nat
           /\ Fields!TREE_BITS + Fields!LEAF_BITS = TREE_HEIGHT * D
           /\ Fields!FORS_MSG_BYTES \in Nat /\ Fields!TREE_BYTES \in Nat /\ Fields!LEAF_BYTES \in Nat
           /\ Fields!DGST_BYTES = Fields!FORS_MSG_BYTES + Fields!TREE_BYTES + Fields!LEAF_BYTES
           /\ FORS_HEIGHT * (FORS_SIG_TREES + 1) <= DIGEST_BYTE_BITS * Fields!FORS_MSG_BYTES
           /\ Fields!TREE_BITS <= DIGEST_BYTE_BITS * Fields!TREE_BYTES
           /\ Fields!LEAF_BITS <= DIGEST_BYTE_BITS * Fields!LEAF_BYTES
           /\ D = 1 => Fields!TREE_BITS = 0 /\ Fields!TREE_BYTES = 0
<1>1. /\ DIGEST_BYTE_BITS \in Nat \ {0} /\ FORS_SIG_TREES \in Nat /\ D \in Nat \ {0}
      /\ FORS_HEIGHT \in Nat /\ TREE_HEIGHT \in Nat
  BY DEF Fields!FieldsAssumption
<1>2. FORS_HEIGHT * (FORS_SIG_TREES + 1) \in Nat  BY <1>1, MulNat
<1>3. TREE_HEIGHT * (D - 1) \in Nat /\ TREE_HEIGHT * (D - 1) + TREE_HEIGHT = TREE_HEIGHT * D  BY <1>1
<1>4. Fields!TREE_BITS = TREE_HEIGHT * (D - 1) /\ Fields!LEAF_BITS = TREE_HEIGHT
  BY DEF Fields!TREE_BITS, Fields!LEAF_BITS
<1>5. D = 1 => TREE_HEIGHT * (D - 1) = 0  BY <1>1
<1> QED  BY <1>1, <1>2, <1>3, <1>4, <1>5, BytesHold
         DEF Fields!FORS_MSG_BYTES, Fields!TREE_BYTES, Fields!LEAF_BYTES, Fields!DGST_BYTES, Fields!FORS_TREES

Digested == [0 .. Fields!DGST_BYTES - 1 -> Nat]

LEMMA FlipIs ==
    ASSUME NEW m \in Digested, NEW y \in 0 .. Fields!DGST_BYTES - 1, NEW z \in Nat
    PROVE  /\ Fields!Flip(m, y, z) \in Digested
           /\ Fields!Flip(m, y, z)[y] = Turned(m[y], z)
           /\ \A x \in 0 .. Fields!DGST_BYTES - 1 : x # y => Fields!Flip(m, y, z)[x] = m[x]
<1>1. Fields!Flip(m, y, z) = [m EXCEPT ![y] = Turned(m[y], z)]
  BY DEF Fields!Flip, Turned, BitAt, Digested
<1>2. m[y] \in Nat  BY DEF Digested
<1>3. Turned(m[y], z) \in Nat  BY <1>2, TurnedBits
<1> QED  BY <1>1, <1>3 DEF Digested

LEMMA FlippedBit ==
    ASSUME Fields!FieldsAssumption, NEW m \in Digested,
           NEW y \in 0 .. Fields!DGST_BYTES - 1, NEW z \in 0 .. DIGEST_BYTE_BITS - 1,
           NEW o \in Nat, o < DIGEST_BYTE_BITS * Fields!DGST_BYTES
    PROVE  /\ Fields!Bit(m, o) \in {0, 1}
           /\ Fields!Bit(Fields!Flip(m, y, z), o) \in {0, 1}
           /\ Fields!Bit(Fields!Flip(m, y, z), o) = Fields!Bit(m, o) <=> o # DIGEST_BYTE_BITS * y + z
<1>1. PICK p \in Nat \ {0}, n \in Nat : p = DIGEST_BYTE_BITS /\ n = Fields!DGST_BYTES
  BY FieldSizes
<1>2. PICK q \in Nat, r \in 0 .. p - 1 : q = o \div p /\ r = o % p /\ o = p * q + r  BY DivMod
<1>3. q < n
  <2>1. p * q < p * n  BY <1>1, <1>2, MulNat
  <2> QED  BY <2>1, MulLess
<1>4. q \in 0 .. Fields!DGST_BYTES - 1 /\ r \in Nat /\ z \in Nat /\ y \in Nat /\ z \in 0 .. p - 1
  BY <1>1, <1>3
<1> DEFINE f == Fields!Flip(m, y, z)
<1>5. f \in Digested /\ f[y] = Turned(m[y], z) /\ (q # y => f[q] = m[q])  BY <1>4, FlipIs
<1>6. Fields!Bit(m, o) = BitAt(m[q], r) /\ Fields!Bit(f, o) = BitAt(f[q], r)
  BY <1>1, <1>2 DEF Fields!Bit, BitAt
<1> HIDE DEF f
<1>7. m[q] \in Nat /\ f[q] \in Nat  BY <1>4, <1>5 DEF Digested
<1>8. BitAt(m[q], r) \in {0, 1} /\ BitAt(f[q], r) \in {0, 1}  BY <1>4, <1>7, TurnedBits
<1>9. CASE q = y
  <2>1. BitAt(f[q], r) = BitAt(m[q], r) <=> r # z  BY <1>4, <1>5, <1>7, <1>9, TurnedBit
  <2>2. o # p * y + z <=> r # z  BY <1>2, <1>4, <1>9, MulNat
  <2> QED  BY <1>1, <1>6, <1>8, <2>1, <2>2 DEF f
<1>10. CASE q # y
  <2>1. BitAt(f[q], r) = BitAt(m[q], r)  BY <1>5, <1>10
  <2>2. (p * y + z) \div p = y  BY <1>4, DivUnique
  <2>3. o # p * y + z  BY <1>2, <1>10, <2>2
  <2> QED  BY <1>1, <1>6, <1>8, <2>1, <2>3 DEF f
<1> QED  BY <1>9, <1>10

\* FORS_HEIGHT bits of the digest make a FORS leaf, and another one exactly when
\* the bit turned over is among them.
LEMMA FlippedBits ==
    ASSUME Fields!FieldsAssumption, NEW m \in Digested,
           NEW y \in 0 .. Fields!DGST_BYTES - 1, NEW z \in 0 .. DIGEST_BYTE_BITS - 1,
           NEW o \in Nat, o + FORS_HEIGHT <= DIGEST_BYTE_BITS * Fields!DGST_BYTES,
           NEW g \in Nat, g = DIGEST_BYTE_BITS * y + z
    PROVE  /\ Fields!Bits(m, o) \in 0 .. Fields!Pow2[FORS_HEIGHT] - 1
           /\ Fields!Bits(Fields!Flip(m, y, z), o) # Fields!Bits(m, o) <=> o <= g /\ g < o + FORS_HEIGHT
<1> DEFINE f == Fields!Flip(m, y, z)
           term(v) == [b \in 1 .. FORS_HEIGHT |-> Fields!Bit(v, o + b - 1) * Fields!Pow2[b - 1]]
           t == term(m)
           u == term(f)
<1>0. FORS_HEIGHT \in Nat /\ DIGEST_BYTE_BITS * Fields!DGST_BYTES \in Int  BY FieldSizes
<1>1. ASSUME NEW b \in 1 .. FORS_HEIGHT
      PROVE  /\ o + b - 1 \in Nat /\ Fields!Pow2[b - 1] \in Nat \ {0}
             /\ Fields!Bit(m, o + b - 1) \in {0, 1} /\ Fields!Bit(f, o + b - 1) \in {0, 1}
             /\ Fields!Bit(f, o + b - 1) = Fields!Bit(m, o + b - 1) <=> o + b - 1 # g
  <2>1. b - 1 \in Nat /\ o + b - 1 \in Nat /\ o + b - 1 < DIGEST_BYTE_BITS * Fields!DGST_BYTES  BY <1>0
  <2>2. Fields!Pow2[b - 1] \in Nat \ {0}  BY <2>1, FieldsPow
  <2> HIDE DEF f
  <2>3. PICK i1 \in Nat : i1 = o + b - 1 /\ i1 < DIGEST_BYTE_BITS * Fields!DGST_BYTES  BY <2>1
  <2>4. /\ Fields!Bit(m, i1) \in {0, 1} /\ Fields!Bit(f, i1) \in {0, 1}
        /\ Fields!Bit(f, i1) = Fields!Bit(m, i1) <=> i1 # g
    BY <2>3, FlippedBit DEF f
  <2> QED  BY <2>1, <2>2, <2>3, <2>4
<1>2. Fields!Bits(m, o) = Fields!Sum(FORS_HEIGHT, t) /\ Fields!Bits(f, o) = Fields!Sum(FORS_HEIGHT, u)
  BY DEF Fields!Bits
<1> HIDE DEF f
<1>3. \A b \in 1 .. FORS_HEIGHT :
        /\ t[b] = Fields!Bit(m, o + b - 1) * Fields!Pow2[b - 1]
        /\ u[b] = Fields!Bit(f, o + b - 1) * Fields!Pow2[b - 1]
  OBVIOUS
<1>4. \A b \in 1 .. FORS_HEIGHT : t[b] \in {0, Fields!Pow2[b - 1]} /\ t[b] \in Int /\ u[b] \in Int
  BY <1>1, <1>3
<1>5. t \in [1 .. FORS_HEIGHT -> Int] /\ u \in [1 .. FORS_HEIGHT -> Int]  BY <1>4
<1>6. ASSUME ~(o <= g /\ g < o + FORS_HEIGHT) PROVE t = u
  <2>1. \A b \in 1 .. FORS_HEIGHT : o + b - 1 # g  BY <1>0, <1>6
  <2> QED  BY <1>1, <2>1
<1> HIDE DEF t, u
<1>7. Fields!Sum(FORS_HEIGHT, t) \in 0 .. Fields!Pow2[FORS_HEIGHT] - 1  BY <1>0, <1>4, <1>5, SumBits
<1>8. ASSUME o <= g, g < o + FORS_HEIGHT
      PROVE  Fields!Sum(FORS_HEIGHT, u) # Fields!Sum(FORS_HEIGHT, t)
  <2>1. PICK x \in 1 .. FORS_HEIGHT : x = g - o + 1 /\ o + x - 1 = g  BY <1>0, <1>8
  <2>2. \A b \in 1 .. FORS_HEIGHT : b # x => o + b - 1 # g  BY <1>0, <2>1
  <2>3. \A b \in 1 .. FORS_HEIGHT : b # x => u[b] = t[b]  BY <1>1, <1>3, <2>2
  <2>4. PICK p \in Nat \ {0} : p = Fields!Pow2[x - 1]  BY <1>1
  <2>5. PICK i1 \in {0, 1}, i2 \in {0, 1} : t[x] = i1 * p /\ u[x] = i2 * p /\ i1 # i2
    BY <1>1, <1>3, <2>1, <2>4
  <2>6. \E d \in Int : u[x] = t[x] + d /\ d # 0
    <3>1. CASE i1 = 0
      <4>1. t[x] = 0 /\ u[x] = p  BY <2>5, <3>1
      <4> QED  BY <4>1
    <3>2. CASE i1 = 1
      <4>1. t[x] = p /\ u[x] = 0 /\ -p \in Int /\ -p # 0 /\ 0 = p + (-p)  BY <2>5, <3>2
      <4> QED  BY <4>1
    <3> QED  BY <3>1, <3>2
  <2>7. PICK d \in Int : u[x] = t[x] + d /\ d # 0  BY <2>6
  <2>7a. Differ(FORS_HEIGHT, t, u, x, d)  BY <1>0, <1>5, <2>3, <2>7 DEF Differ
  <2>8. Fields!Sum(FORS_HEIGHT, u) = Fields!Sum(FORS_HEIGHT, t) + d /\ Fields!Sum(FORS_HEIGHT, t) \in Int
    BY <2>7a, SumChange
  <2> QED  BY <2>7, <2>8
<1> QED  BY <1>2, <1>6, <1>7, <1>8 DEF f

\* Bytes as a number: the bit turned over adds or takes away its weight.
LEMMA FlippedNumber ==
    ASSUME Fields!FieldsAssumption, NEW m \in Digested,
           NEW y \in 0 .. Fields!DGST_BYTES - 1, NEW z \in 0 .. DIGEST_BYTE_BITS - 1,
           NEW s \in Nat, NEW n \in Nat, s + n <= Fields!DGST_BYTES
    PROVE  LET v == Fields!bytes_to_ull(m, s, n)
               w == Fields!bytes_to_ull(Fields!Flip(m, y, z), s, n)
               p == Fields!Pow2[DIGEST_BYTE_BITS * (s + n - 1 - y) + z]
           IN  /\ v \in Nat /\ w \in Nat
               /\ IF s <= y /\ y < s + n
                  THEN DIGEST_BYTE_BITS * (s + n - 1 - y) + z \in Nat /\ (w = v + p \/ v = w + p)
                  ELSE w = v
<1> DEFINE f == Fields!Flip(m, y, z)
           term(h) == [b \in 1 .. n |-> h[s + n - b] * Fields!Pow2[DIGEST_BYTE_BITS * (b - 1)]]
           t == term(m)
           u == term(f)
<1>0. DIGEST_BYTE_BITS \in Nat \ {0} /\ Fields!DGST_BYTES \in Nat /\ z \in Nat  BY FieldSizes
<1>1. f \in Digested /\ f[y] = Turned(m[y], z)
      /\ \A x \in 0 .. Fields!DGST_BYTES - 1 : x # y => f[x] = m[x]
  BY <1>0, FlipIs
<1> HIDE DEF f
<1>2. ASSUME NEW b \in 1 .. n
      PROVE  /\ s + n - b \in 0 .. Fields!DGST_BYTES - 1 /\ DIGEST_BYTE_BITS * (b - 1) \in Nat
             /\ Fields!Pow2[DIGEST_BYTE_BITS * (b - 1)] \in Nat \ {0}
  <2>1. s + n - b \in 0 .. Fields!DGST_BYTES - 1 /\ b - 1 \in Nat  BY <1>0
  <2>2. DIGEST_BYTE_BITS * (b - 1) \in Nat  BY <1>0, <2>1, MulNat
  <2> QED  BY <2>1, <2>2, FieldsPow
<1>3. \A b \in 1 .. n :
        /\ t[b] = m[s + n - b] * Fields!Pow2[DIGEST_BYTE_BITS * (b - 1)]
        /\ u[b] = f[s + n - b] * Fields!Pow2[DIGEST_BYTE_BITS * (b - 1)]
  OBVIOUS
<1>4. ASSUME NEW b \in 1 .. n PROVE t[b] \in Nat /\ u[b] \in Nat
  <2>1. s + n - b \in 0 .. Fields!DGST_BYTES - 1 /\ Fields!Pow2[DIGEST_BYTE_BITS * (b - 1)] \in Nat  BY <1>2
  <2>2. m[s + n - b] \in Nat /\ f[s + n - b] \in Nat  BY <1>1, <2>1 DEF Digested
  <2> QED  BY <1>3, <2>1, <2>2, MulNat
<1>5. t \in [1 .. n -> Nat] /\ u \in [1 .. n -> Nat]  BY <1>4
<1>6. Fields!bytes_to_ull(m, s, n) = Fields!Sum(n, t) /\ Fields!bytes_to_ull(f, s, n) = Fields!Sum(n, u)
  BY DEF Fields!bytes_to_ull
<1>7. ASSUME NEW b \in 1 .. n, s + n - b # y PROVE u[b] = t[b]
  <2>1. f[s + n - b] = m[s + n - b]  BY <1>1, <1>2, <1>7
  <2> QED  BY <1>3, <2>1
<1>8. ASSUME ~(s <= y /\ y < s + n) PROVE u = t
  <2>1. \A b \in 1 .. n : s + n - b # y  BY <1>8
  <2>2. \A b \in 1 .. n : u[b] = t[b]  BY <1>7, <2>1
  <2> QED  BY <2>2
<1> HIDE DEF t, u
<1>9. Fields!Sum(n, t) \in Nat /\ Fields!Sum(n, u) \in Nat  BY <1>5, SumNat
<1>10. ASSUME s <= y, y < s + n
       PROVE  /\ DIGEST_BYTE_BITS * (s + n - 1 - y) + z \in Nat
              /\ \/ Fields!Sum(n, u) = Fields!Sum(n, t) + Fields!Pow2[DIGEST_BYTE_BITS * (s + n - 1 - y) + z]
                 \/ Fields!Sum(n, t) = Fields!Sum(n, u) + Fields!Pow2[DIGEST_BYTE_BITS * (s + n - 1 - y) + z]
  <2>1. PICK x \in 1 .. n : x = s + n - y /\ s + n - x = y /\ x - 1 = s + n - 1 - y  BY <1>10
  <2>2. PICK e \in Nat : e = DIGEST_BYTE_BITS * (x - 1)  BY <1>2
  <2>3. PICK p \in Nat \ {0}, q \in Nat \ {0} : p = Fields!Pow2[e] /\ q = Fields!Pow2[z]
    BY <1>0, FieldsPow
  <2>4. e + z \in Nat /\ Fields!Pow2[e + z] = p * q  BY <1>0, <2>3, FieldsPow
  <2>5. PICK v \in Nat, w \in Nat : v = m[y] /\ w = f[y]  BY <1>1 DEF Digested
  <2>6. w = v + q \/ w = v - q  BY <1>0, <1>1, <2>3, <2>5, TurnedBits
  <2>7. t[x] = v * p /\ u[x] = w * p  BY <1>3, <2>1, <2>2, <2>3, <2>5
  <2>8. \A b \in 1 .. n : b # x => s + n - b # y  BY <2>1
  <2>9. \A b \in 1 .. n : b # x => u[b] = t[b]  BY <1>7, <2>8
  <2>10. t \in [1 .. n -> Int] /\ u \in [1 .. n -> Int]  BY <1>5
  <2>11. PICK d \in Int : d = p * q  OBVIOUS
  <2>12. CASE w = v + q
    <3>1. w * p = v * p + p * q  BY <2>12
    <3>2. Differ(n, t, u, x, d)  BY <2>7, <2>9, <2>10, <2>11, <3>1 DEF Differ
    <3>3. Fields!Sum(n, u) = Fields!Sum(n, t) + d  BY <3>2, SumChange
    <3> QED  BY <2>1, <2>2, <2>4, <2>11, <3>3
  <2>13. CASE v = w + q
    <3>1. v * p = w * p + p * q  BY <2>13
    <3>2. Differ(n, u, t, x, d)  BY <2>7, <2>9, <2>10, <2>11, <3>1 DEF Differ
    <3>3. Fields!Sum(n, t) = Fields!Sum(n, u) + d  BY <3>2, SumChange
    <3> QED  BY <2>1, <2>2, <2>4, <2>11, <3>3
  <2>14. w = v - q => v = w + q  BY <2>3
  <2> QED  BY <2>6, <2>12, <2>13, <2>14
<1> QED  BY <1>6, <1>8, <1>9, <1>10 DEF f

\* Its lowest bits: they change exactly with a bit that is one of them.
LEMMA FlippedMasked ==
    ASSUME Fields!FieldsAssumption, NEW m \in Digested,
           NEW y \in 0 .. Fields!DGST_BYTES - 1, NEW z \in 0 .. DIGEST_BYTE_BITS - 1,
           NEW s \in Nat, NEW n \in Nat, s + n <= Fields!DGST_BYTES, NEW w \in Nat
    PROVE  /\ Fields!bytes_to_ull(m, s, n) % Fields!Pow2[w] \in 0 .. Fields!Pow2[w] - 1
           /\ Fields!bytes_to_ull(Fields!Flip(m, y, z), s, n) % Fields!Pow2[w]
                # Fields!bytes_to_ull(m, s, n) % Fields!Pow2[w]
              <=> s <= y /\ y < s + n /\ DIGEST_BYTE_BITS * (s + n - 1 - y) + z < w
<1>1. PICK a \in Nat, b \in Nat :
         a = Fields!bytes_to_ull(m, s, n) /\ b = Fields!bytes_to_ull(Fields!Flip(m, y, z), s, n)
  BY FlippedNumber
<1>2. Fields!Pow2[w] \in Nat \ {0}  BY FieldsPow
<1>3. a % Fields!Pow2[w] \in 0 .. Fields!Pow2[w] - 1  BY <1>2
<1>4. CASE s <= y /\ y < s + n
  <2>1. PICK e \in Nat : e = DIGEST_BYTE_BITS * (s + n - 1 - y) + z
                           /\ (b = a + Fields!Pow2[e] \/ a = b + Fields!Pow2[e])
    BY <1>1, <1>4, FlippedNumber
  <2>2. (a + Fields!Pow2[e]) % Fields!Pow2[w] = a % Fields!Pow2[w] <=> e >= w  BY ModChange
  <2>3. (b + Fields!Pow2[e]) % Fields!Pow2[w] = b % Fields!Pow2[w] <=> e >= w  BY ModChange
  <2>4. b % Fields!Pow2[w] # a % Fields!Pow2[w] <=> ~(e >= w)  BY <2>1, <2>2, <2>3
  <2> QED  BY <1>1, <1>3, <1>4, <2>1, <2>4
<1>5. CASE ~(s <= y /\ y < s + n)
  <2>1. b = a  BY <1>1, <1>5, FlippedNumber
  <2> QED  BY <1>1, <1>3, <1>5, <2>1
<1> QED  BY <1>4, <1>5

----------------------------------------------------------------------------
(* Which bit decides what.                                                 *)

ForsTrees == FORS_SIG_TREES + 1

\* Bit z of byte y decides field f: a FORS leaf or the compressed index, then the
\* subtree, then the leaf.
Deciding(f, y, z) ==
    IF f < ForsTrees
    THEN FORS_HEIGHT * f <= DIGEST_BYTE_BITS * y + z /\ DIGEST_BYTE_BITS * y + z < FORS_HEIGHT * f + FORS_HEIGHT
    ELSE IF f = ForsTrees
    THEN /\ Fields!FORS_MSG_BYTES <= y /\ y < Fields!FORS_MSG_BYTES + Fields!TREE_BYTES
         /\ DIGEST_BYTE_BITS * (Fields!FORS_MSG_BYTES + Fields!TREE_BYTES - 1 - y) + z < Fields!TREE_BITS
    ELSE /\ Fields!FORS_MSG_BYTES + Fields!TREE_BYTES <= y /\ y < Fields!DGST_BYTES
         /\ DIGEST_BYTE_BITS * (Fields!DGST_BYTES - 1 - y) + z < Fields!LEAF_BITS

LEMMA FieldIs ==
    ASSUME Fields!FieldsAssumption, NEW m, NEW f \in 0 .. ForsTrees + 1
    PROVE  Fields!Fields(m)[f] =
             IF f < ForsTrees THEN Fields!Bits(m, f * FORS_HEIGHT)
             ELSE IF f = ForsTrees THEN Fields!Tree(m) ELSE Fields!LeafIdx(m)
<1>1. PICK t \in Nat \ {0} : t = ForsTrees  BY FieldSizes DEF ForsTrees
<1>2. FORS_SIG_TREES = t - 1  BY <1>1, FieldSizes DEF ForsTrees
<1>3. f \in 0 .. t + 1  BY <1>1
<1>4. Fields!Fields(m)[f] =
        IF f < t - 1 THEN Fields!message_to_indices(m)[f]
        ELSE IF f = t - 1 THEN Fields!forsc_compressed_index(m)
        ELSE IF f = t THEN Fields!Tree(m) ELSE Fields!LeafIdx(m)
  BY <1>1, <1>2, <1>3 DEF Fields!Fields, Fields!FORS_TREES, ForsTrees
<1>5. ASSUME f < t - 1 PROVE Fields!message_to_indices(m)[f] = Fields!Bits(m, f * FORS_HEIGHT)
  <2>1. f \in 0 .. t - 1 - 1  BY <1>3, <1>5
  <2> QED  BY <1>2, <2>1 DEF Fields!message_to_indices
<1>6. Fields!forsc_compressed_index(m) = Fields!Bits(m, (t - 1) * FORS_HEIGHT)
  BY <1>2 DEF Fields!forsc_compressed_index
<1>7. CASE f < t - 1  BY <1>1, <1>3, <1>4, <1>5, <1>7
<1>8. CASE f = t - 1  BY <1>1, <1>4, <1>6, <1>8
<1>9. CASE f >= t  BY <1>1, <1>3, <1>4, <1>9
<1> QED  BY <1>1, <1>3, <1>7, <1>8, <1>9

LEMMA ForsInside ==
    ASSUME Fields!FieldsAssumption, NEW f \in Nat, f < ForsTrees
    PROVE  /\ f * FORS_HEIGHT \in Nat /\ f * FORS_HEIGHT = FORS_HEIGHT * f
           /\ f * FORS_HEIGHT + FORS_HEIGHT <= DIGEST_BYTE_BITS * Fields!FORS_MSG_BYTES
           /\ f * FORS_HEIGHT + FORS_HEIGHT <= DIGEST_BYTE_BITS * Fields!DGST_BYTES
<1>0. /\ ForsTrees \in Nat \ {0} /\ FORS_HEIGHT \in Nat /\ DIGEST_BYTE_BITS \in Nat \ {0}
      /\ Fields!FORS_MSG_BYTES \in Nat /\ Fields!DGST_BYTES \in Nat
      /\ Fields!FORS_MSG_BYTES <= Fields!DGST_BYTES
      /\ FORS_HEIGHT * ForsTrees <= DIGEST_BYTE_BITS * Fields!FORS_MSG_BYTES
  BY FieldSizes DEF ForsTrees
<1>1. PICK t \in Nat \ {0}, h \in Nat, b \in Nat \ {0}, n \in Nat, w \in Nat :
         /\ t = ForsTrees /\ h = FORS_HEIGHT /\ b = DIGEST_BYTE_BITS
         /\ n = Fields!FORS_MSG_BYTES /\ w = Fields!DGST_BYTES /\ n <= w /\ h * t <= b * n
  BY <1>0
<1>2. f * h \in Nat /\ f * h = h * f  BY MulNat
<1>3. h * f + h = h * (f + 1) /\ h * (f + 1) <= h * t  BY <1>1
<1>4. h * t \in Nat /\ b * n \in Nat /\ b * w \in Nat /\ b * n <= b * w  BY <1>1
<1> QED  BY <1>1, <1>2, <1>3, <1>4

LEMMA ChangedIs ==
    ASSUME Fields!FieldsAssumption, NEW m \in Digested,
           NEW y \in 0 .. Fields!DGST_BYTES - 1, NEW z \in 0 .. DIGEST_BYTE_BITS - 1,
           NEW f \in 0 .. ForsTrees + 1
    PROVE  Fields!Fields(Fields!Flip(m, y, z))[f] # Fields!Fields(m)[f] <=> Deciding(f, y, z)
<1> DEFINE w == Fields!Flip(m, y, z)
<1>1. PICK t \in Nat \ {0} : t = ForsTrees  BY FieldSizes DEF ForsTrees
<1>2. \A v : Fields!Fields(v)[f] =
             IF f < ForsTrees THEN Fields!Bits(v, f * FORS_HEIGHT)
             ELSE IF f = ForsTrees THEN Fields!Tree(v) ELSE Fields!LeafIdx(v)
  BY FieldIs
<1>3. CASE f < t
  <2>1. PICK g \in Nat : g = DIGEST_BYTE_BITS * y + z  BY FieldSizes, MulNat
  <2>2. PICK o \in Nat : o = f * FORS_HEIGHT /\ o = FORS_HEIGHT * f
                           /\ o + FORS_HEIGHT <= DIGEST_BYTE_BITS * Fields!DGST_BYTES
    BY <1>1, <1>3, ForsInside
  <2>3. Fields!Bits(w, o) # Fields!Bits(m, o) <=> o <= g /\ g < o + FORS_HEIGHT
    BY <2>1, <2>2, FlippedBits
  <2> QED  BY <1>1, <1>2, <1>3, <2>1, <2>2, <2>3 DEF Deciding
<1>4. CASE f = t
  <2>1. Fields!Fields(w)[f] = Fields!Tree(w) /\ Fields!Fields(m)[f] = Fields!Tree(m)  BY <1>1, <1>2, <1>4
  <2>2. CASE D = 1
    <3>1. Fields!Tree(w) = Fields!Tree(m)  BY <2>2 DEF Fields!Tree
    <3>2. Fields!TREE_BYTES = 0 /\ Fields!FORS_MSG_BYTES \in Nat  BY <2>2, FieldSizes
    <3>3. ~Deciding(f, y, z)  BY <1>1, <1>4, <3>2 DEF Deciding
    <3> QED  BY <2>1, <3>1, <3>3
  <2>3. CASE D # 1
    <3>1. PICK s \in Nat, n \in Nat, h \in Nat :
             s = Fields!FORS_MSG_BYTES /\ n = Fields!TREE_BYTES /\ h = Fields!TREE_BITS /\ s + n <= Fields!DGST_BYTES
      BY FieldSizes
    <3>2. Fields!bytes_to_ull(w, s, n) % Fields!Pow2[h] # Fields!bytes_to_ull(m, s, n) % Fields!Pow2[h]
            <=> s <= y /\ y < s + n /\ DIGEST_BYTE_BITS * (s + n - 1 - y) + z < h
      BY <3>1, FlippedMasked
    <3>3. \A v : Fields!Tree(v) = Fields!bytes_to_ull(v, s, n) % Fields!Pow2[h]
      BY <2>3, <3>1 DEF Fields!Tree
    <3> QED  BY <1>1, <1>4, <2>1, <3>1, <3>2, <3>3 DEF Deciding
  <2> QED  BY <2>2, <2>3
<1>5. CASE f = t + 1
  <2>1. Fields!Fields(w)[f] = Fields!LeafIdx(w) /\ Fields!Fields(m)[f] = Fields!LeafIdx(m)  BY <1>1, <1>2, <1>5
  <2>2. PICK s \in Nat, n \in Nat, h \in Nat :
           s = Fields!FORS_MSG_BYTES + Fields!TREE_BYTES /\ n = Fields!LEAF_BYTES /\ h = Fields!LEAF_BITS
           /\ s + n = Fields!DGST_BYTES
    BY FieldSizes
  <2>3. Fields!bytes_to_ull(w, s, n) % Fields!Pow2[h] # Fields!bytes_to_ull(m, s, n) % Fields!Pow2[h]
          <=> s <= y /\ y < s + n /\ DIGEST_BYTE_BITS * (s + n - 1 - y) + z < h
    <3>1. s + n <= Fields!DGST_BYTES  BY <2>2
    <3> QED  BY <3>1, FlippedMasked
  <2>4. \A v : Fields!LeafIdx(v) = Fields!bytes_to_ull(v, s, n) % Fields!Pow2[h]
    BY <2>2 DEF Fields!LeafIdx
  <2>5. ~(f < ForsTrees) /\ f # ForsTrees  BY <1>1, <1>5
  <2> QED  BY <2>1, <2>2, <2>3, <2>4, <2>5 DEF Deciding
<1> QED  BY <1>1, <1>3, <1>4, <1>5

\* No bit decides two fields.
LEMMA DecidesOne ==
    ASSUME Fields!FieldsAssumption,
           NEW y \in 0 .. Fields!DGST_BYTES - 1, NEW z \in 0 .. DIGEST_BYTE_BITS - 1,
           NEW f \in 0 .. ForsTrees + 1, NEW h \in 0 .. ForsTrees + 1,
           Deciding(f, y, z), Deciding(h, y, z), f < h
    PROVE  FALSE
<1>1. PICK t \in Nat \ {0}, b \in Nat \ {0}, n \in Nat, w \in Nat, e \in Nat :
         /\ t = ForsTrees /\ b = DIGEST_BYTE_BITS /\ n = Fields!FORS_MSG_BYTES /\ w = Fields!TREE_BYTES
         /\ e = FORS_HEIGHT
  <2>1. ForsTrees \in Nat \ {0} /\ DIGEST_BYTE_BITS \in Nat \ {0}  BY FieldSizes DEF ForsTrees
  <2>2. Fields!FORS_MSG_BYTES \in Nat /\ Fields!TREE_BYTES \in Nat /\ FORS_HEIGHT \in Nat  BY FieldSizes
  <2> QED  BY <2>1, <2>2
<1>2. PICK g \in Nat : g = b * y + z /\ y \in Nat  BY <1>1, MulNat
<1>3. CASE h < t
  <2>1. g < e * f + e /\ e * h <= g  BY <1>1, <1>2, <1>3 DEF Deciding
  <2>2. e * f + e = e * (f + 1) /\ e * (f + 1) <= e * h /\ e * h \in Nat  BY <1>1
  <2> QED  BY <2>1, <2>2, MulNat
<1>4. CASE f < t /\ h >= t
  <2>1. g < e * f + e  BY <1>1, <1>2, <1>4 DEF Deciding
  <2>2. e * f \in Nat /\ e * f + e <= b * n /\ b * n \in Nat  BY <1>1, <1>4, ForsInside, MulNat
  <2>3. y >= n  BY <1>1, <1>2, <1>4 DEF Deciding
  <2>4. b * y >= b * n /\ b * y \in Nat  BY <1>1, <1>2, <2>3
  <2> QED  BY <1>2, <2>1, <2>2, <2>4
<1>5. CASE f = t /\ h = t + 1  BY <1>1, <1>2, <1>5 DEF Deciding
<1> QED  BY <1>1, <1>3, <1>4, <1>5

----------------------------------------------------------------------------
(* How many do.                                                            *)

\* The first w bits of the bytes at[0], at[1], ...
Cells(b, n, w, S, at) == {p \in S \X (0 .. b - 1) : \E q \in 0 .. n - 1 : p[1] = at[q] /\ b * q + p[2] < w}

LEMMA CellsCount ==
    ASSUME NEW b \in Nat \ {0}, NEW n \in Nat, NEW w \in Nat, w <= b * n,
           NEW S, NEW at \in [0 .. n - 1 -> S], \A x, y \in 0 .. n - 1 : at[x] = at[y] => x = y
    PROVE  IsFiniteSet(Cells(b, n, w, S, at)) /\ Cardinality(Cells(b, n, w, S, at)) = w
<1> DEFINE C == Cells(b, n, w, S, at)
           F == [e \in 0 .. w - 1 |-> <<at[e \div b], e % b>>]
<1>1. ASSUME NEW e \in 0 .. w - 1
      PROVE  \E q \in 0 .. n - 1, r \in 0 .. b - 1 : q = e \div b /\ r = e % b /\ e = b * q + r
  <2>1. PICK q \in Nat, r \in 0 .. b - 1 : q = e \div b /\ r = e % b /\ e = b * q + r  BY DivMod
  <2>2. b * q < b * n  BY <2>1, MulNat
  <2>3. q \in 0 .. n - 1  BY <2>2, MulLess
  <2> QED  BY <2>1, <2>3
<1>2. ASSUME NEW e \in 0 .. w - 1 PROVE F[e] \in C
  <2>1. PICK q \in 0 .. n - 1, r \in 0 .. b - 1 : q = e \div b /\ r = e % b /\ e = b * q + r  BY <1>1
  <2>2. F[e] = <<at[q], r>> /\ at[q] \in S /\ b * q + r < w  BY <2>1
  <2> QED  BY <2>2 DEF Cells
<1>3. ASSUME NEW e \in 0 .. w - 1, NEW d \in 0 .. w - 1, F[e] = F[d] PROVE e = d
  <2>1. PICK q \in 0 .. n - 1, r \in 0 .. b - 1 : q = e \div b /\ r = e % b /\ e = b * q + r  BY <1>1
  <2>2. PICK u \in 0 .. n - 1, v \in 0 .. b - 1 : u = d \div b /\ v = d % b /\ d = b * u + v  BY <1>1
  <2>3. at[q] = at[u] /\ r = v  BY <1>3, <2>1, <2>2
  <2>4. q = u  BY <2>3
  <2> QED  BY <2>1, <2>2, <2>3, <2>4
<1>4. ASSUME NEW p \in C PROVE \E e \in 0 .. w - 1 : F[e] = p
  <2>1. PICK q \in 0 .. n - 1, r \in 0 .. b - 1 : r = p[2] /\ p[1] = at[q] /\ b * q + r < w /\ p = <<at[q], r>>
    BY DEF Cells
  <2>2. PICK e \in 0 .. w - 1 : e = b * q + r  BY <2>1, MulNat
  <2>3. q \in Nat  OBVIOUS
  <2>4. (b * q + r) \div b = q /\ (b * q + r) % b = r  BY ONLY <2>3, DivUnique, b \in Nat \ {0}, r \in 0 .. b - 1
  <2>5. F[e] = <<at[q], r>>  BY <2>2, <2>4
  <2> QED  BY <2>1, <2>5
<1> HIDE DEF C, F
<1>5. F = [e \in 0 .. w - 1 |-> F[e]]  BY DEF F
<1>6. F \in Bijection(0 .. w - 1, C)
  BY <1>2, <1>3, <1>4, <1>5 DEF Bijection, Injection, IsInjective, Surjection
<1>7. ExistsBijection(0 .. w - 1, C)  BY <1>6 DEF ExistsBijection
<1>8. IsFiniteSet(0 .. w - 1) /\ Cardinality(0 .. w - 1) = w
  <2>1. PICK y \in Int, z \in Int : y = 0 /\ z = w - 1  OBVIOUS
  <2>2. IsFiniteSet(y .. z) /\ Cardinality(y .. z) = IF y > z THEN 0 ELSE z - y + 1  BY FS_Interval, Zenon
  <2> QED  BY <2>1, <2>2
<1> QED  BY <1>7, <1>8, FS_Bijection DEF C

\* Bits that decide something.
Spots == {p \in Fields!Places : \E f \in 0 .. ForsTrees + 1 : Deciding(f, p[1], p[2])}

LEMMA SpotsCount ==
    ASSUME Fields!FieldsAssumption
    PROVE  Cardinality(Spots) = FORS_HEIGHT * (FORS_SIG_TREES + 1) + TREE_HEIGHT * D
<1>0. PICK t \in Nat \ {0}, b \in Nat \ {0}, n1 \in Nat, n2 \in Nat, n3 \in Nat, w1 \in Nat, w2 \in Nat, w3 \in Nat,
           e \in Nat, n \in Nat :
         /\ t = ForsTrees /\ b = DIGEST_BYTE_BITS /\ e = FORS_HEIGHT
         /\ n1 = Fields!FORS_MSG_BYTES /\ n2 = Fields!TREE_BYTES /\ n3 = Fields!LEAF_BYTES
         /\ n = Fields!DGST_BYTES /\ n = n1 + n2 + n3
         /\ w1 = e * t /\ w2 = Fields!TREE_BITS /\ w3 = Fields!LEAF_BITS
         /\ w1 <= b * n1 /\ w2 <= b * n2 /\ w3 <= b * n3
  <2>1. /\ ForsTrees \in Nat \ {0} /\ FORS_HEIGHT \in Nat /\ FORS_HEIGHT * ForsTrees \in Nat
        /\ FORS_HEIGHT * ForsTrees <= DIGEST_BYTE_BITS * Fields!FORS_MSG_BYTES
    BY FieldSizes DEF ForsTrees
  <2>2. Fields!DGST_BYTES \in Nat  BY FieldSizes
  <2> QED  BY <2>1, <2>2, FieldSizes
<1> DEFINE S == 0 .. n - 1
           at1 == [q \in 0 .. n1 - 1 |-> q]
           at2 == [q \in 0 .. n2 - 1 |-> n1 + n2 - 1 - q]
           at3 == [q \in 0 .. n3 - 1 |-> n - 1 - q]
           A == Cells(b, n1, w1, S, at1)
           B == Cells(b, n2, w2, S, at2)
           C == Cells(b, n3, w3, S, at3)
<1>1. IsFiniteSet(A) /\ Cardinality(A) = w1
  <2>1. at1 \in [0 .. n1 - 1 -> S] /\ \A x, y \in 0 .. n1 - 1 : at1[x] = at1[y] => x = y  BY <1>0
  <2> HIDE DEF S, at1
  <2> QED  BY <1>0, <2>1, CellsCount
<1>2. IsFiniteSet(B) /\ Cardinality(B) = w2
  <2>1. at2 \in [0 .. n2 - 1 -> S] /\ \A x, y \in 0 .. n2 - 1 : at2[x] = at2[y] => x = y  BY <1>0
  <2> HIDE DEF S, at2
  <2> QED  BY <1>0, <2>1, CellsCount
<1>3. IsFiniteSet(C) /\ Cardinality(C) = w3
  <2>1. at3 \in [0 .. n3 - 1 -> S] /\ \A x, y \in 0 .. n3 - 1 : at3[x] = at3[y] => x = y  BY <1>0
  <2> HIDE DEF S, at3
  <2> QED  BY <1>0, <2>1, CellsCount
<1>4. ASSUME NEW y \in 0 .. n - 1, NEW z \in 0 .. b - 1
      PROVE  /\ <<y, z>> \in A <=> y < n1 /\ b * y + z < w1
             /\ <<y, z>> \in B <=> n1 <= y /\ y < n1 + n2 /\ b * (n1 + n2 - 1 - y) + z < w2
             /\ <<y, z>> \in C <=> n1 + n2 <= y /\ b * (n - 1 - y) + z < w3
  <2>1. <<y, z>> \in A <=> y < n1 /\ b * y + z < w1
    <3>1. <<y, z>> \in A <=> \E q \in 0 .. n1 - 1 : y = q /\ b * q + z < w1  BY DEF Cells
    <3> QED  BY <3>1
  <2>2. <<y, z>> \in B <=> n1 <= y /\ y < n1 + n2 /\ b * (n1 + n2 - 1 - y) + z < w2
    <3>1. <<y, z>> \in B <=> \E q \in 0 .. n2 - 1 : y = n1 + n2 - 1 - q /\ b * q + z < w2  BY DEF Cells
    <3>2. ASSUME NEW q \in 0 .. n2 - 1, y = n1 + n2 - 1 - q PROVE n1 <= y /\ y < n1 + n2 /\ q = n1 + n2 - 1 - y
      BY <3>2
    <3>3. ASSUME n1 <= y, y < n1 + n2
          PROVE n1 + n2 - 1 - y \in 0 .. n2 - 1 /\ y = n1 + n2 - 1 - (n1 + n2 - 1 - y)
      BY <3>3
    <3> QED  BY <3>1, <3>2, <3>3
  <2>3. <<y, z>> \in C <=> n1 + n2 <= y /\ b * (n - 1 - y) + z < w3
    <3>1. <<y, z>> \in C <=> \E q \in 0 .. n3 - 1 : y = n - 1 - q /\ b * q + z < w3  BY DEF Cells
    <3>2. ASSUME NEW q \in 0 .. n3 - 1, y = n - 1 - q PROVE n1 + n2 <= y /\ q = n - 1 - y
      BY <1>0, <3>2
    <3>3. ASSUME n1 + n2 <= y
          PROVE n - 1 - y \in 0 .. n3 - 1 /\ y = n - 1 - (n - 1 - y)
      BY <1>0, <3>3
    <3> QED  BY <3>1, <3>2, <3>3
  <2> QED  BY <2>1, <2>2, <2>3
<1>5. A \subseteq S \X (0 .. b - 1) /\ B \subseteq S \X (0 .. b - 1) /\ C \subseteq S \X (0 .. b - 1)
  BY DEF Cells
<1> HIDE DEF A, B, C
<1>6. A \cap B = {} /\ (A \cup B) \cap C = {}
  BY <1>4, <1>5
<1>7. ASSUME NEW y \in 0 .. n - 1, NEW z \in 0 .. b - 1
      PROVE  (\E f \in 0 .. ForsTrees + 1 : Deciding(f, y, z)) <=> <<y, z>> \in A \cup B \cup C
  <2>1. PICK g \in Nat : g = b * y + z  BY MulNat
  <2>2. ASSUME NEW f \in 0 .. ForsTrees + 1, Deciding(f, y, z) PROVE <<y, z>> \in A \cup B \cup C
    <3>1. CASE f < t
      <4>1. e * f <= g /\ g < e * f + e  BY <1>0, <2>1, <2>2, <3>1 DEF Deciding
      <4>2. e * f + e = e * (f + 1) /\ e * (f + 1) <= e * t  BY <1>0, <3>1
      <4>3. g < w1  BY <1>0, <4>1, <4>2, MulNat
      <4>4. b * y < b * n1  BY <1>0, <2>1, <4>3, MulNat
      <4>5. y < n1  BY <4>4, MulLess
      <4> QED  BY <1>4, <2>1, <4>3, <4>5
    <3>2. CASE f = t  BY <1>0, <1>4, <2>2, <3>2 DEF Deciding
    <3>3. CASE f = t + 1
      <4>1. ~(f < ForsTrees) /\ f # ForsTrees  BY <1>0, <3>3
      <4> QED  BY <1>0, <1>4, <2>2, <4>1 DEF Deciding
    <3> QED  BY <1>0, <3>1, <3>2, <3>3
  <2>3. ASSUME <<y, z>> \in A PROVE \E f \in 0 .. ForsTrees + 1 : Deciding(f, y, z)
    <3>1. g < e * t  BY <1>0, <1>4, <2>1, <2>3
    <3>2. e # 0  BY <3>1
    <3>3. PICK q \in Nat, r \in 0 .. e - 1 : q = g \div e /\ r = g % e /\ g = e * q + r  BY <3>2, DivMod
    <3>4. e * q < e * t  BY <3>1, <3>3, MulNat
    <3>5. q < t  BY <3>2, <3>4, MulLess
    <3>6. e * q <= g /\ g < e * q + e  BY <3>3, MulNat
    <3>7. Deciding(q, y, z)  BY <1>0, <2>1, <3>5, <3>6 DEF Deciding
    <3> QED  BY <1>0, <3>5, <3>7
  <2>4. ASSUME <<y, z>> \in B PROVE Deciding(t, y, z)
    BY <1>0, <1>4, <2>4 DEF Deciding
  <2>5. ASSUME <<y, z>> \in C PROVE Deciding(t + 1, y, z)
    <3>1. ~(t + 1 < ForsTrees) /\ t + 1 # ForsTrees  BY <1>0
    <3> QED  BY <1>0, <1>4, <2>5, <3>1 DEF Deciding
  <2>6. t \in 0 .. ForsTrees + 1 /\ t + 1 \in 0 .. ForsTrees + 1  BY <1>0
  <2> QED  BY <2>2, <2>3, <2>4, <2>5, <2>6
<1>8. Spots = (A \cup B) \cup C
  <2>1. Fields!Places = S \X (0 .. b - 1)  BY <1>0 DEF Fields!Places
  <2>2. ASSUME NEW p \in S \X (0 .. b - 1) PROVE p \in Spots <=> p \in (A \cup B) \cup C
    <3>1. PICK y \in 0 .. n - 1, z \in 0 .. b - 1 : p = <<y, z>> /\ p[1] = y /\ p[2] = z  OBVIOUS
    <3>2. p \in Spots <=> \E f \in 0 .. ForsTrees + 1 : Deciding(f, y, z)  BY <2>1, <3>1 DEF Spots
    <3> QED  BY <1>7, <3>1, <3>2
  <2>3. Spots \subseteq S \X (0 .. b - 1)  BY <2>1 DEF Spots
  <2> HIDE DEF S
  <2> QED  BY <1>5, <2>2, <2>3
<1>9. IsFiniteSet(A \cup B) /\ Cardinality(A \cup B) = w1 + w2
  <2>1. IsFiniteSet(A \cup B) /\ Cardinality(A \cup B) = Cardinality(A) + Cardinality(B) - Cardinality(A \cap B)
    BY <1>1, <1>2, FS_Union
  <2>2. Cardinality(A \cap B) = 0  BY <1>6, FS_EmptySet
  <2> QED  BY <1>1, <1>2, <2>1, <2>2
<1>10. Cardinality((A \cup B) \cup C) = w1 + w2 + w3
  <2>1. Cardinality((A \cup B) \cup C)
          = Cardinality(A \cup B) + Cardinality(C) - Cardinality((A \cup B) \cap C)
    BY <1>3, <1>9, FS_Union
  <2>2. Cardinality((A \cup B) \cap C) = 0  BY <1>6, FS_EmptySet
  <2> QED  BY <1>3, <1>9, <2>1, <2>2
<1>11. w2 + w3 = TREE_HEIGHT * D /\ w1 = FORS_HEIGHT * (FORS_SIG_TREES + 1)
  BY <1>0, FieldSizes DEF ForsTrees
<1> QED  BY <1>8, <1>10, <1>11


----------------------------------------------------------------------------
(* The fields at work.                                                     *)

LEMMA OutputIs ==
    ASSUME Fields!FieldsAssumption, NEW m \in Outputs PROVE m \in Digested
<1>1. Fields!Pow2[DIGEST_BYTE_BITS] \in Nat  BY FieldSizes, FieldsPow
<1>2. m \in [0 .. Fields!DGST_BYTES - 1 -> 0 .. Fields!Pow2[DIGEST_BYTE_BITS] - 1]
  BY DEF Fields!FieldsAssumption
<1> QED  BY <1>1, <1>2 DEF Digested

LEMMA IndexRange ==
    ASSUME Fields!FieldsAssumption, NEW m \in Digested,
           NEW o \in Nat, o + FORS_HEIGHT <= DIGEST_BYTE_BITS * Fields!DGST_BYTES
    PROVE  Fields!Bits(m, o) \in 0 .. Fields!Pow2[FORS_HEIGHT] - 1
<1>1. PICK h \in Nat, b \in Nat \ {0}, n \in Nat :
         h = FORS_HEIGHT /\ b = DIGEST_BYTE_BITS /\ n = Fields!DGST_BYTES
  <2>1. Fields!DGST_BYTES \in Nat /\ DIGEST_BYTE_BITS \in Nat \ {0} /\ FORS_HEIGHT \in Nat  BY FieldSizes
  <2> QED  BY <2>1
<1>2. CASE h = 0
  <2> DEFINE t == [e \in 1 .. FORS_HEIGHT |-> Fields!Bit(m, o + e - 1) * Fields!Pow2[e - 1]]
  <2>1. t \in [1 .. FORS_HEIGHT -> Int] /\ \A e \in 1 .. FORS_HEIGHT : t[e] \in {0, Fields!Pow2[e - 1]}
    BY <1>1, <1>2
  <2>2. Fields!Bits(m, o) = Fields!Sum(FORS_HEIGHT, t)  BY DEF Fields!Bits
  <2> HIDE DEF t
  <2> QED  BY <1>1, <2>1, <2>2, SumBits
<1>3. CASE h # 0
  <2>1. n # 0
    <3>1. b * 0 = 0  BY <1>1
    <3> QED  BY <1>1, <1>3, <3>1
  <2>2. 0 \in 0 .. Fields!DGST_BYTES - 1 /\ 0 \in 0 .. DIGEST_BYTE_BITS - 1 /\ 0 \in Nat
        /\ 0 = DIGEST_BYTE_BITS * 0 + 0
    BY <1>1, <2>1
  <2> QED  BY <2>2, FlippedBits
<1> QED  BY <1>2, <1>3

LEMMA MaskedRange ==
    ASSUME Fields!FieldsAssumption, NEW m \in Digested,
           NEW s \in Nat, NEW n \in Nat, s + n <= Fields!DGST_BYTES, NEW w \in Nat
    PROVE  Fields!bytes_to_ull(m, s, n) % Fields!Pow2[w] \in 0 .. Fields!Pow2[w] - 1
<1>1. PICK b \in Nat \ {0}, e \in Nat : b = DIGEST_BYTE_BITS /\ e = Fields!DGST_BYTES
  <2>1. Fields!DGST_BYTES \in Nat /\ DIGEST_BYTE_BITS \in Nat \ {0}  BY FieldSizes
  <2> QED  BY <2>1
<1>2. CASE e = 0
  <2> DEFINE t == [l \in 1 .. n |-> m[s + n - l] * Fields!Pow2[DIGEST_BYTE_BITS * (l - 1)]]
  <2>1. t \in [1 .. n -> Nat]  BY <1>1, <1>2
  <2>2. Fields!bytes_to_ull(m, s, n) = Fields!Sum(n, t)  BY DEF Fields!bytes_to_ull
  <2> HIDE DEF t
  <2>3. PICK v \in Nat : v = Fields!bytes_to_ull(m, s, n)  BY <2>1, <2>2, SumNat
  <2>4. PICK p \in Nat \ {0} : p = Fields!Pow2[w]  BY FieldsPow
  <2>5. v % p \in 0 .. p - 1  BY <2>3, <2>4
  <2> QED  BY <2>3, <2>4, <2>5
<1>3. CASE e # 0
  <2>1. 0 \in 0 .. Fields!DGST_BYTES - 1 /\ 0 \in 0 .. DIGEST_BYTE_BITS - 1  BY <1>1, <1>3
  <2> QED  BY <2>1, FlippedMasked
<1> QED  BY <1>2, <1>3

LEMMA FieldRanges ==
    ASSUME Fields!FieldsAssumption, NEW m \in Digested
    PROVE  /\ Fields!Tree(m) \in 0 .. Fields!Pow2[Fields!TREE_BITS] - 1
           /\ Fields!LeafIdx(m) \in 0 .. Fields!Pow2[Fields!LEAF_BITS] - 1
           /\ Fields!message_to_indices(m)
                \in [0 .. FORS_SIG_TREES - 1 -> 0 .. Fields!Pow2[FORS_HEIGHT] - 1]
<1>1. Fields!Tree(m) \in 0 .. Fields!Pow2[Fields!TREE_BITS] - 1
  <2>1. CASE D = 1
    <3>1. Fields!Tree(m) = 0  BY <2>1 DEF Fields!Tree
    <3>2. Fields!Pow2[Fields!TREE_BITS] \in Nat \ {0}  BY FieldSizes, FieldsPow
    <3> QED  BY <3>1, <3>2
  <2>2. CASE D # 1
    <3>1. PICK s \in Nat, n \in Nat, w \in Nat :
            s = Fields!FORS_MSG_BYTES /\ n = Fields!TREE_BYTES /\ w = Fields!TREE_BITS /\ s + n <= Fields!DGST_BYTES
      BY FieldSizes
    <3>2. Fields!Tree(m) = Fields!bytes_to_ull(m, s, n) % Fields!Pow2[w]  BY <2>2, <3>1 DEF Fields!Tree
    <3> QED  BY <3>1, <3>2, MaskedRange
  <2> QED  BY <2>1, <2>2
<1>2. Fields!LeafIdx(m) \in 0 .. Fields!Pow2[Fields!LEAF_BITS] - 1
  <2>1. PICK s \in Nat, n \in Nat, w \in Nat :
          s = Fields!FORS_MSG_BYTES + Fields!TREE_BYTES /\ n = Fields!LEAF_BYTES /\ w = Fields!LEAF_BITS
          /\ s + n <= Fields!DGST_BYTES
    BY FieldSizes
  <2>2. Fields!LeafIdx(m) = Fields!bytes_to_ull(m, s, n) % Fields!Pow2[w]  BY <2>1 DEF Fields!LeafIdx
  <2> QED  BY <2>1, <2>2, MaskedRange
<1>3. ASSUME NEW f \in 0 .. FORS_SIG_TREES - 1
      PROVE  Fields!Bits(m, f * FORS_HEIGHT) \in 0 .. Fields!Pow2[FORS_HEIGHT] - 1
  <2>1. f \in Nat /\ f < ForsTrees
    <3>1. PICK t \in Nat \ {0} : t = ForsTrees  BY FieldSizes DEF ForsTrees
    <3>2. FORS_SIG_TREES = t - 1  BY <3>1, FieldSizes DEF ForsTrees
    <3> QED  BY <3>1, <3>2
  <2>2. PICK o \in Nat : o = f * FORS_HEIGHT /\ o + FORS_HEIGHT <= DIGEST_BYTE_BITS * Fields!DGST_BYTES
    BY <2>1, ForsInside
  <2> QED  BY <2>2, IndexRange
<1>4. Fields!message_to_indices(m)
        \in [0 .. FORS_SIG_TREES - 1 -> 0 .. Fields!Pow2[FORS_HEIGHT] - 1]
  BY <1>3 DEF Fields!message_to_indices
<1> QED  BY <1>1, <1>2, <1>4

LEMMA FieldsTypeInit ==
    ASSUME Fields!FieldsAssumption, Fields!Init PROVE Fields!TypeOK
<1>1. /\ 0 \in 0 .. Fields!Pow2[Fields!TREE_BITS] - 1 /\ 0 \in 0 .. Fields!Pow2[Fields!LEAF_BITS] - 1
      /\ 0 \in 0 .. Fields!Pow2[FORS_HEIGHT] - 1
  <2>1. /\ Fields!Pow2[Fields!TREE_BITS] \in Nat \ {0} /\ Fields!Pow2[Fields!LEAF_BITS] \in Nat \ {0}
        /\ Fields!Pow2[FORS_HEIGHT] \in Nat \ {0}
    BY FieldSizes, FieldsPow
  <2> QED  BY <2>1
<1> QED  BY <1>1 DEF Fields!Init, Fields!TypeOK

LEMMA FieldsTypeStep ==
    ASSUME Fields!FieldsAssumption, Fields!TypeOK, Fields!Next \/ UNCHANGED fieldsVars PROVE Fields!TypeOK'
<1>1. CASE Fields!HashMessage
  <2>1. Fields!Tree(buf) \in 0 .. Fields!Pow2[Fields!TREE_BITS] - 1
        /\ Fields!LeafIdx(buf) \in 0 .. Fields!Pow2[Fields!LEAF_BITS] - 1
    BY OutputIs, FieldRanges DEF Fields!TypeOK
  <2> QED  BY <1>1, <2>1 DEF Fields!HashMessage, Fields!TypeOK
<1>2. CASE Fields!Compressed  BY <1>2 DEF Fields!Compressed, Fields!TypeOK
<1>3. CASE Fields!MessageToIndices
  <2>1. Fields!message_to_indices(buf) \in [0 .. FORS_SIG_TREES - 1 -> 0 .. Fields!Pow2[FORS_HEIGHT] - 1]
    BY OutputIs, FieldRanges DEF Fields!TypeOK
  <2> QED  BY <1>3, <2>1 DEF Fields!MessageToIndices, Fields!TypeOK
<1>4. CASE UNCHANGED fieldsVars  BY <1>4 DEF fieldsVars, Fields!TypeOK
<1>5. UNCHANGED Fields!vars => UNCHANGED fieldsVars  BY DEF fieldsVars, Fields!vars
<1> QED  BY <1>1, <1>2, <1>3, <1>4, <1>5 DEF Fields!Next, Fields!Finished

\* What a bit decides is one field, and there are as many bits that decide as the
\* fields have.
LEMMA BitsDecide ==
    ASSUME Fields!FieldsAssumption, NEW m \in Digested
    PROVE  /\ \A p \in Fields!Places : Cardinality(Fields!Decides(m, p)) <= 1
           /\ {p \in Fields!Places : Fields!Decides(m, p) # {}} = Spots
<1>1. ASSUME NEW p \in Fields!Places
      PROVE  Fields!Decides(m, p) = {f \in 0 .. ForsTrees + 1 : Deciding(f, p[1], p[2])}
  <2>1. PICK y \in 0 .. Fields!DGST_BYTES - 1, z \in 0 .. DIGEST_BYTE_BITS - 1 : p[1] = y /\ p[2] = z
    BY DEF Fields!Places
  <2>2. \A f \in 0 .. ForsTrees + 1 :
          Fields!Fields(m)[f] # Fields!Fields(Fields!Flip(m, y, z))[f] <=> Deciding(f, y, z)
    BY ChangedIs
  <2> QED  BY <2>1, <2>2 DEF Fields!Decides, Fields!Changed, Fields!FORS_TREES, ForsTrees
<1>2. ASSUME NEW p \in Fields!Places PROVE Cardinality(Fields!Decides(m, p)) <= 1
  <2>1. PICK y \in 0 .. Fields!DGST_BYTES - 1, z \in 0 .. DIGEST_BYTE_BITS - 1 : p[1] = y /\ p[2] = z
    BY DEF Fields!Places
  <2>2. ASSUME NEW f \in Fields!Decides(m, p), NEW h \in Fields!Decides(m, p) PROVE f = h
    <3>1. /\ f \in 0 .. ForsTrees + 1 /\ h \in 0 .. ForsTrees + 1
          /\ Deciding(f, y, z) /\ Deciding(h, y, z)
      BY <1>1, <2>1
    <3>2. f < h => FALSE  BY <3>1, DecidesOne
    <3>3. h < f => FALSE  BY <3>1, DecidesOne
    <3>4. f \in Int /\ h \in Int  BY <3>1
    <3> QED  BY <3>2, <3>3, <3>4
  <2>3. CASE Fields!Decides(m, p) = {}  BY <2>3, FS_EmptySet
  <2>4. CASE Fields!Decides(m, p) # {}
    <3>1. PICK f : Fields!Decides(m, p) = {f}  BY <2>2, <2>4
    <3>2. Cardinality({f}) = 1  BY FS_Singleton
    <3> QED  BY <3>1, <3>2
  <2> QED  BY <2>3, <2>4
<1>3. {p \in Fields!Places : Fields!Decides(m, p) # {}} = Spots  BY <1>1 DEF Spots
<1> QED  BY <1>2, <1>3

LEMMA FieldsTurn ==
    ASSUME Fields!FieldsAssumption, Fields!TypeOK, [HashNext]_<<turn, vars, addrVars, fieldsVars>>
    PROVE  Fields!TypeOK'
BY FieldsTypeStep DEF HashNext

LEMMA FieldsDecide ==
    ASSUME Fields!FieldsAssumption, Fields!TypeOK PROVE EveryBitDecidesOnce
<1>1. buf \in Digested  BY OutputIs DEF Fields!TypeOK
<1>2. PICK S : S = {p \in Fields!Places : Fields!Decides(buf, p) # {}}  OBVIOUS
<1>3. S = Spots  BY <1>1, <1>2, BitsDecide
<1>4. Cardinality(S) = FORS_HEIGHT * (FORS_SIG_TREES + 1) + TREE_HEIGHT * D  BY <1>3, SpotsCount
<1>5. \A p \in Fields!Places : Cardinality(Fields!Decides(buf, p)) <= 1  BY <1>1, BitsDecide
<1> QED  BY <1>2, <1>4, <1>5 DEF EveryBitDecidesOnce

----------------------------------------------------------------------------
(* The theorems.                                                           *)

LEMMA AddrTurn ==
    ASSUME [HashNext]_<<turn, vars, addrVars, fieldsVars>> PROVE Addr!Next \/ UNCHANGED Addr!vars
<1>1. Addr!Next \/ UNCHANGED addrVars  BY DEF HashNext
<1>2. UNCHANGED addrVars => UNCHANGED Addr!vars
  BY DEF addrVars, Addr!vars, Addr!callVars, Addr!addrs, Addr!laneAddrs
<1> QED  BY <1>1, <1>2

\* Whatever key generation, scalar and eight-lane signing, and verification leave
\* in the address buffers they go on using, two hashes of the scheme carry the same
\* bytes exactly when they compute the same thing: a setter of address.c that
\* truncates, overlaps or is not called never shows.
THEOREM DomainSeparation == ASSUME Addr!AddressAssumption PROVE HashSpec => []AddressNamesRole
<1>1. HashInit => AddrInv  BY AddrInvInit DEF HashInit
<1>2. AddrInv /\ [HashNext]_<<turn, vars, addrVars, fieldsVars>> => AddrInv'  BY AddrTurn, AddrInvStep
<1>3. AddrInv => AddressNamesRole  BY AddrInvNames DEF AddressNamesRole
<1> QED  BY <1>1, <1>2, <1>3, PTL DEF HashSpec

\* The verifier of a signature repeats hashes the signer made, none else and each
\* under the signer's address: fors_pk_from_sig, wots_pk_from_sig and compute_root
\* meet the nodes that treehashx1 or treehashx8 completed on the way of the signed
\* leaf to the root, at every layer of the hypertree.
THEOREM VerificationRetracesSigning ==
    ASSUME Addr!AddressAssumption PROVE HashSpec => []VerifierRetraces
<1> DEFINE I == AddrInv /\ RetraceInv
<1>1. HashInit => I  BY AddrInvInit, RetraceInit DEF HashInit
<1>2. I /\ [HashNext]_<<turn, vars, addrVars, fieldsVars>> => I'  BY AddrTurn, AddrInvStep, RetraceStep
<1>3. I => VerifierRetraces  BY DEF RetraceInv, VerifierRetraces
<1> HIDE DEF I
<1> QED  BY <1>1, <1>2, <1>3, PTL DEF HashSpec

\* Whatever the sizes of bytes and fields and whatever outputs MGF1 has, the FORS
\* leaves, the compressed index, the subtree and the leaf that hash_message and
\* message_to_indices read off a digest are ones that exist, read off different
\* bits, and off every bit the fields have.
THEOREM FieldsIndependent ==
    ASSUME Fields!FieldsAssumption PROVE HashSpec => []EveryBitDecidesOnce
<1>1. HashInit => Fields!TypeOK  BY FieldsTypeInit DEF HashInit
<1>2. Fields!TypeOK /\ [HashNext]_<<turn, vars, addrVars, fieldsVars>> => Fields!TypeOK'  BY FieldsTurn
<1>3. Fields!TypeOK => EveryBitDecidesOnce  BY FieldsDecide
<1> QED  BY <1>1, <1>2, <1>3, PTL DEF HashSpec
================================================================================
