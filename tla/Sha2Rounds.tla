----------------------------- MODULE Sha2Rounds -----------------------------
(***************************************************************************)
(* The SHA-2 compression functions: the portable code, the x86 SHA         *)
(* instructions, the ARM ones and eight SHA-256 in AVX2 registers.  They   *)
(* keep the working variables and the message schedule in different        *)
(* places (rotating registers, packed halves, sixteen words overwritten in *)
(* place, columns of a transposed matrix), and signatures made with one    *)
(* are verified with another.                                              *)
(*                                                                         *)
(* A word is a sum modulo 2^w, kept as a bag of its terms: message words,  *)
(* working variables, round constants by index, and sigma, Ch and Maj of   *)
(* words, which stay uninterpreted.  A sum that FIPS 180-4 has a name for  *)
(* is replaced by the name (Named), so that what a register holds can be   *)
(* compared with what it should.  The values of the constants and the bits *)
(* of sigma, Ch and Maj are below this abstraction.                        *)
(***************************************************************************)
EXTENDS Integers, Sequences, FiniteSets, Bags

CONSTANTS
    Backends,                         \* the implementations called
    Blocks, Tails,                    \* inlen: whole blocks, and bytes after them
    CC_LONG                           \* a CommonCrypto length is modulo this

RoundsAssumption ==
    /\ Backends \subseteq {"ref256", "ref512", "x86_256", "x86_512", "arm", "avx2", "cc"}
    /\ Blocks \subseteq Nat
    /\ Tails \subseteq 0 .. 63
    /\ CC_LONG \in Nat \ {0}

WordBytes(be) == IF be \in {"ref512", "x86_512"} THEN 8 ELSE 4
BlockBytes(be) == 16 * WordBytes(be)
Rounds(be) == IF be \in {"ref512", "x86_512"} THEN 80 ELSE 64
RowRounds(be) == IF be \in {"x86_256", "x86_512", "arm"} THEN 4 ELSE 1
Lanes(be) == IF be = "avx2" THEN 0 .. 7 ELSE {0}

----------------------------------------------------------------------------
(* Words.                                                                  *)

One(x) == SetToBag({x})
Lost == One(<<"lost">>)               \* a value nobody has a name for

Shared == -1                          \* the hash value all lanes start from

\* Block b of lane l: its message words, and the working variables a and e
\* after i rounds.  The others are older ones: b is A(i-1), h is E(i-3).
W(l, b, t) == One(<<"W", l, b, t>>)
K(t) == One(<<"K", t>>)
A(l, b, i) == One(IF b = 0 /\ i <= 0 THEN <<"A", Shared, 0, i>> ELSE <<"A", l, b, i>>)
E(l, b, i) == One(IF b = 0 /\ i <= 0 THEN <<"E", Shared, 0, i>> ELSE <<"E", l, b, i>>)

sigma0(x) == One(<<"s0", x>>)
sigma1(x) == One(<<"s1", x>>)
Sigma0(x) == One(<<"S0", x>>)
Sigma1(x) == One(<<"S1", x>>)
Ch(x, y, z) == One(<<"Ch", x, y, z>>)
Maj(x, y, z) == One(<<"Maj", x, y, z>>)

(* FIPS 180-4: schedule, round, and the sum with the previous hash value.  *)

ScheduleSum(l, b, t) ==
    sigma1(W(l, b, t - 2)) (+) W(l, b, t - 7) (+) sigma0(W(l, b, t - 15)) (+) W(l, b, t - 16)
T1Sum(l, b, i) ==
    E(l, b, i - 4) (+) Sigma1(E(l, b, i - 1)) (+) Ch(E(l, b, i - 1), E(l, b, i - 2), E(l, b, i - 3))
      (+) K(i - 1) (+) W(l, b, i - 1)
ASum(l, b, i) ==
    T1Sum(l, b, i) (+) Sigma0(A(l, b, i - 1)) (+) Maj(A(l, b, i - 1), A(l, b, i - 2), A(l, b, i - 3))
ESum(l, b, i) == A(l, b, i - 4) (+) T1Sum(l, b, i)

\* The hash value before block b, and the working variables after i rounds.
Working(l, b, i) == [j \in 0 .. 7 |-> IF j < 4 THEN A(l, b, i - j) ELSE E(l, b, i - (j - 4))]
HashValue(l, b) == Working(l, b, 0)

\* A word, under its name if it has one.
Named(w) ==
    LET at(kind) == {x \in BagToSet(w) : x[1] = kind}
        W1 == {x[2] : x \in at("s1")}
        schedule == {x \in UNION {BagToSet(y) : y \in W1} :
                       x[1] = "W" /\ w = ScheduleSum(x[2], x[3], x[4] + 2)}
        round(Sum(_, _, _)) == {x \in at("W") : w = Sum(x[2], x[3], x[4] + 1)}
    IN  IF schedule # {} THEN LET x == CHOOSE x \in schedule : TRUE IN W(x[2], x[3], x[4] + 2)
        ELSE IF round(ASum) # {} THEN LET x == CHOOSE x \in round(ASum) : TRUE IN A(x[2], x[3], x[4] + 1)
        ELSE IF round(ESum) # {} THEN LET x == CHOOSE x \in round(ESum) : TRUE IN E(x[2], x[3], x[4] + 1)
        ELSE w

\* A register between rounds: which garbage it holds, no property asks.
Reg(w) == LET n == Named(w) IN IF Cardinality(BagToSet(n)) = 1 THEN n ELSE Lost
RegVec(v) == [i \in DOMAIN v |-> Reg(v[i])]

\* The sum with the hash value before the block, lane by lane.
FeedForward(be, b, x, y) ==
    LET sums == {<<l, i>> \in Lanes(be) \X (0 .. 7) :
                   x (+) y = Working(l, b, Rounds(be))[i] (+) HashValue(l, b)[i]}
    IN  IF sums = {} THEN Lost
        ELSE LET c == CHOOSE c \in sums : TRUE IN HashValue(c[1], b + 1)[c[2]]

VecAdd(u, v) == [i \in DOMAIN u |-> u[i] (+) v[i]]

----------------------------------------------------------------------------
(* Loads.  A word has the bytes at offsets o of its block, most            *)
(* significant first.                                                      *)

WordOf(be, l, b, o) ==
    LET n == WordBytes(be) IN
      IF \E t \in 0 .. 15 : o = [i \in 1 .. n |-> n * t + i - 1]
      THEN W(l, b, o[1] \div n) ELSE Lost

\* load_bigendian_32, load_bigendian_64
load_bigendian(be, l, b, t) ==
    WordOf(be, l, b, [i \in 1 .. WordBytes(be) |-> WordBytes(be) * t + i - 1])

\* bswap_mask, BYTESWAP, vrev32q: the byte that byte j of a vector comes from.
Bswap(n, j) == n * (j \div n) + (n - 1 - (j % n))

\* n words from word t on: a little-endian vector load, then the byte swap.
LoadVec(be, l, b, t, n) ==
    LET bytes == WordBytes(be) IN
      [k \in 0 .. n - 1 |->
         WordOf(be, l, b, [i \in 1 .. bytes |-> Bswap(bytes, bytes * (t + k) + bytes - i)])]

----------------------------------------------------------------------------
(* Vector instructions.                                                    *)

Vec4(a, b, c, d) == [i \in 0 .. 3 |-> <<a, b, c, d>>[i + 1]]
Shuffle(v, imm) == [i \in 0 .. 3 |-> v[(imm \div 4^i) % 4]]
AlignR(a, b, n) == [i \in 0 .. 3 |-> IF i + n < 4 THEN b[i + n] ELSE a[i + n - 4]]
BlendHigh(a, b) == [i \in 0 .. 3 |-> IF i < 2 THEN a[i] ELSE b[i]]
Permute2x128(a, b, imm) ==
    LET h == Cardinality(DOMAIN a) \div 2
        half(c, i) == <<a[i], a[h + i], b[i], b[h + i]>>[c + 1]
    IN  [i \in DOMAIN a |-> IF i < h THEN half(imm % 16, i) ELSE half(imm \div 16, i - h)]
\* _mm256_unpacklo_epi32 (k = 1), _mm256_unpacklo_epi64 (k = 2), and ..hi.. ones
Unpack(a, b, k, hi) ==
    [i \in DOMAIN a |->
       LET e == (i % 4) \div k
           j == 4 * (i \div 4) + 2 * hi + (e \div 2) * k + (i % k)
       IN  IF e % 2 = 0 THEN a[j] ELSE b[j]]

\* One round on a..h, with w + k.
Round(v, wk) ==
    LET T1 == v[7] (+) Sigma1(v[4]) (+) Ch(v[4], v[5], v[6]) (+) wk
        T2 == Sigma0(v[0]) (+) Maj(v[0], v[1], v[2])
    IN  RegVec([i \in 0 .. 7 |-> CASE i = 0 -> T1 (+) T2
                                   [] i = 4 -> v[3] (+) T1
                                   [] OTHER -> v[i - 1]])

\* _mm_sha256rnds2_epu32, _mm256_sha512rnds2_epi64: two rounds on vectors with
\* c, d, g, h and a, b, e, f from the top lane down; the new a, b, e, f.
rnds2(cdgh, abef, wk0, wk1) ==
    LET v == [i \in 0 .. 7 |-> <<abef[3], abef[2], cdgh[3], cdgh[2],
                                 abef[1], abef[0], cdgh[1], cdgh[0]>>[i + 1]]
        n == Round(Round(v, wk0), wk1)
    IN  Vec4(n[5], n[4], n[1], n[0])

\* vsha256hq_u32 and vsha256h2q_u32: four rounds; the new a..d, the new e..h.
FourRounds(abcd, efgh, wk) ==
    LET v == [i \in 0 .. 7 |-> IF i < 4 THEN abcd[i] ELSE efgh[i - 4]]
    IN  Round(Round(Round(Round(v, wk[0]), wk[1]), wk[2]), wk[3])
vsha256hq(abcd, efgh, wk) == LET n == FourRounds(abcd, efgh, wk) IN Vec4(n[0], n[1], n[2], n[3])
vsha256h2q(efgh, abcd, wk) == LET n == FourRounds(abcd, efgh, wk) IN Vec4(n[4], n[5], n[6], n[7])

\* sha256msg1, sha512msg1, vsha256su0q: W(t-16) + sigma0(W(t-15))
msg1(a, b) == [i \in 0 .. 3 |-> a[i] (+) sigma0(IF i < 3 THEN a[i + 1] ELSE b[0])]
\* sha256msg2, sha512msg2: + sigma1(W(t-2)), the last two from the first two
msg2(a, b) ==
    LET w16 == Named(a[0] (+) sigma1(b[2]))
        w17 == Named(a[1] (+) sigma1(b[3]))
    IN  Vec4(w16, w17, Named(a[2] (+) sigma1(w16)), Named(a[3] (+) sigma1(w17)))
\* vsha256su1q(a, b, c): the words one after those of b, then sha256msg2
vsha256su1q(a, b, c) == msg2(VecAdd(a, AlignR(c, b, 1)), c)

----------------------------------------------------------------------------
VARIABLES
    be,                               \* the implementation called
    inlen,                            \* bytes it was given
    left,                             \* bytes it has not read
    b,                                \* blocks done
    pc, r,                            \* r: rows of rounds done in this block
    s,                                \* working variables
    m,                                \* message words
    saved,                            \* the working variables before the block
    state                             \* statebytes, one for each lane

vars == <<be, inlen, left, b, pc, r, s, m, saved, state>>

Nothing == << >>
row(q) == m[q % 4]

\* spx_sha256_process_x86: a..h into ABEF and CDGH, and back.
PackX86(h) ==
    LET tmp == Shuffle(Vec4(h[0], h[1], h[2], h[3]), \hB1)
        efgh == Shuffle(Vec4(h[4], h[5], h[6], h[7]), \h1B)
    IN  [i \in 0 .. 1 |-> IF i = 0 THEN AlignR(tmp, efgh, 2) ELSE BlendHigh(efgh, tmp)]
UnpackX86(v) ==
    LET tmp == Shuffle(v[0], \h1B)
        s1 == Shuffle(v[1], \hB1)
        lo == BlendHigh(tmp, s1)
        hi == AlignR(s1, tmp, 2)
    IN  [i \in 0 .. 7 |-> IF i < 4 THEN lo[i] ELSE hi[i - 4]]

\* spx_sha512_permute_state: shuffle_epi32 by 4E swaps 64-bit neighbours.
permute_state(v) ==
    LET s0 == Shuffle(v[0], \hB1)
        s1 == Shuffle(v[1], \hB1)
    IN  [i \in 0 .. 1 |-> IF i = 0 THEN Permute2x128(s0, s1, \h13) ELSE Permute2x128(s0, s1, \h02)]

Halves(h) == [i \in 0 .. 1 |-> [j \in 0 .. 3 |-> h[4 * i + j]]]
Unhalve(v) == [i \in 0 .. 7 |-> v[i \div 4][i % 4]]

\* transpose: eight vectors of eight words
transpose(v) ==
    LET tmp0 == [i \in 0 .. 7 |-> Unpack(v[2 * (i \div 2)], v[2 * (i \div 2) + 1], 1, i % 2)]
        tmp1 == [i \in 0 .. 7 |-> LET j == 4 * (i \div 4) + (i % 4) \div 2
                                  IN  Unpack(tmp0[j], tmp0[j + 2], 2, i % 2)]
    IN  [i \in 0 .. 7 |-> Permute2x128(tmp1[i % 4], tmp1[(i % 4) + 4], IF i < 4 THEN \h20 ELSE \h31)]

\* The working variables of each implementation from statebytes, and back.
LoadState(x) ==
    CASE be \in {"ref256", "ref512", "cc"} -> x[0]
      [] be = "x86_256" -> PackX86(x[0])
      [] be = "x86_512" -> permute_state(Halves(x[0]))
      [] be = "arm"     -> Halves(x[0])
      [] be = "avx2"    -> [i \in 0 .. 7 |-> [l \in 0 .. 7 |-> x[l][i]]]
StoreState(v) ==
    CASE be \in {"ref256", "ref512", "cc"} -> [l \in {0} |-> v]
      [] be = "x86_256" -> [l \in {0} |-> UnpackX86(v)]
      [] be = "x86_512" -> [l \in {0} |-> Unhalve(permute_state(v))]
      [] be = "arm"     -> [l \in {0} |-> Unhalve(v)]
      [] be = "avx2"    -> transpose(v)

----------------------------------------------------------------------------
(* One call.                                                               *)

\* Some implementation gets a hash value and bytes.  The accelerated ones
\* return at once when there is no whole block.  sha256x8_seeded broadcasts
\* the seed's hash value to its lanes.
Call ==
    /\ pc = "idle"
    /\ be' \in Backends
    /\ \E k \in Blocks, n \in Tails : inlen' = k * BlockBytes(be') + n
    /\ left' = inlen'
    /\ state' = [l \in Lanes(be') |-> HashValue(0, 0)]
    /\ pc' = IF be' \notin {"ref256", "ref512", "avx2"} /\ inlen' < BlockBytes(be')
             THEN "ret" ELSE "enter"
    /\ b' = 0 /\ r' = 0
    /\ UNCHANGED <<s, m, saved>>

Enter ==
    /\ pc = "enter"
    /\ s' = LoadState(state)
    /\ pc' = IF be = "cc" THEN "cc" ELSE "block"
    /\ UNCHANGED <<be, inlen, left, b, r, m, saved, state>>

\* The loop head: load the sixteen words of a block.
MessageWords ==
    CASE be \in {"ref256", "ref512"} -> [t \in 0 .. 15 |-> load_bigendian(be, 0, b, t)]
      [] be \in {"x86_256", "x86_512", "arm"} -> [q \in 0 .. 3 |-> LoadVec(be, 0, b, 4 * q, 4)]
      [] be = "avx2" ->
           LET w0 == transpose([l \in 0 .. 7 |-> LoadVec(be, l, b, 0, 8)])
               w8 == transpose([l \in 0 .. 7 |-> LoadVec(be, l, b, 8, 8)])
           IN  [t \in 0 .. 15 |-> IF t < 8 THEN w0[t] ELSE w8[t - 8]]

WholeBlock == left >= BlockBytes(be)

LoadBlock ==
    /\ pc = "block"
    /\ WholeBlock
    /\ saved' = s
    /\ m' = MessageWords
    /\ r' = 0
    /\ pc' = "rounds"
    /\ UNCHANGED <<be, inlen, left, b, s, state>>

Row(backend, s1, m1) ==
    /\ pc = "rounds"
    /\ be = backend
    /\ r < Rounds(be) \div RowRounds(be)
    /\ s' = s1
    /\ m' = m1
    /\ r' = r + 1
    /\ UNCHANGED <<be, inlen, left, b, pc, saved, state>>

\* M_32, M_64
M(w, i) ==
    Named(sigma1(w[(i + 14) % 16]) (+) w[(i + 9) % 16] (+) sigma0(w[(i + 1) % 16]) (+) w[i])

\* EXPAND_32, EXPAND_64: sixteen words, each from those already replaced.
EXPAND(w) ==
    LET after[n \in 0 .. 16] ==
          IF n = 0 THEN w ELSE [after[n - 1] EXCEPT ![n - 1] = M(after[n - 1], n - 1)]
    IN  after[16]

\* F_32, F_64 for w(r % 16); EXPAND stands before rounds 16, 32, 48 (and 64).
RefWords == IF r > 0 /\ r % 16 = 0 THEN EXPAND(m) ELSE m
RefRound256 == Row("ref256", Round(s, K(r) (+) RefWords[r % 16]), RefWords)
RefRound512 == Row("ref512", Round(s, K(r) (+) RefWords[r % 16]), RefWords)

\* Faulty variant: the schedule of the next row comes one row late.
Msg2Rows_Late == 4 .. 14

\* The rows of spx_sha256_process_x86 that finish the next four words, and
\* those that start the four after the next three.
Msg2Rows == 3 .. 14
Msg1Rows == 1 .. 12

X86Row256 ==
    /\ pc = "rounds" /\ be = "x86_256"
    /\ LET wk == [i \in 0 .. 3 |-> row(r)[i] (+) K(4 * r + i)]
           s1 == rnds2(s[1], s[0], wk[0], wk[1])
           s0 == rnds2(s[0], s1, Shuffle(wk, \h0E)[0], Shuffle(wk, \h0E)[1])
           m1 == IF r \in Msg2Rows
                 THEN [m EXCEPT ![(r + 1) % 4] =
                         msg2(VecAdd(row(r + 1), AlignR(row(r), row(r + 3), 1)), row(r))]
                 ELSE m
           m2 == IF r \in Msg1Rows
                 THEN [m1 EXCEPT ![(r + 3) % 4] = msg1(m1[(r + 3) % 4], m1[r % 4])]
                 ELSE m1
       IN  Row("x86_256", [i \in 0 .. 1 |-> IF i = 0 THEN s0 ELSE s1], m2)

\* spx_sha512_msg_expand on the message registers j, j+1, j+2, j+3
msg_expand(w, j) ==
    LET at(k) == w[(j + k) % 4]
        m3 == msg1(at(3), at(0))
        m2 == msg2(VecAdd(at(2), AlignR(at(1), at(0), 1)), at(1))
    IN  [w EXCEPT ![(j + 3) % 4] = m3, ![(j + 2) % 4] = m2]

\* for (r = 2; r != 18; r += 4), with the rows before and after it
ExpandRows == 2 .. 17

\* spx_sha512_4rounds: state0 is CDGH and state1 is ABEF.
X86Row512 ==
    /\ pc = "rounds" /\ be = "x86_512"
    /\ LET wk == [i \in 0 .. 3 |-> row(r)[i] (+) K(4 * r + i)]
           s0 == rnds2(s[0], s[1], wk[0], wk[1])
           s1 == rnds2(s[1], s0, wk[2], wk[3])
           m1 == IF r = 1 THEN [m EXCEPT ![0] = msg1(m[0], m[1])]
                 ELSE IF r \in ExpandRows THEN msg_expand(m, r % 4) ELSE m
       IN  Row("x86_512", [i \in 0 .. 1 |-> IF i = 0 THEN s0 ELSE s1], m1)

\* SPX_SHA256_ROUND4, with the two schedule instructions before it.
ArmRow ==
    /\ pc = "rounds" /\ be = "arm"
    /\ LET m1 == IF r < 4 THEN m
                 ELSE [m EXCEPT ![r % 4] =
                         vsha256su1q(msg1(row(r), row(r + 1)), row(r + 2), row(r + 3))]
           tmp == [i \in 0 .. 3 |-> m1[r % 4][i] (+) K(4 * r + i)]
           s1 == RegVec(vsha256hq(s[1], s[0], tmp))
           s0 == RegVec(vsha256h2q(s[0], s1, tmp))
       IN  Row("arm", [i \in 0 .. 1 |-> IF i = 0 THEN s0 ELSE s1], m1)

\* Where round r has working variable i: the arguments rotate by one register.
Reg8(i) == (8 - (r % 8) + i) % 8

\* SHA256ROUND_AVX in all lanes; from round 16 on w[r] is computed first.
AvxRound ==
    /\ pc = "rounds" /\ be = "avx2"
    /\ LET lane(f(_)) == [l \in 0 .. 7 |-> f(l)]
           w(l) == IF r < 16 THEN m[r][l]
                   ELSE Named(sigma1(m[r - 2][l]) (+) m[r - 16][l]
                                (+) m[r - 7][l] (+) sigma0(m[r - 15][l]))
           v(l, i) == s[Reg8(i)][l]
           T0(l) == v(l, 7) (+) Sigma1(v(l, 4)) (+) Ch(v(l, 4), v(l, 5), v(l, 6)) (+) K(r) (+) w(l)
           T1(l) == Sigma0(v(l, 0)) (+) Maj(v(l, 0), v(l, 1), v(l, 2))
           d(l) == Reg(v(l, 3) (+) T0(l))
           h(l) == Reg(T0(l) (+) T1(l))
       IN  Row("avx2", [s EXCEPT ![Reg8(3)] = lane(d), ![Reg8(7)] = lane(h)],
               [t \in DOMAIN m \cup {r} |-> IF t = r THEN lane(w) ELSE m[t]])

\* Faulty variant: the sum with the hash value is forgotten.
Summed_Not(x, y) == x

\* What is left of the working variables x that came from y.
Summed(x, y) == FeedForward(be, b, x, y)

\* The block ends: add the hash value it started from.
EndBlock ==
    /\ pc = "rounds"
    /\ r = Rounds(be) \div RowRounds(be)
    /\ s' = [i \in DOMAIN s |->
               IF be \in {"ref256", "ref512"} THEN Summed(s[i], saved[i])
               ELSE [j \in DOMAIN s[i] |-> Summed(s[i][j], saved[i][j])]]
    /\ b' = b + 1
    /\ left' = left - BlockBytes(be)
    /\ m' = Nothing
    /\ saved' = Nothing
    /\ pc' = "block"
    /\ UNCHANGED <<be, inlen, r, state>>

\* CC_SHA256_Update and CC_SHA512_Update hash the whole blocks of the bytes
\* they are told of; the caller counts the ones it meant.
CommonCrypto ==
    /\ pc = "cc"
    /\ LET full_bytes == inlen - (inlen % BlockBytes(be))
           told == full_bytes % CC_LONG
       IN  /\ s' = HashValue(0, told \div BlockBytes(be))
           /\ b' = full_bytes \div BlockBytes(be)
           /\ left' = inlen - full_bytes
    /\ pc' = "block"
    /\ UNCHANGED <<be, inlen, r, m, saved, state>>

Leave ==
    /\ pc = "block"
    /\ ~WholeBlock
    /\ state' = StoreState(s)
    /\ s' = Nothing
    /\ pc' = "ret"
    /\ UNCHANGED <<be, inlen, left, b, r, m, saved>>

Return ==
    /\ pc = "ret"
    /\ pc' = "idle"
    /\ UNCHANGED <<be, inlen, left, b, r, s, m, saved, state>>

Init ==
    /\ be \in Backends
    /\ inlen = 0 /\ left = 0 /\ b = 0 /\ r = 0
    /\ pc = "idle"
    /\ s = Nothing /\ m = Nothing /\ saved = Nothing
    /\ state = [l \in Lanes(be) |-> HashValue(0, 0)]

Next ==
    \/ Call \/ Enter \/ LoadBlock
    \/ RefRound256 \/ RefRound512
    \/ X86Row256 \/ X86Row512 \/ ArmRow \/ AvxRound
    \/ EndBlock \/ CommonCrypto \/ Leave \/ Return

Spec == Init /\ [][Next]_vars

----------------------------------------------------------------------------
\* The rounds done so far fit the block and the block fits the input.
TypeOK ==
    /\ be \in Backends
    /\ pc \in {"idle", "enter", "block", "rounds", "cc", "ret"}
    /\ r \in 0 .. Rounds(be) \div RowRounds(be)
    /\ left \in 0 .. inlen
    /\ pc = "rounds" => left >= BlockBytes(be)

\* The working variables a..h of lane l, wherever the implementation has them.
Working8(l) ==
    CASE be \in {"ref256", "ref512"} -> s
      [] be = "x86_256" -> UnpackX86(s)
      [] be = "x86_512" -> Unhalve(permute_state(s))
      [] be = "arm"     -> Unhalve(s)
      [] be = "avx2"    -> [i \in 0 .. 7 |-> s[Reg8(i)][l]]

\* The message words the last round used are those of its round number, in
\* every lane, though they are computed in place and rows ahead: by EXPAND, by
\* msg1 and msg2 spread over four rows, or by the ARM schedule instructions.
ScheduleOnTime ==
    (pc = "rounds" /\ r > 0) =>
        LET q == r - 1 IN
          CASE be \in {"ref256", "ref512"} -> m[q % 16] = W(0, b, q)
            [] be = "avx2" -> \A l \in Lanes(be) : m[q][l] = W(l, b, q)
            [] OTHER -> \A i \in 0 .. 3 : m[q % 4][i] = W(0, b, 4 * q + i)

\* After every round (every four in the vector code) the registers of each
\* implementation hold the working variables of FIPS 180-4, in its own
\* arrangement: no round gets a stale word, another round's constant or a register
\* that was already overwritten.  The words of the message schedule are on time
\* also in the ARM code; its registers are not the working variables, because
\* SPX_SHA256_ROUND4 passes them in another order than the instructions take.
WorkingVariables ==
    /\ ScheduleOnTime
    /\ (pc = "rounds" /\ be # "arm") =>
          \A l \in Lanes(be) : Working8(l) = Working(l, b, RowRounds(be) * r)

\* What the call leaves in statebytes is the hash value after all whole blocks
\* of the input and nothing else, in every lane, and the count it returns is
\* the bytes behind them: sha256_inc_finalize pads exactly those.  Not so in the
\* ARM code (its registers, above), and in CommonCrypto only for a length that a
\* CC_LONG holds: CommonCryptoAgrees is about the others.
HashedAllBlocks ==
    left = inlen % BlockBytes(be) /\ \A l \in Lanes(be) :
        state[l] = HashValue(l, inlen \div BlockBytes(be))
BlocksChain == (pc = "ret" /\ be # "arm") => HashedAllBlocks

\* "signatures should be byte-identical across scalar/auto backends": the
\* CommonCrypto implementation leaves the same hash value for any inlen.
CommonCryptoAgrees == (pc = "ret" /\ be = "cc") => HashedAllBlocks
=============================================================================
