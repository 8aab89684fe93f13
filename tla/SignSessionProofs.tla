-------------------------- MODULE SignSessionProofs --------------------------
(***************************************************************************)
(* Proofs about SignSession, for any number of threads, keys and messages, *)
(* any caps the assumptions admit and any outcome of the hash functions.   *)
(*                                                                         *)
(* A thread reaches what belongs to another only through its thread-local  *)
(* pointers, and those point into its own frame (TlsOK).  So the invariant *)
(* says of every thread by itself what it has done so far; each of its     *)
(* parts is a predicate on the values of one thread, which a step of       *)
(* another thread leaves alone.                                            *)
(***************************************************************************)
EXTENDS SignSession, TLAPS

----------------------------------------------------------------------------
(* The inductive invariant.  In its parts l is where the thread is and a   *)
(* the call it serves; b is its signature buffer, sl the length.           *)

Searching == {"s_open", "s_try", "s_layer"}
Keyed     == {"derandomize", "rnd_init", "stats_begin", "optrand", "grind", "fors",
              "slh_close"} \cup Searching
Verifying == {"v_hash", "v_open", "v_try", "v_layer", "v_ret"}

\* Which calls get where: past its check a call of bitcoin_pqc_sign has sound
\* arguments, and past slh_check so has any signing call, and a valid key.
CallOK(l, a) ==
    l # "idle" =>
        /\ a \in Calls
        /\ l = "pqc_check" => a.op \in {"pqc_sign", "pqc_verify"}
        /\ l \in {"slh_check", "slh_ret"} \cup (Keyed \ {"optrand"}) => a.op \in SignOps
        /\ l = "optrand" => a.op \in SignOps \cup {"crypto_sign"}
        /\ l = "ref_close" => a.op = "crypto_sign"
        /\ l \in {"kp_random", "kp_check"} => a.op = "crypto_keypair"
        /\ l \in Verifying => a.op \in {"pqc_sign", "pqc_verify"}
        /\ l \in Keyed \cup Verifying => a.bad = {}
        /\ l \in Keyed => a.key \in ValidKeys
        /\ l \in Verifying /\ a.op = "pqc_sign" => a.key \in ValidKeys
        /\ a.op = "pqc_sign" /\ l \notin {"pqc_check", "ret"} => a.bad = {}
        /\ a.op \in {"crypto_sign", "crypto_keypair"} => a.bad = {}

\* The statistics a signing call records in: the caller's or its own.
Slot(a) == IF a.stats THEN "caller" ELSE "scratch"

\* The thread-local pointers are set while slh_dsa_sign_with_stats_impl needs
\* them, and then to its own seed and its own statistics.
TlsOK(t, l, a, rnd, st) ==
    /\ rnd = IF l \in SigningFrame /\ a.op \in SignOps THEN t ELSE NULL
    /\ st = IF l \in SigningFrame \ {"stats_begin"} /\ a.op \in SignOps
            THEN Ptr(t, Slot(a)) ELSE NULL

\* The seed in the frame, and the flag over it.
SeedOK(l, a, s, failed) ==
    /\ l \in {"rnd_init", "stats_begin"} \/ (l = "optrand" /\ a.op \in SignOps) =>
          s = Seed(a.key, a.msg)
    /\ l = "optrand" /\ a.op \notin SignOps => s \in {Zero, Stale}
    /\ l \in {"rnd_init", "grind", "fors", "slh_close"} \cup Searching => ~failed
    /\ l = "kp_check" => failed
    /\ l \in {"idle", "pqc_check", "slh_check", "kp_random", "ref_close", "slh_ret", "ret"}
             \cup Verifying => s \in {Zero, Stale}

\* b starts with the c-th salt of the call, which the cap allows.
Salted(a, b, c) ==
    /\ c \in 0 .. FORSC_MAX_GRIND_ATTEMPTS - 1
    /\ b[0] = Salt(a.key, a.msg, Seed(a.key, a.msg), c)

\* b carries the first n layers of a signature on path p.
LayersDone(b, p, n, max) ==
    /\ b[0] = p.r
    /\ b[1] = p
    /\ \A i \in 0 .. n - 1 : \E c \in 0 .. max :
          /\ FirstCounter(Root(p, i), c)
          /\ b[i + 2] = LayerSig(Root(p, i), c)

\* None of the first n counters (salts) met the condition.
NoCounterBelow(rt, n) == \A j \in 0 .. n - 1 : ~WotscHit(rt, j)
NoSaltBelow(a, n) == \A j \in 0 .. n - 1 : ~ForscZero(SaltedPath(a.key, a.msg, j))

\* How far crypto_sign_signature has come.
SignOK(l, a, b, c, att, ly, rt, cn, mx) ==
    LET p == SaltedPath(a.key, a.msg, c)
    IN  /\ l = "grind" => Salted(a, b, c) /\ att = c /\ NoSaltBelow(a, c)
        /\ l = "fors" => Salted(a, b, c) /\ FirstSalt(a.key, a.msg, c)
        /\ l \in Searching =>
              /\ Salted(a, b, c)
              /\ FirstSalt(a.key, a.msg, c)
              /\ ly \in Layers
              /\ rt = Root(p, ly)
              /\ LayersDone(b, p, ly, WOTSC_MAX_COUNTER)
        /\ l = "s_try" => /\ mx = WOTSC_MAX_COUNTER
                          /\ cn \in 0 .. mx
                          /\ NoCounterBelow(rt, cn)
        /\ l = "s_layer" => cn \in 0 .. WOTSC_MAX_COUNTER /\ FirstCounter(rt, cn)

\* How far crypto_sign_verify has come: the node it has is the right one and
\* the layers below it are genuine, or it has wrong bytes and some layer is not.
VerifyOK(l, a, b, sl, ly, rt, cn, mx, r) ==
    LET p == Path(b[0], a.key, a.msg)
    IN  /\ l \in Verifying => b[0] \in Randomizers /\ sl = SPX_BYTES
        /\ l = "pqc_check" /\ a.op = "pqc_verify" => b[0] \in Randomizers /\ sl = SPX_BYTES
        /\ l \in {"v_open", "v_try", "v_layer"} =>
              /\ ly \in Layers
              /\ ForscZero(p)
              /\ \/ rt = Root(p, ly) /\ LayersDone(b, p, ly, WOTSC_COUNTER_LIMIT)
                 \/ rt = Garbage /\ ~SignsPath(b, p, WOTSC_COUNTER_LIMIT)
        /\ l = "v_try" => /\ mx = WOTSC_COUNTER_LIMIT
                          /\ cn \in 0 .. mx
                          /\ NoCounterBelow(rt, cn)
        /\ l = "v_layer" => cn \in 0 .. WOTSC_COUNTER_LIMIT /\ FirstCounter(rt, cn)
        /\ l = "v_ret" => r = IF Genuine(b, a.key, a.msg) THEN "OK" ELSE "FAIL"
        /\ l = "ret" /\ a.op = "pqc_verify" /\ a.bad = {} =>
              r = IF Genuine(b, a.key, a.msg) THEN "OK" ELSE "BAD_SIGNATURE"

\* A signing run that came to its end.
Signed(a, b, sl, r) ==
    \/ r = "OK" /\ ReferenceSignature(b, a.key, a.msg) /\ sl = SPX_BYTES
    \/ r = "LIMIT" /\ ~Signable(a.key, a.msg)

\* What the signing calls return, to one another and to the caller.
OutcomeOK(l, a, b, sl, r, pub) ==
    /\ l = "slh_close" => Signed(a, b, sl, r)
    /\ l = "slh_ret" =>
          IF a.bad = {} /\ a.key \in ValidKeys THEN Signed(a, b, sl, r)
          ELSE r = IF a.bad = {} THEN "BAD_KEY" ELSE "FAIL"
    /\ l \in Verifying /\ a.op = "pqc_sign" => ReferenceSignature(b, a.key, a.msg)
    /\ l = "ret" /\ a.op \in SignOps =>
          IF a.bad = {} /\ a.key \in ValidKeys
          THEN \/ Signed(a, b, sl, r) /\ pub = (a.op = "pqc_sign" /\ r = "OK")
               \/ r = "OUT_OF_MEMORY" /\ a.op = "pqc_sign"
          ELSE r \in {"BAD_ARG", "BAD_KEY", "FAIL", "OUT_OF_MEMORY"}
    /\ l = "ref_close" => r = "FAIL"
    /\ l = "ret" /\ a.op \in {"crypto_sign", "crypto_keypair"} => r = "FAIL"

\* What a failed call leaves.
Wiped(a, b, sl) ==
    /\ b = Filled(Zero) \/ ("null_sig" \in a.bad /\ b = Filled(Stale))
    /\ "null_siglen" \in a.bad \/ sl = 0
WipeOK(l, a, b, sl, r, pub) ==
    /\ l # "ret" => pub = FALSE
    /\ l = "idle" => b = Filled(Stale)
    /\ l \in {"pqc_check", "slh_check", "derandomize", "rnd_init", "stats_begin",
              "optrand", "kp_random", "kp_check"} /\ a.op # "pqc_verify" => b = Filled(Stale)
    /\ l = "slh_ret" /\ r # "OK" => Wiped(a, b, sl)
    /\ l = "ret" /\ r # "OK" /\ a.op # "pqc_verify" =>
          /\ pub = FALSE
          /\ b \in {Filled(Zero), Filled(Stale)}
          /\ a.op \in {"slh_sign", "crypto_sign"} => Wiped(a, b, sl)

\* What the caller's statistics s hold when n layers have their counter.
StatsSoFar(s, b, c, n) ==
    /\ s.forsc_max_attempts = FORSC_MAX_GRIND_ATTEMPTS
    /\ s.wotsc_max_attempts = WOTSC_MAX_COUNTER + 1
    /\ s.cap_exceeded = {}
    /\ s.forsc_attempts = c + 1
    /\ s.wotsc_layer_count = n
    /\ s.wotsc_max_observed_attempts \in 0 .. WOTSC_MAX_COUNTER + 1
    /\ \A i \in 0 .. n - 1 :
          /\ s.wotsc_attempts[i] = b[i + 2].counter + 1
          /\ s.wotsc_attempts[i] <= s.wotsc_max_observed_attempts
    /\ n = 0 => s.wotsc_max_observed_attempts = 0
    /\ n # 0 => \E i \in 0 .. n - 1 : s.wotsc_attempts[i] = s.wotsc_max_observed_attempts

\* The caller's statistics at the end of a run that was asked for them.
StatsTell(s, b, r) ==
    /\ s.forsc_max_attempts = FORSC_MAX_GRIND_ATTEMPTS
    /\ s.wotsc_max_attempts = WOTSC_MAX_COUNTER + 1
    /\ IF r = "OK" THEN StatsOfSuccess(s, b) ELSE StatsOfLimit(s)

\* The part of the caller's statistics.
StatsOK(l, a, s, b, c, ly, rt, cn, r) ==
    /\ l = "idle" => s = StaleStats
    /\ l # "idle" /\ ~a.stats => s = StaleStats
    /\ l \in {"pqc_check", "slh_check", "derandomize", "rnd_init", "stats_begin"} =>
          s = StaleStats
    /\ l \in {"optrand", "grind"} /\ a.stats => s = FreshStats
    /\ l = "fors" /\ a.stats => s = WithForscAttempts(FreshStats, c + 1)
    /\ l \in {"s_open", "s_try"} /\ a.stats => StatsSoFar(s, b, c, ly)
    /\ l = "s_layer" /\ a.stats =>
          StatsSoFar(s, [b EXCEPT ![ly + 2] = LayerSig(rt, cn)], c, ly + 1)
    /\ l = "slh_close" /\ a.stats => StatsTell(s, b, r)
    /\ l \in {"slh_ret", "ret"} /\ a.op \in SignOps /\ a.stats =>
          IF r \in {"OK", "LIMIT"} THEN StatsTell(s, b, r) ELSE s = StaleStats
    /\ l \in Verifying /\ a.op = "pqc_sign" /\ a.stats => StatsTell(s, b, "OK")

\* All of it, for thread t.
Mine(t) ==
    /\ CallOK(pc[t], args[t])
    /\ TlsOK(t, pc[t], args[t], g_random_data[t], g_sign_stats[t])
    /\ SeedOK(pc[t], args[t], seed[t], g_random_source_failed[t])
    /\ SignOK(pc[t], args[t], sig[t], ctr[t], attempts[t], layer[t], root[t],
              counter[t], max_counter[t])
    /\ VerifyOK(pc[t], args[t], sig[t], siglen[t], layer[t], root[t], counter[t],
                max_counter[t], result[t])
    /\ OutcomeOK(pc[t], args[t], sig[t], siglen[t], result[t], published[t])
    /\ WipeOK(pc[t], args[t], sig[t], siglen[t], result[t], published[t])
    /\ StatsOK(pc[t], args[t], stats[t]["caller"], sig[t], ctr[t], layer[t], root[t],
               counter[t], result[t])

IInv == TypeOK /\ \A t \in Threads : Mine(t)

----------------------------------------------------------------------------
(* The frame of a step.                                                    *)

\* A step of t leaves the values of the other threads alone.
Others(t) ==
    \A u \in Threads \ {t} :
        /\ pc'[u] = pc[u] /\ args'[u] = args[u]
        /\ g_random_data'[u] = g_random_data[u]
        /\ g_random_source_failed'[u] = g_random_source_failed[u]
        /\ g_sign_stats'[u] = g_sign_stats[u]
        /\ seed'[u] = seed[u] /\ stats'[u] = stats[u]
        /\ sig'[u] = sig[u] /\ siglen'[u] = siglen[u]
        /\ ctr'[u] = ctr[u] /\ attempts'[u] = attempts[u]
        /\ layer'[u] = layer[u] /\ root'[u] = root[u]
        /\ counter'[u] = counter[u] /\ max_counter'[u] = max_counter[u]
        /\ result'[u] = result[u] /\ published'[u] = published[u]

LEMMA Frame ==
    ASSUME NEW t \in Threads, IInv, TypeOK', Others(t), Mine(t)'
    PROVE  IInv'
<1>1. ASSUME NEW u \in Threads, u # t PROVE Mine(u)'
  <2>1. Mine(u)  BY DEF IInv
  <2> QED  BY <1>1, <2>1 DEF Mine, Others
<1> QED  BY <1>1 DEF IInv

----------------------------------------------------------------------------
(* Facts about the operators of the model.                                 *)

LEMMA FirstCounterUnique ==
    ASSUME NEW rt, NEW c \in Nat, NEW d \in Nat, FirstCounter(rt, c), FirstCounter(rt, d)
    PROVE  c = d
BY DEF FirstCounter

LEMMA FirstSaltUnique ==
    ASSUME NEW k, NEW m, NEW c \in Nat, NEW d \in Nat, FirstSalt(k, m, c), FirstSalt(k, m, d)
    PROVE  c = d
BY DEF FirstSalt

\* The search found the first counter, or there is none up to the limit.
LEMMA SearchFinds ==
    ASSUME NEW rt, NEW n \in Nat, NoCounterBelow(rt, n), WotscHit(rt, n)
    PROVE  FirstCounter(rt, n)
BY DEF NoCounterBelow, FirstCounter

LEMMA SearchExhausted ==
    ASSUME NEW rt, NEW n \in Nat, NoCounterBelow(rt, n), ~WotscHit(rt, n)
    PROVE  \A c \in 0 .. n : ~FirstCounter(rt, c)
<1> SUFFICES ASSUME NEW c \in 0 .. n PROVE ~WotscHit(rt, c)  BY DEF FirstCounter
<1>1. CASE c = n  BY <1>1
<1>2. CASE c \in 0 .. n - 1  BY <1>2 DEF NoCounterBelow
<1> QED  BY <1>1, <1>2

LEMMA SearchGoesOn ==
    ASSUME NEW rt, NEW n \in Nat, NoCounterBelow(rt, n), ~WotscHit(rt, n)
    PROVE  NoCounterBelow(rt, n + 1)
<1> SUFFICES ASSUME NEW c \in 0 .. n PROVE ~WotscHit(rt, c)  BY DEF NoCounterBelow
<1>1. CASE c = n  BY <1>1
<1>2. CASE c \in 0 .. n - 1  BY <1>2 DEF NoCounterBelow
<1> QED  BY <1>1, <1>2

\* All layers done is a signature on the path.
LEMMA AllLayersDone ==
    ASSUME NEW b, NEW p, NEW max
    PROVE  LayersDone(b, p, SPX_D, max) <=> SignsPath(b, p, max)
BY CapAssumption DEF LayersDone, SignsPath, Layers

\* One layer more.
LEMMA NextLayerDone ==
    ASSUME NEW b \in Buffers, NEW p, NEW n \in Layers, NEW max \in Nat,
           LayersDone(b, p, n, max), NEW c \in 0 .. max,
           FirstCounter(Root(p, n), c),
           NEW d \in Buffers, d[n + 2] = LayerSig(Root(p, n), c),
           \A j \in Regions : j # n + 2 => d[j] = b[j]
    PROVE  LayersDone(d, p, n + 1, max)
<1>1. n \in Nat /\ n + 2 \in Regions /\ 0 \in Regions /\ 1 \in Regions
  BY CapAssumption DEF Layers, Regions
<1>2. d[0] = p.r /\ d[1] = p  BY <1>1 DEF LayersDone
<1>3. ASSUME NEW i \in 0 .. n
      PROVE  \E e \in 0 .. max : FirstCounter(Root(p, i), e) /\ d[i + 2] = LayerSig(Root(p, i), e)
  <2>1. CASE i = n  BY <2>1
  <2>2. CASE i # n
    <3>1. i \in 0 .. n - 1 /\ i + 2 \in Regions /\ i + 2 # n + 2
      BY <2>2, CapAssumption DEF Layers, Regions
    <3> QED  BY <3>1 DEF LayersDone
  <2> QED  BY <2>1, <2>2
<1> QED  BY <1>1, <1>2, <1>3 DEF LayersDone

\* A layer that is not the first counter's spoils the signature.
LEMMA WrongLayer ==
    ASSUME NEW b, NEW p, NEW n \in Layers, NEW max \in Nat,
           NEW c \in Nat, FirstCounter(Root(p, n), c),
           b[n + 2] # LayerSig(Root(p, n), c)
    PROVE  ~SignsPath(b, p, max)
BY FirstCounterUnique DEF SignsPath

LEMMA NoLayer ==
    ASSUME NEW b, NEW p, NEW n \in Layers, NEW max,
           \A c \in 0 .. max : ~FirstCounter(Root(p, n), c)
    PROVE  ~SignsPath(b, p, max)
BY DEF SignsPath

\* What the caps allow a signer is genuine to the verifier.
LEMMA ReferenceIsGenuine ==
    ASSUME NEW b, NEW k \in ValidKeys, NEW m, ReferenceSignature(b, k, m)
    PROVE  Genuine(b, k, m)
<1>1. PICK n \in 0 .. FORSC_MAX_GRIND_ATTEMPTS - 1 :
        FirstSalt(k, m, n) /\ SignsPath(b, SaltedPath(k, m, n), WOTSC_MAX_COUNTER)
  BY DEF ReferenceSignature
<1> DEFINE p == SaltedPath(k, m, n)
<1>2. b[0] = p.r /\ b[1] = p  BY <1>1 DEF SignsPath
<1>3. p = Path(b[0], k, m)  BY <1>2 DEF SaltedPath, Path
<1>4. ForscZero(p)  BY <1>1 DEF FirstSalt
<1>5. SignsPath(b, p, WOTSC_COUNTER_LIMIT)
  <2>1. ASSUME NEW i \in Layers
        PROVE  \E c \in 0 .. WOTSC_COUNTER_LIMIT :
                  FirstCounter(Root(p, i), c) /\ b[i + 2] = LayerSig(Root(p, i), c)
    <3>1. PICK c \in 0 .. WOTSC_MAX_COUNTER :
                  FirstCounter(Root(p, i), c) /\ b[i + 2] = LayerSig(Root(p, i), c)
      BY <1>1 DEF SignsPath
    <3>2. c \in 0 .. WOTSC_COUNTER_LIMIT  BY CapAssumption
    <3> QED  BY <3>1, <3>2
  <2> QED  BY <1>2, <2>1 DEF SignsPath
<1> QED  BY <1>3, <1>4, <1>5 DEF Genuine

\* No salt in reach, or the first one leads to a layer without a counter.
LEMMA NoSaltNoSignature ==
    ASSUME NEW a, NoSaltBelow(a, FORSC_MAX_GRIND_ATTEMPTS)
    PROVE  ~Signable(a.key, a.msg)
BY DEF NoSaltBelow, Signable, FirstSalt

LEMMA NoCounterNoSignature ==
    ASSUME NEW k, NEW m, NEW n \in Nat, FirstSalt(k, m, n), NEW i \in Layers,
           \A c \in 0 .. WOTSC_MAX_COUNTER : ~FirstCounter(Root(SaltedPath(k, m, n), i), c)
    PROVE  ~Signable(k, m)
<1> SUFFICES ASSUME NEW j \in 0 .. FORSC_MAX_GRIND_ATTEMPTS - 1, FirstSalt(k, m, j),
                    \A x \in Layers : \E c \in 0 .. WOTSC_MAX_COUNTER :
                        FirstCounter(Root(SaltedPath(k, m, j), x), c)
             PROVE  FALSE
  BY DEF Signable
<1>1. j = n  BY FirstSaltUnique, CapAssumption
<1> QED  BY <1>1

----------------------------------------------------------------------------
(* Types of the values the steps compute.                                  *)

LEMMA BufferTypes ==
    /\ 0 \in Regions /\ 1 \in Regions
    /\ \A i \in Layers : i \in Nat /\ i + 1 \in 0 .. SPX_D /\ i + 2 \in Regions
    /\ Filled(Zero) \in Buffers /\ Filled(Stale) \in Buffers
<1>1. /\ 0 \in Regions /\ 1 \in Regions
      /\ \A i \in Layers : i \in Nat /\ i + 1 \in 0 .. SPX_D /\ i + 2 \in Regions
  BY CapAssumption DEF Regions, Layers
<1>2. Filled(Zero) \in Buffers /\ Filled(Stale) \in Buffers
  BY DEF Filled, Buffers, Contents
<1> QED  BY <1>1, <1>2

LEMMA TermTypes ==
    ASSUME NEW k \in Keys, NEW m \in Messages
    PROVE  /\ Seed(k, m) \in Seeds
           /\ \A s \in Seeds, c \in Nat : Salt(k, m, s, c) \in Salts
           /\ \A r \in Randomizers : Path(r, k, m) \in Paths
           /\ \A c \in Nat : SaltedPath(k, m, c) \in Paths
<1>1. Seed(k, m) \in Seeds  BY DEF Seed, Seeds
<1>2. \A s \in Seeds, c \in Nat : Salt(k, m, s, c) \in Salts  BY DEF Salt, Salts
<1>3. \A r \in Randomizers : Path(r, k, m) \in Paths  BY DEF Path, Paths
<1>4. \A c \in Nat : SaltedPath(k, m, c) \in Paths
  BY <1>1, <1>2, <1>3 DEF SaltedPath, Randomizers
<1> QED  BY <1>1, <1>2, <1>3, <1>4

LEMMA NodeTypes ==
    ASSUME NEW p \in Paths, NEW i \in 0 .. SPX_D
    PROVE  /\ Root(p, i) \in Roots
           /\ Root(p, i) # Garbage
BY TermAssumption DEF Root, Roots

LEMMA ContentTypes ==
    /\ \A r \in Randomizers : r \in Contents
    /\ \A p \in Paths : p \in Contents
    /\ \A rt \in Roots, c \in 0 .. WOTSC_COUNTER_LIMIT : LayerSig(rt, c) \in Contents
BY DEF Contents, Randomizers, LayerSig, LayerSigs

\* What bitcoin_pqc_sign_stats_record_wotsc_attempts writes, field by field.
LEMMA WotscRecord ==
    ASSUME NEW s \in StatsRecords, NEW n \in Nat
    PROVE  LET w == WithWotscAttempts(s, n)
           IN  /\ w \in StatsRecords
               /\ w.wotsc_attempts = IF s.wotsc_layer_count \in Layers
                                     THEN [s.wotsc_attempts EXCEPT ![s.wotsc_layer_count] = n]
                                     ELSE s.wotsc_attempts
               /\ w.wotsc_layer_count = s.wotsc_layer_count + 1
               /\ w.wotsc_max_observed_attempts =
                     IF n > s.wotsc_max_observed_attempts THEN n
                     ELSE s.wotsc_max_observed_attempts
               /\ w.forsc_attempts = s.forsc_attempts
               /\ w.forsc_max_attempts = s.forsc_max_attempts
               /\ w.wotsc_max_attempts = s.wotsc_max_attempts
               /\ w.cap_exceeded = s.cap_exceeded
<1> DEFINE f == IF s.wotsc_layer_count \in Layers
                THEN [s.wotsc_attempts EXCEPT ![s.wotsc_layer_count] = n] ELSE s.wotsc_attempts
           x == IF n > s.wotsc_max_observed_attempts THEN n ELSE s.wotsc_max_observed_attempts
           s1 == [s EXCEPT !.wotsc_attempts = f]
           s2 == [s1 EXCEPT !.wotsc_layer_count = s.wotsc_layer_count + 1]
           s3 == [s2 EXCEPT !.wotsc_max_observed_attempts = x]
<1>1. WithWotscAttempts(s, n) = s3  BY Zenon DEF WithWotscAttempts
<1>2. s.wotsc_attempts \in [Layers -> Nat] /\ s.wotsc_max_observed_attempts \in Nat
      /\ s.wotsc_layer_count \in Nat
  BY DEF StatsRecords
<1>3. f \in [Layers -> Nat] /\ x \in Nat  BY <1>2
<1> HIDE DEF f, x
<1>4. /\ s1 \in StatsRecords
      /\ s1.wotsc_attempts = f /\ s1.wotsc_layer_count = s.wotsc_layer_count
      /\ s1.forsc_attempts = s.forsc_attempts /\ s1.forsc_max_attempts = s.forsc_max_attempts
      /\ s1.wotsc_max_attempts = s.wotsc_max_attempts /\ s1.cap_exceeded = s.cap_exceeded
  BY <1>3 DEF StatsRecords
<1> HIDE DEF s1
<1>5. /\ s2 \in StatsRecords
      /\ s2.wotsc_attempts = f /\ s2.wotsc_layer_count = s.wotsc_layer_count + 1
      /\ s2.forsc_attempts = s.forsc_attempts /\ s2.forsc_max_attempts = s.forsc_max_attempts
      /\ s2.wotsc_max_attempts = s.wotsc_max_attempts /\ s2.cap_exceeded = s.cap_exceeded
  BY <1>2, <1>4 DEF StatsRecords
<1> HIDE DEF s2
<1>6. /\ s3 \in StatsRecords
      /\ s3.wotsc_attempts = f /\ s3.wotsc_layer_count = s.wotsc_layer_count + 1
      /\ s3.wotsc_max_observed_attempts = x
      /\ s3.forsc_attempts = s.forsc_attempts /\ s3.forsc_max_attempts = s.forsc_max_attempts
      /\ s3.wotsc_max_attempts = s.wotsc_max_attempts /\ s3.cap_exceeded = s.cap_exceeded
  BY <1>3, <1>5 DEF StatsRecords
<1> HIDE DEF s3
<1> QED  BY <1>1, <1>6 DEF f, x

\* What recording the FORS+C attempts and a cap writes.
LEMMA ForscRecord ==
    ASSUME NEW s \in StatsRecords, NEW n \in Nat
    PROVE  LET w == WithForscAttempts(s, n)
           IN  /\ w \in StatsRecords
               /\ w.forsc_attempts = n
               /\ w.forsc_max_attempts = s.forsc_max_attempts
               /\ w.wotsc_attempts = s.wotsc_attempts
               /\ w.wotsc_layer_count = s.wotsc_layer_count
               /\ w.wotsc_max_attempts = s.wotsc_max_attempts
               /\ w.wotsc_max_observed_attempts = s.wotsc_max_observed_attempts
               /\ w.cap_exceeded = s.cap_exceeded
BY DEF WithForscAttempts, StatsRecords

LEMMA CapRecord ==
    ASSUME NEW s \in StatsRecords, NEW x \in LimitBits
    PROVE  LET w == WithCap(s, x)
           IN  /\ w \in StatsRecords
               /\ w.cap_exceeded = s.cap_exceeded \cup {x}
               /\ w.forsc_attempts = s.forsc_attempts
               /\ w.forsc_max_attempts = s.forsc_max_attempts
               /\ w.wotsc_attempts = s.wotsc_attempts
               /\ w.wotsc_layer_count = s.wotsc_layer_count
               /\ w.wotsc_max_attempts = s.wotsc_max_attempts
               /\ w.wotsc_max_observed_attempts = s.wotsc_max_observed_attempts
BY DEF WithCap, StatsRecords

LEMMA StatsTypes ==
    /\ FreshStats \in StatsRecords
    /\ StaleStats \in StatsRecords
    /\ \A s \in StatsRecords, n \in Nat : WithForscAttempts(s, n) \in StatsRecords
    /\ \A s \in StatsRecords, x \in LimitBits : WithCap(s, x) \in StatsRecords
    /\ \A s \in StatsRecords, n \in Nat : WithWotscAttempts(s, n) \in StatsRecords
<1>1. FreshStats \in StatsRecords  BY CapAssumption DEF FreshStats, StatsRecords
<1>2. StaleStats \in StatsRecords  BY CapAssumption DEF StaleStats, StatsRecords
<1>3. \A s \in StatsRecords, n \in Nat : WithForscAttempts(s, n) \in StatsRecords
  BY ForscRecord
<1>4. \A s \in StatsRecords, x \in LimitBits : WithCap(s, x) \in StatsRecords
  BY CapRecord
<1>5. \A s \in StatsRecords, n \in Nat : WithWotscAttempts(s, n) \in StatsRecords
  BY WotscRecord
<1> QED  BY <1>1, <1>2, <1>3, <1>4, <1>5

\* The record_* functions write through the pointer of the thread, which is to
\* its own statistics; a call that was not asked for them uses its scratch ones.
LEMMA RecordWrites ==
    ASSUME TypeOK, NEW t \in Threads, args[t] \in Calls,
           g_sign_stats[t] = Ptr(t, Slot(args[t])), NEW w \in StatsRecords,
           LET p == g_sign_stats[t]
           IN  stats' = IF p = NULL THEN stats ELSE [stats EXCEPT ![p.owner][p.slot] = w]
    PROVE  /\ stats' \in [Threads -> [Slots -> StatsRecords]]
           /\ \A u \in Threads \ {t} : stats'[u] = stats[u]
           /\ stats'[t]["caller"] = IF args[t].stats THEN w ELSE stats[t]["caller"]
<1> DEFINE slot == Slot(args[t])
<1>1. slot \in Slots /\ (slot = "caller" <=> args[t].stats)  BY DEF Slot, Slots, Calls
<1>2. g_sign_stats[t] # NULL  BY <1>1, NullAssumption DEF Ptr, StatsPtrs
<1>3. g_sign_stats[t].owner = t /\ g_sign_stats[t].slot = slot  BY DEF Ptr
<1> HIDE DEF slot
<1>4. stats' = [stats EXCEPT ![t][slot] = w]  BY <1>2, <1>3
<1>5. stats \in [Threads -> [Slots -> StatsRecords]]  BY DEF TypeOK
<1>6. [stats[t] EXCEPT ![slot] = w] \in [Slots -> StatsRecords]  BY <1>1, <1>5
<1>7. stats' = [stats EXCEPT ![t] = [stats[t] EXCEPT ![slot] = w]]  BY <1>4
<1>8. stats'[t] = [stats[t] EXCEPT ![slot] = w]  BY <1>5, <1>7
<1>9. stats'[t]["caller"] = IF args[t].stats THEN w ELSE stats[t]["caller"]
  BY <1>1, <1>5, <1>8 DEF Slots
<1> QED  BY <1>5, <1>6, <1>7, <1>9

\* The grinding loop at its cap.
LEMMA ForscLimitStats ==
    ASSUME NEW b
    PROVE  StatsTell(WithCap(WithForscAttempts(FreshStats, FORSC_MAX_GRIND_ATTEMPTS), "FORSC"),
                     b, "LIMIT")
<1> DEFINE n == FORSC_MAX_GRIND_ATTEMPTS
           s == WithForscAttempts(FreshStats, n)
           w == WithCap(s, "FORSC")
<1>1. FreshStats \in StatsRecords /\ n \in Nat /\ "FORSC" \in LimitBits
  BY StatsTypes, CapAssumption DEF LimitBits
<1>2. /\ s \in StatsRecords /\ s.forsc_attempts = n /\ s.forsc_max_attempts = n
      /\ s.wotsc_layer_count = 0 /\ s.wotsc_max_attempts = WOTSC_MAX_COUNTER + 1
      /\ s.cap_exceeded = {}
  BY <1>1, ForscRecord DEF FreshStats
<1> HIDE DEF s
<1>3. /\ w.forsc_attempts = n /\ w.forsc_max_attempts = n
      /\ w.wotsc_layer_count = 0 /\ w.wotsc_max_attempts = WOTSC_MAX_COUNTER + 1
      /\ w.cap_exceeded = {"FORSC"}
  BY <1>1, <1>2, CapRecord
<1> HIDE DEF w
<1>4. StatsTell(w, b, "LIMIT")  BY <1>3 DEF StatsTell, StatsOfLimit
<1> QED  BY <1>4 DEF w, s

\* One layer more.
LEMMA LayerStats ==
    ASSUME NEW s \in StatsRecords, NEW b \in Buffers, NEW c, NEW n \in Layers,
           NEW rt, NEW cn \in 0 .. WOTSC_MAX_COUNTER, StatsSoFar(s, b, c, n)
    PROVE  StatsSoFar(WithWotscAttempts(s, cn + 1),
                      [b EXCEPT ![n + 2] = LayerSig(rt, cn)], c, n + 1)
<1> DEFINE w == WithWotscAttempts(s, cn + 1)
           d == [b EXCEPT ![n + 2] = LayerSig(rt, cn)]
           mo == s.wotsc_max_observed_attempts
<1>1. n \in Nat /\ cn + 1 \in 1 .. WOTSC_MAX_COUNTER + 1 /\ WOTSC_MAX_COUNTER \in Nat
      /\ n + 2 \in Regions
  BY CapAssumption, BufferTypes
<1>2. s.wotsc_layer_count = n /\ s.wotsc_attempts \in [Layers -> Nat]
      /\ mo \in 0 .. WOTSC_MAX_COUNTER + 1
  BY DEF StatsSoFar, StatsRecords
<1>3. /\ w.wotsc_attempts = [s.wotsc_attempts EXCEPT ![n] = cn + 1]
      /\ w.wotsc_layer_count = n + 1
      /\ w.wotsc_max_observed_attempts = IF cn + 1 > mo THEN cn + 1 ELSE mo
      /\ w.forsc_attempts = s.forsc_attempts /\ w.forsc_max_attempts = s.forsc_max_attempts
      /\ w.wotsc_max_attempts = s.wotsc_max_attempts /\ w.cap_exceeded = s.cap_exceeded
  BY <1>1, <1>2, WotscRecord
<1>4. d[n + 2].counter = cn /\ \A i \in 0 .. n - 1 : d[i + 2] = b[i + 2]
  <2>1. d[n + 2] = LayerSig(rt, cn)  BY <1>1 DEF Buffers
  <2>2. ASSUME NEW i \in 0 .. n - 1 PROVE d[i + 2] = b[i + 2]
    <3>1. i + 2 # n + 2 /\ i + 2 \in Regions  BY <1>1, CapAssumption DEF Regions, Layers
    <3> QED  BY <3>1 DEF Buffers
  <2> QED  BY <2>1, <2>2 DEF LayerSig
<1>5. /\ w.wotsc_attempts[n] = cn + 1
      /\ \A i \in 0 .. n - 1 : w.wotsc_attempts[i] = s.wotsc_attempts[i]
      /\ \A i \in 0 .. n : i \in Layers
  <2>1. SPX_D \in Nat /\ n \in 0 .. SPX_D - 1  BY CapAssumption DEF Layers
  <2>2. \A i \in 0 .. n : i \in Layers  BY <2>1 DEF Layers
  <2> DEFINE at == s.wotsc_attempts
  <2> HIDE DEF at, w
  <2>3. at \in [Layers -> Nat] /\ w.wotsc_attempts = [at EXCEPT ![n] = cn + 1]
    BY <1>2, <1>3 DEF at
  <2>4. w.wotsc_attempts[n] = cn + 1 /\ \A i \in Layers \ {n} : w.wotsc_attempts[i] = at[i]
    BY <2>3
  <2>5. \A i \in 0 .. n - 1 : i \in Layers \ {n}  BY <2>1, <2>2
  <2> QED  BY <2>2, <2>4, <2>5 DEF at
<1> HIDE DEF w, d
<1>6. w.wotsc_max_observed_attempts \in 0 .. WOTSC_MAX_COUNTER + 1  BY <1>1, <1>2, <1>3
<1>7. ASSUME NEW i \in 0 .. n
      PROVE  w.wotsc_attempts[i] = d[i + 2].counter + 1
             /\ w.wotsc_attempts[i] <= w.wotsc_max_observed_attempts
  <2>1. CASE i = n  BY <1>1, <1>2, <1>3, <1>4, <1>5, <2>1
  <2>2. CASE i # n
    <3>1. i \in 0 .. n - 1  BY <1>1, <2>2
    <3>2. s.wotsc_attempts[i] = b[i + 2].counter + 1 /\ s.wotsc_attempts[i] <= mo
          /\ s.wotsc_attempts[i] \in Nat
      BY <1>2, <1>5, <3>1 DEF StatsSoFar
    <3> QED  BY <1>1, <1>2, <1>3, <1>4, <1>5, <3>1, <3>2
  <2> QED  BY <2>1, <2>2
<1>8. \E i \in 0 .. n : w.wotsc_attempts[i] = w.wotsc_max_observed_attempts
  <2>1. CASE cn + 1 > mo  BY <1>1, <1>3, <1>5, <2>1
  <2>2. CASE ~(cn + 1 > mo)
    <3>1. n # 0  BY <1>1, <2>2 DEF StatsSoFar
    <3>2. PICK i \in 0 .. n - 1 : s.wotsc_attempts[i] = mo  BY <3>1 DEF StatsSoFar
    <3> QED  BY <1>1, <1>3, <1>5, <2>2, <3>2
  <2> QED  BY <2>1, <2>2
<1>9. StatsSoFar(w, d, c, n + 1)
  <2>1. 0 .. (n + 1) - 1 = 0 .. n /\ n + 1 # 0  BY <1>1
  <2>2. /\ s.forsc_max_attempts = FORSC_MAX_GRIND_ATTEMPTS
        /\ s.wotsc_max_attempts = WOTSC_MAX_COUNTER + 1
        /\ s.cap_exceeded = {} /\ s.forsc_attempts = c + 1
    BY DEF StatsSoFar
  <2>3. \A i \in 0 .. (n + 1) - 1 : /\ w.wotsc_attempts[i] = d[i + 2].counter + 1
                                    /\ w.wotsc_attempts[i] <= w.wotsc_max_observed_attempts
    BY <1>7, <2>1
  <2>4. \E i \in 0 .. (n + 1) - 1 : w.wotsc_attempts[i] = w.wotsc_max_observed_attempts
    BY <1>8, <2>1
  <2> QED  BY <1>3, <1>6, <2>1, <2>2, <2>3, <2>4 DEF StatsSoFar
<1> QED  BY <1>9 DEF w, d

\* A layer that ran into the cap.
LEMMA WotscLimitStats ==
    ASSUME NEW s \in StatsRecords, NEW b \in Buffers, NEW c, NEW n \in Layers,
           StatsSoFar(s, b, c, n), NEW d
    PROVE  StatsTell(WithCap(WithWotscAttempts(s, WOTSC_MAX_COUNTER + 1), "WOTSC"), d, "LIMIT")
<1> DEFINE x == WithWotscAttempts(s, WOTSC_MAX_COUNTER + 1)
           w == WithCap(x, "WOTSC")
<1>1. n \in Nat /\ n + 1 \in 1 .. SPX_D /\ WOTSC_MAX_COUNTER + 1 \in Nat
      /\ "WOTSC" \in LimitBits
  BY CapAssumption DEF LimitBits, Layers
<1>2. /\ s.wotsc_layer_count = n /\ s.wotsc_attempts \in [Layers -> Nat]
      /\ s.wotsc_max_observed_attempts \in 0 .. WOTSC_MAX_COUNTER + 1
      /\ s.forsc_max_attempts = FORSC_MAX_GRIND_ATTEMPTS
      /\ s.wotsc_max_attempts = WOTSC_MAX_COUNTER + 1 /\ s.cap_exceeded = {}
  BY DEF StatsSoFar, StatsRecords
<1>3. /\ x \in StatsRecords
      /\ x.wotsc_attempts[n] = WOTSC_MAX_COUNTER + 1
      /\ x.wotsc_layer_count = n + 1
      /\ x.wotsc_max_observed_attempts = WOTSC_MAX_COUNTER + 1
      /\ x.forsc_max_attempts = FORSC_MAX_GRIND_ATTEMPTS
      /\ x.wotsc_max_attempts = WOTSC_MAX_COUNTER + 1 /\ x.cap_exceeded = {}
  <2>1. x.wotsc_attempts = [s.wotsc_attempts EXCEPT ![n] = WOTSC_MAX_COUNTER + 1]
    BY <1>1, <1>2, WotscRecord
  <2>2. x.wotsc_attempts[n] = WOTSC_MAX_COUNTER + 1  BY <1>2, <2>1
  <2>3. x.wotsc_max_observed_attempts =
          IF WOTSC_MAX_COUNTER + 1 > s.wotsc_max_observed_attempts THEN WOTSC_MAX_COUNTER + 1
          ELSE s.wotsc_max_observed_attempts
    BY <1>1, WotscRecord
  <2>4. x.wotsc_max_observed_attempts = WOTSC_MAX_COUNTER + 1  BY <1>1, <1>2, <2>3
  <2>5. /\ x \in StatsRecords /\ x.wotsc_layer_count = s.wotsc_layer_count + 1
        /\ x.forsc_max_attempts = s.forsc_max_attempts
        /\ x.wotsc_max_attempts = s.wotsc_max_attempts /\ x.cap_exceeded = s.cap_exceeded
    BY <1>1, WotscRecord
  <2> QED  BY <1>2, <2>2, <2>4, <2>5
<1> HIDE DEF x
<1>4. /\ w.wotsc_attempts[n] = WOTSC_MAX_COUNTER + 1
      /\ w.wotsc_layer_count = n + 1
      /\ w.wotsc_max_observed_attempts = WOTSC_MAX_COUNTER + 1
      /\ w.forsc_max_attempts = FORSC_MAX_GRIND_ATTEMPTS
      /\ w.wotsc_max_attempts = WOTSC_MAX_COUNTER + 1 /\ w.cap_exceeded = {"WOTSC"}
  BY <1>1, <1>3, CapRecord
<1> HIDE DEF w
<1>5. n + 1 - 1 = n  BY <1>1
<1>6. StatsTell(w, d, "LIMIT")  BY <1>1, <1>4, <1>5 DEF StatsTell, StatsOfLimit
<1> QED  BY <1>6 DEF w, x

\* All layers have their counter.
LEMMA SuccessStats ==
    ASSUME NEW s, NEW b, NEW c, StatsSoFar(s, b, c, SPX_D), b[0].ctr = c
    PROVE  StatsTell(s, b, "OK")
BY CapAssumption DEF StatsSoFar, StatsTell, StatsOfSuccess, Layers

----------------------------------------------------------------------------
(* The parts of the invariant say nothing of a thread that is elsewhere.   *)

LEMMA NotSigning ==
    ASSUME NEW l, l \notin {"grind", "fors"} \cup Searching
    PROVE  \A a, b, c, att, ly, rt, cn, mx : SignOK(l, a, b, c, att, ly, rt, cn, mx)
BY DEF SignOK, Searching

LEMMA NotVerifying ==
    ASSUME NEW l, l \notin {"pqc_check", "ret"} \cup Verifying
    PROVE  \A a, b, sl, ly, rt, cn, mx, r : VerifyOK(l, a, b, sl, ly, rt, cn, mx, r)
BY DEF VerifyOK, Verifying

LEMMA NoOutcome ==
    ASSUME NEW l, l \notin {"slh_close", "slh_ret", "ref_close", "ret"} \cup Verifying
    PROVE  \A a, b, sl, r, pub : OutcomeOK(l, a, b, sl, r, pub)
BY DEF OutcomeOK, Verifying

----------------------------------------------------------------------------
(* The initial states, and one lemma per action.                           *)

LEMMA InitInv == Init => IInv
<1> SUFFICES ASSUME Init PROVE IInv  OBVIOUS
<1>1. TypeOK
  <2>1. Garbage \in Roots /\ 0 \in 0 .. SPX_D /\ 0 \in 0 .. WOTSC_COUNTER_LIMIT
        /\ 0 \in 0 .. FORSC_MAX_GRIND_ATTEMPTS /\ 0 \in 0 .. CTR_MODULUS - 1
    BY CapAssumption DEF Roots
  <2> QED  BY <2>1, BufferTypes, StatsTypes DEF Init, TypeOK, PCs, Results
<1>2. ASSUME NEW t \in Threads PROVE Mine(t)
  <2>1. pc[t] = "idle" /\ sig[t] = Filled(Stale) /\ stats[t]["caller"] = StaleStats
        /\ published[t] = FALSE /\ seed[t] = Stale
        /\ g_random_data[t] = NULL /\ g_sign_stats[t] = NULL
    BY DEF Init, Slots
  <2>2. \A a, c, ly, rt, cn, r : StatsOK("idle", a, StaleStats, sig[t], c, ly, rt, cn, r)
    BY DEF StatsOK, Verifying
  <2>3. \A a, sl, r : WipeOK("idle", a, Filled(Stale), sl, r, FALSE)  BY DEF WipeOK
  <2>4. \A a : CallOK("idle", a)  BY DEF CallOK
  <2>5. \A a : TlsOK(t, "idle", a, NULL, NULL)  BY DEF TlsOK, SigningFrame
  <2>6. \A a, f : SeedOK("idle", a, Stale, f)  BY DEF SeedOK, Searching, Verifying
  <2> QED  BY <2>1, <2>2, <2>3, <2>4, <2>5, <2>6, NotSigning, NotVerifying, NoOutcome
           DEF Mine, Searching, Verifying
<1> QED  BY <1>1, <1>2 DEF IInv

LEMMA CallSignInv == ASSUME NEW t \in Threads, IInv, CallSign(t) PROVE IInv'
<1>0. TypeOK /\ Mine(t) /\ pc[t] = "idle"  BY DEF IInv, CallSign, Idle
<1>1. PICK op \in SignOps, k \in Keys, m \in Messages, s \in BOOLEAN, d \in DefectSets :
        /\ d \subseteq DefectsOf(op)
        /\ args' = [args EXCEPT ![t] = [op |-> op, key |-> k, msg |-> m, stats |-> s, bad |-> d]]
        /\ siglen' = [siglen EXCEPT ![t] = IF op = "slh_sign" THEN Stale ELSE 0]
        /\ Goto(t, IF op = "slh_sign" THEN "slh_check" ELSE "pqc_check")
        /\ UNCHANGED <<tls, seed, stats, sig, grind, chain, result, published>>
  BY DEF CallSign
<1>u. UNCHANGED <<tls, seed, stats, sig, grind, chain, result, published>>  BY DEF CallSign
<1> DEFINE a == [op |-> op, key |-> k, msg |-> m, stats |-> s, bad |-> d]
           l == IF op = "slh_sign" THEN "slh_check" ELSE "pqc_check"
<1>2. a \in Calls  BY DefectAssumption DEF Calls, Ops
<1>3. op \in {"pqc_sign", "slh_sign"} /\ a.op = op /\ a.bad = d  BY DEF SignOps
<1> HIDE DEF a
<1>4. TypeOK'  BY <1>0, <1>1, <1>2, <1>u DEF TypeOK, tls, grind, chain, PCs, Goto, a
<1>5. Others(t)  BY <1>0, <1>1, <1>u DEF Goto, TypeOK, Others, tls, grind, chain
<1>6. /\ pc'[t] = l /\ args'[t] = a
      /\ g_random_data'[t] = g_random_data[t] /\ g_sign_stats'[t] = g_sign_stats[t]
      /\ seed'[t] = seed[t] /\ stats'[t] = stats[t] /\ sig'[t] = sig[t]
      /\ published'[t] = published[t]
  BY <1>0, <1>1, <1>u DEF Goto, TypeOK, tls, grind, chain, a
<1>7. Mine(t)'
  <2>1. CallOK(l, a)  BY <1>2, <1>3 DEF CallOK, Keyed, Searching, Verifying, SignOps
  <2>2. TlsOK(t, l, a, g_random_data[t], g_sign_stats[t])
    BY <1>0 DEF Mine, TlsOK, SigningFrame
  <2>3. \A f : SeedOK(l, a, seed[t], f)
    BY <1>0 DEF Mine, SeedOK, Searching, Verifying
  <2>4. \A sl, ly, rt, cn, mx, r : VerifyOK(l, a, sig[t], sl, ly, rt, cn, mx, r)
    BY <1>3 DEF VerifyOK, Verifying
  <2>5. \A sl, r : WipeOK(l, a, sig[t], sl, r, published[t])  BY <1>0 DEF Mine, WipeOK
  <2>6. \A c, ly, rt, cn, r : StatsOK(l, a, stats[t]["caller"], sig[t], c, ly, rt, cn, r)
    BY <1>0 DEF Mine, StatsOK, Verifying
  <2> QED  BY <1>6, <2>1, <2>2, <2>3, <2>4, <2>5, <2>6, NotSigning, NoOutcome
           DEF Mine, Searching, Verifying
<1> QED  BY <1>4, <1>5, <1>7, Frame

LEMMA CallVerifyInv == ASSUME NEW t \in Threads, IInv, CallVerify(t) PROVE IInv'
<1>0. TypeOK /\ Mine(t) /\ pc[t] = "idle"  BY DEF IInv, CallVerify, Idle
<1>1. PICK o \in Offers, d \in DefectSets :
        /\ d \subseteq DefectsOf("pqc_verify")
        /\ args' = [args EXCEPT ![t] =
                       [op |-> "pqc_verify", key |-> o.key, msg |-> o.msg,
                        stats |-> FALSE, bad |-> d]]
        /\ sig' = [sig EXCEPT ![t] = o.sig]
        /\ siglen' = [siglen EXCEPT ![t] = SPX_BYTES]
        /\ Goto(t, "pqc_check")
        /\ UNCHANGED <<tls, seed, stats, grind, chain, result, published>>
  BY DEF CallVerify
<1> DEFINE a == [op |-> "pqc_verify", key |-> o.key, msg |-> o.msg, stats |-> FALSE, bad |-> d]
<1>2. a \in Calls  BY DefectAssumption, OfferAssumption DEF Calls, Ops
<1>3. a.op = "pqc_verify" /\ a.bad = d /\ ~a.stats  OBVIOUS
<1> HIDE DEF a
<1>4. TypeOK'
  BY <1>0, <1>1, <1>2, OfferAssumption DEF TypeOK, tls, grind, chain, PCs, Goto, a
<1>5. Others(t)  BY <1>0, <1>1 DEF TypeOK, Others, tls, grind, chain, Goto
<1>6. /\ pc'[t] = "pqc_check" /\ args'[t] = a /\ siglen'[t] = SPX_BYTES
      /\ g_random_data'[t] = g_random_data[t] /\ g_sign_stats'[t] = g_sign_stats[t]
      /\ seed'[t] = seed[t] /\ stats'[t] = stats[t] /\ sig'[t][0] \in Randomizers
      /\ published'[t] = published[t]
  BY <1>0, <1>1, OfferAssumption DEF TypeOK, tls, grind, chain, Goto, a
<1>7. Mine(t)'
  <2>1. CallOK("pqc_check", a)  BY <1>2, <1>3 DEF CallOK, Keyed, Searching, Verifying, SignOps
  <2>2. TlsOK(t, "pqc_check", a, g_random_data[t], g_sign_stats[t])
    BY <1>0 DEF Mine, TlsOK, SigningFrame
  <2>3. \A f : SeedOK("pqc_check", a, seed[t], f)
    BY <1>0 DEF Mine, SeedOK, Searching, Verifying
  <2>4. \A b, ly, rt, cn, mx, r :
          b[0] \in Randomizers => VerifyOK("pqc_check", a, b, SPX_BYTES, ly, rt, cn, mx, r)
    BY DEF VerifyOK, Verifying
  <2>5. \A b, sl, r : WipeOK("pqc_check", a, b, sl, r, published[t])
    BY <1>0, <1>3 DEF Mine, WipeOK
  <2>6. \A b, c, ly, rt, cn, r : StatsOK("pqc_check", a, stats[t]["caller"], b, c, ly, rt, cn, r)
    BY <1>0 DEF Mine, StatsOK, Verifying
  <2> QED  BY <1>6, <2>1, <2>2, <2>3, <2>4, <2>5, <2>6, NotSigning, NoOutcome
           DEF Mine, Searching, Verifying
<1> QED  BY <1>4, <1>5, <1>7, Frame

LEMMA CallUpstreamInv == ASSUME NEW t \in Threads, IInv, CallUpstream(t) PROVE IInv'
<1>0. TypeOK /\ Mine(t) /\ pc[t] = "idle"  BY DEF IInv, CallUpstream, Idle
<1>1. PICK op \in {"crypto_sign", "crypto_keypair"}, k \in ValidKeys, m \in Messages :
        /\ args' = [args EXCEPT ![t] =
                       [op |-> op, key |-> k, msg |-> m, stats |-> FALSE,
                        bad |-> {}]]
        /\ siglen' = [siglen EXCEPT ![t] = Stale]
        /\ Goto(t, IF op = "crypto_sign" THEN "optrand" ELSE "kp_random")
        /\ UNCHANGED <<tls, seed, stats, sig, grind, chain, result, published>>
  BY DEF CallUpstream
<1> DEFINE a == [op |-> op, key |-> k, msg |-> m, stats |-> FALSE, bad |-> {}]
           l == IF op = "crypto_sign" THEN "optrand" ELSE "kp_random"
<1>2. a \in Calls  BY KeyAssumption DEF Calls, Ops
<1>3. a.op = op /\ a.bad = {} /\ ~a.stats /\ a.key \in ValidKeys  OBVIOUS
<1> HIDE DEF a
<1>4. TypeOK'  BY <1>0, <1>1, <1>2 DEF TypeOK, tls, grind, chain, PCs, Goto, a
<1>5. Others(t)  BY <1>0, <1>1 DEF TypeOK, Others, tls, grind, chain, Goto
<1>6. /\ pc'[t] = l /\ args'[t] = a
      /\ g_random_data'[t] = g_random_data[t] /\ g_sign_stats'[t] = g_sign_stats[t]
      /\ seed'[t] = seed[t] /\ stats'[t] = stats[t] /\ sig'[t] = sig[t]
      /\ published'[t] = published[t]
  BY <1>0, <1>1 DEF TypeOK, tls, grind, chain, Goto, a
<1>7. Mine(t)'
  <2>1. CallOK(l, a)  BY <1>2, <1>3 DEF CallOK, Keyed, Searching, Verifying, SignOps
  <2>2. TlsOK(t, l, a, g_random_data[t], g_sign_stats[t])
    BY <1>0, <1>3 DEF Mine, TlsOK, SigningFrame, SignOps
  <2>3. \A f : SeedOK(l, a, seed[t], f)
    BY <1>0, <1>3 DEF Mine, SeedOK, Searching, Verifying, SignOps
  <2>4. \A sl, r : WipeOK(l, a, sig[t], sl, r, published[t])  BY <1>0 DEF Mine, WipeOK
  <2>5. \A c, ly, rt, cn, r : StatsOK(l, a, stats[t]["caller"], sig[t], c, ly, rt, cn, r)
    BY <1>0, <1>3 DEF Mine, StatsOK, Verifying
  <2> QED  BY <1>6, <2>1, <2>2, <2>3, <2>4, <2>5, NotSigning, NotVerifying, NoOutcome
           DEF Mine, Searching, Verifying
<1> QED  BY <1>4, <1>5, <1>7, Frame

LEMMA BadDerandomizeInv == ASSUME NEW t \in Threads, IInv, BadDerandomize(t) PROVE IInv'
<1>0. TypeOK /\ Mine(t) /\ pc[t] = "idle"  BY DEF IInv, BadDerandomize, Idle
<1>1. TypeOK'  BY <1>0 DEF BadDerandomize, TypeOK, grind, chain, Tls
<1>2. Others(t)  BY <1>0 DEF BadDerandomize, TypeOK, Others, grind, chain, Tls
<1>3. \A a, s, f, g : SeedOK("idle", a, s, f) => SeedOK("idle", a, s, g)
  BY DEF SeedOK, Searching
<1>4. Mine(t)'  BY <1>0, <1>3 DEF BadDerandomize, Mine, grind, chain
<1> QED  BY <1>1, <1>2, <1>4, Frame

LEMMA CollectInv == ASSUME NEW t \in Threads, IInv, Collect(t) PROVE IInv'
<1>0. TypeOK /\ Mine(t) /\ pc[t] = "ret"  BY DEF IInv, Collect
<1>1. TypeOK'
  <2>1. Garbage \in Roots /\ 0 \in 0 .. SPX_D /\ 0 \in 0 .. WOTSC_COUNTER_LIMIT
        /\ 0 \in 0 .. FORSC_MAX_GRIND_ATTEMPTS /\ 0 \in 0 .. CTR_MODULUS - 1
    BY CapAssumption DEF Roots
  <2>2. [s \in Slots |-> StaleStats] \in [Slots -> StatsRecords]  BY StatsTypes
  <2> QED  BY <1>0, <2>1, <2>2, BufferTypes DEF Collect, TypeOK, PCs, Results, Goto, tls
<1>2. Others(t)  BY <1>0 DEF Collect, TypeOK, Others, tls, Goto
<1>3. /\ pc'[t] = "idle" /\ sig'[t] = Filled(Stale) /\ stats'[t]["caller"] = StaleStats
      /\ published'[t] = FALSE /\ seed'[t] = Stale
      /\ g_random_data'[t] = g_random_data[t] /\ g_sign_stats'[t] = g_sign_stats[t]
  BY <1>0 DEF Collect, TypeOK, tls, Goto, Slots
<1>4. Mine(t)'
  <2>1. \A a, b, c, ly, rt, cn, r : StatsOK("idle", a, StaleStats, b, c, ly, rt, cn, r)
    BY DEF StatsOK, Verifying
  <2>2. \A a, sl, r : WipeOK("idle", a, Filled(Stale), sl, r, FALSE)  BY DEF WipeOK
  <2>3. \A a : CallOK("idle", a)  BY DEF CallOK
  <2>4. \A a : TlsOK(t, "idle", a, g_random_data[t], g_sign_stats[t])
    BY <1>0 DEF Mine, TlsOK, SigningFrame
  <2>5. \A a, f : SeedOK("idle", a, Stale, f)  BY DEF SeedOK, Searching, Verifying
  <2> QED  BY <1>3, <2>1, <2>2, <2>3, <2>4, <2>5, NotSigning, NotVerifying, NoOutcome
           DEF Mine, Searching, Verifying
<1> QED  BY <1>1, <1>2, <1>4, Frame

LEMMA SignImplCheckInv == ASSUME NEW t \in Threads, IInv, SignImplCheck(t) PROVE IInv'
<1> DEFINE a == args[t]
<1>0. TypeOK /\ Mine(t) /\ pc[t] = "pqc_check" /\ a.op = "pqc_sign"
  BY DEF IInv, SignImplCheck, Op
<1>u. UNCHANGED <<args, tls, seed, stats, sig, siglen, grind, chain, published>>
  BY DEF SignImplCheck
<1>1. PICK l \in {"slh_check", "ret"}, r \in {"BAD_ARG", "BAD_KEY", "OUT_OF_MEMORY", result[t]} :
        /\ pc' = [pc EXCEPT ![t] = l] /\ result' = [result EXCEPT ![t] = r]
        /\ l = "slh_check" => a.bad = {}
        /\ l = "ret" => /\ r \in {"BAD_ARG", "BAD_KEY", "OUT_OF_MEMORY"}
                        /\ a.bad = {} => r = "OUT_OF_MEMORY"
  <2>1. result = [result EXCEPT ![t] = result[t]]  BY <1>0 DEF TypeOK
  <2>2. \A S : Has(t, S) => a.bad # {}  BY DEF Has
  <2> QED  BY <2>1, <2>2 DEF SignImplCheck, Return, Goto
<1>2. a \in Calls  BY <1>0 DEF Mine, CallOK
<1>3. TypeOK'  BY <1>0, <1>1, <1>u DEF TypeOK, tls, grind, chain, PCs, Results
<1>4. Others(t)  BY <1>0, <1>1, <1>u DEF TypeOK, Others, tls, grind, chain
<1>5. /\ pc'[t] = l /\ args'[t] = a /\ result'[t] = r /\ published'[t] = published[t]
      /\ g_random_data'[t] = g_random_data[t] /\ g_sign_stats'[t] = g_sign_stats[t]
      /\ seed'[t] = seed[t] /\ stats'[t] = stats[t] /\ sig'[t] = sig[t]
      /\ siglen'[t] = siglen[t]
  BY <1>0, <1>1, <1>u DEF TypeOK, tls, grind, chain
<1> HIDE DEF a
<1>6. Mine(t)'
  <2>1. CallOK(l, a)  BY <1>0, <1>1, <1>2 DEF CallOK, Keyed, Searching, Verifying, SignOps
  <2>2. TlsOK(t, l, a, g_random_data[t], g_sign_stats[t])
    BY <1>0 DEF Mine, TlsOK, SigningFrame
  <2>3. \A f : SeedOK(l, a, seed[t], f)  BY <1>0 DEF Mine, SeedOK, Searching, Verifying
  <2>4. \A sl, ly, rt, cn, mx : VerifyOK(l, a, sig[t], sl, ly, rt, cn, mx, r)
    BY <1>0 DEF VerifyOK, Verifying
  <2>5. OutcomeOK(l, a, sig[t], siglen[t], r, published[t])
    BY <1>0, <1>1 DEF OutcomeOK, Verifying, SignOps
  <2>6. \A sl : WipeOK(l, a, sig[t], sl, r, published[t])  BY <1>0, <1>1 DEF Mine, WipeOK, a
  <2>7. \A c, ly, rt, cn : StatsOK(l, a, stats[t]["caller"], sig[t], c, ly, rt, cn, r)
    BY <1>0, <1>1 DEF Mine, StatsOK, Verifying
  <2> QED  BY <1>5, <2>1, <2>2, <2>3, <2>4, <2>5, <2>6, <2>7, NotSigning
           DEF Mine, Searching, Verifying
<1> QED  BY <1>3, <1>4, <1>6, Frame

\* What the error returns of slh_dsa_sign_with_stats_impl and crypto_sign wipe.
LEMMA WipeWrites ==
    ASSUME TypeOK, NEW t \in Threads, args[t] \in Calls, WipeSignature(t),
           "null_sig" \in args[t].bad => sig[t] = Filled(Stale)
    PROVE  /\ sig' \in [Threads -> Buffers]
           /\ siglen' \in [Threads -> {0, SPX_BYTES, Stale}]
           /\ \A u \in Threads \ {t} : sig'[u] = sig[u] /\ siglen'[u] = siglen[u]
           /\ Wiped(args[t], sig'[t], siglen'[t])
<1>1. Has(t, {"null_sig"}) <=> "null_sig" \in args[t].bad  BY DEF Has
<1>2. Has(t, {"null_siglen"}) <=> "null_siglen" \in args[t].bad  BY DEF Has
<1> QED  BY <1>1, <1>2, BufferTypes DEF WipeSignature, TypeOK, Wiped

LEMMA SlhCheckInv == ASSUME NEW t \in Threads, IInv, SlhCheck(t) PROVE IInv'
<1> DEFINE a == args[t]
<1>0. TypeOK /\ Mine(t) /\ pc[t] = "slh_check"  BY DEF IInv, SlhCheck
<1>u. UNCHANGED <<args, tls, seed, stats, grind, chain, published>>  BY DEF SlhCheck
<1>1. a \in Calls /\ a.op \in SignOps /\ a.op # "pqc_verify" /\ sig[t] = Filled(Stale)
      /\ (a.op = "pqc_sign" => a.bad = {})
  BY <1>0 DEF Mine, CallOK, WipeOK, SignOps
<1>2. CASE a.bad # {} \/ a.key \notin ValidKeys
  <2> DEFINE r == IF a.bad = {} THEN "BAD_KEY" ELSE "FAIL"
  <2>1. /\ WipeSignature(t)
        /\ result' = [result EXCEPT ![t] = r]
        /\ pc' = [pc EXCEPT ![t] = "slh_ret"]
    BY <1>2 DEF SlhCheck, Goto, Key
  <2>2. /\ sig' \in [Threads -> Buffers]
        /\ siglen' \in [Threads -> {0, SPX_BYTES, Stale}]
        /\ \A u \in Threads \ {t} : sig'[u] = sig[u] /\ siglen'[u] = siglen[u]
        /\ Wiped(a, sig'[t], siglen'[t])
    BY <1>0, <1>1, <2>1, WipeWrites
  <2>3. TypeOK'  BY <1>0, <1>u, <2>1, <2>2 DEF TypeOK, tls, grind, chain, PCs, Results
  <2>4. Others(t)  BY <1>0, <1>u, <2>1, <2>2 DEF TypeOK, Others, tls, grind, chain
  <2>5. /\ pc'[t] = "slh_ret" /\ args'[t] = a /\ result'[t] = r /\ published'[t] = published[t]
        /\ g_random_data'[t] = g_random_data[t] /\ g_sign_stats'[t] = g_sign_stats[t]
        /\ seed'[t] = seed[t] /\ stats'[t] = stats[t]
    BY <1>0, <1>u, <2>1 DEF TypeOK, tls, grind, chain
  <2> HIDE DEF a
  <2>6. CallOK("slh_ret", a)  BY <1>1 DEF CallOK, Keyed, Searching, Verifying, SignOps
  <2>7. TlsOK(t, "slh_ret", a, g_random_data[t], g_sign_stats[t])
    BY <1>0 DEF Mine, TlsOK, SigningFrame
  <2>8. \A f : SeedOK("slh_ret", a, seed[t], f)  BY <1>0 DEF Mine, SeedOK, Searching, Verifying
  <2>9. \A b, sl : OutcomeOK("slh_ret", a, b, sl, r, published[t])
    BY <1>2 DEF OutcomeOK, Verifying
  <2>10. WipeOK("slh_ret", a, sig'[t], siglen'[t], r, published[t])
    BY <1>0, <2>2 DEF Mine, WipeOK
  <2>11. \A b, c, ly, rt, cn : StatsOK("slh_ret", a, stats[t]["caller"], b, c, ly, rt, cn, r)
    BY <1>0, <1>1 DEF Mine, StatsOK, Verifying
  <2>12. Mine(t)'
    BY <2>5, <2>6, <2>7, <2>8, <2>9, <2>10, <2>11, NotSigning, NotVerifying
    DEF Mine, Searching, Verifying
  <2> QED  BY <2>3, <2>4, <2>12, Frame
<1>3. CASE a.bad = {} /\ a.key \in ValidKeys
  <2>1. pc' = [pc EXCEPT ![t] = "derandomize"] /\ UNCHANGED <<sig, siglen, result>>
    BY <1>3 DEF SlhCheck, Goto, Key
  <2>2. TypeOK'  BY <1>0, <1>u, <2>1 DEF TypeOK, tls, grind, chain, PCs
  <2>3. Others(t)  BY <1>0, <1>u, <2>1 DEF TypeOK, Others, tls, grind, chain
  <2>4. /\ pc'[t] = "derandomize" /\ args'[t] = a /\ published'[t] = published[t]
        /\ g_random_data'[t] = g_random_data[t] /\ g_sign_stats'[t] = g_sign_stats[t]
        /\ seed'[t] = seed[t] /\ stats'[t] = stats[t] /\ sig'[t] = sig[t]
    BY <1>0, <1>u, <2>1 DEF TypeOK, tls, grind, chain
  <2> HIDE DEF a
  <2>5. CallOK("derandomize", a)  BY <1>1, <1>3 DEF CallOK, Keyed, Searching, Verifying, SignOps
  <2>6. TlsOK(t, "derandomize", a, g_random_data[t], g_sign_stats[t])
    BY <1>0 DEF Mine, TlsOK, SigningFrame
  <2>7. \A f : SeedOK("derandomize", a, seed[t], f)  BY DEF SeedOK, Searching, Verifying
  <2>8. \A sl, r : WipeOK("derandomize", a, sig[t], sl, r, published[t])
    BY <1>0, <1>1 DEF Mine, WipeOK
  <2>9. \A b, c, ly, rt, cn, r : StatsOK("derandomize", a, stats[t]["caller"], b, c, ly, rt, cn, r)
    BY <1>0 DEF Mine, StatsOK, Verifying
  <2>10. Mine(t)'
    BY <2>4, <2>5, <2>6, <2>7, <2>8, <2>9, NotSigning, NotVerifying, NoOutcome
    DEF Mine, Searching, Verifying
  <2> QED  BY <2>2, <2>3, <2>10, Frame
<1> QED  BY <1>2, <1>3

LEMMA DerandomizeInv == ASSUME NEW t \in Threads, IInv, Derandomize(t) PROVE IInv'
<1> DEFINE a == args[t]
           s == Seed(a.key, a.msg)
<1>0. TypeOK /\ Mine(t) /\ pc[t] = "derandomize"  BY DEF IInv, Derandomize
<1>1. a \in Calls /\ a.op \in SignOps /\ a.op # "pqc_verify" /\ a.bad = {} /\ a.key \in ValidKeys
  BY <1>0 DEF Mine, CallOK, Keyed, SignOps
<1>2. s \in Seeds  BY <1>1, TermTypes DEF Calls
<1>3. TypeOK'
  BY <1>0, <1>2 DEF Derandomize, TypeOK, Goto, Tls, Key, Msg, grind, chain, PCs
<1>4. Others(t)
  BY <1>0 DEF Derandomize, TypeOK, Others, Goto, Tls, grind, chain
<1>5. /\ pc'[t] = "rnd_init" /\ args'[t] = a /\ published'[t] = published[t] /\ seed'[t] = s
      /\ g_random_source_failed'[t] = FALSE /\ stats'[t] = stats[t] /\ sig'[t] = sig[t]
      /\ g_random_data'[t] = g_random_data[t] /\ g_sign_stats'[t] = g_sign_stats[t]
  BY <1>0 DEF Derandomize, TypeOK, Goto, Tls, Key, Msg, grind, chain
<1> HIDE DEF a
<1>6. CallOK("rnd_init", a)  BY <1>1 DEF CallOK, Keyed, Searching, Verifying, SignOps
<1>7. TlsOK(t, "rnd_init", a, g_random_data[t], g_sign_stats[t])
  BY <1>0 DEF Mine, TlsOK, SigningFrame
<1>8. SeedOK("rnd_init", a, s, FALSE)  BY DEF SeedOK, Searching, Verifying
<1>9. \A sl, r : WipeOK("rnd_init", a, sig[t], sl, r, published[t])
  BY <1>0, <1>1 DEF Mine, WipeOK, a
<1>10. \A b, c, ly, rt, cn, r : StatsOK("rnd_init", a, stats[t]["caller"], b, c, ly, rt, cn, r)
  BY <1>0 DEF Mine, StatsOK, Verifying
<1>11. Mine(t)'
  BY <1>5, <1>6, <1>7, <1>8, <1>9, <1>10, NotSigning, NotVerifying, NoOutcome
  DEF Mine, Searching, Verifying
<1> QED  BY <1>3, <1>4, <1>11, Frame

\* The flag is down: no step of another thread can have raised it.
LEMMA InitRandomSourceInv == ASSUME NEW t \in Threads, IInv, InitRandomSource(t) PROVE IInv'
<1> DEFINE a == args[t]
<1>0. TypeOK /\ Mine(t) /\ pc[t] = "rnd_init"  BY DEF IInv, InitRandomSource
<1>1. a \in Calls /\ a.op \in SignOps /\ a.op # "pqc_verify" /\ a.bad = {} /\ a.key \in ValidKeys
  BY <1>0 DEF Mine, CallOK, Keyed, SignOps
<1>2. ~g_random_source_failed[t]  BY <1>0 DEF Mine, SeedOK
<1>3. /\ g_random_data' = [g_random_data EXCEPT ![t] = t]
      /\ g_random_source_failed' = [g_random_source_failed EXCEPT ![t] = FALSE]
      /\ pc' = [pc EXCEPT ![t] = "stats_begin"]
      /\ UNCHANGED <<seed, sig, siglen, result, args, g_sign_stats, stats, grind, chain, published>>
  BY <1>2 DEF InitRandomSource, Goto, Tls
<1>4. TypeOK'  BY <1>0, <1>3 DEF TypeOK, grind, chain, PCs
<1>5. Others(t)  BY <1>0, <1>3 DEF TypeOK, Others, grind, chain
<1>6. /\ pc'[t] = "stats_begin" /\ args'[t] = a /\ published'[t] = published[t]
      /\ seed'[t] = seed[t] /\ stats'[t] = stats[t] /\ sig'[t] = sig[t]
      /\ g_random_data'[t] = t /\ g_sign_stats'[t] = g_sign_stats[t]
  BY <1>0, <1>3 DEF TypeOK, grind, chain
<1> HIDE DEF a
<1>7. CallOK("stats_begin", a)  BY <1>1 DEF CallOK, Keyed, Searching, Verifying, SignOps
<1>8. TlsOK(t, "stats_begin", a, t, g_sign_stats[t])
  BY <1>0, <1>1 DEF Mine, TlsOK, SigningFrame
<1>9. \A f : SeedOK("stats_begin", a, seed[t], f)
  BY <1>0 DEF Mine, SeedOK, Searching, Verifying, a
<1>10. \A sl, r : WipeOK("stats_begin", a, sig[t], sl, r, published[t])
  BY <1>0, <1>1 DEF Mine, WipeOK, a
<1>11. \A b, c, ly, rt, cn, r : StatsOK("stats_begin", a, stats[t]["caller"], b, c, ly, rt, cn, r)
  BY <1>0 DEF Mine, StatsOK, Verifying
<1>12. Mine(t)'
  BY <1>6, <1>7, <1>8, <1>9, <1>10, <1>11, NotSigning, NotVerifying, NoOutcome
  DEF Mine, Searching, Verifying
<1> QED  BY <1>4, <1>5, <1>12, Frame

LEMMA StatsBeginInv == ASSUME NEW t \in Threads, IInv, StatsBegin(t) PROVE IInv'
<1> DEFINE a == args[t]
<1>0. TypeOK /\ Mine(t) /\ pc[t] = "stats_begin"  BY DEF IInv, StatsBegin
<1>1. a \in Calls /\ a.op \in SignOps /\ a.op # "pqc_verify" /\ a.bad = {} /\ a.key \in ValidKeys
  BY <1>0 DEF Mine, CallOK, Keyed, SignOps
<1>2. Slot(a) \in Slots /\ Ptr(t, Slot(a)) \in StatsPtrs /\ (Slot(a) = "caller" <=> a.stats)
  BY <1>1 DEF Slot, Slots, Ptr, StatsPtrs, Calls
<1>3. /\ stats' = [stats EXCEPT ![t][Slot(a)] = FreshStats]
      /\ g_sign_stats' = [g_sign_stats EXCEPT ![t] = Ptr(t, Slot(a))]
      /\ pc' = [pc EXCEPT ![t] = "optrand"]
      /\ UNCHANGED <<args, g_random_data, g_random_source_failed, seed, sig, siglen,
                     grind, chain, result, published>>
  BY DEF StatsBegin, Goto, Tls, Slot
<1>4. /\ stats' \in [Threads -> [Slots -> StatsRecords]]
      /\ \A u \in Threads \ {t} : stats'[u] = stats[u]
      /\ stats'[t]["caller"] = IF a.stats THEN FreshStats ELSE stats[t]["caller"]
  <2>1. FreshStats \in StatsRecords  BY StatsTypes
  <2> QED  BY <1>0, <1>2, <1>3, <2>1 DEF TypeOK, Slots
<1>5. TypeOK'  BY <1>0, <1>2, <1>3, <1>4 DEF TypeOK, grind, chain, PCs
<1>6. Others(t)  BY <1>0, <1>3, <1>4 DEF TypeOK, Others, grind, chain
<1>7. /\ pc'[t] = "optrand" /\ args'[t] = a /\ published'[t] = published[t]
      /\ seed'[t] = seed[t] /\ sig'[t] = sig[t]
      /\ g_random_data'[t] = g_random_data[t] /\ g_sign_stats'[t] = Ptr(t, Slot(a))
  BY <1>0, <1>3 DEF TypeOK, grind, chain
<1> HIDE DEF a
<1>8. CallOK("optrand", a)  BY <1>1 DEF CallOK, Keyed, Searching, Verifying, SignOps
<1>9. TlsOK(t, "optrand", a, g_random_data[t], Ptr(t, Slot(a)))
  BY <1>0, <1>1 DEF Mine, TlsOK, SigningFrame, a
<1>10. \A f : SeedOK("optrand", a, seed[t], f)
  BY <1>0, <1>1 DEF Mine, SeedOK, Searching, Verifying, a
<1>11. \A sl, r : WipeOK("optrand", a, sig[t], sl, r, published[t])
  BY <1>0, <1>1 DEF Mine, WipeOK, a
<1>12. \A b, c, ly, rt, cn, r : StatsOK("optrand", a, stats'[t]["caller"], b, c, ly, rt, cn, r)
  BY <1>0, <1>4 DEF Mine, StatsOK, Verifying
<1>13. Mine(t)'
  BY <1>7, <1>8, <1>9, <1>10, <1>11, <1>12, NotSigning, NotVerifying, NoOutcome
  DEF Mine, Searching, Verifying
<1> QED  BY <1>5, <1>6, <1>13, Frame

LEMMA SlhCloseInv == ASSUME NEW t \in Threads, IInv, SlhClose(t) PROVE IInv'
<1> DEFINE a == args[t]
<1>0. TypeOK /\ Mine(t) /\ pc[t] = "slh_close"  BY DEF IInv, SlhClose
<1>1. a \in Calls /\ a.op \in SignOps /\ a.bad = {} /\ a.key \in ValidKeys
  BY <1>0 DEF Mine, CallOK, Keyed
<1>2. ~g_random_source_failed[t]  BY <1>0 DEF Mine, SeedOK
<1>3. /\ result' = [result EXCEPT ![t] = result[t]]
      /\ IF result[t] = "OK" THEN UNCHANGED <<sig, siglen>> ELSE WipeSignature(t)
      /\ g_sign_stats' = [g_sign_stats EXCEPT ![t] = NULL]
      /\ g_random_data' = [g_random_data EXCEPT ![t] = NULL]
      /\ seed' = [seed EXCEPT ![t] = Zero]
      /\ pc' = [pc EXCEPT ![t] = "slh_ret"]
      /\ UNCHANGED <<args, g_random_source_failed, stats, grind, chain, published>>
  BY <1>2 DEF SlhClose, Goto, Tls, Detach
<1>4. /\ sig' \in [Threads -> Buffers]
      /\ siglen' \in [Threads -> {0, SPX_BYTES, Stale}]
      /\ \A u \in Threads \ {t} : sig'[u] = sig[u] /\ siglen'[u] = siglen[u]
      /\ result[t] # "OK" => Wiped(a, sig'[t], siglen'[t])
      /\ result[t] = "OK" => sig'[t] = sig[t] /\ siglen'[t] = siglen[t]
  <2>1. CASE result[t] = "OK"  BY <1>0, <1>3, <2>1 DEF TypeOK
  <2>2. CASE result[t] # "OK"  BY <1>0, <1>1, <1>3, <2>2, WipeWrites
  <2> QED  BY <2>1, <2>2
<1>5. TypeOK'  BY <1>0, <1>3, <1>4 DEF TypeOK, grind, chain, PCs
<1>6. Others(t)  BY <1>0, <1>3, <1>4 DEF TypeOK, Others, grind, chain
<1>7. /\ pc'[t] = "slh_ret" /\ args'[t] = a /\ published'[t] = published[t]
      /\ seed'[t] = Zero /\ result'[t] = result[t] /\ stats'[t] = stats[t]
      /\ g_random_data'[t] = NULL /\ g_sign_stats'[t] = NULL
  BY <1>0, <1>3 DEF TypeOK, grind, chain
<1>8. Signed(a, sig[t], siglen[t], result[t])  BY <1>0 DEF Mine, OutcomeOK
<1>9. Signed(a, sig'[t], siglen'[t], result[t])  BY <1>4, <1>8 DEF Signed
<1>10. result[t] \in {"OK", "LIMIT"}  BY <1>8 DEF Signed
<1>11. StatsOK("slh_ret", a, stats[t]["caller"], sig'[t], ctr'[t], layer'[t], root'[t],
               counter'[t], result[t])
  <2>1. result[t] = "OK" => sig'[t] = sig[t]  BY <1>4
  <2>2. a.stats => StatsTell(stats[t]["caller"], sig[t], result[t])  BY <1>0 DEF Mine, StatsOK
  <2>3. a.stats => StatsTell(stats[t]["caller"], sig'[t], result[t])
    BY <2>1, <2>2 DEF StatsTell
  <2>4. ~a.stats => stats[t]["caller"] = StaleStats  BY <1>0 DEF Mine, StatsOK
  <2> QED  BY <1>10, <2>3, <2>4 DEF StatsOK, Verifying
<1> HIDE DEF a
<1>12. CallOK("slh_ret", a)  BY <1>1 DEF CallOK, Keyed, Searching, Verifying, SignOps
<1>13. TlsOK(t, "slh_ret", a, NULL, NULL)  BY DEF TlsOK, SigningFrame
<1>14. \A f : SeedOK("slh_ret", a, Zero, f)  BY DEF SeedOK, Searching, Verifying
<1>15. OutcomeOK("slh_ret", a, sig'[t], siglen'[t], result[t], published[t])
  BY <1>1, <1>9 DEF OutcomeOK, Verifying
<1>16. WipeOK("slh_ret", a, sig'[t], siglen'[t], result[t], published[t])
  BY <1>0, <1>4 DEF Mine, WipeOK
<1>17. Mine(t)'
  BY <1>7, <1>11, <1>12, <1>13, <1>14, <1>15, <1>16, NotSigning, NotVerifying
  DEF Mine, Searching, Verifying
<1> QED  BY <1>5, <1>6, <1>17, Frame

LEMMA SlhReturnInv == ASSUME NEW t \in Threads, IInv, SlhReturn(t) PROVE IInv'
<1> DEFINE a == args[t]
           r == result[t]
<1>0. TypeOK /\ Mine(t) /\ pc[t] = "slh_ret"  BY DEF IInv, SlhReturn
<1>u. UNCHANGED <<args, tls, seed, stats, siglen, grind, chain, published>>  BY DEF SlhReturn
<1>1. a \in Calls /\ a.op \in SignOps /\ (a.op = "pqc_sign" => a.bad = {})
  BY <1>0 DEF Mine, CallOK, Keyed
<1>2. IF a.bad = {} /\ a.key \in ValidKeys THEN Signed(a, sig[t], siglen[t], r)
      ELSE r = IF a.bad = {} THEN "BAD_KEY" ELSE "FAIL"
  BY <1>0 DEF Mine, OutcomeOK
<1>3. /\ published[t] = FALSE
      /\ r # "OK" => Wiped(a, sig[t], siglen[t])
  BY <1>0 DEF Mine, WipeOK
<1>4. /\ ~a.stats => stats[t]["caller"] = StaleStats
      /\ a.stats => IF r \in {"OK", "LIMIT"} THEN StatsTell(stats[t]["caller"], sig[t], r)
                    ELSE stats[t]["caller"] = StaleStats
  BY <1>0, <1>1 DEF Mine, StatsOK
<1>5. /\ args'[t] = a /\ published'[t] = published[t] /\ seed'[t] = seed[t]
      /\ g_random_data'[t] = g_random_data[t] /\ g_sign_stats'[t] = g_sign_stats[t]
      /\ stats'[t] = stats[t] /\ siglen'[t] = siglen[t]
  BY <1>u DEF tls, grind, chain
<1>6. CASE a.op = "pqc_sign" /\ r = "OK" /\ siglen[t] = SPX_BYTES
  <2>1. pc' = [pc EXCEPT ![t] = "v_hash"] /\ UNCHANGED <<sig, result>>
    BY <1>6 DEF SlhReturn, Goto, Op
  <2>2. TypeOK'  BY <1>0, <1>u, <2>1 DEF TypeOK, tls, grind, chain, PCs
  <2>3. Others(t)  BY <1>0, <1>u, <2>1 DEF TypeOK, Others, tls, grind, chain
  <2>4. pc'[t] = "v_hash" /\ sig'[t] = sig[t] /\ result'[t] = r  BY <1>0, <2>1 DEF TypeOK
  <2>5. a.bad = {} /\ a.key \in ValidKeys /\ ReferenceSignature(sig[t], a.key, a.msg)
    BY <1>1, <1>2, <1>6 DEF Signed
  <2>6. sig[t][0] \in Randomizers
    <3>1. PICK n \in Nat : SignsPath(sig[t], SaltedPath(a.key, a.msg, n), WOTSC_MAX_COUNTER)
      BY <2>5, CapAssumption DEF ReferenceSignature
    <3>2. SaltedPath(a.key, a.msg, n) \in Paths  BY <1>1, TermTypes DEF Calls
    <3> QED  BY <3>1, <3>2 DEF SignsPath, Paths
  <2> HIDE DEF a, r
  <2>7. CallOK("v_hash", a)  BY <1>1, <1>6, <2>5 DEF CallOK, Keyed, Searching, Verifying
  <2>8. TlsOK(t, "v_hash", a, g_random_data[t], g_sign_stats[t])
    BY <1>0 DEF Mine, TlsOK, SigningFrame
  <2>9. \A f : SeedOK("v_hash", a, seed[t], f)  BY <1>0 DEF Mine, SeedOK, Searching, Verifying
  <2>10. \A ly, rt, cn, mx : VerifyOK("v_hash", a, sig[t], siglen[t], ly, rt, cn, mx, r)
    BY <1>6, <2>6 DEF VerifyOK, Verifying
  <2>11. OutcomeOK("v_hash", a, sig[t], siglen[t], r, published[t])
    BY <2>5 DEF OutcomeOK, Verifying
  <2>12. WipeOK("v_hash", a, sig[t], siglen[t], r, published[t])  BY <1>3 DEF WipeOK
  <2>13. \A c, ly, rt, cn : StatsOK("v_hash", a, stats[t]["caller"], sig[t], c, ly, rt, cn, r)
    BY <1>4, <1>6 DEF StatsOK, Verifying
  <2>14. Mine(t)'
    BY <1>5, <2>4, <2>7, <2>8, <2>9, <2>10, <2>11, <2>12, <2>13, NotSigning
    DEF Mine, Searching, Verifying
  <2> QED  BY <2>2, <2>3, <2>14, Frame
<1>7. CASE ~(a.op = "pqc_sign" /\ r = "OK" /\ siglen[t] = SPX_BYTES)
  <2>1. r \in {"OK", "LIMIT", "BAD_KEY", "FAIL"} /\ (r = "OK" => siglen[t] = SPX_BYTES)
        /\ (a.op = "pqc_sign" => r \in {"LIMIT", "BAD_KEY"})
    BY <1>1, <1>2, <1>7 DEF Signed
  <2>2. /\ pc' = [pc EXCEPT ![t] = "ret"]
        /\ sig' = IF a.op = "pqc_sign" THEN [sig EXCEPT ![t] = Filled(Zero)] ELSE sig
        /\ result' = [result EXCEPT ![t] = r]
    <3>1. CASE a.op = "pqc_sign"
      BY <1>7, <2>1, <3>1 DEF SlhReturn, Goto, Return, Op
    <3>2. CASE a.op # "pqc_sign"
      <4>1. result = [result EXCEPT ![t] = r]  BY <1>0 DEF TypeOK
      <4> QED  BY <3>2, <4>1 DEF SlhReturn, Goto, Op
    <3> QED  BY <3>1, <3>2
  <2>3. TypeOK'
    BY <1>0, <1>u, <2>2, BufferTypes DEF TypeOK, tls, grind, chain, PCs
  <2>4. Others(t)  BY <1>0, <1>u, <2>2 DEF TypeOK, Others, tls, grind, chain
  <2>5. /\ pc'[t] = "ret" /\ result'[t] = r
        /\ sig'[t] = IF a.op = "pqc_sign" THEN Filled(Zero) ELSE sig[t]
    BY <1>0, <2>2 DEF TypeOK
  <2> HIDE DEF a, r
  <2>6. CallOK("ret", a)  BY <1>1 DEF CallOK, Keyed, Searching, Verifying, SignOps
  <2>7. TlsOK(t, "ret", a, g_random_data[t], g_sign_stats[t])
    BY <1>0 DEF Mine, TlsOK, SigningFrame
  <2>8. \A f : SeedOK("ret", a, seed[t], f)  BY <1>0 DEF Mine, SeedOK, Searching, Verifying
  <2>9. \A b, sl, ly, rt, cn, mx : VerifyOK("ret", a, b, sl, ly, rt, cn, mx, r)
    BY <1>1 DEF VerifyOK, Verifying, SignOps
  <2>10. OutcomeOK("ret", a, sig'[t], siglen[t], r, published[t])
    <3>1. a.bad = {} /\ a.key \in ValidKeys => Signed(a, sig'[t], siglen[t], r)
      BY <1>2, <2>1, <2>5 DEF Signed
    <3> QED  BY <1>1, <1>2, <1>3, <2>1, <3>1 DEF OutcomeOK, Verifying, SignOps
  <2>11. WipeOK("ret", a, sig'[t], siglen[t], r, published[t])
    BY <1>1, <1>3, <2>5 DEF WipeOK, Wiped, SignOps
  <2>12. \A c, ly, rt, cn : StatsOK("ret", a, stats[t]["caller"], sig'[t], c, ly, rt, cn, r)
    <3>1. a.stats /\ r \in {"OK", "LIMIT"} => StatsTell(stats[t]["caller"], sig'[t], r)
      BY <1>4, <2>1, <2>5 DEF StatsTell
    <3> QED  BY <1>4, <3>1 DEF StatsOK, Verifying
  <2>13. Mine(t)'
    BY <1>5, <2>5, <2>6, <2>7, <2>8, <2>9, <2>10, <2>11, <2>12, NotSigning
    DEF Mine, Searching, Verifying
  <2> QED  BY <2>3, <2>4, <2>13, Frame
<1> QED  BY <1>6, <1>7

LEMMA UpstreamCloseInv == ASSUME NEW t \in Threads, IInv, UpstreamClose(t) PROVE IInv'
<1> DEFINE a == args[t]
<1>0. TypeOK /\ Mine(t) /\ pc[t] = "ref_close"  BY DEF IInv, UpstreamClose
<1>u. UNCHANGED <<args, tls, seed, stats, grind, chain, result, published>>  BY DEF UpstreamClose
<1>1. a \in Calls /\ a.op = "crypto_sign" /\ a.bad = {} /\ result[t] = "FAIL"
      /\ published[t] = FALSE
  BY <1>0 DEF Mine, CallOK, OutcomeOK, WipeOK
<1>2. pc' = [pc EXCEPT ![t] = "ret"] /\ WipeSignature(t)  BY <1>1 DEF UpstreamClose, Goto
<1>3. /\ sig' \in [Threads -> Buffers]
      /\ siglen' \in [Threads -> {0, SPX_BYTES, Stale}]
      /\ \A u \in Threads \ {t} : sig'[u] = sig[u] /\ siglen'[u] = siglen[u]
      /\ Wiped(a, sig'[t], siglen'[t])
  BY <1>0, <1>1, <1>2, WipeWrites
<1>4. TypeOK'  BY <1>0, <1>u, <1>2, <1>3 DEF TypeOK, tls, grind, chain, PCs
<1>5. Others(t)  BY <1>0, <1>u, <1>2, <1>3 DEF TypeOK, Others, tls, grind, chain
<1>6. /\ pc'[t] = "ret" /\ args'[t] = a /\ result'[t] = "FAIL" /\ published'[t] = FALSE
      /\ g_random_data'[t] = g_random_data[t] /\ g_sign_stats'[t] = g_sign_stats[t]
      /\ seed'[t] = seed[t] /\ stats'[t] = stats[t]
  BY <1>0, <1>u, <1>1, <1>2 DEF TypeOK, tls, grind, chain
<1> HIDE DEF a
<1>7. CallOK("ret", a)  BY <1>1 DEF CallOK, Keyed, Searching, Verifying
<1>8. TlsOK(t, "ret", a, g_random_data[t], g_sign_stats[t])
  BY <1>0, <1>1 DEF Mine, TlsOK, SigningFrame, SignOps
<1>9. \A f : SeedOK("ret", a, seed[t], f)  BY <1>0 DEF Mine, SeedOK, Searching, Verifying
<1>10. \A b, sl, ly, rt, cn, mx, r : VerifyOK("ret", a, b, sl, ly, rt, cn, mx, r)
  BY <1>1 DEF VerifyOK, Verifying
<1>11. \A b, sl : OutcomeOK("ret", a, b, sl, "FAIL", FALSE)
  BY <1>1 DEF OutcomeOK, Verifying, SignOps
<1>12. WipeOK("ret", a, sig'[t], siglen'[t], "FAIL", FALSE)  BY <1>1, <1>3 DEF WipeOK, Wiped
<1>13. \A b, c, ly, rt, cn : StatsOK("ret", a, stats[t]["caller"], b, c, ly, rt, cn, "FAIL")
  BY <1>0, <1>1 DEF Mine, StatsOK, Verifying, SignOps, a
<1>14. Mine(t)'
  BY <1>6, <1>7, <1>8, <1>9, <1>10, <1>11, <1>12, <1>13, NotSigning
  DEF Mine, Searching, Verifying
<1> QED  BY <1>4, <1>5, <1>14, Frame

LEMMA KeypairRandomInv == ASSUME NEW t \in Threads, IInv, KeypairRandom(t) PROVE IInv'
<1> DEFINE a == args[t]
<1>0. TypeOK /\ Mine(t) /\ pc[t] = "kp_random"  BY DEF IInv, KeypairRandom
<1>1. a \in Calls /\ a.op = "crypto_keypair" /\ a.bad = {} /\ g_random_data[t] = NULL
      /\ sig[t] = Filled(Stale) /\ published[t] = FALSE /\ ~(a.op = "pqc_verify")
  BY <1>0 DEF Mine, CallOK, TlsOK, SigningFrame, WipeOK
<1>2. /\ g_random_source_failed' = [g_random_source_failed EXCEPT ![t] = TRUE]
      /\ seed' = [seed EXCEPT ![t] = Zero]
      /\ pc' = [pc EXCEPT ![t] = "kp_check"]
      /\ UNCHANGED <<args, g_random_data, g_sign_stats, stats, sig, siglen, grind,
                     chain, result, published>>
  BY <1>1 DEF KeypairRandom, Goto, Tls
<1>3. TypeOK'  BY <1>0, <1>2 DEF TypeOK, grind, chain, PCs
<1>4. Others(t)  BY <1>0, <1>2 DEF TypeOK, Others, grind, chain
<1>5. /\ pc'[t] = "kp_check" /\ args'[t] = a /\ g_random_source_failed'[t] = TRUE
      /\ seed'[t] = Zero /\ stats'[t] = stats[t] /\ sig'[t] = sig[t]
      /\ g_random_data'[t] = g_random_data[t] /\ g_sign_stats'[t] = g_sign_stats[t]
      /\ published'[t] = FALSE
  BY <1>0, <1>1, <1>2 DEF TypeOK, grind, chain
<1> HIDE DEF a
<1>6. CallOK("kp_check", a)  BY <1>1 DEF CallOK, Keyed, Searching, Verifying
<1>7. TlsOK(t, "kp_check", a, g_random_data[t], g_sign_stats[t])
  BY <1>0 DEF Mine, TlsOK, SigningFrame
<1>8. SeedOK("kp_check", a, Zero, TRUE)  BY DEF SeedOK, Searching, Verifying
<1>9. \A sl, r : WipeOK("kp_check", a, sig[t], sl, r, FALSE)  BY <1>1 DEF WipeOK
<1>10. \A b, c, ly, rt, cn, r : StatsOK("kp_check", a, stats[t]["caller"], b, c, ly, rt, cn, r)
  BY <1>0 DEF Mine, StatsOK, Verifying, a
<1>11. Mine(t)'
  BY <1>5, <1>6, <1>7, <1>8, <1>9, <1>10, NotSigning, NotVerifying, NoOutcome
  DEF Mine, Searching, Verifying
<1> QED  BY <1>3, <1>4, <1>11, Frame

LEMMA KeypairCheckInv == ASSUME NEW t \in Threads, IInv, KeypairCheck(t) PROVE IInv'
<1> DEFINE a == args[t]
<1>0. TypeOK /\ Mine(t) /\ pc[t] = "kp_check"  BY DEF IInv, KeypairCheck
<1>1. a \in Calls /\ a.op = "crypto_keypair" /\ a.bad = {} /\ g_random_source_failed[t]
      /\ sig[t] = Filled(Stale) /\ published[t] = FALSE
  BY <1>0 DEF Mine, CallOK, SeedOK, WipeOK
<1>2. /\ seed' = [seed EXCEPT ![t] = Zero]
      /\ result' = [result EXCEPT ![t] = "FAIL"]
      /\ pc' = [pc EXCEPT ![t] = "ret"]
      /\ UNCHANGED <<args, tls, stats, sig, siglen, grind, chain, published>>
  BY <1>1 DEF KeypairCheck, Goto, Return, Tls
<1>3. TypeOK'  BY <1>0, <1>2 DEF TypeOK, tls, grind, chain, PCs, Results
<1>4. Others(t)  BY <1>0, <1>2 DEF TypeOK, Others, tls, grind, chain
<1>5. /\ pc'[t] = "ret" /\ args'[t] = a /\ result'[t] = "FAIL"
      /\ seed'[t] = Zero /\ stats'[t] = stats[t] /\ sig'[t] = sig[t]
      /\ g_random_data'[t] = g_random_data[t] /\ g_sign_stats'[t] = g_sign_stats[t]
      /\ published'[t] = FALSE
  BY <1>0, <1>1, <1>2 DEF TypeOK, tls, grind, chain
<1> HIDE DEF a
<1>6. CallOK("ret", a)  BY <1>1 DEF CallOK, Keyed, Searching, Verifying
<1>7. TlsOK(t, "ret", a, g_random_data[t], g_sign_stats[t])
  BY <1>0 DEF Mine, TlsOK, SigningFrame
<1>8. \A f : SeedOK("ret", a, Zero, f)  BY DEF SeedOK, Searching, Verifying
<1>9. \A b, sl, ly, rt, cn, mx, r : VerifyOK("ret", a, b, sl, ly, rt, cn, mx, r)
  BY <1>1 DEF VerifyOK, Verifying
<1>10. \A b, sl : OutcomeOK("ret", a, b, sl, "FAIL", FALSE)
  BY <1>1 DEF OutcomeOK, Verifying, SignOps
<1>11. \A sl : WipeOK("ret", a, sig[t], sl, "FAIL", FALSE)  BY <1>1 DEF WipeOK
<1>12. \A b, c, ly, rt, cn : StatsOK("ret", a, stats[t]["caller"], b, c, ly, rt, cn, "FAIL")
  BY <1>0, <1>1 DEF Mine, StatsOK, Verifying, SignOps, a
<1>13. Mine(t)'
  BY <1>5, <1>6, <1>7, <1>8, <1>9, <1>10, <1>11, <1>12, NotSigning
  DEF Mine, Searching, Verifying
<1> QED  BY <1>3, <1>4, <1>13, Frame

LEMMA DrawOptrandInv == ASSUME NEW t \in Threads, IInv, DrawOptrand(t) PROVE IInv'
<1> DEFINE a == args[t]
<1>0. TypeOK /\ Mine(t) /\ pc[t] = "optrand"  BY DEF IInv, DrawOptrand
<1>1. a \in Calls /\ a.op \in SignOps \cup {"crypto_sign"} /\ a.bad = {} /\ a.key \in ValidKeys
      /\ published[t] = FALSE
  BY <1>0 DEF Mine, CallOK, Keyed, WipeOK
<1>2. /\ ~a.stats => stats[t]["caller"] = StaleStats
      /\ a.stats => stats[t]["caller"] = FreshStats
  BY <1>0 DEF Mine, StatsOK
<1>u. UNCHANGED <<args, g_random_data, g_sign_stats, seed, stats, chain, published>>
  BY DEF DrawOptrand
<1>3. CASE a.op = "crypto_sign"
  <2>1. g_random_data[t] = NULL  BY <1>0, <1>3 DEF Mine, TlsOK, SignOps
  <2>2. /\ g_random_source_failed' = [g_random_source_failed EXCEPT ![t] = TRUE]
        /\ siglen' = [siglen EXCEPT ![t] = 0]
        /\ result' = [result EXCEPT ![t] = "FAIL"]
        /\ pc' = [pc EXCEPT ![t] = "ref_close"]
        /\ UNCHANGED <<sig, grind>>
    BY <1>3, <2>1 DEF DrawOptrand, SignatureFails, SignatureCaller, Goto, Tls, Op
  <2>3. TypeOK'  BY <1>0, <1>u, <2>2 DEF TypeOK, grind, chain, PCs, Results
  <2>4. Others(t)  BY <1>0, <1>u, <2>2 DEF TypeOK, Others, grind, chain
  <2>5. /\ pc'[t] = "ref_close" /\ args'[t] = a /\ result'[t] = "FAIL"
        /\ seed'[t] = seed[t] /\ stats'[t] = stats[t] /\ published'[t] = FALSE
        /\ g_random_data'[t] = g_random_data[t] /\ g_sign_stats'[t] = g_sign_stats[t]
    BY <1>0, <1>u, <1>1, <2>2 DEF TypeOK, grind, chain
  <2>6. CallOK("ref_close", a)  BY <1>1, <1>3 DEF CallOK, Keyed, Searching, Verifying
  <2>7. TlsOK(t, "ref_close", a, g_random_data[t], g_sign_stats[t])
    BY <1>0, <1>3 DEF Mine, TlsOK, SigningFrame, SignOps
  <2>8. \A f : SeedOK("ref_close", a, seed[t], f)
    BY <1>0, <1>3 DEF Mine, SeedOK, Searching, Verifying, SignOps
  <2>9. \A b, sl : OutcomeOK("ref_close", a, b, sl, "FAIL", FALSE)
    BY DEF OutcomeOK, Verifying
  <2>10. \A b, sl : WipeOK("ref_close", a, b, sl, "FAIL", FALSE)  BY DEF WipeOK
  <2>11. \A b, c, ly, rt, cn : StatsOK("ref_close", a, stats[t]["caller"], b, c, ly, rt, cn, "FAIL")
    BY <1>2 DEF StatsOK, Verifying
  <2> HIDE DEF a
  <2>12. Mine(t)'
    BY <2>5, <2>6, <2>7, <2>8, <2>9, <2>10, <2>11, NotSigning, NotVerifying
    DEF Mine, Searching, Verifying
  <2> QED  BY <2>3, <2>4, <2>12, Frame
<1>4. CASE a.op \in SignOps
  <2> DEFINE x == Salt(a.key, a.msg, Seed(a.key, a.msg), 0)
  <2>1. g_random_data[t] = t /\ t # NULL /\ seed[t] = Seed(a.key, a.msg)
    BY <1>0, <1>4, NullAssumption DEF Mine, TlsOK, SeedOK, SigningFrame
  <2>2. /\ g_random_source_failed' = [g_random_source_failed EXCEPT ![t] = FALSE]
        /\ sig' = [sig EXCEPT ![t][0] = x]
        /\ ctr' = [ctr EXCEPT ![t] = 0]
        /\ attempts' = [attempts EXCEPT ![t] = 0]
        /\ pc' = [pc EXCEPT ![t] = "grind"]
        /\ UNCHANGED <<siglen, result>>
    BY <2>1 DEF DrawOptrand, Goto, Tls, Key, Msg
  <2>3. x \in Contents
    BY <1>1, TermTypes, ContentTypes DEF Calls, Randomizers
  <2> HIDE DEF x
  <2>4. sig' \in [Threads -> Buffers] /\ sig'[t][0] = x
        /\ \A u \in Threads \ {t} : sig'[u] = sig[u]
    BY <1>0, <2>2, <2>3, BufferTypes DEF TypeOK, Buffers
  <2>5. TypeOK'
    BY <1>0, <1>u, <2>2, <2>4, CapAssumption DEF TypeOK, grind, chain, PCs
  <2>6. Others(t)  BY <1>0, <1>u, <2>2, <2>4 DEF TypeOK, Others, grind, chain
  <2>7. /\ pc'[t] = "grind" /\ args'[t] = a /\ ctr'[t] = 0 /\ attempts'[t] = 0
        /\ seed'[t] = seed[t] /\ stats'[t] = stats[t] /\ published'[t] = FALSE
        /\ g_random_data'[t] = g_random_data[t] /\ g_sign_stats'[t] = g_sign_stats[t]
        /\ g_random_source_failed'[t] = FALSE
    BY <1>0, <1>u, <1>1, <2>2 DEF TypeOK, grind, chain
  <2>8. CallOK("grind", a)  BY <1>1, <1>4 DEF CallOK, Keyed, Searching, Verifying, SignOps
  <2>9. TlsOK(t, "grind", a, g_random_data[t], g_sign_stats[t])
    BY <1>0, <1>4 DEF Mine, TlsOK, SigningFrame
  <2>10. SeedOK("grind", a, seed[t], FALSE)  BY DEF SeedOK, Searching, Verifying
  <2>11. \A ly, rt, cn, mx : SignOK("grind", a, sig'[t], 0, 0, ly, rt, cn, mx)
    <3>1. Salted(a, sig'[t], 0)  BY <2>4, CapAssumption DEF Salted, x
    <3>2. NoSaltBelow(a, 0)  BY DEF NoSaltBelow
    <3> QED  BY <3>1, <3>2 DEF SignOK, Searching
  <2>12. \A b, sl, r : WipeOK("grind", a, b, sl, r, FALSE)  BY DEF WipeOK
  <2>13. \A b, c, ly, rt, cn, r : StatsOK("grind", a, stats[t]["caller"], b, c, ly, rt, cn, r)
    BY <1>2 DEF StatsOK, Verifying
  <2> HIDE DEF a
  <2>14. Mine(t)'
    BY <2>7, <2>8, <2>9, <2>10, <2>11, <2>12, <2>13, NotVerifying, NoOutcome
    DEF Mine, Searching, Verifying
  <2> QED  BY <2>5, <2>6, <2>14, Frame
<1> QED  BY <1>1, <1>3, <1>4

LEMMA GrindInv == ASSUME NEW t \in Threads, IInv, Grind(t) PROVE IInv'
<1> DEFINE a == args[t]
           n == ctr[t] + 1
           st == stats[t]["caller"]
<1>0. TypeOK /\ Mine(t) /\ pc[t] = "grind"  BY DEF IInv, Grind
<1>1. a \in Calls /\ a.op \in SignOps /\ a.bad = {} /\ a.key \in ValidKeys
      /\ published[t] = FALSE /\ ~g_random_source_failed[t] /\ a.op # "crypto_sign"
  BY <1>0 DEF Mine, CallOK, Keyed, WipeOK, SeedOK, SignOps
<1>2. /\ Salted(a, sig[t], ctr[t]) /\ attempts[t] = ctr[t] /\ NoSaltBelow(a, ctr[t])
      /\ ctr[t] \in 0 .. FORSC_MAX_GRIND_ATTEMPTS - 1
  BY <1>0 DEF Mine, SignOK, Salted
<1>3. PathOf(t) = SaltedPath(a.key, a.msg, ctr[t])
  BY <1>2 DEF PathOf, SaltedPath, Salted, Key, Msg
<1>4. (~a.stats => st = StaleStats) /\ (a.stats => st = FreshStats)  BY <1>0 DEF Mine, StatsOK
<1>5. g_sign_stats[t] = Ptr(t, Slot(a))  BY <1>0, <1>1 DEF Mine, TlsOK, SigningFrame
<1>6. n \in Nat /\ n <= FORSC_MAX_GRIND_ATTEMPTS /\ attempts' = [attempts EXCEPT ![t] = n]
  BY <1>2, CapAssumption DEF Grind
<1>u. UNCHANGED <<args, tls, seed, chain, published>>  BY DEF Grind
<1>7. CASE ForscZero(PathOf(t))
  <2> DEFINE old == stats[t][Slot(a)]
             w == WithForscAttempts(old, n)
  <2>1. /\ LET p == g_sign_stats[t]
           IN  stats' = IF p = NULL THEN stats ELSE [stats EXCEPT ![p.owner][p.slot] = w]
        /\ pc' = [pc EXCEPT ![t] = "fors"]
        /\ UNCHANGED <<sig, siglen, ctr, result>>
    <3>1. g_sign_stats[t].owner = t /\ g_sign_stats[t].slot = Slot(a)  BY <1>5 DEF Ptr
    <3> QED  BY <1>2, <1>7, <3>1 DEF Grind, Record, Goto, Tls
  <2>2. Slot(a) \in Slots /\ (a.stats => Slot(a) = "caller")  BY DEF Slot, Slots
  <2>3. w \in StatsRecords  BY <1>0, <1>6, <2>2, StatsTypes DEF TypeOK
  <2>4. a.stats => w = WithForscAttempts(FreshStats, n)  BY <1>4, <2>2
  <2> HIDE DEF w
  <2>5. /\ stats' \in [Threads -> [Slots -> StatsRecords]]
        /\ \A u \in Threads \ {t} : stats'[u] = stats[u]
        /\ stats'[t]["caller"] = IF a.stats THEN w ELSE st
    BY <1>0, <1>1, <1>5, <2>1, <2>3, RecordWrites
  <2>6. TypeOK'  BY <1>0, <1>u, <1>6, <2>1, <2>5 DEF TypeOK, tls, chain, PCs
  <2>7. Others(t)  BY <1>0, <1>u, <1>6, <2>1, <2>5 DEF TypeOK, Others, tls, chain
  <2>8. /\ pc'[t] = "fors" /\ args'[t] = a /\ ctr'[t] = ctr[t] /\ sig'[t] = sig[t]
        /\ seed'[t] = seed[t] /\ published'[t] = FALSE
        /\ g_random_data'[t] = g_random_data[t] /\ g_sign_stats'[t] = g_sign_stats[t]
        /\ g_random_source_failed'[t] = g_random_source_failed[t]
    BY <1>0, <1>1, <1>u, <2>1 DEF TypeOK, tls, chain
  <2>9. CallOK("fors", a)  BY <1>1 DEF CallOK, Keyed, Searching, Verifying, SignOps
  <2>10. TlsOK(t, "fors", a, g_random_data[t], g_sign_stats[t])
    BY <1>0, <1>1 DEF Mine, TlsOK, SigningFrame
  <2>11. SeedOK("fors", a, seed[t], g_random_source_failed[t])
    BY <1>1 DEF SeedOK, Searching, Verifying
  <2>12. \A att, ly, rt, cn, mx : SignOK("fors", a, sig[t], ctr[t], att, ly, rt, cn, mx)
    <3>1. FirstSalt(a.key, a.msg, ctr[t])  BY <1>2, <1>3, <1>7 DEF FirstSalt, NoSaltBelow
    <3> QED  BY <1>2, <3>1 DEF SignOK, Searching
  <2>13. \A b, sl, r : WipeOK("fors", a, b, sl, r, FALSE)  BY DEF WipeOK
  <2>14. \A b, ly, rt, cn, r : StatsOK("fors", a, stats'[t]["caller"], b, ctr[t], ly, rt, cn, r)
    BY <1>4, <2>4, <2>5 DEF StatsOK, Verifying
  <2> HIDE DEF a
  <2>15. Mine(t)'
    BY <2>8, <2>9, <2>10, <2>11, <2>12, <2>13, <2>14, NotVerifying, NoOutcome
    DEF Mine, Searching, Verifying
  <2> QED  BY <2>6, <2>7, <2>15, Frame
<1>8. CASE ~ForscZero(PathOf(t)) /\ n >= FORSC_MAX_GRIND_ATTEMPTS
  <2> DEFINE old == stats[t][Slot(a)]
             w == WithCap(WithForscAttempts(old, n), "FORSC")
  <2>1. /\ LET p == g_sign_stats[t]
           IN  stats' = IF p = NULL THEN stats ELSE [stats EXCEPT ![p.owner][p.slot] = w]
        /\ pc' = [pc EXCEPT ![t] = "slh_close"]
        /\ siglen' = [siglen EXCEPT ![t] = 0]
        /\ result' = [result EXCEPT ![t] = "LIMIT"]
        /\ UNCHANGED <<sig, ctr>>
    <3>1. g_sign_stats[t].owner = t /\ g_sign_stats[t].slot = Slot(a)  BY <1>5 DEF Ptr
    <3>2. attempts[t] + 1 = n /\ ~(attempts[t] + 1 < FORSC_MAX_GRIND_ATTEMPTS)
      BY <1>2, <1>6, <1>8, CapAssumption
    <3>3. /\ pc' = [pc EXCEPT ![t] = "slh_close"]
          /\ siglen' = [siglen EXCEPT ![t] = 0]
          /\ result' = [result EXCEPT ![t] = "LIMIT"]
          /\ UNCHANGED <<sig, ctr>>
      BY <1>1, <1>8, <3>2 DEF Grind, Goto, SignatureFails, SignatureCaller, Op
    <3>4. LET p == g_sign_stats[t]
          IN  stats' = IF p = NULL THEN stats ELSE [stats EXCEPT ![p.owner][p.slot] = w]
      BY <1>8, <3>1, <3>2 DEF Grind, Record, Tls
    <3> QED  BY <3>3, <3>4
  <2>2. Slot(a) \in Slots /\ (a.stats => Slot(a) = "caller")  BY DEF Slot, Slots
  <2>3. w \in StatsRecords
    <3>1. "FORSC" \in LimitBits  BY DEF LimitBits
    <3> QED  BY <1>0, <1>6, <2>2, <3>1, StatsTypes DEF TypeOK
  <2>4. n = FORSC_MAX_GRIND_ATTEMPTS  BY <1>6, <1>8, CapAssumption
  <2>5. \A b : a.stats => StatsTell(w, b, "LIMIT")  BY <1>4, <2>2, <2>4, ForscLimitStats
  <2> HIDE DEF w
  <2>6. /\ stats' \in [Threads -> [Slots -> StatsRecords]]
        /\ \A u \in Threads \ {t} : stats'[u] = stats[u]
        /\ stats'[t]["caller"] = IF a.stats THEN w ELSE st
    BY <1>0, <1>1, <1>5, <2>1, <2>3, RecordWrites
  <2>7. TypeOK'  BY <1>0, <1>u, <1>6, <2>1, <2>6 DEF TypeOK, tls, chain, PCs, Results
  <2>8. Others(t)  BY <1>0, <1>u, <1>6, <2>1, <2>6 DEF TypeOK, Others, tls, chain
  <2>9. /\ pc'[t] = "slh_close" /\ args'[t] = a /\ result'[t] = "LIMIT"
        /\ seed'[t] = seed[t] /\ published'[t] = FALSE
        /\ g_random_data'[t] = g_random_data[t] /\ g_sign_stats'[t] = g_sign_stats[t]
        /\ g_random_source_failed'[t] = g_random_source_failed[t]
    BY <1>0, <1>1, <1>u, <2>1 DEF TypeOK, tls, chain
  <2>10. CallOK("slh_close", a)  BY <1>1 DEF CallOK, Keyed, Searching, Verifying, SignOps
  <2>11. TlsOK(t, "slh_close", a, g_random_data[t], g_sign_stats[t])
    BY <1>0, <1>1 DEF Mine, TlsOK, SigningFrame
  <2>12. SeedOK("slh_close", a, seed[t], g_random_source_failed[t])
    BY <1>1 DEF SeedOK, Searching, Verifying
  <2>13. \A b, sl : OutcomeOK("slh_close", a, b, sl, "LIMIT", FALSE)
    <3>1. NoSaltBelow(a, FORSC_MAX_GRIND_ATTEMPTS)
      <4>1. ASSUME NEW j \in 0 .. FORSC_MAX_GRIND_ATTEMPTS - 1
            PROVE  ~ForscZero(SaltedPath(a.key, a.msg, j))
        <5>1. CASE j = ctr[t]  BY <1>3, <1>8, <5>1
        <5>2. CASE j # ctr[t]
          <6>1. j \in 0 .. ctr[t] - 1  BY <1>2, <2>4, <5>2, CapAssumption
          <6> QED  BY <1>2, <6>1 DEF NoSaltBelow
        <5> QED  BY <5>1, <5>2
      <4> QED  BY <4>1 DEF NoSaltBelow
    <3>2. ~Signable(a.key, a.msg)  BY <3>1, NoSaltNoSignature
    <3> QED  BY <3>2 DEF OutcomeOK, Signed, Verifying
  <2>14. \A b, sl, r : WipeOK("slh_close", a, b, sl, r, FALSE)  BY DEF WipeOK
  <2>15. \A b, c, ly, rt, cn :
            StatsOK("slh_close", a, stats'[t]["caller"], b, c, ly, rt, cn, "LIMIT")
    BY <1>4, <2>5, <2>6 DEF StatsOK, Verifying
  <2> HIDE DEF a
  <2>16. Mine(t)'
    BY <2>9, <2>10, <2>11, <2>12, <2>13, <2>14, <2>15, NotVerifying, NotSigning
    DEF Mine, Searching, Verifying
  <2> QED  BY <2>7, <2>8, <2>16, Frame
<1>9. CASE ~ForscZero(PathOf(t)) /\ n < FORSC_MAX_GRIND_ATTEMPTS
  <2>1. n % CTR_MODULUS = n /\ n # 0
    <3>1. n \in 0 .. CTR_MODULUS - 1 /\ CTR_MODULUS \in Nat \ {0} /\ n # 0
      BY <1>2, <1>6, <1>9, CapAssumption
    <3> QED  BY <3>1, SMT
  <2> DEFINE x == Salt(a.key, a.msg, Seed(a.key, a.msg), n)
  <2>2. /\ ctr' = [ctr EXCEPT ![t] = n]
        /\ sig' = [sig EXCEPT ![t][0] = Tweak(sig[t][0], n)]
        /\ UNCHANGED <<pc, siglen, result, stats>>
    <3>1. attempts[t] + 1 = n /\ ~(attempts[t] + 1 >= FORSC_MAX_GRIND_ATTEMPTS)
      BY <1>2, <1>6, <1>9, CapAssumption
    <3>2. (ctr[t] + 1) % CTR_MODULUS = n  BY <2>1
    <3>3. ctr' = [ctr EXCEPT ![t] = n]  BY <1>9, <3>1, <3>2 DEF Grind
    <3>4. UNCHANGED <<pc, siglen, result, stats>>  BY <1>9, <2>1, <3>1, <3>2 DEF Grind
    <3>5. sig' = [sig EXCEPT ![t][0] = Tweak(sig[t][0], n)]
      BY <1>9, <2>1, <3>1, <3>2 DEF Grind
    <3> QED  BY <3>3, <3>4, <3>5
  <2>3. Tweak(sig[t][0], n) = x  BY <1>2 DEF Tweak, Salted, Salt
  <2>4. x \in Contents  BY <1>1, <1>6, TermTypes, ContentTypes DEF Calls, Randomizers
  <2>5. sig' = [sig EXCEPT ![t][0] = x]  BY <2>2, <2>3
  <2> HIDE DEF x
  <2>6. sig' \in [Threads -> Buffers] /\ sig'[t][0] = x
        /\ \A u \in Threads \ {t} : sig'[u] = sig[u]
    BY <1>0, <2>4, <2>5, BufferTypes DEF TypeOK, Buffers
  <2>7. n \in 0 .. CTR_MODULUS - 1 /\ n \in 0 .. FORSC_MAX_GRIND_ATTEMPTS - 1
    BY <1>6, <1>9, CapAssumption
  <2> HIDE DEF n
  <2>8. TypeOK'
    BY <1>0, <1>u, <1>6, <2>2, <2>6, <2>7, CapAssumption DEF TypeOK, tls, chain, PCs
  <2>9. Others(t)  BY <1>0, <1>u, <1>6, <2>2, <2>6 DEF TypeOK, Others, tls, chain
  <2>10. /\ pc'[t] = "grind" /\ args'[t] = a /\ ctr'[t] = n /\ attempts'[t] = n
         /\ seed'[t] = seed[t] /\ published'[t] = FALSE /\ stats'[t] = stats[t]
         /\ g_random_data'[t] = g_random_data[t] /\ g_sign_stats'[t] = g_sign_stats[t]
         /\ g_random_source_failed'[t] = g_random_source_failed[t]
    BY <1>0, <1>1, <1>u, <1>6, <2>2 DEF TypeOK, tls, chain
  <2>11. \A ly, rt, cn, mx : SignOK("grind", a, sig'[t], n, n, ly, rt, cn, mx)
    <3>1. Salted(a, sig'[t], n)  BY <2>6, <2>7 DEF Salted, x
    <3>2. NoSaltBelow(a, n)
      <4>1. ASSUME NEW j \in 0 .. n - 1 PROVE ~ForscZero(SaltedPath(a.key, a.msg, j))
        <5>1. CASE j = ctr[t]  BY <1>3, <1>9, <5>1
        <5>2. CASE j # ctr[t]
          <6>1. j \in 0 .. ctr[t] - 1  BY <1>2, <5>2, CapAssumption DEF n
          <6> QED  BY <1>2, <6>1 DEF NoSaltBelow
        <5> QED  BY <5>1, <5>2
      <4> QED  BY <4>1 DEF NoSaltBelow
    <3> QED  BY <3>1, <3>2 DEF SignOK, Searching
  <2>12. \A b, sl, r : WipeOK("grind", a, b, sl, r, FALSE)  BY DEF WipeOK
  <2>13. \A b, c, ly, rt, cn, r : StatsOK("grind", a, st, b, c, ly, rt, cn, r)
    BY <1>4 DEF StatsOK, Verifying
  <2>14. CallOK("grind", a) /\ TlsOK(t, "grind", a, g_random_data[t], g_sign_stats[t])
         /\ SeedOK("grind", a, seed[t], g_random_source_failed[t])
    BY <1>0 DEF Mine
  <2> HIDE DEF a
  <2>15. Mine(t)'
    BY <2>10, <2>11, <2>12, <2>13, <2>14, NotVerifying, NoOutcome
    DEF Mine, Searching, Verifying
  <2> QED  BY <2>8, <2>9, <2>15, Frame
<1> QED  BY <1>6, <1>7, <1>8, <1>9, CapAssumption

LEMMA SignForsInv == ASSUME NEW t \in Threads, IInv, SignFors(t) PROVE IInv'
<1> DEFINE a == args[t]
           c == ctr[t]
           p == SaltedPath(a.key, a.msg, c)
           st == stats[t]["caller"]
<1>0. TypeOK /\ Mine(t) /\ pc[t] = "fors"  BY DEF IInv, SignFors
<1>1. a \in Calls /\ a.op \in SignOps /\ a.bad = {} /\ a.key \in ValidKeys
      /\ published[t] = FALSE /\ ~g_random_source_failed[t]
  BY <1>0 DEF Mine, CallOK, Keyed, WipeOK, SeedOK
<1>2. Salted(a, sig[t], c) /\ FirstSalt(a.key, a.msg, c) /\ c \in Nat
  BY <1>0, CapAssumption DEF Mine, SignOK, Salted
<1>3. PathOf(t) = p  BY <1>2 DEF PathOf, SaltedPath, Salted, Key, Msg
<1>4. (~a.stats => st = StaleStats) /\ (a.stats => st = WithForscAttempts(FreshStats, c + 1))
  BY <1>0 DEF Mine, StatsOK
<1>5. a.key \in Keys /\ a.msg \in Messages  BY <1>1 DEF Calls
<1>6. p \in Paths /\ p \in Contents  BY <1>2, <1>5, TermTypes, ContentTypes
<1>7. 0 \in 0 .. SPX_D /\ 0 \in Layers /\ Root(p, 0) \in Roots
  BY <1>6, NodeTypes, CapAssumption DEF Layers
<1>8. /\ sig' = [sig EXCEPT ![t][1] = p]
      /\ root' = [root EXCEPT ![t] = Root(p, 0)]
      /\ layer' = [layer EXCEPT ![t] = 0]
      /\ pc' = [pc EXCEPT ![t] = "s_open"]
      /\ UNCHANGED <<args, tls, seed, stats, siglen, grind, counter, max_counter,
                     result, published>>
  BY <1>3 DEF SignFors, Goto
<1> HIDE DEF p
<1>9. /\ sig' \in [Threads -> Buffers] /\ sig'[t][1] = p /\ sig'[t][0] = sig[t][0]
      /\ \A u \in Threads \ {t} : sig'[u] = sig[u]
  BY <1>0, <1>6, <1>8, BufferTypes DEF TypeOK, Buffers
<1>10. TypeOK'  BY <1>0, <1>7, <1>8, <1>9 DEF TypeOK, tls, grind, PCs
<1>11. Others(t)  BY <1>0, <1>8, <1>9 DEF TypeOK, Others, tls, grind
<1>12. /\ pc'[t] = "s_open" /\ args'[t] = a /\ ctr'[t] = c /\ layer'[t] = 0
       /\ root'[t] = Root(p, 0)
       /\ seed'[t] = seed[t] /\ published'[t] = FALSE /\ stats'[t] = stats[t]
       /\ g_random_data'[t] = g_random_data[t] /\ g_sign_stats'[t] = g_sign_stats[t]
       /\ g_random_source_failed'[t] = g_random_source_failed[t]
  BY <1>0, <1>1, <1>8 DEF TypeOK, tls, grind
<1> HIDE DEF c
<1>13. CallOK("s_open", a)  BY <1>1 DEF CallOK, Keyed, Searching, Verifying, SignOps
<1>14. TlsOK(t, "s_open", a, g_random_data[t], g_sign_stats[t])
  BY <1>0, <1>1 DEF Mine, TlsOK, SigningFrame
<1>15. SeedOK("s_open", a, seed[t], g_random_source_failed[t])
  BY <1>1 DEF SeedOK, Searching, Verifying
<1>16. \A att, cn, mx : SignOK("s_open", a, sig'[t], c, att, 0, Root(p, 0), cn, mx)
  <2>1. Salted(a, sig'[t], c)  BY <1>2, <1>9 DEF Salted
  <2>2. LayersDone(sig'[t], p, 0, WOTSC_MAX_COUNTER)
    BY <1>2, <1>9 DEF LayersDone, Salted, SaltedPath, Path, p
  <2> QED  BY <1>2, <1>7, <2>1, <2>2 DEF SignOK, Searching, p
<1>17. \A b, sl, r : WipeOK("s_open", a, b, sl, r, FALSE)  BY DEF WipeOK
<1>18. \A b, rt, cn, r : StatsOK("s_open", a, st, b, c, 0, rt, cn, r)
  <2>1. \A b : a.stats => StatsSoFar(st, b, c, 0)
    <3>1. c + 1 \in Nat /\ FreshStats \in StatsRecords  BY <1>2, StatsTypes
    <3>2. ASSUME a.stats PROVE \A b : StatsSoFar(st, b, c, 0)
      <4>1. /\ st.forsc_max_attempts = FORSC_MAX_GRIND_ATTEMPTS
            /\ st.wotsc_max_attempts = WOTSC_MAX_COUNTER + 1 /\ st.cap_exceeded = {}
            /\ st.forsc_attempts = c + 1 /\ st.wotsc_layer_count = 0
            /\ st.wotsc_max_observed_attempts = 0
        BY <1>4, <3>1, <3>2, ForscRecord DEF FreshStats
      <4> QED  BY <4>1, CapAssumption DEF StatsSoFar
    <3> QED  BY <3>2
  <2> QED  BY <1>4, <2>1 DEF StatsOK, Verifying
<1> HIDE DEF a
<1>19. Mine(t)'
  BY <1>12, <1>13, <1>14, <1>15, <1>16, <1>17, <1>18, NotVerifying, NoOutcome
  DEF Mine, Searching, Verifying
<1> QED  BY <1>10, <1>11, <1>19, Frame

\* merkle_sign opens a search up to the cap: the statistics are attached.
LEMMA SignSearchOpenInv ==
    ASSUME NEW t \in Threads, IInv, SearchOpen(t), pc[t] = "s_open" PROVE IInv'
<1> DEFINE a == args[t]
<1>0. TypeOK /\ Mine(t)  BY DEF IInv
<1>1. a \in Calls /\ a.op \in SignOps /\ published[t] = FALSE
  BY <1>0 DEF Mine, CallOK, Keyed, Searching, WipeOK
<1>2. SearchLimit(t) = WOTSC_MAX_COUNTER
  <2>1. g_sign_stats[t] = Ptr(t, Slot(a))  BY <1>0, <1>1 DEF Mine, TlsOK, SigningFrame
  <2>2. g_sign_stats[t] # NULL
    BY <2>1, NullAssumption DEF Ptr, StatsPtrs, Slot, Slots
  <2> QED  BY <2>2 DEF SearchLimit, Tls
<1>3. /\ counter' = [counter EXCEPT ![t] = 0]
      /\ max_counter' = [max_counter EXCEPT ![t] = WOTSC_MAX_COUNTER]
      /\ pc' = [pc EXCEPT ![t] = "s_try"]
      /\ UNCHANGED <<args, tls, seed, stats, sig, siglen, grind, layer, root, result,
                     published>>
  BY <1>2 DEF SearchOpen, Goto
<1>4. TypeOK'  BY <1>0, <1>3, CapAssumption DEF TypeOK, tls, grind, PCs
<1>5. Others(t)  BY <1>0, <1>3 DEF TypeOK, Others, tls, grind
<1>6. /\ pc'[t] = "s_try" /\ counter'[t] = 0 /\ max_counter'[t] = WOTSC_MAX_COUNTER
      /\ UNCHANGED <<args, g_random_data, g_sign_stats, g_random_source_failed, seed, stats,
                     sig, siglen, ctr, attempts, layer, root, result, published>>
  BY <1>0, <1>3 DEF TypeOK, tls, grind
<1>7. CallOK("s_try", a)  BY <1>0 DEF Mine, CallOK, Keyed, Searching, Verifying
<1>8. TlsOK(t, "s_try", a, g_random_data[t], g_sign_stats[t])
  BY <1>0, <1>1 DEF Mine, TlsOK, SigningFrame
<1>9. SeedOK("s_try", a, seed[t], g_random_source_failed[t])
  BY <1>0 DEF Mine, SeedOK, Searching, Verifying
<1>10. SignOK("s_try", a, sig[t], ctr[t], attempts[t], layer[t], root[t], 0, WOTSC_MAX_COUNTER)
  <2>1. 0 \in 0 .. WOTSC_MAX_COUNTER /\ NoCounterBelow(root[t], 0)
    BY CapAssumption DEF NoCounterBelow
  <2> QED  BY <1>0, <2>1 DEF Mine, SignOK, Searching
<1>11. WipeOK("s_try", a, sig[t], siglen[t], result[t], published[t])  BY <1>1 DEF WipeOK
<1>12. StatsOK("s_try", a, stats[t]["caller"], sig[t], ctr[t], layer[t], root[t], 0, result[t])
  BY <1>0 DEF Mine, StatsOK, Verifying
<1> HIDE DEF a
<1>13. Mine(t)'
  BY <1>6, <1>7, <1>8, <1>9, <1>10, <1>11, <1>12, NotVerifying, NoOutcome
  DEF Mine, Searching, Verifying, a
<1> QED  BY <1>4, <1>5, <1>13, Frame

\* wots_pk_from_sig opens one over the whole two-byte range: nothing is attached.
LEMMA VerifySearchOpenInv ==
    ASSUME NEW t \in Threads, IInv, SearchOpen(t), pc[t] = "v_open" PROVE IInv'
<1> DEFINE a == args[t]
<1>0. TypeOK /\ Mine(t)  BY DEF IInv
<1>1. published[t] = FALSE /\ g_sign_stats[t] = NULL
  BY <1>0 DEF Mine, WipeOK, TlsOK, SigningFrame
<1>2. SearchLimit(t) = WOTSC_COUNTER_LIMIT  BY <1>1 DEF SearchLimit, Tls
<1>3. /\ counter' = [counter EXCEPT ![t] = 0]
      /\ max_counter' = [max_counter EXCEPT ![t] = WOTSC_COUNTER_LIMIT]
      /\ pc' = [pc EXCEPT ![t] = "v_try"]
      /\ UNCHANGED <<args, tls, seed, stats, sig, siglen, grind, layer, root, result,
                     published>>
  BY <1>2 DEF SearchOpen, Goto
<1>4. TypeOK'  BY <1>0, <1>3, CapAssumption DEF TypeOK, tls, grind, PCs
<1>5. Others(t)  BY <1>0, <1>3 DEF TypeOK, Others, tls, grind
<1>6. /\ pc'[t] = "v_try" /\ counter'[t] = 0 /\ max_counter'[t] = WOTSC_COUNTER_LIMIT
      /\ UNCHANGED <<args, g_random_data, g_sign_stats, g_random_source_failed, seed, stats,
                     sig, siglen, ctr, attempts, layer, root, result, published>>
  BY <1>0, <1>3 DEF TypeOK, tls, grind
<1>7. CallOK("v_try", a)  BY <1>0 DEF Mine, CallOK, Keyed, Searching, Verifying
<1>8. TlsOK(t, "v_try", a, g_random_data[t], g_sign_stats[t])
  BY <1>0 DEF Mine, TlsOK, SigningFrame
<1>9. SeedOK("v_try", a, seed[t], g_random_source_failed[t])
  BY <1>0 DEF Mine, SeedOK, Searching, Verifying
<1>10. VerifyOK("v_try", a, sig[t], siglen[t], layer[t], root[t], 0, WOTSC_COUNTER_LIMIT,
                result[t])
  <2>1. 0 \in 0 .. WOTSC_COUNTER_LIMIT /\ NoCounterBelow(root[t], 0)
    BY CapAssumption DEF NoCounterBelow
  <2> QED  BY <1>0, <2>1 DEF Mine, VerifyOK, Verifying
<1>11. WipeOK("v_try", a, sig[t], siglen[t], result[t], published[t])  BY <1>1 DEF WipeOK
<1>12. OutcomeOK("v_try", a, sig[t], siglen[t], result[t], published[t])
  BY <1>0 DEF Mine, OutcomeOK, Verifying
<1>13. StatsOK("v_try", a, stats[t]["caller"], sig[t], ctr[t], layer[t], root[t], 0, result[t])
  BY <1>0 DEF Mine, StatsOK, Verifying
<1> HIDE DEF a
<1>14. Mine(t)'
  BY <1>6, <1>7, <1>8, <1>9, <1>10, <1>11, <1>12, <1>13, NotSigning
  DEF Mine, Searching, a
<1> QED  BY <1>4, <1>5, <1>14, Frame

LEMMA SignSearchTryInv ==
    ASSUME NEW t \in Threads, IInv, SearchTry(t), pc[t] = "s_try" PROVE IInv'
<1> DEFINE a == args[t]
           c == ctr[t]
           cn == counter[t]
           ly == layer[t]
           rt == root[t]
           st == stats[t]["caller"]
           old == stats[t][Slot(a)]
<1>0. TypeOK /\ Mine(t)  BY DEF IInv
<1>1. a \in Calls /\ a.op \in SignOps /\ a.bad = {} /\ a.key \in ValidKeys
      /\ published[t] = FALSE /\ ~g_random_source_failed[t] /\ a.op # "crypto_sign"
  BY <1>0 DEF Mine, CallOK, Keyed, Searching, WipeOK, SeedOK, SignOps
<1>2. /\ Salted(a, sig[t], c) /\ FirstSalt(a.key, a.msg, c) /\ c \in Nat
      /\ ly \in Layers /\ rt = Root(SaltedPath(a.key, a.msg, c), ly)
      /\ LayersDone(sig[t], SaltedPath(a.key, a.msg, c), ly, WOTSC_MAX_COUNTER)
      /\ max_counter[t] = WOTSC_MAX_COUNTER /\ cn \in 0 .. WOTSC_MAX_COUNTER
      /\ NoCounterBelow(rt, cn)
  BY <1>0, CapAssumption DEF Mine, SignOK, Searching, Salted
<1>3. (~a.stats => st = StaleStats) /\ (a.stats => StatsSoFar(st, sig[t], c, ly))
  BY <1>0 DEF Mine, StatsOK
<1>4. g_sign_stats[t] = Ptr(t, Slot(a))  BY <1>0, <1>1 DEF Mine, TlsOK, SigningFrame
<1>5. g_sign_stats[t].owner = t /\ g_sign_stats[t].slot = Slot(a)  BY <1>4 DEF Ptr
<1>6. Slot(a) \in Slots /\ (a.stats => Slot(a) = "caller")  BY DEF Slot, Slots
<1>7. old \in StatsRecords /\ sig[t] \in Buffers /\ (a.stats => old = st)
  BY <1>0, <1>6 DEF TypeOK
<1>8. cn \in Nat /\ cn + 1 \in Nat /\ cn + 1 <= WOTSC_MAX_COUNTER + 1
  BY <1>2, CapAssumption
<1>u. UNCHANGED <<args, tls, seed, sig, grind, layer, root, max_counter, published>>
  BY DEF SearchTry
<1>9. CASE WotscHit(rt, cn)
  <2> DEFINE w == WithWotscAttempts(old, cn + 1)
  <2>1. /\ pc' = [pc EXCEPT ![t] = "s_layer"]
        /\ UNCHANGED <<counter, siglen, result>>
    BY <1>9 DEF SearchTry, Goto
  <2>2. LET p == g_sign_stats[t]
        IN  stats' = IF p = NULL THEN stats ELSE [stats EXCEPT ![p.owner][p.slot] = w]
    BY <1>5, <1>9 DEF SearchTry, Record, Tls
  <2>3. w \in StatsRecords  BY <1>7, <1>8, StatsTypes
  <2>4. a.stats => StatsSoFar(w, [sig[t] EXCEPT ![ly + 2] = LayerSig(rt, cn)], c, ly + 1)
    BY <1>2, <1>3, <1>7, LayerStats
  <2> HIDE DEF w
  <2>5. /\ stats' \in [Threads -> [Slots -> StatsRecords]]
        /\ \A u \in Threads \ {t} : stats'[u] = stats[u]
        /\ stats'[t]["caller"] = IF a.stats THEN w ELSE st
    BY <1>0, <1>1, <1>4, <2>2, <2>3, RecordWrites
  <2>6. TypeOK'  BY <1>0, <1>u, <2>1, <2>5 DEF TypeOK, tls, grind, PCs
  <2>7. Others(t)  BY <1>0, <1>u, <2>1, <2>5 DEF TypeOK, Others, tls, grind
  <2>8. /\ pc'[t] = "s_layer"
        /\ UNCHANGED <<args, g_random_data, g_sign_stats, g_random_source_failed, seed, sig,
                       siglen, ctr, attempts, layer, root, counter, max_counter, result,
                       published>>
    BY <1>0, <1>u, <2>1 DEF TypeOK, tls, grind
  <2>9. CallOK("s_layer", a)  BY <1>0 DEF Mine, CallOK, Keyed, Searching, Verifying
  <2>10. TlsOK(t, "s_layer", a, g_random_data[t], g_sign_stats[t])
    BY <1>0, <1>1 DEF Mine, TlsOK, SigningFrame
  <2>11. SeedOK("s_layer", a, seed[t], g_random_source_failed[t])
    BY <1>1 DEF SeedOK, Searching, Verifying
  <2>12. \A att, mx : SignOK("s_layer", a, sig[t], c, att, ly, rt, cn, mx)
    <3>1. FirstCounter(rt, cn)  BY <1>2, <1>8, <1>9, SearchFinds
    <3> QED  BY <1>2, <3>1 DEF SignOK, Searching
  <2>13. \A b, sl, r : WipeOK("s_layer", a, b, sl, r, FALSE)  BY DEF WipeOK
  <2>14. \A r : StatsOK("s_layer", a, stats'[t]["caller"], sig[t], c, ly, rt, cn, r)
    BY <1>3, <2>4, <2>5 DEF StatsOK, Verifying
  <2> HIDE DEF a
  <2>15. Mine(t)'
    BY <1>1, <2>8, <2>9, <2>10, <2>11, <2>12, <2>13, <2>14, NotVerifying, NoOutcome
    DEF Mine, Searching, Verifying, a
  <2> QED  BY <2>6, <2>7, <2>15, Frame
<1>10. CASE ~WotscHit(rt, cn) /\ cn = WOTSC_MAX_COUNTER
  <2> DEFINE w == WithCap(WithWotscAttempts(old, cn + 1), "WOTSC")
  <2>1. SearchDone(t)  BY <1>2, <1>10 DEF SearchDone
  <2>2. /\ pc' = [pc EXCEPT ![t] = "slh_close"]
        /\ siglen' = [siglen EXCEPT ![t] = 0]
        /\ result' = [result EXCEPT ![t] = "LIMIT"]
        /\ UNCHANGED counter
    BY <1>1, <1>10, <2>1 DEF SearchTry, Goto, SignatureFails, SignatureCaller, Op
  <2>3. LET p == g_sign_stats[t]
        IN  stats' = IF p = NULL THEN stats ELSE [stats EXCEPT ![p.owner][p.slot] = w]
    BY <1>5, <1>10, <2>1 DEF SearchTry, Record, Tls
  <2>4. w \in StatsRecords
    <3>1. "WOTSC" \in LimitBits  BY DEF LimitBits
    <3> QED  BY <1>7, <1>8, <3>1, StatsTypes
  <2>5. \A b : a.stats => StatsTell(w, b, "LIMIT")
    BY <1>2, <1>3, <1>7, <1>10, WotscLimitStats
  <2> HIDE DEF w
  <2>6. /\ stats' \in [Threads -> [Slots -> StatsRecords]]
        /\ \A u \in Threads \ {t} : stats'[u] = stats[u]
        /\ stats'[t]["caller"] = IF a.stats THEN w ELSE st
    BY <1>0, <1>1, <1>4, <2>3, <2>4, RecordWrites
  <2>7. TypeOK'  BY <1>0, <1>u, <2>2, <2>6 DEF TypeOK, tls, grind, PCs, Results
  <2>8. Others(t)  BY <1>0, <1>u, <2>2, <2>6 DEF TypeOK, Others, tls, grind
  <2>9. /\ pc'[t] = "slh_close" /\ args'[t] = a /\ result'[t] = "LIMIT"
        /\ seed'[t] = seed[t] /\ published'[t] = FALSE
        /\ g_random_data'[t] = g_random_data[t] /\ g_sign_stats'[t] = g_sign_stats[t]
        /\ g_random_source_failed'[t] = g_random_source_failed[t]
    BY <1>0, <1>1, <1>u, <2>2 DEF TypeOK, tls, grind
  <2>10. CallOK("slh_close", a)  BY <1>1 DEF CallOK, Keyed, Searching, Verifying, SignOps
  <2>11. TlsOK(t, "slh_close", a, g_random_data[t], g_sign_stats[t])
    BY <1>0, <1>1 DEF Mine, TlsOK, SigningFrame
  <2>12. SeedOK("slh_close", a, seed[t], g_random_source_failed[t])
    BY <1>1 DEF SeedOK, Searching, Verifying
  <2>13. \A b, sl : OutcomeOK("slh_close", a, b, sl, "LIMIT", FALSE)
    <3>1. \A x \in 0 .. WOTSC_MAX_COUNTER : ~FirstCounter(rt, x)
      BY <1>2, <1>8, <1>10, SearchExhausted
    <3>2. ~Signable(a.key, a.msg)  BY <1>2, <3>1, NoCounterNoSignature
    <3> QED  BY <3>2 DEF OutcomeOK, Signed, Verifying
  <2>14. \A b, sl, r : WipeOK("slh_close", a, b, sl, r, FALSE)  BY DEF WipeOK
  <2>15. \A b, x, i, y, z : StatsOK("slh_close", a, stats'[t]["caller"], b, x, i, y, z, "LIMIT")
    BY <1>3, <2>5, <2>6 DEF StatsOK, Verifying
  <2> HIDE DEF a
  <2>16. Mine(t)'
    BY <2>9, <2>10, <2>11, <2>12, <2>13, <2>14, <2>15, NotVerifying, NotSigning
    DEF Mine, Searching, Verifying
  <2> QED  BY <2>7, <2>8, <2>16, Frame
<1>11. CASE ~WotscHit(rt, cn) /\ cn # WOTSC_MAX_COUNTER
  <2>1. ~SearchDone(t)  BY <1>2, <1>11 DEF SearchDone
  <2>2. counter' = [counter EXCEPT ![t] = cn + 1] /\ UNCHANGED <<pc, stats, siglen, result>>
    BY <1>11, <2>1 DEF SearchTry, NextCounter
  <2>3. cn + 1 \in 0 .. WOTSC_MAX_COUNTER /\ cn + 1 \in 0 .. WOTSC_COUNTER_LIMIT
    BY <1>2, <1>11, CapAssumption
  <2>4. TypeOK'  BY <1>0, <1>u, <2>2, <2>3 DEF TypeOK, tls, grind
  <2>5. Others(t)  BY <1>0, <1>u, <2>2 DEF TypeOK, Others, tls, grind
  <2>6. /\ counter'[t] = cn + 1
        /\ UNCHANGED <<pc, args, g_random_data, g_sign_stats, g_random_source_failed, seed,
                       stats, sig, siglen, ctr, attempts, layer, root, max_counter, result,
                       published>>
    BY <1>0, <1>u, <2>2 DEF TypeOK, tls, grind
  <2>7. SignOK("s_try", a, sig[t], c, attempts[t], ly, rt, cn + 1, max_counter[t])
    <3>1. NoCounterBelow(rt, cn + 1)  BY <1>2, <1>8, <1>11, SearchGoesOn
    <3> QED  BY <1>2, <2>3, <3>1 DEF SignOK, Searching
  <2>8. \A z : StatsOK("s_try", a, st, sig[t], c, ly, rt, z, result[t])
    BY <1>3 DEF StatsOK, Verifying
  <2>9. Mine(t)'
    BY <1>0, <2>6, <2>7, <2>8, NotVerifying DEF Mine, Verifying
  <2> QED  BY <2>4, <2>5, <2>9, Frame
<1> QED  BY <1>9, <1>10, <1>11

LEMMA VerifySearchTryInv ==
    ASSUME NEW t \in Threads, IInv, SearchTry(t), pc[t] = "v_try" PROVE IInv'
<1> DEFINE a == args[t]
           b == sig[t]
           cn == counter[t]
           ly == layer[t]
           rt == root[t]
           p == Path(b[0], a.key, a.msg)
<1>0. TypeOK /\ Mine(t)  BY DEF IInv
<1>1. published[t] = FALSE /\ g_sign_stats[t] = NULL
  BY <1>0 DEF Mine, WipeOK, TlsOK, SigningFrame
<1>2. /\ b[0] \in Randomizers /\ siglen[t] = SPX_BYTES
      /\ ly \in Layers /\ ForscZero(p)
      /\ \/ rt = Root(p, ly) /\ LayersDone(b, p, ly, WOTSC_COUNTER_LIMIT)
         \/ rt = Garbage /\ ~SignsPath(b, p, WOTSC_COUNTER_LIMIT)
      /\ max_counter[t] = WOTSC_COUNTER_LIMIT /\ cn \in 0 .. WOTSC_COUNTER_LIMIT
      /\ NoCounterBelow(rt, cn) /\ cn \in Nat
  BY <1>0, CapAssumption DEF Mine, VerifyOK, Verifying
<1>u. UNCHANGED <<args, tls, seed, sig, grind, layer, root, max_counter, published>>
  BY DEF SearchTry
<1>3. UNCHANGED stats  BY <1>1 DEF SearchTry, Record, Tls
<1> HIDE DEF p
<1>4. CASE WotscHit(rt, cn)
  <2>1. /\ pc' = [pc EXCEPT ![t] = "v_layer"]
        /\ UNCHANGED <<counter, siglen, result>>
    BY <1>4 DEF SearchTry, Goto
  <2>2. TypeOK'  BY <1>0, <1>u, <1>3, <2>1 DEF TypeOK, tls, grind, PCs
  <2>3. Others(t)  BY <1>0, <1>u, <1>3, <2>1 DEF TypeOK, Others, tls, grind
  <2>4. /\ pc'[t] = "v_layer"
        /\ UNCHANGED <<args, g_random_data, g_sign_stats, g_random_source_failed, seed, stats,
                       sig, siglen, ctr, attempts, layer, root, counter, max_counter, result,
                       published>>
    BY <1>0, <1>u, <1>3, <2>1 DEF TypeOK, tls, grind
  <2>5. CallOK("v_layer", a)  BY <1>0 DEF Mine, CallOK, Keyed, Searching, Verifying
  <2>6. TlsOK(t, "v_layer", a, g_random_data[t], g_sign_stats[t])
    BY <1>0 DEF Mine, TlsOK, SigningFrame
  <2>7. SeedOK("v_layer", a, seed[t], g_random_source_failed[t])
    BY <1>0 DEF Mine, SeedOK, Searching, Verifying
  <2>8. \A mx, r : VerifyOK("v_layer", a, b, siglen[t], ly, rt, cn, mx, r)
    <3>1. FirstCounter(rt, cn)  BY <1>2, <1>4, SearchFinds
    <3> QED  BY <1>2, <3>1 DEF VerifyOK, Verifying, p
  <2>9. \A sl, r : OutcomeOK("v_layer", a, b, sl, r, FALSE)
    BY <1>0 DEF Mine, OutcomeOK, Verifying
  <2>10. \A sl, r : WipeOK("v_layer", a, b, sl, r, FALSE)  BY DEF WipeOK
  <2>11. \A c, i, y, z, r : StatsOK("v_layer", a, stats[t]["caller"], b, c, i, y, z, r)
    BY <1>0 DEF Mine, StatsOK, Verifying
  <2> HIDE DEF a
  <2>12. Mine(t)'
    BY <1>1, <2>4, <2>5, <2>6, <2>7, <2>8, <2>9, <2>10, <2>11, NotSigning
    DEF Mine, Searching, a
  <2> QED  BY <2>2, <2>3, <2>12, Frame
<1>5. CASE ~WotscHit(rt, cn) /\ cn = WOTSC_COUNTER_LIMIT
  <2>1. SearchDone(t)  BY <1>2, <1>5 DEF SearchDone
  <2>2. /\ pc' = [pc EXCEPT ![t] = "v_ret"]
        /\ result' = [result EXCEPT ![t] = "FAIL"]
        /\ UNCHANGED <<siglen, counter>>
    BY <1>5, <2>1 DEF SearchTry, Goto
  <2>3. TypeOK'  BY <1>0, <1>u, <1>3, <2>2 DEF TypeOK, tls, grind, PCs, Results
  <2>4. Others(t)  BY <1>0, <1>u, <1>3, <2>2 DEF TypeOK, Others, tls, grind
  <2>5. /\ pc'[t] = "v_ret" /\ result'[t] = "FAIL"
        /\ UNCHANGED <<args, g_random_data, g_sign_stats, g_random_source_failed, seed, stats,
                       sig, siglen, ctr, attempts, layer, root, counter, max_counter,
                       published>>
    BY <1>0, <1>u, <1>3, <2>2 DEF TypeOK, tls, grind
  <2>6. CallOK("v_ret", a)  BY <1>0 DEF Mine, CallOK, Keyed, Searching, Verifying
  <2>7. TlsOK(t, "v_ret", a, g_random_data[t], g_sign_stats[t])
    BY <1>0 DEF Mine, TlsOK, SigningFrame
  <2>8. SeedOK("v_ret", a, seed[t], g_random_source_failed[t])
    BY <1>0 DEF Mine, SeedOK, Searching, Verifying
  <2>9. \A i, y, z, mx : VerifyOK("v_ret", a, b, siglen[t], i, y, z, mx, "FAIL")
    <3>1. ~SignsPath(b, p, WOTSC_COUNTER_LIMIT)
      <4>1. \A x \in 0 .. WOTSC_COUNTER_LIMIT : ~FirstCounter(rt, x)
        BY <1>2, <1>5, SearchExhausted
      <4> QED  BY <1>2, <4>1, NoLayer
    <3>2. ~Genuine(b, a.key, a.msg)  BY <3>1 DEF Genuine, p
    <3> QED  BY <1>2, <3>2 DEF VerifyOK, Verifying
  <2>10. \A sl, r : OutcomeOK("v_ret", a, b, sl, r, FALSE)
    BY <1>0 DEF Mine, OutcomeOK, Verifying
  <2>11. \A sl, r : WipeOK("v_ret", a, b, sl, r, FALSE)  BY DEF WipeOK
  <2>12. \A c, i, y, z, r : StatsOK("v_ret", a, stats[t]["caller"], b, c, i, y, z, r)
    BY <1>0 DEF Mine, StatsOK, Verifying
  <2> HIDE DEF a
  <2>13. Mine(t)'
    BY <1>1, <2>5, <2>6, <2>7, <2>8, <2>9, <2>10, <2>11, <2>12, NotSigning
    DEF Mine, Searching, a
  <2> QED  BY <2>3, <2>4, <2>13, Frame
<1>6. CASE ~WotscHit(rt, cn) /\ cn # WOTSC_COUNTER_LIMIT
  <2>1. ~SearchDone(t)  BY <1>2, <1>6 DEF SearchDone
  <2>2. counter' = [counter EXCEPT ![t] = cn + 1] /\ UNCHANGED <<pc, siglen, result>>
    BY <1>6, <2>1 DEF SearchTry, NextCounter
  <2>3. cn + 1 \in 0 .. WOTSC_COUNTER_LIMIT  BY <1>2, <1>6, CapAssumption
  <2>4. TypeOK'  BY <1>0, <1>u, <1>3, <2>2, <2>3 DEF TypeOK, tls, grind
  <2>5. Others(t)  BY <1>0, <1>u, <1>3, <2>2 DEF TypeOK, Others, tls, grind
  <2>6. /\ counter'[t] = cn + 1
        /\ UNCHANGED <<pc, args, g_random_data, g_sign_stats, g_random_source_failed, seed,
                       stats, sig, siglen, ctr, attempts, layer, root, max_counter, result,
                       published>>
    BY <1>0, <1>u, <1>3, <2>2 DEF TypeOK, tls, grind
  <2>7. VerifyOK("v_try", a, b, siglen[t], ly, rt, cn + 1, max_counter[t], result[t])
    <3>1. NoCounterBelow(rt, cn + 1)  BY <1>2, <1>6, SearchGoesOn
    <3> QED  BY <1>2, <2>3, <3>1 DEF VerifyOK, Verifying, p
  <2>8. \A c, z : StatsOK("v_try", a, stats[t]["caller"], b, c, ly, rt, z, result[t])
    BY <1>0 DEF Mine, StatsOK, Verifying
  <2>9. Mine(t)'
    BY <1>0, <2>6, <2>7, <2>8, NotSigning DEF Mine, Searching
  <2> QED  BY <2>4, <2>5, <2>9, Frame
<1> QED  BY <1>4, <1>5, <1>6

LEMMA SearchOpenInv == ASSUME NEW t \in Threads, IInv, SearchOpen(t) PROVE IInv'
BY SignSearchOpenInv, VerifySearchOpenInv DEF SearchOpen

LEMMA SearchTryInv == ASSUME NEW t \in Threads, IInv, SearchTry(t) PROVE IInv'
BY SignSearchTryInv, VerifySearchTryInv DEF SearchTry

LEMMA MerkleSignInv == ASSUME NEW t \in Threads, IInv, MerkleSign(t) PROVE IInv'
<1> DEFINE a == args[t]
           c == ctr[t]
           cn == counter[t]
           ly == layer[t]
           rt == root[t]
           p == SaltedPath(a.key, a.msg, c)
           st == stats[t]["caller"]
           b == [sig[t] EXCEPT ![ly + 2] = LayerSig(rt, cn)]
<1>0. TypeOK /\ Mine(t) /\ pc[t] = "s_layer"  BY DEF IInv, MerkleSign
<1>1. a \in Calls /\ a.op \in SignOps /\ a.bad = {} /\ a.key \in ValidKeys
      /\ published[t] = FALSE /\ ~g_random_source_failed[t] /\ a.op # "crypto_sign"
  BY <1>0 DEF Mine, CallOK, Keyed, Searching, WipeOK, SeedOK, SignOps
<1>2. /\ Salted(a, sig[t], c) /\ FirstSalt(a.key, a.msg, c) /\ c \in Nat
      /\ c \in 0 .. FORSC_MAX_GRIND_ATTEMPTS - 1
      /\ ly \in Layers /\ rt = Root(p, ly)
      /\ LayersDone(sig[t], p, ly, WOTSC_MAX_COUNTER)
      /\ cn \in 0 .. WOTSC_MAX_COUNTER /\ FirstCounter(rt, cn)
  BY <1>0, CapAssumption DEF Mine, SignOK, Searching, Salted
<1>3. (~a.stats => st = StaleStats) /\ (a.stats => StatsSoFar(st, b, c, ly + 1))
  BY <1>0 DEF Mine, StatsOK
<1>4. PathOf(t) = p  BY <1>2 DEF PathOf, SaltedPath, Salted, Key, Msg
<1>5. a.key \in Keys /\ a.msg \in Messages  BY <1>1 DEF Calls
<1>6. /\ p \in Paths /\ ly \in Nat /\ ly + 1 \in 0 .. SPX_D /\ ly + 2 \in Regions
      /\ ly + 2 # 0 /\ Root(p, ly + 1) \in Roots
  <2>1. p \in Paths  BY <1>2, <1>5, TermTypes
  <2>2. ly \in Nat /\ ly + 1 \in 0 .. SPX_D /\ ly + 2 \in Regions  BY <1>2, BufferTypes
  <2> QED  BY <2>1, <2>2, NodeTypes
<1>7. rt \in Roots /\ cn \in 0 .. WOTSC_COUNTER_LIMIT /\ sig[t] \in Buffers
  BY <1>0 DEF TypeOK
<1>8. LayerSig(rt, cn) \in Contents  BY <1>7, ContentTypes
<1>9. /\ b \in Buffers /\ b[ly + 2] = LayerSig(rt, cn)
      /\ \A j \in Regions : j # ly + 2 => b[j] = sig[t][j]
  BY <1>6, <1>7, <1>8 DEF Buffers
<1>10. b[0] = sig[t][0]  BY <1>6, <1>9, BufferTypes
<1>11. LayersDone(b, p, ly + 1, WOTSC_MAX_COUNTER)
  BY <1>2, <1>7, <1>9, NextLayerDone, CapAssumption
<1>12. /\ sig' = [sig EXCEPT ![t] = b]
       /\ root' = [root EXCEPT ![t] = Root(p, ly + 1)]
       /\ layer' = [layer EXCEPT ![t] = ly + 1]
  BY <1>4 DEF MerkleSign
<1>u. UNCHANGED <<args, tls, seed, stats, grind, counter, max_counter, published>>
  BY DEF MerkleSign
<1> HIDE DEF b, p
<1>13. /\ sig'[t] = b /\ root'[t] = Root(p, ly + 1) /\ layer'[t] = ly + 1
       /\ args'[t] = a /\ ctr'[t] = c /\ published'[t] = FALSE
       /\ seed'[t] = seed[t] /\ stats'[t] = stats[t]
       /\ g_random_data'[t] = g_random_data[t] /\ g_sign_stats'[t] = g_sign_stats[t]
       /\ g_random_source_failed'[t] = g_random_source_failed[t]
  BY <1>0, <1>1, <1>12, <1>u DEF TypeOK, tls, grind
<1>14. CASE ly + 1 < SPX_D
  <2>1. pc' = [pc EXCEPT ![t] = "s_open"] /\ UNCHANGED <<siglen, result>>
    BY <1>14 DEF MerkleSign, Goto
  <2>2. TypeOK'  BY <1>0, <1>u, <1>6, <1>9, <1>12, <2>1 DEF TypeOK, tls, grind, PCs
  <2>3. Others(t)  BY <1>0, <1>u, <1>12, <2>1 DEF TypeOK, Others, tls, grind
  <2>4. pc'[t] = "s_open"  BY <1>0, <2>1 DEF TypeOK
  <2>5. CallOK("s_open", a)  BY <1>1 DEF CallOK, Keyed, Searching, Verifying, SignOps
  <2>6. TlsOK(t, "s_open", a, g_random_data[t], g_sign_stats[t])
    BY <1>0, <1>1 DEF Mine, TlsOK, SigningFrame
  <2>7. SeedOK("s_open", a, seed[t], g_random_source_failed[t])
    BY <1>1 DEF SeedOK, Searching, Verifying
  <2>8. \A att, x, mx : SignOK("s_open", a, b, c, att, ly + 1, Root(p, ly + 1), x, mx)
    <3>1. Salted(a, b, c)  BY <1>2, <1>10 DEF Salted
    <3>2. ly + 1 \in Layers  BY <1>6, <1>14, CapAssumption DEF Layers
    <3> QED  BY <1>2, <1>11, <3>1, <3>2 DEF SignOK, Searching, p
  <2>9. \A x, sl, r : WipeOK("s_open", a, x, sl, r, FALSE)  BY DEF WipeOK
  <2>10. \A x, y, r : StatsOK("s_open", a, st, b, c, ly + 1, x, y, r)
    BY <1>3 DEF StatsOK, Verifying
  <2> HIDE DEF a
  <2>11. Mine(t)'
    BY <1>13, <2>4, <2>5, <2>6, <2>7, <2>8, <2>9, <2>10, NotVerifying, NoOutcome
    DEF Mine, Searching, Verifying
  <2> QED  BY <2>2, <2>3, <2>11, Frame
<1>15. CASE ~(ly + 1 < SPX_D)
  <2>1. /\ pc' = [pc EXCEPT ![t] = "slh_close"]
        /\ siglen' = [siglen EXCEPT ![t] = SPX_BYTES]
        /\ result' = [result EXCEPT ![t] = "OK"]
    BY <1>1, <1>15 DEF MerkleSign, Goto, SignatureCaller, Op
  <2>2. TypeOK'  BY <1>0, <1>u, <1>6, <1>9, <1>12, <2>1 DEF TypeOK, tls, grind, PCs, Results
  <2>3. Others(t)  BY <1>0, <1>u, <1>12, <2>1 DEF TypeOK, Others, tls, grind
  <2>4. pc'[t] = "slh_close" /\ siglen'[t] = SPX_BYTES /\ result'[t] = "OK"
    BY <1>0, <2>1 DEF TypeOK
  <2>5. CallOK("slh_close", a)  BY <1>1 DEF CallOK, Keyed, Searching, Verifying, SignOps
  <2>6. TlsOK(t, "slh_close", a, g_random_data[t], g_sign_stats[t])
    BY <1>0, <1>1 DEF Mine, TlsOK, SigningFrame
  <2>7. SeedOK("slh_close", a, seed[t], g_random_source_failed[t])
    BY <1>1 DEF SeedOK, Searching, Verifying
  <2>8. ly + 1 = SPX_D  BY <1>6, <1>15, CapAssumption
  <2>9. OutcomeOK("slh_close", a, b, SPX_BYTES, "OK", FALSE)
    <3>1. SignsPath(b, p, WOTSC_MAX_COUNTER)  BY <1>11, <2>8, AllLayersDone
    <3>2. ReferenceSignature(b, a.key, a.msg)  BY <1>2, <3>1 DEF ReferenceSignature, p
    <3> QED  BY <3>2 DEF OutcomeOK, Signed, Verifying
  <2>10. \A x, sl, r : WipeOK("slh_close", a, x, sl, r, FALSE)  BY DEF WipeOK
  <2>11. \A x, i, y, z : StatsOK("slh_close", a, st, b, x, i, y, z, "OK")
    <3>1. b[0].ctr = c  BY <1>2, <1>10 DEF Salted, Salt
    <3>2. a.stats => StatsTell(st, b, "OK")  BY <1>3, <2>8, <3>1, SuccessStats
    <3> QED  BY <1>3, <3>2 DEF StatsOK, Verifying
  <2> HIDE DEF a
  <2>12. Mine(t)'
    BY <1>13, <2>4, <2>5, <2>6, <2>7, <2>9, <2>10, <2>11, NotVerifying, NotSigning
    DEF Mine, Searching, Verifying
  <2> QED  BY <2>2, <2>3, <2>12, Frame
<1> QED  BY <1>14, <1>15

LEMMA VerifyCheckInv == ASSUME NEW t \in Threads, IInv, VerifyCheck(t) PROVE IInv'
<1> DEFINE a == args[t]
           b == sig[t]
<1>0. TypeOK /\ Mine(t) /\ pc[t] = "pqc_check" /\ a.op = "pqc_verify"
  BY DEF IInv, VerifyCheck, Op
<1>1. a \in Calls /\ published[t] = FALSE /\ stats[t]["caller"] = StaleStats
      /\ b[0] \in Randomizers /\ siglen[t] = SPX_BYTES /\ seed[t] \in {Zero, Stale}
  BY <1>0 DEF Mine, CallOK, WipeOK, StatsOK, VerifyOK, SeedOK
<1>u. UNCHANGED <<args, tls, seed, stats, sig, siglen, grind, chain, published>>
  BY DEF VerifyCheck
<1>v. UNCHANGED <<args, g_random_data, g_sign_stats, g_random_source_failed, seed, stats,
                  sig, siglen, ctr, attempts, layer, root, counter, max_counter, published>>
  BY <1>u DEF tls, grind, chain
<1>2. CASE Has(t, {"null_key", "null_sig", "null_msg"}) \/ Has(t, {"key_size", "sig_size"})
  <2>1. a.bad # {}  BY <1>2 DEF Has
  <2>2. PICK r \in {"BAD_ARG", "BAD_KEY", "BAD_SIGNATURE"} :
          result' = [result EXCEPT ![t] = r] /\ pc' = [pc EXCEPT ![t] = "ret"]
    BY <2>1 DEF VerifyCheck, Return, Goto
  <2>3. TypeOK'  BY <1>0, <1>v, <2>2 DEF TypeOK, PCs, Results
  <2>4. Others(t)  BY <1>0, <1>v, <2>2 DEF TypeOK, Others
  <2>5. pc'[t] = "ret" /\ result'[t] = r  BY <1>0, <2>2 DEF TypeOK
  <2>6. CallOK("ret", a)  BY <1>0, <1>1 DEF CallOK, Keyed, Searching, Verifying
  <2>7. TlsOK(t, "ret", a, g_random_data[t], g_sign_stats[t])
    BY <1>0 DEF Mine, TlsOK, SigningFrame
  <2>8. \A f : SeedOK("ret", a, seed[t], f)  BY <1>1 DEF SeedOK, Searching, Verifying
  <2>9. \A x, sl, ly, rt, cn, mx : VerifyOK("ret", a, x, sl, ly, rt, cn, mx, r)
    BY <2>1 DEF VerifyOK, Verifying
  <2>10. \A x, sl : OutcomeOK("ret", a, x, sl, r, FALSE)
    BY <1>0 DEF OutcomeOK, Verifying, SignOps
  <2>11. \A x, sl : WipeOK("ret", a, x, sl, r, FALSE)  BY <1>0 DEF WipeOK
  <2>12. \A x, c, ly, rt, cn : StatsOK("ret", a, StaleStats, x, c, ly, rt, cn, r)
    BY <1>0 DEF StatsOK, Verifying, SignOps
  <2> HIDE DEF a
  <2>13. Mine(t)'
    BY <1>1, <1>v, <2>5, <2>6, <2>7, <2>8, <2>9, <2>10, <2>11, <2>12, NotSigning
    DEF Mine, Searching, a
  <2> QED  BY <2>3, <2>4, <2>13, Frame
<1>3. CASE ~(Has(t, {"null_key", "null_sig", "null_msg"}) \/ Has(t, {"key_size", "sig_size"}))
  <2>1. pc' = [pc EXCEPT ![t] = "v_hash"] /\ UNCHANGED result /\ a.bad = {}
    BY <1>3 DEF VerifyCheck, Goto
  <2>2. TypeOK'  BY <1>0, <1>v, <2>1 DEF TypeOK, PCs
  <2>3. Others(t)  BY <1>0, <1>v, <2>1 DEF TypeOK, Others
  <2>4. pc'[t] = "v_hash" /\ result'[t] = result[t]  BY <1>0, <2>1 DEF TypeOK
  <2>5. CallOK("v_hash", a)  BY <1>0, <1>1, <2>1 DEF CallOK, Keyed, Searching, Verifying
  <2>6. TlsOK(t, "v_hash", a, g_random_data[t], g_sign_stats[t])
    BY <1>0 DEF Mine, TlsOK, SigningFrame
  <2>7. \A f : SeedOK("v_hash", a, seed[t], f)  BY <1>1 DEF SeedOK, Searching, Verifying
  <2>8. \A ly, rt, cn, mx, r : VerifyOK("v_hash", a, b, siglen[t], ly, rt, cn, mx, r)
    BY <1>1 DEF VerifyOK, Verifying
  <2>9. \A x, sl, r : OutcomeOK("v_hash", a, x, sl, r, FALSE)
    BY <1>0 DEF OutcomeOK, Verifying
  <2>10. \A x, sl, r : WipeOK("v_hash", a, x, sl, r, FALSE)  BY DEF WipeOK
  <2>11. \A x, c, ly, rt, cn, r : StatsOK("v_hash", a, StaleStats, x, c, ly, rt, cn, r)
    BY <1>0 DEF StatsOK, Verifying
  <2> HIDE DEF a
  <2>12. Mine(t)'
    BY <1>1, <1>v, <2>4, <2>5, <2>6, <2>7, <2>8, <2>9, <2>10, <2>11, NotSigning
    DEF Mine, Searching, a
  <2> QED  BY <2>2, <2>3, <2>12, Frame
<1> QED  BY <1>2, <1>3

LEMMA VerifyHashInv == ASSUME NEW t \in Threads, IInv, VerifyHash(t) PROVE IInv'
<1> DEFINE a == args[t]
           b == sig[t]
           p == Path(b[0], a.key, a.msg)
<1>0. TypeOK /\ Mine(t) /\ pc[t] = "v_hash"  BY DEF IInv, VerifyHash
<1>1. /\ a \in Calls /\ a.op \in {"pqc_sign", "pqc_verify"} /\ published[t] = FALSE
      /\ b[0] \in Randomizers /\ siglen[t] = SPX_BYTES
  BY <1>0 DEF Mine, CallOK, WipeOK, VerifyOK, Verifying
<1>2. PathOf(t) = p  BY DEF PathOf, Key, Msg
<1>3. a.key \in Keys /\ a.msg \in Messages  BY <1>1 DEF Calls
<1>4. p \in Paths  BY <1>1, <1>3, TermTypes
<1>u. UNCHANGED <<args, tls, seed, stats, sig, siglen, grind, counter, max_counter, published>>
  BY DEF VerifyHash
<1>v. UNCHANGED <<args, g_random_data, g_sign_stats, g_random_source_failed, seed, stats,
                  sig, siglen, ctr, attempts, counter, max_counter, published>>
  BY <1>u DEF tls, grind
<1> HIDE DEF p
<1>5. CASE ~ForscZero(p)
  <2>1. /\ result' = [result EXCEPT ![t] = "FAIL"]
        /\ pc' = [pc EXCEPT ![t] = "v_ret"]
        /\ UNCHANGED <<layer, root>>
    BY <1>2, <1>5 DEF VerifyHash, Goto
  <2>2. TypeOK'  BY <1>0, <1>v, <2>1 DEF TypeOK, PCs, Results
  <2>3. Others(t)  BY <1>0, <1>v, <2>1 DEF TypeOK, Others
  <2>4. pc'[t] = "v_ret" /\ result'[t] = "FAIL"  BY <1>0, <2>1 DEF TypeOK
  <2>5. CallOK("v_ret", a)  BY <1>0 DEF Mine, CallOK, Keyed, Searching, Verifying
  <2>6. TlsOK(t, "v_ret", a, g_random_data[t], g_sign_stats[t])
    BY <1>0 DEF Mine, TlsOK, SigningFrame
  <2>7. \A f : SeedOK("v_ret", a, seed[t], f)
    BY <1>0 DEF Mine, SeedOK, Searching, Verifying
  <2>8. \A ly, rt, cn, mx : VerifyOK("v_ret", a, b, siglen[t], ly, rt, cn, mx, "FAIL")
    <3>1. ~Genuine(b, a.key, a.msg)  BY <1>5 DEF Genuine, p
    <3> QED  BY <1>1, <3>1 DEF VerifyOK, Verifying
  <2>9. \A sl, r : OutcomeOK("v_ret", a, b, sl, r, FALSE)
    BY <1>0 DEF Mine, OutcomeOK, Verifying
  <2>10. \A sl, r : WipeOK("v_ret", a, b, sl, r, FALSE)  BY DEF WipeOK
  <2>11. \A c, i, y, z, r : StatsOK("v_ret", a, stats[t]["caller"], b, c, i, y, z, r)
    BY <1>0 DEF Mine, StatsOK, Verifying
  <2> HIDE DEF a
  <2>12. Mine(t)'
    BY <1>1, <1>v, <2>4, <2>5, <2>6, <2>7, <2>8, <2>9, <2>10, <2>11, NotSigning
    DEF Mine, Searching, a
  <2> QED  BY <2>2, <2>3, <2>12, Frame
<1>6. CASE ForscZero(p)
  <2> DEFINE rt == IF b[1] = p THEN Root(p, 0) ELSE Garbage
  <2>1. /\ root' = [root EXCEPT ![t] = rt]
        /\ layer' = [layer EXCEPT ![t] = 0]
        /\ pc' = [pc EXCEPT ![t] = "v_open"]
        /\ UNCHANGED result
    BY <1>1, <1>2, <1>6 DEF VerifyHash, Goto
  <2>2. 0 \in 0 .. SPX_D /\ 0 \in Layers /\ rt \in Roots
    <3>1. 0 \in 0 .. SPX_D /\ 0 \in Layers /\ Garbage \in Roots
      BY CapAssumption DEF Layers, Roots
    <3> QED  BY <1>4, <3>1, NodeTypes
  <2>3. \/ rt = Root(p, 0) /\ LayersDone(b, p, 0, WOTSC_COUNTER_LIMIT)
        \/ rt = Garbage /\ ~SignsPath(b, p, WOTSC_COUNTER_LIMIT)
    BY DEF LayersDone, SignsPath, Path, p
  <2> HIDE DEF rt
  <2>4. TypeOK'  BY <1>0, <1>v, <2>1, <2>2 DEF TypeOK, PCs
  <2>5. Others(t)  BY <1>0, <1>v, <2>1 DEF TypeOK, Others
  <2>6. pc'[t] = "v_open" /\ root'[t] = rt /\ layer'[t] = 0 /\ result'[t] = result[t]
    BY <1>0, <2>1 DEF TypeOK
  <2>7. CallOK("v_open", a)  BY <1>0 DEF Mine, CallOK, Keyed, Searching, Verifying
  <2>8. TlsOK(t, "v_open", a, g_random_data[t], g_sign_stats[t])
    BY <1>0 DEF Mine, TlsOK, SigningFrame
  <2>9. \A f : SeedOK("v_open", a, seed[t], f)
    BY <1>0 DEF Mine, SeedOK, Searching, Verifying
  <2>10. \A cn, mx, r : VerifyOK("v_open", a, b, siglen[t], 0, rt, cn, mx, r)
    BY <1>1, <1>6, <2>2, <2>3 DEF VerifyOK, Verifying, p
  <2>11. \A sl, r : OutcomeOK("v_open", a, b, sl, r, FALSE)
    BY <1>0 DEF Mine, OutcomeOK, Verifying
  <2>12. \A sl, r : WipeOK("v_open", a, b, sl, r, FALSE)  BY DEF WipeOK
  <2>13. \A c, i, y, z, r : StatsOK("v_open", a, stats[t]["caller"], b, c, i, y, z, r)
    BY <1>0 DEF Mine, StatsOK, Verifying
  <2> HIDE DEF a
  <2>14. Mine(t)'
    BY <1>1, <1>v, <2>6, <2>7, <2>8, <2>9, <2>10, <2>11, <2>12, <2>13, NotSigning
    DEF Mine, Searching, a
  <2> QED  BY <2>4, <2>5, <2>14, Frame
<1> QED  BY <1>5, <1>6

LEMMA VerifyLayerInv == ASSUME NEW t \in Threads, IInv, VerifyLayer(t) PROVE IInv'
<1> DEFINE a == args[t]
           b == sig[t]
           cn == counter[t]
           i == layer[t]
           p == Path(b[0], a.key, a.msg)
           good == root[t] # Garbage /\ b[i + 2] = LayerSig(root[t], cn)
           rt == IF good THEN Root(p, i + 1) ELSE Garbage
<1>0. TypeOK /\ Mine(t) /\ pc[t] = "v_layer"  BY DEF IInv, VerifyLayer
<1>1. /\ a \in Calls /\ published[t] = FALSE
      /\ b[0] \in Randomizers /\ siglen[t] = SPX_BYTES
      /\ i \in Layers /\ ForscZero(p)
      /\ \/ root[t] = Root(p, i) /\ LayersDone(b, p, i, WOTSC_COUNTER_LIMIT)
         \/ root[t] = Garbage /\ ~SignsPath(b, p, WOTSC_COUNTER_LIMIT)
      /\ cn \in 0 .. WOTSC_COUNTER_LIMIT /\ FirstCounter(root[t], cn)
  BY <1>0 DEF Mine, CallOK, WipeOK, VerifyOK, Verifying
<1>2. a.key \in Keys /\ a.msg \in Messages  BY <1>1 DEF Calls
<1>3. p \in Paths  BY <1>1, <1>2, TermTypes
<1>4. i \in Nat /\ i + 1 \in 0 .. SPX_D /\ i \in 0 .. SPX_D  BY <1>1, BufferTypes, CapAssumption
<1>5. b \in Buffers /\ Garbage \in Roots  BY <1>0 DEF TypeOK, Roots
<1>6. PathOf(t) = p  BY DEF PathOf, Key, Msg
<1>u. UNCHANGED <<args, tls, seed, stats, sig, siglen, grind, counter, max_counter, published>>
  BY DEF VerifyLayer
<1>v. UNCHANGED <<args, g_random_data, g_sign_stats, g_random_source_failed, seed, stats,
                  sig, siglen, ctr, attempts, counter, max_counter, published>>
  BY <1>u DEF tls, grind
<1>7. root' = [root EXCEPT ![t] = rt] /\ layer' = [layer EXCEPT ![t] = i + 1]
  BY <1>6 DEF VerifyLayer
<1> HIDE DEF p
<1>8. \/ good /\ LayersDone(b, p, i + 1, WOTSC_COUNTER_LIMIT)
      \/ ~good /\ ~SignsPath(b, p, WOTSC_COUNTER_LIMIT)
  <2>1. CASE root[t] = Garbage
    <3>1. Root(p, i) # Garbage  BY <1>3, <1>4, NodeTypes
    <3> QED  BY <1>1, <2>1, <3>1
  <2>2. CASE root[t] # Garbage /\ b[i + 2] = LayerSig(root[t], cn)
    <3>1. root[t] = Root(p, i) /\ LayersDone(b, p, i, WOTSC_COUNTER_LIMIT)  BY <1>1, <2>2
    <3>2. LayersDone(b, p, i + 1, WOTSC_COUNTER_LIMIT)
      BY <1>1, <1>5, <2>2, <3>1, NextLayerDone, CapAssumption
    <3> QED  BY <2>2, <3>2
  <2>3. CASE root[t] # Garbage /\ b[i + 2] # LayerSig(root[t], cn)
    <3>1. root[t] = Root(p, i) /\ cn \in Nat /\ WOTSC_COUNTER_LIMIT \in Nat
      BY <1>1, <2>3, CapAssumption
    <3>2. ~SignsPath(b, p, WOTSC_COUNTER_LIMIT)  BY <1>1, <2>3, <3>1, WrongLayer
    <3> QED  BY <2>3, <3>2
  <2> QED  BY <2>1, <2>2, <2>3
<1>9. rt \in Roots  BY <1>3, <1>4, <1>5, NodeTypes
<1>10. CASE i + 1 < SPX_D
  <2>1. pc' = [pc EXCEPT ![t] = "v_open"] /\ UNCHANGED result
    BY <1>10 DEF VerifyLayer, Goto
  <2> HIDE DEF good
  <2>2. i + 1 \in Layers  BY <1>4, <1>10, CapAssumption DEF Layers
  <2>3. \/ rt = Root(p, i + 1) /\ LayersDone(b, p, i + 1, WOTSC_COUNTER_LIMIT)
        \/ rt = Garbage /\ ~SignsPath(b, p, WOTSC_COUNTER_LIMIT)
    BY <1>8
  <2> HIDE DEF rt
  <2>4. TypeOK'  BY <1>0, <1>v, <1>4, <1>7, <1>9, <2>1 DEF TypeOK, PCs
  <2>5. Others(t)  BY <1>0, <1>v, <1>7, <2>1 DEF TypeOK, Others
  <2>6. pc'[t] = "v_open" /\ root'[t] = rt /\ layer'[t] = i + 1
    BY <1>0, <1>7, <2>1 DEF TypeOK
  <2>7. CallOK("v_open", a)  BY <1>0 DEF Mine, CallOK, Keyed, Searching, Verifying
  <2>8. TlsOK(t, "v_open", a, g_random_data[t], g_sign_stats[t])
    BY <1>0 DEF Mine, TlsOK, SigningFrame
  <2>9. \A f : SeedOK("v_open", a, seed[t], f)
    BY <1>0 DEF Mine, SeedOK, Searching, Verifying
  <2>10. \A z, mx, r : VerifyOK("v_open", a, b, siglen[t], i + 1, rt, z, mx, r)
    BY <1>1, <2>2, <2>3 DEF VerifyOK, Verifying, p
  <2>11. \A sl, r : OutcomeOK("v_open", a, b, sl, r, FALSE)
    BY <1>0 DEF Mine, OutcomeOK, Verifying
  <2>12. \A sl, r : WipeOK("v_open", a, b, sl, r, FALSE)  BY DEF WipeOK
  <2>13. \A c, x, y, z, r : StatsOK("v_open", a, stats[t]["caller"], b, c, x, y, z, r)
    BY <1>0 DEF Mine, StatsOK, Verifying
  <2> HIDE DEF a
  <2>14. Mine(t)'
    BY <1>1, <1>v, <2>1, <2>6, <2>7, <2>8, <2>9, <2>10, <2>11, <2>12, <2>13, NotSigning
    DEF Mine, Searching, a
  <2> QED  BY <2>4, <2>5, <2>14, Frame
<1>11. CASE ~(i + 1 < SPX_D)
  <2> DEFINE r == IF good /\ a.key \in ValidKeys THEN "OK" ELSE "FAIL"
  <2>1. pc' = [pc EXCEPT ![t] = "v_ret"] /\ result' = [result EXCEPT ![t] = r]
    BY <1>11 DEF VerifyLayer, Goto, Key
  <2> HIDE DEF good
  <2>2. r = IF Genuine(b, a.key, a.msg) THEN "OK" ELSE "FAIL"
    <3>1. i + 1 = SPX_D  BY <1>4, <1>11, CapAssumption
    <3>2. good <=> SignsPath(b, p, WOTSC_COUNTER_LIMIT)  BY <1>8, <3>1, AllLayersDone
    <3>3. Genuine(b, a.key, a.msg) <=> a.key \in ValidKeys /\ good
      BY <1>1, <3>2 DEF Genuine, p
    <3> QED  BY <3>3
  <2>3. r \in Results  BY DEF Results
  <2> HIDE DEF r, rt
  <2>4. TypeOK'  BY <1>0, <1>v, <1>4, <1>7, <1>9, <2>1, <2>3 DEF TypeOK, PCs
  <2>5. Others(t)  BY <1>0, <1>v, <1>7, <2>1 DEF TypeOK, Others
  <2>6. pc'[t] = "v_ret" /\ result'[t] = r  BY <1>0, <2>1 DEF TypeOK
  <2>7. CallOK("v_ret", a)  BY <1>0 DEF Mine, CallOK, Keyed, Searching, Verifying
  <2>8. TlsOK(t, "v_ret", a, g_random_data[t], g_sign_stats[t])
    BY <1>0 DEF Mine, TlsOK, SigningFrame
  <2>9. \A f : SeedOK("v_ret", a, seed[t], f)
    BY <1>0 DEF Mine, SeedOK, Searching, Verifying
  <2>10. \A x, y, z, mx : VerifyOK("v_ret", a, b, siglen[t], x, y, z, mx, r)
    BY <1>1, <2>2 DEF VerifyOK, Verifying
  <2>11. \A sl, x : OutcomeOK("v_ret", a, b, sl, x, FALSE)
    BY <1>0 DEF Mine, OutcomeOK, Verifying
  <2>12. \A sl, x : WipeOK("v_ret", a, b, sl, x, FALSE)  BY DEF WipeOK
  <2>13. \A c, x, y, z, w : StatsOK("v_ret", a, stats[t]["caller"], b, c, x, y, z, w)
    BY <1>0 DEF Mine, StatsOK, Verifying
  <2> HIDE DEF a
  <2>14. Mine(t)'
    BY <1>1, <1>v, <2>6, <2>7, <2>8, <2>9, <2>10, <2>11, <2>12, <2>13, NotSigning
    DEF Mine, Searching, a
  <2> QED  BY <2>4, <2>5, <2>14, Frame
<1> QED  BY <1>10, <1>11

LEMMA VerifyReturnInv == ASSUME NEW t \in Threads, IInv, VerifyReturn(t) PROVE IInv'
<1> DEFINE a == args[t]
           b == sig[t]
           own == a.op = "pqc_sign"
           r == IF result[t] = "OK" THEN "OK" ELSE "BAD_SIGNATURE"
<1>0. TypeOK /\ Mine(t) /\ pc[t] = "v_ret"  BY DEF IInv, VerifyReturn
<1>1. /\ a \in Calls /\ a.op \in {"pqc_sign", "pqc_verify"} /\ a.bad = {}
      /\ siglen[t] = SPX_BYTES /\ seed[t] \in {Zero, Stale}
      /\ result[t] = IF Genuine(b, a.key, a.msg) THEN "OK" ELSE "FAIL"
      /\ own => a.key \in ValidKeys /\ ReferenceSignature(b, a.key, a.msg)
      /\ ~a.stats => stats[t]["caller"] = StaleStats
      /\ own /\ a.stats => StatsTell(stats[t]["caller"], b, "OK")
  BY <1>0 DEF Mine, CallOK, VerifyOK, SeedOK, OutcomeOK, StatsOK, Verifying
<1>2. own => result[t] = "OK"  BY <1>1, ReferenceIsGenuine
<1>3. /\ published' = [published EXCEPT ![t] = (result[t] = "OK" /\ own)]
      /\ result' = [result EXCEPT ![t] = r]
      /\ pc' = [pc EXCEPT ![t] = "ret"]
      /\ UNCHANGED <<sig, args, tls, seed, stats, siglen, grind, chain>>
  BY <1>2 DEF VerifyReturn, Return, Goto, Op
<1>4. own \in BOOLEAN /\ (result[t] = "OK" /\ own) = own /\ own = (own /\ r = "OK")
  BY <1>2
<1>5. published' = [published EXCEPT ![t] = own]  BY <1>3, <1>4
<1>6. r \in {"OK", "BAD_SIGNATURE"} /\ r = IF Genuine(b, a.key, a.msg) THEN "OK" ELSE "BAD_SIGNATURE"
  BY <1>1
<1>7. own => r = "OK"  BY <1>2
<1> HIDE DEF r, own
<1>8. TypeOK'  BY <1>0, <1>3, <1>4, <1>5, <1>6 DEF TypeOK, tls, grind, chain, PCs, Results
<1>9. Others(t)  BY <1>0, <1>3, <1>5 DEF TypeOK, Others, tls, grind, chain
<1>10. /\ pc'[t] = "ret" /\ result'[t] = r /\ published'[t] = own
       /\ UNCHANGED <<args, g_random_data, g_sign_stats, g_random_source_failed, seed, stats,
                      sig, siglen, ctr, attempts, layer, root, counter, max_counter>>
  BY <1>0, <1>3, <1>5 DEF TypeOK, tls, grind, chain
<1>11. CallOK("ret", a)  BY <1>1 DEF CallOK, Keyed, Searching, Verifying
<1>12. TlsOK(t, "ret", a, g_random_data[t], g_sign_stats[t])
  BY <1>0 DEF Mine, TlsOK, SigningFrame
<1>13. \A f : SeedOK("ret", a, seed[t], f)  BY <1>1 DEF SeedOK, Searching, Verifying
<1>14. \A ly, rt, cn, mx : VerifyOK("ret", a, b, siglen[t], ly, rt, cn, mx, r)
  BY <1>6 DEF VerifyOK, Verifying
<1>15. OutcomeOK("ret", a, b, siglen[t], r, own)
  BY <1>1, <1>7 DEF OutcomeOK, Signed, Verifying, SignOps, own
<1>16. WipeOK("ret", a, b, siglen[t], r, own)
  BY <1>1, <1>7 DEF WipeOK, own
<1>17. \A c, ly, rt, cn : StatsOK("ret", a, stats[t]["caller"], b, c, ly, rt, cn, r)
  BY <1>1, <1>7 DEF StatsOK, Verifying, SignOps, own
<1> HIDE DEF a
<1>18. Mine(t)'
  BY <1>10, <1>11, <1>12, <1>13, <1>14, <1>15, <1>16, <1>17, NotSigning
  DEF Mine, Searching, a
<1> QED  BY <1>8, <1>9, <1>18, Frame

----------------------------------------------------------------------------
(* The invariant holds.                                                    *)

LEMMA NextInv == IInv /\ [Next]_vars => IInv'
<1> SUFFICES ASSUME IInv, [Next]_vars PROVE IInv'  OBVIOUS
<1>1. ASSUME NEW t \in Threads, Step(t) PROVE IInv'
  BY <1>1, SignImplCheckInv, SlhCheckInv, DerandomizeInv, InitRandomSourceInv, StatsBeginInv,
     DrawOptrandInv, GrindInv, SignForsInv, SearchOpenInv, SearchTryInv, MerkleSignInv,
     SlhCloseInv, SlhReturnInv, UpstreamCloseInv, KeypairRandomInv, KeypairCheckInv,
     VerifyCheckInv, VerifyHashInv, VerifyLayerInv, VerifyReturnInv
  DEF Step
<1>2. ASSUME NEW t \in Threads, Caller(t) PROVE IInv'
  BY <1>2, CallSignInv, CallVerifyInv, CallUpstreamInv, BadDerandomizeInv, CollectInv
  DEF Caller
<1>3. CASE UNCHANGED vars
  BY <1>3 DEF IInv, TypeOK, Mine, vars, tls, grind, chain
<1> QED  BY <1>1, <1>2, <1>3 DEF Next

\* Every thread's part of the invariant holds in every reachable state, however
\* the calls of the threads interleave.
THEOREM Invariance == Spec => []IInv
<1>1. Init => IInv  BY InitInv
<1>2. IInv /\ [Next]_vars => IInv'  BY NextInv
<1> QED  BY <1>1, <1>2, PTL DEF Spec

----------------------------------------------------------------------------
(* What it says of the library.                                            *)

\* Every variable keeps its type: the layer, counter and attempt numbers stay
\* in the ranges the C types and arrays give them (sign.c, wots.c, sign_stats.c).
THEOREM TypeCorrect == Spec => []TypeOK
<1>1. IInv => TypeOK  BY DEF IInv
<1> QED  BY <1>1, Invariance, PTL

\* The thread-local pointers g_random_data and g_sign_stats never outlive the
\* frame of slh_dsa_sign_with_stats_impl whose variables they point at.
THEOREM TlsNeverDangles == Spec => []NoDanglingTls
<1>1. IInv => NoDanglingTls
  <2> SUFFICES ASSUME IInv, NEW u \in Threads
               PROVE  /\ g_random_data[u] # NULL => pc[g_random_data[u]] \in SigningFrame
                      /\ g_sign_stats[u] # NULL =>
                            pc[g_sign_stats[u].owner] \in SigningFrame \ {"stats_begin"}
    BY DEF NoDanglingTls
  <2>1. TlsOK(u, pc[u], args[u], g_random_data[u], g_sign_stats[u])  BY DEF IInv, Mine
  <2> QED  BY <2>1 DEF TlsOK, Ptr
<1> QED  BY <1>1, Invariance, PTL

\* Every salt the grinding loop of crypto_sign_signature hashes is a new one:
\* its 32-bit tweak does not wrap before the attempt cap stops the loop.
THEOREM GrindingSaltsDistinct == Spec => []SaltsDistinct
<1>1. IInv => SaltsDistinct
  <2> SUFFICES ASSUME IInv, NEW t \in Threads, pc[t] = "grind"
               PROVE  attempts[t] = ctr[t] /\ sig[t][0].ctr = ctr[t]
    BY DEF SaltsDistinct
  <2>1. Salted(args[t], sig[t], ctr[t]) /\ attempts[t] = ctr[t]
    BY DEF IInv, Mine, SignOK
  <2> QED  BY <2>1 DEF Salted, Salt
<1> QED  BY <1>1, Invariance, PTL

\* A signing call with sound arguments and a valid key returns the one
\* signature its caps allow, or the limit error exactly when they allow none;
\* bitcoin_pqc_sign never rejects its own signature.  With any number of
\* threads signing, verifying and grinding at once.
THEOREM SigningCorrect == Spec => []SignMatchesReference
<1>1. IInv => SignMatchesReference
  <2> SUFFICES ASSUME IInv, NEW t \in Threads, Sound(t), Op(t) \in SignOps, Key(t) \in ValidKeys
               PROVE  \/ /\ result[t] = "OK"
                         /\ ReferenceSignature(sig[t], Key(t), Msg(t))
                         /\ siglen[t] = SPX_BYTES
                         /\ published[t] = (Op(t) = "pqc_sign")
                      \/ result[t] = "LIMIT" /\ ~Signable(Key(t), Msg(t))
                      \/ result[t] = "OUT_OF_MEMORY" /\ Op(t) = "pqc_sign"
    BY DEF SignMatchesReference
  <2> DEFINE a == args[t]
  <2>1. OutcomeOK("ret", a, sig[t], siglen[t], result[t], published[t])
    BY DEF IInv, Mine, Sound
  <2>2. a.bad = {} /\ a.op \in SignOps /\ a.key \in ValidKeys  BY DEF Sound, Op, Key
  <2>3. \/ /\ Signed(a, sig[t], siglen[t], result[t])
           /\ published[t] = (a.op = "pqc_sign" /\ result[t] = "OK")
        \/ result[t] = "OUT_OF_MEMORY" /\ a.op = "pqc_sign"
    BY <2>1, <2>2 DEF OutcomeOK
  <2>4. CASE result[t] = "OUT_OF_MEMORY" /\ a.op = "pqc_sign"  BY <2>4 DEF Op
  <2>5. CASE result[t] = "LIMIT" /\ ~Signable(a.key, a.msg)  BY <2>5 DEF Key, Msg
  <2>6. CASE /\ result[t] = "OK" /\ ReferenceSignature(sig[t], a.key, a.msg)
             /\ siglen[t] = SPX_BYTES
             /\ published[t] = (a.op = "pqc_sign" /\ result[t] = "OK")
    BY <2>6 DEF Op, Key, Msg
  <2> QED  BY <2>3, <2>4, <2>5, <2>6 DEF Signed
<1> QED  BY <1>1, Invariance, PTL

\* bitcoin_pqc_verify accepts exactly the genuine signatures of the message,
\* the ones a signer with a higher cap made included: the statistics pointer
\* that narrows the search is never set while crypto_sign_verify runs.
THEOREM VerificationCorrect == Spec => []VerifyMatchesReference
<1>1. IInv => VerifyMatchesReference
  <2> SUFFICES ASSUME IInv, NEW t \in Threads, Sound(t), Op(t) = "pqc_verify"
               PROVE  result[t] = IF Genuine(sig[t], Key(t), Msg(t)) THEN "OK"
                                  ELSE "BAD_SIGNATURE"
    BY DEF VerifyMatchesReference
  <2>1. VerifyOK("ret", args[t], sig[t], siglen[t], layer[t], root[t], counter[t],
                 max_counter[t], result[t])
    BY DEF IInv, Mine, Sound
  <2> QED  BY <2>1 DEF VerifyOK, Sound, Op, Key, Msg
<1> QED  BY <1>1, Invariance, PTL

\* A failed call leaves no part of a signature, no length and no seed behind,
\* on every error path of slh_dsa_sign, bitcoin_pqc_sign and crypto_sign.
THEOREM FailureIsClean == Spec => []FailureLeavesNothing
<1>1. IInv => FailureLeavesNothing
  <2> SUFFICES ASSUME IInv, NEW t \in Threads, pc[t] = "ret", result[t] # "OK",
                      Op(t) # "pqc_verify"
               PROVE  /\ seed[t] \in {Zero, Stale}
                      /\ ~published[t]
                      /\ sig[t] \in {Filled(Zero), Filled(Stale)}
                      /\ Op(t) \in {"slh_sign", "crypto_sign"} =>
                            /\ "null_sig" \in args[t].bad \/ sig[t] = Filled(Zero)
                            /\ "null_siglen" \in args[t].bad \/ siglen[t] = 0
    BY DEF FailureLeavesNothing
  <2>1. SeedOK("ret", args[t], seed[t], g_random_source_failed[t])  BY DEF IInv, Mine
  <2>2. WipeOK("ret", args[t], sig[t], siglen[t], result[t], published[t])  BY DEF IInv, Mine
  <2>3. seed[t] \in {Zero, Stale}  BY <2>1 DEF SeedOK
  <2> QED  BY <2>2, <2>3 DEF WipeOK, Wiped, Op
<1> QED  BY <1>1, Invariance, PTL

\* The statistics of bitcoin_pqc_sign_with_stats tell what happened: the
\* attempts behind a signature, or the cap that stopped the call and where.
THEOREM StatisticsCorrect == Spec => []StatsTellOutcome
<1>1. IInv => StatsTellOutcome
  <2> SUFFICES ASSUME IInv, NEW t \in Threads, pc[t] = "ret", Op(t) \in SignOps
               PROVE  LET s == stats[t]["caller"]
                      IN  IF args[t].stats /\ result[t] \in {"OK", "LIMIT"}
                          THEN /\ s.forsc_max_attempts = FORSC_MAX_GRIND_ATTEMPTS
                               /\ s.wotsc_max_attempts = WOTSC_MAX_COUNTER + 1
                               /\ IF result[t] = "OK" THEN StatsOfSuccess(s, sig[t])
                                                      ELSE StatsOfLimit(s)
                          ELSE s = StaleStats
    BY DEF StatsTellOutcome
  <2>1. StatsOK("ret", args[t], stats[t]["caller"], sig[t], ctr[t], layer[t], root[t],
                counter[t], result[t])
    BY DEF IInv, Mine
  <2> QED  BY <2>1 DEF StatsOK, StatsTell, Op
<1> QED  BY <1>1, Invariance, PTL

\* randombytes without a configured source fails closed: crypto_sign and
\* crypto_sign_keypair always report failure.
THEOREM NoSourceFailsClosed == Spec => []NoSourceNoOutput
<1>1. IInv => NoSourceNoOutput
  <2> SUFFICES ASSUME IInv, NEW t \in Threads, pc[t] = "ret",
                      Op(t) \in {"crypto_sign", "crypto_keypair"}
               PROVE  result[t] = "FAIL"
    BY DEF NoSourceNoOutput
  <2>1. OutcomeOK("ret", args[t], sig[t], siglen[t], result[t], published[t])
    BY DEF IInv, Mine
  <2> QED  BY <2>1 DEF OutcomeOK, Op
<1> QED  BY <1>1, Invariance, PTL
=============================================================================
