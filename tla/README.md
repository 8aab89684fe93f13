# Verification of libbitcoinpqc (SLH-DSA-SHA2-128s-bounded30)

TLA+ modules, TLC configurations and TLAPS proofs for the C library under `src/src/` and
`src/sphincsplus/` and its Rust binding `src/src/lib.rs`. Paths below are relative to the
repository root where they start with `src/`, `sphincsplus/`, `include/`.

## 1. The system

The library signs with a bounded variant of SLH-DSA: a hash-based signature is a random salt R,
a FORS+C signature of a digest (7 of 8 trees, the eighth index is ground to zero), and five WOTS+C
layers up a hypertree (checksum chains are replaced by a two-byte counter that is searched for).
Both searches have a *signing cap*, so signing may legitimately fail with a limit error. A caller
uses a C API with heap-allocated outputs, or the Rust crate over it. There is no lock anywhere in the
library: threads are kept apart by thread-local variables and by disjoint output regions.

| Component | Files | State it keeps | Operations |
|---|---|---|---|
| C API | `src/bitcoinpqc.c`, `include/libbitcoinpqc/*.h` | caller's structs, heap buffers | keygen, sign, sign_with_stats, verify, secret_key_validate, two frees |
| SLH-DSA wrapper | `src/slh_dsa/{sign,verify,validate,keygen}.c` | seed in its frame | sign, verify, validate, keygen |
| Random source | `src/slh_dsa/utils.c` | `_Thread_local` `g_random_data`, its offset, `g_random_source_failed` | init, restore, derandomize, `randombytes` |
| Statistics | `sphincsplus/ref/sign_stats.c` | `_Thread_local` `g_sign_stats` | begin, end, record_* |
| Signature scheme | `sphincsplus/ref/sign.c` | signature buffer, grinding counter | `crypto_sign_signature`, `_verify`, `crypto_sign`, `_keypair` |
| FORS+C | `sphincsplus/ref/fors.c` | worker threads, args and roots on the caller's stack | `fors_sign`, `fors_pk_from_sig` |
| WOTS+C | `sphincsplus/ref/wots.c`, `wotsx1.c` | search counter | counter search, chains, leaf callbacks |
| Merkle trees | `sphincsplus/ref/{merkle,utils,utilsx1}.c`, `sphincsplus/sha2-avx2/utilsx8.c` | node stack, authentication path | `treehashx1`, `treehashx8`, `compute_root`, `merkle_sign` |
| Hashing | `sphincsplus/ref/{hash_sha2,thash_sha2_simple,sha2}.c`, `sphincsplus/sha2-avx2/*` | incremental state, cached public-seed state | HMAC, `hash_message`, MGF1, `thash`, eight-lane forms |
| Addresses | `sphincsplus/ref/address.c`, `sha2_offsets.h` | address buffers carried from call to call | set and copy fields |
| Hash dispatch, options | `sphincsplus/ref/{sha2.c,opt_flags.h,sha2_x86_shani.c,sha2_armv8_sha.c}` | process-wide caches and function pointers | choose an implementation once |
| Secure wiping | `src/secure_zero.h`, the wrappers in `src/slh_dsa/*.c` | released stack frames | zero, burn the stack |
| Rust crate | `src/lib.rs` | `Vec`s that own key and signature bytes | generate_keypair, sign, verify, parse, clone, drop |

**How they interact.** `bitcoin_pqc_sign` allocates, calls `slh_dsa_sign_with_stats`, which validates
the key, derives a 64-byte seed, points the thread-local random source at it and the thread-local
statistics pointer at a struct, and calls `crypto_sign_signature`. That draws 16 bytes, grinds the
salt, calls `fors_sign` (which may start pthreads), and for each layer `merkle_sign`, whose
WOTS+C search looks at the statistics pointer to choose its range. Then the wrapper detaches both
pointers, the C API verifies its own signature and publishes the buffer. Verification repeats the
WOTS+C search and must find the same counter.

**What is hard.** (1) The statistics pointer is also a switch of the search range, so leaving it
set, or sharing it, changes what verification accepts. (2) Worker threads write into the
caller's frame and any `pthread_create` may fail. (3) Errors can occur at any step and must leave no
partial signature, seed or key behind, neither in the caller's buffer nor in freed memory. (4) Buffers are
wiped by the length in the caller's struct. (5) Caches for the hash implementation are filled by racing
threads, and an accelerated block function that cannot run returns silently. (6) Address buffers keep what earlier
layers, trees and chains left in them, and two hash calls that should differ may share an address without any
test noticing. (7) Five SHA-256 and two SHA-512 implementations must agree, with schedules spread over
rotating registers. (8) Off-by-one edges:
attempt caps, 16- and 32-bit counters, the top three levels of the eight-lane tree builder, block
boundaries in padding.

What makes each component correct is stated as properties in the modules and listed run by run in
section 3. `PROJECT.json` lists the hazards with the line each one bites at.

## 2. Modules

| Module | Models | Reads as |
|---|---|---|
| `SignSession` | C API sign/verify, SLH-DSA wrapper, random source, statistics, scheme, WOTS+C search | per-thread program counter, one action per step of the code |
| `SignSessionProofs` | theorems about `SignSession` | |
| `RandomSource` | `src/slh_dsa/utils.c` alone: configure, restore, clear, `randombytes` | one thread, the copy loop turn by turn |
| `ForsSign` | `fors_sign` with its worker threads | caller and workers, each region entered and left |
| `ForsPromise` | what `fors_sign` promises (abstract) | every tree signed once, then the key derived |
| `ForsSignProofs` | theorems about `ForsSign` | |
| `TreeHash` | `treehashx1`, `treehashx8`, `treehash`, leaf callbacks, `compute_root`, `merkle_sign` | nodes are (height, index) terms |
| `TreeHashProofs` | theorems about `TreeHash` | |
| `WotsChain` | counter search, `base_w`, checksum, chains of the three leaf callbacks, `wots_pk_from_sig` | chain values are (key pair, chain, position) terms |
| `HashAddress` | `address.c`, and every use of addresses by key generation, signing and verification | byte arrays that keep stale fields |
| `DigestFields` | the fields of `hash_message`, `message_to_indices`, the compressed index | digests bit by bit |
| `HashCalls` | `DigestFields`, `WotsChain` and `HashAddress` side by side | a behaviour is of one of them |
| `HashCallsProofs` | theorems about all three | |
| `SignedMessage` | `crypto_sign_seed_keypair`, `slh_dsa_secret_key_validate`, `crypto_sign`, `crypto_sign_open` | one memory in which buffers may overlap |
| `SignedMessageProofs` | theorems about `SignedMessage` | |
| `KeyHeap` | heap of keygen, sign, frees and of the Rust wrapper | blocks with owner and contents |
| `StackBurn` | the wrappers that burn the stack, and the frames below them | stack slots that hold a secret or not |
| `LibraryMemory` | `KeyHeap` beside `StackBurn`: what is left in memory | a behaviour is of one of them |
| `KeyHeapProofs` | theorems about both | |
| `Sha2Stream` | padding, incremental hashing, HMAC, H_msg, MGF1, seed derivations, `thash`, `prf_addr`, eight lanes | a digest is the byte stream absorbed for it |
| `Sha2StreamProofs` | theorems about `Sha2Stream` | |
| `Sha2Rounds` | the block functions: portable, SHA-NI, SHA-512 x86, ARM, AVX2 eight-lane, CommonCrypto | symbolic working variables, one action per row of rounds |
| `Sha2Dispatch` | choice of the SHA-2 implementation with its caches | every atomic load and store is a step |
| `HiddenState` | `Sha2Dispatch` beside `RandomSource`: what is kept between calls | a behaviour is of one of them |
| `HiddenStateProofs` | theorems about both | |
| `MC*` | instances for TLC | |

### SignSession
State: `pc` and the locals of each thread's call (`args`, `seed`, `sig`, `siglen`, `ctr`,
`attempts`, `layer`, `root`, `counter`, `max_counter`, `result`), the three thread-local globals under their C names,
the caller's and the scratch statistics, and whether the output struct owns the buffer.
`Tls(t)` says whose copy of a `_Thread_local` a thread uses.
Hashes are uninterpreted: a salt, a path (FORS instance and hypertree leaves), a subtree root and a
layer of the signature are records of what they were computed from. `ForscZero` and `WotscHit` are
arbitrary oracles for the two grinding conditions. The actions follow the call chain
`SignImplCheck`, `SlhCheck`, `Derandomize`, `InitRandomSource`, `StatsBegin`, `DrawOptrand`, `Grind`,
`SignFors`, `SearchOpen`, `SearchTry`, `MerkleSign`, `SlhClose`, `SlhReturn`, then `VerifyHash`,
`VerifyLayer`, `VerifyReturn`; and `CallUpstream`, `KeypairRandom`, `KeypairCheck`, `UpstreamClose` for the upstream
entry points, which have no random source.

### RandomSource
The buffer, its size and offset, the sticky failure flag, and a request in progress. Configuring,
restoring and clearing happen between requests in any order, with NULL or empty arguments too. Each
turn of the copy loop is a step, so the wrap-around and an offset at the end of the buffer are states.

### ForsSign and ForsPromise
`Call` computes the worker count from `SPX_FORS_THREADS` (`strtoul` cut to 32 bits, clamped),
`Launch` hands a range of trees to the next pthread or fails, `Join` waits, `Scalar` signs the
rest, `Derive` hashes the roots. Signing a tree is two actions, so two threads in one region is a
state. `ForsPromise` is the sequential view; `PromiseSpec` in `ForsSign` is `ForsPromise!Spec` with `derived <- pk`
and the counts of `signed` as they are, so that signing a tree a second time is a step the promise does not have.

### TreeHash and WotsChain
`TreeHash` has one tree at a time, scalar, eight lanes, or with the stack of `treehash` (which nothing calls), for
`merkle_sign` (also without a leaf, as in `merkle_gen_root`) and `fors_sign_tree`. Hashing two nodes under an address
yields the named node only if they are its children and otherwise `Junk`, so a wrong address, a stale stack entry or a
swapped order is visible in the root. Indices are computed modulo `UINT32_MODULUS`. `Pow2` (`1 << n`) and `Shr` (repeated `>>= 1`)
are recursive functions, which the proofs can unfold.

`WotsChain` searches a counter (an oracle deals a digest for each counter tried, and keeps to it), cuts the digest into digits, runs
all chains of every leaf with one of three callbacks (scalar, eight chains at a time, eight leaves at a time), and verifies.
A step of a chain under a wrong address gives `Junk`. `wots_gen_leafx1_avx2` is modelled too; with one value of the SIMD switch
per process `merkle_sign` never reaches it. `Cut` (the loop of `base_w`) and `Sums` (that of the checksum) are recursive functions.

### HashAddress
Every buffer of the signer and the verifier (`wots_addr`, `tree_addr`, `wots_pk_addr`, the FORS ones, eight lanes of each) as bytes
over the layout of `sha2_offsets.h`, with the narrowing of each setter. An operation writes only the fields the code writes. Each hash
call adds the pair (what it computes, address it carries) to `fresh`, finished operations' pairs are in `log`.
`Power`, `Pow2` and `Shr` (powers of a byte and of two, repeated `>>= 1`) are recursive functions; `ByteOf` is the narrowing of a setter.

### DigestFields and SignedMessage
`DigestFields` cuts a digest as `hash_message`, `message_to_indices` and the compressed index do. `Pow2` (`1 << n`) and `Sum` (the loops that or
the shifted bytes and bits together) are recursive functions. Numbers are unbounded: the code does not compile if the subtree needs more than 64 bits.
`SignedMessage` lays keys, signed message and message out in one memory: the caller chooses where `m` starts, a byte of the key
or of the signed message may be damaged in between, and the signed message may be truncated.

### KeyHeap and StackBurn
`KeyHeap`: blocks of one heap, the pointers of C structs, frames and Rust `Vec`s, and per struct the size
field. `malloc` may fail at every call. `bitcoin_pqc_secure_zero` zeroes as much as the length it is
given. `free` leaves the contents in place: that is what the residue property looks at. An
allocation of a Rust `Vec` that fails aborts the process, so the model lets it wait for a block instead.
What `hex::decode` returns to `SecretKey::from_str` (`src/lib.rs:144`) is a copy of the secret key in a plain `Vec`, which is dropped
unwiped. It counts as a secret, and `OnlyDecodedRemains` says that it is the only one that freed memory ever holds (section 6). `hex::decode` is external: it
returns one `Vec`, and what it allocates on the way there is not modelled.

`StackBurn`: frames of the entry points and of what they call, each slot holding a secret or not. The build chooses which static
functions are inlined; the attributes of `secure_zero.h` keep the wrappers and the burn itself out of line. `Burn` clears `BURN` slots
below the wrapper's frame.

### Sha2Stream, Sha2Rounds and Sha2Dispatch
`Sha2Stream`: real block sizes and real lengths (16, 32, 64, 22, 56, 20 bytes). A byte is its source and its
position, so a byte skipped, doubled or taken from the wrong lane changes the stream. `Store` makes a buffer
longer when a copy leaves it, which `TypeOK` then sees. The reference, `Fips`, pads a message as a
whole. `SIZE_BITS` is the width of `size_t`: entropy whose length with the metadata does not fit it (`TooLong`) is refused, as
`derive_keygen_seed_v1` does before it allocates.

`Sha2Rounds`: message words, working variables and round constants are terms; sigma, Ch, Maj and addition are uninterpreted. What is
checked is which word, constant and register every round uses: rotation of the eight registers, EXPAND in place, msg1/msg2 over
four rows, the x86 packing of the state, the transposition of eight lanes, chaining of blocks, and the bytes left over. A round constant is its index: that the
table holds the right values is not checked. `BlocksChain` is about every implementation but the ARM one, and about CommonCrypto for lengths a `CC_LONG` holds.

`Sha2Dispatch`: every build (production, knobs, which intrinsics, ARM, Apple), every CPU, every environment,
and threads that race for the first call. Loads and stores of the caches are separate
steps. Relaxed loads may miss another thread's store; the caches go from empty to one value
once, so a missed store looks like a load that came earlier.

## 3. Runs

| Run | Instance | Shows |
|---|---|---|
| `session_args` | 1 thread, argument defects alone and in pairs, stale flag from earlier calls | failure leaves nothing, statistics tell the outcome, salts are distinct, no output without a source, every call returns |
| `session_pair` | 2 threads, sound arguments | no dangling thread-local pointer, signing and verifying match the definition without loops (which fixes the search ranges: the signer's by its cap, the verifier's by 0xFFFF) |
| `session_doc` | 1 thread | violation: the documents say `randombytes` aborts (section 6) |
| `fors_workers` | 7 trees, requests 0..11, 32-bit cut at 9 | private regions, complete roots, no worker outlives the frame, refinement of `ForsPromise`, termination |
| `tree_hash` | heights 3..5, FORS trees 0..2, every leaf, three builders | the stack holds the siblings, all builders give the tree's path and root, the verifier's climb agrees |
| `hash_calls` | WOTS+C with 6 chains of 4 values, 8 leaves, 3 callbacks; addresses of 3 layers of height 4 and 2 FORS trees, 3 digests, 4 operations after key generation; digests with fields across bytes | the verifier completes the chains to the signer's tops, no other accepted digits lie above the published ones; two hash calls share an address exactly when they compute the same thing, the verifier hashes nothing the signer did not; digest bits decide one field each |
| `signed_message` | 2 seeds, texts of 0, 1 and 3 bytes, every placement, damage and truncation | what opens is what was signed, a rejection leaves nothing, the validator accepts exactly the keys whose signatures verify |
| `key_heap` | 1 C and 1 Rust thread, 5 blocks; stacks of a caller and 2 workers, 128 ways to inline | one owner per block, no secret in freed memory but what `SecretKey::from_str` decoded, callers see whole outputs or none; no secret on a stack after a return |
| `sha2_stream` | messages of 0..200 bytes, entropy of 128..511 with a `size_t` of 9 bits; all rounds of 7 implementations on 2 blocks | every digest is of the message meant, in every lane; registers and schedule follow FIPS 180-4 |
| `hidden_state` | 2 threads, all builds, CPUs and environments; random buffers of 0..64 bytes, requests of 0..48, any order of calls | no unhashed return, the meant implementation runs; requests read the buffer round and round without gap, stay inside both buffers, end, and leave the flag up when they could not be filled |
| `sha2_commoncrypto` | lengths around the 32-bit count | violation: CommonCrypto is given a truncated length (section 6) |

Four runs hold components that share no state, side by side: `hash_calls` (`HashCalls`: three of them), `key_heap` (`LibraryMemory`), `hidden_state`
(`HiddenState`) and `sha2_stream` (`Sha2Stream` and `Sha2Rounds`). A behaviour of such a run is of one of them
(variable `turn`), the others stay in an initial state; interleaving them would add nothing. The theorems about such a pair are about the same
specification as the run. The type invariant of a component is a property of its own or the first conjunct of one.

Every property of a passing run is shown able to fail by a mutated definition of the same module
(the definitions marked "Faulty variant"; `PROJECT.json`, `mutants`).

**Bounds and why they are enough.**
- `SPX_D = 2` has a first, a last and a next layer, which is all the layer loop distinguishes.
  The FORS+C cap of 3 and the WOTS+C cap of 1 in a range of 0..3 leave room before, at and past
  the cap; `CTR_MODULUS = 4` is the least that keeps the assumption that the cap is below the tweak's width.
  The five messages end each search in each possible way: at once (`quick`), on the last allowed try (`late`), one
  salt past the cap (`nosalt`), past the signing cap but in the verifier's range (`beyond`), never (`never`).
  Offers to the verifier add wrong keys, a flipped salt, corrupted regions, another message and a later counter.
- Two threads suffice for interference through thread-local state, which a call only sets for itself;
  defects in pairs exercise every order of two checks.
- A request of 48 bytes wraps a buffer of 3 sixteen times; the buffer sizes (0, 1, 3, 4, 64) include zero, one and ones that do and do not divide
  the requests (0 to 48); 64, 16 and 48 are the library's own. The theorems remove the bound.
- `fors_workers` uses the profile's real seven trees and requests on both sides of the clamp
  and of the 32-bit cut; the theorems remove the bound.
- Trees of 3, 4 and 5 levels have zero, one and two levels below the three that `treehashx8`
  treats specially. `UINT32_MODULUS = 256` is the least power of two above every index used. The theorems remove the bound
  for the trees.
- Six chains on four lanes leave the last group half empty; eight leaves are two groups; the digests hit the target, miss it, and exceed it; the limits
  of 0 and 1 fail and succeed.
- `BYTE = 7` in `hash_calls` is narrower than an index of the instance, so that the setters' narrowing and multi-byte fields matter. Three
  layers have a bottom, a middle and a top; four operations let two signatures and their verifications follow each other in the same buffers.
- Digests in bytes of five bits: no field ends with a byte, every part has bits to spare, the subtree takes two bytes. The theorem removes the bound.
- Memory of 13 cells holds the signed message with room on both sides, so `m` lies before, inside, over and behind it.
- Five blocks hold a C key pair in the making beside a Rust key pair, and run out at every allocation.
- `BURN = 7` is the depth of the deepest call below a wrapper, `DEPTH = 10` leaves room to miss it.
- Messages up to 200 bytes cross the edges of three SHA-256 blocks behind every prefix length;
  446 bytes of entropy, behind 65 of metadata, cross three SHA-512 edges, and are the most that a `size_t` of 9 bits lets pass. Two blocks chain; the rounds are all 64 or 80.

**Fairness.** `SignSession!FairSpec` has weak fairness of each thread's next library step: no call
waits for anything, so a scheduler that runs every runnable thread is enough. `ForsSign!FairSpec`
has weak fairness of the caller's steps and of each worker's; the only wait is
`pthread_join`, enabled once its worker has ended. `RandomSource` has weak fairness of the copy loop, which waits for nothing.
No fairness is assumed of callers.

Deadlock is checked in every run.

## 4. What is proved

`ForsSignProofs`, for every number of trees and every set of requests, from `ForsAssumption`
(at least one tree, fewer trees than the 32-bit range, requests are natural numbers):

| Theorem | States |
|---|---|
| `TypeCorrect` | `Spec => []TypeOK`: indices stay inside `threads[]` and `args[]`, no tree is signed twice |
| `RegionsPrivate` | `Spec => []NoSharedRegion` |
| `RootsAlwaysReady` | `Spec => []RootsReady`: when roots are hashed, all are there and nobody writes |
| `WorkersStayInFrame` | `Spec => []NoWorkerOutlivesFrame` |
| `KeepsPromise` | `Spec => PromiseSpec`: refinement of `ForsPromise`, each tree signed exactly once |

None of the properties is inductive. The invariant `Inv` adds:
- `Fresh`: before the launch loop nothing is started or signed;
- `LaunchLoop`: `launched = t` in the loop, and there are at least as many trees left as workers (so that no share is empty; `ShareBounds` is the
  arithmetic of the rounded division, proved once);
- `Ranges`: the workers started are those below `launched`; their ranges are ordered, disjoint and
  cover every tree below `start`;
- `Joined`: a worker ends with its range done, workers below the join index have ended, and after
  the join none runs;
- `SignedOnce`: a tree is signed exactly when its owner has gone past it;
- `InsideOwn`: whoever is inside a region owns that tree and is at it;
- `Derived`: the key exists exactly when the call has returned.

Each action has its lemma (`CallInv`, `LaunchInv`, `CallerInv`, `ScalarInv`, `ReturnInv`,
`WorkInv`, `WorkDoneInv`), split by conjunct. Privacy follows from `InsideOwn` and the disjointness of
ranges (`OneOwner`), readiness from `SignedOnce` and `Joined` (`AllSigned`), the refinement from
`LeaveSigns` and `StepSimulates`.

`HiddenStateProofs`, for any number of threads, from `DispatchAssumption` (the markers of an empty cache are none of the values), and for buffers
and requests of any size, from `SourceAssumption` (sizes are natural numbers):

| Theorem | States |
|---|---|
| `TypeCorrect` | `HiddenSpec => []HiddenTypeOK`: caches hold what their readers know; offset and position stay inside both buffers |
| `NoCallSkips` | `HiddenSpec => []NeverSkips` |
| `MeantCodeRuns` | `HiddenSpec => []RunsWhatIsMeant` |
| `StreamNeverJumps` | `HiddenSpec => []StreamIsCyclic`: the bytes handed out follow each other in the buffer, modulo its size |
| `FlagIsReliable` | `HiddenSpec => []FailsClosed`: a request that was not filled from a buffer leaves the flag up |

For the dispatch the argument is that every cache has one value it can take, fixed by build, CPU and environment
(`TheMode`, `TheOff`, `TheNi`, `Meant`), so it does not matter who fills it or how often: `Caches` says
that each is empty or holds that value, `Progress(t)` what thread `t` has learnt at each point of its selection, and
`Frame` that a step disturbs no other thread. `ValueTypes` has the point of `NoCallSkips`: x86 code
is meant only where its instructions are compiled in and present, ARM code never.

For the random source the inductive invariant `RandomInv` adds `Linked` and `Copying` to the three properties: they tie the offset to the bytes handed
out so far, modulo the size, and say that a request runs only over a buffer that exists. `ModAtEnd` has the arithmetic of the wrap at the end of
the buffer, `ChunkFits` the bounds of one copied chunk; one lemma per action follows (`SetupInv`, `RequestInv`, `CopyInv`, `ReturnInv`).

`SignSessionProofs`, for any number of threads, keys, messages, layers, any caps and any outcome of the hash functions. The assumptions,
named in `SignSession`: the grinding cap is positive and below the width of its tweak, the signing cap is within the verifier's counter range
(`CapAssumption`); NULL is no thread and no statistics struct, garbage bytes are no node (`NullAssumption`, `TermAssumption`); valid keys are
keys, defects are argument defects, a verifier is offered a buffer of the right length (`KeyAssumption`, `DefectAssumption`, `OfferAssumption`).

| Theorem | States |
|---|---|
| `TypeCorrect` | `Spec => []TypeOK` |
| `TlsNeverDangles` | `Spec => []NoDanglingTls`: both thread-local pointers are gone before the frame they point into |
| `GrindingSaltsDistinct` | `Spec => []SaltsDistinct` |
| `SigningCorrect` | `Spec => []SignMatchesReference`: the one signature the caps allow, or the limit error |
| `VerificationCorrect` | `Spec => []VerifyMatchesReference`: exactly the genuine signatures |
| `FailureIsClean` | `Spec => []FailureLeavesNothing` |
| `StatisticsCorrect` | `Spec => []StatsTellOutcome` |
| `NoSourceFailsClosed` | `Spec => []NoSourceNoOutput` |

The invariant is `TypeOK` and, for each thread by itself, `Mine(t)`. `TlsOK` is the reason that this works: a thread-local pointer is set exactly
between the actions that set and detach it and points at the thread's own frame, so a step of one thread disturbs nothing another's part mentions (`Frame`).
The other parts follow a call: `CallOK` (which calls get past which check), `SeedOK`, `SignOK` and `VerifyOK` (what the loops have
tried without success, `NoSaltBelow` and `NoCounterBelow`, and which layers are done), `OutcomeOK`, `WipeOK`, `StatsOK`. The loops are related to the definitions
without loops by `SearchFinds`, `SearchExhausted`, `NextLayerDone` and `AllLayersDone`. `VerificationCorrect` needs
that no statistics pointer is set during `crypto_sign_verify`, which is in `TlsOK`.

`KeyHeapProofs`, for any number of C and Rust threads and any heap, from `HeapAssumption` (a thread is C or Rust, NULL is no block); and for any number
of workers, from `StackAssumption` (the burn is at least seven slots, the stack eight: the deepest calls below a wrapper use seven):

| Theorem | States |
|---|---|
| `TypeCorrect` | `Spec => []TypeOK` |
| `HeapOwned` | `Spec => []OneOwner` |
| `SecretsWiped` | `Spec => []OnlyDecodedRemains` |
| `CLeavesNoSecret` | without Rust callers no free block ever holds a secret |
| `CallersSeeWholes` | `Spec => []WholeOrNothing` |
| `StackLeftClean` | `MemorySpec => []NothingLeftBehind`, for every set of inlined functions |

The invariant adds `Shape` (which pointers of a thread are set, where it is in the code, and that a struct's size field is that of its block) and
`Held` (what the blocks behind them contain). That a step keeps the others' parts follows from `OneOwner` itself and is proved
once for each way of treating the heap: `Acquire` (malloc, new `Vec`), `Release` (wipe and free, drop), `Rearrange` (a pointer
moves from a frame into a struct).

For the stacks, `StackInv` says that frames lie where the calls above them put them (`FramesFit`), that every secret on a stack is in a slot the burn
will reach or belongs to a running function that wipes it (`SecretsInReach`), and that workers run only below `fors_sign` (`WorkersInside`). Inlining
moves a function's locals into its caller's frame, which is why the bound on slots, not the shape of the stack, is the invariant.

`SignedMessageProofs`, for fields of any size, any texts and any memory that holds them, from `LayoutAssumption` (texts and seeds are byte
sequences, a seed has three fields, the longest signed message fits the memory):

| Theorem | States |
|---|---|
| `OpeningCorrect` | `Spec => []OpensWholeOrNothing` |
| `ValidatorExact` | `Spec => []ValidatedKeyVerifies` |

The copies of `crypto_sign` and `crypto_sign_open` may overlap, so the argument is by byte: `Vec` and the lemmas after it say what
`memmove`, `memset` and concatenation do at each address. The invariant says what the memory holds at each step: `Whole` (a
signature that answers the digest of itself, the key and the text, the text behind it), zeros after a failure, and after
damage something that `Rejects` under the keys, which rests on the hashes being one-to-one terms (`HashOneToOne`).

`TreeHashProofs`, for every height from three on, any FORS trees and every leaf, from `TreeAssumption` (eight trees of the height, and the trees counted
together, stay within 32 bits):

| Theorem | States |
|---|---|
| `TreeBuilt` | `Spec => []BuildsTheTree`: root, path and opening, by all three builders |
| `SiblingsWait` | `Spec => []StackHoldsSiblings` |
| `VerifierReachesRoot` | `Spec => []VerifierAgrees` |

`Pow2` and `Shr` are recursive, so the module first proves induction over a set of numbers (`Induct`) and that recursion defines a function (`Recursion`), both without a
parameter that is an operator; then the shifts: what `idx + 1` carries into (`Carry`), when all bits are ones (`AllOnes`, `LastOnes`), that an
offset of whole trees halves exactly (`OffsetFacts`), that no index wraps (`IndexFits`). The invariant has one part per builder:
`LoopX1` (a left sibling waits at each level where `idx` has a one), `LoopX8` (eight at a time; in the top three levels the
real nodes are the last `Pow2[H - h]` lanes) and `LoopPile` (the heights on the stack are the ones of `idx`, in falling order, which bounds the stack).
`PathNow` says which nodes of the path have been met after `n` leaves and `r` levels, in the same words for all three; `OpenedOK` when the leaf's secret part
is published; `ClimbOK` what `compute_root` has in hand. The lane `treehashx8` copies to the path is treated in `PathLane`, the
lanes it hashes in `LanesBelow` and `LanesTop`.

`HashCallsProofs`, for `WotsChain` with any size of digest, digit, lane group and subtree, any limit and any outcome of the hash function
(`WotsAssumption`: digits divide a byte, lane groups a subtree, limits lie in the counter's range), and for `HashAddress` with any heights, layers, trees and
chains that the address fields hold (`AddressAssumption`: a byte holds layers, heights, chains and steps, eight bytes the tree index, four the others),
and for `DigestFields` with bytes and fields of any size (`FieldsAssumption`: a byte has bits, there is a layer, and MGF1 yields bytes):

| Theorem | States |
|---|---|
| `VerifierCompletesSignature` | `Spec => []SignatureCompletes`, by all three leaf callbacks |
| `FixedSumProtects` | `Spec => []NoSignatureFromAnother` |
| `DomainSeparation` | `HashSpec => []AddressNamesRole` |
| `VerificationRetracesSigning` | `HashSpec => []VerifierRetraces` |
| `FieldsIndependent` | `HashSpec => []EveryBitDecidesOnce`: no bit decides two fields, as many decide one as the fields have |

For the chains: `CutPlaces` follows the bit pointer of `base_w`, so that digits are digits; `SearchInv` says which counters missed, `LeafInv` which chains
of which leaves have which value when a lane group is hashed, `VerifyInv` how far the verifier has completed. That a fixed sum protects rests on
`ChecksumFalls`: digits that are nowhere below others, and above them somewhere, have a smaller checksum.

For the addresses: an address is taken apart into the fields of `sha2_offsets.h`; `Separates` shows that the bytes of the fields determine
layer, tree, type, key pair, height, index and so the role, `ByteOf` being one-to-one on numbers that fit. `AddrInv` is `TypeOK`, `Places` (where in a call
each loop is), `TreeBuffers`, `ForsBuffers` and `LayerBuffers` (which fields of which buffer are right, and which are zero because
nothing of that type has set them, at each point) and `Recorded` (every call made carries the name of its role). `RetraceInv` says that the call is on the path of
its digest (`OnPath`), which nodes of a tree have been hashed after so many leaves (`ForsProgress`, `TreeProgress`), and that what has been signed is
complete (`SignedHas`); `NodeCovered`, `PathIs` and `NodesDone` relate the order in which the scalar and the eight-lane builder complete
nodes to the nodes the verifier's climb computes.

For the digest: `TurnedBits` has what turning a bit over does to the bits of a number, `SumChange` to a sum of shifted bits or bytes, `ModChange` to its
lowest bits. So a field changes exactly with the bits in `Deciding` (`FlippedBits` for the fields read low bit first, `FlippedMasked` for
those read big-endian and masked; `ChangedIs`). `DecidesOne` shows that these sets are disjoint, `CellsCount` and `SpotsCount` count them by a bijection
with an interval for each part of the digest. The invariant is `DigestFields!TypeOK`.

`Sha2StreamProofs`, for messages, entropy and hash inputs of any length, from `LengthAssumption` (lengths are natural numbers, entropy is at least the 128 bytes
`bitcoin_pqc_keygen` demands, counters have 16 bits, `size_t` at most 64):

| Theorem | States |
|---|---|
| `TypeCorrect` | `Spec => []TypeOK`: no copy leaves the buffers of `gen_message_random` and `hash_message` |
| `DigestsCorrect` | `Spec => []DigestsWhatIsMeant` |

Streams are compared byte by byte. `Layout` says where message, `0x80`, zeros and length of a padded stream lie, and `LayoutUnique` that
this determines the stream; `FipsLayout`, `Finalize` and `LaneFinalize` give the reference, `sha256_inc_finalize`/`sha512_inc_finalize` and the eight-lane final
functions that layout. What is left for each function of the library is that the bytes absorbed ahead and those given to finalize are, one behind the other, the
message meant (`Join`, `TwoParts`, `Parts`; `HmacLongIs`, `HMsgLongIs`, `KeygenIs`, `EightLanes` and the other `...Is` lemmas). `ShrTimes8`
and `ShrStaysZero` have the two halves of the length field: it counts bits, and a length a `size_t` holds leaves its upper bytes zero. The inductive invariant `Inv` says
that the state has absorbed whole blocks (`Blocks`), which block is in the buffer between two steps (`HmacBuffer`, `HMsgBuffer`, `Seeded`), and that the
digests taken so far are right.

Only model-checked:
- liveness (`EveryCallReturns`, `CallReturns`, `ReadReturns`): outside the prover;
- `Sha2Rounds` (`WorkingVariables`, `BlocksChain`): words are bags of nested terms that are read back by name (`Named`), eight to 80 rows of
  them per implementation; its instance is already the real thing but for the number of blocks.

## 5. What is not modelled

- The bits of the rotations, of Ch and Maj and of the round constants (`Sha2Rounds` has them as symbols): beyond a model checker, tested by
  known answers in the repository.
- `mgf1_256`, `mgf1_512`, `mgf1x8`: nothing calls them (`mgf1_X_cached` is in `Sha2Stream`). `thashx8_512` and the checksum
  chains of plain WOTS+: not compiled with this parameter set.
- The contents of lanes of `treehashx8` beyond the real ones in the top levels: `Junk`.
- `spx_opt_disable_simd` and `spx_has_avx2`: the same form as the SHA-2 switch in `Sha2Dispatch`; both answers are inputs of the modules that depend on them.
- Stack frames deeper than the burn, which `secure_zero.h` itself does not claim to cover, and compilers that are neither GCC, Clang nor
  MSVC, for which the attributes that keep the burn out of line are empty; link-time optimisation across source files.
- Rust formatting, hex encoding, serde (with the feature `secret-key-serde` the hexadecimal `String`s of a secret key, which are dropped unwiped too), the conversion of the statistics; the test helpers (they call functions modelled where they
  are defined); the parameter bench (timing and reporting).

## 6. Findings

1. `README.md:208` and `docs/side-channel-policy.md:76` say that `randombytes` without a configured
   source aborts the process instead of returning zero-filled bytes. The code
   (`src/slh_dsa/utils.c:77`) raises a flag, fills the buffer with zeros and returns; its callers
   check the flag and fail. `session_doc` exhibits the zero-filled seed in `crypto_sign_keypair`;
   `NoSourceNoOutput` shows that neither a key nor a salt is ever made of it.
2. `spx_cc_sha256_hashblocks` (`sphincsplus/ref/sha2.c:546`) casts the byte count to CommonCrypto's 32-bit `CC_LONG` and reports all of it as
   hashed, while `tests/backend_differential_tests.rs:545` says that signatures are byte-identical across backends. `sha2_commoncrypto`
   shows a message of 2^32 bytes or more (here 256) hashed in part, on Apple only.

Three observations without a run of their own. `SecretKey::from_str` (`src/lib.rs:143`) leaves a copy of the secret key in freed memory, on success and on error: the
`Vec` it decodes to is not wiped, while the `SecretKey` it is copied to is `ZeroizeOnDrop`. No document promises otherwise, so this is no divergence; `OnlyDecodedRemains`
and `SecretsWiped` state it as the one exception. The ARM block function, which is disabled "until the backend passes differential/KAT validation"
(`sha2_armv8_sha.c:185`), passes its working variables to the round instructions in the wrong order (`SPX_SHA256_ROUND4`, line 78): its message schedule is
checked by `WorkingVariables`, its registers would fail it. And `api.h:42` gives the public key as `[root || PUB_SEED]`; `sign.c:78` writes
`[PUB_SEED || root]`, as the comment above it says.

## 7. Plan

Done, in this order: `SignSession` (the most important behaviour: what signing and verifying return under
threads, caps and failures), `ForsSign` with `ForsPromise` and its proofs, `TreeHash`, `KeyHeap`,
`Sha2Stream`, `Sha2Dispatch` with its proofs; then `RandomSource` with its proofs, `Sha2Rounds`, `HashAddress`, `WotsChain`, `DigestFields`,
`SignedMessage`, `StackBurn`.

Proved since: all safety properties of `SignSession`, `KeyHeap`, `SignedMessage` and `TreeHash`; then those of `StackBurn`, `WotsChain`,
`HashAddress`, `Sha2Stream` and `DigestFields`.

Next, prove: the chaining of blocks in `Sha2Rounds`, with the rounds of one block as an uninterpreted function.

Next, model: an abstract signing service (`sign` returns the one signature or the limit error, atomically) that
`SignSession` refines.
