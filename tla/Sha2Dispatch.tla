---------------------------- MODULE Sha2Dispatch ----------------------------
(***************************************************************************)
(* Which SHA-2 code a process runs, and whether it runs at all.            *)
(*                                                                         *)
(* crypto_hashblocks_sha256 and crypto_hashblocks_sha512 pick an           *)
(* implementation at their first call, from the build, the CPU and, in     *)
(* builds for tests and benchmarks, the environment.  Every answer on the  *)
(* way is kept in a static variable that any thread may fill: the backend  *)
(* mode, the switch that turns acceleration off, the CPU tests, and the    *)
(* function pointer itself.  There is no lock, so threads may all find     *)
(* them empty.  An accelerated implementation that finds its instructions  *)
(* unusable returns without hashing anything and nobody looks at what it   *)
(* returns: the choice must be right before it is called.                  *)
(*                                                                         *)
(* The variables are atomics that go once from empty to a value; a load    *)
(* that misses a store finds them empty, as if it had come first.          *)
(***************************************************************************)
EXTENDS Integers

CONSTANTS
    Threads,
    NULL,                             \* no implementation chosen yet
    EMPTY                             \* a cache before its first store, -1

ASSUME DispatchAssumption ==
    /\ NULL \notin {"ref", "x86", "arm", "commoncrypto"}
    /\ EMPTY \notin {"AUTO", "SCALAR", "ARM", "X86", "COMMONCRYPTO"}
    /\ EMPTY \notin {0, 1}

Hashes == {"sha256", "sha512"}
Impls == {"ref", "x86", "arm", "commoncrypto"}
Modes == {"AUTO", "SCALAR", "ARM", "X86", "COMMONCRYPTO"}

\* CMake options and compiler: SPX_PRODUCTION_BUILD and the environment knobs
\* exclude each other; the intrinsics of each hash; the ARM code; Apple.
Builds ==
    {b \in [production : BOOLEAN, knobs : BOOLEAN, x86 : SUBSET Hashes,
            arm : BOOLEAN, apple : BOOLEAN] :
        /\ ~(b.production /\ b.knobs)
        /\ b.arm => b.x86 = {}}

\* SPX_DISABLE_SHA_ACCEL or SPX_OPT_PROFILE=scalar, and SPX_SHA_BACKEND: one
\* word for each mode, and one for all it does not know, unset included.
Environments == [off : BOOLEAN, backend : {"auto", "scalar", "arm", "x86", "cc", "other"}]

VARIABLES
    build, cpu, env,                  \* fixed: the build, what the CPU can do
    cached_mode, cached_off,          \* the statics of opt_flags.h
    ni_available,                     \* spx_sha256_ni_available, ..512..
    hashblocks_impl,                  \* spx_sha256_hashblocks_impl, ..512..
    pc, h, mode, off, ni, impl,       \* the locals of each thread's call
    ran                               \* what its last call ran on its blocks

machine == <<build, cpu, env>>
statics == <<cached_mode, cached_off, ni_available, hashblocks_impl>>
locals  == <<h, mode, off, ni, impl>>
vars    == <<machine, statics, pc, locals, ran>>

Goto(t, l) == pc' = [pc EXCEPT ![t] = l]

----------------------------------------------------------------------------
(* spx_sha256_get_hashblocks_impl                                          *)

\* A thread hashes some blocks: load the pointer, choose if there is none.
LoadImpl(t) ==
    \E x \in Hashes :
      /\ pc[t] = "idle"
      /\ h' = [h EXCEPT ![t] = x]
      /\ impl' = [impl EXCEPT ![t] = hashblocks_impl[x]]
      /\ Goto(t, IF hashblocks_impl[x] = NULL THEN "mode" ELSE "run")
      /\ ran' = [ran EXCEPT ![t] = "nothing yet"]
      /\ UNCHANGED <<machine, statics, mode, off, ni>>

StoreImpl(t) ==
    /\ pc[t] = "store"
    /\ hashblocks_impl' = [hashblocks_impl EXCEPT ![h[t]] = impl[t]]
    /\ Goto(t, "run")
    /\ UNCHANGED <<machine, cached_mode, cached_off, ni_available, locals, ran>>

----------------------------------------------------------------------------
(* spx_opt_sha_backend_mode                                                *)

\* Two of the three builds answer without the environment.
LoadMode(t) ==
    /\ pc[t] = "mode"
    /\ mode' = [mode EXCEPT ![t] = IF build.production THEN "SCALAR"
                                   ELSE IF ~build.knobs THEN "AUTO"
                                   ELSE cached_mode]
    /\ Goto(t, IF mode'[t] = EMPTY THEN "mode_env" ELSE "off")
    /\ UNCHANGED <<machine, statics, h, off, ni, impl, ran>>

Backends == [auto |-> "AUTO", scalar |-> "SCALAR", arm |-> "ARM", x86 |-> "X86",
             cc |-> "COMMONCRYPTO"]

BackendMode(w) == IF w \in DOMAIN Backends THEN Backends[w] ELSE "AUTO"

StoreMode(t) ==
    /\ pc[t] = "mode_env"
    /\ mode' = [mode EXCEPT ![t] = BackendMode(env.backend)]
    /\ cached_mode' = BackendMode(env.backend)
    /\ Goto(t, "off")
    /\ UNCHANGED <<machine, cached_off, ni_available, hashblocks_impl, h, off, ni,
                   impl, ran>>

----------------------------------------------------------------------------
(* spx_opt_disable_sha_accel                                               *)

LoadOff(t) ==
    /\ pc[t] = "off"
    /\ off' = [off EXCEPT ![t] = cached_off]
    /\ Goto(t, IF cached_off = EMPTY THEN "off_env" ELSE "select")
    /\ UNCHANGED <<machine, statics, h, mode, ni, impl, ran>>

\* Faulty variant: the default is stored before the environment is read.
ReadOff_Early(t) ==
    /\ pc[t] = "off_env"
    /\ off' = [off EXCEPT ![t] = IF build.knobs /\ env.off THEN 1 ELSE 0]
    /\ cached_off' = 0
    /\ Goto(t, "off_store")
    /\ UNCHANGED <<machine, cached_mode, ni_available, hashblocks_impl, h, mode, ni,
                   impl, ran>>

\* Without the knobs the environment reads as unset.
ReadOff(t) ==
    /\ pc[t] = "off_env"
    /\ off' = [off EXCEPT ![t] = IF build.knobs /\ env.off THEN 1 ELSE 0]
    /\ Goto(t, "off_store")
    /\ UNCHANGED <<machine, statics, h, mode, ni, impl, ran>>

StoreOff(t) ==
    /\ pc[t] = "off_store"
    /\ cached_off' = off[t]
    /\ Goto(t, "select")
    /\ UNCHANGED <<machine, cached_mode, ni_available, hashblocks_impl, locals, ran>>

----------------------------------------------------------------------------
(* spx_sha256_select_hashblocks_impl                                       *)

\* What is left when no instructions can be used.
Fallback == IF build.apple THEN "commoncrypto" ELSE "ref"

Choose(t, i) ==
    /\ impl' = [impl EXCEPT ![t] = i]
    /\ Goto(t, "store")
    /\ UNCHANGED <<machine, statics, h, mode, off, ni, ran>>

\* spx_sha2_arm_can_use_sha256: kept off until the code is validated.
ArmCanUse(x) == FALSE

Arm(x) == build.arm /\ ArmCanUse(x)

\* Switched off, or a backend that looks at no cached test.
SelectFixed(t) ==
    /\ pc[t] = "select"
    /\ \/ (off[t] = 1 \/ mode[t] = "SCALAR") /\ Choose(t, "ref")
       \/ off[t] = 0 /\ mode[t] = "ARM" /\ Choose(t, IF Arm(h[t]) THEN "arm" ELSE "ref")
       \/ off[t] = 0 /\ mode[t] = "COMMONCRYPTO" /\ Choose(t, Fallback)

\* Faulty variant: the mode is taken for the answer.
SelectX86_Trusting(t) ==
    /\ pc[t] = "select"
    /\ off[t] = 0
    /\ mode[t] \in {"X86", "AUTO"}
    /\ IF mode[t] = "X86" THEN Choose(t, "x86")
       ELSE Goto(t, "ni") /\ UNCHANGED <<machine, statics, locals, ran>>

\* x86 when asked for, and before the others when nothing is.
SelectX86(t) ==
    /\ pc[t] = "select"
    /\ off[t] = 0
    /\ mode[t] \in {"X86", "AUTO"}
    /\ Goto(t, "ni")
    /\ UNCHANGED <<machine, statics, locals, ran>>

\* spx_sha2_x86_can_use_sha256_ni: without the intrinsics there is no cache.
LoadNi(t) ==
    /\ pc[t] = "ni"
    /\ ni' = [ni EXCEPT ![t] = IF h[t] \in build.x86 THEN ni_available[h[t]] ELSE 0]
    /\ Goto(t, IF ni'[t] = EMPTY THEN "ni_detect" ELSE "ni_known")
    /\ UNCHANGED <<machine, statics, h, mode, off, impl, ran>>

\* spx_detect_sha256_ni() ? 1 : 0
Detected(x) == IF x \in cpu THEN 1 ELSE 0

DetectNi(t) ==
    /\ pc[t] = "ni_detect"
    /\ ni' = [ni EXCEPT ![t] = Detected(h[t])]
    /\ ni_available' = [ni_available EXCEPT ![h[t]] = Detected(h[t])]
    /\ Goto(t, "ni_known")
    /\ UNCHANGED <<machine, cached_mode, cached_off, hashblocks_impl, h, mode, off,
                   impl, ran>>

SelectByCpu(t) ==
    /\ pc[t] = "ni_known"
    /\ Choose(t, IF ni[t] = 1 THEN "x86"
                 ELSE IF mode[t] = "X86" THEN "ref"
                 ELSE IF Arm(h[t]) THEN "arm" ELSE Fallback)

----------------------------------------------------------------------------
\* The implementation runs on at least one block.  The x86 code asks
\* can_use again, which fills the cache if it is empty, and returns at once
\* if it says no; so does the ARM code.
Run(t) ==
    LET x == h[t]
        asks == impl[t] = "x86" /\ x \in build.x86
        answer == IF ni_available[x] = EMPTY THEN Detected(x) ELSE ni_available[x]
        usable == /\ impl[t] = "x86" => asks /\ answer = 1
                  /\ impl[t] = "arm" => Arm(x)
    IN  /\ pc[t] = "run"
        /\ ran' = [ran EXCEPT ![t] = IF usable THEN impl[t] ELSE "skipped"]
        /\ ni_available' = IF asks THEN [ni_available EXCEPT ![x] = answer]
                           ELSE ni_available
        /\ Goto(t, "idle")
        /\ UNCHANGED <<machine, cached_mode, cached_off, hashblocks_impl, locals>>

Init ==
    /\ build \in Builds
    /\ cpu \in SUBSET build.x86
    /\ env \in Environments
    /\ cached_mode = EMPTY
    /\ cached_off = EMPTY
    /\ ni_available = [x \in Hashes |-> EMPTY]
    /\ hashblocks_impl = [x \in Hashes |-> NULL]
    /\ pc = [t \in Threads |-> "idle"]
    /\ h = [t \in Threads |-> "sha256"]
    /\ mode = [t \in Threads |-> EMPTY]
    /\ off = [t \in Threads |-> EMPTY]
    /\ ni = [t \in Threads |-> EMPTY]
    /\ impl = [t \in Threads |-> NULL]
    /\ ran = [t \in Threads |-> "nothing yet"]

Next ==
    \E t \in Threads :
      \/ LoadImpl(t) \/ LoadMode(t) \/ StoreMode(t) \/ LoadOff(t) \/ ReadOff(t)
      \/ StoreOff(t) \/ SelectFixed(t) \/ SelectX86(t) \/ LoadNi(t) \/ DetectNi(t)
      \/ SelectByCpu(t) \/ StoreImpl(t) \/ Run(t)

Spec == Init /\ [][Next]_vars

----------------------------------------------------------------------------
(* Properties.                                                             *)

\* A cache is empty or holds a value its readers understand.
TypeOK ==
    /\ cached_mode \in Modes \cup {EMPTY}
    /\ cached_off \in {EMPTY, 0, 1}
    /\ ni_available \in [Hashes -> {EMPTY, 0, 1}]
    /\ hashblocks_impl \in [Hashes -> Impls \cup {NULL}]
    /\ pc \in [Threads -> {"idle", "mode", "mode_env", "off", "off_env", "off_store",
                           "select", "ni", "ni_detect", "ni_known", "store", "run"}]

\* No call of crypto_hashblocks returns with its blocks unhashed, for any
\* build, CPU, environment and race for the first call.  (The accelerated
\* functions return silently when they cannot be used.)
NeverSkips == \A t \in Threads : ran[t] # "skipped"

\* The implementation meant for a build: production builds run the reference
\* code, others the fastest that is there, and the environment counts only
\* with the knobs.
Meant(x) ==
    LET x86   == x \in build.x86 \cap cpu
        asked == IF build.knobs THEN env.backend ELSE "auto"
    IN  IF \/ build.production
           \/ build.knobs /\ env.off
           \/ asked \in {"scalar", "arm"}
           \/ asked = "x86" /\ ~x86
        THEN "ref"
        ELSE IF x86 /\ asked # "cc" THEN "x86" ELSE Fallback

\* Whoever wins the race for the first call, every call that hashes runs the
\* code that is meant for the build, the CPU and the environment.
RunsWhatIsMeant ==
    \A t \in Threads : ran[t] \in Impls => ran[t] = Meant(h[t])
=============================================================================
