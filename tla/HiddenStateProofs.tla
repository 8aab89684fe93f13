------------------------- MODULE HiddenStateProofs -------------------------
(***************************************************************************)
(* Proofs about what the library keeps between calls.                      *)
(*                                                                         *)
(* Sha2Dispatch, for any number of threads: no race for the first call     *)
(* makes a call skip its blocks or run the wrong code.  Every cache has    *)
(* one value it can take, the same for every thread, fixed by the build,   *)
(* the CPU and the environment.  So it does not matter who fills it, or    *)
(* how often.                                                              *)
(*                                                                         *)
(* RandomSource, for every set of buffer and request sizes: the offset is  *)
(* always the byte behind the last one handed out.                         *)
(***************************************************************************)
EXTENDS HiddenState, TLAPS

TheMode == IF build.production THEN "SCALAR"
           ELSE IF ~build.knobs THEN "AUTO" ELSE BackendMode(env.backend)
TheOff == IF build.knobs /\ env.off THEN 1 ELSE 0
TheNi(x) == IF x \in build.x86 THEN Detected(x) ELSE 0

\* The machine does not change, and is one there can be.
Machine ==
    /\ build.production \in BOOLEAN /\ build.knobs \in BOOLEAN
    /\ ~(build.production /\ build.knobs)
    /\ env.off \in BOOLEAN
    /\ env.backend \in {"auto", "scalar", "arm", "x86", "cc", "other"}
    /\ cpu \subseteq build.x86

\* A cache is empty or holds the one value it can have.
Caches ==
    /\ cached_mode \in {EMPTY, TheMode}
    /\ cached_off \in {EMPTY, TheOff}
    /\ ni_available \in [Hashes -> {EMPTY, 0, 1}]
    /\ \A x \in Hashes : ni_available[x] \in {EMPTY, Detected(x)}
    /\ hashblocks_impl \in [Hashes -> Impls \cup {NULL}]
    /\ \A x \in Hashes : hashblocks_impl[x] \in {NULL, Meant(x)}

PCs == {"idle", "mode", "mode_env", "off", "off_env", "off_store", "select", "ni",
        "ni_detect", "ni_known", "store", "run"}

Locals ==
    /\ pc \in [Threads -> PCs]
    /\ h \in [Threads -> Hashes]
    /\ mode \in [Threads -> Modes \cup {EMPTY}]
    /\ off \in [Threads -> {EMPTY, 0, 1}]
    /\ ni \in [Threads -> {EMPTY, 0, 1}]
    /\ impl \in [Threads -> Impls \cup {NULL}]
    /\ ran \in [Threads -> Impls \cup {"nothing yet", "skipped"}]

\* What a thread has found out on its way through the selection.
Progress(t) ==
    /\ pc[t] = "mode_env" => TheMode = BackendMode(env.backend)
    /\ pc[t] \in {"off", "off_env", "off_store", "select", "ni", "ni_detect", "ni_known"} =>
          mode[t] = TheMode
    /\ pc[t] \in {"off_store", "select"} => off[t] = TheOff
    /\ pc[t] \in {"ni", "ni_detect", "ni_known"} =>
          TheOff = 0 /\ TheMode \in {"X86", "AUTO"}
    /\ pc[t] = "ni_detect" => h[t] \in build.x86
    /\ pc[t] = "ni_known" => ni[t] = TheNi(h[t])
    /\ pc[t] \in {"store", "run"} => impl[t] = Meant(h[t])
    /\ ran[t] \in {"nothing yet", Meant(h[t])}

Inv == Machine /\ Caches /\ Locals /\ \A t \in Threads : Progress(t)

\* The constants of a behaviour.
LEMMA Fixed ==
    ASSUME UNCHANGED machine
    PROVE  /\ TheMode' = TheMode /\ TheOff' = TheOff
           /\ \A x : TheNi(x)' = TheNi(x) /\ Meant(x)' = Meant(x) /\ Detected(x)' = Detected(x)
           /\ Machine' <=> Machine
  BY DEF machine, TheMode, TheOff, TheNi, Meant, Detected, Machine, Fallback, BackendMode

\* The values the caches can have are ones their readers know.
LEMMA ValueTypes ==
    Machine => /\ TheMode \in Modes /\ TheOff \in {0, 1}
               /\ \A x : TheNi(x) \in {0, 1} /\ Detected(x) \in {0, 1}
               /\ \A x : Meant(x) \in Impls \ {"arm"}
               /\ \A x : Meant(x) = "x86" => x \in build.x86 /\ Detected(x) = 1
  <1> SUFFICES ASSUME Machine PROVE
        /\ TheMode \in Modes /\ TheOff \in {0, 1}
        /\ \A x : TheNi(x) \in {0, 1} /\ Detected(x) \in {0, 1}
        /\ \A x : Meant(x) \in Impls \ {"arm"}
        /\ \A x : Meant(x) = "x86" => x \in build.x86 /\ Detected(x) = 1
    OBVIOUS
  <1>1. TheMode \in Modes
    BY DEF TheMode, Modes, BackendMode, Backends, Machine
  <1>2. TheOff \in {0, 1} /\ \A x : TheNi(x) \in {0, 1} /\ Detected(x) \in {0, 1}
    BY DEF TheOff, TheNi, Detected
  <1>3. \A x : Meant(x) \in Impls \ {"arm"}
    BY DEF Meant, Impls, Fallback
  <1>4. \A x : Meant(x) = "x86" => x \in build.x86 /\ Detected(x) = 1
    BY DEF Meant, Fallback, Detected
  <1> QED BY <1>1, <1>2, <1>3, <1>4

\* All caches start empty.
LEMMA InitInv == Init => Inv
  <1> SUFFICES ASSUME Init PROVE Inv
    OBVIOUS
  <1> USE DispatchAssumption
  <1>1. Machine
    <2>1. PICK b \in [production : BOOLEAN, knobs : BOOLEAN, x86 : SUBSET Hashes,
                      arm : BOOLEAN, apple : BOOLEAN] : build = b /\ ~(b.production /\ b.knobs)
      BY DEF Init, Builds
    <2>2. env.off \in BOOLEAN /\ env.backend \in {"auto", "scalar", "arm", "x86", "cc", "other"}
      BY Zenon DEF Init, Environments
    <2>3. build.production \in BOOLEAN /\ build.knobs \in BOOLEAN
      BY <2>1, Zenon
    <2> QED BY <2>1, <2>2, <2>3 DEF Machine, Init
  <1>2. Caches
    BY DEF Init, Caches, Hashes
  <1>3. Locals
    BY DEF Init, Locals, PCs, Hashes, Modes, Impls
  <1>4. \A t \in Threads : Progress(t)
    BY DEF Init, Progress
  <1> QED BY <1>1, <1>2, <1>3, <1>4 DEF Inv

\* What a thread's step leaves of the others.
Own(t) ==
    /\ pc' \in [Threads -> PCs] /\ h' \in [Threads -> Hashes]
    /\ mode' \in [Threads -> Modes \cup {EMPTY}] /\ off' \in [Threads -> {EMPTY, 0, 1}]
    /\ ni' \in [Threads -> {EMPTY, 0, 1}] /\ impl' \in [Threads -> Impls \cup {NULL}]
    /\ ran' \in [Threads -> Impls \cup {"nothing yet", "skipped"}]
    /\ \A u \in Threads \ {t} :
          /\ pc'[u] = pc[u] /\ h'[u] = h[u] /\ mode'[u] = mode[u] /\ off'[u] = off[u]
          /\ ni'[u] = ni[u] /\ impl'[u] = impl[u] /\ ran'[u] = ran[u]

\* An action keeps the invariant if it keeps the caches and its own thread.
LEMMA Frame ==
    ASSUME NEW t \in Threads, Inv, UNCHANGED machine, Own(t), Caches', Progress(t)'
    PROVE  Inv'
  <1>1. Machine' /\ Locals'
    BY Fixed DEF Inv, Own, Locals
  <1>2. ASSUME NEW u \in Threads PROVE Progress(u)'
    <2>1. CASE u = t
      BY <2>1
    <2>2. CASE u # t
      <3>1. Progress(u) /\ h'[u] = h[u]
        BY <2>2 DEF Inv, Own
      <3>2. build' = build /\ env' = env
        BY DEF machine
      <3>3. /\ TheMode' = TheMode /\ TheOff' = TheOff
            /\ TheNi(h[u])' = TheNi(h[u]) /\ Meant(h[u])' = Meant(h[u])
        <4>1. /\ TheMode' = TheMode /\ TheOff' = TheOff
              /\ \A x : TheNi(x)' = TheNi(x) /\ Meant(x)' = Meant(x)
          BY Fixed
        <4> QED BY <3>1, <3>2, <4>1 DEF TheNi, Meant, Detected, Fallback
      <3>4. /\ pc'[u] = pc[u] /\ mode'[u] = mode[u] /\ off'[u] = off[u]
            /\ ni'[u] = ni[u] /\ impl'[u] = impl[u] /\ ran'[u] = ran[u]
        BY <2>2 DEF Own
      <3> QED BY <3>1, <3>2, <3>3, <3>4 DEF Progress
    <2> QED BY <2>1, <2>2
  <1> QED BY <1>1, <1>2 DEF Inv

----------------------------------------------------------------------------
(* One lemma per action.                                                   *)

\* A pointer that is there is the one that is meant.
LEMMA LoadImplInv == ASSUME NEW t \in Threads, Inv, LoadImpl(t) PROVE Inv'
  <1> USE DispatchAssumption
  <1>1. UNCHANGED machine
    BY DEF LoadImpl
  <1>2. Own(t)
    <2>1. PICK x \in Hashes :
            /\ h' = [h EXCEPT ![t] = x]
            /\ impl' = [impl EXCEPT ![t] = hashblocks_impl[x]]
            /\ pc' = [pc EXCEPT ![t] = IF hashblocks_impl[x] = NULL THEN "mode" ELSE "run"]
            /\ ran' = [ran EXCEPT ![t] = "nothing yet"]
            /\ UNCHANGED <<mode, off, ni>>
      BY DEF LoadImpl, Goto
    <2>2. hashblocks_impl[x] \in Impls \cup {NULL}
      BY DEF Inv, Caches
    <2> QED BY <2>1, <2>2 DEF Own, Inv, Locals, PCs
  <1>3. Caches'
    BY <1>1, Fixed DEF LoadImpl, Caches, Inv, statics
  <1>4. Progress(t)'
    <2>1. PICK x \in Hashes :
            /\ h' = [h EXCEPT ![t] = x]
            /\ impl' = [impl EXCEPT ![t] = hashblocks_impl[x]]
            /\ pc' = [pc EXCEPT ![t] = IF hashblocks_impl[x] = NULL THEN "mode" ELSE "run"]
            /\ ran' = [ran EXCEPT ![t] = "nothing yet"]
      BY DEF LoadImpl, Goto
    <2>2. /\ h'[t] = x /\ ran'[t] = "nothing yet" /\ impl'[t] = hashblocks_impl[x]
          /\ pc'[t] = IF hashblocks_impl[x] = NULL THEN "mode" ELSE "run"
      BY <2>1 DEF Inv, Locals
    <2>3. pc'[t] = "run" => impl'[t] = Meant(x)
      BY <2>2 DEF Inv, Caches
    <2>4. Meant(x)' = Meant(x)
      BY <1>1, Fixed
    <2> QED BY <2>2, <2>3, <2>4 DEF Progress
<1> QED BY <1>1, <1>2, <1>3, <1>4, Frame

\* Only the meant implementation is stored.
LEMMA StoreImplInv == ASSUME NEW t \in Threads, Inv, StoreImpl(t) PROVE Inv'
  <1> USE DispatchAssumption
  <1>1. UNCHANGED machine
    BY DEF StoreImpl
  <1>2. Own(t)
    BY DEF StoreImpl, Own, Inv, Locals, Goto, PCs, locals
  <1>3. Caches'
    BY <1>1, Fixed DEF StoreImpl, Caches, Inv, statics, Locals, Progress
  <1>4. Progress(t)'
    BY <1>1, Fixed DEF StoreImpl, Progress, Inv, Locals, Goto, locals
  <1> QED BY <1>1, <1>2, <1>3, <1>4, Frame

\* A cached mode is the mode.
LEMMA LoadModeInv == ASSUME NEW t \in Threads, Inv, LoadMode(t) PROVE Inv'
  <1> USE DispatchAssumption
  <1>1. UNCHANGED machine
    BY DEF LoadMode
  <1>2. Own(t)
    <2>1. TheMode \in Modes
      BY ValueTypes DEF Inv
    <2>2. cached_mode \in Modes \cup {EMPTY}
      BY <2>1 DEF Inv, Caches
    <2> QED BY <2>2 DEF LoadMode, Own, Inv, Locals, Goto, PCs, Modes
  <1>3. Caches'
    BY <1>1, Fixed DEF LoadMode, Caches, Inv, statics
  <1>4. Progress(t)'
    <2>1. /\ mode'[t] = IF build.production THEN "SCALAR"
                        ELSE IF ~build.knobs THEN "AUTO" ELSE cached_mode
          /\ pc'[t] = IF mode'[t] = EMPTY THEN "mode_env" ELSE "off"
          /\ h'[t] = h[t] /\ ran'[t] = ran[t] /\ ran[t] \in {"nothing yet", Meant(h[t])}
      BY DEF LoadMode, Goto, Inv, Locals, Progress
    <2>2. mode'[t] = EMPTY => TheMode = BackendMode(env.backend)
      BY <2>1 DEF TheMode
    <2>3. mode'[t] # EMPTY => mode'[t] = TheMode
      BY <2>1 DEF TheMode, Inv, Caches
    <2>4. env' = env
      BY <1>1 DEF machine
    <2> QED BY <1>1, <2>1, <2>2, <2>3, <2>4, Fixed DEF Progress
<1> QED BY <1>1, <1>2, <1>3, <1>4, Frame

\* The mode read is the mode cached.
LEMMA StoreModeInv == ASSUME NEW t \in Threads, Inv, StoreMode(t) PROVE Inv'
  <1> USE DispatchAssumption
  <1>1. UNCHANGED machine
    BY DEF StoreMode
  <1>2. Own(t)
    <2>1. BackendMode(env.backend) \in Modes
      BY ValueTypes DEF Inv, StoreMode, Progress
    <2> QED BY <2>1 DEF StoreMode, Own, Inv, Locals, Goto, PCs
  <1>3. Caches'
    BY <1>1, Fixed DEF StoreMode, Caches, Inv, Progress
  <1>4. Progress(t)'
    BY <1>1, Fixed DEF StoreMode, Progress, Inv, Locals, Goto
<1> QED BY <1>1, <1>2, <1>3, <1>4, Frame

\* A cached switch is the switch.
LEMMA LoadOffInv == ASSUME NEW t \in Threads, Inv, LoadOff(t) PROVE Inv'
  <1> USE DispatchAssumption
  <1>1. UNCHANGED machine
    BY DEF LoadOff
  <1>2. Own(t)
    BY DEF LoadOff, Own, Inv, Locals, Goto, PCs, locals, Caches, TheOff
  <1>3. Caches'
    BY <1>1, Fixed DEF LoadOff, Caches, Inv, statics
  <1>4. Progress(t)'
    BY <1>1, Fixed DEF LoadOff, Progress, Inv, Locals, Goto, locals, Caches
  <1> QED BY <1>1, <1>2, <1>3, <1>4, Frame

\* The switch as it is read.
LEMMA ReadOffInv == ASSUME NEW t \in Threads, Inv, ReadOff(t) PROVE Inv'
  <1> USE DispatchAssumption
  <1>1. UNCHANGED machine
    BY DEF ReadOff
  <1>2. Own(t)
    BY DEF ReadOff, Own, Inv, Locals, Goto, PCs, locals
  <1>3. Caches'
    BY <1>1, Fixed DEF ReadOff, Caches, Inv, statics
  <1>4. Progress(t)'
    BY <1>1, Fixed DEF ReadOff, Progress, Inv, Locals, Goto, locals, TheOff
  <1> QED BY <1>1, <1>2, <1>3, <1>4, Frame

\* The switch as it was read is stored.
LEMMA StoreOffInv == ASSUME NEW t \in Threads, Inv, StoreOff(t) PROVE Inv'
  <1> USE DispatchAssumption
  <1>1. UNCHANGED machine
    BY DEF StoreOff
  <1>2. Own(t)
    BY DEF StoreOff, Own, Inv, Locals, Goto, PCs, locals
  <1>3. Caches'
    BY <1>1, Fixed DEF StoreOff, Caches, Inv, statics, Locals, Progress
  <1>4. Progress(t)'
    BY <1>1, Fixed DEF StoreOff, Progress, Inv, Locals, Goto, locals
  <1> QED BY <1>1, <1>2, <1>3, <1>4, Frame

\* Choices without a CPU test.
LEMMA SelectFixedInv == ASSUME NEW t \in Threads, Inv, SelectFixed(t) PROVE Inv'
  <1> USE DispatchAssumption
  <1>1. UNCHANGED machine
    BY DEF SelectFixed, Choose
  <1>2. Own(t)
    BY DEF SelectFixed, Own, Inv, Locals, Goto, PCs, locals, Choose, Impls, Fallback
  <1>3. Caches'
    BY <1>1, Fixed DEF SelectFixed, Caches, Inv, statics, Choose
  <1>4. Progress(t)'
    <2> DEFINE x == h[t]
    <2>1. /\ mode[t] = TheMode /\ off[t] = TheOff /\ pc'[t] = "store"
          /\ ran'[t] = ran[t] /\ h'[t] = x /\ ran[t] \in {"nothing yet", Meant(x)}
      BY DEF SelectFixed, Choose, Goto, Progress, Inv, Locals
    <2>2. CASE (TheOff = 1 \/ TheMode = "SCALAR") /\ Choose(t, "ref")
      <3>1. Meant(x) = "ref"
        BY <2>2 DEF TheOff, TheMode, Meant, BackendMode, Backends, Inv, Machine
      <3>2. impl'[t] = "ref"
        BY <2>2 DEF Choose, Inv, Locals
      <3> QED BY <1>1, <2>1, <3>1, <3>2, Fixed DEF Progress
    <2>3. CASE TheOff = 0 /\ TheMode = "ARM" /\ Choose(t, IF Arm(h[t]) THEN "arm" ELSE "ref")
      <3>1. Meant(x) = "ref"
        BY <2>3 DEF TheOff, TheMode, Meant, BackendMode, Backends, Inv, Machine
      <3>2. impl'[t] = "ref"
        BY <2>3 DEF Choose, Inv, Locals, Arm, ArmCanUse
      <3> QED BY <1>1, <2>1, <3>1, <3>2, Fixed DEF Progress
    <2>4. CASE TheOff = 0 /\ TheMode = "COMMONCRYPTO" /\ Choose(t, Fallback)
      <3>1. Meant(x) = Fallback
        BY <2>4 DEF TheOff, TheMode, Meant, BackendMode, Backends, Inv, Machine
      <3>2. impl'[t] = Fallback
        BY <2>4 DEF Choose, Inv, Locals
      <3> QED BY <1>1, <2>1, <3>1, <3>2, Fixed DEF Progress
    <2> QED BY <2>1, <2>2, <2>3, <2>4 DEF SelectFixed
<1> QED BY <1>1, <1>2, <1>3, <1>4, Frame

\* Threads that go on to the CPU test.
LEMMA SelectX86Inv == ASSUME NEW t \in Threads, Inv, SelectX86(t) PROVE Inv'
  <1> USE DispatchAssumption
  <1>1. UNCHANGED machine
    BY DEF SelectX86
  <1>2. Own(t)
    BY DEF SelectX86, Own, Inv, Locals, Goto, PCs, locals
  <1>3. Caches'
    BY <1>1, Fixed DEF SelectX86, Caches, Inv, statics
  <1>4. Progress(t)'
    BY <1>1, Fixed DEF SelectX86, Progress, Inv, Locals, Goto, locals
  <1> QED BY <1>1, <1>2, <1>3, <1>4, Frame

\* A cached answer is the CPU's.
LEMMA LoadNiInv == ASSUME NEW t \in Threads, Inv, LoadNi(t) PROVE Inv'
  <1> USE DispatchAssumption
  <1>1. UNCHANGED machine
    BY DEF LoadNi
  <1>2. Own(t)
    <2>1. ni_available[h[t]] \in {EMPTY, 0, 1}
      BY DEF Inv, Caches, Locals
    <2> QED BY <2>1 DEF LoadNi, Own, Inv, Locals, Goto, PCs
  <1>3. Caches'
    BY <1>1, Fixed DEF LoadNi, Caches, Inv, statics
  <1>4. Progress(t)'
    <2>1. /\ ni'[t] = IF h[t] \in build.x86 THEN ni_available[h[t]] ELSE 0
          /\ pc'[t] = IF ni'[t] = EMPTY THEN "ni_detect" ELSE "ni_known"
          /\ h'[t] = h[t] /\ mode'[t] = mode[t] /\ ran'[t] = ran[t]
          /\ mode[t] = TheMode /\ TheOff = 0 /\ TheMode \in {"X86", "AUTO"}
          /\ ran[t] \in {"nothing yet", Meant(h[t])} /\ h[t] \in Hashes
      BY DEF LoadNi, Goto, Inv, Locals, Progress
    <2>2. ni'[t] = EMPTY => h[t] \in build.x86
      BY <2>1
    <2>3. ni'[t] # EMPTY => ni'[t] = TheNi(h[t])
      BY <2>1 DEF TheNi, Inv, Caches
    <2>4. build' = build
      BY <1>1 DEF machine
    <2> QED BY <1>1, <2>1, <2>2, <2>3, <2>4, Fixed DEF Progress
<1> QED BY <1>1, <1>2, <1>3, <1>4, Frame

\* The CPU's answer is cached.
LEMMA DetectNiInv == ASSUME NEW t \in Threads, Inv, DetectNi(t) PROVE Inv'
  <1> USE DispatchAssumption
  <1>1. UNCHANGED machine
    BY DEF DetectNi
  <1>2. Own(t)
    BY DEF DetectNi, Own, Inv, Locals, Goto, PCs, locals, Detected
  <1>3. Caches'
    BY <1>1, Fixed DEF DetectNi, Caches, Inv, statics, Detected, Locals
  <1>4. Progress(t)'
    BY <1>1, Fixed DEF DetectNi, Progress, Inv, Locals, Goto, locals, TheNi
  <1> QED BY <1>1, <1>2, <1>3, <1>4, Frame

\* The CPU test gives the implementation that is meant.
LEMMA CpuChoice ==
    ASSUME NEW x, Machine, TheOff = 0, TheMode \in {"X86", "AUTO"}
    PROVE  (IF TheNi(x) = 1 THEN "x86"
            ELSE IF TheMode = "X86" THEN "ref"
            ELSE IF Arm(x) THEN "arm" ELSE Fallback) = Meant(x)
  <1>1. ~build.production
    BY DEF TheMode
  <1>2. ~(build.knobs /\ env.off)
    BY DEF TheOff
  <1>3. TheNi(x) = 1 <=> x \in build.x86 \cap cpu
    BY DEF TheNi, Detected
  <1>4. ~Arm(x)
    BY DEF Arm, ArmCanUse
  <1>5. CASE ~build.knobs
    <2>1. TheMode = "AUTO"
      BY <1>1, <1>5 DEF TheMode
    <2> QED BY <1>1, <1>3, <1>4, <1>5, <2>1 DEF Meant
  <1>6. CASE build.knobs
    <2>1. TheMode = BackendMode(env.backend)
      BY <1>1, <1>6 DEF TheMode
    <2>2. \/ env.backend \in {"auto", "other"} /\ TheMode = "AUTO"
          \/ env.backend = "x86" /\ TheMode = "X86"
      <3>1. CASE env.backend = "auto"
        BY <2>1, <3>1 DEF BackendMode, Backends
      <3>2. CASE env.backend = "other"
        BY <2>1, <3>2 DEF BackendMode, Backends
      <3>3. CASE env.backend = "x86"
        BY <2>1, <3>3 DEF BackendMode, Backends
      <3>4. CASE env.backend \in {"scalar", "arm", "cc"}
        BY <2>1, <3>4 DEF BackendMode, Backends
      <3> QED BY <3>1, <3>2, <3>3, <3>4 DEF Machine
    <2> QED BY <1>1, <1>2, <1>3, <1>4, <1>6, <2>2 DEF Meant
  <1> QED BY <1>5, <1>6

\* Choices by the CPU.
LEMMA SelectByCpuInv == ASSUME NEW t \in Threads, Inv, SelectByCpu(t) PROVE Inv'
  <1> USE DispatchAssumption
  <1>1. UNCHANGED machine
    BY DEF SelectByCpu, Choose
  <1>2. Own(t)
    BY DEF SelectByCpu, Own, Inv, Locals, Goto, PCs, locals, Choose, Impls, Fallback, Arm, ArmCanUse
  <1>3. Caches'
    BY <1>1, Fixed DEF SelectByCpu, Caches, Inv, statics, Choose
  <1>4. Progress(t)'
    <2> DEFINE x == h[t]
               choice == IF ni[t] = 1 THEN "x86"
                         ELSE IF mode[t] = "X86" THEN "ref"
                         ELSE IF Arm(x) THEN "arm" ELSE Fallback
    <2>1. /\ mode[t] = TheMode /\ TheOff = 0 /\ TheMode \in {"X86", "AUTO"}
          /\ ni[t] = TheNi(x) /\ ran[t] \in {"nothing yet", Meant(x)}
      BY DEF SelectByCpu, Progress, Inv
    <2>2. pc'[t] = "store" /\ ran'[t] = ran[t] /\ h'[t] = x /\ impl'[t] = choice
      BY DEF SelectByCpu, Choose, Goto, Inv, Locals
    <2>3. choice = Meant(x)
      BY <2>1, CpuChoice DEF Inv
    <2> QED BY <1>1, <2>1, <2>2, <2>3, Fixed DEF Progress
<1> QED BY <1>1, <1>2, <1>3, <1>4, Frame

\* What is meant can be run, so nothing is skipped.
LEMMA RunInv == ASSUME NEW t \in Threads, Inv, Run(t) PROVE Inv'
  <1> USE DispatchAssumption
  <1> DEFINE x == h[t]
             asks == impl[t] = "x86" /\ x \in build.x86
             answer == IF ni_available[x] = EMPTY THEN Detected(x) ELSE ni_available[x]
  <1>1. UNCHANGED machine /\ x \in Hashes
    BY DEF Run, Inv, Locals
  <1>2. impl[t] = Meant(x) /\ impl[t] \in Impls \ {"arm"}
    BY ValueTypes DEF Run, Inv, Progress
  <1>3. answer = Detected(x) /\ Detected(x) \in {0, 1}
    BY <1>1, ValueTypes DEF Inv, Caches
  <1>4. impl[t] = "x86" => asks /\ answer = 1
    BY <1>2, <1>3, ValueTypes DEF Inv
  <1>5. ran' = [ran EXCEPT ![t] = impl[t]]
    BY <1>2, <1>4 DEF Run
  <1>6. Own(t)
    BY <1>2, <1>5 DEF Run, Own, Inv, Locals, Goto, PCs, locals
  <1>7. Caches'
    <2>1. ni_available' = IF asks THEN [ni_available EXCEPT ![x] = Detected(x)]
                          ELSE ni_available
      BY <1>3 DEF Run
    <2>2. ni_available' \in [Hashes -> {EMPTY, 0, 1}]
      BY <1>1, <1>3, <2>1 DEF Inv, Caches
    <2>3. \A y \in Hashes : ni_available'[y] \in {EMPTY, Detected(y)}
      BY <1>1, <2>1 DEF Inv, Caches
    <2> QED BY <1>1, <2>2, <2>3, Fixed DEF Run, Caches, Inv
  <1>8. Progress(t)'
    <2>1. pc'[t] = "idle" /\ ran'[t] = Meant(x) /\ h'[t] = x
      BY <1>2, <1>5 DEF Run, Goto, Inv, Locals, locals
    <2> QED BY <1>1, <2>1, Fixed DEF Progress
  <1> QED BY <1>1, <1>6, <1>7, <1>8, Frame
----------------------------------------------------------------------------
(* The invariant, and what follows from it.                                *)

\* Every step keeps the invariant.
LEMMA NextInv == Inv /\ [Next]_vars => Inv'
  <1> SUFFICES ASSUME Inv, [Next]_vars PROVE Inv'
    OBVIOUS
  <1>1. CASE Next
    <2>1. PICK t \in Threads :
            \/ LoadImpl(t) \/ LoadMode(t) \/ StoreMode(t) \/ LoadOff(t) \/ ReadOff(t)
            \/ StoreOff(t) \/ SelectFixed(t) \/ SelectX86(t) \/ LoadNi(t) \/ DetectNi(t)
            \/ SelectByCpu(t) \/ StoreImpl(t) \/ Run(t)
      BY <1>1 DEF Next
    <2> QED BY <2>1, LoadImplInv, LoadModeInv, StoreModeInv, LoadOffInv, ReadOffInv,
               StoreOffInv, SelectFixedInv, SelectX86Inv, LoadNiInv, DetectNiInv,
               SelectByCpuInv, StoreImplInv, RunInv
  <1>2. CASE UNCHANGED vars
    <2>1. UNCHANGED <<machine, cached_mode, cached_off, ni_available, hashblocks_impl, pc,
                      h, mode, off, ni, impl, ran>>
      BY <1>2 DEF vars, statics, locals
    <2>2. Machine' /\ Caches' /\ Locals'
      BY <2>1, Fixed DEF Inv, Caches, Locals
    <2>3. \A t \in Threads : Progress(t)'
      BY <2>1, Fixed DEF Inv, Progress, machine
    <2> QED BY <2>2, <2>3 DEF Inv
  <1> QED BY <1>1, <1>2

----------------------------------------------------------------------------
(* The random source.                                                      *)

\* Wherever there is a buffer, the offset is the byte behind the last one.
Linked ==
    g_random_data_size > 0 =>
        /\ last + 1 \in 0 .. g_random_data_size
        /\ g_random_data_offset = Random!After(last)

\* The call that runs: its bytes so far, the last of which is the last handed
\* out.
Copying ==
    rpc = "copy" =>
        /\ g_random_data_size > 0
        /\ last = IF position = 0 THEN first ELSE out[position - 1]
        /\ \A i \in 0 .. position - 1 : out[i] \in 0 .. g_random_data_size - 1

RandomInv ==
    Random!TypeOK /\ Linked /\ Copying /\ Random!StreamIsCyclic /\ Random!FailsClosed

\* Reduction of an offset that is at most the size.
LEMMA ModAtEnd ==
    ASSUME NEW s \in Nat, s > 0, NEW x \in 0 .. s
    PROVE  x % s = IF x = s THEN 0 ELSE x
  <1>1. CASE x = s
    <2>1. s % s = 0  BY SMT
    <2> QED  BY <1>1, <2>1
  <1>2. CASE x # s
    <2>1. x \in 0 .. s - 1  BY <1>2
    <2>2. x % s = x  BY <2>1, SMT
    <2> QED  BY <1>2, <2>2
  <1> QED  BY <1>1, <1>2

LEMMA RandomInitInv == Random!Init => RandomInv
  <1> SUFFICES ASSUME Random!Init PROVE RandomInv  OBVIOUS
  <1>1. g_random_source_failed \in BOOLEAN /\ missed \in BOOLEAN  BY DEF Random!Init
  <1>2. Random!TypeOK
    BY <1>1 DEF Random!Init, Random!TypeOK, Random!Zero, Random!Untouched
  <1>3. Linked /\ Copying /\ Random!StreamIsCyclic
    BY DEF Random!Init, Linked, Copying, Random!StreamIsCyclic
  <1>4. Random!FailsClosed  BY DEF Random!Init, Random!FailsClosed
  <1> QED  BY <1>2, <1>3, <1>4 DEF RandomInv

\* The functions that only set the variables.
LEMMA SetupInv ==
    ASSUME Random!SourceAssumption, RandomInv,
           Random!InitRandomSource \/ Random!RestoreOriginalRandom
           \/ Random!ClearFailure \/ Random!BadDerandomize
    PROVE  RandomInv'
  <1>1. CASE Random!InitRandomSource
    <2>1. g_random_source_failed' \in BOOLEAN /\ missed' \in BOOLEAN
      BY <1>1 DEF Random!InitRandomSource
    <2>2. Random!TypeOK'
      BY <1>1, <2>1 DEF Random!SourceAssumption, RandomInv, Random!TypeOK,
         Random!InitRandomSource, Random!call, Random!Zero
    <2>3. Linked'
      <3>1. PICK n \in Nat : g_random_data_size' = n
        BY <1>1 DEF Random!SourceAssumption, Random!InitRandomSource
      <3>2. last' = -1 /\ g_random_data_offset' = 0
        BY <1>1 DEF Random!InitRandomSource, Random!Zero
      <3> QED  BY <3>1, <3>2 DEF Linked, Random!After
    <2>4. Copying' /\ Random!StreamIsCyclic'
      BY <1>1 DEF Random!InitRandomSource, Copying, Random!StreamIsCyclic, Random!call
    <2>5. Random!FailsClosed'  BY <1>1 DEF Random!InitRandomSource, Random!FailsClosed
    <2> QED  BY <2>2, <2>3, <2>4, <2>5 DEF RandomInv
  <1>2. CASE Random!RestoreOriginalRandom
    <2>2. Random!TypeOK'
      BY <1>2 DEF RandomInv, Random!TypeOK, Random!RestoreOriginalRandom, Random!call
    <2>3. Linked'  BY <1>2 DEF Random!RestoreOriginalRandom, Linked
    <2>4. Copying' /\ Random!StreamIsCyclic'
      BY <1>2 DEF Random!RestoreOriginalRandom, Copying, Random!StreamIsCyclic,
         Random!call
    <2>5. Random!FailsClosed'
      BY <1>2 DEF RandomInv, Random!RestoreOriginalRandom, Random!FailsClosed
    <2> QED  BY <2>2, <2>3, <2>4, <2>5 DEF RandomInv
  <1>3. CASE Random!ClearFailure \/ Random!BadDerandomize
    <2>1. g_random_source_failed' \in BOOLEAN /\ missed' \in BOOLEAN
      BY <1>3 DEF Random!ClearFailure, Random!BadDerandomize
    <2>2. UNCHANGED <<g_random_data, g_random_data_size, g_random_data_offset, rpc,
                      outlen, position, out, first, last>> /\ rpc = "idle"
      BY <1>3 DEF Random!ClearFailure, Random!BadDerandomize, Random!source, Random!call
    <2>3. Random!TypeOK'  BY <2>1, <2>2 DEF RandomInv, Random!TypeOK
    <2>4. Linked'  BY <2>2 DEF RandomInv, Linked, Random!After
    <2>5. Copying' /\ Random!StreamIsCyclic'  BY <2>2 DEF Copying, Random!StreamIsCyclic
    <2>6. Random!FailsClosed'
      BY <1>3 DEF Random!ClearFailure, Random!BadDerandomize, Random!FailsClosed
    <2> QED  BY <2>3, <2>4, <2>5, <2>6 DEF RandomInv
  <1> QED  BY <1>1, <1>2, <1>3

\* The requests, up to the loop.
LEMMA RequestInv ==
    ASSUME Random!SourceAssumption, RandomInv, NEW n \in OutLens,
           Random!RandomBytesFail(n) \/ Random!RandomBytes(n)
    PROVE  RandomInv'
  <1> n \in Nat  BY DEF Random!SourceAssumption
  <1>2. CASE Random!RandomBytesFail(n)
    <2>1. g_random_source_failed' \in BOOLEAN /\ missed' \in BOOLEAN
      BY <1>2 DEF Random!RandomBytesFail
    <2>2. /\ UNCHANGED <<g_random_data, g_random_data_size, g_random_data_offset,
                         rpc, last>>
          /\ rpc = "idle" /\ outlen' = n /\ position' = n /\ first' = last
          /\ out' = [i \in 0 .. n - 1 |-> Random!Zero]
      BY <1>2 DEF Random!RandomBytesFail, Random!source
    <2>3. Random!TypeOK'
      <3>1. out' \in [0 .. outlen' - 1 -> Int]  BY <2>2 DEF Random!Zero
      <3> QED  BY <2>1, <2>2, <3>1 DEF RandomInv, Random!TypeOK
    <2>4. Linked'  BY <2>2 DEF RandomInv, Linked, Random!After
    <2>5. Copying' /\ Random!StreamIsCyclic'  BY <2>2 DEF Copying, Random!StreamIsCyclic
    <2>6. Random!FailsClosed'  BY <1>2 DEF Random!RandomBytesFail, Random!FailsClosed
    <2> QED  BY <2>3, <2>4, <2>5, <2>6 DEF RandomInv
  <1>3. CASE Random!RandomBytes(n)
    <2>2. /\ UNCHANGED <<g_random_data, g_random_data_size, g_random_data_offset,
                         g_random_source_failed, last, missed>>
          /\ rpc' = "copy" /\ outlen' = n /\ position' = 0 /\ first' = last
          /\ out' = [i \in 0 .. n - 1 |-> Random!Untouched]
          /\ g_random_data_size # 0
      BY <1>3 DEF Random!RandomBytes, Random!source, Random!NoSource
    <2>3. Random!TypeOK'
      <3>1. out' \in [0 .. outlen' - 1 -> Int]  BY <2>2 DEF Random!Untouched
      <3> QED  BY <2>2, <3>1 DEF RandomInv, Random!TypeOK
    <2>4. Linked'  BY <2>2 DEF RandomInv, Linked, Random!After
    <2>5. Copying' /\ Random!StreamIsCyclic'
      BY <2>2 DEF RandomInv, Random!TypeOK, Copying, Random!StreamIsCyclic
    <2>6. Random!FailsClosed'  BY <2>2 DEF RandomInv, Random!FailsClosed
    <2> QED  BY <2>3, <2>4, <2>5, <2>6 DEF RandomInv
  <1> QED  BY <1>2, <1>3

\* Every memcpy takes at least one byte and stays inside both buffers.
LEMMA ChunkFits ==
    ASSUME Random!TypeOK, g_random_data_size > 0, position < outlen
    PROVE  /\ Random!ToCopy \in Nat \ {0}
           /\ g_random_data_offset + Random!ToCopy \in 0 .. g_random_data_size
           /\ position + Random!ToCopy \in 0 .. outlen
  BY DEF Random!TypeOK, Random!ToCopy

LEMMA CopyInv == ASSUME RandomInv, Random!CopyChunk PROVE RandomInv'
  <1> DEFINE c == Random!ToCopy
             from == g_random_data_offset
             size == g_random_data_size
  <1>1. Random!TypeOK /\ Linked /\ Copying /\ Random!StreamIsCyclic /\ Random!FailsClosed
    BY DEF RandomInv
  <1>2. rpc = "copy" /\ size > 0 /\ position < outlen
    BY <1>1 DEF Random!CopyChunk, Random!LoopEnds, Copying, Random!TypeOK
  <1>3. c \in Nat \ {0} /\ from + c \in 0 .. size /\ position + c \in 0 .. outlen
    BY <1>1, <1>2, ChunkFits
  <1>4. size \in Nat /\ from \in 0 .. size - 1 /\ position \in Nat /\ outlen \in Nat
        /\ out \in [0 .. outlen - 1 -> Int]
    BY <1>1, <1>2 DEF Random!TypeOK
  <1> HIDE DEF c
  <1>5. /\ position' = position + c
        /\ last' = from + c - 1
        /\ \A i \in 0 .. outlen - 1 :
             out'[i] = IF position <= i /\ i < position + c THEN from + (i - position) ELSE out[i]
        /\ out' = [i \in 0 .. outlen - 1 |->
             IF position <= i /\ i < position + c THEN from + (i - position) ELSE out[i]]
        /\ UNCHANGED <<g_random_data, g_random_data_size, g_random_source_failed,
                       rpc, outlen, first, missed>>
    BY <1>3 DEF Random!CopyChunk, c
  <1>6. g_random_data_offset' = IF from + c = size THEN 0 ELSE from + c
    <2>1. g_random_data_offset' = (from + c) % size
      BY DEF Random!CopyChunk, Random!Advance, c
    <2> QED  BY <1>3, <1>4, <2>1, <1>2, ModAtEnd
  <1>7. Random!TypeOK'
    <2>1. out' \in [0 .. outlen - 1 -> Int]  BY <1>3, <1>4, <1>5
    <2>2. last' \in Int /\ position' \in 0 .. outlen'  BY <1>3, <1>4, <1>5
    <2>3. g_random_data_offset' \in 0 .. size - 1  BY <1>2, <1>3, <1>4, <1>6
    <2> QED  BY <1>1, <1>5, <2>1, <2>2, <2>3 DEF Random!TypeOK
  <1>8. Linked'
    <2>1. last' + 1 \in 0 .. size  BY <1>3, <1>4, <1>5
    <2>2. g_random_data_offset' = Random!After(last')
      BY <1>3, <1>4, <1>5, <1>6 DEF Random!After
    <2> QED  BY <1>5, <2>1, <2>2 DEF Linked, Random!After
  <1>9. Copying'
    <2>1. out'[position' - 1] = from + c - 1  BY <1>3, <1>4, <1>5
    <2>2. position' # 0  BY <1>3, <1>4, <1>5
    <2>3. \A i \in 0 .. position' - 1 : out'[i] \in 0 .. size - 1
      <3> SUFFICES ASSUME NEW i \in 0 .. position' - 1 PROVE out'[i] \in 0 .. size - 1  OBVIOUS
      <3>1. CASE i < position
        <4>1. out[i] \in 0 .. size - 1  BY <1>1, <1>2, <1>4, <3>1 DEF Copying
        <4> QED  BY <1>3, <1>4, <1>5, <3>1, <4>1
      <3>2. CASE i >= position
        BY <1>3, <1>4, <1>5, <3>2
      <3> QED  BY <3>1, <3>2, <1>4
    <2> QED  BY <1>2, <1>5, <2>1, <2>2, <2>3 DEF Copying
  <1>10. Random!StreamIsCyclic'
    <2> SUFFICES ASSUME NEW i \in 0 .. position' - 1
                 PROVE  out'[i] = Random!After(IF i = 0 THEN first ELSE out'[i - 1])
      BY <1>5 DEF Random!StreamIsCyclic, Random!After
    <2>1. CASE i < position
      <3>1. out[i] = Random!After(IF i = 0 THEN first ELSE out[i - 1])
        BY <1>1, <1>2, <1>4, <2>1 DEF Random!StreamIsCyclic
      <3>2. out'[i] = out[i] /\ (i # 0 => out'[i - 1] = out[i - 1])
        BY <1>3, <1>4, <1>5, <2>1
      <3> QED  BY <3>1, <3>2
    <2>2. CASE i = position
      <3>1. out'[i] = from  BY <1>3, <1>4, <1>5, <2>2
      <3>2. from = Random!After(last)  BY <1>1, <1>2 DEF Linked
      <3>3. last = IF i = 0 THEN first ELSE out[i - 1]  BY <1>1, <1>2, <2>2 DEF Copying
      <3>4. i # 0 => out'[i - 1] = out[i - 1]  BY <1>3, <1>4, <1>5, <2>2
      <3> QED  BY <3>1, <3>2, <3>3, <3>4
    <2>3. CASE i > position
      <3>1. out'[i] = from + (i - position) /\ out'[i - 1] = from + (i - 1 - position)
        BY <1>3, <1>4, <1>5, <2>3
      <3>2. from + (i - position) < size  BY <1>3, <1>4, <1>5, <2>3
      <3> QED  BY <1>4, <2>3, <3>1, <3>2 DEF Random!After
    <2> QED  BY <2>1, <2>2, <2>3, <1>4
  <1>11. Random!FailsClosed'  BY <1>1, <1>5 DEF Random!FailsClosed
  <1> QED  BY <1>7, <1>8, <1>9, <1>10, <1>11 DEF RandomInv

\* The loop leaves only when every byte is one of the buffer.
LEMMA ReturnInv == ASSUME RandomInv, Random!ReturnFromCopy PROVE RandomInv'
  <1>1. Random!TypeOK /\ Linked /\ Copying /\ Random!FailsClosed  BY DEF RandomInv
  <1>2. /\ UNCHANGED <<g_random_data, g_random_data_size, g_random_data_offset,
                       g_random_source_failed, outlen, position, out, first, last>>
        /\ rpc = "copy" /\ rpc' = "idle" /\ position >= outlen
    BY DEF Random!ReturnFromCopy, Random!source, Random!LoopEnds
  <1>3. \A i \in 0 .. outlen - 1 : out[i] \in 0 .. g_random_data_size - 1
    BY <1>1, <1>2 DEF Copying, Random!TypeOK
  <1>4. missed' = missed  BY <1>1, <1>3 DEF Random!ReturnFromCopy, Random!TypeOK
  <1>5. Random!TypeOK'  BY <1>1, <1>2, <1>4 DEF Random!TypeOK
  <1>6. Linked'  BY <1>1, <1>2 DEF Linked, Random!After
  <1>7. Copying' /\ Random!StreamIsCyclic'  BY <1>2 DEF Copying, Random!StreamIsCyclic
  <1>8. Random!FailsClosed'  BY <1>1, <1>2, <1>4 DEF Random!FailsClosed
  <1> QED  BY <1>5, <1>6, <1>7, <1>8 DEF RandomInv

LEMMA RandomStepInv ==
    ASSUME Random!SourceAssumption, RandomInv, Random!Next \/ UNCHANGED randomVars
    PROVE  RandomInv'
  <1>1. CASE Random!InitRandomSource \/ Random!RestoreOriginalRandom
             \/ Random!ClearFailure \/ Random!BadDerandomize
    BY <1>1, SetupInv
  <1>2. CASE Random!RandomBytesNone \/ Random!RandomBytesNull
    <2>1. UNCHANGED Random!source /\ rpc = "idle" /\ rpc' = "idle" /\ last' = last
          /\ outlen' = 0 /\ position' = 0 /\ first' = last
          /\ out' = [i \in {} |-> Random!Untouched]
      BY <1>2 DEF Random!RandomBytesNone, Random!RandomBytesNull
    <2>2. g_random_source_failed' \in BOOLEAN /\ missed' \in BOOLEAN
      BY <1>2 DEF Random!RandomBytesNone, Random!RandomBytesNull, RandomInv,
         Random!TypeOK
    <2>3. Random!TypeOK'
      <3>1. out' \in [0 .. outlen' - 1 -> Int]  BY <2>1 DEF Random!Untouched
      <3> QED  BY <2>1, <2>2, <3>1 DEF RandomInv, Random!TypeOK, Random!source
    <2>4. Linked'  BY <2>1 DEF RandomInv, Linked, Random!After, Random!source
    <2>5. Copying' /\ Random!StreamIsCyclic'  BY <2>1 DEF Copying, Random!StreamIsCyclic
    <2>6. Random!FailsClosed'
      BY <1>2 DEF RandomInv, Random!RandomBytesNone, Random!RandomBytesNull,
         Random!FailsClosed
    <2> QED  BY <2>3, <2>4, <2>5, <2>6 DEF RandomInv
  <1>3. CASE \E n \in OutLens : Random!RandomBytesFail(n) \/ Random!RandomBytes(n)
    BY <1>3, RequestInv
  <1>4. CASE Random!CopyChunk  BY <1>4, CopyInv
  <1>5. CASE Random!ReturnFromCopy  BY <1>5, ReturnInv
  <1>6. CASE UNCHANGED randomVars
    BY <1>6 DEF randomVars, RandomInv, Random!TypeOK, Linked, Copying,
       Random!StreamIsCyclic, Random!FailsClosed, Random!After
  <1> QED  BY <1>1, <1>2, <1>3, <1>4, <1>5, <1>6 DEF Random!Next

----------------------------------------------------------------------------
(* Both together.                                                          *)

\* Both invariants; the second needs sizes that are natural numbers.
HiddenInv == Inv /\ (Random!SourceAssumption => RandomInv)

LEMMA HiddenInitInv == HiddenInit => HiddenInv
  BY InitInv, RandomInitInv DEF HiddenInit, HiddenInv

LEMMA HiddenNextInv == HiddenInv /\ [HiddenNext]_hiddenVars => HiddenInv'
  <1> SUFFICES ASSUME HiddenInv, [HiddenNext]_hiddenVars PROVE HiddenInv'
    OBVIOUS
  <1>1. Inv'
    <2>1. [Next]_vars
      BY DEF HiddenNext, hiddenVars
    <2> QED BY <2>1, NextInv DEF HiddenInv
  <1>2. ASSUME Random!SourceAssumption PROVE RandomInv'
    <2>1. Random!Next \/ UNCHANGED randomVars
      BY DEF HiddenNext, hiddenVars
    <2> QED BY <1>2, <2>1, RandomStepInv DEF HiddenInv
  <1>3. Random!SourceAssumption' <=> Random!SourceAssumption
    BY DEF Random!SourceAssumption
  <1> QED BY <1>1, <1>2, <1>3 DEF HiddenInv

LEMMA SpecInv == HiddenSpec => []HiddenInv
  <1> QED BY HiddenInitInv, HiddenNextInv, PTL DEF HiddenSpec

\* The caches of opt_flags.h, sha2_x86_shani.c and sha2.c only ever hold what
\* their readers understand; and for every buffer and request size the offset is
\* inside the buffer before every memcpy of randombytes, and the output is never
\* exceeded.
THEOREM TypeCorrect == ASSUME Random!SourceAssumption PROVE HiddenSpec => []HiddenTypeOK
  <1>1. Inv => TypeOK
    <2> SUFFICES ASSUME Inv PROVE TypeOK
      OBVIOUS
    <2>1. TheMode \in Modes /\ TheOff \in {0, 1}
      BY ValueTypes DEF Inv
    <2> QED BY <2>1 DEF Inv, Caches, Locals, TypeOK, PCs
  <1>2. HiddenInv => HiddenTypeOK
    BY <1>1 DEF HiddenInv, RandomInv, HiddenTypeOK
  <1> QED BY <1>2, SpecInv, PTL

\* No call of crypto_hashblocks returns with its blocks unhashed, for any
\* number of threads: no accelerated function is chosen where it would return
\* silently.
THEOREM NoCallSkips == HiddenSpec => []NeverSkips
  <1>1. Inv => NeverSkips
    BY ValueTypes DEF Inv, Progress, NeverSkips, Impls
  <1>2. HiddenInv => NeverSkips
    BY <1>1 DEF HiddenInv
  <1> QED BY <1>2, SpecInv, PTL

\* Every call that hashes runs the implementation meant for the build, the
\* CPU and the environment, however many threads race for the first call.
THEOREM MeantCodeRuns == HiddenSpec => []RunsWhatIsMeant
  <1>1. Inv => RunsWhatIsMeant
    BY DEF Inv, Progress, RunsWhatIsMeant, Impls
  <1>2. HiddenInv => RunsWhatIsMeant
    BY <1>1 DEF HiddenInv
  <1> QED BY <1>2, SpecInv, PTL

\* For every buffer and request size randombytes hands the buffer out in a
\* circle, across copies and across calls.
THEOREM StreamNeverJumps ==
    ASSUME Random!SourceAssumption PROVE HiddenSpec => []StreamIsCyclic
  <1>1. HiddenInv => StreamIsCyclic
    BY DEF HiddenInv, RandomInv, StreamIsCyclic
  <1> QED BY <1>1, SpecInv, PTL

\* While g_random_source_failed is down, no byte asked for since it was cleared
\* came from anywhere but the configured buffer.
THEOREM FlagIsReliable == ASSUME Random!SourceAssumption PROVE HiddenSpec => []FailsClosed
  <1>1. HiddenInv => FailsClosed
    BY DEF HiddenInv, RandomInv, FailsClosed
  <1> QED BY <1>1, SpecInv, PTL
=============================================================================
