----------------------------- MODULE KeyHeapProofs -----------------------------
(***************************************************************************)
(* Proofs about KeyHeap, for any number of C and Rust threads and any heap,*)
(* and at the end about StackBurn, the other half of what the library      *)
(* leaves in memory.                                                       *)
(*                                                                         *)
(* The invariant adds to OneOwner and OnlyDecodedRemains, for every thread *)
(* by itself, which of its pointers are set where it is (Shape) and what   *)
(* the blocks behind them hold (Held).  A step writes to blocks its thread *)
(* owns or that nobody owned, so by OneOwner the other threads' parts stay *)
(* as they are; that is proved once for each way a step treats the heap    *)
(* (Acquire, Release, Rearrange) and used by every action.                 *)
(***************************************************************************)
EXTENDS LibraryMemory, Sequences, TLAPS

----------------------------------------------------------------------------
(* The inductive invariant.                                                *)

Types ==
    /\ pc \in [Threads -> PCs]
    /\ ptr \in [Threads -> [Ptrs -> Blocks \cup {NULL}]]
    /\ size \in [Threads -> [StructPtrs -> BOOLEAN]]
    /\ live \in [Blocks -> BOOLEAN]
    /\ data \in [Blocks -> Data]
    /\ result \in [Threads -> Errors]

KeygenPCs == {"kg_pk", "kg_sk", "kg_check", "kg_input", "kg_derive", "kg_fill",
              "kg_publish", "kg_fail"}
SignPCs   == {"sg_malloc", "sg_run", "sg_verify", "sg_fail"}

\* The pointers in the frames of the library are set only while it works with
\* them, and are set when it goes through them.
FramesOK(l, P) ==
    /\ \A p \in Uses[l] : P[p] # NULL
    /\ P["pk"] # NULL => l \in KeygenPCs \ {"kg_pk"}
    /\ P["sk"] # NULL => l \in KeygenPCs \ {"kg_pk", "kg_sk"}
    /\ P["input"] # NULL => l = "kg_derive"
    /\ P["sig"] # NULL => l \in SignPCs \ {"sg_malloc"}
    /\ P["decoded"] # NULL => l \in {"parse", "parsed"}

\* The structs have the sizes of what they hold, are empty while the library
\* makes something for them, and are filled when it reports success.
StructsOK(l, P, sz, r) ==
    /\ sz["secret_key"] <=> P["secret_key"] # NULL
    /\ sz["signature"] <=> P["signature"] # NULL
    /\ l = "kf_sk" => P["public_key"] = NULL
    /\ l # "kf_sk" => /\ sz["public_key"] <=> P["public_key"] # NULL
                      /\ P["public_key"] = NULL <=> P["secret_key"] = NULL
    /\ l \in KeygenPCs => P["public_key"] = NULL /\ P["secret_key"] = NULL
    /\ l \in SignPCs => P["signature"] = NULL
    /\ l = "kg_ret" /\ r = "OK" => P["public_key"] # NULL
    /\ l = "sg_ret" /\ r = "OK" => P["signature"] # NULL
    /\ l \in {"kg_fail", "sg_fail"} => r # "OK"

\* Only the Rust crate has Vecs, and where it makes one there is none yet; its
\* structs live no longer than the call that fills them.
VecsOK(t, l, P) ==
    /\ l \in KeygenPCs \cup {"kg_ret", "copy_pk", "copy_sk", "parse"} => P["SecretKey"] = NULL
    /\ l # "copy_sk" /\ P["PublicKey"] # NULL => P["SecretKey"] # NULL
    /\ l \in SignPCs \cup {"sg_ret", "copy_sig"} => P["Signature"] = NULL
    /\ l \in {"parse", "parsed", "copy_pk", "copy_sk", "copy_sig"} => t \in RustThreads
    /\ t \in CThreads => \A p \in VecPtrs : P[p] = NULL
    /\ t \in RustThreads =>
          /\ P["secret_key"] # NULL => l \in {"kg_ret", "copy_pk", "copy_sk", "kf_pk", "kf_sk"}
          /\ P["signature"] # NULL => l \in {"sg_ret", "copy_sig", "sf"}

\* What a struct's or the crate's pointer p is to.
KindOf(p) == IF p = "PublicKey" THEN "public_key"
             ELSE IF p \in {"SecretKey", "Clone"} THEN "secret_key"
             ELSE IF p = "Signature" THEN "signature" ELSE p

Held(t, l, P, D) ==
    /\ \A p \in StructPtrs \cup VecPtrs : P[p] # NULL => D[P[p]] = Thing(KindOf(p), t)
    /\ l = "kg_publish" => /\ D[P["pk"]] = Thing("public_key", t)
                           /\ D[P["sk"]] = Thing("secret_key", t)

Shape(t, l, P, sz, r) == FramesOK(l, P) /\ StructsOK(l, P, sz, r) /\ VecsOK(t, l, P)

Mine(t) ==
    /\ Shape(t, pc[t], ptr[t], size[t], result[t])
    /\ Held(t, pc[t], ptr[t], data)

IInv == Types /\ OneOwner /\ OnlyDecodedRemains /\ \A t \in Threads : Mine(t)

----------------------------------------------------------------------------
(* What a step of t does to the heap.                                      *)

\* The heap stays sound; the other threads' pointers, and t's except G, stay
\* as they are and so does what is behind them.
HeapFrame(t, G) ==
    /\ ptr' \in [Threads -> [Ptrs -> Blocks \cup {NULL}]]
    /\ live' \in [Blocks -> BOOLEAN]
    /\ data' \in [Blocks -> Data]
    /\ OneOwner'
    /\ OnlyDecodedRemains'
    /\ \A u \in Threads \ {t} :
          /\ ptr'[u] = ptr[u]
          /\ \A q \in Ptrs : ptr[u][q] # NULL => data'[ptr[u][q]] = data[ptr[u][q]]
    /\ \A q \in Ptrs \ G :
          /\ ptr'[t][q] = ptr[t][q]
          /\ ptr[t][q] # NULL => data'[ptr[t][q]] = data[ptr[t][q]]

\* And so does everything else of the other threads.
LocalStep(t) ==
    /\ pc' \in [Threads -> PCs]
    /\ size' \in [Threads -> [StructPtrs -> BOOLEAN]]
    /\ result' \in [Threads -> Errors]
    /\ \A u \in Threads \ {t} : pc'[u] = pc[u] /\ size'[u] = size[u] /\ result'[u] = result[u]

LEMMA Frame ==
    ASSUME NEW t \in Threads, NEW G, IInv, HeapFrame(t, G), LocalStep(t), Mine(t)'
    PROVE  IInv'
<1>1. Types'  BY DEF Types, HeapFrame, LocalStep
<1>2. ASSUME NEW u \in Threads, u # t PROVE Mine(u)'
  <2>1. Mine(u)  BY DEF IInv
  <2>2. /\ pc'[u] = pc[u] /\ size'[u] = size[u] /\ result'[u] = result[u] /\ ptr'[u] = ptr[u]
        /\ \A q \in Ptrs : ptr[u][q] # NULL => data'[ptr[u][q]] = data[ptr[u][q]]
    BY <1>2 DEF LocalStep, HeapFrame
  <2>3. Shape(u, pc'[u], ptr'[u], size'[u], result'[u])  BY <2>1, <2>2 DEF Mine
  <2>4. Held(u, pc'[u], ptr'[u], data')
    <3>1. ASSUME NEW p \in StructPtrs \cup VecPtrs, ptr[u][p] # NULL
          PROVE  data'[ptr[u][p]] = Thing(KindOf(p), u)
      BY <2>1, <2>2, <3>1 DEF Mine, Held, Ptrs
    <3>2. ASSUME pc[u] = "kg_publish"
          PROVE  /\ data'[ptr[u]["pk"]] = Thing("public_key", u)
                 /\ data'[ptr[u]["sk"]] = Thing("secret_key", u)
      <4>1. ptr[u]["pk"] # NULL /\ ptr[u]["sk"] # NULL
        BY <2>1, <3>2 DEF Mine, Shape, FramesOK, Uses, PCs
      <4> QED  BY <2>1, <2>2, <3>2, <4>1 DEF Mine, Held, Ptrs, FramePtrs
    <3> QED  BY <2>2, <3>1, <3>2 DEF Held
  <2> QED  BY <2>3, <2>4 DEF Mine
<1> QED  BY <1>1, <1>2 DEF IInv, HeapFrame

\* A step that leaves the heap alone.
LEMMA Untouched ==
    ASSUME NEW t \in Threads, IInv, UNCHANGED <<ptr, live, data>>
    PROVE  HeapFrame(t, {})
<1>1. OneOwner' /\ OnlyDecodedRemains'  BY DEF IInv, OneOwner, OnlyDecodedRemains
<1> QED  BY <1>1 DEF HeapFrame, IInv, Types

\* malloc: a block nobody had, for a pointer that was NULL.
LEMMA Acquire ==
    ASSUME NEW t \in Threads, NEW p \in Ptrs, NEW b \in Blocks, IInv,
           ptr[t][p] = NULL, ~live[b],
           live' = [live EXCEPT ![b] = TRUE],
           ptr' = [ptr EXCEPT ![t][p] = b],
           data' \in [Blocks -> Data],
           \A c \in Blocks \ {b} : data'[c] = data[c]
    PROVE  HeapFrame(t, {p}) /\ ptr'[t][p] = b
<1>0. Types /\ OneOwner /\ OnlyDecodedRemains /\ b # NULL  BY HeapAssumption DEF IInv
<1>1. /\ ptr' \in [Threads -> [Ptrs -> Blocks \cup {NULL}]]
      /\ ptr'[t][p] = b
      /\ \A u \in Threads, q \in Ptrs : u # t \/ q # p => ptr'[u][q] = ptr[u][q]
      /\ \A u \in Threads \ {t} : ptr'[u] = ptr[u]
  BY <1>0 DEF Types
<1>2. live' \in [Blocks -> BOOLEAN] /\ live'[b] /\ \A c \in Blocks \ {b} : live'[c] = live[c]
  BY <1>0 DEF Types
<1>3. \A u \in Threads, q \in Ptrs : ptr[u][q] # NULL => ptr[u][q] \in Blocks /\ ptr[u][q] # b
                                                        /\ live[ptr[u][q]]
  BY <1>0 DEF Types, OneOwner
<1>4. OneOwner'
  <2>1. ASSUME NEW u \in Threads, NEW q \in Ptrs, ptr'[u][q] # NULL PROVE live'[ptr'[u][q]]
    BY <1>0, <1>1, <1>2, <1>3, <2>1
  <2>2. ASSUME NEW u \in Threads, NEW q \in Ptrs, NEW v \in Threads, NEW r \in Ptrs,
               ptr'[u][q] = ptr'[v][r], ptr'[u][q] # NULL
        PROVE  u = v /\ q = r
    <3>1. CASE u = t /\ q = p  BY <1>1, <1>3, <2>2, <3>1
    <3>2. CASE v = t /\ r = p  BY <1>1, <1>3, <2>2, <3>2
    <3>3. CASE ~(u = t /\ q = p) /\ ~(v = t /\ r = p)
      BY <1>0, <1>1, <2>2, <3>3 DEF OneOwner
    <3> QED  BY <3>1, <3>2, <3>3
  <2>3. ASSUME NEW c \in Blocks, live'[c] PROVE \E u \in Threads, q \in Ptrs : ptr'[u][q] = c
    <3>1. CASE c = b  BY <1>1, <3>1
    <3>2. CASE c # b
      <4>1. PICK u \in Threads, q \in Ptrs : ptr[u][q] = c
        BY <1>0, <1>2, <2>3, <3>2 DEF OneOwner
      <4>2. u # t \/ q # p  BY <4>1, HeapAssumption
      <4> QED  BY <1>1, <4>1, <4>2
    <3> QED  BY <3>1, <3>2
  <2> QED  BY <2>1, <2>2, <2>3 DEF OneOwner
<1>5. OnlyDecodedRemains'  BY <1>0, <1>2 DEF OnlyDecodedRemains
<1> QED  BY <1>1, <1>2, <1>3, <1>4, <1>5 DEF HeapFrame

\* free: the pointers G let go of their blocks, which hold no secret any more.
LEMMA Release ==
    ASSUME NEW t \in Threads, NEW G \in SUBSET Ptrs, IInv,
           live' = Dead(At(t, G)),
           ptr' = Forget(t, G),
           data' \in [Blocks -> Data],
           \A c \in Blocks \ At(t, G) : data'[c] = data[c],
           \A c \in At(t, G) : MayRemain(data'[c])
    PROVE  HeapFrame(t, G) /\ \A q \in G : ptr'[t][q] = NULL
<1>0. Types /\ OneOwner /\ OnlyDecodedRemains  BY DEF IInv
<1>1. ptr' = [ptr EXCEPT ![t] = [p \in Ptrs |-> IF p \in G THEN NULL ELSE ptr[t][p]]]
  BY DEF Forget
<1>2. /\ ptr' \in [Threads -> [Ptrs -> Blocks \cup {NULL}]]
      /\ \A q \in Ptrs : ptr'[t][q] = IF q \in G THEN NULL ELSE ptr[t][q]
      /\ \A u \in Threads \ {t} : ptr'[u] = ptr[u]
  BY <1>0, <1>1 DEF Types
<1>3. live' \in [Blocks -> BOOLEAN] /\ \A c \in Blocks : live'[c] <=> live[c] /\ c \notin At(t, G)
  BY <1>0 DEF Types, Dead
<1>4. \A u \in Threads, q \in Ptrs :
        ptr[u][q] # NULL => /\ ptr[u][q] \in Blocks /\ live[ptr[u][q]]
                            /\ ptr[u][q] \in At(t, G) <=> u = t /\ q \in G
  <2> SUFFICES ASSUME NEW u \in Threads, NEW q \in Ptrs, ptr[u][q] # NULL
               PROVE  /\ ptr[u][q] \in Blocks /\ live[ptr[u][q]]
                      /\ ptr[u][q] \in At(t, G) <=> u = t /\ q \in G
    OBVIOUS
  <2>1. ptr[u][q] \in Blocks /\ live[ptr[u][q]]  BY <1>0 DEF Types, OneOwner
  <2>2. ASSUME ptr[u][q] \in At(t, G) PROVE u = t /\ q \in G
    <3>1. PICK r \in G : ptr[t][r] = ptr[u][q]  BY <2>2 DEF At
    <3> QED  BY <1>0, <3>1 DEF OneOwner
  <2>3. ASSUME u = t /\ q \in G PROVE ptr[u][q] \in At(t, G)  BY <2>3 DEF At
  <2> QED  BY <2>1, <2>2, <2>3
<1>5. OneOwner'
  <2>1. ASSUME NEW u \in Threads, NEW q \in Ptrs, ptr'[u][q] # NULL
        PROVE  ptr'[u][q] = ptr[u][q] /\ ~(u = t /\ q \in G)
    BY <1>2, <2>1
  <2>2. ASSUME NEW u \in Threads, NEW q \in Ptrs, ptr'[u][q] # NULL PROVE live'[ptr'[u][q]]
    BY <1>3, <1>4, <2>1, <2>2
  <2>3. ASSUME NEW u \in Threads, NEW q \in Ptrs, NEW v \in Threads, NEW r \in Ptrs,
               ptr'[u][q] = ptr'[v][r], ptr'[u][q] # NULL
        PROVE  u = v /\ q = r
    BY <1>0, <2>1, <2>3 DEF OneOwner
  <2>4. ASSUME NEW c \in Blocks, live'[c] PROVE \E u \in Threads, q \in Ptrs : ptr'[u][q] = c
    <3>1. live[c] /\ c \notin At(t, G)  BY <1>3, <2>4
    <3>2. PICK u \in Threads, q \in Ptrs : ptr[u][q] = c  BY <1>0, <3>1 DEF OneOwner
    <3>3. ~(u = t /\ q \in G)  BY <1>4, <3>1, <3>2, HeapAssumption
    <3> QED  BY <1>2, <3>2, <3>3
  <2> QED  BY <2>2, <2>3, <2>4 DEF OneOwner
<1>6. OnlyDecodedRemains'  BY <1>0, <1>3 DEF OnlyDecodedRemains
<1> QED  BY <1>2, <1>3, <1>4, <1>5, <1>6 DEF HeapFrame

\* A block changes hands inside the thread, or is written to: m says which
\* pointer each of t's pointers takes its value from.
LEMMA Rearrange ==
    ASSUME NEW t \in Threads, NEW G \in SUBSET Ptrs, NEW m \in [Ptrs -> Ptrs], IInv,
           \A q \in Ptrs \ G : m[q] = q,
           \A q \in G : m[q] \in G /\ m[m[q]] = q,
           ptr' \in [Threads -> [Ptrs -> Blocks \cup {NULL}]],
           \A q \in Ptrs : ptr'[t][q] = ptr[t][m[q]],
           \A u \in Threads \ {t} : ptr'[u] = ptr[u],
           live' = live,
           data' \in [Blocks -> Data],
           \A c \in Blocks \ At(t, G) : data'[c] = data[c]
    PROVE  HeapFrame(t, G)
<1>0. Types /\ OneOwner /\ OnlyDecodedRemains  BY DEF IInv
<1>1. \A q \in Ptrs : m[q] \in Ptrs /\ m[m[q]] = q  OBVIOUS
<1>2. \A u \in Threads, q \in Ptrs :
        ptr[u][q] # NULL => /\ ptr[u][q] \in Blocks /\ live[ptr[u][q]]
                            /\ ptr[u][q] \in At(t, G) => u = t /\ q \in G
  <2> SUFFICES ASSUME NEW u \in Threads, NEW q \in Ptrs, ptr[u][q] # NULL
               PROVE  /\ ptr[u][q] \in Blocks /\ live[ptr[u][q]]
                      /\ ptr[u][q] \in At(t, G) => u = t /\ q \in G
    OBVIOUS
  <2>1. ptr[u][q] \in Blocks /\ live[ptr[u][q]]  BY <1>0 DEF Types, OneOwner
  <2>2. ASSUME ptr[u][q] \in At(t, G) PROVE u = t /\ q \in G
    <3>1. PICK r \in G : ptr[t][r] = ptr[u][q]  BY <2>2 DEF At
    <3> QED  BY <1>0, <3>1 DEF OneOwner
  <2> QED  BY <2>1, <2>2
<1>3. OneOwner'
  <2>1. ASSUME NEW u \in Threads, NEW q \in Ptrs, ptr'[u][q] # NULL PROVE live'[ptr'[u][q]]
    <3>1. CASE u = t  BY <1>0, <1>1, <2>1, <3>1 DEF OneOwner
    <3>2. CASE u # t  BY <1>0, <2>1, <3>2 DEF OneOwner
    <3> QED  BY <3>1, <3>2
  <2>2. ASSUME NEW u \in Threads, NEW q \in Ptrs, NEW v \in Threads, NEW r \in Ptrs,
               ptr'[u][q] = ptr'[v][r], ptr'[u][q] # NULL
        PROVE  u = v /\ q = r
    <3>1. CASE u = t /\ v = t
      <4>1. m[q] = m[r]  BY <1>0, <1>1, <2>2, <3>1 DEF OneOwner
      <4> QED  BY <1>1, <3>1, <4>1
    <3>2. CASE u = t /\ v # t  BY <1>0, <1>1, <2>2, <3>2 DEF OneOwner
    <3>3. CASE u # t /\ v = t  BY <1>0, <1>1, <2>2, <3>3 DEF OneOwner
    <3>4. CASE u # t /\ v # t  BY <1>0, <2>2, <3>4 DEF OneOwner
    <3> QED  BY <3>1, <3>2, <3>3, <3>4
  <2>3. ASSUME NEW c \in Blocks, live'[c] PROVE \E u \in Threads, q \in Ptrs : ptr'[u][q] = c
    <3>1. PICK u \in Threads, q \in Ptrs : ptr[u][q] = c  BY <1>0, <2>3 DEF OneOwner
    <3>2. CASE u = t  BY <1>1, <3>1, <3>2
    <3>3. CASE u # t  BY <3>1, <3>3
    <3> QED  BY <3>2, <3>3
  <2> QED  BY <2>1, <2>2, <2>3 DEF OneOwner
<1>4. OnlyDecodedRemains'
  <2> SUFFICES ASSUME NEW c \in Blocks, ~live[c] PROVE MayRemain(data'[c])
    BY DEF OnlyDecodedRemains
  <2>1. c \notin At(t, G)
    <3>1. ASSUME NEW r \in G, ptr[t][r] = c, c # NULL PROVE FALSE  BY <1>2, <3>1
    <3> QED  BY <3>1 DEF At
  <2> QED  BY <1>0, <2>1 DEF OnlyDecodedRemains
<1> QED  BY <1>0, <1>2, <1>3, <1>4 DEF HeapFrame, Types

\* malloc for a frame pointer that was NULL, the block's bytes left as they are.
LEMMA MallocFrame ==
    ASSUME NEW t \in Threads, NEW p \in Ptrs, IInv, ptr[t][p] = NULL,
           Malloc(t, p), data' = data
    PROVE  HeapFrame(t, {p})
<1>0. Types /\ data' \in [Blocks -> Data]  BY DEF IInv, Types
<1>1. CASE \E b \in Blocks : /\ ~live[b]
                             /\ live' = [live EXCEPT ![b] = TRUE]
                             /\ ptr' = [ptr EXCEPT ![t][p] = b]
  <2>1. PICK b \in Blocks : /\ ~live[b]
                            /\ live' = [live EXCEPT ![b] = TRUE]
                            /\ ptr' = [ptr EXCEPT ![t][p] = b]
    BY <1>1
  <2> QED  BY <1>0, <2>1, Acquire
<1>2. CASE ptr' = [ptr EXCEPT ![t][p] = NULL] /\ UNCHANGED live
  <2>1. ptr' = ptr  BY <1>0, <1>2 DEF Types
  <2>2. HeapFrame(t, {})  BY <1>2, <2>1, Untouched
  <2> QED  BY <2>2 DEF HeapFrame
<1> QED  BY <1>1, <1>2 DEF Malloc

\* A step of t to l with result r: what is left to show of every action.
LEMMA StepTo ==
    ASSUME NEW t \in Threads, NEW G, NEW l, NEW r, IInv,
           HeapFrame(t, G), LocalStep(t), pc'[t] = l, result'[t] = r,
           Shape(t, l, ptr'[t], size'[t], r),
           \A p \in G \cap (StructPtrs \cup VecPtrs) :
              ptr'[t][p] # NULL => data'[ptr'[t][p]] = Thing(KindOf(p), t),
           l = "kg_publish" => /\ data'[ptr'[t]["pk"]] = Thing("public_key", t)
                               /\ data'[ptr'[t]["sk"]] = Thing("secret_key", t)
    PROVE  IInv'
<1>1. ASSUME NEW p \in StructPtrs \cup VecPtrs, ptr'[t][p] # NULL
      PROVE  data'[ptr'[t][p]] = Thing(KindOf(p), t)
  <2>1. CASE p \in G  BY <1>1, <2>1
  <2>2. CASE p \notin G
    <3>1. Held(t, pc[t], ptr[t], data)  BY DEF IInv, Mine
    <3>2. p \in Ptrs \ G  BY <2>2 DEF Ptrs
    <3>3. ptr'[t][p] = ptr[t][p] /\ (ptr[t][p] # NULL => data'[ptr[t][p]] = data[ptr[t][p]])
      BY <3>2 DEF HeapFrame
    <3>4. data[ptr[t][p]] = Thing(KindOf(p), t)  BY <1>1, <3>1, <3>3 DEF Held
    <3> QED  BY <1>1, <3>3, <3>4
  <2> QED  BY <2>1, <2>2
<1>2. Held(t, l, ptr'[t], data')  BY <1>1 DEF Held
<1>3. Mine(t)'  BY <1>2 DEF Mine
<1> QED  BY <1>3, Frame

----------------------------------------------------------------------------
(* The initial states, and one lemma per action.                           *)

LEMMA InitInv == Init => IInv
<1> SUFFICES ASSUME Init PROVE IInv  OBVIOUS
<1>1. Types  BY DEF Init, Types, PCs, Errors, Data
<1>2. OneOwner  BY DEF Init, OneOwner
<1>3. OnlyDecodedRemains
  BY DEF Init, OnlyDecodedRemains, MayRemain, Secret, Junk, Thing
<1>4. ASSUME NEW t \in Threads PROVE Mine(t)
  <2>1. pc[t] = "idle" /\ \A p \in StructPtrs : ~size[t][p]  BY DEF Init
  <2>2. \A p \in Ptrs : ptr[t][p] = NULL  BY DEF Init
  <2>3. FramesOK("idle", ptr[t])
    BY <2>2 DEF FramesOK, Uses, PCs, Ptrs, FramePtrs, VecPtrs
  <2>4. StructsOK("idle", ptr[t], size[t], result[t])
    BY <2>1, <2>2 DEF StructsOK, KeygenPCs, SignPCs, Ptrs, StructPtrs
  <2>5. VecsOK(t, "idle", ptr[t])
    BY <2>2 DEF VecsOK, KeygenPCs, SignPCs, Ptrs, StructPtrs, VecPtrs
  <2>6. Held(t, "idle", ptr[t], data)  BY <2>2 DEF Held, Ptrs
  <2> QED  BY <2>1, <2>3, <2>4, <2>5, <2>6 DEF Mine, Shape
<1> QED  BY <1>1, <1>2, <1>3, <1>4 DEF IInv

LEMMA KeygenInv == ASSUME NEW t \in Threads, IInv, Keygen(t) PROVE IInv'
<1>0. Types /\ Mine(t) /\ pc[t] = "idle" /\ t \in CThreads  BY DEF IInv, Keygen
<1>u. UNCHANGED <<ptr, size, live, data>>  BY DEF Keygen
<1>1. HeapFrame(t, {})  BY <1>u, Untouched
<1>2. PICK enough \in BOOLEAN :
         IF KeygenAccepts(t, enough)
         THEN Goto(t, "kg_pk") /\ UNCHANGED result
         ELSE Goto(t, "kg_ret") /\ result' = [result EXCEPT ![t] = "BAD_ARG"]
  BY DEF Keygen
<1>3. CASE KeygenAccepts(t, enough)
  <2>1. pc' = [pc EXCEPT ![t] = "kg_pk"] /\ result' = result  BY <1>2, <1>3 DEF Goto
  <2>2. LocalStep(t) /\ pc'[t] = "kg_pk" /\ result'[t] = result[t]
    BY <1>0, <1>u, <2>1 DEF Types, LocalStep, PCs
  <2>3. ptr[t]["public_key"] = NULL /\ ptr[t]["secret_key"] = NULL
    BY <1>3 DEF KeygenAccepts, OutputIsEmpty, KeypairPtrs
  <2>4. Shape(t, "kg_pk", ptr[t], size[t], result[t])
    BY <1>0, <2>3 DEF Mine, Shape, FramesOK, StructsOK, VecsOK, Uses, PCs, KeygenPCs, SignPCs,
                      VecPtrs
  <2> QED  BY <1>u, <1>1, <2>2, <2>4, StepTo
<1>4. CASE ~KeygenAccepts(t, enough)
  <2>1. pc' = [pc EXCEPT ![t] = "kg_ret"] /\ result' = [result EXCEPT ![t] = "BAD_ARG"]
    BY <1>2, <1>4 DEF Goto
  <2>2. LocalStep(t) /\ pc'[t] = "kg_ret" /\ result'[t] = "BAD_ARG"
    BY <1>0, <1>u, <2>1 DEF Types, LocalStep, PCs, Errors
  <2>3. Shape(t, "kg_ret", ptr[t], size[t], "BAD_ARG")
    BY <1>0, HeapAssumption
    DEF Mine, Shape, FramesOK, StructsOK, VecsOK, Uses, PCs, KeygenPCs, SignPCs, VecPtrs
  <2> QED  BY <1>u, <1>1, <2>2, <2>3, StepTo
<1> QED  BY <1>3, <1>4

LEMMA MallocPkInv == ASSUME NEW t \in Threads, IInv, MallocPk(t) PROVE IInv'
<1>0. Types /\ Mine(t) /\ pc[t] = "kg_pk"  BY DEF IInv, MallocPk
<1>u. UNCHANGED <<size, data, result>> /\ pc' = [pc EXCEPT ![t] = "kg_sk"]  BY DEF MallocPk, Goto
<1>1. LocalStep(t) /\ pc'[t] = "kg_sk" /\ result'[t] = result[t]
  BY <1>0, <1>u DEF Types, LocalStep, PCs
<1>2. ptr[t]["pk"] = NULL /\ "pk" \in Ptrs
  BY <1>0 DEF Mine, Shape, FramesOK, KeygenPCs, Ptrs, FramePtrs
<1>3. HeapFrame(t, {"pk"})
  BY <1>0, <1>u, <1>2, MallocFrame DEF MallocPk, Types
<1>4. Shape(t, "kg_sk", ptr'[t], size'[t], result[t])
  <2>1. Shape(t, "kg_pk", ptr[t], size[t], result[t])  BY <1>0 DEF Mine
  <2>2. \A q \in Ptrs \ {"pk"} : ptr'[t][q] = ptr[t][q]  BY <1>3 DEF HeapFrame
  <2> QED  BY <1>u, <2>1, <2>2
           DEF Shape, FramesOK, StructsOK, VecsOK, Uses, PCs, KeygenPCs, SignPCs, Ptrs,
               FramePtrs, StructPtrs, VecPtrs
<1>5. {"pk"} \cap (StructPtrs \cup VecPtrs) = {}  BY DEF StructPtrs, VecPtrs
<1> QED  BY <1>1, <1>3, <1>4, <1>5, StepTo

LEMMA MallocSkInv == ASSUME NEW t \in Threads, IInv, MallocSk(t) PROVE IInv'
<1>0. Types /\ Mine(t) /\ pc[t] = "kg_sk"  BY DEF IInv, MallocSk
<1>u. UNCHANGED <<size, data, result>> /\ pc' = [pc EXCEPT ![t] = "kg_check"]
  BY DEF MallocSk, Goto
<1>1. LocalStep(t) /\ pc'[t] = "kg_check" /\ result'[t] = result[t]
  BY <1>0, <1>u DEF Types, LocalStep, PCs
<1>2. ptr[t]["sk"] = NULL /\ "sk" \in Ptrs
  BY <1>0 DEF Mine, Shape, FramesOK, KeygenPCs, Ptrs, FramePtrs
<1>3. HeapFrame(t, {"sk"})  BY <1>0, <1>u, <1>2, MallocFrame DEF MallocSk
<1>4. Shape(t, "kg_check", ptr'[t], size'[t], result[t])
  <2>1. Shape(t, "kg_sk", ptr[t], size[t], result[t])  BY <1>0 DEF Mine
  <2>2. \A q \in Ptrs \ {"sk"} : ptr'[t][q] = ptr[t][q]  BY <1>3 DEF HeapFrame
  <2> QED  BY <1>u, <2>1, <2>2
           DEF Shape, FramesOK, StructsOK, VecsOK, Uses, PCs, KeygenPCs, SignPCs, Ptrs,
               FramePtrs, StructPtrs, VecPtrs
<1>5. {"sk"} \cap (StructPtrs \cup VecPtrs) = {}  BY DEF StructPtrs, VecPtrs
<1> QED  BY <1>1, <1>3, <1>4, <1>5, StepTo

LEMMA KeygenCheckInv == ASSUME NEW t \in Threads, IInv, KeygenCheck(t) PROVE IInv'
<1>0. Types /\ pc[t] = "kg_check" /\ Shape(t, "kg_check", ptr[t], size[t], result[t])
  BY DEF IInv, Mine, KeygenCheck
<1>u. UNCHANGED <<ptr, size, live, data>>  BY DEF KeygenCheck
<1>1. HeapFrame(t, {})  BY <1>u, Untouched
<1>2. CASE NULL \in {ptr[t]["pk"], ptr[t]["sk"]}
  <2>1. pc' = [pc EXCEPT ![t] = "kg_fail"] /\ result' = [result EXCEPT ![t] = "OUT_OF_MEMORY"]
    BY <1>2 DEF KeygenCheck, Goto
  <2>2. LocalStep(t) /\ pc'[t] = "kg_fail" /\ result'[t] = "OUT_OF_MEMORY"
    BY <1>0, <1>u, <2>1 DEF Types, LocalStep, PCs, Errors
  <2>3. Shape(t, "kg_fail", ptr[t], size[t], "OUT_OF_MEMORY")
    BY <1>0 DEF Shape, FramesOK, StructsOK, VecsOK, Uses, PCs, KeygenPCs, SignPCs
  <2> QED  BY <1>u, <1>1, <2>2, <2>3, StepTo
<1>3. CASE NULL \notin {ptr[t]["pk"], ptr[t]["sk"]}
  <2>1. pc' = [pc EXCEPT ![t] = "kg_input"] /\ result' = result  BY <1>3 DEF KeygenCheck, Goto
  <2>2. LocalStep(t) /\ pc'[t] = "kg_input" /\ result'[t] = result[t]
    BY <1>0, <1>u, <2>1 DEF Types, LocalStep, PCs
  <2>3. Shape(t, "kg_input", ptr[t], size[t], result[t])
    BY <1>0, <1>3 DEF Shape, FramesOK, StructsOK, VecsOK, Uses, PCs, KeygenPCs, SignPCs
  <2> QED  BY <1>u, <1>1, <2>2, <2>3, StepTo
<1> QED  BY <1>2, <1>3

LEMMA ThingTypes ==
    /\ Zero \in Data /\ Junk \in Data /\ ~Secret(Zero) /\ ~Secret(Junk)
    /\ \A k \in Kinds, t \in Threads : Thing(k, t) \in Data
BY DEF Zero, Junk, Data, Things, Thing, Secret

LEMMA InputTooLongInv == ASSUME NEW t \in Threads, IInv, InputTooLong(t) PROVE IInv'
<1>0. Types /\ pc[t] = "kg_input" /\ Shape(t, "kg_input", ptr[t], size[t], result[t])
  BY DEF IInv, Mine, InputTooLong
<1>u. /\ UNCHANGED <<ptr, size, live, data>>
      /\ pc' = [pc EXCEPT ![t] = "kg_fail"] /\ result' = [result EXCEPT ![t] = "BAD_KEY"]
  BY DEF InputTooLong, Goto
<1>1. HeapFrame(t, {})  BY <1>u, Untouched
<1>2. LocalStep(t) /\ pc'[t] = "kg_fail" /\ result'[t] = "BAD_KEY"
  BY <1>0, <1>u DEF Types, LocalStep, PCs, Errors
<1>3. Shape(t, "kg_fail", ptr[t], size[t], "BAD_KEY")
  BY <1>0 DEF Shape, FramesOK, StructsOK, VecsOK, Uses, PCs, KeygenPCs, SignPCs
<1> QED  BY <1>u, <1>1, <1>2, <1>3, StepTo

LEMMA MallocInputInv == ASSUME NEW t \in Threads, IInv, MallocInput(t) PROVE IInv'
<1>0. Types /\ pc[t] = "kg_input" /\ Shape(t, "kg_input", ptr[t], size[t], result[t])
  BY DEF IInv, Mine, MallocInput
<1>1. ptr[t]["input"] = NULL /\ "input" \in Ptrs
  BY <1>0 DEF Shape, FramesOK, Ptrs, FramePtrs
<1>2. UNCHANGED size /\ data' = [b \in Blocks |-> IF b = ptr'[t]["input"] THEN Thing("entropy", t)
                                                  ELSE data[b]]
  BY DEF MallocInput
<1>3. Thing("entropy", t) \in Data  BY ThingTypes DEF Kinds
<1>4. data' \in [Blocks -> Data]  BY <1>0, <1>2, <1>3 DEF Types
<1>5. {"input"} \cap (StructPtrs \cup VecPtrs) = {}  BY DEF StructPtrs, VecPtrs
<1>6. CASE \E b \in Blocks : /\ ~live[b]
                             /\ live' = [live EXCEPT ![b] = TRUE]
                             /\ ptr' = [ptr EXCEPT ![t]["input"] = b]
  <2>1. PICK b \in Blocks : /\ ~live[b]
                            /\ live' = [live EXCEPT ![b] = TRUE]
                            /\ ptr' = [ptr EXCEPT ![t]["input"] = b]
    BY <1>6
  <2>2. ptr'[t]["input"] = b /\ b # NULL  BY <1>0, <1>1, <2>1, HeapAssumption DEF Types
  <2>3. \A c \in Blocks \ {b} : data'[c] = data[c]  BY <1>2, <2>2
  <2>4. HeapFrame(t, {"input"})  BY <1>1, <1>4, <2>1, <2>3, Acquire
  <2>5. pc' = [pc EXCEPT ![t] = "kg_derive"] /\ result' = result  BY <2>2 DEF MallocInput, Goto
  <2>6. LocalStep(t) /\ pc'[t] = "kg_derive" /\ result'[t] = result[t]
    BY <1>0, <1>2, <2>5 DEF Types, LocalStep, PCs
  <2>7. Shape(t, "kg_derive", ptr'[t], size'[t], result[t])
    <3>1. \A q \in Ptrs \ {"input"} : ptr'[t][q] = ptr[t][q]  BY <2>4 DEF HeapFrame
    <3> QED  BY <1>0, <1>2, <2>2, <3>1
             DEF Shape, FramesOK, StructsOK, VecsOK, Uses, PCs, KeygenPCs, SignPCs, Ptrs,
                 FramePtrs, StructPtrs, VecPtrs
  <2> QED  BY <1>5, <2>4, <2>6, <2>7, StepTo
<1>7. CASE ptr' = [ptr EXCEPT ![t]["input"] = NULL] /\ UNCHANGED live
  <2>1. ptr' = ptr /\ ptr'[t]["input"] = NULL  BY <1>0, <1>1, <1>7 DEF Types
  <2>2. data' = data  BY <1>0, <1>2, <2>1, HeapAssumption DEF Types
  <2>3. HeapFrame(t, {})  BY <1>7, <2>1, <2>2, Untouched
  <2>4. pc' = [pc EXCEPT ![t] = "kg_fail"] /\ result' = [result EXCEPT ![t] = "OUT_OF_MEMORY"]
    BY <2>1 DEF MallocInput, Goto
  <2>5. LocalStep(t) /\ pc'[t] = "kg_fail" /\ result'[t] = "OUT_OF_MEMORY"
    BY <1>0, <1>2, <2>4 DEF Types, LocalStep, PCs, Errors
  <2>6. Shape(t, "kg_fail", ptr'[t], size'[t], "OUT_OF_MEMORY")
    BY <1>0, <1>2, <2>1 DEF Shape, FramesOK, StructsOK, VecsOK, Uses, PCs, KeygenPCs, SignPCs
  <2> QED  BY <2>3, <2>5, <2>6, StepTo
<1> QED  BY <1>6, <1>7 DEF MallocInput, Malloc

\* secure_zero on what the pointers W are to, then free on all of G.
LEMMA FreeFrame ==
    ASSUME NEW t \in Threads, NEW G \in SUBSET Ptrs, NEW W \in SUBSET G, IInv,
           data' = Freed(Wiped(At(t, W)), At(t, G)),
           live' = Dead(At(t, G)),
           ptr' = Forget(t, G),
           \A q \in G \ W : ptr[t][q] # NULL => MayRemain(data[ptr[t][q]])
    PROVE  HeapFrame(t, G) /\ \A q \in G : ptr'[t][q] = NULL
<1>0. Types  BY DEF IInv
<1>1. At(t, G) \subseteq Blocks /\ At(t, W) \subseteq At(t, G)  BY <1>0 DEF Types, At
<1>2. ASSUME NEW c \in At(t, G), c \notin At(t, W) PROVE MayRemain(data[c])
  <2>1. PICK q \in G : ptr[t][q] = c /\ c # NULL  BY DEF At
  <2>2. q \notin W  BY <1>2, <2>1 DEF At
  <2> QED  BY <2>1, <2>2
<1> DEFINE w == Wiped(At(t, W))
<1>3. \A c \in Blocks : w[c] = IF c \in At(t, W) THEN Zero ELSE data[c]  BY DEF Wiped
<1> HIDE DEF w
<1>4. data' = [b \in Blocks |-> IF b \in At(t, G) /\ ~Secret(w[b]) THEN Junk ELSE w[b]]
  BY DEF Freed, w
<1>5. data' \in [Blocks -> Data]  BY <1>0, <1>3, <1>4, ThingTypes DEF Types
<1>6. \A c \in Blocks \ At(t, G) : data'[c] = data[c]  BY <1>1, <1>3, <1>4
<1>7. \A c \in At(t, G) : MayRemain(data'[c])  BY <1>1, <1>2, <1>3, <1>4, ThingTypes DEF MayRemain
<1> QED  BY <1>5, <1>6, <1>7, Release

LEMMA DeriveSeedInv == ASSUME NEW t \in Threads, IInv, DeriveSeed(t) PROVE IInv'
<1>0. Types /\ pc[t] = "kg_derive" /\ Shape(t, "kg_derive", ptr[t], size[t], result[t])
  BY DEF IInv, Mine, DeriveSeed
<1>u. UNCHANGED <<size, result>> /\ pc' = [pc EXCEPT ![t] = "kg_fill"]  BY DEF DeriveSeed, Goto
<1>1. LocalStep(t) /\ pc'[t] = "kg_fill" /\ result'[t] = result[t]
  BY <1>0, <1>u DEF Types, LocalStep, PCs
<1>2. {"input"} \in SUBSET Ptrs  BY DEF Ptrs, FramePtrs
<1>3. HeapFrame(t, {"input"}) /\ ptr'[t]["input"] = NULL  BY <1>2, FreeFrame DEF DeriveSeed
<1>4. Shape(t, "kg_fill", ptr'[t], size'[t], result[t])
  <2>1. \A q \in Ptrs \ {"input"} : ptr'[t][q] = ptr[t][q]  BY <1>3 DEF HeapFrame
  <2> QED  BY <1>0, <1>u, <1>3, <2>1
           DEF Shape, FramesOK, StructsOK, VecsOK, Uses, PCs, KeygenPCs, SignPCs, Ptrs,
               FramePtrs, StructPtrs, VecPtrs
<1>5. {"input"} \cap (StructPtrs \cup VecPtrs) = {}  BY DEF StructPtrs, VecPtrs
<1> QED  BY <1>1, <1>3, <1>4, <1>5, StepTo

LEMMA KeygenFailInv == ASSUME NEW t \in Threads, IInv, KeygenFail(t) PROVE IInv'
<1>0. Types /\ pc[t] = "kg_fail" /\ Shape(t, "kg_fail", ptr[t], size[t], result[t])
  BY DEF IInv, Mine, KeygenFail
<1>u. UNCHANGED <<size, result>> /\ pc' = [pc EXCEPT ![t] = "kg_ret"]  BY DEF KeygenFail, Goto
<1>1. LocalStep(t) /\ pc'[t] = "kg_ret" /\ result'[t] = result[t]
  BY <1>0, <1>u DEF Types, LocalStep, PCs
<1>2. {"pk", "sk"} \in SUBSET Ptrs  BY DEF Ptrs, FramePtrs
<1>3. HeapFrame(t, {"pk", "sk"}) /\ \A q \in {"pk", "sk"} : ptr'[t][q] = NULL
  BY <1>2, FreeFrame DEF KeygenFail
<1>4. Shape(t, "kg_ret", ptr'[t], size'[t], result[t])
  <2>1. \A q \in Ptrs \ {"pk", "sk"} : ptr'[t][q] = ptr[t][q]  BY <1>3 DEF HeapFrame
  <2> QED  BY <1>0, <1>u, <1>3, <2>1
           DEF Shape, FramesOK, StructsOK, VecsOK, Uses, PCs, KeygenPCs, SignPCs, Ptrs,
               FramePtrs, StructPtrs, VecPtrs
<1>5. {"pk", "sk"} \cap (StructPtrs \cup VecPtrs) = {}  BY DEF StructPtrs, VecPtrs
<1> QED  BY <1>1, <1>3, <1>4, <1>5, StepTo

\* A write through the pointers G of t.
LEMMA WriteFrame ==
    ASSUME NEW t \in Threads, NEW G \in SUBSET Ptrs, IInv, UNCHANGED <<ptr, live>>,
           data' \in [Blocks -> Data],
           \A c \in Blocks \ At(t, G) : data'[c] = data[c]
    PROVE  HeapFrame(t, G)
<1> DEFINE m == [q \in Ptrs |-> q]
<1>1. m \in [Ptrs -> Ptrs] /\ \A q \in Ptrs : m[q] = q  OBVIOUS
<1> HIDE DEF m
<1>2. Types  BY DEF IInv
<1>3. /\ \A q \in Ptrs \ G : m[q] = q
      /\ \A q \in G : m[q] \in G /\ m[m[q]] = q
      /\ \A q \in Ptrs : ptr'[t][q] = ptr[t][m[q]]
      /\ ptr' \in [Threads -> [Ptrs -> Blocks \cup {NULL}]]
  BY <1>1, <1>2 DEF Types
<1> QED  BY <1>1, <1>3, Rearrange

LEMMA SeedKeypairInv == ASSUME NEW t \in Threads, IInv, SeedKeypair(t) PROVE IInv'
<1> DEFINE sb == ptr[t]["sk"]
           pb == ptr[t]["pk"]
<1>0. Types /\ OneOwner /\ pc[t] = "kg_fill" /\ Shape(t, "kg_fill", ptr[t], size[t], result[t])
  BY DEF IInv, Mine, SeedKeypair
<1>u. UNCHANGED <<ptr, size, live, result>> /\ pc' = [pc EXCEPT ![t] = "kg_publish"]
  BY DEF SeedKeypair, Goto
<1>1. LocalStep(t) /\ pc'[t] = "kg_publish" /\ result'[t] = result[t]
  BY <1>0, <1>u DEF Types, LocalStep, PCs
<1>2. {"pk", "sk"} \in SUBSET Ptrs  BY DEF Ptrs, FramePtrs
<1>3. sb # NULL /\ pb # NULL  BY <1>0 DEF Shape, FramesOK, Uses, PCs
<1>4. sb \in Blocks /\ pb \in Blocks /\ sb # pb
  BY <1>0, <1>2, <1>3 DEF Types, OneOwner
<1>5. Thing("secret_key", t) \in Data /\ Thing("public_key", t) \in Data
  BY ThingTypes DEF Kinds
<1>6. data' = [data EXCEPT ![sb] = Thing("secret_key", t), ![pb] = Thing("public_key", t)]
  BY DEF SeedKeypair
<1>7. sb \in At(t, {"pk", "sk"}) /\ pb \in At(t, {"pk", "sk"})  BY <1>3 DEF At
<1> HIDE DEF sb, pb
<1>8. /\ data' \in [Blocks -> Data]
      /\ data'[sb] = Thing("secret_key", t) /\ data'[pb] = Thing("public_key", t)
      /\ \A c \in Blocks : c # sb /\ c # pb => data'[c] = data[c]
  BY <1>0, <1>4, <1>5, <1>6 DEF Types
<1>9. HeapFrame(t, {"pk", "sk"})  BY <1>u, <1>2, <1>7, <1>8, WriteFrame
<1>10. Shape(t, "kg_publish", ptr'[t], size'[t], result[t])
  BY <1>0, <1>u DEF Shape, FramesOK, StructsOK, VecsOK, Uses, PCs, KeygenPCs, SignPCs
<1>11. {"pk", "sk"} \cap (StructPtrs \cup VecPtrs) = {}  BY DEF StructPtrs, VecPtrs
<1>12. /\ data'[ptr'[t]["pk"]] = Thing("public_key", t)
       /\ data'[ptr'[t]["sk"]] = Thing("secret_key", t)
  BY <1>u, <1>8 DEF sb, pb
<1> QED  BY <1>1, <1>9, <1>10, <1>11, <1>12, StepTo

LEMMA PublishKeypairInv == ASSUME NEW t \in Threads, IInv, PublishKeypair(t) PROVE IInv'
<1> DEFINE G == {"pk", "sk", "public_key", "secret_key"}
           m == [q \in Ptrs |-> IF q = "pk" THEN "public_key"
                                ELSE IF q = "sk" THEN "secret_key"
                                ELSE IF q = "public_key" THEN "pk"
                                ELSE IF q = "secret_key" THEN "sk" ELSE q]
<1>0. /\ Types /\ pc[t] = "kg_publish" /\ Shape(t, "kg_publish", ptr[t], size[t], result[t])
      /\ data[ptr[t]["pk"]] = Thing("public_key", t)
      /\ data[ptr[t]["sk"]] = Thing("secret_key", t)
  BY DEF IInv, Mine, Held, PublishKeypair
<1>1. /\ ptr[t]["public_key"] = NULL /\ ptr[t]["secret_key"] = NULL
      /\ ptr[t]["pk"] # NULL /\ ptr[t]["sk"] # NULL
  BY <1>0 DEF Shape, FramesOK, StructsOK, Uses, PCs, KeygenPCs
<1>u. UNCHANGED <<live, data>> /\ pc' = [pc EXCEPT ![t] = "kg_ret"]
      /\ result' = [result EXCEPT ![t] = "OK"]
  BY DEF PublishKeypair, Goto
<1>2. size' = [size EXCEPT ![t] = [p \in StructPtrs |-> IF p \in KeypairPtrs THEN TRUE
                                                        ELSE size[t][p]]]
  BY DEF PublishKeypair, Sizes
<1>3. /\ size' \in [Threads -> [StructPtrs -> BOOLEAN]]
      /\ \A u \in Threads \ {t} : size'[u] = size[u]
      /\ size'[t]["public_key"] /\ size'[t]["secret_key"]
      /\ size'[t]["signature"] = size[t]["signature"]
  BY <1>0, <1>2 DEF Types, StructPtrs, KeypairPtrs
<1>4. LocalStep(t) /\ pc'[t] = "kg_ret" /\ result'[t] = "OK"
  BY <1>0, <1>u, <1>3 DEF Types, LocalStep, PCs, Errors
<1>5. G \in SUBSET Ptrs /\ m \in [Ptrs -> Ptrs]
  BY DEF Ptrs, FramePtrs, StructPtrs
<1>6. /\ \A q \in Ptrs \ G : m[q] = q
      /\ \A q \in G : m[q] \in G /\ m[m[q]] = q
  BY DEF Ptrs, FramePtrs, StructPtrs
<1>7. ptr' = [ptr EXCEPT ![t]["public_key"] = ptr[t]["pk"],
                         ![t]["secret_key"] = ptr[t]["sk"],
                         ![t]["pk"] = NULL, ![t]["sk"] = NULL]
  BY DEF PublishKeypair
<1>8. /\ ptr' \in [Threads -> [Ptrs -> Blocks \cup {NULL}]]
      /\ \A u \in Threads \ {t} : ptr'[u] = ptr[u]
      /\ ptr'[t]["public_key"] = ptr[t]["pk"] /\ ptr'[t]["secret_key"] = ptr[t]["sk"]
      /\ ptr'[t]["pk"] = NULL /\ ptr'[t]["sk"] = NULL
      /\ \A q \in Ptrs \ G : ptr'[t][q] = ptr[t][q]
  <2>1. ptr[t] \in [Ptrs -> Blocks \cup {NULL}]  BY <1>0 DEF Types
  <2> DEFINE f == [ptr[t] EXCEPT !["public_key"] = ptr[t]["pk"], !["secret_key"] = ptr[t]["sk"],
                                 !["pk"] = NULL, !["sk"] = NULL]
  <2>2. /\ f \in [Ptrs -> Blocks \cup {NULL}]
        /\ f["public_key"] = ptr[t]["pk"] /\ f["secret_key"] = ptr[t]["sk"]
        /\ f["pk"] = NULL /\ f["sk"] = NULL
        /\ \A q \in Ptrs \ G : f[q] = ptr[t][q]
    BY <1>5, <2>1 DEF Ptrs, FramePtrs, StructPtrs
  <2>3. ptr' = [ptr EXCEPT ![t] = f]  BY <1>0, <1>7 DEF Types
  <2> HIDE DEF f
  <2> QED  BY <1>0, <2>2, <2>3 DEF Types
<1>9. \A q \in Ptrs : ptr'[t][q] = ptr[t][m[q]]
  BY <1>1, <1>5, <1>8 DEF Ptrs, FramePtrs, StructPtrs
<1> HIDE DEF m
<1>10. data' \in [Blocks -> Data]  BY <1>0, <1>u DEF Types
<1>11. HeapFrame(t, G)  BY <1>u, <1>5, <1>6, <1>8, <1>9, <1>10, Rearrange
<1>12. Shape(t, "kg_ret", ptr'[t], size'[t], "OK")
  <2>1. FramesOK("kg_ret", ptr'[t])
    BY <1>0, <1>8 DEF Shape, FramesOK, Uses, PCs, KeygenPCs, SignPCs, Ptrs, FramePtrs, VecPtrs
  <2>2. StructsOK("kg_ret", ptr'[t], size'[t], "OK")
    BY <1>0, <1>1, <1>3, <1>8 DEF Shape, StructsOK, KeygenPCs, SignPCs, Ptrs, StructPtrs
  <2>3. VecsOK(t, "kg_ret", ptr'[t])
    BY <1>0, <1>8 DEF Shape, VecsOK, KeygenPCs, SignPCs, Ptrs, StructPtrs, VecPtrs
  <2> QED  BY <2>1, <2>2, <2>3 DEF Shape
<1>13. \A p \in G \cap (StructPtrs \cup VecPtrs) :
          ptr'[t][p] # NULL => data'[ptr'[t][p]] = Thing(KindOf(p), t)
  BY <1>0, <1>u, <1>8 DEF StructPtrs, VecPtrs, KindOf
<1> QED  BY <1>4, <1>11, <1>12, <1>13, StepTo

LEMMA KeypairFreeInv == ASSUME NEW t \in Threads, IInv, KeypairFree(t) PROVE IInv'
<1>0. Types /\ pc[t] = "idle" /\ Shape(t, "idle", ptr[t], size[t], result[t])
  BY DEF IInv, Mine, KeypairFree
<1>u. UNCHANGED <<ptr, size, live, data, result>> /\ pc' = [pc EXCEPT ![t] = "kf_pk"]
  BY DEF KeypairFree, Goto
<1>1. HeapFrame(t, {})  BY <1>u, Untouched
<1>2. LocalStep(t) /\ pc'[t] = "kf_pk" /\ result'[t] = result[t]
  BY <1>0, <1>u DEF Types, LocalStep, PCs
<1>3. Shape(t, "kf_pk", ptr[t], size[t], result[t])
  BY <1>0 DEF Shape, FramesOK, StructsOK, VecsOK, Uses, PCs, KeygenPCs, SignPCs
<1> QED  BY <1>u, <1>1, <1>2, <1>3, StepTo

\* A struct's field is freed: it is wiped as far as its size says, and what it
\* held is no secret when its size is 0.
LEMMA FieldFrame ==
    ASSUME NEW t \in Threads, NEW p \in StructPtrs, IInv, FreeField(t, p),
           size[t][p] \/ ptr[t][p] = NULL
    PROVE  HeapFrame(t, {p}) /\ ptr'[t][p] = NULL
<1>1. {p} \in SUBSET Ptrs /\ Sized(t, {p}) \in SUBSET {p}  BY DEF Ptrs, Sized
<1>2. \A q \in {p} \ Sized(t, {p}) : ptr[t][q] # NULL => MayRemain(data[ptr[t][q]])
  BY DEF Sized
<1> QED  BY <1>1, <1>2, FreeFrame DEF FreeField

LEMMA FreePublicKeyInv == ASSUME NEW t \in Threads, IInv, FreePublicKey(t) PROVE IInv'
<1>0. Types /\ pc[t] = "kf_pk" /\ Shape(t, "kf_pk", ptr[t], size[t], result[t])
  BY DEF IInv, Mine, FreePublicKey
<1>u. UNCHANGED <<size, result>> /\ pc' = [pc EXCEPT ![t] = "kf_sk"]  BY DEF FreePublicKey, Goto
<1>1. LocalStep(t) /\ pc'[t] = "kf_sk" /\ result'[t] = result[t]
  BY <1>0, <1>u DEF Types, LocalStep, PCs
<1>2. "public_key" \in StructPtrs /\ (size[t]["public_key"] \/ ptr[t]["public_key"] = NULL)
  BY <1>0 DEF Shape, StructsOK, StructPtrs
<1>3. HeapFrame(t, {"public_key"}) /\ ptr'[t]["public_key"] = NULL
  BY <1>2, FieldFrame DEF FreePublicKey
<1>4. Shape(t, "kf_sk", ptr'[t], size'[t], result[t])
  <2>1. \A q \in Ptrs \ {"public_key"} : ptr'[t][q] = ptr[t][q]  BY <1>3 DEF HeapFrame
  <2> QED  BY <1>0, <1>u, <1>3, <2>1
           DEF Shape, FramesOK, StructsOK, VecsOK, Uses, PCs, KeygenPCs, SignPCs, Ptrs,
               FramePtrs, StructPtrs, VecPtrs
<1> QED  BY <1>1, <1>3, <1>4, StepTo

LEMMA SizesWrite ==
    ASSUME Types, NEW t \in Threads, NEW P, NEW v \in BOOLEAN, size' = Sizes(t, P, v)
    PROVE  /\ size' \in [Threads -> [StructPtrs -> BOOLEAN]]
           /\ \A u \in Threads \ {t} : size'[u] = size[u]
           /\ \A p \in StructPtrs : size'[t][p] = IF p \in P THEN v ELSE size[t][p]
<1>1. size' = [size EXCEPT ![t] = [p \in StructPtrs |-> IF p \in P THEN v ELSE size[t][p]]]
  BY DEF Sizes
<1> QED  BY <1>1 DEF Types

LEMMA FreeSecretKeyInv == ASSUME NEW t \in Threads, IInv, FreeSecretKey(t) PROVE IInv'
<1>0. Types /\ pc[t] = "kf_sk" /\ Shape(t, "kf_sk", ptr[t], size[t], result[t])
  BY DEF IInv, Mine, FreeSecretKey
<1>u. pc' = [pc EXCEPT ![t] = "idle"] /\ result' = [result EXCEPT ![t] = "OK"]
  BY DEF FreeSecretKey, GoIdle, Goto
<1>1. /\ size' \in [Threads -> [StructPtrs -> BOOLEAN]]
      /\ \A u \in Threads \ {t} : size'[u] = size[u]
      /\ \A p \in StructPtrs : size'[t][p] = IF p \in KeypairPtrs THEN FALSE ELSE size[t][p]
  BY <1>0, SizesWrite DEF FreeSecretKey
<1>2. LocalStep(t) /\ pc'[t] = "idle" /\ result'[t] = "OK"
  BY <1>0, <1>u, <1>1 DEF Types, LocalStep, PCs, Errors
<1>3. "secret_key" \in StructPtrs /\ (size[t]["secret_key"] \/ ptr[t]["secret_key"] = NULL)
  BY <1>0 DEF Shape, StructsOK, StructPtrs
<1>4. HeapFrame(t, {"secret_key"}) /\ ptr'[t]["secret_key"] = NULL
  BY <1>3, FieldFrame DEF FreeSecretKey
<1>5. Shape(t, "idle", ptr'[t], size'[t], "OK")
  <2>1. \A q \in Ptrs \ {"secret_key"} : ptr'[t][q] = ptr[t][q]  BY <1>4 DEF HeapFrame
  <2> QED  BY <1>0, <1>1, <1>4, <2>1
           DEF Shape, FramesOK, StructsOK, VecsOK, Uses, PCs, KeygenPCs, SignPCs, Ptrs,
               FramePtrs, StructPtrs, VecPtrs, KeypairPtrs
<1> QED  BY <1>2, <1>4, <1>5, StepTo

LEMMA SignatureFreeInv == ASSUME NEW t \in Threads, IInv, SignatureFree(t) PROVE IInv'
<1>0. Types /\ pc[t] = "idle" /\ Shape(t, "idle", ptr[t], size[t], result[t])
  BY DEF IInv, Mine, SignatureFree
<1>u. UNCHANGED <<ptr, size, live, data, result>> /\ pc' = [pc EXCEPT ![t] = "sf"]
  BY DEF SignatureFree, Goto
<1>1. HeapFrame(t, {})  BY <1>u, Untouched
<1>2. LocalStep(t) /\ pc'[t] = "sf" /\ result'[t] = result[t]
  BY <1>0, <1>u DEF Types, LocalStep, PCs
<1>3. Shape(t, "sf", ptr[t], size[t], result[t])
  BY <1>0 DEF Shape, FramesOK, StructsOK, VecsOK, Uses, PCs, KeygenPCs, SignPCs
<1> QED  BY <1>u, <1>1, <1>2, <1>3, StepTo

LEMMA FreeSignatureInv == ASSUME NEW t \in Threads, IInv, FreeSignature(t) PROVE IInv'
<1>0. Types /\ pc[t] = "sf" /\ Shape(t, "sf", ptr[t], size[t], result[t])
  BY DEF IInv, Mine, FreeSignature
<1>u. pc' = [pc EXCEPT ![t] = "idle"] /\ result' = [result EXCEPT ![t] = "OK"]
  BY DEF FreeSignature, GoIdle, Goto
<1>1. /\ size' \in [Threads -> [StructPtrs -> BOOLEAN]]
      /\ \A u \in Threads \ {t} : size'[u] = size[u]
      /\ \A p \in StructPtrs : size'[t][p] = IF p \in {"signature"} THEN FALSE ELSE size[t][p]
  BY <1>0, SizesWrite DEF FreeSignature
<1>2. LocalStep(t) /\ pc'[t] = "idle" /\ result'[t] = "OK"
  BY <1>0, <1>u, <1>1 DEF Types, LocalStep, PCs, Errors
<1>3. "signature" \in StructPtrs /\ (size[t]["signature"] \/ ptr[t]["signature"] = NULL)
  BY <1>0 DEF Shape, StructsOK, StructPtrs
<1>4. HeapFrame(t, {"signature"}) /\ ptr'[t]["signature"] = NULL
  BY <1>3, FieldFrame DEF FreeSignature
<1>5. Shape(t, "idle", ptr'[t], size'[t], "OK")
  <2>1. \A q \in Ptrs \ {"signature"} : ptr'[t][q] = ptr[t][q]  BY <1>4 DEF HeapFrame
  <2> QED  BY <1>0, <1>1, <1>4, <2>1
           DEF Shape, FramesOK, StructsOK, VecsOK, Uses, PCs, KeygenPCs, SignPCs, Ptrs,
               FramePtrs, StructPtrs, VecPtrs
<1> QED  BY <1>2, <1>4, <1>5, StepTo

LEMMA SignInv == ASSUME NEW t \in Threads, IInv, Sign(t) PROVE IInv'
<1>0. Types /\ pc[t] = "idle" /\ t \in CThreads /\ Shape(t, "idle", ptr[t], size[t], result[t])
  BY DEF IInv, Mine, Sign
<1>u. UNCHANGED <<ptr, size, live, data>>  BY DEF Sign
<1>1. HeapFrame(t, {})  BY <1>u, Untouched
<1>2. PICK sized \in BOOLEAN :
         LET r == IF ~OutputIsEmpty(t, {"signature"}) THEN "BAD_ARG"
                  ELSE IF ~sized THEN "BAD_KEY" ELSE "OK"
         IN  /\ result' = [result EXCEPT ![t] = r]
             /\ Goto(t, IF r = "OK" THEN "sg_malloc" ELSE "sg_ret")
  BY DEF Sign
<1> DEFINE r == IF ~OutputIsEmpty(t, {"signature"}) THEN "BAD_ARG"
                ELSE IF ~sized THEN "BAD_KEY" ELSE "OK"
           l == IF r = "OK" THEN "sg_malloc" ELSE "sg_ret"
<1>3. result' = [result EXCEPT ![t] = r] /\ pc' = [pc EXCEPT ![t] = l]  BY <1>2 DEF Goto
<1>4. r \in {"OK", "BAD_ARG", "BAD_KEY"} /\ (r = "OK" => ptr[t]["signature"] = NULL)
  BY DEF OutputIsEmpty
<1> HIDE DEF r
<1>5. LocalStep(t) /\ pc'[t] = l /\ result'[t] = r
  BY <1>0, <1>u, <1>3, <1>4 DEF Types, LocalStep, PCs, Errors
<1>6. Shape(t, l, ptr[t], size[t], r)
  BY <1>0, <1>4, HeapAssumption
  DEF Shape, FramesOK, StructsOK, VecsOK, Uses, PCs, KeygenPCs, SignPCs, VecPtrs
<1> QED  BY <1>u, <1>1, <1>5, <1>6, StepTo

LEMMA MallocSigInv == ASSUME NEW t \in Threads, IInv, MallocSig(t) PROVE IInv'
<1>0. Types /\ pc[t] = "sg_malloc" /\ Shape(t, "sg_malloc", ptr[t], size[t], result[t])
  BY DEF IInv, Mine, MallocSig
<1>1. ptr[t]["sig"] = NULL /\ "sig" \in Ptrs  BY <1>0 DEF Shape, FramesOK, Ptrs, FramePtrs
<1>u. UNCHANGED <<size, data>>  BY DEF MallocSig
<1>2. HeapFrame(t, {"sig"})  BY <1>1, <1>u, MallocFrame DEF MallocSig
<1>3. \A q \in Ptrs \ {"sig"} : ptr'[t][q] = ptr[t][q]  BY <1>2 DEF HeapFrame
<1>4. {"sig"} \cap (StructPtrs \cup VecPtrs) = {}  BY DEF StructPtrs, VecPtrs
<1>5. CASE ptr'[t]["sig"] = NULL
  <2>1. pc' = [pc EXCEPT ![t] = "sg_ret"] /\ result' = [result EXCEPT ![t] = "OUT_OF_MEMORY"]
    BY <1>5 DEF MallocSig, Goto
  <2>2. LocalStep(t) /\ pc'[t] = "sg_ret" /\ result'[t] = "OUT_OF_MEMORY"
    BY <1>0, <1>u, <2>1 DEF Types, LocalStep, PCs, Errors
  <2>3. Shape(t, "sg_ret", ptr'[t], size'[t], "OUT_OF_MEMORY")
    BY <1>0, <1>u, <1>3, <1>5
    DEF Shape, FramesOK, StructsOK, VecsOK, Uses, PCs, KeygenPCs, SignPCs, Ptrs, FramePtrs,
        StructPtrs, VecPtrs
  <2> QED  BY <1>2, <1>4, <2>2, <2>3, StepTo
<1>6. CASE ptr'[t]["sig"] # NULL
  <2>1. pc' = [pc EXCEPT ![t] = "sg_run"] /\ result' = result  BY <1>6 DEF MallocSig, Goto
  <2>2. LocalStep(t) /\ pc'[t] = "sg_run" /\ result'[t] = result[t]
    BY <1>0, <1>u, <2>1 DEF Types, LocalStep, PCs
  <2>3. Shape(t, "sg_run", ptr'[t], size'[t], result[t])
    BY <1>0, <1>u, <1>3, <1>6
    DEF Shape, FramesOK, StructsOK, VecsOK, Uses, PCs, KeygenPCs, SignPCs, Ptrs, FramePtrs,
        StructPtrs, VecPtrs
  <2> QED  BY <1>2, <1>4, <2>2, <2>3, StepTo
<1> QED  BY <1>5, <1>6

LEMMA RunSignInv == ASSUME NEW t \in Threads, IInv, RunSign(t) PROVE IInv'
<1> DEFINE b == ptr[t]["sig"]
<1>0. Types /\ pc[t] = "sg_run" /\ Shape(t, "sg_run", ptr[t], size[t], result[t])
  BY DEF IInv, Mine, RunSign
<1>u. UNCHANGED <<ptr, size, live>>  BY DEF RunSign
<1>1. "sig" \in Ptrs /\ {"sig"} \in SUBSET Ptrs  BY DEF Ptrs, FramePtrs
<1>2. b # NULL  BY <1>0 DEF Shape, FramesOK, Uses, PCs
<1>3. b \in Blocks /\ b \in At(t, {"sig"})  BY <1>0, <1>1, <1>2 DEF Types, At
<1>4. {"sig"} \cap (StructPtrs \cup VecPtrs) = {}  BY DEF StructPtrs, VecPtrs
<1>5. ASSUME NEW d \in Data, data' = [data EXCEPT ![b] = d] PROVE HeapFrame(t, {"sig"})
  <2>1. data' \in [Blocks -> Data] /\ \A c \in Blocks \ {b} : data'[c] = data[c]
    BY <1>0, <1>5 DEF Types
  <2> QED  BY <1>u, <1>1, <1>3, <2>1, WriteFrame
<1>6. CASE /\ data' = [data EXCEPT ![b] = Thing("raw_signature", t)]
           /\ Goto(t, "sg_verify")
           /\ UNCHANGED result
  <2>1. HeapFrame(t, {"sig"})
    <3>1. Thing("raw_signature", t) \in Data  BY ThingTypes DEF Kinds
    <3> QED  BY <1>5, <1>6, <3>1
  <2>2. LocalStep(t) /\ pc'[t] = "sg_verify" /\ result'[t] = result[t]
    BY <1>0, <1>u, <1>6 DEF Types, LocalStep, PCs, Goto
  <2>3. Shape(t, "sg_verify", ptr'[t], size'[t], result[t])
    BY <1>0, <1>u DEF Shape, FramesOK, StructsOK, VecsOK, Uses, PCs, KeygenPCs, SignPCs
  <2> QED  BY <1>4, <2>1, <2>2, <2>3, StepTo
<1>7. CASE \E e \in {"SIGNING_LIMIT", "BAD_KEY", "BAD_SIGNATURE"} :
             /\ data' = [data EXCEPT ![b] = Zero]
             /\ result' = [result EXCEPT ![t] = e]
             /\ Goto(t, "sg_fail")
  <2>1. PICK e \in {"SIGNING_LIMIT", "BAD_KEY", "BAD_SIGNATURE"} :
             /\ data' = [data EXCEPT ![b] = Zero]
             /\ result' = [result EXCEPT ![t] = e]
             /\ Goto(t, "sg_fail")
    BY <1>7
  <2>2. HeapFrame(t, {"sig"})  BY <1>5, <2>1, ThingTypes
  <2>3. LocalStep(t) /\ pc'[t] = "sg_fail" /\ result'[t] = e
    BY <1>0, <1>u, <2>1 DEF Types, LocalStep, PCs, Goto, Errors
  <2>4. Shape(t, "sg_fail", ptr'[t], size'[t], e)
    BY <1>0, <1>u DEF Shape, FramesOK, StructsOK, VecsOK, Uses, PCs, KeygenPCs, SignPCs
  <2> QED  BY <1>4, <2>2, <2>3, <2>4, StepTo
<1> QED  BY <1>6, <1>7 DEF RunSign

LEMMA VerifyAndPublishInv == ASSUME NEW t \in Threads, IInv, VerifyAndPublish(t) PROVE IInv'
<1> DEFINE G == {"sig", "signature"}
           b == ptr[t]["sig"]
<1>0. Types /\ pc[t] = "sg_verify" /\ Shape(t, "sg_verify", ptr[t], size[t], result[t])
  BY DEF IInv, Mine, VerifyAndPublish
<1>u. UNCHANGED live  BY DEF VerifyAndPublish
<1>1. b # NULL /\ ptr[t]["signature"] = NULL
  BY <1>0 DEF Shape, FramesOK, StructsOK, Uses, PCs, SignPCs
<1>2. CASE /\ data' = [data EXCEPT ![ptr[t]["sig"]] = Thing("signature", t)]
           /\ ptr' = [ptr EXCEPT ![t]["signature"] = ptr[t]["sig"], ![t]["sig"] = NULL]
           /\ size' = Sizes(t, {"signature"}, TRUE)
           /\ result' = [result EXCEPT ![t] = "OK"]
           /\ Goto(t, "sg_ret")
  <2> DEFINE m == [q \in Ptrs |-> IF q = "sig" THEN "signature"
                                  ELSE IF q = "signature" THEN "sig" ELSE q]
  <2>1. G \in SUBSET Ptrs /\ m \in [Ptrs -> Ptrs]  BY DEF Ptrs, FramePtrs, StructPtrs
  <2>2. /\ \A q \in Ptrs \ G : m[q] = q
        /\ \A q \in G : m[q] \in G /\ m[m[q]] = q
    BY DEF Ptrs, FramePtrs, StructPtrs
  <2>3. b \in Blocks /\ b \in At(t, G)  BY <1>0, <1>1, <2>1 DEF Types, At
  <2>4. /\ data' \in [Blocks -> Data]
        /\ data'[b] = Thing("signature", t)
        /\ \A c \in Blocks \ {b} : data'[c] = data[c]
    <3>1. Thing("signature", t) \in Data  BY ThingTypes DEF Kinds
    <3> QED  BY <1>0, <1>2, <2>3, <3>1 DEF Types
  <2>5. /\ ptr' \in [Threads -> [Ptrs -> Blocks \cup {NULL}]]
        /\ \A u \in Threads \ {t} : ptr'[u] = ptr[u]
        /\ ptr'[t]["signature"] = b /\ ptr'[t]["sig"] = NULL
        /\ \A q \in Ptrs \ G : ptr'[t][q] = ptr[t][q]
    <3>1. ptr[t] \in [Ptrs -> Blocks \cup {NULL}]  BY <1>0 DEF Types
    <3> DEFINE f == [ptr[t] EXCEPT !["signature"] = b, !["sig"] = NULL]
    <3>2. /\ f \in [Ptrs -> Blocks \cup {NULL}]
          /\ f["signature"] = b /\ f["sig"] = NULL
          /\ \A q \in Ptrs \ G : f[q] = ptr[t][q]
      BY <2>1, <2>3, <3>1
    <3>3. ptr' = [ptr EXCEPT ![t] = f]  BY <1>0, <1>2 DEF Types
    <3> HIDE DEF f
    <3> QED  BY <1>0, <3>2, <3>3 DEF Types
  <2>6. \A q \in Ptrs : ptr'[t][q] = ptr[t][m[q]]
    BY <1>1, <2>1, <2>5 DEF Ptrs, FramePtrs, StructPtrs
  <2> HIDE DEF m
  <2>7. HeapFrame(t, G)  BY <1>u, <2>1, <2>2, <2>3, <2>4, <2>5, <2>6, Rearrange
  <2>8. /\ size' \in [Threads -> [StructPtrs -> BOOLEAN]]
        /\ \A u \in Threads \ {t} : size'[u] = size[u]
        /\ \A p \in StructPtrs : size'[t][p] = IF p \in {"signature"} THEN TRUE ELSE size[t][p]
    BY <1>0, <1>2, SizesWrite
  <2>9. LocalStep(t) /\ pc'[t] = "sg_ret" /\ result'[t] = "OK"
    BY <1>0, <1>2, <2>8 DEF Types, LocalStep, PCs, Errors, Goto
  <2>10. Shape(t, "sg_ret", ptr'[t], size'[t], "OK")
    <3>1. /\ size'[t]["signature"]
          /\ \A p \in StructPtrs \ {"signature"} : size'[t][p] = size[t][p]
      BY <2>8 DEF StructPtrs
    <3>2. FramesOK("sg_ret", ptr'[t])
      BY <1>0, <2>5 DEF Shape, FramesOK, Uses, PCs, KeygenPCs, SignPCs, Ptrs, FramePtrs, VecPtrs
    <3>3. StructsOK("sg_ret", ptr'[t], size'[t], "OK")
      BY <1>0, <1>1, <2>5, <3>1 DEF Shape, StructsOK, KeygenPCs, SignPCs, Ptrs, StructPtrs
    <3>4. VecsOK(t, "sg_ret", ptr'[t])
      BY <1>0, <2>5 DEF Shape, VecsOK, KeygenPCs, SignPCs, Ptrs, StructPtrs, VecPtrs
    <3> QED  BY <3>2, <3>3, <3>4 DEF Shape
  <2>11. \A p \in G \cap (StructPtrs \cup VecPtrs) :
            ptr'[t][p] # NULL => data'[ptr'[t][p]] = Thing(KindOf(p), t)
    BY <2>4, <2>5 DEF StructPtrs, VecPtrs, KindOf
  <2> QED  BY <2>7, <2>9, <2>10, <2>11, StepTo
<1>3. CASE /\ result' = [result EXCEPT ![t] = "BAD_SIGNATURE"]
           /\ Goto(t, "sg_fail")
           /\ UNCHANGED <<ptr, size, data>>
  <2>1. HeapFrame(t, {})  BY <1>u, <1>3, Untouched
  <2>2. LocalStep(t) /\ pc'[t] = "sg_fail" /\ result'[t] = "BAD_SIGNATURE"
    BY <1>0, <1>3 DEF Types, LocalStep, PCs, Errors, Goto
  <2>3. Shape(t, "sg_fail", ptr'[t], size'[t], "BAD_SIGNATURE")
    BY <1>0, <1>3 DEF Shape, FramesOK, StructsOK, VecsOK, Uses, PCs, KeygenPCs, SignPCs
  <2> QED  BY <2>1, <2>2, <2>3, StepTo
<1> QED  BY <1>2, <1>3 DEF VerifyAndPublish

LEMMA SignFailInv == ASSUME NEW t \in Threads, IInv, SignFail(t) PROVE IInv'
<1>0. Types /\ pc[t] = "sg_fail" /\ Shape(t, "sg_fail", ptr[t], size[t], result[t])
  BY DEF IInv, Mine, SignFail
<1>u. UNCHANGED <<size, result>> /\ pc' = [pc EXCEPT ![t] = "sg_ret"]  BY DEF SignFail, Goto
<1>1. LocalStep(t) /\ pc'[t] = "sg_ret" /\ result'[t] = result[t]
  BY <1>0, <1>u DEF Types, LocalStep, PCs
<1>2. {"sig"} \in SUBSET Ptrs  BY DEF Ptrs, FramePtrs
<1>3. HeapFrame(t, {"sig"}) /\ ptr'[t]["sig"] = NULL  BY <1>2, FreeFrame DEF SignFail
<1>4. Shape(t, "sg_ret", ptr'[t], size'[t], result[t])
  <2>1. \A q \in Ptrs \ {"sig"} : ptr'[t][q] = ptr[t][q]  BY <1>3 DEF HeapFrame
  <2> QED  BY <1>0, <1>u, <1>3, <2>1
           DEF Shape, FramesOK, StructsOK, VecsOK, Uses, PCs, KeygenPCs, SignPCs, Ptrs,
               FramePtrs, StructPtrs, VecPtrs
<1>5. {"sig"} \cap (StructPtrs \cup VecPtrs) = {}  BY DEF StructPtrs, VecPtrs
<1> QED  BY <1>1, <1>3, <1>4, <1>5, StepTo

LEMMA ReturnToCInv == ASSUME NEW t \in Threads, IInv, ReturnToC(t) PROVE IInv'
<1>0. /\ Types /\ t \in CThreads /\ pc[t] \in {"kg_ret", "sg_ret"}
      /\ Shape(t, pc[t], ptr[t], size[t], result[t])
  BY DEF IInv, Mine, ReturnToC
<1>u. /\ UNCHANGED <<ptr, size, live, data>>
      /\ pc' = [pc EXCEPT ![t] = "idle"] /\ result' = [result EXCEPT ![t] = "OK"]
  BY DEF ReturnToC, GoIdle, Goto
<1>1. HeapFrame(t, {})  BY <1>u, Untouched
<1>2. LocalStep(t) /\ pc'[t] = "idle" /\ result'[t] = "OK"
  BY <1>0, <1>u DEF Types, LocalStep, PCs, Errors
<1>3. Shape(t, "idle", ptr[t], size[t], "OK")
  BY <1>0, HeapAssumption
  DEF Shape, FramesOK, StructsOK, VecsOK, Uses, PCs, KeygenPCs, SignPCs, VecPtrs
<1> QED  BY <1>u, <1>1, <1>2, <1>3, StepTo

\* to_vec, clone and hex::decode: a new block for a pointer that was NULL.
LEMMA NewVecFrame ==
    ASSUME NEW t \in Threads, NEW p \in Ptrs, NEW d \in Data, IInv,
           ptr[t][p] = NULL, NewVec(t, p, d)
    PROVE  /\ HeapFrame(t, {p})
           /\ ptr'[t][p] # NULL
           /\ data'[ptr'[t][p]] = d
<1>0. Types  BY DEF IInv
<1>1. PICK b \in Blocks : /\ ~live[b]
                          /\ live' = [live EXCEPT ![b] = TRUE]
                          /\ ptr' = [ptr EXCEPT ![t][p] = b]
                          /\ data' = [data EXCEPT ![b] = d]
  BY DEF NewVec
<1>2. /\ data' \in [Blocks -> Data]
      /\ data'[b] = d
      /\ \A c \in Blocks \ {b} : data'[c] = data[c]
  BY <1>0, <1>1 DEF Types
<1>3. HeapFrame(t, {p}) /\ ptr'[t][p] = b
  <2>1. /\ ~live[b]
        /\ live' = [live EXCEPT ![b] = TRUE]
        /\ ptr' = [ptr EXCEPT ![t][p] = b]
    BY <1>1
  <2> QED  BY ONLY IInv, ptr[t][p] = NULL, <1>2, <2>1, Acquire
<1> QED  BY <1>2, <1>3, HeapAssumption

LEMMA GenerateKeypairInv == ASSUME NEW t \in Threads, IInv, GenerateKeypair(t) PROVE IInv'
<1>0. /\ Types /\ pc[t] = "idle" /\ Shape(t, "idle", ptr[t], size[t], result[t])
      /\ t \in RustThreads /\ ptr[t]["SecretKey"] = NULL
  BY DEF IInv, Mine, GenerateKeypair
<1>u. UNCHANGED <<ptr, size, live, data, result>> /\ pc' = [pc EXCEPT ![t] = "kg_pk"]
  BY DEF GenerateKeypair, Goto
<1>1. HeapFrame(t, {})  BY <1>u, Untouched
<1>2. LocalStep(t) /\ pc'[t] = "kg_pk" /\ result'[t] = result[t]
  BY <1>0, <1>u DEF Types, LocalStep, PCs
<1>3. Shape(t, "kg_pk", ptr[t], size[t], result[t])
  BY <1>0 DEF Shape, FramesOK, StructsOK, VecsOK, Uses, PCs, KeygenPCs, SignPCs
<1> QED  BY <1>u, <1>1, <1>2, <1>3, StepTo

LEMMA SignInnerInv == ASSUME NEW t \in Threads, IInv, SignInner(t) PROVE IInv'
<1>0. /\ Types /\ pc[t] = "idle" /\ Shape(t, "idle", ptr[t], size[t], result[t])
      /\ t \in RustThreads /\ ptr[t]["Signature"] = NULL
  BY DEF IInv, Mine, SignInner
<1>u. UNCHANGED <<ptr, size, live, data, result>> /\ pc' = [pc EXCEPT ![t] = "sg_malloc"]
  BY DEF SignInner, Goto
<1>1. HeapFrame(t, {})  BY <1>u, Untouched
<1>2. LocalStep(t) /\ pc'[t] = "sg_malloc" /\ result'[t] = result[t]
  BY <1>0, <1>u DEF Types, LocalStep, PCs
<1>3. Shape(t, "sg_malloc", ptr[t], size[t], result[t])
  BY <1>0 DEF Shape, FramesOK, StructsOK, VecsOK, Uses, PCs, KeygenPCs, SignPCs
<1> QED  BY <1>u, <1>1, <1>2, <1>3, StepTo

LEMMA CallReturnedInv == ASSUME NEW t \in Threads, IInv, CallReturned(t) PROVE IInv'
<1>0. Types /\ t \in RustThreads /\ Shape(t, pc[t], ptr[t], size[t], result[t])
  BY DEF IInv, Mine, CallReturned
<1>u. UNCHANGED <<ptr, size, live, data, result>>  BY DEF CallReturned
<1>1. HeapFrame(t, {})  BY <1>u, Untouched
<1>2. CASE pc[t] = "kg_ret" /\ Goto(t, IF result[t] = "OK" THEN "copy_pk" ELSE "kf_pk")
  <2> DEFINE l == IF result[t] = "OK" THEN "copy_pk" ELSE "kf_pk"
  <2>1. LocalStep(t) /\ pc'[t] = l /\ result'[t] = result[t]
    BY <1>0, <1>u, <1>2 DEF Types, LocalStep, PCs, Goto
  <2>2. Shape(t, l, ptr[t], size[t], result[t])
    BY <1>0, <1>2
    DEF Shape, FramesOK, StructsOK, VecsOK, Uses, PCs, KeygenPCs, SignPCs
  <2>3. l # "kg_publish"  OBVIOUS
  <2> HIDE DEF l
  <2> QED  BY <1>u, <1>1, <2>1, <2>2, <2>3, StepTo
<1>3. CASE pc[t] = "sg_ret" /\ Goto(t, IF result[t] = "OK" THEN "copy_sig" ELSE "sf")
  <2> DEFINE l == IF result[t] = "OK" THEN "copy_sig" ELSE "sf"
  <2>1. LocalStep(t) /\ pc'[t] = l /\ result'[t] = result[t]
    BY <1>0, <1>u, <1>3 DEF Types, LocalStep, PCs, Goto
  <2>2. Shape(t, l, ptr[t], size[t], result[t])
    BY <1>0, <1>3
    DEF Shape, FramesOK, StructsOK, VecsOK, Uses, PCs, KeygenPCs, SignPCs
  <2>3. l # "kg_publish"  OBVIOUS
  <2> HIDE DEF l
  <2> QED  BY <1>u, <1>1, <2>1, <2>2, <2>3, StepTo
<1> QED  BY <1>2, <1>3 DEF CallReturned

LEMMA ImportSecretKeyInv == ASSUME NEW t \in Threads, IInv, ImportSecretKey(t) PROVE IInv'
<1>0. /\ Types /\ pc[t] = "idle" /\ Shape(t, "idle", ptr[t], size[t], result[t])
      /\ t \in RustThreads /\ ptr[t]["SecretKey"] = NULL
  BY DEF IInv, Mine, ImportSecretKey
<1>u. UNCHANGED <<pc, size, result>>  BY DEF ImportSecretKey
<1>1. LocalStep(t) /\ pc'[t] = "idle" /\ result'[t] = result[t]
  BY <1>0, <1>u DEF Types, LocalStep
<1>2. Thing("secret_key", t) \in Data /\ "secret_key" = KindOf("SecretKey")
  BY ThingTypes DEF Kinds, KindOf
<1>3. /\ HeapFrame(t, {"SecretKey"})
      /\ ptr'[t]["SecretKey"] # NULL
      /\ data'[ptr'[t]["SecretKey"]] = Thing("secret_key", t)
  <2>1. "SecretKey" \in Ptrs  BY DEF Ptrs, VecPtrs
  <2> QED  BY <1>0, <1>2, <2>1, NewVecFrame DEF ImportSecretKey
<1>4. Shape(t, "idle", ptr'[t], size'[t], result[t])
  <2>1. \A q \in Ptrs \ {"SecretKey"} : ptr'[t][q] = ptr[t][q]  BY <1>3 DEF HeapFrame
  <2> QED  BY <1>0, <1>u, <1>3, <2>1, HeapAssumption
           DEF Shape, FramesOK, StructsOK, VecsOK, Uses, PCs, KeygenPCs, SignPCs, Ptrs,
               FramePtrs, StructPtrs, VecPtrs
<1> QED  BY <1>1, <1>2, <1>3, <1>4, StepTo

LEMMA FromStrInv == ASSUME NEW t \in Threads, IInv, FromStr(t) PROVE IInv'
<1>0. /\ Types /\ pc[t] = "idle" /\ Shape(t, "idle", ptr[t], size[t], result[t])
      /\ t \in RustThreads /\ ptr[t]["SecretKey"] = NULL
  BY DEF IInv, Mine, FromStr
<1>u. UNCHANGED <<size, result>> /\ pc' = [pc EXCEPT ![t] = "parse"]  BY DEF FromStr, Goto
<1>1. LocalStep(t) /\ pc'[t] = "parse" /\ result'[t] = result[t]
  BY <1>0, <1>u DEF Types, LocalStep, PCs
<1>2. Thing("decoded", t) \in Data /\ "decoded" = KindOf("decoded")
  BY ThingTypes DEF Kinds, KindOf
<1>3. /\ HeapFrame(t, {"decoded"})
      /\ ptr'[t]["decoded"] # NULL
      /\ data'[ptr'[t]["decoded"]] = Thing("decoded", t)
  <2>1. "decoded" \in Ptrs /\ ptr[t]["decoded"] = NULL
    BY <1>0 DEF Ptrs, VecPtrs, Shape, FramesOK
  <2> QED  BY <1>2, <2>1, NewVecFrame DEF FromStr
<1>4. Shape(t, "parse", ptr'[t], size'[t], result[t])
  <2>1. \A q \in Ptrs \ {"decoded"} : ptr'[t][q] = ptr[t][q]  BY <1>3 DEF HeapFrame
  <2> QED  BY <1>0, <1>u, <1>3, <2>1, HeapAssumption
           DEF Shape, FramesOK, StructsOK, VecsOK, Uses, PCs, KeygenPCs, SignPCs, Ptrs,
               FramePtrs, StructPtrs, VecPtrs
<1> QED  BY <1>1, <1>2, <1>3, <1>4, StepTo

LEMMA FromDecodedInv == ASSUME NEW t \in Threads, IInv, FromDecoded(t) PROVE IInv'
<1>0. /\ Types /\ pc[t] = "parse" /\ Shape(t, "parse", ptr[t], size[t], result[t])
  BY DEF IInv, Mine, FromDecoded
<1>u. UNCHANGED <<size, result>> /\ pc' = [pc EXCEPT ![t] = "parsed"]  BY DEF FromDecoded, Goto
<1>1. LocalStep(t) /\ pc'[t] = "parsed" /\ result'[t] = result[t]
  BY <1>0, <1>u DEF Types, LocalStep, PCs
<1>2. t \in RustThreads /\ ptr[t]["SecretKey"] = NULL  BY <1>0 DEF Shape, VecsOK
<1>3. CASE NewVec(t, "SecretKey", Thing("secret_key", t))
  <2>1. Thing("secret_key", t) \in Data /\ "secret_key" = KindOf("SecretKey")
    BY ThingTypes DEF Kinds, KindOf
  <2>2. /\ HeapFrame(t, {"SecretKey"})
        /\ ptr'[t]["SecretKey"] # NULL
        /\ data'[ptr'[t]["SecretKey"]] = Thing("secret_key", t)
    <3>1. "SecretKey" \in Ptrs  BY DEF Ptrs, VecPtrs
    <3> QED  BY <1>2, <1>3, <2>1, <3>1, NewVecFrame
  <2>3. Shape(t, "parsed", ptr'[t], size'[t], result[t])
    <3>1. \A q \in Ptrs \ {"SecretKey"} : ptr'[t][q] = ptr[t][q]  BY <2>2 DEF HeapFrame
    <3> QED  BY <1>0, <1>u, <1>2, <2>2, <3>1, HeapAssumption
             DEF Shape, FramesOK, StructsOK, VecsOK, Uses, PCs, KeygenPCs, SignPCs, Ptrs,
                 FramePtrs, StructPtrs, VecPtrs
  <2> QED  BY <1>1, <2>1, <2>2, <2>3, StepTo
<1>4. CASE UNCHANGED <<live, ptr, data>>
  <2>1. HeapFrame(t, {})  BY <1>4, Untouched
  <2>2. Shape(t, "parsed", ptr'[t], size'[t], result[t])
    BY <1>0, <1>u, <1>2, <1>4
    DEF Shape, FramesOK, StructsOK, VecsOK, Uses, PCs, KeygenPCs, SignPCs
  <2> QED  BY <1>1, <2>1, <2>2, StepTo
<1> QED  BY <1>3, <1>4 DEF FromDecoded

LEMMA CloneSecretKeyInv == ASSUME NEW t \in Threads, IInv, CloneSecretKey(t) PROVE IInv'
<1>0. /\ Types /\ pc[t] = "idle" /\ Shape(t, "idle", ptr[t], size[t], result[t])
      /\ Held(t, "idle", ptr[t], data)
      /\ t \in RustThreads /\ ptr[t]["SecretKey"] # NULL /\ ptr[t]["Clone"] = NULL
  BY DEF IInv, Mine, CloneSecretKey
<1>u. UNCHANGED <<pc, size, result>>  BY DEF CloneSecretKey
<1>1. LocalStep(t) /\ pc'[t] = "idle" /\ result'[t] = result[t]
  BY <1>0, <1>u DEF Types, LocalStep
<1>2. /\ Thing("secret_key", t) \in Data
      /\ "secret_key" = KindOf("SecretKey") /\ "secret_key" = KindOf("Clone")
  BY ThingTypes DEF Kinds, KindOf
<1>3. data[ptr[t]["SecretKey"]] = Thing("secret_key", t)
  BY <1>0, <1>2 DEF Held, VecPtrs
<1>4. /\ HeapFrame(t, {"Clone"})
      /\ ptr'[t]["Clone"] # NULL
      /\ data'[ptr'[t]["Clone"]] = Thing("secret_key", t)
  <2>1. "Clone" \in Ptrs  BY DEF Ptrs, VecPtrs
  <2>2. NewVec(t, "Clone", Thing("secret_key", t))  BY <1>3 DEF CloneSecretKey
  <2> QED  BY <1>0, <1>2, <2>1, <2>2, NewVecFrame
<1>5. Shape(t, "idle", ptr'[t], size'[t], result[t])
  <2>1. \A q \in Ptrs \ {"Clone"} : ptr'[t][q] = ptr[t][q]  BY <1>4 DEF HeapFrame
  <2> QED  BY <1>0, <1>u, <2>1, HeapAssumption
           DEF Shape, FramesOK, StructsOK, VecsOK, Uses, PCs, KeygenPCs, SignPCs, Ptrs,
               FramePtrs, StructPtrs, VecPtrs
<1> QED  BY <1>1, <1>2, <1>4, <1>5, StepTo

\* from_raw_parts(...).to_vec(): the Vec holds what the struct's field held.
LEMMA ToVecFrame ==
    ASSUME NEW t \in Threads, NEW from \in StructPtrs, NEW to \in VecPtrs, IInv,
           ToVec(t, from, to), ptr[t][from] # NULL, ptr[t][to] = NULL,
           KindOf(to) = from
    PROVE  /\ HeapFrame(t, {to})
           /\ ptr'[t][to] # NULL
           /\ data'[ptr'[t][to]] = Thing(KindOf(to), t)
           /\ UNCHANGED <<size, result>>
<1>1. Held(t, pc[t], ptr[t], data)  BY DEF IInv, Mine
<1>2. KindOf(from) = from /\ from \in Kinds  BY DEF KindOf, StructPtrs, Kinds
<1>3. data[ptr[t][from]] = Thing(from, t)  BY <1>1, <1>2 DEF Held
<1>4. Thing(from, t) \in Data  BY <1>2, ThingTypes
<1>5. NewVec(t, to, Thing(from, t))  BY <1>3 DEF ToVec
<1>6. to \in Ptrs  BY DEF Ptrs
<1>7. /\ HeapFrame(t, {to})
      /\ ptr'[t][to] # NULL
      /\ data'[ptr'[t][to]] = Thing(from, t)
  BY <1>4, <1>5, <1>6, NewVecFrame
<1> QED  BY <1>7 DEF ToVec

LEMMA CopyPublicKeyInv == ASSUME NEW t \in Threads, IInv, CopyPublicKey(t) PROVE IInv'
<1>0. Types /\ pc[t] = "copy_pk" /\ Shape(t, "copy_pk", ptr[t], size[t], result[t])
  BY DEF IInv, Mine, CopyPublicKey
<1>1. /\ t \in RustThreads /\ ptr[t]["public_key"] # NULL
      /\ ptr[t]["SecretKey"] = NULL /\ ptr[t]["PublicKey"] = NULL
  BY <1>0 DEF Shape, FramesOK, VecsOK, Uses, PCs
<1>2. /\ HeapFrame(t, {"PublicKey"})
      /\ ptr'[t]["PublicKey"] # NULL
      /\ data'[ptr'[t]["PublicKey"]] = Thing(KindOf("PublicKey"), t)
      /\ UNCHANGED <<size, result>>
  <2>1. /\ "public_key" \in StructPtrs /\ "PublicKey" \in VecPtrs
        /\ KindOf("PublicKey") = "public_key"
    BY DEF StructPtrs, VecPtrs, KindOf
  <2> QED  BY <1>1, <2>1, ToVecFrame DEF CopyPublicKey
<1>3. LocalStep(t) /\ pc'[t] = "copy_sk" /\ result'[t] = result[t]
  BY <1>0, <1>2 DEF Types, LocalStep, PCs, CopyPublicKey, Goto
<1>4. Shape(t, "copy_sk", ptr'[t], size'[t], result[t])
  <2>1. \A q \in Ptrs \ {"PublicKey"} : ptr'[t][q] = ptr[t][q]  BY <1>2 DEF HeapFrame
  <2> QED  BY <1>0, <1>1, <1>2, <2>1, HeapAssumption
           DEF Shape, FramesOK, StructsOK, VecsOK, Uses, PCs, KeygenPCs, SignPCs, Ptrs,
               FramePtrs, StructPtrs, VecPtrs
<1> QED  BY <1>2, <1>3, <1>4, StepTo

LEMMA CopySecretKeyInv == ASSUME NEW t \in Threads, IInv, CopySecretKey(t) PROVE IInv'
<1>0. Types /\ pc[t] = "copy_sk" /\ Shape(t, "copy_sk", ptr[t], size[t], result[t])
  BY DEF IInv, Mine, CopySecretKey
<1>1. t \in RustThreads /\ ptr[t]["secret_key"] # NULL /\ ptr[t]["SecretKey"] = NULL
  BY <1>0 DEF Shape, FramesOK, VecsOK, Uses, PCs
<1>2. /\ HeapFrame(t, {"SecretKey"})
      /\ ptr'[t]["SecretKey"] # NULL
      /\ data'[ptr'[t]["SecretKey"]] = Thing(KindOf("SecretKey"), t)
      /\ UNCHANGED <<size, result>>
  <2>1. /\ "secret_key" \in StructPtrs /\ "SecretKey" \in VecPtrs
        /\ KindOf("SecretKey") = "secret_key"
    BY DEF StructPtrs, VecPtrs, KindOf
  <2> QED  BY <1>1, <2>1, ToVecFrame DEF CopySecretKey
<1>3. LocalStep(t) /\ pc'[t] = "kf_pk" /\ result'[t] = result[t]
  BY <1>0, <1>2 DEF Types, LocalStep, PCs, CopySecretKey, Goto
<1>4. Shape(t, "kf_pk", ptr'[t], size'[t], result[t])
  <2>1. \A q \in Ptrs \ {"SecretKey"} : ptr'[t][q] = ptr[t][q]  BY <1>2 DEF HeapFrame
  <2> QED  BY <1>0, <1>1, <1>2, <2>1, HeapAssumption
           DEF Shape, FramesOK, StructsOK, VecsOK, Uses, PCs, KeygenPCs, SignPCs, Ptrs,
               FramePtrs, StructPtrs, VecPtrs
<1> QED  BY <1>2, <1>3, <1>4, StepTo

LEMMA CopySignatureInv == ASSUME NEW t \in Threads, IInv, CopySignature(t) PROVE IInv'
<1>0. Types /\ pc[t] = "copy_sig" /\ Shape(t, "copy_sig", ptr[t], size[t], result[t])
  BY DEF IInv, Mine, CopySignature
<1>1. t \in RustThreads /\ ptr[t]["signature"] # NULL /\ ptr[t]["Signature"] = NULL
  BY <1>0 DEF Shape, FramesOK, VecsOK, Uses, PCs
<1>2. /\ HeapFrame(t, {"Signature"})
      /\ ptr'[t]["Signature"] # NULL
      /\ data'[ptr'[t]["Signature"]] = Thing(KindOf("Signature"), t)
      /\ UNCHANGED <<size, result>>
  <2>1. /\ "signature" \in StructPtrs /\ "Signature" \in VecPtrs
        /\ KindOf("Signature") = "signature"
    BY DEF StructPtrs, VecPtrs, KindOf
  <2> QED  BY <1>1, <2>1, ToVecFrame DEF CopySignature
<1>3. LocalStep(t) /\ pc'[t] = "sf" /\ result'[t] = result[t]
  BY <1>0, <1>2 DEF Types, LocalStep, PCs, CopySignature, Goto
<1>4. Shape(t, "sf", ptr'[t], size'[t], result[t])
  <2>1. \A q \in Ptrs \ {"Signature"} : ptr'[t][q] = ptr[t][q]  BY <1>2 DEF HeapFrame
  <2> QED  BY <1>0, <1>1, <1>2, <2>1, HeapAssumption
           DEF Shape, FramesOK, StructsOK, VecsOK, Uses, PCs, KeygenPCs, SignPCs, Ptrs,
               FramePtrs, StructPtrs, VecPtrs
<1> QED  BY <1>2, <1>3, <1>4, StepTo

\* A plain Vec is dropped without a wipe: what it held is no secret, or what a
\* Rust thread decoded.
LEMMA DropFrame ==
    ASSUME NEW t \in Threads, NEW p \in {"decoded", "Signature"}, IInv,
           data' = Freed(data, At(t, {p})),
           live' = Dead(At(t, {p})),
           ptr' = Forget(t, {p})
    PROVE  HeapFrame(t, {p}) /\ ptr'[t][p] = NULL
<1>0. Types /\ Held(t, pc[t], ptr[t], data) /\ VecsOK(t, pc[t], ptr[t])
  BY DEF IInv, Mine, Shape
<1>1. {p} \in SUBSET Ptrs /\ {} \in SUBSET {p}  BY DEF Ptrs, VecPtrs
<1>2. Wiped(At(t, {})) = data
  <2>1. At(t, {}) = {}  BY DEF At
  <2> QED  BY <1>0, <2>1 DEF Wiped, Types
<1>3. data' = Freed(Wiped(At(t, {})), At(t, {p}))  BY <1>2
<1>4. ASSUME ptr[t][p] # NULL PROVE MayRemain(data[ptr[t][p]])
  <2>1. p \in VecPtrs /\ KindOf(p) \in {"decoded", "signature"}  BY DEF VecPtrs, KindOf
  <2>2. data[ptr[t][p]] = Thing(KindOf(p), t)  BY <1>0, <1>4, <2>1 DEF Held
  <2>3. t \in RustThreads  BY <1>0, <1>4, <2>1 DEF VecsOK, Threads
  <2>4. KindOf(p) = "signature" => ~Secret(Thing(KindOf(p), t))  BY DEF Secret, Thing
  <2> QED  BY <2>1, <2>2, <2>3, <2>4 DEF MayRemain
<1> QED  BY <1>1, <1>3, <1>4, FreeFrame

LEMMA DropDecodedInv == ASSUME NEW t \in Threads, IInv, DropDecoded(t) PROVE IInv'
<1>0. Types /\ pc[t] = "parsed" /\ Shape(t, "parsed", ptr[t], size[t], result[t])
  BY DEF IInv, Mine, DropDecoded
<1>u. UNCHANGED <<size, result>> /\ pc' = [pc EXCEPT ![t] = "idle"]  BY DEF DropDecoded, Goto
<1>1. LocalStep(t) /\ pc'[t] = "idle" /\ result'[t] = result[t]
  BY <1>0, <1>u DEF Types, LocalStep, PCs
<1>2. HeapFrame(t, {"decoded"}) /\ ptr'[t]["decoded"] = NULL  BY DropFrame DEF DropDecoded
<1>3. Shape(t, "idle", ptr'[t], size'[t], result[t])
  <2>1. \A q \in Ptrs \ {"decoded"} : ptr'[t][q] = ptr[t][q]  BY <1>2 DEF HeapFrame
  <2> QED  BY <1>0, <1>u, <1>2, <2>1
           DEF Shape, FramesOK, StructsOK, VecsOK, Uses, PCs, KeygenPCs, SignPCs, Ptrs,
               FramePtrs, StructPtrs, VecPtrs
<1> QED  BY <1>1, <1>2, <1>3, StepTo

LEMMA DropSignatureInv == ASSUME NEW t \in Threads, IInv, DropSignature(t) PROVE IInv'
<1>0. Types /\ pc[t] = "idle" /\ Shape(t, "idle", ptr[t], size[t], result[t])
  BY DEF IInv, Mine, DropSignature
<1>u. UNCHANGED <<pc, size, result>>  BY DEF DropSignature
<1>1. LocalStep(t) /\ pc'[t] = "idle" /\ result'[t] = result[t]
  BY <1>0, <1>u DEF Types, LocalStep
<1>2. HeapFrame(t, {"Signature"}) /\ ptr'[t]["Signature"] = NULL  BY DropFrame DEF DropSignature
<1>3. Shape(t, "idle", ptr'[t], size'[t], result[t])
  <2>1. \A q \in Ptrs \ {"Signature"} : ptr'[t][q] = ptr[t][q]  BY <1>2 DEF HeapFrame
  <2> QED  BY <1>0, <1>u, <1>2, <2>1
           DEF Shape, FramesOK, StructsOK, VecsOK, Uses, PCs, KeygenPCs, SignPCs, Ptrs,
               FramePtrs, StructPtrs, VecPtrs
<1> QED  BY <1>1, <1>2, <1>3, StepTo

LEMMA DropCloneInv == ASSUME NEW t \in Threads, IInv, DropClone(t) PROVE IInv'
<1>0. Types /\ pc[t] = "idle" /\ Shape(t, "idle", ptr[t], size[t], result[t])
  BY DEF IInv, Mine, DropClone
<1>u. UNCHANGED <<pc, size, result>>  BY DEF DropClone
<1>1. LocalStep(t) /\ pc'[t] = "idle" /\ result'[t] = result[t]
  BY <1>0, <1>u DEF Types, LocalStep
<1>2. {"Clone"} \in SUBSET Ptrs  BY DEF Ptrs, VecPtrs
<1>3. HeapFrame(t, {"Clone"}) /\ ptr'[t]["Clone"] = NULL  BY <1>2, FreeFrame DEF DropClone
<1>4. Shape(t, "idle", ptr'[t], size'[t], result[t])
  <2>1. \A q \in Ptrs \ {"Clone"} : ptr'[t][q] = ptr[t][q]  BY <1>3 DEF HeapFrame
  <2> QED  BY <1>0, <1>u, <1>3, <2>1
           DEF Shape, FramesOK, StructsOK, VecsOK, Uses, PCs, KeygenPCs, SignPCs, Ptrs,
               FramePtrs, StructPtrs, VecPtrs
<1> QED  BY <1>1, <1>3, <1>4, StepTo

LEMMA DropKeyPairInv == ASSUME NEW t \in Threads, IInv, DropKeyPair(t) PROVE IInv'
<1> DEFINE G == {"PublicKey", "SecretKey"}
           W == {"SecretKey"}
<1>0. /\ Types /\ pc[t] = "idle" /\ Shape(t, "idle", ptr[t], size[t], result[t])
      /\ Held(t, "idle", ptr[t], data)
  BY DEF IInv, Mine, DropKeyPair
<1>u. UNCHANGED <<pc, size, result>>  BY DEF DropKeyPair
<1>1. LocalStep(t) /\ pc'[t] = "idle" /\ result'[t] = result[t]
  BY <1>0, <1>u DEF Types, LocalStep
<1>2. G \in SUBSET Ptrs /\ W \in SUBSET G  BY DEF Ptrs, VecPtrs
<1>3. \A q \in G \ W : ptr[t][q] # NULL => MayRemain(data[ptr[t][q]])
  <2>1. "PublicKey" \in VecPtrs /\ KindOf("PublicKey") = "public_key"  BY DEF VecPtrs, KindOf
  <2>2. ptr[t]["PublicKey"] # NULL => data[ptr[t]["PublicKey"]] = Thing("public_key", t)
    BY <1>0, <2>1 DEF Held
  <2>3. MayRemain(Thing("public_key", t))  BY DEF MayRemain, Secret, Thing
  <2> QED  BY <2>2, <2>3
<1>4. /\ data' = Freed(Wiped(At(t, W)), At(t, G))
      /\ live' = Dead(At(t, G))
      /\ ptr' = Forget(t, G)
  BY DEF DropKeyPair
<1>5. HeapFrame(t, G) /\ \A q \in G : ptr'[t][q] = NULL
  BY <1>2, <1>3, <1>4, FreeFrame
<1>6. Shape(t, "idle", ptr'[t], size'[t], result[t])
  <2>1. \A q \in Ptrs \ G : ptr'[t][q] = ptr[t][q]  BY <1>5 DEF HeapFrame
  <2> QED  BY <1>0, <1>u, <1>5, <2>1
           DEF Shape, FramesOK, StructsOK, VecsOK, Uses, PCs, KeygenPCs, SignPCs, Ptrs,
               FramePtrs, StructPtrs, VecPtrs
<1> QED  BY <1>1, <1>5, <1>6, StepTo

LEMMA StepInv == ASSUME IInv, Next PROVE IInv'
<1>1. PICK t \in Threads :
        KeygenStep(t) \/ SignStep(t) \/ FreeStep(t) \/ ReturnToC(t) \/ RustStep(t)
  BY DEF Next
<1>2. CASE KeygenStep(t)
  BY <1>2, KeygenInv, MallocPkInv, MallocSkInv, KeygenCheckInv, InputTooLongInv,
     MallocInputInv, DeriveSeedInv, SeedKeypairInv, PublishKeypairInv, KeygenFailInv DEF KeygenStep
<1>3. CASE SignStep(t)
  BY <1>3, SignInv, MallocSigInv, RunSignInv, VerifyAndPublishInv, SignFailInv DEF SignStep
<1>4. CASE FreeStep(t)
  BY <1>4, KeypairFreeInv, FreePublicKeyInv, FreeSecretKeyInv, SignatureFreeInv,
     FreeSignatureInv DEF FreeStep
<1>5. CASE ReturnToC(t)  BY <1>5, ReturnToCInv
<1>6. CASE RustStep(t)
  BY <1>6, GenerateKeypairInv, ImportSecretKeyInv, CallReturnedInv, CopyPublicKeyInv,
     CopySecretKeyInv, SignInnerInv, CopySignatureInv, DropKeyPairInv, DropSignatureInv,
     FromStrInv, FromDecodedInv, DropDecodedInv, CloneSecretKeyInv, DropCloneInv DEF RustStep
<1> QED  BY <1>1, <1>2, <1>3, <1>4, <1>5, <1>6

LEMMA StutterInv == ASSUME IInv, UNCHANGED vars PROVE IInv'
<1>1. UNCHANGED <<pc, ptr, size, live, data, result>>  BY DEF vars
<1>2. Types' /\ OneOwner' /\ OnlyDecodedRemains'
  BY <1>1 DEF IInv, Types, OneOwner, OnlyDecodedRemains
<1>3. ASSUME NEW t \in Threads PROVE Mine(t)'  BY <1>1 DEF IInv, Mine
<1> QED  BY <1>2, <1>3 DEF IInv

----------------------------------------------------------------------------
(* The theorems.                                                           *)

\* Every reachable state of bitcoin_pqc_keygen, bitcoin_pqc_sign_impl, the two
\* free functions and the Rust crate's wrappers, on one heap and with any
\* number of threads, satisfies the invariant: each thread's pointers are as
\* its place in the code says, and hold what belongs in them.
THEOREM Invariance == Spec => []IInv
<1>1. Init => IInv  BY InitInv
<1>2. IInv /\ [Next]_vars => IInv'  BY StepInv, StutterInv
<1> QED  BY <1>1, <1>2, PTL DEF Spec

\* Every variable stays in its domain, and neither the C functions after a
\* failed malloc nor the crate's from_raw_parts go through a NULL pointer.
THEOREM TypeCorrect == Spec => []TypeOK
<1>1. IInv => TypeOK
  <2> SUFFICES ASSUME IInv PROVE TypeOK  OBVIOUS
  <2>1. Types  BY DEF IInv
  <2>2. ASSUME NEW t \in Threads PROVE \A p \in Uses[pc[t]] : ptr[t][p] # NULL
    BY DEF IInv, Mine, Shape, FramesOK
  <2> QED  BY <2>1, <2>2 DEF TypeOK, Types
<1> QED  BY <1>1, Invariance, PTL

\* No block leaks, is freed twice or is used after it was freed: for every
\* interleaving of the threads, every malloc that fails, every error return
\* of bitcoin_pqc_keygen and bitcoin_pqc_sign_impl and every order in which C
\* callers free their structs, an allocated block hangs on exactly one pointer.
THEOREM HeapOwned == Spec => []OneOwner
<1>1. IInv => OneOwner  BY DEF IInv
<1> QED  BY <1>1, Invariance, PTL

\* The bytes hex::decode returned to SecretKey::from_str, which drops them
\* unwiped, are the only secret a free block ever holds: every return path of the
\* C functions wipes before it frees, the sizes the free functions wipe by are
\* those of the blocks, a SecretKey and its clone are wiped when dropped, and the
\* other Vecs the crate drops hold nothing secret.
THEOREM SecretsWiped == Spec => []OnlyDecodedRemains
<1>1. IInv => OnlyDecodedRemains  BY DEF IInv
<1> QED  BY <1>1, Invariance, PTL

\* Without Rust callers nothing secret remains: in a process that only calls
\* bitcoin_pqc_keygen, bitcoin_pqc_sign and the free functions no free block ever
\* holds a secret key, keygen entropy or a signature that was not verified.
THEOREM CLeavesNoSecret ==
    ASSUME RustThreads = {}
    PROVE  Spec => [](\A b \in Blocks : ~live[b] => ~Secret(data[b]))
<1>1. OnlyDecodedRemains => \A b \in Blocks : ~live[b] => ~Secret(data[b])
  BY DEF OnlyDecodedRemains, MayRemain
<1> QED  BY <1>1, SecretsWiped, PTL

\* Whatever failed or was refused on the way, a caller sees both halves of a
\* key of its own or none, and a whole signature of its own or none: in the
\* structs bitcoin_pqc_keygen and bitcoin_pqc_sign_impl fill, with sizes that
\* match, and in the crate's PublicKey, SecretKey, its clone and Signature.
THEOREM CallersSeeWholes == Spec => []WholeOrNothing
<1>1. IInv => WholeOrNothing
  <2> SUFFICES ASSUME IInv, NEW t \in Threads, pc[t] = "idle"
               PROVE  WholeOrNothing!(t)!2
    BY DEF WholeOrNothing
  <2>1. Shape(t, "idle", ptr[t], size[t], result[t]) /\ Held(t, "idle", ptr[t], data)
    BY DEF IInv, Mine
  <2>2. /\ \A p \in StructPtrs : size[t][p] <=> ptr[t][p] # NULL
        /\ ptr[t]["public_key"] = NULL <=> ptr[t]["secret_key"] = NULL
    BY <2>1 DEF Shape, StructsOK, StructPtrs
  <2>3. ASSUME NEW p \in StructPtrs \cup VecPtrs, ptr[t][p] # NULL
        PROVE  data[ptr[t][p]] = Thing(KindOf(p), t)
    BY <2>1, <2>3 DEF Held
  <2>4. /\ \A p \in StructPtrs : KindOf(p) = p
        /\ KindOf("SecretKey") = "secret_key" /\ KindOf("Clone") = "secret_key"
        /\ KindOf("PublicKey") = "public_key" /\ KindOf("Signature") = "signature"
        /\ {"SecretKey", "Clone", "PublicKey", "Signature"} \subseteq VecPtrs
    BY DEF KindOf, StructPtrs, VecPtrs
  <2>5. ptr[t]["PublicKey"] # NULL => ptr[t]["SecretKey"] # NULL  BY <2>1 DEF Shape, VecsOK
  <2>6. \A p \in FramePtrs \cup {"decoded"} : ptr[t][p] = NULL
    BY <2>1 DEF Shape, FramesOK, FramePtrs, KeygenPCs, SignPCs
  <2> QED  BY <2>2, <2>3, <2>4, <2>5, <2>6
<1> QED  BY <1>1, Invariance, PTL

----------------------------------------------------------------------------
(***************************************************************************)
(* The stacks, which share nothing with the heap: proofs about StackBurn   *)
(* for any number of workers, any depth of stack and any burn that is deep *)
(* enough (StackAssumption), whichever calls the build inlined.            *)
(*                                                                         *)
(* The invariant says where a secret can be: below the wrapper's frame and *)
(* within the eight slots that any call needs, where the burn overwrites   *)
(* it, or in a function that will overwrite it itself.  For the second     *)
(* half of the first case frames must lie where the calls put them (Fits). *)
(***************************************************************************)
Fns == DOMAIN Stack!Calls

\* The slots that a call of a function takes, with everything it calls.
Need == [
    slh_dsa_keygen              |-> 8,
    slh_dsa_secret_key_validate |-> 6,
    slh_dsa_derandomize         |-> 3,
    slh_dsa_sign_with_stats     |-> 7,
    keygen_impl                 |-> 7,
    derive_keygen_seed_v1       |-> 2,
    crypto_sign_seed_keypair    |-> 5,
    validate_unburned           |-> 5,
    derandomize_unburned        |-> 2,
    sign_impl                   |-> 6,
    crypto_sign_signature       |-> 5,
    gen_message_random          |-> 2,
    fors_sign                   |-> 4,
    fors_sign_worker            |-> 4,
    fors_sign_tree              |-> 3,
    merkle_sign                 |-> 4,
    wots_gen_leaf               |-> 3,
    prf_addr                    |-> 2,
    compress                    |-> 1]

LEMMA FunctionNames ==
    Fns = {"slh_dsa_keygen", "slh_dsa_secret_key_validate", "slh_dsa_derandomize",
           "slh_dsa_sign_with_stats", "keygen_impl", "derive_keygen_seed_v1",
           "crypto_sign_seed_keypair", "validate_unburned", "derandomize_unburned", "sign_impl",
           "crypto_sign_signature", "gen_message_random", "fors_sign", "fors_sign_worker",
           "fors_sign_tree", "merkle_sign", "wots_gen_leaf", "prf_addr", "compress"}
BY DEF Fns, Stack!Calls

\* FrameSize without the recursion: inlining nests twice at most.
First(f)       == Stack!Calls[f][1]
HasInlined(f)  == Stack!Calls[f] # <<>> /\ <<f, First(f)>> \in inlined
SizeOf(f)      == IF ~HasInlined(f) THEN 1 ELSE IF ~HasInlined(First(f)) THEN 2 ELSE 3

LEMMA FrameSizeIs ==
    ASSUME inlined \subseteq Stack!Inlinable
    PROVE  \A f \in Fns : Stack!FrameSize[f] = SizeOf(f)
<1> DEFINE g == [f \in Fns |-> SizeOf(f)]
           Body(h, f) == IF Stack!Calls[f] # <<>> /\ <<f, Stack!Calls[f][1]>> \in inlined
                         THEN 1 + h[Stack!Calls[f][1]] ELSE 1
<1>1. ASSUME NEW f \in Fns, HasInlined(f)
      PROVE First(f) \in Fns /\ (HasInlined(First(f)) => ~HasInlined(First(First(f))))
  <2>1. ASSUME NEW e, HasInlined(e)
        PROVE  \/ e = "slh_dsa_keygen" /\ First(e) = "keygen_impl"
               \/ e = "keygen_impl" /\ First(e) = "derive_keygen_seed_v1"
               \/ First(e) \in {"validate_unburned", "derandomize_unburned", "sign_impl",
                               "fors_sign_tree"}
    <3>1. <<e, First(e)>> \in Stack!Inlinable  BY <2>1 DEF HasInlined
    <3> HIDE DEF First
    <3> QED  BY <3>1 DEF Stack!Inlinable
  <2>2. ASSUME NEW e \in {"validate_unburned", "derandomize_unburned", "sign_impl",
                         "fors_sign_tree", "derive_keygen_seed_v1"}
        PROVE  ~HasInlined(e)
    <3>1. <<e, First(e)>> \notin Stack!Inlinable
      <4> HIDE DEF First
      <4> QED  BY DEF Stack!Inlinable
    <3> QED  BY <3>1 DEF HasInlined
  <2>3. CASE f = "slh_dsa_keygen" /\ First(f) = "keygen_impl"
    <3>1. ~HasInlined(First(First(f))) \/ ~HasInlined(First(f))  BY <2>1, <2>2, <2>3
    <3> QED  BY <2>3, <3>1, FunctionNames
  <2>4. CASE f # "slh_dsa_keygen" \/ First(f) # "keygen_impl"
    <3>1. First(f) \in {"validate_unburned", "derandomize_unburned", "sign_impl",
                       "fors_sign_tree", "derive_keygen_seed_v1"}  BY <1>1, <2>1, <2>4
    <3> HIDE DEF HasInlined, First
    <3> QED  BY <2>2, <3>1, FunctionNames
  <2> QED  BY <2>3, <2>4
<1>2. ASSUME NEW f \in Fns PROVE SizeOf(f) = Body(g, f)
  BY <1>1 DEF SizeOf, HasInlined, First
<1>3. g = [f \in Fns |-> Body(g, f)]  BY <1>2
<1>4. Stack!FrameSize = [f \in Fns |-> Body(Stack!FrameSize, f)]
  <2> HIDE DEF g
  <2> QED  BY <1>3 DEF Stack!FrameSize, Fns
<1> DEFINE z == Stack!FrameSize
<1>5. z = [f \in Fns |-> Body(z, f)]  BY <1>4
<1> HIDE DEF z
<1>6. ASSUME NEW f \in Fns PROVE z[f] = SizeOf(f)
  <2>0. ASSUME NEW e \in Fns PROVE z[e] = IF HasInlined(e) THEN 1 + z[First(e)] ELSE 1
    BY <1>5 DEF HasInlined, First
  <2> HIDE DEF HasInlined, First
  <2>1. CASE ~HasInlined(f)  BY <2>0, <2>1 DEF SizeOf
  <2>2. CASE HasInlined(f) /\ ~HasInlined(First(f))
    <3>1. First(f) \in Fns  BY <1>1, <2>2
    <3>2. z[First(f)] = 1  BY <2>0, <2>2, <3>1
    <3>3. z[f] = 2  BY <2>0, <2>2, <3>2
    <3> QED  BY <2>2, <3>3 DEF SizeOf
  <2>3. CASE HasInlined(f) /\ HasInlined(First(f))
    <3>1. First(f) \in Fns /\ First(First(f)) \in Fns /\ ~HasInlined(First(First(f)))
      BY <1>1, <2>3
    <3>2. z[First(First(f))] = 1  BY <2>0, <3>1
    <3>3. z[First(f)] = 2  BY <2>0, <2>3, <3>1, <3>2
    <3>4. z[f] = 3  BY <2>0, <2>3, <3>3
    <3> QED  BY <2>3, <3>4 DEF SizeOf
  <2> QED  BY <2>1, <2>2, <2>3
<1> QED  BY <1>6 DEF z

\* Who calls whom, as a table.
Pairs == {
    <<"slh_dsa_keygen", 1, "keygen_impl">>,
    <<"slh_dsa_secret_key_validate", 1, "validate_unburned">>,
    <<"slh_dsa_derandomize", 1, "derandomize_unburned">>,
    <<"slh_dsa_sign_with_stats", 1, "sign_impl">>,
    <<"keygen_impl", 1, "derive_keygen_seed_v1">>,
    <<"keygen_impl", 2, "crypto_sign_seed_keypair">>,
    <<"derive_keygen_seed_v1", 1, "compress">>,
    <<"crypto_sign_seed_keypair", 1, "merkle_sign">>,
    <<"validate_unburned", 1, "merkle_sign">>,
    <<"derandomize_unburned", 1, "compress">>,
    <<"sign_impl", 1, "validate_unburned">>,
    <<"sign_impl", 2, "derandomize_unburned">>,
    <<"sign_impl", 3, "crypto_sign_signature">>,
    <<"crypto_sign_signature", 1, "gen_message_random">>,
    <<"crypto_sign_signature", 2, "fors_sign">>,
    <<"crypto_sign_signature", 3, "merkle_sign">>,
    <<"gen_message_random", 1, "compress">>,
    <<"fors_sign", 1, "fors_sign_tree">>,
    <<"fors_sign_worker", 1, "fors_sign_tree">>,
    <<"fors_sign_tree", 1, "prf_addr">>,
    <<"merkle_sign", 1, "wots_gen_leaf">>,
    <<"wots_gen_leaf", 1, "prf_addr">>,
    <<"prf_addr", 1, "compress">>}

LEMMA CallTable ==
    ASSUME NEW f \in Fns, NEW n \in 1 .. Len(Stack!Calls[f])
    PROVE  <<f, n, Stack!Calls[f][n]>> \in Pairs
<1>1. CASE f \in {"keygen_impl", "sign_impl", "crypto_sign_signature"}
  <2>1. CASE f = "keygen_impl"
    <3>1. n \in {1, 2}  BY <2>1 DEF Stack!Calls
    <3> QED  BY <2>1, <3>1 DEF Stack!Calls, Pairs
  <2>2. CASE f = "sign_impl"
    <3>1. n \in {1, 2, 3}  BY <2>2 DEF Stack!Calls
    <3> QED  BY <2>2, <3>1 DEF Stack!Calls, Pairs
  <2>3. CASE f = "crypto_sign_signature"
    <3>1. n \in {1, 2, 3}  BY <2>3 DEF Stack!Calls
    <3>2. Stack!Calls[f] = <<"gen_message_random", "fors_sign", "merkle_sign">>
      BY <2>3 DEF Stack!Calls
    <3>3. CASE n = 1  BY <2>3, <3>2, <3>3 DEF Pairs
    <3>4. CASE n = 2  BY <2>3, <3>2, <3>4 DEF Pairs
    <3>5. CASE n = 3  BY <2>3, <3>2, <3>5 DEF Pairs
    <3> QED  BY <3>1, <3>3, <3>4, <3>5
  <2> QED  BY <1>1, <2>1, <2>2, <2>3
<1>2. CASE f \notin {"keygen_impl", "sign_impl", "crypto_sign_signature"}
  <2>1. n = 1  BY <1>2, FunctionNames, SMTT(30) DEF Stack!Calls
  <2> QED  BY <1>2, <2>1, FunctionNames DEF Stack!Calls, Pairs
<1> QED  BY <1>1, <1>2

LEMMA FrameSizes ==
    ASSUME inlined \subseteq Stack!Inlinable
    PROVE  /\ \A f \in Fns : Stack!FrameSize[f] \in 1 .. 3
           /\ \A f \in Fns : (\A g : <<f, g>> \notin inlined) => Stack!FrameSize[f] = 1
           /\ Stack!FrameSize["keygen_impl"] \in 1 .. 2
           /\ \A f, g \in Fns : <<f, g>> \in inlined => Stack!FrameSize[f] = 1 + Stack!FrameSize[g]
<1>1. \A f \in Fns : Stack!FrameSize[f] = SizeOf(f)  BY FrameSizeIs
<1>2. \A f \in Fns : SizeOf(f) \in 1 .. 3  BY DEF SizeOf
<1>3. \A f \in Fns : (\A g : <<f, g>> \notin inlined) => SizeOf(f) = 1  BY DEF SizeOf, HasInlined
<1>4. SizeOf("keygen_impl") \in 1 .. 2
  <2>1. First("keygen_impl") = "derive_keygen_seed_v1"  BY DEF First, Stack!Calls
  <2>2. ~HasInlined("derive_keygen_seed_v1")  BY DEF HasInlined, First, Stack!Inlinable
  <2> QED  BY <2>1, <2>2 DEF SizeOf
<1>5. ASSUME NEW f \in Fns, NEW g \in Fns, <<f, g>> \in inlined PROVE SizeOf(f) = 1 + SizeOf(g)
  <2>1. /\ Stack!Calls[f] # <<>> /\ First(f) = g
        /\ HasInlined(g) => g = "keygen_impl"
    BY <1>5 DEF First, HasInlined, Stack!Calls, Stack!Inlinable
  <2>2. HasInlined(f)  BY <1>5, <2>1 DEF HasInlined
  <2>3. CASE ~HasInlined(g)  BY <2>1, <2>2, <2>3 DEF SizeOf
  <2>4. CASE HasInlined(g)
    <3>1. SizeOf(g) \in 1 .. 2  BY <2>1, <2>4, <1>4
    <3> QED  BY <2>1, <2>2, <2>4, <3>1 DEF SizeOf
  <2> QED  BY <2>3, <2>4
<1>6. "keygen_impl" \in Fns  BY FunctionNames
<1> QED  BY <1>1, <1>2, <1>3, <1>4, <1>5, <1>6

\* What a call adds to the stack fits into what its caller needs.
LEMMA CallFits ==
    ASSUME inlined \subseteq Stack!Inlinable, NEW f \in Fns, NEW n \in 1 .. Len(Stack!Calls[f]),
           NEW g, g = Stack!Calls[f][n]
    PROVE  /\ g \in Fns \ Stack!Wrappers
           /\ <<f, g>> \in inlined => 1 + Need[g] <= Need[f]
           /\ <<f, g>> \notin inlined => Stack!FrameSize[f] + Need[g] <= Need[f]
           /\ g \in Stack!Holds \ Stack!Wipes => <<f, g>> \notin inlined
<1>1. <<f, n, g>> \in Pairs  BY CallTable
<1>2. g \in Fns \ Stack!Wrappers
  BY <1>1, FunctionNames DEF Pairs, Stack!Wrappers, Stack!Entries
<1>3. ASSUME <<f, g>> \in inlined PROVE 1 + Need[g] <= Need[f]
  <2>1. <<f, g>> \in Stack!Inlinable  BY <1>3
  <2> QED  BY <2>1 DEF Stack!Inlinable, Need
<1>4. ASSUME <<f, g>> \notin inlined PROVE Stack!FrameSize[f] + Need[g] <= Need[f]
  <2>1. CASE f = "keygen_impl"
    <3>1. Need[f] = 7 /\ Need[g] <= 5  BY <1>1, <2>1 DEF Pairs, Need
    <3>2. Stack!FrameSize[f] \in 1 .. 2  BY <2>1, FrameSizes
    <3>3. Need[g] \in Nat  BY <1>1 DEF Pairs, Need
    <3> QED  BY <3>1, <3>2, <3>3
  <2>2. CASE f # "keygen_impl"
    <3>1. \A h : <<f, h>> \in Stack!Inlinable => h = g
      BY <1>1, <2>2 DEF Pairs, Stack!Inlinable
    <3>2. Stack!FrameSize[f] = 1  BY <1>4, <3>1, FrameSizes
    <3>3. 1 + Need[g] <= Need[f]  BY <1>1, <2>2 DEF Pairs, Need
    <3> QED  BY <3>2, <3>3
  <2> QED  BY <2>1, <2>2
<1>5. g \in Stack!Holds \ Stack!Wipes => <<f, g>> \notin inlined
  <2>1. g \in Stack!Holds \ Stack!Wipes => g \in {"wots_gen_leaf", "compress"}
    BY DEF Stack!Holds, Stack!Wipes
  <2>2. \A h : h \in {"wots_gen_leaf", "compress"} => <<f, h>> \notin Stack!Inlinable
    BY DEF Stack!Inlinable
  <2> QED  BY <2>1, <2>2
<1> QED  BY <1>2, <1>3, <1>4, <1>5

\* An entry point needs eight slots at most, and so does a worker.
LEMMA NeedBounds ==
    /\ \A f \in Fns : Need[f] \in 1 .. 8
    /\ Stack!Wrappers \subseteq Fns /\ Stack!Wrappers \cap Stack!Holds = {}
    /\ Stack!Holds \subseteq Fns /\ Stack!Wipes \subseteq Stack!Holds
BY FunctionNames DEF Need, Stack!Wrappers, Stack!Entries, Stack!Holds, Stack!Wipes

----------------------------------------------------------------------------
Activations == [fn : Fns, slot : Nat, end : Nat, next : Nat]

\* Activation a fits behind those of fs: frames that were not inlined lie one behind
\* the other, a wrapper is at the bottom, and a secret that nobody overwrites is
\* below the wrapper's frame.
Fits(fs, k, a) ==
    /\ a.end = a.slot + SizeOf(a.fn)
    /\ a.slot + Need[a.fn] <= 8
    /\ a.next >= 1
    /\ k = 1 <=> a.fn \in Stack!Wrappers
    /\ k > 1 => /\ fs[k - 1].slot < a.slot
                /\ fs[1].end <= a.end
                /\ a.fn \in Stack!Holds \ Stack!Wipes => fs[1].end <= a.slot

StackTypes ==
    /\ inlined \subseteq Stack!Inlinable
    /\ frames \in [Stack!Threads -> Seq(Activations)]
    /\ mem \in [Stack!Threads -> [Stack!Slots -> BOOLEAN]]
    /\ spawned \subseteq Workers

FramesFit ==
    \A t \in Stack!Threads : \A k \in 1 .. Len(frames[t]) : Fits(frames[t], k, frames[t][k])

\* A secret is where the burn will overwrite it, or where its function will.
SecretAt(t, s) ==
    \/ Stack!Running(t) /\ frames[t][1].end <= s /\ s <= 7
    \/ \E k \in 2 .. Len(frames[t]) : frames[t][k].slot = s /\ frames[t][k].fn \in Stack!Wipes

SecretsInReach ==
    \A t \in Stack!Threads : \A s \in Stack!Slots : mem[t][s] => SecretAt(t, s)

WorkersInside ==
    \A w \in Workers :
        /\ w \notin spawned => ~Stack!Running(w)
        /\ Stack!Running(w) => Stack!Running(Main) /\ Stack!Top(Main).fn = "fors_sign"

StackInv == StackTypes /\ FramesFit /\ SecretsInReach /\ WorkersInside

\* A function starts.
LEMMA StartFits ==
    ASSUME Stack!StackAssumption, StackTypes, FramesFit, SecretsInReach, inlined' = inlined,
           NEW t \in Stack!Threads, NEW a \in Activations,
           Fits(frames[t], Len(frames[t]) + 1, a), Stack!Start(t, a)
    PROVE  /\ frames' \in [Stack!Threads -> Seq(Activations)]
           /\ mem' \in [Stack!Threads -> [Stack!Slots -> BOOLEAN]]
           /\ FramesFit' /\ SecretsInReach'
<1> DEFINE n == Len(frames[t]) + 1
<1>1. frames[t] \in Seq(Activations) /\ n \in Nat /\ n >= 1  BY DEF StackTypes
<1>2. frames' = [frames EXCEPT ![t] = Append(@, a)]  BY DEF Stack!Start
<1>3. frames' \in [Stack!Threads -> Seq(Activations)]  BY <1>1, <1>2 DEF StackTypes
<1>4. /\ frames'[t] = Append(frames[t], a) /\ Len(frames'[t]) = n /\ frames'[t][n] = a
      /\ \A k \in 1 .. n - 1 : frames'[t][k] = frames[t][k]
      /\ \A u \in Stack!Threads \ {t} : frames'[u] = frames[u]
  BY <1>1, <1>2 DEF StackTypes
<1>5. a.slot \in Stack!Slots
  <2>1. Need[a.fn] \in 1 .. 8  BY NeedBounds DEF Activations
  <2> QED  BY <2>1 DEF Fits, Activations, Stack!Slots, Stack!StackAssumption
<1>6. mem' \in [Stack!Threads -> [Stack!Slots -> BOOLEAN]]  BY <1>5 DEF Stack!Start, StackTypes
<1>7. FramesFit'
  <2> SUFFICES ASSUME NEW u \in Stack!Threads, NEW k \in 1 .. Len(frames'[u])
               PROVE  Fits(frames[u], k, frames[u][k])'
    BY DEF FramesFit
  <2>1. CASE u # t
    <3>1. Fits(frames[u], k, frames[u][k])  BY <1>4, <2>1 DEF FramesFit
    <3> QED  BY <1>4, <2>1, <3>1 DEF Fits, SizeOf, HasInlined
  <2>2. CASE u = t /\ k < n
    <3>1. k \in 1 .. Len(frames[t])  BY <1>1, <1>4, <2>2
    <3>2. Fits(frames[t], k, frames[t][k])  BY <3>1 DEF FramesFit
    <3>3. frames'[t][k] = frames[t][k] /\ frames'[t][1] = frames[t][1]
          /\ (k > 1 => frames'[t][k - 1] = frames[t][k - 1])
      BY <1>1, <1>4, <3>1
    <3> QED  BY <2>2, <3>2, <3>3 DEF Fits, SizeOf, HasInlined
  <2>3. CASE u = t /\ k = n
    <3>1. n > 1 => frames'[t][n - 1] = frames[t][n - 1] /\ frames'[t][1] = frames[t][1]
      BY <1>1, <1>4
    <3> QED  BY <1>4, <2>3, <3>1 DEF Fits, SizeOf, HasInlined
  <2> QED  BY <1>1, <1>4, <2>1, <2>2, <2>3
<1>8. SecretsInReach'
  <2> SUFFICES ASSUME NEW u \in Stack!Threads, NEW s \in Stack!Slots, mem'[u][s]
               PROVE  SecretAt(u, s)'
    BY DEF SecretsInReach, Stack!Slots
  <2>1. CASE u = t /\ s = a.slot /\ a.fn \in Stack!Holds
    <3>1. n > 1  BY <1>1, <2>1, NeedBounds DEF Fits
    <3>2. CASE a.fn \in Stack!Wipes
      <4>1. n \in 2 .. Len(frames'[t])  BY <1>1, <1>4, <3>1
      <4> QED  BY <1>4, <2>1, <3>2, <4>1 DEF SecretAt
    <3>3. CASE a.fn \notin Stack!Wipes
      <4>1. frames'[t][1] = frames[t][1] /\ Stack!Running(t)'  BY <1>1, <1>4, <3>1 DEF Stack!Running
      <4>2. frames[t][1].end <= a.slot  BY <2>1, <3>1, <3>3 DEF Fits
      <4>3. a.slot <= 7
        <5>1. Need[a.fn] \in 1 .. 8  BY NeedBounds DEF Activations
        <5> QED  BY <5>1 DEF Fits, Activations
      <4> QED  BY <2>1, <4>1, <4>2, <4>3 DEF SecretAt
    <3> QED  BY <3>2, <3>3
  <2>2. CASE ~(u = t /\ s = a.slot /\ a.fn \in Stack!Holds)
    <3>1. mem[u][s]  BY <1>5, <2>2 DEF Stack!Start, StackTypes
    <3>2. SecretAt(u, s)  BY <3>1 DEF SecretsInReach
    <3>3. CASE u # t  BY <1>4, <3>2, <3>3 DEF SecretAt, Stack!Running
    <3>4. CASE u = t
      <4>1. CASE Stack!Running(t) /\ frames[t][1].end <= s /\ s <= 7
        <5>1. frames'[t][1] = frames[t][1] /\ Stack!Running(t)'
          BY <1>1, <1>4, <4>1 DEF Stack!Running
        <5> QED  BY <3>4, <4>1, <5>1 DEF SecretAt
      <4>2. CASE \E k \in 2 .. Len(frames[t]) :
                    frames[t][k].slot = s /\ frames[t][k].fn \in Stack!Wipes
        <5>1. PICK k \in 2 .. Len(frames[t]) :
                    frames[t][k].slot = s /\ frames[t][k].fn \in Stack!Wipes
          BY <4>2
        <5>2. k \in 2 .. Len(frames'[t]) /\ frames'[t][k] = frames[t][k]  BY <1>1, <1>4
        <5> QED  BY <3>4, <5>1, <5>2 DEF SecretAt
      <4> QED  BY <3>2, <3>4, <4>1, <4>2 DEF SecretAt
    <3> QED  BY <3>3, <3>4
  <2> QED  BY <2>1, <2>2
<1> QED  BY <1>3, <1>6, <1>7, <1>8

LEMMA StackInitial == ASSUME Stack!Init PROVE StackInv
<1>1. StackTypes  BY DEF Stack!Init, StackTypes, Activations
<1>2. \A t \in Stack!Threads : frames[t] = <<>> /\ \A s \in Stack!Slots : ~mem[t][s]
  BY DEF Stack!Init
<1>3. FramesFit /\ SecretsInReach  BY <1>2 DEF FramesFit, SecretsInReach
<1>4. WorkersInside  BY <1>2 DEF WorkersInside, Stack!Running, Stack!Threads
<1> QED  BY <1>1, <1>3, <1>4 DEF StackInv

LEMMA WrapperFits ==
    ASSUME StackTypes, NEW f \in Stack!Wrappers, NEW t \in Stack!Threads, frames[t] = <<>>,
           NEW a, a = Stack!Activation(f, 0, Stack!FrameSize[f])
    PROVE  a \in Activations /\ Fits(frames[t], Len(frames[t]) + 1, a)
<1>1. f \in Fns /\ Need[f] \in 1 .. 8  BY NeedBounds
<1>2. Stack!FrameSize[f] \in Nat /\ Stack!FrameSize[f] = SizeOf(f)
  BY <1>1, FrameSizes, FrameSizeIs DEF StackTypes
<1>3. Len(frames[t]) + 1 = 1  OBVIOUS
<1> QED  BY <1>1, <1>2, <1>3 DEF Fits, Activations, Stack!Activation

LEMMA StackEnter ==
    ASSUME Stack!StackAssumption, StackInv, NEW f \in Stack!Entries, Stack!Enter(f)
    PROVE  StackInv'
<1> DEFINE a == Stack!Activation(f, 0, Stack!FrameSize[f])
<1>1. Main \in Stack!Threads /\ frames[Main] = <<>>
  BY DEF Stack!Enter, Stack!Running, Stack!Threads
<1>2. a \in Activations /\ Fits(frames[Main], Len(frames[Main]) + 1, a)
  BY <1>1, WrapperFits DEF StackInv, Stack!Wrappers
<1>3. Stack!Start(Main, a) /\ inlined' = inlined /\ spawned' = spawned  BY DEF Stack!Enter
<1> HIDE DEF a
<1>4. /\ frames' \in [Stack!Threads -> Seq(Activations)]
      /\ mem' \in [Stack!Threads -> [Stack!Slots -> BOOLEAN]]
      /\ FramesFit' /\ SecretsInReach'
  BY <1>1, <1>2, <1>3, StartFits DEF StackInv
<1>5. \A w \in Workers : ~Stack!Running(w)  BY <1>1 DEF StackInv, WorkersInside, Stack!Running
<1>6. \A w \in Workers : frames'[w] = frames[w]
  BY <1>3 DEF Stack!Start, StackInv, StackTypes, Stack!StackAssumption, Stack!Threads
<1>7. WorkersInside'  BY <1>5, <1>6 DEF WorkersInside, Stack!Running
<1> QED  BY <1>3, <1>4, <1>7 DEF StackInv, StackTypes

LEMMA StackSpawn ==
    ASSUME Stack!StackAssumption, StackInv, NEW w \in Workers, Stack!Spawn(w)
    PROVE  StackInv'
<1> DEFINE a == Stack!Activation("fors_sign_worker", 0, Stack!FrameSize["fors_sign_worker"])
<1>1. w \in Stack!Threads /\ frames[w] = <<>> /\ w # Main /\ Main \in Stack!Threads
  BY DEF Stack!Spawn, StackInv, WorkersInside, Stack!Running, Stack!Threads, Stack!StackAssumption
<1>2. a \in Activations /\ Fits(frames[w], Len(frames[w]) + 1, a)
  BY <1>1, WrapperFits DEF StackInv, Stack!Wrappers
<1>3. Stack!Start(w, a) /\ inlined' = inlined /\ spawned' = spawned \cup {w}  BY DEF Stack!Spawn
<1> HIDE DEF a
<1>4. /\ frames' \in [Stack!Threads -> Seq(Activations)]
      /\ mem' \in [Stack!Threads -> [Stack!Slots -> BOOLEAN]]
      /\ FramesFit' /\ SecretsInReach'
  BY <1>1, <1>2, <1>3, StartFits DEF StackInv
<1>5. \A u \in Stack!Threads \ {w} : frames'[u] = frames[u]
  BY <1>3 DEF Stack!Start, StackInv, StackTypes
<1>6. Stack!Running(Main)' /\ Stack!Top(Main)'.fn = "fors_sign"
  BY <1>1, <1>5 DEF Stack!Spawn, Stack!Running, Stack!Top
<1>7. WorkersInside'
  BY <1>3, <1>5, <1>6 DEF WorkersInside, StackInv, Stack!Running, Stack!Threads
<1> QED  BY <1>3, <1>4, <1>7 DEF StackInv, StackTypes

\* What a thread does changes nothing for the workers, unless it starts one.
LEMMA WorkersStay ==
    ASSUME Stack!StackAssumption, StackInv, NEW t \in Stack!Threads,
           Stack!Running(t), Stack!Joined(t) \/ Stack!Top(t).fn # "fors_sign",
           \A u \in Stack!Threads \ {t} : frames'[u] = frames[u],
           spawned' = spawned \/ (spawned' = {} /\ \A w \in Workers : ~Stack!Running(w))
    PROVE  WorkersInside'
<1>0. Main \in Stack!Threads /\ Workers \subseteq Stack!Threads /\ Main \notin Workers
  BY DEF Stack!Threads, Stack!StackAssumption
<1>1. CASE t = Main
  <2>1. \A w \in Workers : ~Stack!Running(w)
    BY <1>1 DEF StackInv, WorkersInside, Stack!Joined
  <2>2. \A w \in Workers : ~Stack!Running(w)'  BY <1>0, <1>1, <2>1 DEF Stack!Running
  <2> QED  BY <2>2 DEF WorkersInside
<1>2. CASE t # Main
  <2>1. t \in Workers /\ t \in spawned /\ spawned' = spawned
    BY <1>2 DEF StackInv, WorkersInside, Stack!Threads
  <2>2. Stack!Running(Main) /\ Stack!Top(Main).fn = "fors_sign"
    BY <2>1 DEF StackInv, WorkersInside
  <2>3. Stack!Running(Main)' /\ Stack!Top(Main)'.fn = "fors_sign"
    BY <1>0, <1>2, <2>2 DEF Stack!Running, Stack!Top
  <2> QED  BY <1>0, <2>1, <2>3 DEF WorkersInside, StackInv, Stack!Running
<1> QED  BY <1>1, <1>2

LEMMA StackCall ==
    ASSUME Stack!StackAssumption, StackInv, NEW t \in Stack!Threads, Stack!Call(t)
    PROVE  StackInv'
<1> DEFINE n == Len(frames[t])
           a == Stack!Top(t)
           g == Stack!Calls[a.fn][a.next]
           b == IF <<a.fn, g>> \in inlined THEN Stack!Activation(g, a.slot + 1, a.end)
                ELSE Stack!Activation(g, a.end, a.end + Stack!FrameSize[g])
<1>1. frames[t] \in Seq(Activations) /\ n \in Nat /\ n >= 1 /\ a = frames[t][n] /\ a \in Activations
  <2>1. frames[t] \in Seq(Activations) /\ frames[t] # <<>> /\ a = frames[t][n]
    BY DEF Stack!Call, Stack!Running, Stack!Top, StackInv, StackTypes
  <2> HIDE DEF a
  <2>2. n \in Nat /\ n >= 1 /\ frames[t][n] \in Activations  BY <2>1
  <2> QED  BY <2>1, <2>2
<1>2. Fits(frames[t], n, a)  BY <1>1 DEF StackInv, FramesFit
<1>3. a.fn \in Fns /\ a.next \in 1 .. Len(Stack!Calls[a.fn])
  <2>1. a.next \in Nat /\ a.next >= 1 /\ a.next <= Len(Stack!Calls[a.fn])
    BY <1>1, <1>2 DEF Stack!Call, Activations, Fits
  <2>2. a.fn \in Fns  BY <1>1 DEF Activations
  <2>3. Len(Stack!Calls[a.fn]) \in Nat  BY <2>2, FunctionNames DEF Stack!Calls
  <2> QED  BY <2>1, <2>2, <2>3
<1>4. inlined \subseteq Stack!Inlinable  BY DEF StackInv, StackTypes
<1>5. /\ g \in Fns \ Stack!Wrappers
      /\ <<a.fn, g>> \in inlined => 1 + Need[g] <= Need[a.fn]
      /\ <<a.fn, g>> \notin inlined => Stack!FrameSize[a.fn] + Need[g] <= Need[a.fn]
      /\ g \in Stack!Holds \ Stack!Wipes => <<a.fn, g>> \notin inlined
  BY <1>3, <1>4, CallFits
<1>6. /\ Stack!FrameSize[a.fn] = SizeOf(a.fn) /\ Stack!FrameSize[g] = SizeOf(g)
      /\ SizeOf(a.fn) \in 1 .. 3 /\ SizeOf(g) \in 1 .. 3
      /\ <<a.fn, g>> \in inlined => SizeOf(a.fn) = 1 + SizeOf(g)
  <2>1. a.fn \in Fns /\ g \in Fns  BY <1>3, <1>5
  <2> HIDE DEF a, g
  <2>2. \A f \in Fns : Stack!FrameSize[f] = SizeOf(f)  BY <1>4, FrameSizeIs
  <2> QED  BY <1>4, <2>1, <2>2, FrameSizes
<1>7. Need[g] \in 1 .. 8 /\ Need[a.fn] \in 1 .. 8  BY <1>3, <1>5, NeedBounds
<1>8. /\ a.slot \in Nat /\ a.end \in Nat /\ a.end = a.slot + SizeOf(a.fn)
      /\ a.slot + Need[a.fn] <= 8 /\ frames[t][1].end <= a.end /\ frames[t][1].end \in Nat
  <2> HIDE DEF a, g
  <2>1. frames[t][1] \in Activations  BY <1>1
  <2>2. CASE n = 1  BY <1>1, <1>2, <2>1, <2>2 DEF Activations, Fits
  <2>3. CASE n > 1  BY <1>1, <1>2, <2>1, <2>3 DEF Activations, Fits
  <2>4. n = 1 \/ n > 1
    <3> HIDE DEF n
    <3> QED  BY <1>1
  <2> QED  BY <2>2, <2>3, <2>4
<1> HIDE DEF g, a
<1>9. b \in Activations /\ Fits(frames[t], n + 1, b)
  <2>1. CASE <<a.fn, g>> \in inlined
    <3>1. b = [fn |-> g, slot |-> a.slot + 1, end |-> a.end, next |-> 1]
      BY <2>1 DEF Stack!Activation
    <3> HIDE DEF b
    <3>2. b \in Activations  BY <1>5, <1>8, <3>1 DEF Activations
    <3>3. b.end = b.slot + SizeOf(b.fn) /\ b.slot + Need[b.fn] <= 8 /\ b.next >= 1
      BY <1>5, <1>6, <1>7, <1>8, <2>1, <3>1
    <3>4. n + 1 > 1 /\ n + 1 - 1 = n /\ b.fn \notin Stack!Wrappers /\ frames[t][n].slot < b.slot
          /\ frames[t][1].end <= b.end /\ b.fn \notin Stack!Holds \ Stack!Wipes
      BY <1>1, <1>5, <1>8, <2>1, <3>1
    <3> QED  BY <3>2, <3>3, <3>4 DEF Fits
  <2>2. CASE <<a.fn, g>> \notin inlined
    <3>1. b = [fn |-> g, slot |-> a.end, end |-> a.end + SizeOf(g), next |-> 1]
      BY <1>6, <2>2 DEF Stack!Activation
    <3> HIDE DEF b
    <3>2. b \in Activations  BY <1>5, <1>6, <1>8, <3>1 DEF Activations
    <3>3. b.end = b.slot + SizeOf(b.fn) /\ b.slot + Need[b.fn] <= 8 /\ b.next >= 1
      BY <1>5, <1>6, <1>7, <1>8, <2>2, <3>1
    <3>4. n + 1 > 1 /\ n + 1 - 1 = n /\ b.fn \notin Stack!Wrappers /\ frames[t][n].slot < b.slot
          /\ frames[t][1].end <= b.end /\ frames[t][1].end <= b.slot
      BY <1>1, <1>5, <1>6, <1>8, <3>1
    <3> QED  BY <3>2, <3>3, <3>4 DEF Fits
  <2> QED  BY <2>1, <2>2
<1>10. Stack!Start(t, b) /\ inlined' = inlined /\ spawned' = spawned /\ Stack!Running(t)
       /\ Stack!Joined(t)
  BY DEF Stack!Call, a, g, b
<1> HIDE DEF b
<1>11. /\ frames' \in [Stack!Threads -> Seq(Activations)]
       /\ mem' \in [Stack!Threads -> [Stack!Slots -> BOOLEAN]]
       /\ FramesFit' /\ SecretsInReach'
  BY <1>9, <1>10, StartFits DEF StackInv
<1>12. \A u \in Stack!Threads \ {t} : frames'[u] = frames[u]
  BY <1>10 DEF Stack!Start, StackInv, StackTypes
<1>13. WorkersInside'  BY <1>10, <1>12, WorkersStay
<1> QED  BY <1>10, <1>11, <1>13 DEF StackInv, StackTypes

LEMMA StackReturn ==
    ASSUME Stack!StackAssumption, StackInv, NEW t \in Stack!Threads, Stack!Return(t)
    PROVE  StackInv'
<1> DEFINE n == Len(frames[t])
           a == frames[t][n]
           caller == frames[t][n - 1]
           wiped == [mem[t] EXCEPT ![a.slot] = @ /\ a.fn \notin Stack!Wipes]
           given == caller.fn \in Stack!Holds /\ Stack!HoldsAfter[caller.fn] = caller.next
           left == [SubSeq(frames[t], 1, n - 1) EXCEPT ![n - 1].next = @ + 1]
<1> HIDE DEF wiped, given, left
<1>1. frames[t] \in Seq(Activations) /\ n \in Nat /\ n >= 1 /\ a \in Activations
  BY DEF Stack!Return, Stack!Running, StackInv, StackTypes
<1>2. Fits(frames[t], n, a) /\ a.fn \notin Stack!Wrappers
  BY <1>1 DEF StackInv, FramesFit, Stack!Return, Stack!Top
<1>3. n >= 2
  <2>1. n # 1  BY <1>2 DEF Fits
  <2> HIDE DEF n
  <2> QED  BY <1>1, <2>1
<1>4. caller \in Activations /\ Fits(frames[t], n - 1, caller)
  BY <1>1, <1>3 DEF StackInv, FramesFit
<1>5. /\ frames' = [frames EXCEPT ![t] = left]
      /\ mem' = [mem EXCEPT ![t] = IF given THEN [wiped EXCEPT ![caller.slot] = TRUE] ELSE wiped]
      /\ inlined' = inlined
      /\ spawned' = IF a.fn = "fors_sign" THEN {} ELSE spawned
      /\ Stack!Running(t) /\ Stack!Joined(t)
  <2>1. Stack!Top(t) = a  BY DEF Stack!Top
  <2>2. frames' = [frames EXCEPT ![t] = left]  BY DEF Stack!Return, left
  <2>3. mem' = [mem EXCEPT ![t] = IF given THEN [wiped EXCEPT ![caller.slot] = TRUE] ELSE wiped]
    BY <2>1 DEF Stack!Return, wiped, given
  <2>4. spawned' = IF a.fn = "fors_sign" THEN {} ELSE spawned  BY <2>1 DEF Stack!Return
  <2> QED  BY <2>2, <2>3, <2>4 DEF Stack!Return
<1>6. left \in Seq(Activations) /\ Len(left) = n - 1
      /\ (\A k \in 1 .. n - 1 : /\ left[k] \in Activations
                               /\ left[k].fn = frames[t][k].fn /\ left[k].slot = frames[t][k].slot
                               /\ left[k].end = frames[t][k].end
                               /\ left[k].next >= frames[t][k].next)
  <2> DEFINE up == SubSeq(frames[t], 1, n - 1)
  <2>1. up \in Seq(Activations) /\ Len(up) = n - 1 /\ \A k \in 1 .. n - 1 : up[k] = frames[t][k]
    BY <1>1, <1>3
  <2>2. up[n - 1] = caller /\ n - 1 \in 1 .. n - 1  BY <1>1, <1>3, <2>1
  <2> DEFINE e == [caller EXCEPT !.next = @ + 1]
  <2>3. e \in Activations /\ e.fn = caller.fn /\ e.slot = caller.slot /\ e.end = caller.end
        /\ e.next = caller.next + 1 /\ caller.next \in Nat
    BY <1>4 DEF Activations
  <2>4. left = [up EXCEPT ![n - 1] = e]  BY <2>2 DEF left
  <2> HIDE DEF up, e
  <2>5. left \in Seq(Activations) /\ Len(left) = n - 1  BY <2>1, <2>2, <2>3, <2>4
  <2>6. ASSUME NEW k \in 1 .. n - 1
        PROVE  /\ left[k] \in Activations
               /\ left[k].fn = frames[t][k].fn /\ left[k].slot = frames[t][k].slot
               /\ left[k].end = frames[t][k].end /\ left[k].next >= frames[t][k].next
    <3>1. CASE k = n - 1
      <4>1. left[k] = e  BY <2>1, <2>2, <2>4, <3>1
      <4> QED  BY <2>3, <3>1, <4>1
    <3>2. CASE k # n - 1
      <4>1. left[k] = frames[t][k] /\ frames[t][k] \in Activations  BY <1>1, <2>1, <2>4, <3>2
      <4> QED  BY <4>1 DEF Activations
    <3> QED  BY <3>1, <3>2
  <2> QED  BY <2>5, <2>6
<1>7. /\ frames' \in [Stack!Threads -> Seq(Activations)] /\ frames'[t] = left
      /\ \A u \in Stack!Threads \ {t} : frames'[u] = frames[u]
  BY <1>5, <1>6 DEF StackInv, StackTypes
<1>8. a.slot \in Stack!Slots /\ caller.slot \in Stack!Slots
  <2>1. Need[a.fn] \in 1 .. 8 /\ Need[caller.fn] \in 1 .. 8  BY <1>1, <1>4, NeedBounds DEF Activations
  <2>2. /\ a.slot \in Nat /\ caller.slot \in Nat
        /\ a.slot + Need[a.fn] <= 8 /\ caller.slot + Need[caller.fn] <= 8
    BY <1>1, <1>2, <1>4 DEF Fits, Activations
  <2>3. \A x \in Nat, y \in 1 .. 8 : x + y <= 8 => x \in Stack!Slots
    BY DEF Stack!Slots, Stack!StackAssumption
  <2> QED  BY <2>1, <2>2, <2>3
<1>9. mem[t] \in [Stack!Slots -> BOOLEAN]  BY DEF StackInv, StackTypes
<1>10. mem' \in [Stack!Threads -> [Stack!Slots -> BOOLEAN]]
  BY <1>5, <1>8, <1>9 DEF StackInv, StackTypes, wiped
<1>11. FramesFit'
  <2> SUFFICES ASSUME NEW u \in Stack!Threads, NEW k \in 1 .. Len(frames'[u])
               PROVE  Fits(frames[u], k, frames[u][k])'
    BY DEF FramesFit
  <2>1. CASE u # t
    <3>1. Fits(frames[u], k, frames[u][k])  BY <1>7, <2>1 DEF StackInv, FramesFit
    <3> QED  BY <1>5, <1>7, <2>1, <3>1 DEF Fits, SizeOf, HasInlined
  <2>2. CASE u = t
    <3>1. k \in 1 .. n - 1 /\ k \in 1 .. n  BY <1>6, <1>7, <2>2, <1>1
    <3>2. Fits(frames[t], k, frames[t][k])  BY <3>1 DEF StackInv, FramesFit
    <3>3. /\ left[k].fn = frames[t][k].fn /\ left[k].slot = frames[t][k].slot
          /\ left[k].end = frames[t][k].end /\ left[k].next >= frames[t][k].next
          /\ left[1].end = frames[t][1].end
          /\ k > 1 => left[k - 1].slot = frames[t][k - 1].slot
          /\ left[k].next \in Nat /\ frames[t][k].next \in Nat
      <4> HIDE DEF n
      <4>1. 1 \in 1 .. n - 1 /\ (k > 1 => k - 1 \in 1 .. n - 1)  BY <1>1, <3>1
      <4>2. left[k] \in Activations /\ frames[t][k] \in Activations  BY <1>1, <1>6, <3>1 DEF n
      <4> QED  BY <1>6, <3>1, <4>1, <4>2 DEF Activations
    <3>4. \A f : SizeOf(f)' = SizeOf(f)  BY <1>5 DEF SizeOf, HasInlined
    <3>5. Fits(left, k, left[k])
      BY <3>2, <3>3 DEF Fits
    <3> QED  BY <1>7, <2>2, <3>4, <3>5 DEF Fits
  <2> QED  BY <2>1, <2>2
<1>12. SecretsInReach'
  <2> SUFFICES ASSUME NEW u \in Stack!Threads, NEW s \in Stack!Slots, mem'[u][s]
               PROVE  SecretAt(u, s)'
    BY DEF SecretsInReach, Stack!Slots
  <2>1. CASE u # t
    <3>1. mem[u][s]  BY <1>5, <2>1 DEF StackInv, StackTypes
    <3>2. SecretAt(u, s)  BY <3>1 DEF StackInv, SecretsInReach
    <3> QED  BY <1>7, <2>1, <3>2 DEF SecretAt, Stack!Running
  <2>2. CASE u = t /\ given /\ s = caller.slot
    <3>1. caller.next >= 1 /\ caller.next \in Nat  BY <1>4 DEF Fits, Activations
    <3>2. caller.fn \in {"keygen_impl", "sign_impl"}
      BY <2>2, <3>1 DEF Stack!HoldsAfter, given
    <3>3. caller.fn \in Stack!Wipes /\ caller.fn \notin Stack!Wrappers
      BY <3>2 DEF Stack!Wipes, Stack!Holds, Stack!Wrappers, Stack!Entries
    <3>4. n - 1 # 1  BY <1>4, <3>3 DEF Fits
    <3>5. n - 1 \in 2 .. Len(left) /\ n - 1 \in 1 .. n - 1
      <4> HIDE DEF n
      <4> QED  BY <1>1, <1>3, <1>6, <3>4
    <3> QED  BY <1>6, <1>7, <2>2, <3>3, <3>5 DEF SecretAt
  <2>3. CASE u = t /\ ~(given /\ s = caller.slot)
    <3>1. mem[t][s] /\ (s = a.slot => a.fn \notin Stack!Wipes)
      BY <1>5, <1>8, <1>9, <2>3 DEF StackInv, StackTypes, wiped
    <3>2. SecretAt(t, s)  BY <3>1 DEF StackInv, SecretsInReach
    <3>3. CASE Stack!Running(t) /\ frames[t][1].end <= s /\ s <= 7
      <4>1. frames'[t] # <<>> /\ frames'[t][1].end = frames[t][1].end  BY <1>1, <1>3, <1>6, <1>7
      <4> QED  BY <2>3, <3>3, <4>1 DEF SecretAt, Stack!Running
    <3>4. CASE \E k \in 2 .. n : frames[t][k].slot = s /\ frames[t][k].fn \in Stack!Wipes
      <4>1. PICK k \in 2 .. n : frames[t][k].slot = s /\ frames[t][k].fn \in Stack!Wipes  BY <3>4
      <4>2. k # n  BY <3>1, <4>1
      <4>3. k \in 2 .. Len(left) /\ k \in 1 .. n - 1  BY <1>1, <1>6, <4>2
      <4> QED  BY <1>6, <1>7, <2>3, <4>1, <4>3 DEF SecretAt
    <3> QED  BY <3>2, <3>3, <3>4 DEF SecretAt
  <2> QED  BY <2>1, <2>2, <2>3
<1>13. WorkersInside'
  <2>1. spawned' = spawned \/ (spawned' = {} /\ \A w \in Workers : ~Stack!Running(w))
    BY <1>1, <1>5 DEF Stack!Joined, Stack!Top
  <2> QED  BY <1>5, <1>7, <2>1, WorkersStay
<1>14. spawned' \subseteq Workers  BY <1>5 DEF StackInv, StackTypes
<1> QED  BY <1>5, <1>7, <1>10, <1>11, <1>12, <1>13, <1>14 DEF StackInv, StackTypes

LEMMA StackBurns ==
    ASSUME Stack!StackAssumption, StackInv, NEW t \in Stack!Threads, Stack!Burn(t)
    PROVE  StackInv'
<1> DEFINE n == Len(frames[t])
           a == frames[t][n]
<1>1. frames[t] \in Seq(Activations) /\ n \in Nat /\ n >= 1 /\ a \in Activations
      /\ Stack!Top(t) = a
  BY DEF Stack!Burn, Stack!Running, Stack!Top, StackInv, StackTypes
<1>2. Fits(frames[t], n, a) /\ a.fn \in Stack!Wrappers
  BY <1>1 DEF StackInv, FramesFit, Stack!Burn
<1>3. n = 1  BY <1>1, <1>2 DEF Fits
<1>4. /\ frames' = [frames EXCEPT ![t] = <<>>]
      /\ mem' = [mem EXCEPT ![t] = [s \in Stack!Slots |-> @[s] /\ s \notin Stack!Burned(a)]]
      /\ inlined' = inlined /\ spawned' = spawned
  BY <1>1 DEF Stack!Burn
<1>5. /\ frames' \in [Stack!Threads -> Seq(Activations)] /\ frames'[t] = <<>>
      /\ \A u \in Stack!Threads \ {t} : frames'[u] = frames[u]
  BY <1>4 DEF StackInv, StackTypes
<1>6. /\ mem' \in [Stack!Threads -> [Stack!Slots -> BOOLEAN]]
      /\ \A u \in Stack!Threads \ {t} : mem'[u] = mem[u]
      /\ \A s \in Stack!Slots : mem'[t][s] => mem[t][s] /\ s \notin Stack!Burned(a)
  BY <1>4 DEF StackInv, StackTypes
<1>7. FramesFit'
  <2> SUFFICES ASSUME NEW u \in Stack!Threads, NEW k \in 1 .. Len(frames'[u])
               PROVE  Fits(frames[u], k, frames[u][k])'
    BY DEF FramesFit
  <2>1. u # t  BY <1>5
  <2>2. Fits(frames[u], k, frames[u][k])  BY <1>5, <2>1 DEF StackInv, FramesFit
  <2> QED  BY <1>4, <1>5, <2>1, <2>2 DEF Fits, SizeOf, HasInlined
<1>8. SecretsInReach'
  <2> SUFFICES ASSUME NEW u \in Stack!Threads, NEW s \in Stack!Slots, mem'[u][s]
               PROVE  SecretAt(u, s)'
    BY DEF SecretsInReach, Stack!Slots
  <2>1. CASE u # t
    <3>1. SecretAt(u, s)  BY <1>6, <2>1 DEF StackInv, SecretsInReach
    <3> QED  BY <1>5, <2>1, <3>1 DEF SecretAt, Stack!Running
  <2>2. CASE u = t
    <3>1. SecretAt(t, s) /\ s \notin Stack!Burned(a)  BY <1>6, <2>2 DEF StackInv, SecretsInReach
    <3>2. a.end <= s /\ s <= 7  BY <1>3, <3>1 DEF SecretAt
    <3>3. a.end >= 1 /\ a.end \in Nat
      <4>1. SizeOf(a.fn) >= 1 /\ SizeOf(a.fn) \in Nat  BY DEF SizeOf
      <4>2. a.slot \in Nat /\ a.end \in Nat  BY <1>1 DEF Activations
      <4>3. a.end = a.slot + SizeOf(a.fn)  BY <1>2 DEF Fits
      <4> QED  BY <4>1, <4>2, <4>3
    <3>4. s \in Stack!Burned(a)  BY <3>2, <3>3 DEF Stack!Burned, Stack!Slots, Stack!StackAssumption
    <3> QED  BY <3>1, <3>4
  <2> QED  BY <2>1, <2>2
<1>9. WorkersInside'
  <2>1. Stack!Running(t) /\ Stack!Top(t).fn # "fors_sign"
    BY <1>1, <1>2 DEF Stack!Burn, Stack!Wrappers, Stack!Entries
  <2> QED  BY <1>4, <1>5, <2>1, WorkersStay
<1> QED  BY <1>4, <1>5, <1>6, <1>7, <1>8, <1>9 DEF StackInv, StackTypes

LEMMA StackStep == ASSUME Stack!StackAssumption, StackInv, [Stack!Next]_(Stack!vars) PROVE StackInv'
<1>1. CASE UNCHANGED Stack!vars
  BY <1>1 DEF Stack!vars, StackInv, StackTypes, FramesFit, SecretsInReach, WorkersInside, Fits,
              SizeOf, HasInlined, SecretAt, Stack!Running, Stack!Top
<1>2. CASE \E f \in Stack!Entries : Stack!Enter(f)  BY <1>2, StackEnter
<1>3. CASE \E w \in Workers : Stack!Spawn(w)  BY <1>3, StackSpawn
<1>4. CASE \E t \in Stack!Threads : Stack!Call(t) \/ Stack!Return(t) \/ Stack!Burn(t)
  BY <1>4, StackCall, StackReturn, StackBurns
<1> QED  BY <1>1, <1>2, <1>3, <1>4 DEF Stack!Next

LEMMA StackInvIsClean ==
    ASSUME Stack!StackAssumption, StackInv PROVE Stack!NothingLeftBehind
<1>1. ASSUME NEW t \in Stack!Threads, NEW k \in 1 .. Len(frames[t])
      PROVE  LET a == frames[t][k]
             IN  /\ a.fn \in DOMAIN Stack!Calls
                 /\ a.slot < a.end /\ a.end <= DEPTH
                 /\ k > 1 => frames[t][k - 1].slot < a.slot
                 /\ a.fn \in Stack!Wrappers <=> k = 1
  <2> DEFINE a == frames[t][k]
  <2>1. a \in Activations /\ Fits(frames[t], k, a)  BY DEF StackInv, StackTypes, FramesFit
  <2>2. a.fn \in Fns /\ SizeOf(a.fn) \in 1 .. 3 /\ SizeOf(a.fn) <= Need[a.fn]
    <3>1. a.fn \in Fns /\ Need[a.fn] \in 1 .. 8  BY <2>1, NeedBounds DEF Activations
    <3>2. inlined \subseteq Stack!Inlinable  BY DEF StackInv, StackTypes
    <3>3. SizeOf(a.fn) \in 1 .. 3  BY DEF SizeOf
    <3>4. HasInlined(a.fn) => Need[a.fn] >= 3
      BY <3>2 DEF HasInlined, Stack!Inlinable, Need
    <3> QED  BY <3>1, <3>3, <3>4 DEF SizeOf
  <2>3. a.slot < a.end /\ a.end <= DEPTH
    <3>1. a.slot \in Nat /\ a.end \in Nat  BY <2>1 DEF Activations
    <3>2. a.end = a.slot + SizeOf(a.fn) /\ a.slot + Need[a.fn] <= 8  BY <2>1 DEF Fits
    <3>3. Need[a.fn] \in 1 .. 8  BY <2>2, NeedBounds
    <3>4. DEPTH \in Nat /\ DEPTH >= 8  BY DEF Stack!StackAssumption
    <3> DEFINE z == SizeOf(a.fn)
               n == Need[a.fn]
               p == a.slot
               e == a.end
    <3>5. p \in Nat /\ e = p + z /\ p + n <= 8 /\ n \in 1 .. 8 /\ z \in 1 .. 3 /\ z <= n
      BY <2>2, <3>1, <3>2, <3>3
    <3> HIDE DEF z, n, p, e
    <3>6. p < e /\ e <= DEPTH  BY <3>4, <3>5
    <3> QED  BY <3>6 DEF p, e
  <2> QED  BY <2>1, <2>2, <2>3 DEF Fits, Fns
<1>2. Stack!TypeOK
  BY <1>1 DEF Stack!TypeOK, StackInv, StackTypes, WorkersInside
<1>3. ASSUME NEW t \in Stack!Threads, ~Stack!Running(t), NEW s \in Stack!Slots PROVE ~mem[t][s]
  <2>1. Len(frames[t]) = 0  BY <1>3 DEF Stack!Running
  <2> QED  BY <1>3, <2>1 DEF StackInv, SecretsInReach, SecretAt
<1> QED  BY <1>2, <1>3 DEF Stack!NothingLeftBehind

\* Once a public entry point has returned, and once a FORS worker has ended, its stack
\* holds no secret: bitcoin_pqc_burn_stack covers every frame the call used, of every
\* way out and every choice of inlined functions.
THEOREM StackLeftClean ==
    ASSUME Stack!StackAssumption PROVE MemorySpec => []NothingLeftBehind
<1>1. MemoryInit => StackInv  BY StackInitial DEF MemoryInit
<1>2. StackInv /\ [MemoryNext]_<<turn, vars, stackVars>> => StackInv'
  <2> SUFFICES ASSUME StackInv, [MemoryNext]_<<turn, vars, stackVars>> PROVE StackInv'  OBVIOUS
  <2>1. Stack!Next \/ UNCHANGED Stack!vars  BY DEF MemoryNext, stackVars, Stack!vars
  <2> QED  BY <2>1, StackStep
<1>3. StackInv => NothingLeftBehind  BY StackInvIsClean DEF NothingLeftBehind
<1> QED  BY <1>1, <1>2, <1>3, PTL DEF MemorySpec
=============================================================================
