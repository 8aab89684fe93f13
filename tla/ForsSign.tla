------------------------------ MODULE ForsSign ------------------------------
(***************************************************************************)
(* fors_sign (sphincsplus/ref/fors.c) with its worker threads.             *)
(*                                                                         *)
(* The calling thread cuts the trees into consecutive ranges, one per      *)
(* worker, starts a pthread on each, joins the ones it started, and signs  *)
(* by itself whatever no worker was started for.  Every worker writes into *)
(* the caller's signature and into the roots array on the caller's stack,  *)
(* through an args element on that stack, and no lock protects them.       *)
(*                                                                         *)
(* Signing a tree takes two actions, entering its region and leaving it,   *)
(* so that two threads inside one region at once is a state.  A build with *)
(* AVX2, or without run-time knobs, signs every tree on the calling        *)
(* thread.                                                                 *)
(***************************************************************************)
EXTENDS Integers

CONSTANTS
    SPX_FORS_SIG_TREES,
    Requests,                         \* SPX_FORS_THREADS, 0 if unset or no number
    UINT32_MODULUS                    \* 2^32: strtoul's result is cut to uint32_t

ASSUME ForsAssumption ==
    /\ SPX_FORS_SIG_TREES \in Nat \ {0}
    /\ UINT32_MODULUS \in Nat \ {0}
    /\ SPX_FORS_SIG_TREES < UINT32_MODULUS
    /\ Requests \subseteq Nat

Trees   == 0 .. SPX_FORS_SIG_TREES - 1
Threads == 0 .. SPX_FORS_SIG_TREES - 1     \* the elements of threads[] and args[]

VARIABLES
    pc,                               \* the calling thread
    workers, t, start, spawn_failed,  \* its launch loop
    launched,                         \* threads started
    i,                                \* its scalar loop
    begin, end,                       \* args[].begin and args[].end
    wpc, wi,                          \* each worker: where it is, its tree
    inside,                           \* who is writing each tree's region
    signed,                           \* how often each tree has been signed
    pk                                \* was pk derived from SPX_FORS_SIG_TREES roots?

launch == <<workers, t, start, spawn_failed, launched>>
vars == <<pc, launch, i, begin, end, wpc, wi, inside, signed, pk>>

Main == SPX_FORS_SIG_TREES            \* the calling thread, in inside

----------------------------------------------------------------------------
\* Faulty variant: more workers than trees.
WorkerCount_Unclamped(request) == IF request > 1 THEN request ELSE 1

\* fors_sign_worker_count: the request cut to 32 bits, then clamped.
WorkerCount(request) ==
    LET w == IF request > 0 THEN request % UINT32_MODULUS ELSE 1
    IN  IF w > SPX_FORS_SIG_TREES THEN SPX_FORS_SIG_TREES
        ELSE IF w = 0 THEN 1 ELSE w

\* (remaining_trees + remaining_workers - 1) / remaining_workers
Share(trees, ws) == (trees + ws - 1) \div ws

Init ==
    /\ pc = "idle"
    /\ workers = 1 /\ t = 0 /\ start = 0 /\ spawn_failed = FALSE /\ launched = 0
    /\ i = 0
    /\ begin = [w \in Threads |-> 0] /\ end = [w \in Threads |-> 0]
    /\ wpc = [w \in Threads |-> "none"] /\ wi = [w \in Threads |-> 0]
    /\ inside = [x \in Trees |-> {}]
    /\ signed = [x \in Trees |-> 0]
    /\ pk = FALSE

\* fors_sign is called: AVX2 and a single worker take the loop on this thread.
Call ==
    /\ pc = "idle"
    /\ \E request \in Requests, avx2 \in BOOLEAN :
         /\ workers' = IF avx2 THEN 1 ELSE WorkerCount(request)
         /\ pc' = IF workers' > 1 THEN "launch" ELSE "scalar"
    /\ UNCHANGED <<t, start, spawn_failed, launched, i, begin, end, wpc, wi,
                   inside, signed, pk>>

\* One turn of the launch loop.  pthread_create may fail; the loop then ends.
Launch ==
    /\ pc = "launch"
    /\ t < workers
    /\ LET to == start + Share(SPX_FORS_SIG_TREES - start, workers - t)
       IN  /\ begin' = [begin EXCEPT ![t] = start]
           /\ end' = [end EXCEPT ![t] = to]
           /\ \/ /\ spawn_failed' = TRUE
                 /\ t' = 0
                 /\ pc' = "join"
                 /\ UNCHANGED <<start, launched, wpc, wi>>
              \/ /\ wpc' = [wpc EXCEPT ![t] = "run"]
                 /\ wi' = [wi EXCEPT ![t] = start]
                 /\ launched' = launched + 1
                 /\ start' = to
                 /\ t' = t + 1
                 /\ UNCHANGED <<pc, spawn_failed>>
    /\ UNCHANGED <<workers, i, inside, signed, pk>>

LaunchDone ==
    /\ pc = "launch"
    /\ t = workers
    /\ t' = 0
    /\ pc' = "join"
    /\ UNCHANGED <<workers, start, spawn_failed, launched, i, begin, end, wpc, wi,
                   inside, signed, pk>>

\* Faulty variants: the last worker is not waited for; threads that were
\* never started are.
ToJoin_OneShort == t + 1 < launched
ToJoin_NeverStarted == t < workers

ToJoin == t < launched

\* pthread_join blocks until the worker has ended.
Join ==
    /\ pc = "join"
    /\ ToJoin
    /\ wpc[t] = "ended"
    /\ t' = t + 1
    /\ UNCHANGED <<pc, workers, start, spawn_failed, launched, i, begin, end, wpc,
                   wi, inside, signed, pk>>

\* Faulty variant: the calling thread starts over from the first tree.
ScalarStart_First == 0

ScalarStart == start

\* Faulty variant: a failed pthread_create is ignored.
AllLaunched_Ignored == TRUE

AllLaunched == ~spawn_failed /\ start = SPX_FORS_SIG_TREES

JoinDone ==
    /\ pc = "join"
    /\ ~ToJoin
    /\ i' = ScalarStart
    /\ pc' = IF AllLaunched THEN "derive" ELSE "scalar"
    /\ UNCHANGED <<launch, begin, end, wpc, wi, inside, signed, pk>>

\* fors_sign_tree: thread who enters the region of tree x, and leaves it.
Enter(who, x) == /\ inside' = [inside EXCEPT ![x] = @ \cup {who}]
                 /\ UNCHANGED signed
Leave(who, x) == /\ inside' = [inside EXCEPT ![x] = @ \ {who}]
                 /\ signed' = [signed EXCEPT ![x] = @ + 1]

\* The scalar loop from scalar_start.
Scalar ==
    /\ pc = "scalar"
    /\ i < SPX_FORS_SIG_TREES
    /\ \/ /\ Main \notin inside[i]
          /\ Enter(Main, i)
          /\ UNCHANGED i
       \/ /\ Main \in inside[i]
          /\ Leave(Main, i)
          /\ i' = i + 1
    /\ UNCHANGED <<pc, launch, begin, end, wpc, wi, pk>>

ScalarDone ==
    /\ pc = "scalar"
    /\ i = SPX_FORS_SIG_TREES
    /\ pc' = "derive"
    /\ UNCHANGED <<launch, i, begin, end, wpc, wi, inside, signed, pk>>

\* thash over roots; the signature is handed back.
Derive ==
    /\ pc = "derive"
    /\ pk' = TRUE
    /\ pc' = "ret"
    /\ UNCHANGED <<launch, i, begin, end, wpc, wi, inside, signed>>

\* The next call, on a fresh frame and buffer.
Return ==
    /\ pc = "ret"
    /\ pc' = "idle"
    /\ workers' = 1 /\ t' = 0 /\ start' = 0 /\ spawn_failed' = FALSE /\ launched' = 0
    /\ i' = 0
    /\ begin' = [w \in Threads |-> 0] /\ end' = [w \in Threads |-> 0]
    /\ wpc' = [w \in Threads |-> "none"] /\ wi' = [w \in Threads |-> 0]
    /\ inside' = [x \in Trees |-> {}]
    /\ signed' = [x \in Trees |-> 0]
    /\ pk' = FALSE

\* Faulty variant: args[].end taken as the last tree instead of the one past it.
Work_Inclusive(w) ==
    /\ wpc[w] = "run"
    /\ wi[w] <= end[w] /\ wi[w] \in Trees
    /\ \/ /\ w \notin inside[wi[w]]
          /\ Enter(w, wi[w])
          /\ UNCHANGED wi
       \/ /\ w \in inside[wi[w]]
          /\ Leave(w, wi[w])
          /\ wi' = [wi EXCEPT ![w] = @ + 1]
    /\ UNCHANGED <<pc, launch, i, begin, end, wpc, pk>>

\* fors_sign_worker: its trees one by one, then its stack, then it ends.
Work(w) ==
    /\ wpc[w] = "run"
    /\ wi[w] < end[w]
    /\ \/ /\ w \notin inside[wi[w]]
          /\ Enter(w, wi[w])
          /\ UNCHANGED wi
       \/ /\ w \in inside[wi[w]]
          /\ Leave(w, wi[w])
          /\ wi' = [wi EXCEPT ![w] = @ + 1]
    /\ UNCHANGED <<pc, launch, i, begin, end, wpc, pk>>

WorkDone(w) ==
    /\ wpc[w] = "run"
    /\ wi[w] = end[w]
    /\ wpc' = [wpc EXCEPT ![w] = "ended"]
    /\ UNCHANGED <<pc, launch, i, begin, end, wi, inside, signed, pk>>

Caller == \/ Call \/ Launch \/ LaunchDone \/ Join \/ JoinDone
          \/ Scalar \/ ScalarDone \/ Derive \/ Return

Worker(w) == Work(w) \/ WorkDone(w)

Next == Caller \/ \E w \in Threads : Worker(w)

Spec == Init /\ [][Next]_vars

\* The scheduler runs the calling thread and every worker that was started.
FairSpec == Spec /\ WF_vars(Caller) /\ \A w \in Threads : WF_vars(Worker(w))
----------------------------------------------------------------------------
(* Properties                                                              *)

\* Every variable holds a value of its kind: the launch loop stays inside
\* threads[] and args[], both of SPX_FORS_SIG_TREES elements.
TypeOK ==
    /\ pc \in {"idle", "launch", "join", "scalar", "derive", "ret"}
    /\ workers \in 1 .. SPX_FORS_SIG_TREES
    /\ t \in 0 .. SPX_FORS_SIG_TREES
    /\ start \in 0 .. SPX_FORS_SIG_TREES
    /\ spawn_failed \in BOOLEAN
    /\ launched \in 0 .. SPX_FORS_SIG_TREES
    /\ i \in 0 .. SPX_FORS_SIG_TREES
    /\ begin \in [Threads -> 0 .. SPX_FORS_SIG_TREES]
    /\ end \in [Threads -> 0 .. SPX_FORS_SIG_TREES]
    /\ wpc \in [Threads -> {"none", "run", "ended"}]
    /\ wi \in [Threads -> 0 .. SPX_FORS_SIG_TREES]
    /\ inside \in [Trees -> SUBSET (Threads \cup {Main})]
    /\ signed \in [Trees -> 0 .. 1]
    /\ pk \in BOOLEAN

\* No two threads are ever in the region and root slot of one tree, and
\* nobody enters those of a tree that is already signed.
NoSharedRegion ==
    \A x \in Trees :
        /\ \A a, b \in inside[x] : a = b
        /\ inside[x] # {} => signed[x] = 0
        /\ signed[x] <= 1

\* When the calling thread hashes the roots, every tree has been signed and
\* nobody is still writing one, however many threads could not be started.
RootsReady ==
    pc \in {"derive", "ret"} => \A x \in Trees : signed[x] = 1 /\ inside[x] = {}

\* No worker runs once the calling thread has left the block that holds
\* threads[] and args[].
NoWorkerOutlivesFrame ==
    \A w \in Threads : wpc[w] = "run" => pc \in {"launch", "join"}

\* fors_sign with any number of workers does what it promises: whoever signs a
\* tree, it was not signed before in this call, no root is written once the public
\* key is derived, and the key is derived from all of them.  The counts are those
\* of ForsSign, so signing a tree again is no step of the promise.
Promise == INSTANCE ForsPromise WITH derived <- pk
PromiseSpec == Promise!Spec

\* Every call returns, also when no thread or only some could be started.
CallReturns == pc = "launch" ~> pc = "ret"

=============================================================================
