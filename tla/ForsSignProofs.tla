--------------------------- MODULE ForsSignProofs ---------------------------
(***************************************************************************)
(* Proofs about ForsSign for every number of trees, every request and      *)
(* every failure of pthread_create.                                        *)
(***************************************************************************)
EXTENDS ForsSign, TLAPS

N == SPX_FORS_SIG_TREES

\* The share of a worker: at least one tree when there are at least as many
\* trees as workers, all of them for the last worker, and always few enough
\* to leave one tree for each worker that follows.
LEMMA ShareBounds ==
    ASSUME NEW a \in Nat, NEW b \in Nat, b >= 1, a >= b
    PROVE  /\ Share(a, b) \in Nat
           /\ Share(a, b) >= 1
           /\ Share(a, b) <= a
           /\ b - 1 <= a - Share(a, b)
           /\ b = 1 => Share(a, b) = a
  <1> DEFINE q == (a + b - 1) \div b
  <1>1. q \in Int /\ b * q <= a + b - 1 /\ a + b - 1 < b * q + b
    OBVIOUS
  <1>2. q >= 1
    <2>1. SUFFICES ASSUME q <= 0 PROVE FALSE
      BY <1>1
    <2>2. b * q <= 0
      BY <1>1, <2>1
    <2> QED BY <1>1, <2>2
  <1>3. q <= a - b + 1
    <2>1. SUFFICES ASSUME q >= a - b + 2 PROVE FALSE
      BY <1>1
    <2>2. b * q >= b * (a - b + 2)
      BY <1>1, <2>1
    <2>3. b * (a - b + 2) = a + b - 1 + ((b - 1) * (a - b) + 1)
      OBVIOUS
    <2>4. (b - 1) * (a - b) >= 0
      OBVIOUS
    <2> QED BY <1>1, <2>2, <2>3, <2>4
  <1>4. b = 1 => q = a
    BY <1>1
  <1> QED BY <1>1, <1>2, <1>3, <1>4 DEF Share
----------------------------------------------------------------------------
(* The inductive invariant.                                                *)

After == {"scalar", "derive", "ret"}  \* the calling thread has joined

\* A call that has not begun.
Fresh ==
    pc = "idle" =>
        /\ t = 0 /\ start = 0 /\ launched = 0 /\ i = 0 /\ spawn_failed = FALSE
        /\ wpc = [w \in Threads |-> "none"]

\* The launch loop leaves at least one tree for each worker still to start.
LaunchLoop ==
    /\ pc = "launch" => /\ launched = t /\ i = 0 /\ spawn_failed = FALSE
                        /\ t <= workers
                        /\ workers - t <= N - start
                        /\ t = workers => start = N
    /\ pc = "join" => /\ t <= launched /\ i = 0
                      /\ spawn_failed = FALSE => start = N
    /\ pc \in After => start <= i
    /\ pc \in {"derive", "ret"} => i = N

\* The workers that were started, and what they were given.
Ranges ==
    /\ \A w \in Threads : wpc[w] # "none" <=> w < launched
    /\ \A w \in Threads : w < launched =>
          begin[w] <= wi[w] /\ wi[w] <= end[w] /\ end[w] <= start
    /\ \A a, b \in Threads : a < b /\ b < launched => end[a] <= begin[b]
    /\ \A x \in Trees : x < start =>
          \E w \in Threads : w < launched /\ begin[w] <= x /\ x < end[w]

\* A worker ends with its range done; the calling thread goes on when all did.
Joined ==
    /\ \A w \in Threads : wpc[w] = "ended" => wi[w] = end[w]
    /\ pc = "join" => \A w \in Threads : w < t => wpc[w] = "ended"
    /\ pc \in After => \A w \in Threads : wpc[w] # "run"

\* Which trees are signed: the ones the workers and the scalar loop passed.
Passed(x) == \/ \E w \in Threads : w < launched /\ begin[w] <= x /\ x < wi[w]
             \/ pc \in After /\ start <= x /\ x < i
SignedOnce == \A x \in Trees : signed[x] = IF Passed(x) THEN 1 ELSE 0

\* Who may be inside a region: the one thread whose turn that tree is.
InsideOwn ==
    \A x \in Trees : \A w \in inside[x] :
        \/ w = Main /\ pc = "scalar" /\ i = x
        \/ w \in Threads /\ wpc[w] = "run" /\ wi[w] = x /\ x < end[w]

Derived == pk <=> pc = "ret"

Inv == /\ TypeOK /\ Fresh /\ LaunchLoop /\ Ranges /\ Joined /\ SignedOnce
       /\ InsideOwn /\ Derived

\* The invariant holds before the first call.
LEMMA InitInv == Init => Inv
  <1> USE ForsAssumption DEF N
  <1> SUFFICES ASSUME Init PROVE Inv
    OBVIOUS
  <1>1. TypeOK
    <2>1. inside \in [Trees -> SUBSET (Threads \cup {Main})]
      BY DEF Init
    <2>2. /\ begin \in [Threads -> 0 .. N] /\ end \in [Threads -> 0 .. N]
          /\ wi \in [Threads -> 0 .. N] /\ signed \in [Trees -> 0 .. 1]
      BY DEF Init
    <2>3. spawn_failed \in BOOLEAN /\ pk \in BOOLEAN
      BY Zenon DEF Init
    <2>4. wpc \in [Threads -> {"none", "run", "ended"}]
      BY DEF Init
    <2> QED BY <2>1, <2>2, <2>3, <2>4 DEF Init, TypeOK
  <1>2. Fresh /\ LaunchLoop
    BY DEF Init, Fresh, LaunchLoop, After, Threads
  <1>6. Joined
    BY DEF Init, Joined, After, Threads
  <1>7. Derived
    BY DEF Init, Derived
  <1>3. Ranges
    BY DEF Init, Ranges, Threads, Trees
  <1>4. SignedOnce
    BY DEF Init, SignedOnce, Passed, Threads, Trees, After
  <1>5. InsideOwn
    BY DEF Init, InsideOwn, Trees
  <1> QED BY <1>1, <1>2, <1>3, <1>4, <1>5, <1>6, <1>7 DEF Inv

\* Distinct workers have disjoint ranges.
LEMMA OneOwner ==
    ASSUME Inv, NEW a \in Threads, NEW b \in Threads, NEW x \in Trees,
           a < launched, b < launched,
           begin[a] <= x, x < end[a], begin[b] <= x, x < end[b]
    PROVE  a = b
  <1> USE ForsAssumption DEF Threads, Trees
  <1>1. begin[a] \in Int /\ begin[b] \in Int /\ end[a] \in Int /\ end[b] \in Int
    BY DEF Inv, TypeOK
  <1>2. ~(a < b)
    BY <1>1 DEF Inv, Ranges
  <1>3. ~(b < a)
    BY <1>1 DEF Inv, Ranges
  <1> QED BY <1>2, <1>3

\* Calling fors_sign preserves the invariant.
LEMMA CallInv == Inv /\ Call => Inv'
  <1> SUFFICES ASSUME Inv, Call PROVE Inv'
    OBVIOUS
  <1> USE ForsAssumption DEF N
  <1>1. workers' \in 1 .. N
    <2>1. PICK request \in Requests : workers' = 1 \/ workers' = WorkerCount(request)
      BY DEF Call
    <2> QED BY <2>1 DEF WorkerCount
  <1>2. TypeOK'
    BY <1>1 DEF Inv, TypeOK, Call
  <1>3. (Fresh /\ LaunchLoop)'
    BY <1>1 DEF Inv, Fresh, LaunchLoop, Call, After, TypeOK
  <1>4. (Ranges /\ Joined)'
    BY DEF Inv, Fresh, Ranges, Joined, Call, After, TypeOK, Threads
  <1>5. (SignedOnce /\ InsideOwn /\ Derived)'
    BY DEF Inv, Fresh, SignedOnce, Passed, InsideOwn, Derived, Call, After, TypeOK,
       Threads, Trees
  <1> QED BY <1>2, <1>3, <1>4, <1>5 DEF Inv

\* A turn of the launch loop preserves the invariant.
LEMMA LaunchInv == Inv /\ Launch => Inv'
  <1> SUFFICES ASSUME Inv, Launch PROVE Inv'
    OBVIOUS
  <1> USE ForsAssumption DEF N
  <1> DEFINE share == Share(N - start, workers - t)
             to == start + share
  <1>1. /\ pc = "launch" /\ t < workers /\ launched = t /\ i = 0
        /\ t \in Threads /\ start \in 0 .. N /\ workers \in 1 .. N
        /\ workers - t <= N - start
    BY DEF Launch, Inv, TypeOK, LaunchLoop, Threads
  <1>2. /\ share \in Nat /\ share >= 1 /\ share <= N - start
        /\ workers - t - 1 <= N - start - share
        /\ workers - t = 1 => share = N - start
    BY <1>1, ShareBounds DEF Threads
  <1> HIDE DEF share
  <1>3. /\ begin' = [begin EXCEPT ![t] = start]
        /\ end' = [end EXCEPT ![t] = to]
        /\ UNCHANGED <<workers, i, inside, signed, pk>>
    BY DEF Launch, share
  <1>4. to \in 0 .. N
    BY <1>1, <1>2
  <1>5. CASE /\ spawn_failed' = TRUE /\ t' = 0 /\ pc' = "join"
             /\ UNCHANGED <<start, launched, wpc, wi>>
    <2>1. TypeOK'
      BY <1>1, <1>3, <1>4, <1>5 DEF Inv, TypeOK
    <2>2. (Fresh /\ LaunchLoop /\ Derived)'
      BY <1>1, <1>3, <1>5 DEF Inv, Fresh, LaunchLoop, Derived, After, TypeOK
    <2>3. \A w \in Threads : w < launched => begin'[w] = begin[w] /\ end'[w] = end[w]
      BY <1>1, <1>3 DEF Threads, Inv, TypeOK
    <2>4. Ranges'
      BY <2>3, <1>1, <1>5 DEF Inv, Ranges, Threads
    <2>5. Joined'
      BY <2>3, <1>1, <1>5 DEF Inv, Joined, Ranges, Threads, After
    <2>6. SignedOnce'
      BY <2>3, <1>1, <1>3, <1>5 DEF Inv, SignedOnce, Passed, After
    <2>7. InsideOwn'
      BY <2>3, <1>1, <1>3, <1>5 DEF Inv, InsideOwn, Ranges
    <2> QED BY <2>1, <2>2, <2>4, <2>5, <2>6, <2>7 DEF Inv
  <1>6. CASE /\ wpc' = [wpc EXCEPT ![t] = "run"] /\ wi' = [wi EXCEPT ![t] = start]
             /\ launched' = launched + 1 /\ start' = to /\ t' = t + 1
             /\ UNCHANGED <<pc, spawn_failed>>
    <2>1. TypeOK'
      <3>1. t' \in 0 .. N /\ launched' \in 0 .. N /\ start' \in 0 .. N
        BY <1>1, <1>4, <1>6 DEF Threads
      <3>2. /\ begin' \in [Threads -> 0 .. N] /\ end' \in [Threads -> 0 .. N]
            /\ wi' \in [Threads -> 0 .. N]
            /\ wpc' \in [Threads -> {"none", "run", "ended"}]
        BY <1>1, <1>3, <1>4, <1>6 DEF Inv, TypeOK
      <3> QED BY <3>1, <3>2, <1>1, <1>3, <1>6 DEF Inv, TypeOK
    <2>2. (Fresh /\ LaunchLoop /\ Derived)'
      BY <1>1, <1>2, <1>3, <1>6 DEF Inv, Fresh, LaunchLoop, Derived, After, TypeOK
    <2>3. /\ \A w \in Threads : w # t =>
              /\ begin'[w] = begin[w] /\ end'[w] = end[w]
              /\ wi'[w] = wi[w] /\ wpc'[w] = wpc[w]
          /\ begin'[t] = start /\ end'[t] = to /\ wi'[t] = start /\ wpc'[t] = "run"
      BY <1>1, <1>3, <1>6 DEF Inv, TypeOK
    <2>4. Ranges'
      <3>1. \A w \in Threads : wpc'[w] # "none" <=> w < launched'
        BY <2>3, <1>1, <1>6 DEF Inv, Ranges, Threads
      <3>2. \A w \in Threads : w < launched' =>
              begin'[w] <= wi'[w] /\ wi'[w] <= end'[w] /\ end'[w] <= start'
        <4>1. ASSUME NEW w \in Threads, w < launched', w # t
              PROVE  begin'[w] <= wi'[w] /\ wi'[w] <= end'[w] /\ end'[w] <= start'
          <5>1. /\ w < launched /\ begin[w] <= wi[w] /\ wi[w] <= end[w]
                /\ end[w] <= start /\ end[w] \in Int
            BY <4>1, <1>1, <1>6 DEF Inv, Ranges, Threads, TypeOK
          <5> QED BY <5>1, <4>1, <2>3, <1>1, <1>2, <1>6
        <4>2. begin'[t] <= wi'[t] /\ wi'[t] <= end'[t] /\ end'[t] <= start'
          BY <2>3, <1>1, <1>2, <1>4, <1>6
        <4> QED BY <4>1, <4>2
      <3>3. \A a, b \in Threads : a < b /\ b < launched' => end'[a] <= begin'[b]
        BY <2>3, <1>1, <1>6 DEF Inv, Ranges, Threads
      <3>4. ASSUME NEW x \in Trees, x < start'
            PROVE  \E w \in Threads : w < launched' /\ begin'[w] <= x /\ x < end'[w]
        <4>1. CASE x < start
          BY <4>1, <2>3, <1>1, <1>6 DEF Inv, Ranges, Threads
        <4>2. CASE start <= x
          BY <4>2, <3>4, <2>3, <1>1, <1>6 DEF Threads
        <4> QED BY <4>1, <4>2, <1>1 DEF Trees
      <3> QED BY <3>1, <3>2, <3>3, <3>4 DEF Ranges
    <2>5. Joined'
      BY <2>3, <1>1, <1>6 DEF Inv, Joined, Ranges, Threads, After
    <2>6. SignedOnce'
      <3>1. ASSUME NEW x \in Trees PROVE Passed(x)' <=> Passed(x)
        BY <2>3, <1>1, <1>6 DEF Passed, After, Threads, Trees
      <3> QED BY <3>1, <1>3 DEF Inv, SignedOnce
    <2>7. InsideOwn'
      BY <2>3, <1>1, <1>3, <1>6 DEF Inv, InsideOwn, Ranges, Threads
    <2> QED BY <2>1, <2>2, <2>4, <2>5, <2>6, <2>7 DEF Inv
  <1> QED BY <1>5, <1>6 DEF Launch, share

\* The calling thread's steps between its loops preserve the invariant.
LEMMA CallerInv ==
    Inv /\ (LaunchDone \/ Join \/ JoinDone \/ ScalarDone \/ Derive) => Inv'
  <1> SUFFICES ASSUME Inv, LaunchDone \/ Join \/ JoinDone \/ ScalarDone \/ Derive
               PROVE Inv'
    OBVIOUS
  <1> USE ForsAssumption DEF N
  <1>1. UNCHANGED <<workers, start, spawn_failed, launched, begin, end, wpc, wi,
                    inside, signed>>
    BY DEF LaunchDone, Join, JoinDone, ScalarDone, Derive, launch
  <1>2. TypeOK'
    <2>1. pk' \in BOOLEAN
      BY DEF LaunchDone, Join, JoinDone, ScalarDone, Derive, Inv, TypeOK
    <2>2. i' \in 0 .. N /\ t' \in 0 .. N
      BY DEF LaunchDone, Join, JoinDone, ScalarDone, Derive, launch, Inv, TypeOK,
         ScalarStart, ToJoin
    <2>3. pc' \in {"launch", "join", "scalar", "derive", "ret"}
      BY DEF LaunchDone, Join, JoinDone, ScalarDone, Derive
    <2> QED BY <1>1, <2>1, <2>2, <2>3 DEF Inv, TypeOK
  <1>3. (Fresh /\ LaunchLoop)'
    BY <1>1 DEF LaunchDone, Join, JoinDone, ScalarDone, Derive, launch, Inv, TypeOK,
       Fresh, LaunchLoop, After, ScalarStart, ToJoin, AllLaunched
  <1>4. Ranges'
    BY <1>1 DEF Inv, Ranges
  <1>5. Joined'
    <2>1. CASE LaunchDone
      BY <1>1, <2>1 DEF LaunchDone, Inv, Joined, After, Threads
    <2>2. CASE Join
      BY <1>1, <2>2 DEF Join, Inv, Joined, After, Threads, TypeOK
    <2>3. CASE JoinDone
      <3>1. pc = "join" /\ t = launched /\ launched \in Nat
        BY <2>3 DEF JoinDone, ToJoin, Inv, LaunchLoop, TypeOK
      <3>2. ASSUME NEW w \in Threads PROVE wpc[w] # "run"
        <4>1. CASE w < launched
          BY <3>1, <4>1 DEF Inv, Joined
        <4>2. CASE ~(w < launched)
          BY <4>2 DEF Inv, Ranges
        <4> QED BY <4>1, <4>2
      <3>3. pc' # "join"
        BY <2>3 DEF JoinDone
      <3> QED BY <1>1, <3>2, <3>3 DEF Inv, Joined
    <2>4. CASE ScalarDone \/ Derive
      BY <1>1, <2>4 DEF ScalarDone, Derive, Inv, Joined, After
    <2> QED BY <2>1, <2>2, <2>3, <2>4
  <1>6. SignedOnce'
    <2>1. ASSUME NEW x \in Trees PROVE Passed(x)' <=> Passed(x)
      <3>1. CASE LaunchDone \/ Join
        BY <1>1, <3>1 DEF LaunchDone, Join, Passed, After
      <3>2. CASE JoinDone
        BY <1>1, <3>2 DEF JoinDone, Passed, After, ScalarStart, Inv, TypeOK, Trees
      <3>3. CASE ScalarDone \/ Derive
        BY <1>1, <3>3 DEF ScalarDone, Derive, Passed, After
      <3> QED BY <3>1, <3>2, <3>3
    <2> QED BY <1>1, <2>1 DEF Inv, SignedOnce
  <1>7. InsideOwn'
    BY <1>1 DEF LaunchDone, Join, JoinDone, ScalarDone, Derive, Inv, InsideOwn, TypeOK,
       Trees
  <1>8. Derived'
    BY DEF LaunchDone, Join, JoinDone, ScalarDone, Derive, Inv, Derived
  <1> QED BY <1>2, <1>3, <1>4, <1>5, <1>6, <1>7, <1>8 DEF Inv

\* A turn of the scalar loop preserves the invariant.
LEMMA ScalarInv == Inv /\ Scalar => Inv'
  <1> SUFFICES ASSUME Inv, Scalar PROVE Inv'
    OBVIOUS
  <1> USE ForsAssumption DEF N
  <1>1. /\ pc = "scalar" /\ i \in Trees /\ start <= i /\ start \in Int
        /\ UNCHANGED <<pc, workers, t, start, spawn_failed, launched, begin, end, wpc,
                       wi, pk>>
    BY DEF Scalar, Inv, TypeOK, LaunchLoop, After, Trees, launch
  <1>2. CASE Enter(Main, i) /\ UNCHANGED i
    <2>1. inside' \in [Trees -> SUBSET (Threads \cup {Main})] /\ UNCHANGED signed
      BY <1>1, <1>2 DEF Enter, Inv, TypeOK
    <2>2. TypeOK'
      BY <1>1, <1>2, <2>1 DEF Inv, TypeOK
    <2>3. (Fresh /\ LaunchLoop /\ Ranges /\ Joined /\ Derived)'
      BY <1>1, <1>2 DEF Inv, Fresh, LaunchLoop, Ranges, Joined, Derived
    <2>4. SignedOnce'
      BY <1>1, <1>2, <2>1 DEF Inv, SignedOnce, Passed
    <2>5. InsideOwn'
      BY <1>1, <1>2 DEF Inv, InsideOwn, Enter, TypeOK
    <2> QED BY <2>2, <2>3, <2>4, <2>5 DEF Inv
  <1>3. CASE Leave(Main, i) /\ i' = i + 1
    <2>1. ~Passed(i) /\ signed[i] = 0
      <3>1. ASSUME NEW w \in Threads, w < launched PROVE wi[w] <= i
        <4>1. wi[w] <= end[w] /\ end[w] <= start /\ wi[w] \in Int /\ end[w] \in Int
          BY <3>1 DEF Inv, Ranges, TypeOK
        <4> QED BY <4>1, <1>1 DEF Trees
      <3>2. ~Passed(i)
        BY <3>1, <1>1 DEF Passed, Trees, Inv, TypeOK
      <3> QED BY <3>2, <1>1 DEF Inv, SignedOnce
    <2>2. signed' = [signed EXCEPT ![i] = 1]
      BY <1>3, <2>1, <1>1 DEF Leave, Inv, TypeOK
    <2>3. inside' \in [Trees -> SUBSET (Threads \cup {Main})]
      BY <1>1, <1>3 DEF Leave, Inv, TypeOK
    <2>4. i' \in 0 .. N
      BY <1>1, <1>3 DEF Trees
    <2>5. TypeOK'
      <3>1. signed' \in [Trees -> 0 .. 1]
        BY <1>1, <2>2 DEF Inv, TypeOK
      <3> QED BY <1>1, <2>3, <2>4, <3>1 DEF Inv, TypeOK
    <2>6. (Fresh /\ LaunchLoop /\ Ranges /\ Joined /\ Derived)'
      <3>1. (Fresh /\ LaunchLoop)'
        BY <1>1, <1>3 DEF Inv, Fresh, LaunchLoop, After, Trees
      <3> QED BY <3>1, <1>1, <1>3 DEF Inv, Ranges, Joined, Derived
    <2>7. SignedOnce'
      <3>1. ASSUME NEW x \in Trees PROVE Passed(x)' <=> (Passed(x) \/ x = i)
        BY <1>1, <1>3 DEF Passed, After, Trees
      <3> QED BY <3>1, <2>1, <2>2, <1>1 DEF Inv, SignedOnce, TypeOK
    <2>8. InsideOwn'
      <3>1. ASSUME NEW x \in Trees, NEW w \in inside'[x]
            PROVE  w \in Threads /\ wpc[w] = "run"
        BY <1>1, <1>3 DEF Leave, Inv, InsideOwn, TypeOK
      <3> QED BY <3>1, <1>1 DEF Inv, Joined, After, InsideOwn
    <2> QED BY <2>5, <2>6, <2>7, <2>8 DEF Inv
  <1> QED BY <1>2, <1>3 DEF Scalar

\* Returning, and starting the next call on a fresh frame.
LEMMA ReturnInv == Inv /\ Return => Inv'
  <1> SUFFICES ASSUME Return PROVE Inv'
    OBVIOUS
  <1> USE ForsAssumption DEF N
  <1>1. TypeOK'
    <2>1. inside' \in [Trees -> SUBSET (Threads \cup {Main})]
      BY DEF Return
    <2>2. /\ begin' \in [Threads -> 0 .. N] /\ end' \in [Threads -> 0 .. N]
          /\ wi' \in [Threads -> 0 .. N] /\ signed' \in [Trees -> 0 .. 1]
      BY DEF Return
    <2>3. spawn_failed' \in BOOLEAN /\ pk' \in BOOLEAN
      BY Zenon DEF Return
    <2>4. wpc' \in [Threads -> {"none", "run", "ended"}]
      BY DEF Return
    <2> QED BY <2>1, <2>2, <2>3, <2>4 DEF Return, TypeOK
  <1>2. (Fresh /\ LaunchLoop)'
    BY DEF Return, Fresh, LaunchLoop, After, Threads
  <1>3. (Joined /\ Derived)'
    BY DEF Return, Joined, Derived, After, Threads
  <1>4. Ranges'
    BY DEF Return, Ranges, Threads, Trees
  <1>5. SignedOnce'
    BY DEF Return, SignedOnce, Passed, Threads, Trees, After
  <1>6. InsideOwn'
    BY DEF Return, InsideOwn, Trees
  <1> QED BY <1>1, <1>2, <1>3, <1>4, <1>5, <1>6 DEF Inv

\* A worker's turn preserves the invariant: its tree is its own.
LEMMA WorkInv == ASSUME NEW w \in Threads PROVE Inv /\ Work(w) => Inv'
  <1> SUFFICES ASSUME Inv, Work(w) PROVE Inv'
    OBVIOUS
  <1> USE ForsAssumption DEF N
  <1> DEFINE x0 == wi[w]
  <1>1. /\ wpc[w] = "run" /\ w < launched /\ x0 \in Trees
        /\ begin[w] <= x0 /\ x0 < end[w] /\ end[w] <= start
        /\ start \in Int /\ begin[w] \in Int /\ end[w] \in Int
        /\ pc \notin After
    BY DEF Work, Inv, TypeOK, Ranges, Joined, Trees
  <1>2. UNCHANGED <<pc, workers, t, start, spawn_failed, launched, i, begin, end, wpc, pk>>
    BY DEF Work, launch
  <1>3. CASE Enter(w, x0) /\ UNCHANGED wi
    <2>1. inside' \in [Trees -> SUBSET (Threads \cup {Main})] /\ UNCHANGED signed
      BY <1>1, <1>3 DEF Enter, Inv, TypeOK
    <2>2. TypeOK'
      BY <1>2, <1>3, <2>1 DEF Inv, TypeOK
    <2>3. (Fresh /\ LaunchLoop /\ Ranges /\ Joined /\ Derived)'
      BY <1>2, <1>3 DEF Inv, Fresh, LaunchLoop, Ranges, Joined, Derived
    <2>4. SignedOnce'
      BY <1>2, <1>3, <2>1 DEF Inv, SignedOnce, Passed
    <2>5. InsideOwn'
      BY <1>1, <1>2, <1>3 DEF Inv, InsideOwn, Enter, TypeOK
    <2> QED BY <2>2, <2>3, <2>4, <2>5 DEF Inv
  <1>4. CASE Leave(w, x0) /\ wi' = [wi EXCEPT ![w] = x0 + 1]
    <2>1. ~Passed(x0) /\ signed[x0] = 0
      <3>1. SUFFICES ~Passed(x0)
        BY <1>1 DEF Inv, SignedOnce
      <3>2. ASSUME NEW v \in Threads, v < launched, begin[v] <= x0, x0 < wi[v]
            PROVE  FALSE
        <4>1. wi[v] <= end[v] /\ wi[v] \in Int /\ end[v] \in Int
          BY <3>2 DEF Inv, Ranges, TypeOK
        <4>2. x0 < end[v]
          BY <4>1, <3>2, <1>1 DEF Trees
        <4>3. v = w
          BY <4>2, <3>2, <1>1, OneOwner
        <4> QED BY <4>3, <3>2, <1>1 DEF Trees
      <3> QED BY <3>2, <1>1 DEF Passed
    <2>2. signed' = [signed EXCEPT ![x0] = 1]
      BY <1>4, <2>1, <1>1 DEF Leave, Inv, TypeOK
    <2>3. /\ wi'[w] = x0 + 1
          /\ \A v \in Threads : v # w => wi'[v] = wi[v]
      BY <1>4 DEF Inv, TypeOK
    <2>4. TypeOK'
      <3>1. signed' \in [Trees -> 0 .. 1]
        BY <1>1, <2>2 DEF Inv, TypeOK
      <3>2. inside' \in [Trees -> SUBSET (Threads \cup {Main})]
        BY <1>1, <1>4 DEF Leave, Inv, TypeOK
      <3>3. x0 + 1 \in 0 .. N
        BY <1>1 DEF Trees
      <3>4. wi' \in [Threads -> 0 .. N]
        BY <3>3, <1>4 DEF Inv, TypeOK
      <3> QED BY <1>2, <3>1, <3>2, <3>4 DEF Inv, TypeOK
    <2>5. (Fresh /\ LaunchLoop /\ Derived)'
      BY <1>2 DEF Inv, Fresh, LaunchLoop, Derived
    <2>6. Ranges'
      <3>1. ASSUME NEW v \in Threads, v < launched'
            PROVE  begin'[v] <= wi'[v] /\ wi'[v] <= end'[v] /\ end'[v] <= start'
        <4>1. CASE v = w
          BY <4>1, <1>1, <1>2, <2>3 DEF Trees
        <4>2. CASE v # w
          BY <4>2, <3>1, <1>2, <2>3 DEF Inv, Ranges
        <4> QED BY <4>1, <4>2
      <3>2. /\ \A v \in Threads : wpc'[v] # "none" <=> v < launched'
            /\ \A a, b \in Threads : a < b /\ b < launched' => end'[a] <= begin'[b]
            /\ \A x \in Trees : x < start' =>
                 \E v \in Threads : v < launched' /\ begin'[v] <= x /\ x < end'[v]
        BY <1>2 DEF Inv, Ranges
      <3> QED BY <3>1, <3>2 DEF Ranges
    <2>7. Joined'
      BY <1>1, <1>2, <2>3 DEF Inv, Joined
    <2>8. SignedOnce'
      <3>1. ASSUME NEW x \in Trees PROVE Passed(x)' <=> (Passed(x) \/ x = x0)
        <4>1. Passed(x) <=> \E v \in Threads : v < launched /\ begin[v] <= x /\ x < wi[v]
          BY <1>1 DEF Passed
        <4>2. Passed(x)' <=> \E v \in Threads : v < launched /\ begin[v] <= x /\ x < wi'[v]
          BY <1>1, <1>2 DEF Passed
        <4>3. (begin[w] <= x /\ x < wi'[w]) <=> (begin[w] <= x /\ x < wi[w]) \/ x = x0
          BY <1>1, <2>3 DEF Trees
        <4> QED BY <4>1, <4>2, <4>3, <2>3, <1>1
      <3> QED BY <3>1, <2>1, <2>2, <1>1 DEF Inv, SignedOnce, TypeOK
    <2>9. InsideOwn'
      <3>1. ASSUME NEW x \in Trees, NEW v \in inside'[x]
            PROVE  v \in Threads /\ wpc[v] = "run" /\ wi[v] = x /\ x < end[v] /\ v # w
        <4>1. v \in inside[x]
          BY <1>1, <1>4 DEF Leave, Inv, TypeOK
        <4>2. v \in Threads /\ wpc[v] = "run" /\ wi[v] = x /\ x < end[v]
          BY <4>1, <1>1 DEF Inv, InsideOwn, After
        <4>3. v # w
          BY <4>2, <1>1, <1>4 DEF Leave, Inv, TypeOK
        <4> QED BY <4>2, <4>3
      <3> QED BY <3>1, <1>2, <2>3 DEF InsideOwn
    <2> QED BY <2>4, <2>5, <2>6, <2>7, <2>8, <2>9 DEF Inv
  <1> QED BY <1>3, <1>4 DEF Work

\* A worker that ends has passed its whole range.
LEMMA WorkDoneInv == ASSUME NEW w \in Threads PROVE Inv /\ WorkDone(w) => Inv'
  <1> SUFFICES ASSUME Inv, WorkDone(w) PROVE Inv'
    OBVIOUS
  <1> USE ForsAssumption DEF N
  <1>1. UNCHANGED <<pc, workers, t, start, spawn_failed, launched, i, begin, end, wi,
                    inside, signed, pk>>
    BY DEF WorkDone, launch
  <1>2. /\ wpc[w] = "run" /\ wpc'[w] = "ended" /\ wi[w] = end[w]
        /\ \A v \in Threads : v # w => wpc'[v] = wpc[v]
    BY DEF WorkDone, Inv, TypeOK
  <1>3. TypeOK'
    <2>1. wpc' \in [Threads -> {"none", "run", "ended"}]
      BY DEF WorkDone, Inv, TypeOK
    <2> QED BY <1>1, <2>1 DEF Inv, TypeOK
  <1>4. pc # "idle"
    BY <1>2 DEF Inv, Fresh
  <1>5. (Fresh /\ LaunchLoop /\ Derived)'
    BY <1>1, <1>4 DEF Inv, Fresh, LaunchLoop, Derived
  <1>6. Ranges'
    <2>1. \A v \in Threads : wpc'[v] # "none" <=> v < launched
      BY <1>2 DEF Inv, Ranges
    <2> QED BY <1>1, <2>1 DEF Inv, Ranges
  <1>7. Joined'
    BY <1>1, <1>2 DEF Inv, Joined
  <1>8. SignedOnce'
    BY <1>1 DEF Inv, SignedOnce, Passed
  <1>9. InsideOwn'
    <2>1. ASSUME NEW x \in Trees, w \in inside[x] PROVE FALSE
      <3>1. w # Main /\ end[w] \in Int
        BY DEF Threads, Main, Inv, TypeOK
      <3>2. wi[w] = x /\ x < end[w]
        BY <2>1, <3>1 DEF Inv, InsideOwn
      <3> QED BY <3>1, <3>2, <1>2
    <2> QED BY <2>1, <1>1, <1>2 DEF Inv, InsideOwn
  <1> QED BY <1>3, <1>5, <1>6, <1>7, <1>8, <1>9 DEF Inv

\* Every step preserves the invariant.
LEMMA NextInv == Inv /\ [Next]_vars => Inv'
  <1> SUFFICES ASSUME Inv, [Next]_vars PROVE Inv'
    OBVIOUS
  <1>1. CASE Caller
    BY <1>1, CallInv, LaunchInv, CallerInv, ScalarInv, ReturnInv DEF Caller
  <1>2. ASSUME NEW w \in Threads, Worker(w) PROVE Inv'
    BY <1>2, WorkInv, WorkDoneInv DEF Worker
  <1>3. CASE UNCHANGED vars
    BY <1>3 DEF vars, launch, Inv, TypeOK, Fresh, LaunchLoop, Ranges, Joined, SignedOnce,
       Passed, InsideOwn, Derived
  <1> QED BY <1>1, <1>2, <1>3 DEF Next

\* What the invariant says at any moment of any call.
LEMMA SpecInv == Spec => []Inv
  BY InitInv, NextInv, PTL DEF Spec
----------------------------------------------------------------------------
(* The properties.                                                         *)

\* The launch loop never writes past threads[] or args[], and no tree is
\* counted as signed twice, for any number of trees and any SPX_FORS_THREADS.
THEOREM TypeCorrect == Spec => []TypeOK
  <1>1. Inv => TypeOK
    BY DEF Inv
  <1> QED BY <1>1, SpecInv, PTL

\* fors_sign's threads share the signature and roots[] without a lock and
\* never meet in one tree's region.
THEOREM RegionsPrivate == Spec => []NoSharedRegion
  <1>1. ASSUME Inv PROVE NoSharedRegion
    <2> USE ForsAssumption DEF N
    <2> SUFFICES ASSUME NEW x \in Trees
                 PROVE  /\ \A a, b \in inside[x] : a = b
                        /\ inside[x] # {} => signed[x] = 0
                        /\ signed[x] <= 1
      BY DEF NoSharedRegion
    <2>1. ASSUME NEW a \in inside[x], NEW b \in inside[x] PROVE a = b
      <3>1. CASE a = Main \/ b = Main
        <4>1. pc = "scalar"
          BY <1>1, <3>1 DEF Inv, InsideOwn, Threads, Main
        <4> QED BY <1>1, <4>1 DEF Inv, InsideOwn, Joined, After
      <3>2. CASE a # Main /\ b # Main
        <4>1. /\ a \in Threads /\ wpc[a] = "run" /\ wi[a] = x /\ x < end[a]
              /\ b \in Threads /\ wpc[b] = "run" /\ wi[b] = x /\ x < end[b]
          BY <1>1, <3>2 DEF Inv, InsideOwn
        <4>2. a < launched /\ b < launched /\ begin[a] <= x /\ begin[b] <= x
          BY <1>1, <4>1 DEF Inv, Ranges
        <4> QED BY <1>1, <4>1, <4>2, OneOwner
      <3> QED BY <3>1, <3>2
    <2>2. ASSUME NEW a \in inside[x] PROVE ~Passed(x)
      <3>1. CASE a = Main /\ pc = "scalar" /\ i = x
        <4>1. ASSUME NEW w \in Threads, w < launched PROVE wi[w] <= x
          <5>1. /\ wi[w] <= end[w] /\ end[w] <= start /\ start <= x
                /\ wi[w] \in Int /\ end[w] \in Int /\ start \in Int /\ x \in Int
            BY <1>1, <3>1, <4>1 DEF Inv, Ranges, LaunchLoop, After, TypeOK, Trees
          <5> QED BY <5>1
        <4> QED BY <1>1, <3>1, <4>1 DEF Passed, Inv, TypeOK, Trees
      <3>2. CASE a \in Threads /\ wpc[a] = "run" /\ wi[a] = x /\ x < end[a]
        <4>1. a < launched /\ begin[a] <= x /\ pc \notin After
          BY <1>1, <3>2 DEF Inv, Ranges, Joined
        <4>2. ASSUME NEW w \in Threads, w < launched, begin[w] <= x, x < wi[w]
              PROVE  FALSE
          <5>1. wi[w] <= end[w] /\ wi[w] \in Int /\ end[w] \in Int
            BY <1>1, <4>2 DEF Inv, Ranges, TypeOK
          <5>2. x < end[w]
            BY <5>1, <4>2 DEF Trees
          <5>3. w = a
            BY <1>1, <3>2, <4>1, <4>2, <5>2, OneOwner
          <5> QED BY <5>3, <3>2, <4>2 DEF Trees
        <4> QED BY <4>1, <4>2 DEF Passed
      <3> QED BY <1>1, <3>1, <3>2 DEF Inv, InsideOwn
    <2>3. signed[x] = 0 \/ signed[x] = 1
      BY <1>1 DEF Inv, TypeOK
    <2>4. inside[x] # {} => signed[x] = 0
      BY <1>1, <2>2 DEF Inv, SignedOnce
    <2> QED BY <2>1, <2>3, <2>4
  <1> QED BY <1>1, SpecInv, PTL

\* When the roots are complete: used for RootsReady and the refinement.
LEMMA AllSigned ==
    ASSUME Inv, pc \in {"derive", "ret"}, NEW x \in Trees
    PROVE  signed[x] = 1 /\ inside[x] = {}
  <1> USE ForsAssumption DEF N
  <1>1. /\ i = SPX_FORS_SIG_TREES /\ x \in Int /\ x < i /\ start \in Int
        /\ \A w \in Threads : wpc[w] # "run"
    BY DEF Inv, LaunchLoop, Joined, After, Trees, TypeOK
  <1>2. Passed(x)
    <2>1. CASE start <= x
      BY <2>1, <1>1 DEF Passed, After
    <2>2. CASE x < start
      <3>1. PICK w \in Threads : w < launched /\ begin[w] <= x /\ x < end[w]
        BY <2>2 DEF Inv, Ranges
      <3>2. wpc[w] = "ended"
        BY <3>1, <1>1 DEF Inv, Ranges, TypeOK
      <3>3. wi[w] = end[w]
        BY <3>2 DEF Inv, Joined
      <3> QED BY <3>1, <3>3 DEF Passed
    <2> QED BY <2>1, <2>2, <1>1
  <1>3. signed[x] = 1
    BY <1>2 DEF Inv, SignedOnce
  <1>4. inside[x] = {}
    BY <1>1 DEF Inv, InsideOwn
  <1> QED BY <1>3, <1>4

\* fors_sign never hashes a root that is missing or still being written,
\* whichever pthread_create fails.
THEOREM RootsAlwaysReady == Spec => []RootsReady
  <1>1. Inv => RootsReady
    BY AllSigned DEF RootsReady
  <1> QED BY <1>1, SpecInv, PTL

\* No worker touches threads[], args[] or roots[] after fors_sign is past the
\* block that owns them.
THEOREM WorkersStayInFrame == Spec => []NoWorkerOutlivesFrame
  <1>1. ASSUME Inv PROVE NoWorkerOutlivesFrame
    BY <1>1 DEF NoWorkerOutlivesFrame, Inv, TypeOK, Fresh, Joined, After
  <1> QED BY <1>1, SpecInv, PTL

\* Leaving the region of an unsigned tree is the abstract step that signs it.
LEMMA LeaveSigns ==
    ASSUME NEW x \in Trees, TypeOK, TypeOK', signed' = [signed EXCEPT ![x] = @ + 1],
           pk = FALSE, UNCHANGED pk
    PROVE  Promise!Next
  <1>0. signed[x] = 0
    <2>1. signed[x] \in 0 .. 1 /\ signed'[x] \in 0 .. 1 /\ signed'[x] = signed[x] + 1
      BY DEF TypeOK
    <2> QED BY <2>1
  <1>1. signed' = [signed EXCEPT ![x] = 1]
    BY <1>0 DEF TypeOK
  <1>2. Promise!Sign(x)
    BY <1>0, <1>1 DEF Promise!Sign
  <1> QED BY <1>2 DEF Promise!Next

\* Every step of fors_sign and its workers is a step of the promise or none.
LEMMA StepSimulates == Inv /\ Inv' /\ [Next]_vars => [Promise!Next]_(Promise!vars)
  <1> SUFFICES ASSUME Inv, Inv', [Next]_vars
               PROVE  Promise!Next \/ UNCHANGED Promise!vars
    BY Zenon
  <1>1. ASSUME UNCHANGED <<signed, pk>> PROVE UNCHANGED Promise!vars
    BY <1>1 DEF Promise!vars
  <1>2. CASE Call \/ Launch \/ LaunchDone \/ Join \/ JoinDone \/ ScalarDone
    BY <1>1, <1>2 DEF Call, Launch, LaunchDone, Join, JoinDone, ScalarDone
  <1>3. CASE Scalar
    <2>1. CASE Enter(Main, i)
      BY <1>1, <1>3, <2>1 DEF Scalar, Enter
    <2>2. CASE Leave(Main, i)
      <3>1. i \in Trees /\ pk = FALSE /\ UNCHANGED pk
        BY <1>3, ForsAssumption DEF Scalar, Inv, TypeOK, Trees, Derived
      <3>2. signed' = [signed EXCEPT ![i] = @ + 1]
        BY <2>2 DEF Leave
      <3> QED BY <3>1, <3>2, LeaveSigns DEF Inv
    <2> QED BY <1>3, <2>1, <2>2 DEF Scalar
  <1>4. CASE Derive
    <2>1. \A x \in Trees : signed[x] = 1
      BY <1>4, AllSigned DEF Derive
    <2>2. pk = FALSE /\ pk' = TRUE /\ UNCHANGED signed
      BY <1>4 DEF Derive, Inv, Derived, TypeOK
    <2>3. Promise!Derive
      BY <2>1, <2>2 DEF Promise!Derive
    <2> QED BY <2>3 DEF Promise!Next
  <1>5. CASE Return
    <2>1. pk /\ pk' = FALSE
      BY <1>5 DEF Return, Inv, Derived
    <2>2. signed' = Promise!Unsigned
      BY <1>5 DEF Return, Promise!Unsigned
    <2>3. Promise!Again
      BY <2>1, <2>2 DEF Promise!Again
    <2> QED BY <2>3 DEF Promise!Next
  <1>6. ASSUME NEW w \in Threads, Work(w)
        PROVE  Promise!Next \/ UNCHANGED Promise!vars
    <2>1. CASE Enter(w, wi[w])
      BY <1>1, <1>6, <2>1 DEF Work, Enter
    <2>2. CASE Leave(w, wi[w])
      <3>1. wi[w] \in Trees /\ pk = FALSE /\ UNCHANGED pk
        BY <1>6, ForsAssumption DEF Work, Inv, TypeOK, Trees, Derived, Joined, After
      <3>2. signed' = [signed EXCEPT ![wi[w]] = @ + 1]
        BY <2>2 DEF Leave
      <3> QED BY <3>1, <3>2, LeaveSigns DEF Inv
    <2> QED BY <1>6, <2>1, <2>2 DEF Work
  <1>7. ASSUME NEW w \in Threads, WorkDone(w) PROVE UNCHANGED Promise!vars
    BY <1>1, <1>7 DEF WorkDone
  <1>8. CASE UNCHANGED vars
    BY <1>1, <1>8 DEF vars
  <1> QED BY <1>2, <1>3, <1>4, <1>5, <1>6, <1>7, <1>8 DEF Next, Caller, Worker

\* fors_sign keeps its promise for every number of trees and workers and every
\* interleaving: each tree signed once, the public key derived after the last.
THEOREM KeepsPromise == Spec => PromiseSpec
  <1>1. Init => Promise!Init
    BY DEF Init, Promise!Init, Promise!Unsigned
  <1>2. Inv /\ Inv' /\ [Next]_vars => [Promise!Next]_(Promise!vars)
    BY StepSimulates
  <1> QED BY <1>1, <1>2, SpecInv, PTL DEF Spec, PromiseSpec, Promise!Spec

=============================================================================
