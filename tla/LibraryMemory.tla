--------------------------- MODULE LibraryMemory ---------------------------
(***************************************************************************)
(* What the library leaves in memory: on the heap and on the stacks.  The  *)
(* two share no state, so a behaviour is of one or of the other.           *)
(***************************************************************************)
EXTENDS KeyHeap

CONSTANTS Main, Workers, BURN, DEPTH

VARIABLES turn, inlined, frames, mem, spawned

stackVars == <<inlined, frames, mem, spawned>>

Stack == INSTANCE StackBurn

MemoryInit ==
    /\ turn \in {"heap", "stack"}
    /\ Init
    /\ Stack!Init
    /\ turn = "heap" => inlined = {}

MemoryNext ==
    \/ turn = "heap" /\ Next /\ UNCHANGED <<turn, stackVars>>
    \/ turn = "stack" /\ Stack!Next /\ UNCHANGED <<turn, vars>>

MemorySpec == MemoryInit /\ [][MemoryNext]_<<turn, vars, stackVars>>

\* Once a public entry point has returned, and once a FORS worker has ended, its
\* stack holds no secret, whichever functions the build inlined and whichever step
\* failed: bitcoin_pqc_burn_stack runs once on every return, deep enough, below
\* every frame that held one.
NothingLeftBehind == Stack!NothingLeftBehind
=============================================================================
