----------------------------- MODULE StackBurn -----------------------------
(***************************************************************************)
(* What the library's calls leave on the stack.  Secrets are in locals;    *)
(* some functions overwrite theirs (secure_zero.h) before they return,     *)
(* others (the SHA-2 compression functions, the leaf callbacks) leave them *)
(* in frames that are merely released.  Every public entry point that      *)
(* handles a secret key is therefore a wrapper: it calls its               *)
(* implementation and then bitcoin_pqc_burn_stack, which overwrites BURN   *)
(* bytes below the wrapper's own frame.  A FORS worker burns its own stack.*)
(*                                                                         *)
(* The compiler may put the frame of a function into its caller's when     *)
(* both are in one source file; a local in such a frame is out of the      *)
(* burn's reach, and only its own overwriting removes it.  Which calls are *)
(* inlined is fixed at build time, and every choice is checked.            *)
(*                                                                         *)
(* A stack is an array of slots that grows upwards from 0; a function's    *)
(* locals take one slot.  slh_dsa_verify handles no secret and has no      *)
(* wrapper.                                                                *)
(***************************************************************************)
EXTENDS Integers, Sequences

CONSTANTS
    Main,         \* the calling thread
    Workers,      \* threads that fors_sign may start
    BURN,         \* BITCOIN_PQC_BURN_STACK_BYTES, in slots
    DEPTH         \* slots of a stack

\* The burn reaches to the bottom of the deepest call (key generation), and so does
\* the stack.
StackAssumption ==
    /\ Main \notin Workers
    /\ BURN \in Nat /\ BURN >= 7
    /\ DEPTH \in Nat /\ DEPTH >= 8

Threads == {Main} \cup Workers
Slots   == 0 .. DEPTH - 1

VARIABLES
    inlined,      \* <<caller, callee>> pairs that share a frame in this build
    frames,       \* the active functions of each thread
    mem,          \* each thread's stack: does the slot hold a secret?
    spawned       \* the workers that the running fors_sign has started

vars == <<inlined, frames, mem, spawned>>

----------------------------------------------------------------------------
(***************************************************************************)
(* The functions, with what they call, in order, as far as it handles      *)
(* secrets.  merkle_sign stands for the hypertree computation below it up  *)
(* to the leaf callbacks, compress for every SHA-2 function.               *)
(***************************************************************************)
Calls == [
    slh_dsa_keygen              |-> <<"keygen_impl">>,
    slh_dsa_secret_key_validate |-> <<"validate_unburned">>,
    slh_dsa_derandomize         |-> <<"derandomize_unburned">>,
    slh_dsa_sign_with_stats     |-> <<"sign_impl">>,
    keygen_impl                 |-> <<"derive_keygen_seed_v1", "crypto_sign_seed_keypair">>,
    derive_keygen_seed_v1       |-> <<"compress">>,
    crypto_sign_seed_keypair    |-> <<"merkle_sign">>,
    validate_unburned           |-> <<"merkle_sign">>,
    derandomize_unburned        |-> <<"compress">>,
    sign_impl                   |-> <<"validate_unburned", "derandomize_unburned",
                                      "crypto_sign_signature">>,
    crypto_sign_signature       |-> <<"gen_message_random", "fors_sign", "merkle_sign">>,
    gen_message_random          |-> <<"compress">>,
    fors_sign                   |-> <<"fors_sign_tree">>,
    fors_sign_worker            |-> <<"fors_sign_tree">>,
    fors_sign_tree              |-> <<"prf_addr">>,
    merkle_sign                 |-> <<"wots_gen_leaf">>,
    wots_gen_leaf               |-> <<"prf_addr">>,
    prf_addr                    |-> <<"compress">>,
    compress                    |-> <<>>]

Entries  == {"slh_dsa_keygen", "slh_dsa_secret_key_validate", "slh_dsa_derandomize",
             "slh_dsa_sign_with_stats"}
Wrappers == Entries \cup {"fors_sign_worker"}

\* The functions with a secret among their locals.
Holds ==
    {"keygen_impl", "derive_keygen_seed_v1", "crypto_sign_seed_keypair",
     "validate_unburned", "derandomize_unburned", "sign_impl", "crypto_sign_signature",
     "gen_message_random", "prf_addr", "wots_gen_leaf", "compress"}

\* Those that overwrite it on every way out.
Wipes == Holds \ {"wots_gen_leaf", "compress"}

\* A function holds its secret from its start, or from the call that returns it
\* (seed of key generation, deterministic_seed of signing).
HoldsAfter == [f \in Holds |-> IF f = "keygen_impl" THEN 1 ELSE IF f = "sign_impl" THEN 2 ELSE 0]

\* Functions with a way out before their last call: derive_keygen_seed_v1 without
\* memory, the others when a step failed; fors_sign when workers took all trees.
EarlyReturns ==
    {"derive_keygen_seed_v1", "keygen_impl", "sign_impl", "crypto_sign_signature", "fors_sign"}

\* Callers and callees in one source file; merkle_sign, the leaf callbacks, the hash
\* functions and crypto_sign_* are each in another than their callers.
Inlinable ==
    {<<"slh_dsa_keygen", "keygen_impl">>, <<"keygen_impl", "derive_keygen_seed_v1">>,
     <<"slh_dsa_secret_key_validate", "validate_unburned">>,
     <<"slh_dsa_derandomize", "derandomize_unburned">>,
     <<"slh_dsa_sign_with_stats", "sign_impl">>,
     <<"fors_sign", "fors_sign_tree">>, <<"fors_sign_worker", "fors_sign_tree">>}

\* Slots of a function's frame, with those of the functions inlined into it.
FrameSize[f \in DOMAIN Calls] ==
    IF Calls[f] # <<>> /\ <<f, Calls[f][1]>> \in inlined
    THEN 1 + FrameSize[Calls[f][1]] ELSE 1

----------------------------------------------------------------------------
Running(t) == frames[t] # <<>>
Top(t)     == frames[t][Len(frames[t])]
Activation(f, slot, end) == [fn |-> f, slot |-> slot, end |-> end, next |-> 1]

\* f starts on thread t, its locals at slot.
Start(t, a) ==
    /\ frames' = [frames EXCEPT ![t] = Append(@, a)]
    /\ mem' = IF a.fn \in Holds /\ HoldsAfter[a.fn] = 0
              THEN [mem EXCEPT ![t][a.slot] = TRUE] ELSE mem

Enter(f) ==
    /\ ~Running(Main)
    /\ Start(Main, Activation(f, 0, FrameSize[f]))
    /\ UNCHANGED <<inlined, spawned>>

\* A worker's stack is a new one.
Spawn(w) ==
    /\ Running(Main) /\ Top(Main).fn = "fors_sign" /\ Top(Main).next = 1
    /\ w \notin spawned
    /\ spawned' = spawned \cup {w}
    /\ Start(w, Activation("fors_sign_worker", 0, FrameSize["fors_sign_worker"]))
    /\ UNCHANGED inlined

\* fors_sign goes on, by itself or back to its caller, once its workers have ended.
Joined(t) == Top(t).fn = "fors_sign" => \A w \in Workers : ~Running(w)

Call(t) ==
    /\ Running(t) /\ Joined(t)
    /\ LET a == Top(t)
       IN  /\ a.next <= Len(Calls[a.fn])
           /\ LET f == Calls[a.fn][a.next]
              IN  Start(t, IF <<a.fn, f>> \in inlined
                           THEN Activation(f, a.slot + 1, a.end)
                           ELSE Activation(f, a.end, a.end + FrameSize[f]))
    /\ UNCHANGED <<inlined, spawned>>

\* A function overwrites its locals, if it does so at all, and returns.  What it
\* returned may be a secret that the caller now holds.
Return(t) ==
    /\ Running(t) /\ Joined(t)
    /\ Top(t).fn \notin Wrappers
    /\ Top(t).fn \in EarlyReturns \/ Top(t).next > Len(Calls[Top(t).fn])
    /\ LET a      == Top(t)
           depth  == Len(frames[t])
           caller == frames[t][depth - 1]
           wiped  == [mem[t] EXCEPT ![a.slot] = @ /\ a.fn \notin Wipes]
           given  == caller.fn \in Holds /\ HoldsAfter[caller.fn] = caller.next
           left   == [SubSeq(frames[t], 1, depth - 1) EXCEPT ![depth - 1].next = @ + 1]
       IN  /\ frames' = [frames EXCEPT ![t] = left]
           /\ mem' = [mem EXCEPT ![t] =
                         IF given THEN [wiped EXCEPT ![caller.slot] = TRUE] ELSE wiped]
           /\ spawned' = IF a.fn = "fors_sign" THEN {} ELSE spawned
    /\ UNCHANGED inlined

\* Faulty variant: the burn is inlined, so that its scratch array is part of the
\* wrapper's frame, beside the frames it should overwrite.
Burned_Inlined(a) == {}

\* The burn's frame starts where the wrapper's ends: it must not be inlined.
Burned(a) == a.end .. a.end + BURN - 1

\* The wrapper's last step: bitcoin_pqc_burn_stack, then back to the caller.
Burn(t) ==
    /\ Running(t)
    /\ LET a == Top(t)
       IN  /\ a.fn \in Wrappers /\ a.next > Len(Calls[a.fn])
           /\ mem' = [mem EXCEPT ![t] = [s \in Slots |-> @[s] /\ s \notin Burned(a)]]
    /\ frames' = [frames EXCEPT ![t] = <<>>]
    /\ UNCHANGED <<inlined, spawned>>

Init ==
    /\ inlined \in SUBSET Inlinable
    /\ frames = [t \in Threads |-> <<>>]
    /\ mem = [t \in Threads |-> [s \in Slots |-> FALSE]]
    /\ spawned = {}

Next ==
    \/ \E f \in Entries : Enter(f)
    \/ \E w \in Workers : Spawn(w)
    \/ \E t \in Threads : Call(t) \/ Return(t) \/ Burn(t)

Spec == Init /\ [][Next]_vars

----------------------------------------------------------------------------
\* Frames lie inside the stack and in the order of the calls, a wrapper is at the
\* bottom of its thread and nowhere else (one burn for the whole call), and workers
\* run only while fors_sign does.
TypeOK ==
    /\ inlined \subseteq Inlinable
    /\ mem \in [Threads -> [Slots -> BOOLEAN]]
    /\ spawned \subseteq Workers
    /\ \A t \in Threads : \A k \in 1 .. Len(frames[t]) :
        LET a == frames[t][k]
        IN  /\ a.fn \in DOMAIN Calls
            /\ a.slot < a.end /\ a.end <= DEPTH
            /\ k > 1 => frames[t][k - 1].slot < a.slot
            /\ a.fn \in Wrappers <=> k = 1
    /\ \A w \in Workers : Running(w) => Running(Main) /\ Top(Main).fn = "fors_sign"

\* Once a public entry point has returned, and once a worker has ended, its stack
\* holds no secret, whichever functions the build inlined and whichever step failed:
\* bitcoin_pqc_burn_stack runs once on every return, deep enough, below every frame
\* that held one.
NothingLeftBehind ==
    /\ TypeOK
    /\ \A t \in Threads : ~Running(t) => \A s \in Slots : ~mem[t][s]
=============================================================================
