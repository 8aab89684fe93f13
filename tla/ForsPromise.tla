---------------------------- MODULE ForsPromise ----------------------------
(***************************************************************************)
(* What fors_sign promises, whoever does the work: every FORS tree is      *)
(* signed once, and the public key is derived from the roots only when     *)
(* every tree has been.                                                    *)
(***************************************************************************)
EXTENDS Naturals

CONSTANT Trees

VARIABLES signed,                     \* how often each tree's region and root were written
          derived                     \* has the FORS public key been derived?

vars == <<signed, derived>>

Unsigned == [i \in Trees |-> 0]

Init == signed = Unsigned /\ derived = FALSE

Sign(i) ==
    /\ ~derived
    /\ signed[i] = 0
    /\ signed' = [signed EXCEPT ![i] = 1]
    /\ UNCHANGED derived

Derive ==
    /\ ~derived
    /\ \A i \in Trees : signed[i] = 1
    /\ derived' = TRUE
    /\ UNCHANGED signed

\* The next call starts from nothing.
Again == derived /\ signed' = Unsigned /\ derived' = FALSE

Next == (\E i \in Trees : Sign(i)) \/ Derive \/ Again

Spec == Init /\ [][Next]_vars
=============================================================================
