-------------------------- MODULE MCSignedMessage --------------------------
(***************************************************************************)
(* Fields of two bytes, so that damage may spare a part of a field, and    *)
(* texts from empty to three bytes, so that they can overlap themselves    *)
(* when they move; the memory has room on both sides of sm.                *)
(***************************************************************************)
EXTENDS SignedMessage

Byte(x) == <<"byte", x>>
MCSeeds == {[i \in 1 .. 3 * N |-> Byte(IF i = 1 THEN b ELSE "a")] : b \in {"a", "b"}}
MCTexts == {<<>>, <<Byte("x")>>, <<Byte("x"), Byte("y"), Byte("z")>>}
=============================================================================
