--------------------------- MODULE MCHiddenState ---------------------------
(* Two threads racing for the first hash, in every build and environment;  *)
(* and random buffers smaller than, equal to and larger than the requests, *)
(* with and without common divisors: 64 and 16, 48 are the sizes the       *)
(* library uses.                                                           *)
EXTENDS HiddenState

CONSTANTS t1, t2

ASSUME SourceSizes == Random!SourceAssumption

MCThreads == {t1, t2}
MCSizes == {0, 1, 3, 4, 64}
MCOutLens == {0, 1, 2, 4, 7, 16, 48}
=============================================================================
