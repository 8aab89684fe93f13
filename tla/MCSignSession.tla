-------------------------- MODULE MCSignSession --------------------------
(***************************************************************************)
(* A small instance of SignSession: two layers, a FORS+C cap of three      *)
(* attempts, a WOTS+C signing cap of counters 0..1 in a range of 0..3, and *)
(* one message for each way the two searches can end.                      *)
(***************************************************************************)
EXTENDS SignSession, FiniteSets

\* quick   hits at once everywhere.
\* late    hits on the last salt and the last counter the caps allow.
\* nosalt  would need one salt more than the cap.
\* beyond  has a layer whose counter is past the signing cap, in the range.
\* never   has a layer no two-byte counter satisfies.
MCMessages == {"quick", "late", "nosalt", "beyond", "never"}

MCSaltHit == [quick |-> 0, late |-> 2, nosalt |-> 3, beyond |-> 0, never |-> 1]
MCForscZero(p) ==
    p.r.key = p.pk /\ p.r.msg = p.msg /\ p.r.ctr = MCSaltHit[p.msg]

MCCounterHit ==
    [quick  |-> <<0, 0>>, late |-> <<0, 1>>, nosalt |-> <<1, 0>>,
     beyond |-> <<3, 1>>, never |-> <<0, 4>>]
MCWotscHit(rt, c) ==
    IF rt = Garbage THEN c = 2 ELSE c >= MCCounterHit[rt.path.msg][rt.layer + 1]

\* The signature another build makes of m under k, with no caps but 0xFFFF.
MCGenuine(k, m) ==
    LET p == SaltedPath(k, m, MCSaltHit[m])
    IN  [j \in Regions |->
           CASE j = 0 -> p.r
             [] j = 1 -> p
             [] OTHER -> LayerSig(Root(p, j - 2),
                                  IF MCCounterHit[m][j - 1] <= WOTSC_COUNTER_LIMIT
                                  THEN MCCounterHit[m][j - 1] ELSE 0)]

MCOffer(b, k, m) == [sig |-> b, key |-> k, msg |-> m]

\* Genuine signatures, also under an inconsistent key and for a message no
\* counter serves, and ones with a flipped salt, a corrupted region, a layer
\* cut at a later counter, or of another message.
CONSTANTS k1, kbad
MCKeys == {k1, kbad}
MCValidKeys == {k1}
MCOffers ==
    {MCOffer(MCGenuine(k1, m), k1, m) : m \in MCMessages}
    \cup {MCOffer(MCGenuine(kbad, "quick"), kbad, "quick"),
          MCOffer(MCGenuine(k1, "quick"), kbad, "quick"),
          MCOffer(MCGenuine(k1, "quick"), k1, "late"),
          MCOffer([MCGenuine(k1, "quick") EXCEPT ![0].ctr = 1], k1, "quick"),
          MCOffer([MCGenuine(k1, "late") EXCEPT ![1] = Garbage], k1, "late"),
          MCOffer([MCGenuine(k1, "late") EXCEPT ![3] = Garbage], k1, "late"),
          MCOffer([MCGenuine(k1, "quick") EXCEPT ![2].counter = 1], k1, "quick")}

MCNoDefects == {{}}
MCDefectPairs == {d \in SUBSET Defects : Cardinality(d) <= 2}
=============================================================================
