-------------------------- MODULE MCHotspotPayment --------------------------
(* Small instances of HotspotPayment for TLC. *)
EXTENDS HotspotPayment, TLC

CONSTANTS s1, s2, d1, d2, p1, p2, p3, c1, tv, k1, k2

\* Everything is about one sale.
MCAboutOne == [h \in Handlers |-> s1]

\* d1 and p2 are about a second sale.
MCAboutTwo == [h \in Handlers |-> IF h \in {d1, p2} THEN s2 ELSE s1]

\* Nothing tells two callbacks, polls or codes apart.
MCSymmetry ==
    Permutations({d1, d2}) \cup Permutations({p1, p2}) \cup Permutations({k1, k2})

=============================================================================
