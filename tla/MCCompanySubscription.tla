------------------------ MODULE MCCompanySubscription ------------------------
(* Small instances of CompanySubscription for TLC. *)
EXTENDS CompanySubscription

CONSTANTS y1, y2, d1, d2, w1, w2, c1

\* d1 and w1 are about the first payment, d2 and w2 about the second.
MCAbout == [h \in Deliveries \cup Polls |-> IF h \in {d2, w2} THEN y2 ELSE y1]

\* The second request asks for a yearly period ...
MCPeriod == [p \in Payments |-> IF p = y2 THEN "yearly" ELSE "monthly"]

\* ... or both ask for a monthly one.
MCMonthly == [p \in Payments |-> "monthly"]

=============================================================================
