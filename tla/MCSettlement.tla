---------------------------- MODULE MCSettlement ----------------------------
(* Small instances of Settlement for TLC. *)
EXTENDS Settlement

CONSTANTS e1, e2, r1, r2, q1, q2, home, bank, branch

\* KES 10.50 and 20.30, whose 5% end in half a cent: 52.5 rounds to 52, half
\* to even, and 101.5 to 102.
MCGross == [e \in Entries |-> IF e = e1 THEN 1050 ELSE 2030]

\* bank and branch: one account number at two banks.
MCCritical == [d \in Destinations |-> IF d = branch THEN bank ELSE d]

=============================================================================
