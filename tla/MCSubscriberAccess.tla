------------------------ MODULE MCSubscriberAccess ------------------------
(* Small instances of SubscriberAccess for TLC. *)
EXTENDS SubscriberAccess, TLC

CONSTANTS r1, r2

\* Requests are alike: sound where no liveness is checked.
Symmetry == Permutations(Requests)

=============================================================================
