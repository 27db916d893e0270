------------------------------ MODULE PaidSale ------------------------------
(***************************************************************************)
(* What the code promises of everything it sells for mobile money, with no *)
(* rows, copies, callbacks or polls: a sale is decided once, by what       *)
(* PayHero says of its payment, and the decision is final; only what is    *)
(* sold is ever given, and what was given may be taken back.               *)
(*                                                                         *)
(* HotspotPayment sells sessions and CompanySubscription time on the       *)
(* platform; both are shown to implement this module.                      *)
(***************************************************************************)
EXTENDS Integers

CONSTANT Sales

VARIABLES
    phase,      \* [Sales -> {"none", "open", "sold", "lost"}]
    outcome,    \* [Sales -> {"unknown", "paid", "unpaid"}], PayHero's word
    given       \* sales for which something was handed out

saleVars == <<phase, outcome, given>>

Init ==
    /\ phase = [s \in Sales |-> "none"]
    /\ outcome = [s \in Sales |-> "unknown"]
    /\ given = {}

MoveTo(s, from, to) ==
    /\ phase[s] = from
    /\ phase' = [phase EXCEPT ![s] = to]

\* The sale is put on record, or PayHero did not take it on.
Open(s) == MoveTo(s, "none", "open") /\ UNCHANGED <<outcome, given>>

Refuse(s) == MoveTo(s, "none", "lost") /\ UNCHANGED <<outcome, given>>

\* The customer pays, or does not, whether or not the sale is on record.
Collect(s) ==
    /\ outcome[s] = "unknown"
    /\ \E word \in {"paid", "unpaid"} : outcome' = [outcome EXCEPT ![s] = word]
    /\ UNCHANGED <<phase, given>>

Sell(s) ==
    /\ outcome[s] = "paid"
    /\ MoveTo(s, "open", "sold")
    /\ given' \in {given, given \cup {s}}
    /\ UNCHANGED outcome

Lose(s) ==
    /\ outcome[s] = "unpaid"
    /\ MoveTo(s, "open", "lost")
    /\ UNCHANGED <<outcome, given>>

\* Giving may push out what others were given.
Give(s) ==
    /\ phase[s] = "sold"
    /\ \E left \in SUBSET given : given' = left \cup {s}
    /\ UNCHANGED <<phase, outcome>>

TakeBack == given' \in SUBSET given /\ UNCHANGED <<phase, outcome>>

SaleStep(s) ==
    Open(s) \/ Refuse(s) \/ Collect(s) \/ Sell(s) \/ Lose(s) \/ Give(s)

Next == TakeBack \/ \E s \in Sales : SaleStep(s)

Spec == Init /\ [][Next]_saleVars
=============================================================================
