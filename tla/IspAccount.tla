----------------------------- MODULE IspAccount -----------------------------
(***************************************************************************)
(* What the settlement code promises an ISP, with no transactions, locks   *)
(* or HTTP calls: a collected payment is owed until one settlement takes   *)
(* it, for ever, and the published balance is exact as long as the users   *)
(* of the account come one after another.  Once they overlap, the balance  *)
(* may be anything; a settlement of everything owed makes it exact again.  *)
(***************************************************************************)
EXTENDS Integers

CONSTANTS
    Entries,    \* customer payments
    Share(_)    \* the ISP's share of a payment

VARIABLES
    owed,       \* collected and not settled
    settled,    \* settled
    balance,    \* the published pending balance
    exact       \* the balance is to be trusted

accountVars == <<owed, settled, balance, exact>>

Init == owed = {} /\ settled = {} /\ balance = 0 /\ exact = TRUE

Accrue(e) ==
    /\ e \notin owed \cup settled
    /\ owed' = owed \cup {e}
    /\ balance' \in Int
    /\ exact => balance' = balance + Share(e)
    /\ UNCHANGED <<settled, exact>>

\* While the balance is exact nothing less than everything owed is settled.
Settle(S) ==
    /\ S \subseteq owed
    /\ owed' = owed \ S /\ settled' = settled \cup S
    /\ balance' = 0
    /\ exact' \in BOOLEAN
    /\ exact \/ exact' => exact' /\ S = owed /\ S # {}

Overlap == exact /\ exact' = FALSE /\ UNCHANGED <<owed, settled, balance>>

\* A whole row saved over a newer balance.
Overwrite ==
    /\ ~exact
    /\ balance' \in Int
    /\ UNCHANGED <<owed, settled, exact>>

Next ==
    \/ \E e \in Entries : Accrue(e)
    \/ \E S \in SUBSET Entries : Settle(S)
    \/ Overlap \/ Overwrite

Spec == Init /\ [][Next]_accountVars
=============================================================================
