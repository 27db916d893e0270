----------------------------- MODULE Settlement -----------------------------
(***************************************************************************)
(* Commission ledger and settlement of one ISP company: the rows           *)
(* CommissionLedger, ISPPayoutConfig and ISPSettlement of the public       *)
(* schema (apps/subscriptions/models.py) under the three kinds of          *)
(* database client that touch them:                                        *)
(*                                                                         *)
(*   - a payment webhook running CommissionLedger.record_commission        *)
(*     (one member of Entries, named after the row it inserts);            *)
(*   - a settlement run, SettlementService.process_company_settlement      *)
(*     (one member of Runs, named after the ISPSettlement row);            *)
(*   - an administrator's PATCH or verification of the payout              *)
(*     configuration (one member of Requests).                             *)
(*                                                                         *)
(* PostgreSQL runs READ COMMITTED: a statement sees what was committed     *)
(* when it started, an UPDATE takes the row lock and holds it to the end   *)
(* of its transaction, and a second UPDATE of that row waits for it.  Only *)
(* the payout configuration row is ever contended, so one lock variable    *)
(* is enough.  Uncommitted writes are kept apart (staged, marked) and      *)
(* reach the tables when the transaction commits.                          *)
(*                                                                         *)
(* Amounts are in cents.                                                   *)
(***************************************************************************)
EXTENDS Integers, FiniteSets, FiniteSetsExt

CONSTANTS
    Entries,        \* ledger rows that webhooks will insert
    Runs,           \* executions of process_company_settlement
    Requests,       \* administrators' requests on the payout configuration
    Gross,          \* [Entries -> cents] what the customer paid
    MinimumPayout,  \* ISPPayoutConfig.minimum_payout, in cents
    Frequency,      \* days between payouts: 1, 7, 14 or 28
    Destinations,   \* phones, and bank accounts with their bank's code
    FirstDestination,
    CriticalFields, \* [Destinations -> what the serializer compares of one]
    Faults,         \* subset of {"crash", "lost_reply"}
    MaxDay,         \* bound on the calendar
    NoOne

ASSUME SettlementAssumption ==
    /\ Gross \in [Entries -> Nat]
    /\ MinimumPayout \in Nat
    /\ Frequency \in {1, 7, 14, 28}
    /\ FirstDestination \in Destinations
    /\ DOMAIN CriticalFields = Destinations
    /\ Faults \subseteq {"crash", "lost_reply"}
    /\ MaxDay \in Nat
    /\ Entries \cap Runs = {}
    /\ Entries \cap Requests = {}
    /\ Runs \cap Requests = {}
    /\ NoOne \notin Entries \cup Runs \cup Requests

VARIABLES
    pc,          \* where each client's transaction stands
    config,      \* the committed ISPPayoutConfig row
    lock,        \* the transaction holding that row's lock
    staged,      \* pending_balance as that transaction wrote it
    snapshot,    \* [client -> the configuration row it loaded]
    ledger,      \* committed CommissionLedger rows
    settledBy,   \* CommissionLedger.settlement (is_settled = settlement set)
    status,      \* committed ISPSettlement.status, "none" if no row
    processedOn, \* ISPSettlement.processed_at, a day
    totalled,    \* rows the run's aggregate summed: its net_amount
    counted,     \* rows the run's count saw: its transaction_count
    marked,      \* rows the run's UPDATE marked settled, not yet committed
    delivered,   \* payouts PayHero carried out, by run
    verifiedFor, \* destinations some request ever verified
    met,         \* [run -> the clients at work at some time while it was]
    drift,       \* clients overlapped since a run last settled with none
                 \* beside it
    today

configVars == <<config, lock, staged>>
ledgerVars == <<ledger, settledBy, status, processedOn>>
runVars    == <<totalled, counted, marked, delivered>>

\* What happened so far, for the properties: no guard reads it.
historyVars == <<met, drift>>

vars == <<pc, snapshot, verifiedFor, today, configVars, ledgerVars, runVars,
          historyVars>>

Clients == Entries \cup Runs \cup Requests

Config == [balance: Int, verified: BOOLEAN, destination: Destinations]

EntryPCs   == {"idle", "recorded", "added", "done"}
RunPCs     == {"idle", "started", "totalled", "created", "paid", "refused",
               "cleared", "marked", "done", "aborted"}
RequestPCs == {"idle", "loaded", "done"}

(***************************************************************************)
(* Money.  (gross * 0.05).quantize(0.01) rounds half to even.              *)
(***************************************************************************)
Commission(gross) ==
    LET q == gross \div 20
        r == gross % 20
    IN  IF r > 10 \/ (r = 10 /\ q % 2 = 1) THEN q + 1 ELSE q

IspAmount(e) == Gross[e] - Commission(Gross[e])

IspTotal(S) == MapThenSumSet(IspAmount, S)

NetAmount(r) == IspTotal(totalled[r])

\* What PayHero is asked to send: int(amount) of the net amount, in cents.
Transferred(r) == 100 * (NetAmount(r) \div 100)

\* Mutant: the queryset loses its is_settled = False filter.
OpenEntries_NoFilter == ledger

\* CommissionLedger rows with is_settled = False that a statement sees.
OpenEntries == {e \in ledger : settledBy[e] = NoOne}

\* Web workers and settlement workers run side by side: nothing keeps one
\* client from beginning while others are at work.
Busy(c) == pc[c] \notin {"idle", "done", "aborted"}

BusyClients == {d \in Clients : Busy(d)}

\* Client c begins: it and those at work have met.
Meet(c) ==
    /\ met' = [r \in Runs |->
                  CASE r = c            -> BusyClients
                    [] r \in BusyClients -> met[r] \cup {c}
                    [] OTHER            -> met[r]]
    /\ drift' = (drift \/ BusyClients # {})

\* The ledger is new; the destination may have been verified at sign-up.
Init ==
    /\ pc = [c \in Clients |-> "idle"]
    /\ \E v \in BOOLEAN :
          /\ config = [balance |-> 0, verified |-> v,
                       destination |-> FirstDestination]
          /\ verifiedFor = IF v THEN {FirstDestination} ELSE {}
    /\ lock = NoOne
    /\ staged = 0
    /\ snapshot = [c \in Clients |-> config]
    /\ ledger = {}
    /\ settledBy = [e \in Entries |-> NoOne]
    /\ status = [r \in Runs |-> "none"]
    /\ processedOn = [r \in Runs |-> 0]
    /\ totalled = [r \in Runs |-> {}]
    /\ counted = [r \in Runs |-> {}]
    /\ marked = [r \in Runs |-> {}]
    /\ delivered = [r \in Runs |-> FALSE]
    /\ met = [r \in Runs |-> {}]
    /\ drift = FALSE
    /\ today = 0

Goto(c, label) == pc' = [pc EXCEPT ![c] = label]

-----------------------------------------------------------------------------
(***************************************************************************)
(* record_commission.  The INSERT is invisible until the commit; the       *)
(* configuration row is then loaded without a lock, and                    *)
(* add_to_pending_balance writes loaded value + share: an absolute value.  *)
(***************************************************************************)
RecordCommission(e) ==
    /\ pc[e] = "idle" /\ e \notin ledger
    /\ Meet(e)
    /\ snapshot' = [snapshot EXCEPT ![e] = config]
    /\ Goto(e, "recorded")
    /\ UNCHANGED <<verifiedFor, today, configVars, ledgerVars, runVars>>

AddToPendingBalance(e) ==
    /\ pc[e] = "recorded"
    /\ lock = NoOne
    /\ lock' = e
    /\ staged' = snapshot[e].balance + IspAmount(e)
    /\ Goto(e, "added")
    /\ UNCHANGED <<config, snapshot, verifiedFor, today, ledgerVars, runVars,
                   historyVars>>

\* Mutant: the row is written but its transaction stays open.
CommitCommission_LeftOpen(e) ==
    /\ pc[e] = "added"
    /\ ledger' = ledger \cup {e}
    /\ config' = [config EXCEPT !.balance = staged]
    /\ Goto(e, "done")
    /\ UNCHANGED <<lock, staged, snapshot, settledBy, status, processedOn,
                   verifiedFor, today, runVars, historyVars>>

CommitCommission(e) ==
    /\ pc[e] = "added"
    /\ ledger' = ledger \cup {e}
    /\ config' = [config EXCEPT !.balance = staged]
    /\ lock' = NoOne
    /\ Goto(e, "done")
    /\ UNCHANGED <<staged, snapshot, settledBy, status, processedOn,
                   verifiedFor, today, runVars, historyVars>>

-----------------------------------------------------------------------------
(***************************************************************************)
(* process_company_settlement.                                             *)
(***************************************************************************)

\* The last completed settlement, by processed_at, is old enough.
IsSettlementDue ==
    \A r \in Runs : status[r] = "completed" => today - processedOn[r] >= Frequency

\* The early returns: a verified configuration, the minimum unless
\* forced, at least one unsettled row.  A False return changes nothing.
BeginSettlement(r, force) ==
    /\ pc[r] = "idle"
    /\ Meet(r)
    /\ config.verified
    /\ force \/ config.balance >= MinimumPayout
    /\ OpenEntries # {}
    /\ snapshot' = [snapshot EXCEPT ![r] = config]
    /\ Goto(r, "started")
    /\ UNCHANGED <<verifiedFor, today, configVars, ledgerVars, runVars>>

\* The scheduled entry, process_all_due_settlements, never forces.
ScheduledSettlement(r) == IsSettlementDue /\ BeginSettlement(r, FALSE)

ManualSettlement(r) == \E force \in BOOLEAN : BeginSettlement(r, force)

\* entries.aggregate: its own statement, over the rows committed by now.
ReadTotals(r) ==
    /\ pc[r] = "started"
    /\ totalled' = [totalled EXCEPT ![r] = OpenEntries]
    /\ Goto(r, "totalled")
    /\ UNCHANGED <<snapshot, counted, marked, delivered, verifiedFor, today,
                   configVars, ledgerVars, historyVars>>

\* entries.count and earliest/latest read again.  When another run settled
\* every row meanwhile, earliest() raises DoesNotExist and the transaction
\* is rolled back; otherwise the settlement row is inserted.
CreateSettlement(r) ==
    /\ pc[r] = "totalled"
    /\ counted' = [counted EXCEPT ![r] = OpenEntries]
    /\ Goto(r, IF OpenEntries = {} THEN "aborted" ELSE "created")
    /\ UNCHANGED <<snapshot, totalled, marked, delivered, verifiedFor,
                   today, configVars, ledgerVars, historyVars>>

\* _initiate_payout: the HTTP call to PayHero, inside the transaction.
PayoutAccepted(r) ==
    /\ pc[r] = "created"
    /\ delivered' = [delivered EXCEPT ![r] = TRUE]
    /\ Goto(r, "paid")
    /\ UNCHANGED <<snapshot, totalled, counted, marked, verifiedFor, today,
                   configVars, ledgerVars, historyVars>>

PayoutRefused(r) ==
    /\ pc[r] = "created"
    /\ Goto(r, "refused")
    /\ UNCHANGED <<snapshot, verifiedFor, today, configVars, ledgerVars,
                   runVars, historyVars>>

\* The request timed out after PayHero accepted it: PayHeroTimeoutError
\* becomes success=False.
PayoutReplyLost(r) ==
    /\ pc[r] = "created" /\ "lost_reply" \in Faults
    /\ delivered' = [delivered EXCEPT ![r] = TRUE]
    /\ Goto(r, "refused")
    /\ UNCHANGED <<snapshot, totalled, counted, marked, verifiedFor, today,
                   configVars, ledgerVars, historyVars>>

\* Mutant: the pending balance is not cleared.
MarkCompleted_KeepsBalance(r) ==
    /\ pc[r] = "paid"
    /\ lock = NoOne
    /\ lock' = r
    /\ staged' = config.balance
    /\ processedOn' = [processedOn EXCEPT ![r] = today]
    /\ Goto(r, "cleared")
    /\ UNCHANGED <<config, snapshot, ledger, settledBy, status, verifiedFor,
                   today, runVars, historyVars>>

\* settlement.mark_completed: the run's own row, then clear_pending_balance
\* on a configuration loaded afresh: zero, whatever the balance is by now.
MarkCompleted(r) ==
    /\ pc[r] = "paid"
    /\ lock = NoOne
    /\ lock' = r
    /\ staged' = 0
    /\ processedOn' = [processedOn EXCEPT ![r] = today]
    /\ Goto(r, "cleared")
    /\ UNCHANGED <<config, snapshot, ledger, settledBy, status, verifiedFor,
                   today, runVars, historyVars>>

\* entries.update: the queryset is lazy, so the filter runs again.
MarkEntriesSettled(r) ==
    /\ pc[r] = "cleared"
    /\ marked' = [marked EXCEPT ![r] = OpenEntries]
    /\ Goto(r, "marked")
    /\ UNCHANGED <<snapshot, totalled, counted, delivered, verifiedFor,
                   today, configVars, ledgerVars, historyVars>>

CommitSettlement(r) ==
    /\ pc[r] = "marked"
    /\ status' = [status EXCEPT ![r] = "completed"]
    /\ settledBy' = [e \in Entries |->
                        IF e \in marked[r] THEN r ELSE settledBy[e]]
    /\ config' = [config EXCEPT !.balance = staged]
    /\ lock' = NoOne
    /\ drift' = (drift /\ met[r] # {})
    /\ Goto(r, "done")
    /\ UNCHANGED <<staged, snapshot, ledger, processedOn, verifiedFor,
                   today, runVars, met>>

\* Mutant: entries.update runs whatever the payout's outcome.
CommitFailure_SettlesRows(r) ==
    /\ pc[r] = "refused"
    /\ status' = [status EXCEPT ![r] = "failed"]
    /\ settledBy' = [e \in Entries |->
                        IF e \in OpenEntries THEN r ELSE settledBy[e]]
    /\ Goto(r, "done")
    /\ UNCHANGED <<snapshot, ledger, processedOn, verifiedFor, today,
                   configVars, runVars, historyVars>>

\* Mutant: the row is left in the status it was created with.
CommitFailure_LeftProcessing(r) ==
    /\ pc[r] = "refused"
    /\ status' = [status EXCEPT ![r] = "processing"]
    /\ Goto(r, "done")
    /\ UNCHANGED <<snapshot, ledger, settledBy, processedOn, verifiedFor, today,
                   configVars, runVars, historyVars>>

\* settlement.mark_failed and the commit: the ledger rows stay unsettled.
CommitFailure(r) ==
    /\ pc[r] = "refused"
    /\ status' = [status EXCEPT ![r] = "failed"]
    /\ Goto(r, "done")
    /\ UNCHANGED <<snapshot, ledger, settledBy, processedOn, verifiedFor,
                   today, configVars, runVars, historyVars>>

-----------------------------------------------------------------------------
(***************************************************************************)
(* The payout configuration endpoints.  Both load the row, change the      *)
(* object and save all of its columns in one autocommit UPDATE.            *)
(***************************************************************************)
LoadConfig(q) ==
    /\ pc[q] = "idle"
    /\ Meet(q)
    /\ snapshot' = [snapshot EXCEPT ![q] = config]
    /\ Goto(q, "loaded")
    /\ UNCHANGED <<verifiedFor, today, configVars, ledgerVars, runVars>>

SaveConfig(q, row) ==
    /\ pc[q] = "loaded"
    /\ lock = NoOne
    /\ config' = row
    /\ Goto(q, "done")
    /\ UNCHANGED <<lock, staged, snapshot, today, ledgerVars, runVars,
                   historyVars>>

\* VerifyPayoutView.post
VerifyPayout(q) ==
    /\ ~snapshot[q].verified
    /\ SaveConfig(q, [snapshot[q] EXCEPT !.verified = TRUE])
    /\ verifiedFor' = verifiedFor \cup {snapshot[q].destination}

\* Mutant: a changed destination keeps the old one's verification.
PatchConfig_KeepsVerified(q, d) ==
    /\ SaveConfig(q, [snapshot[q] EXCEPT !.destination = d])
    /\ UNCHANGED verifiedFor

\* ISPPayoutConfigView.patch: another payout method, phone or account number
\* resets is_verified; another bank code, name or branch does not.
PatchConfig(q, d) ==
    /\ SaveConfig(q, [snapshot[q] EXCEPT
                        !.destination = d,
                        !.verified = @ /\ CriticalFields[d]
                                          = CriticalFields[snapshot[q].destination]])
    /\ UNCHANGED verifiedFor

-----------------------------------------------------------------------------
\* The process dies: PostgreSQL rolls its open transaction back.  PayHero
\* redelivers a webhook that was not answered; a dead run stays dead and a
\* later run is another member of Runs.
Crash(c) ==
    /\ "crash" \in Faults /\ Busy(c)
    /\ lock' = IF lock = c THEN NoOne ELSE lock
    /\ Goto(c, IF c \in Runs THEN "aborted" ELSE "idle")
    /\ UNCHANGED <<config, staged, snapshot, verifiedFor, today, ledgerVars,
                   runVars, historyVars>>

Tomorrow ==
    /\ today < MaxDay
    /\ today' = today + 1
    /\ UNCHANGED <<pc, snapshot, verifiedFor, configVars, ledgerVars, runVars,
                   historyVars>>

WebhookStep(e) ==
    RecordCommission(e) \/ AddToPendingBalance(e) \/ CommitCommission(e)

\* Everything a started run does next, except waiting for someone's lock.
RunStep(r) ==
    \/ ReadTotals(r) \/ CreateSettlement(r)
    \/ PayoutAccepted(r) \/ PayoutRefused(r) \/ PayoutReplyLost(r)
    \/ MarkCompleted(r) \/ MarkEntriesSettled(r)
    \/ CommitSettlement(r) \/ CommitFailure(r)

AdminStep(q) == VerifyPayout(q) \/ \E d \in Destinations : PatchConfig(q, d)

Next ==
    \/ \E e \in Entries : WebhookStep(e)
    \/ \E r \in Runs : ScheduledSettlement(r) \/ ManualSettlement(r) \/ RunStep(r)
    \/ \E q \in Requests : LoadConfig(q) \/ AdminStep(q)
    \/ \E c \in Clients : Crash(c)
    \/ Tomorrow

Spec == Init /\ [][Next]_vars

\* A transaction that has begun goes on: the database answers, the HTTP
\* call to PayHero has a timeout (DEFAULT_TIMEOUT), and PostgreSQL hands a
\* row lock to its waiters in turn, hence the strong fairness of the two
\* steps that wait for it.
Fairness ==
    /\ \A e \in Entries :
          /\ SF_vars(AddToPendingBalance(e))
          /\ WF_vars(CommitCommission(e))
    /\ \A r \in Runs : SF_vars(MarkCompleted(r)) /\ WF_vars(RunStep(r))
    /\ \A q \in Requests : SF_vars(AdminStep(q))

FairSpec == Spec /\ Fairness

-----------------------------------------------------------------------------
(***************************************************************************)
(* Properties.                                                             *)
(***************************************************************************)

\* Every variable stays in its type.
TypeOK ==
    /\ pc \in [Clients -> EntryPCs \cup RunPCs \cup RequestPCs]
    /\ \A e \in Entries : pc[e] \in EntryPCs
    /\ \A r \in Runs : pc[r] \in RunPCs
    /\ \A q \in Requests : pc[q] \in RequestPCs
    /\ config \in Config
    /\ lock \in Entries \cup Runs \cup {NoOne}
    /\ staged \in Int
    /\ snapshot \in [Clients -> Config]
    /\ ledger \subseteq Entries
    /\ settledBy \in [Entries -> Runs \cup {NoOne}]
    /\ status \in [Runs -> {"none", "completed", "failed"}]
    /\ processedOn \in [Runs -> 0 .. MaxDay]
    /\ totalled \in [Runs -> SUBSET Entries]
    /\ counted \in [Runs -> SUBSET Entries]
    /\ marked \in [Runs -> SUBSET Entries]
    /\ delivered \in [Runs -> BOOLEAN]
    /\ met \in [Runs -> SUBSET Clients]
    /\ drift \in BOOLEAN
    /\ verifiedFor \subseteq Destinations
    /\ today \in 0 .. MaxDay

\* A ledger row is marked settled only by a settlement that committed as
\* completed and whose payout PayHero carried out: a refused, timed out or
\* crashed run never settles a row.
SettledRowsBelongToPayouts ==
    \A e \in Entries : settledBy[e] # NoOne =>
        /\ e \in ledger
        /\ status[settledBy[e]] = "completed"
        /\ delivered[settledBy[e]]

Apart(r, s) == s \notin met[r] /\ r \notin met[s]

\* PayHero carried the payout out, and the program does not know: the reply
\* was lost, or the process died before the commit.
Unconfirmed(r) ==
    delivered[r] /\ (pc[r] \in {"refused", "aborted"} \/ status[r] = "failed")

\* A ledger row is covered by two payouts only when their runs overlapped or
\* the program lost track of one: nothing else, no retry, second administrator
\* or later payment, pays a row again.
NoDoublePayout ==
    \A r, s \in Runs :
        /\ r # s /\ delivered[r] /\ delivered[s]
        /\ totalled[r] \cap totalled[s] # {}
        => ~Apart(r, s) \/ Unconfirmed(r) \/ Unconfirmed(s)

SomeoneVerified(d) ==
    \E v \in verifiedFor : CriticalFields[v] = CriticalFields[d]

\* Money only goes to a phone or account number that some request verified,
\* although both endpoints save rows they loaded earlier and a run pays to
\* the destination it loaded when it began.
PayoutsGoToVerifiedAccounts ==
    \A r \in Runs : delivered[r] => SomeoneVerified(snapshot[r].destination)

\* The settlement a row belongs to never changes, and a settled row is
\* never reopened (UPDATE ... WHERE is_settled = false, under the lock).
SettlementIsFinal ==
    [][\A e \in Entries : settledBy[e] # NoOne => settledBy'[e] = settledBy[e]]_vars

\* A transaction that has begun comes to an end: nobody waits for the
\* configuration row for ever.
TransactionsEnd == \A c \in Clients : Busy(c) ~> ~Busy(c)

\* A completed settlement's net_amount is the share of exactly the rows
\* linked to it: "Amount paid to ISP (gross - commission)".
SettlementPaysItsRows ==
    \A r \in Runs : status[r] = "completed" =>
        totalled[r] = {e \in Entries : settledBy[e] = r}

LinkedRows(r) == {e \in Entries : settledBy[e] = r}

\* Where those rows differ, or the transaction_count, an overlap explains
\* each: a row linked and not paid was committed by a webhook at work beside
\* the run, a row paid and not linked was settled by a run beside it.
DifferencesAreOverlaps ==
    \A r \in Runs : status[r] = "completed" =>
        \A S \in {totalled[r], counted[r]} :
            /\ LinkedRows(r) \ S \subseteq met[r]
            /\ \A e \in S \ LinkedRows(r) : settledBy[e] \in met[r]

\* pending_balance is the "unsettled amount" until two clients overlap, and
\* again once a settlement has run with nobody beside it, whatever the
\* balance was when it began.
PendingBalanceIsUnsettledAmount ==
    ~drift => config.balance = IspTotal(OpenEntries)

\* Runs whose payouts the program knows of and no two of which overlapped
\* never send the ISP more than its share of what was collected.
PaidWithinShare ==
    \A D \in SUBSET {r \in Runs : delivered[r] /\ ~Unconfirmed(r)} :
        (\A r, s \in D : r # s => Apart(r, s))
        => MapThenSumSet(Transferred, D) <= IspTotal(ledger)

-----------------------------------------------------------------------------
(***************************************************************************)
(* The refinement: the account the rows of Settlement implement.           *)
(***************************************************************************)
Account == INSTANCE IspAccount WITH
    Share   <- IspAmount,
    owed    <- OpenEntries,
    settled <- {e \in ledger : settledBy[e] # NoOne},
    balance <- config.balance,
    exact   <- ~drift

\* However webhooks, runs and administrators interleave, crash or time out,
\* the ledger and the balance behave as the account they stand for.
ImplementsAccount == Account!Spec

=============================================================================
