-------------------------- MODULE SettlementProofs --------------------------
(***************************************************************************)
(* Theorems about Settlement, for every set of ledger rows, runs and       *)
(* requests, every amount and every calendar.                              *)
(*                                                                         *)
(* The argument: whoever is between its UPDATE of the configuration row    *)
(* and its commit holds that row's lock, so at most one settlement run     *)
(* has marked rows it has not committed, and those rows are still open     *)
(* when it commits (Inv).  The money side adds that a run pays only after  *)
(* loading a verified configuration (VerifiedInv), that clients at work    *)
(* together have met (MetInv), and that a run that has committed leaves    *)
(* none of the rows it totalled open, so that a run that never met it      *)
(* totals others (PayoutInv).  Payouts of runs that never met therefore    *)
(* cover disjoint sets of ledger rows, and their sum is at most that of    *)
(* the ledger.  What a run read differs from what it settles only by rows  *)
(* of webhooks and runs it met (ReadInv).                                  *)
(***************************************************************************)
EXTENDS Settlement, SumTheorems

USE SettlementAssumption

\* The ISP's share of a ledger row, gross minus the rounded commission, is a
\* number.
LEMMA ShareType ==
    ASSUME NEW e \in Entries
    PROVE  IspAmount(e) \in Int
<1>1. Gross[e] \in Nat
    OBVIOUS
<1>2. Commission(Gross[e]) \in Int
    BY <1>1 DEF Commission
<1>3. QED
    BY <1>1, <1>2 DEF IspAmount

\* An empty ledger with nobody at work is well typed.
LEMMA TypeInit == Init => TypeOK
<1> SUFFICES ASSUME Init PROVE TypeOK
    OBVIOUS
<1> USE DEF Init
<1>1. /\ pc \in [Clients -> EntryPCs \cup RunPCs \cup RequestPCs]
      /\ \A e \in Entries : pc[e] \in EntryPCs
      /\ \A r \in Runs : pc[r] \in RunPCs
      /\ \A q \in Requests : pc[q] \in RequestPCs
    BY DEF Clients, EntryPCs, RunPCs, RequestPCs
<1>2. config \in Config /\ verifiedFor \subseteq Destinations
    BY DEF Config
<1>3. snapshot \in [Clients -> Config]
    BY <1>2
<1>4. /\ lock = NoOne /\ staged \in Int /\ ledger \subseteq Entries
      /\ settledBy \in [Entries -> Runs \cup {NoOne}]
      /\ status \in [Runs -> {"none", "completed", "failed"}]
      /\ processedOn \in [Runs -> 0 .. MaxDay] /\ today \in 0 .. MaxDay
    OBVIOUS
<1>5. /\ totalled \in [Runs -> SUBSET Entries]
      /\ counted \in [Runs -> SUBSET Entries]
      /\ marked \in [Runs -> SUBSET Entries]
      /\ delivered \in [Runs -> BOOLEAN]
      /\ met \in [Runs -> SUBSET Clients]
      /\ drift \in BOOLEAN
    OBVIOUS
<1>6. QED
    BY <1>1, <1>2, <1>3, <1>4, <1>5 DEF TypeOK

\* A meeting adds clients to the runs at work.
LEMMA MeetType ==
    ASSUME TypeOK, NEW c \in Clients, Meet(c)
    PROVE  met' \in [Runs -> SUBSET Clients] /\ drift' \in BOOLEAN
BY DEF TypeOK, Meet, BusyClients

\* TypeOK is an invariant: every row, lock and counter keeps its type.
THEOREM TypeCorrect == Spec => []TypeOK
<1>1. Init => TypeOK
    BY TypeInit
<1>2. TypeOK /\ [Next]_vars => TypeOK'
    <2> SUFFICES ASSUME TypeOK, [Next]_vars PROVE TypeOK'
        OBVIOUS
    <2> USE DEF Clients, Config, EntryPCs, RunPCs, RequestPCs, Goto,
                configVars, ledgerVars, runVars, historyVars
    <2>1. ASSUME NEW e \in Entries, RecordCommission(e) PROVE TypeOK'
        BY <2>1, MeetType DEF TypeOK, RecordCommission
    <2>2. ASSUME NEW e \in Entries, AddToPendingBalance(e) PROVE TypeOK'
        <3>1. staged' \in Int
            BY <2>2, ShareType DEF TypeOK, AddToPendingBalance
        <3>2. QED
            BY <2>2, <3>1 DEF TypeOK, AddToPendingBalance
    <2>3. ASSUME NEW e \in Entries, CommitCommission(e) PROVE TypeOK'
        <3>1. config' \in Config
            BY <2>3 DEF TypeOK, CommitCommission
        <3>2. pc' = [pc EXCEPT ![e] = "done"] /\ ledger' \subseteq Entries
            BY <2>3 DEF TypeOK, CommitCommission
        <3>3. lock' = NoOne
              /\ UNCHANGED <<staged, snapshot, settledBy, status, processedOn,
                            verifiedFor, today, runVars, historyVars>>
            BY <2>3 DEF CommitCommission
        <3>4. QED
            BY <3>1, <3>2, <3>3 DEF TypeOK
    <2>4. ASSUME NEW r \in Runs, NEW force \in BOOLEAN, BeginSettlement(r, force)
          PROVE  TypeOK'
        BY <2>4, MeetType DEF TypeOK, BeginSettlement
    <2>5. ASSUME NEW r \in Runs, ReadTotals(r) PROVE TypeOK'
        BY <2>5 DEF TypeOK, ReadTotals, OpenEntries
    <2>6. ASSUME NEW r \in Runs, CreateSettlement(r) PROVE TypeOK'
        BY <2>6 DEF TypeOK, CreateSettlement, OpenEntries
    <2>7. ASSUME NEW r \in Runs,
                 PayoutAccepted(r) \/ PayoutRefused(r) \/ PayoutReplyLost(r)
          PROVE  TypeOK'
        <3>1. CASE PayoutAccepted(r)
            BY <3>1 DEF TypeOK, PayoutAccepted
        <3>2. CASE PayoutRefused(r)
            BY <3>2 DEF TypeOK, PayoutRefused
        <3>3. CASE PayoutReplyLost(r)
            BY <3>3 DEF TypeOK, PayoutReplyLost
        <3>4. QED
            BY <2>7, <3>1, <3>2, <3>3
    <2>8. ASSUME NEW r \in Runs, MarkCompleted(r) PROVE TypeOK'
        BY <2>8 DEF TypeOK, MarkCompleted
    <2>9. ASSUME NEW r \in Runs, MarkEntriesSettled(r) PROVE TypeOK'
        BY <2>9 DEF TypeOK, MarkEntriesSettled, OpenEntries
    <2>10. ASSUME NEW r \in Runs, CommitSettlement(r) PROVE TypeOK'
        BY <2>10 DEF TypeOK, CommitSettlement
    <2>11. ASSUME NEW r \in Runs, CommitFailure(r) PROVE TypeOK'
        BY <2>11 DEF TypeOK, CommitFailure
    <2>12. ASSUME NEW q \in Requests, LoadConfig(q) PROVE TypeOK'
        BY <2>12, MeetType DEF TypeOK, LoadConfig
    <2>13. ASSUME NEW q \in Requests, AdminStep(q) PROVE TypeOK'
        <3>1. snapshot[q] \in Config
            BY DEF TypeOK
        <3>2. CASE VerifyPayout(q)
            <4>1. [snapshot[q] EXCEPT !.verified = TRUE] \in Config
                BY <3>1
            <4>2. QED
                BY <3>1, <3>2, <4>1 DEF TypeOK, VerifyPayout, SaveConfig
        <3>3. ASSUME NEW d \in Destinations, PatchConfig(q, d) PROVE TypeOK'
            <4>1. (snapshot[q].verified /\ d = snapshot[q].destination) \in BOOLEAN
                OBVIOUS
            <4>2. config' \in Config
                BY <3>1, <3>3, <4>1 DEF PatchConfig, SaveConfig
            <4>3. QED
                BY <3>3, <4>2 DEF TypeOK, PatchConfig, SaveConfig
        <3>4. QED
            BY <2>13, <3>2, <3>3 DEF AdminStep
    <2>14. ASSUME NEW c \in Clients, Crash(c) PROVE TypeOK'
        BY <2>14 DEF TypeOK, Crash
    <2>15. ASSUME Tomorrow PROVE TypeOK'
        BY <2>15 DEF TypeOK, Tomorrow
    <2>16. CASE UNCHANGED vars
        BY <2>16 DEF TypeOK, vars
    <2>17. QED
        BY <2>1, <2>2, <2>3, <2>4, <2>5, <2>6, <2>7, <2>8, <2>9, <2>10, <2>11,
           <2>12, <2>13, <2>14, <2>15, <2>16
        DEF Next, WebhookStep, RunStep, ScheduledSettlement, ManualSettlement
<1>3. QED
    BY <1>1, <1>2, PTL DEF Spec

-----------------------------------------------------------------------------
\* Whoever has updated the configuration row and not yet committed holds it.
LockInv == \A c \in Clients : pc[c] \in {"added", "cleared", "marked"} => lock = c

\* A run clears the balance and marks rows only after its payout.
PaidInv == \A r \in Runs : pc[r] \in {"paid", "cleared", "marked"} => delivered[r]

\* Rows a run has marked and not committed are still open.
MarkedInv ==
    \A r \in Runs : pc[r] = "marked" =>
        \A e \in marked[r] : e \in ledger /\ settledBy[e] = NoOne

\* A settled row belongs to a run that is over, not to one that could still
\* fail.
OwnerInv == \A e \in Entries : settledBy[e] # NoOne => pc[settledBy[e]] = "done"

Inv == TypeOK /\ LockInv /\ PaidInv /\ MarkedInv /\ OwnerInv
       /\ SettledRowsBelongToPayouts

\* An empty ledger with nobody at work satisfies Inv.
LEMMA InvInit == Init => Inv
<1>1. Init => TypeOK
    BY TypeInit
<1>2. QED
    BY <1>1 DEF Init, Inv, LockInv, PaidInv, MarkedInv, OwnerInv, Clients,
                SettledRowsBelongToPayouts

\* Only CommitSettlement writes settledBy; what it does to it.
LEMMA CommitKeepsSettled ==
    ASSUME Inv, NEW r \in Runs, CommitSettlement(r)
    PROVE  \A e \in Entries : settledBy[e] # NoOne => settledBy'[e] = settledBy[e]
BY DEF Inv, TypeOK, MarkedInv, CommitSettlement

\* Every step of a webhook, run, administrator or crash keeps Inv.
LEMMA InvNext == Inv /\ TypeOK' /\ [Next]_vars => Inv'
<1> SUFFICES ASSUME Inv, TypeOK', [Next]_vars PROVE Inv'
    OBVIOUS
<1> USE DEF Inv, TypeOK, Clients, EntryPCs, RunPCs, RequestPCs, Goto,
            LockInv, PaidInv, MarkedInv, OwnerInv, SettledRowsBelongToPayouts,
            configVars, ledgerVars, runVars
<1>1. ASSUME NEW e \in Entries, RecordCommission(e) PROVE Inv'
    BY <1>1 DEF RecordCommission
<1>2. ASSUME NEW e \in Entries, AddToPendingBalance(e) PROVE Inv'
    BY <1>2 DEF AddToPendingBalance
<1>3. ASSUME NEW e \in Entries, CommitCommission(e) PROVE Inv'
    BY <1>3 DEF CommitCommission
<1>4. ASSUME NEW r \in Runs, NEW force \in BOOLEAN, BeginSettlement(r, force)
      PROVE  Inv'
    BY <1>4 DEF BeginSettlement
<1>5. ASSUME NEW r \in Runs, ReadTotals(r) PROVE Inv'
    BY <1>5 DEF ReadTotals
<1>6. ASSUME NEW r \in Runs, CreateSettlement(r) PROVE Inv'
    BY <1>6 DEF CreateSettlement
<1>7. ASSUME NEW r \in Runs, PayoutAccepted(r) PROVE Inv'
    BY <1>7 DEF PayoutAccepted
<1>8. ASSUME NEW r \in Runs, PayoutRefused(r) PROVE Inv'
    BY <1>8 DEF PayoutRefused
<1>9. ASSUME NEW r \in Runs, PayoutReplyLost(r) PROVE Inv'
    BY <1>9 DEF PayoutReplyLost
<1>10. ASSUME NEW r \in Runs, MarkCompleted(r) PROVE Inv'
    BY <1>10 DEF MarkCompleted
<1>11. ASSUME NEW r \in Runs, MarkEntriesSettled(r) PROVE Inv'
    BY <1>11 DEF MarkEntriesSettled, OpenEntries
<1>12. ASSUME NEW r \in Runs, CommitSettlement(r) PROVE Inv'
    BY <1>12 DEF CommitSettlement
<1>13. ASSUME NEW r \in Runs, CommitFailure(r) PROVE Inv'
    BY <1>13 DEF CommitFailure
<1>14. ASSUME NEW q \in Requests, LoadConfig(q) PROVE Inv'
    BY <1>14 DEF LoadConfig
<1>15. ASSUME NEW q \in Requests, AdminStep(q) PROVE Inv'
    <2>1. /\ pc[q] = "loaded" /\ pc' = [pc EXCEPT ![q] = "done"]
          /\ UNCHANGED <<lock, ledgerVars, runVars>>
        BY <1>15 DEF AdminStep, VerifyPayout, PatchConfig, SaveConfig
    <2>2. QED
        BY <2>1
<1>16. ASSUME NEW c \in Clients, Crash(c) PROVE Inv'
    BY <1>16 DEF Crash, Busy
<1>17. ASSUME Tomorrow PROVE Inv'
    BY <1>17 DEF Tomorrow
<1>18. CASE UNCHANGED vars
    BY <1>18 DEF vars
<1> HIDE DEF Inv, TypeOK, LockInv, PaidInv, MarkedInv, OwnerInv,
             SettledRowsBelongToPayouts
<1>19. QED
    BY <1>1, <1>2, <1>3, <1>4, <1>5, <1>6, <1>7, <1>8, <1>9, <1>10, <1>11,
       <1>12, <1>13, <1>14, <1>15, <1>16, <1>17, <1>18
    DEF Next, WebhookStep, RunStep, ScheduledSettlement, ManualSettlement

\* Inv is an invariant: whoever marked rows holds the configuration's lock.
THEOREM InvHolds == Spec => []Inv
<1>1. Spec => []TypeOK
    BY TypeCorrect
<1>2. QED
    BY <1>1, InvInit, InvNext, PTL DEF Spec

\* Whatever overlaps, crashes or times out, a ledger row is marked settled
\* only by a completed settlement whose payout was carried out.
THEOREM SettledRowsArePaid == Spec => []SettledRowsBelongToPayouts
<1>1. Inv => SettledRowsBelongToPayouts
    BY DEF Inv
<1>2. QED
    BY <1>1, InvHolds, PTL

\* Whatever overlaps, a settled row keeps its settlement for ever.
THEOREM SettlementNeverChanges == Spec => SettlementIsFinal
<1>1. ASSUME Inv, [Next]_vars
      PROVE  [\A e \in Entries : settledBy[e] # NoOne => settledBy'[e] = settledBy[e]]_vars
    <2>1. CASE \E r \in Runs : CommitSettlement(r)
        BY <1>1, <2>1, CommitKeepsSettled
    <2>2. CASE ~ \E r \in Runs : CommitSettlement(r)
        <3>1. UNCHANGED settledBy
            BY <1>1, <2>2
            DEF Next, WebhookStep, RunStep, AdminStep, ScheduledSettlement,
                ManualSettlement, RecordCommission, AddToPendingBalance,
                CommitCommission, BeginSettlement, ReadTotals,
                CreateSettlement, PayoutAccepted, PayoutRefused,
                PayoutReplyLost, MarkCompleted, MarkEntriesSettled,
                CommitFailure, LoadConfig, VerifyPayout, PatchConfig,
                SaveConfig, Crash, Tomorrow, vars, configVars, ledgerVars,
                runVars
        <3>2. QED
            BY <3>1
    <2>3. QED
        BY <2>1, <2>2
<1>2. QED
    BY <1>1, InvHolds, PTL DEF Spec, SettlementIsFinal

-----------------------------------------------------------------------------
\* A configuration row, committed or loaded, that says verified names a
\* destination some request verified; a run that has begun loaded such a
\* row.  Full-row saves of stale objects keep flag and destination together.
VerifiedInv ==
    /\ config.verified => SomeoneVerified(config.destination)
    /\ \A c \in Clients :
          snapshot[c].verified => SomeoneVerified(snapshot[c].destination)
    /\ \A r \in Runs : pc[r] # "idle" => snapshot[r].verified
    /\ \A r \in Runs : delivered[r] => pc[r] # "idle"

\* Every step keeps VerifiedInv: a copy of the configuration that says
\* verified was loaded from a row whose account somebody verified.
LEMMA VerifiedNext == TypeOK /\ VerifiedInv /\ [Next]_vars => VerifiedInv'
<1> SUFFICES ASSUME TypeOK, VerifiedInv, [Next]_vars PROVE VerifiedInv'
    OBVIOUS
<1> USE DEF VerifiedInv, SomeoneVerified, TypeOK, Clients, Config, Goto,
            configVars, ledgerVars, runVars
<1>1. ASSUME NEW e \in Entries, WebhookStep(e) PROVE VerifiedInv'
    <2>1. /\ UNCHANGED <<verifiedFor, delivered>>
          /\ config'.verified = config.verified
          /\ config'.destination = config.destination
        BY <1>1 DEF WebhookStep, RecordCommission, AddToPendingBalance,
                    CommitCommission
    <2>2. \/ UNCHANGED snapshot
          \/ snapshot' = [snapshot EXCEPT ![e] = config]
        BY <1>1 DEF WebhookStep, RecordCommission, AddToPendingBalance,
                    CommitCommission
    <2>3. \A r \in Runs : pc'[r] = pc[r] /\ snapshot'[r] = snapshot[r]
        BY <1>1, SettlementAssumption
        DEF WebhookStep, RecordCommission, AddToPendingBalance, CommitCommission
    <2>5. config'.verified =>
             \E v \in verifiedFor' : CriticalFields[v]
                                       = CriticalFields[config'.destination]
        BY <2>1
    <2>6. ASSUME NEW c \in Clients, snapshot'[c].verified
          PROVE  \E v \in verifiedFor' :
                    CriticalFields[v] = CriticalFields[snapshot'[c].destination]
        <3>1. CASE snapshot'[c] = snapshot[c]
            BY <2>1, <2>6, <3>1
        <3>2. CASE snapshot'[c] = config
            BY <2>1, <2>6, <3>2
        <3>3. QED
            BY <2>2, <3>1, <3>2
    <2>7. QED
        BY <2>1, <2>3, <2>5, <2>6
<1>2. ASSUME NEW r \in Runs, NEW force \in BOOLEAN, BeginSettlement(r, force)
      PROVE  VerifiedInv'
    BY <1>2 DEF BeginSettlement
<1>3. ASSUME NEW r \in Runs, RunStep(r) PROVE VerifiedInv'
    <2>1. /\ UNCHANGED <<snapshot, verifiedFor>>
          /\ pc[r] # "idle"
          /\ \E l \in RunPCs \ {"idle"} : pc' = [pc EXCEPT ![r] = l]
          /\ config'.verified = config.verified
          /\ config'.destination = config.destination
        BY <1>3 DEF RunStep, RunPCs, ReadTotals, CreateSettlement,
                    PayoutAccepted, PayoutRefused, PayoutReplyLost,
                    MarkCompleted, MarkEntriesSettled, CommitSettlement,
                    CommitFailure
    <2>2. \A s \in Runs : s # r => delivered'[s] = delivered[s]
        BY <1>3 DEF RunStep, ReadTotals, CreateSettlement, PayoutAccepted,
                    PayoutRefused, PayoutReplyLost, MarkCompleted,
                    MarkEntriesSettled, CommitSettlement, CommitFailure
    <2>3. QED
        BY <2>1, <2>2
<1>4. ASSUME NEW q \in Requests, LoadConfig(q) PROVE VerifiedInv'
    BY <1>4 DEF LoadConfig
<1>5. ASSUME NEW q \in Requests, VerifyPayout(q) PROVE VerifiedInv'
    BY <1>5 DEF VerifyPayout, SaveConfig
<1>6. ASSUME NEW q \in Requests, NEW d \in Destinations, PatchConfig(q, d)
      PROVE  VerifiedInv'
    <2>1. /\ config' = [snapshot[q] EXCEPT
                          !.destination = d,
                          !.verified = @ /\ CriticalFields[d]
                                 = CriticalFields[snapshot[q].destination]]
          /\ UNCHANGED <<snapshot, verifiedFor, delivered>>
        BY <1>6 DEF PatchConfig, SaveConfig
    <2>2. snapshot[q] \in Config
        OBVIOUS
    <2>3. /\ config'.destination = d
          /\ config'.verified => /\ snapshot[q].verified
                                  /\ CriticalFields[d]
                                       = CriticalFields[snapshot[q].destination]
        <3>1. ASSUME NEW b \in BOOLEAN,
                     config' = [snapshot[q] EXCEPT !.destination = d,
                                                   !.verified = b]
              PROVE  config'.destination = d /\ config'.verified = b
            BY <2>2, <3>1
        <3>2. QED
            BY <2>1, <2>2, <3>1
    <2>4. \A r \in Runs : pc'[r] = pc[r]
        BY <1>6, SettlementAssumption DEF PatchConfig, SaveConfig
    <2>5. QED
        BY <2>1, <2>3, <2>4
<1>7. ASSUME NEW c \in Clients, Crash(c) PROVE VerifiedInv'
    BY <1>7 DEF Crash, Busy
<1>8. CASE Tomorrow \/ UNCHANGED vars
    BY <1>8 DEF Tomorrow, vars
<1> HIDE DEF VerifiedInv, TypeOK
<1>9. QED
    BY <1>1, <1>2, <1>3, <1>4, <1>5, <1>6, <1>7, <1>8
    DEF Next, AdminStep, ScheduledSettlement, ManualSettlement

\* However administrators' requests, runs and webhooks interleave, a payout
\* only goes to a destination that was verified.
THEOREM VerifiedDestinations == Spec => []PayoutsGoToVerifiedAccounts
<1>1. Init => VerifiedInv
    BY DEF Init, VerifiedInv, SomeoneVerified, Clients
<1>2. VerifiedInv => PayoutsGoToVerifiedAccounts
    BY DEF VerifiedInv, PayoutsGoToVerifiedAccounts, Clients
<1>3. QED
    BY <1>1, <1>2, TypeCorrect, VerifiedNext, PTL DEF Spec

-----------------------------------------------------------------------------
\* A run and another client at work have met.
MetInv ==
    \A r \in Runs, c \in Clients : Busy(r) /\ Busy(c) /\ c # r => c \in met[r]

\* Only the client that begins adds itself to those at work, and it meets
\* them; ending, crashing and going on keep MetInv.
LEMMA MetNext == TypeOK /\ MetInv /\ [Next]_vars => MetInv'
<1> SUFFICES ASSUME TypeOK, MetInv, [Next]_vars PROVE MetInv'
    OBVIOUS
<1>1. ASSUME NEW c \in Clients, NEW l, pc[c] = "idle", Goto(c, l), Meet(c)
      PROVE  MetInv'
    BY <1>1 DEF MetInv, TypeOK, Goto, Meet, BusyClients, Busy, Clients
<1>2. ASSUME NEW c \in Clients, NEW l, Busy(c), Goto(c, l), UNCHANGED met
      PROVE  MetInv'
    BY <1>2 DEF MetInv, TypeOK, Goto, Busy
<1>3. ASSUME UNCHANGED <<pc, met>> PROVE MetInv'
    BY <1>3 DEF MetInv, Busy
<1>4. ASSUME NEW e \in Entries, WebhookStep(e) PROVE MetInv'
    <2>1. e \in Clients
        BY DEF Clients
    <2>2. CASE RecordCommission(e)
        BY <1>1, <2>1, <2>2 DEF RecordCommission
    <2>3. CASE AddToPendingBalance(e) \/ CommitCommission(e)
        <3>1. Busy(e) /\ UNCHANGED met /\ \E l : Goto(e, l)
            BY <2>3 DEF AddToPendingBalance, CommitCommission, Busy, historyVars
        <3>2. QED
            BY <1>2, <2>1, <3>1
    <2>4. QED
        BY <1>4, <2>2, <2>3 DEF WebhookStep
<1>5. ASSUME NEW r \in Runs,
             ScheduledSettlement(r) \/ ManualSettlement(r) \/ RunStep(r)
      PROVE  MetInv'
    <2>1. r \in Clients
        BY DEF Clients
    <2>2. CASE ScheduledSettlement(r) \/ ManualSettlement(r)
        BY <1>1, <2>1, <2>2
        DEF ScheduledSettlement, ManualSettlement, BeginSettlement
    <2>3. CASE RunStep(r)
        <3>1. Busy(r) /\ UNCHANGED met /\ \E l : Goto(r, l)
            BY <2>3
            DEF RunStep, ReadTotals, CreateSettlement, PayoutAccepted,
                PayoutRefused, PayoutReplyLost, MarkCompleted,
                MarkEntriesSettled, CommitSettlement, CommitFailure, Busy,
                historyVars
        <3>2. QED
            BY <1>2, <2>1, <3>1
    <2>4. QED
        BY <1>5, <2>2, <2>3
<1>6. ASSUME NEW q \in Requests, LoadConfig(q) \/ AdminStep(q) PROVE MetInv'
    <2>1. q \in Clients
        BY DEF Clients
    <2>2. CASE LoadConfig(q)
        BY <1>1, <2>1, <2>2 DEF LoadConfig
    <2>3. CASE AdminStep(q)
        <3>1. Busy(q) /\ UNCHANGED met /\ \E l : Goto(q, l)
            BY <2>3
            DEF AdminStep, VerifyPayout, PatchConfig, SaveConfig, Busy,
                historyVars
        <3>2. QED
            BY <1>2, <2>1, <3>1
    <2>4. QED
        BY <1>6, <2>2, <2>3
<1>7. ASSUME NEW c \in Clients, Crash(c) PROVE MetInv'
    BY <1>2, <1>7 DEF Crash, historyVars
<1>8. CASE Tomorrow \/ UNCHANGED vars
    BY <1>3, <1>8 DEF Tomorrow, vars, historyVars
<1>9. QED
    BY <1>4, <1>5, <1>6, <1>7, <1>8 DEF Next

\* What a run met stays met: only its own beginning sets it anew.
LEMMA MetGrows ==
    ASSUME TypeOK, [Next]_vars, NEW r \in Runs, pc[r] # "idle"
    PROVE  /\ met[r] \subseteq met'[r]
           /\ ~Busy(r) => met'[r] = met[r]
<1>1. CASE UNCHANGED met
    BY <1>1
<1>2. ASSUME NEW c \in Clients, pc[c] = "idle", Meet(c)
      PROVE  /\ met[r] \subseteq met'[r]
             /\ ~Busy(r) => met'[r] = met[r]
    BY <1>2 DEF Meet, BusyClients, TypeOK, Clients
<1>3. CASE ~UNCHANGED met
    <2>1. \E c \in Clients : pc[c] = "idle" /\ Meet(c)
        BY <1>3
        DEF Next, WebhookStep, RunStep, AdminStep, ScheduledSettlement,
            ManualSettlement, RecordCommission, AddToPendingBalance,
            CommitCommission, BeginSettlement, ReadTotals, CreateSettlement,
            PayoutAccepted, PayoutRefused, PayoutReplyLost, MarkCompleted,
            MarkEntriesSettled, CommitSettlement, CommitFailure, LoadConfig,
            VerifyPayout, PatchConfig, SaveConfig, Crash, Tomorrow, vars,
            historyVars, Clients
    <2>2. QED
        BY <1>2, <2>1
<1>4. QED
    BY <1>1, <1>3

-----------------------------------------------------------------------------
\* The run's payout may have been carried out without the program knowing.
Lost(r) == pc[r] = "aborted" \/ status[r] = "failed"

\* The rows a run totalled are none of those a run it never met totalled,
\* unless one of the two was lost: a run that committed left none of them
\* open.
PayoutInv ==
    /\ \A r \in Runs : pc[r] \in {"idle", "started"} => totalled[r] = {}
    /\ \A r \in Runs : status[r] # "none" => pc[r] = "done"
    /\ \A r \in Runs : totalled[r] \cup counted[r] \subseteq ledger
    /\ \A r \in Runs : pc[r] = "marked" =>
          \A e \in totalled[r] \cup counted[r] :
             e \in marked[r] \/ settledBy[e] # NoOne
    /\ \A r \in Runs : pc[r] = "done" /\ status[r] # "failed" =>
          \A e \in totalled[r] : settledBy[e] # NoOne
    /\ \A r, s \in Runs : r # s /\ Apart(r, s) =>
          totalled[r] \cap totalled[s] = {} \/ Lost(r) \/ Lost(s)

\* A lost run stays lost.
LEMMA LostStays ==
    ASSUME Inv, [Next]_vars, NEW r \in Runs, Lost(r),
           pc[r] \in {"aborted", "done"}
    PROVE  Lost(r)'
<1>0. TypeOK
    BY DEF Inv
<1>1. \A s \in Runs : s # r \/ ~(ScheduledSettlement(s) \/ ManualSettlement(s)
                                 \/ RunStep(s))
    BY DEF ScheduledSettlement, ManualSettlement, BeginSettlement, RunStep,
           ReadTotals, CreateSettlement, PayoutAccepted, PayoutRefused,
           PayoutReplyLost, MarkCompleted, MarkEntriesSettled,
           CommitSettlement, CommitFailure
<1>2. ASSUME NEW c \in Clients, c # r, NEW l, Goto(c, l) PROVE pc'[r] = pc[r]
    BY <1>0, <1>2 DEF Goto, TypeOK
<1>3. r \in Clients /\ \A e \in Entries : e # r /\ e \in Clients
    BY DEF Clients
<1>4. ASSUME NEW e \in Entries, WebhookStep(e) PROVE Lost(r)'
    <2>1. UNCHANGED status /\ \E l : Goto(e, l)
        BY <1>4 DEF WebhookStep, RecordCommission, AddToPendingBalance,
                    CommitCommission, ledgerVars
    <2>2. QED
        BY <1>2, <1>3, <2>1 DEF Lost
<1>5. ASSUME NEW s \in Runs, s # r,
             ScheduledSettlement(s) \/ ManualSettlement(s) \/ RunStep(s)
      PROVE  Lost(r)'
    <2>1. /\ \/ UNCHANGED status
             \/ status' = [status EXCEPT ![s] = "completed"]
             \/ status' = [status EXCEPT ![s] = "failed"]
          /\ \E l : Goto(s, l)
        BY <1>5 DEF ScheduledSettlement, ManualSettlement, BeginSettlement,
                    RunStep, ReadTotals, CreateSettlement, PayoutAccepted,
                    PayoutRefused, PayoutReplyLost, MarkCompleted,
                    MarkEntriesSettled, CommitSettlement, CommitFailure,
                    ledgerVars
    <2>2. status'[r] = status[r]
        BY <1>0, <1>5, <2>1 DEF TypeOK
    <2>3. pc'[r] = pc[r]
        BY <1>2, <1>5, <2>1 DEF Clients
    <2>4. QED
        BY <2>2, <2>3 DEF Lost
<1>6. ASSUME NEW q \in Requests, LoadConfig(q) \/ AdminStep(q) PROVE Lost(r)'
    <2>1. UNCHANGED status /\ \E l : Goto(q, l)
        BY <1>6 DEF LoadConfig, AdminStep, VerifyPayout, PatchConfig,
                    SaveConfig, ledgerVars
    <2>2. q \in Clients /\ q # r
        BY DEF Clients
    <2>3. QED
        BY <1>2, <2>1, <2>2 DEF Lost
<1>7. ASSUME NEW c \in Clients, Crash(c) PROVE Lost(r)'
    <2>1. UNCHANGED status /\ Busy(c) /\ \E l : Goto(c, l)
        BY <1>7 DEF Crash, ledgerVars
    <2>2. c # r
        BY <2>1 DEF Busy
    <2>3. QED
        BY <1>2, <2>1, <2>2 DEF Lost
<1>8. CASE Tomorrow \/ UNCHANGED vars
    BY <1>8 DEF Lost, Tomorrow, vars, ledgerVars
<1>9. QED
    BY <1>1, <1>4, <1>5, <1>6, <1>7, <1>8 DEF Next
\* Totals that do not change stay apart: runs only ever meet more.
LEMMA ApartNext ==
    ASSUME Inv, PayoutInv, [Next]_vars, UNCHANGED totalled,
           NEW r \in Runs, NEW s \in Runs, r # s, Apart(r, s)'
    PROVE  totalled'[r] \cap totalled'[s] = {} \/ Lost(r)' \/ Lost(s)'
<1>0. TypeOK
    BY DEF Inv
<1>1. CASE pc[r] = "idle" \/ pc[s] = "idle"
    BY <1>1 DEF PayoutInv
<1>2. CASE pc[r] # "idle" /\ pc[s] # "idle"
    <2>1. met[r] \subseteq met'[r] /\ met[s] \subseteq met'[s]
        BY <1>0, <1>2, MetGrows
    <2>2. Apart(r, s)
        BY <2>1 DEF Apart
    <2>3. \A x \in Runs : Lost(x) => pc[x] \in {"aborted", "done"}
        BY DEF Lost, PayoutInv
    <2>4. \A x \in {r, s} : Lost(x) => Lost(x)'
        BY <2>3, LostStays
    <2>5. QED
        BY <2>2, <2>4 DEF PayoutInv
<1>3. QED
    BY <1>1, <1>2

\* Rows a run has just totalled are apart from those of every run it never
\* met: that run is not at work, so it has totalled nothing, was lost, or has
\* left none of its rows open.
LEMMA TotalsApart ==
    ASSUME Inv, MetInv, PayoutInv, NEW s \in Runs, ReadTotals(s),
           NEW r \in Runs, r # s, Apart(r, s)'
    PROVE  totalled'[r] \cap totalled'[s] = {} \/ Lost(r)'
<1>0. TypeOK
    BY DEF Inv
<1>1. /\ totalled'[r] = totalled[r] /\ totalled'[s] = OpenEntries
      /\ pc[s] = "started" /\ pc'[r] = pc[r] /\ UNCHANGED <<met, status>>
    BY <1>0 DEF ReadTotals, TypeOK, Goto, Clients, ledgerVars, historyVars
<1>2. r \in Clients /\ Busy(s)
    BY <1>1 DEF Clients, Busy
<1>3. ~Busy(r)
    BY <1>1, <1>2 DEF MetInv, Apart
<1>4. CASE pc[r] = "idle"
    BY <1>1, <1>4 DEF PayoutInv
<1>5. CASE pc[r] = "aborted"
    BY <1>1, <1>5 DEF Lost
<1>6. CASE pc[r] = "done"
    BY <1>1, <1>6 DEF Lost, PayoutInv, OpenEntries
<1>7. QED
    BY <1>3, <1>4, <1>5, <1>6 DEF Busy

\* However runs, webhooks and administrators interleave, crash or time out,
\* every step keeps PayoutInv.
LEMMA PayoutNext == Inv /\ Inv' /\ MetInv /\ PayoutInv /\ [Next]_vars => PayoutInv'
<1> SUFFICES ASSUME Inv, Inv', MetInv, PayoutInv, [Next]_vars PROVE PayoutInv'
    OBVIOUS
<1>0. TypeOK /\ TypeOK'
    BY DEF Inv
<1> DEFINE Rest ==
        /\ \A r \in Runs : pc[r] \in {"idle", "started"} => totalled[r] = {}
        /\ \A r \in Runs : status[r] # "none" => pc[r] = "done"
        /\ \A r \in Runs : totalled[r] \cup counted[r] \subseteq ledger
        /\ \A r \in Runs : pc[r] = "marked" =>
              \A e \in totalled[r] \cup counted[r] :
                 e \in marked[r] \/ settledBy[e] # NoOne
        /\ \A r \in Runs : pc[r] = "done" /\ status[r] # "failed" =>
              \A e \in totalled[r] : settledBy[e] # NoOne
<1>1. Rest
    BY DEF PayoutInv
<1>2. Rest'
    <2> USE <1>0, <1>1 DEF TypeOK, OpenEntries, Clients, Goto,
            configVars, ledgerVars, runVars
    <2>1. ASSUME NEW e \in Entries, WebhookStep(e) PROVE Rest'
        <3>1. /\ UNCHANGED <<settledBy, status, runVars>>
              /\ ledger \subseteq ledger'
              /\ \E l : pc' = [pc EXCEPT ![e] = l]
            BY <2>1 DEF WebhookStep, RecordCommission, AddToPendingBalance,
                        CommitCommission
        <3>2. \A r \in Runs : pc'[r] = pc[r]
            BY <3>1
        <3> HIDE DEF TypeOK
        <3>3. QED
            BY <3>1, <3>2
    <2>2. ASSUME NEW r \in Runs, NEW force \in BOOLEAN, BeginSettlement(r, force)
          PROVE  Rest'
        <3>1. /\ pc[r] = "idle" /\ pc' = [pc EXCEPT ![r] = "started"]
              /\ UNCHANGED <<ledgerVars, runVars>>
            BY <2>2 DEF BeginSettlement
        <3>2. QED
            BY <3>1
    <2>3. ASSUME NEW r \in Runs, ReadTotals(r) PROVE Rest'
        BY <2>3 DEF ReadTotals
    <2>4. ASSUME NEW r \in Runs, CreateSettlement(r) PROVE Rest'
        BY <2>4 DEF CreateSettlement
    <2>5. ASSUME NEW r \in Runs,
                 PayoutAccepted(r) \/ PayoutRefused(r) \/ PayoutReplyLost(r)
          PROVE  Rest'
        <3>1. /\ pc[r] = "created"
              /\ \E l \in {"paid", "refused"} : pc' = [pc EXCEPT ![r] = l]
              /\ UNCHANGED <<ledgerVars, totalled, counted, marked>>
            BY <2>5 DEF PayoutAccepted, PayoutRefused, PayoutReplyLost
        <3>2. QED
            BY <3>1
    <2>6. ASSUME NEW r \in Runs, MarkCompleted(r) PROVE Rest'
        BY <2>6 DEF MarkCompleted
    <2>7. ASSUME NEW r \in Runs, MarkEntriesSettled(r) PROVE Rest'
        BY <2>7 DEF MarkEntriesSettled
    <2>8. ASSUME NEW r \in Runs, CommitSettlement(r) PROVE Rest'
        <3>1. \A e \in Entries : settledBy[e] # NoOne => settledBy'[e] # NoOne
            BY <2>8, CommitKeepsSettled
        <3>2. \A e \in marked[r] : settledBy'[e] = r /\ r # NoOne
            BY <2>8 DEF CommitSettlement
        <3>3. /\ pc[r] = "marked" /\ pc' = [pc EXCEPT ![r] = "done"]
              /\ status' = [status EXCEPT ![r] = "completed"]
              /\ UNCHANGED <<ledger, totalled, counted, marked>>
            BY <2>8 DEF CommitSettlement
        <3>4. QED
            BY <3>1, <3>2, <3>3
    <2>9. ASSUME NEW r \in Runs, CommitFailure(r) PROVE Rest'
        BY <2>9 DEF CommitFailure
    <2>10. ASSUME NEW q \in Requests, LoadConfig(q) \/ AdminStep(q) PROVE Rest'
        <3>1. /\ UNCHANGED <<ledgerVars, runVars>>
              /\ \E l : pc' = [pc EXCEPT ![q] = l]
            BY <2>10 DEF LoadConfig, AdminStep, VerifyPayout, PatchConfig, SaveConfig
        <3>2. QED
            BY <3>1
    <2>11. ASSUME NEW c \in Clients, Crash(c) PROVE Rest'
        BY <2>11 DEF Crash, Busy
    <2>12. CASE Tomorrow \/ UNCHANGED vars
        BY <2>12 DEF Tomorrow, vars
    <2> HIDE DEF Rest, TypeOK
    <2>13. QED
        BY <2>1, <2>2, <2>3, <2>4, <2>5, <2>6, <2>7, <2>8, <2>9, <2>10,
           <2>11, <2>12
        DEF Next, RunStep, ScheduledSettlement, ManualSettlement
<1>3. ASSUME NEW r \in Runs, NEW s \in Runs, r # s, Apart(r, s)'
      PROVE  totalled'[r] \cap totalled'[s] = {} \/ Lost(r)' \/ Lost(s)'
    <2>1. CASE UNCHANGED totalled
        BY <1>3, <2>1, ApartNext
    <2>2. CASE ReadTotals(s)
        BY <1>3, <2>2, TotalsApart
    <2>3. CASE ReadTotals(r)
        <3>1. Apart(s, r)'
            BY <1>3 DEF Apart
        <3>2. totalled'[s] \cap totalled'[r] = {} \/ Lost(s)'
            BY <1>3, <2>3, <3>1, TotalsApart
        <3>3. QED
            BY <3>2
    <2>4. ASSUME NEW x \in Runs, x # r, x # s, ReadTotals(x)
          PROVE  totalled'[r] \cap totalled'[s] = {} \/ Lost(r)' \/ Lost(s)'
        <3>1. /\ totalled'[r] = totalled[r] /\ totalled'[s] = totalled[s]
              /\ pc'[r] = pc[r] /\ pc'[s] = pc[s]
              /\ UNCHANGED <<met, status>>
            BY <1>0, <2>4 DEF ReadTotals, TypeOK, Goto, Clients, ledgerVars,
                              historyVars
        <3>2. QED
            BY <1>3, <3>1 DEF PayoutInv, Apart, Lost
    <2>5. UNCHANGED totalled \/ \E x \in Runs : ReadTotals(x)
        BY DEF Next, WebhookStep, RunStep, AdminStep, ScheduledSettlement,
               ManualSettlement, RecordCommission, AddToPendingBalance,
               CommitCommission, BeginSettlement, CreateSettlement,
               PayoutAccepted, PayoutRefused, PayoutReplyLost, MarkCompleted,
               MarkEntriesSettled, CommitSettlement, CommitFailure,
               LoadConfig, VerifyPayout, PatchConfig, SaveConfig, Crash,
               Tomorrow, vars, runVars
    <2>6. QED
        BY <2>1, <2>2, <2>3, <2>4, <2>5
<1>4. QED
    BY <1>2, <1>3 DEF PayoutInv

\* MetInv and PayoutInv hold of every behaviour.
THEOREM CommittedRunsLeaveNothing == Spec => [](Inv /\ MetInv /\ PayoutInv)
<1>1. Init => MetInv /\ PayoutInv
    BY DEF Init, MetInv, PayoutInv, Apart, Lost, Busy, Clients
<1>2. TypeOK /\ MetInv /\ [Next]_vars => MetInv'
    BY MetNext
<1>3. Inv /\ Inv' /\ MetInv /\ PayoutInv /\ [Next]_vars => PayoutInv'
    BY PayoutNext
<1>4. QED
    BY <1>1, <1>2, <1>3, InvHolds, TypeCorrect, PTL DEF Spec

\* However runs overlap, crash and time out, a ledger row is covered by two
\* payouts only if their runs were at work together or one of them was lost.
THEOREM RunsApartNeverPayTwice == Spec => []NoDoublePayout
<1>1. PayoutInv => NoDoublePayout
    BY DEF PayoutInv, NoDoublePayout, Lost, Unconfirmed
<1>2. QED
    BY <1>1, CommittedRunsLeaveNothing, PTL

-----------------------------------------------------------------------------
(***************************************************************************)
(* Money sent against money earned.  IspTotal and the sum of the transfers *)
(* are sums over finite sets (SumTheorems); the payouts' rows are disjoint *)
(* parts of the ledger, and a transfer is its part's share rounded down.   *)
(***************************************************************************)
Share == [e \in Entries |-> IspAmount(e)]

DeliveredRuns == {r \in Runs : delivered[r]}

Transfer == [r \in Runs |-> Transferred(r)]

\* The rounded commission never exceeds the payment it is taken from.
LEMMA ShareIsNat ==
    ASSUME NEW e \in Entries
    PROVE  IspAmount(e) \in Nat
<1>1. Gross[e] \in Nat
    OBVIOUS
<1>2. ASSUME NEW g \in Nat PROVE Commission(g) \in Nat /\ Commission(g) <= g
    <2>1. /\ g \div 20 \in Nat /\ g % 20 \in 0 .. 19
          /\ g = 20 * (g \div 20) + (g % 20)
        OBVIOUS
    <2>2. QED
        BY <2>1 DEF Commission
<1>3. QED
    BY <1>1, <1>2 DEF IspAmount

\* The total of some rows is the sum of their shares.
LEMMA IspTotalIsSum ==
    ASSUME NEW S \in SUBSET Entries, IsFiniteSet(S)
    PROVE  IspTotal(S) = SumOver(Share, S)
<1> DEFINE Eq(g) == g = [s \in SUBSET S |->
                IF s = {} THEN 0 ELSE IspAmount(Pick(s)) + g[s \ {Pick(s)}]]
           h == CHOOSE g : Eq(g)
<1>1. IspTotal(S) = h[S]
    BY Zenon DEF IspTotal, MapThenSumSet, MapThenFoldSet, Pick
<1>2. \A s \in SUBSET S : s # {} => Share[Pick(s)] = IspAmount(Pick(s))
    BY PickIn DEF Share
<1>3. \A g : IsTable(g, Share, S) <=> Eq(g)
    BY <1>2 DEF IsTable
<1> HIDE DEF Eq
<1>4. \E g : Eq(g)
    BY Zenon, <1>3, TableExists
<1>5. IsTable(h, Share, S)
    BY <1>3, <1>4
<1> HIDE DEF h
<1>6. SumOver(Share, S) = h[S]
    BY <1>5, SumIsTable
<1>7. QED
    BY <1>1, <1>6

\* What PayHero carried out is the sum of the delivered runs' transfers.
LEMMA TransfersAreSum ==
    ASSUME NEW D \in SUBSET Runs, IsFiniteSet(D)
    PROVE  MapThenSumSet(Transferred, D) = SumOver(Transfer, D)
<1> DEFINE Eq(g) == g = [s \in SUBSET D |->
                IF s = {} THEN 0 ELSE Transferred(Pick(s)) + g[s \ {Pick(s)}]]
           h == CHOOSE g : Eq(g)
<1>1. MapThenSumSet(Transferred, D) = h[D]
    BY Zenon DEF MapThenSumSet, MapThenFoldSet, Pick
<1>2. \A s \in SUBSET D : s # {} => Transfer[Pick(s)] = Transferred(Pick(s))
    BY PickIn DEF Transfer
<1>3. \A g : IsTable(g, Transfer, D) <=> Eq(g)
    BY <1>2 DEF IsTable
<1> HIDE DEF Eq
<1>4. \E g : Eq(g)
    BY Zenon, <1>3, TableExists
<1>5. IsTable(h, Transfer, D)
    BY <1>3, <1>4
<1> HIDE DEF h
<1>6. SumOver(Transfer, D) = h[D]
    BY <1>5, SumIsTable
<1>7. QED
    BY <1>1, <1>6

\* Only finitely many rows and payouts at any time, and a payout's rows are
\* in the ledger.
FiniteInv ==
    /\ IsFiniteSet(ledger)
    /\ IsFiniteSet(DeliveredRuns)

\* A step adds at most one row and at most one payout.
LEMMA FiniteNext == TypeOK /\ FiniteInv /\ [Next]_vars => FiniteInv'
<1> SUFFICES ASSUME TypeOK, FiniteInv, [Next]_vars PROVE FiniteInv'
    OBVIOUS
<1>1. ASSUME NEW e \in Entries, CommitCommission(e) PROVE FiniteInv'
    <2>1. ledger' = ledger \cup {e} /\ DeliveredRuns' = DeliveredRuns
        BY <1>1 DEF CommitCommission, runVars, DeliveredRuns
    <2>2. IsFiniteSet(ledger \cup {e})
        BY FS_AddElement DEF FiniteInv
    <2>3. QED
        BY Zenon, <2>1, <2>2 DEF FiniteInv
<1>2. ASSUME NEW r \in Runs, PayoutAccepted(r) \/ PayoutReplyLost(r)
      PROVE  FiniteInv'
    <2>1. ledger' = ledger /\ delivered' = [delivered EXCEPT ![r] = TRUE]
        BY <1>2 DEF PayoutAccepted, PayoutReplyLost, ledgerVars
    <2>2. DeliveredRuns' = DeliveredRuns \cup {r}
        BY <2>1 DEF DeliveredRuns, TypeOK
    <2>3. IsFiniteSet(DeliveredRuns \cup {r})
        BY FS_AddElement DEF FiniteInv
    <2>4. QED
        BY Zenon, <2>1, <2>2, <2>3 DEF FiniteInv
<1>3. CASE /\ ~ \E e \in Entries : CommitCommission(e)
           /\ ~ \E r \in Runs : PayoutAccepted(r) \/ PayoutReplyLost(r)
    <2>1. UNCHANGED <<ledger, delivered>>
        BY <1>3
        DEF Next, WebhookStep, RunStep, AdminStep, ScheduledSettlement,
            ManualSettlement, RecordCommission, AddToPendingBalance,
            BeginSettlement, ReadTotals, CreateSettlement, PayoutRefused,
            MarkCompleted, MarkEntriesSettled, CommitSettlement,
            CommitFailure, LoadConfig, VerifyPayout, PatchConfig, SaveConfig,
            Crash, Tomorrow, vars, configVars, ledgerVars, runVars
    <2>2. DeliveredRuns' = DeliveredRuns
        BY <2>1 DEF DeliveredRuns
    <2>3. QED
        BY Zenon, <2>1, <2>2 DEF FiniteInv
<1>4. QED
    BY <1>1, <1>2, <1>3

\* FiniteInv needs no assumption on Entries and Runs.
THEOREM FinitelyManySoFar == Spec => []FiniteInv
<1>1. Init => FiniteInv
    <2> SUFFICES ASSUME Init PROVE FiniteInv
        OBVIOUS
    <2>1. ledger = {} /\ DeliveredRuns = {}
        BY DEF Init, DeliveredRuns
    <2>2. IsFiniteSet({})
        BY FS_EmptySet
    <2>3. QED
        BY Zenon, <2>1, <2>2 DEF FiniteInv
<1>2. QED
    BY <1>1, FiniteNext, TypeCorrect, PTL DEF Spec

\* Disjoint payouts, each of at most its rows' share, stay within the share
\* of the whole ledger.
LEMMA PayoutsWithinLedger ==
    ASSUME Inv, PayoutInv, FiniteInv
    PROVE  PaidWithinShare
<1> SUFFICES ASSUME NEW D \in SUBSET {r \in Runs : delivered[r] /\ ~Unconfirmed(r)},
                    \A r, s \in D : r # s => Apart(r, s)
             PROVE  MapThenSumSet(Transferred, D) <= IspTotal(ledger)
    BY DEF PaidWithinShare
<1>1. ledger \in SUBSET Entries /\ D \in SUBSET Runs /\ D \in SUBSET DeliveredRuns
    BY DEF Inv, TypeOK, DeliveredRuns
<1>2. \A r \in D : totalled[r] \in SUBSET ledger
    BY <1>1 DEF PayoutInv
<1>3. \A r, s \in D : r # s => totalled[r] \cap totalled[s] = {}
    BY <1>1 DEF PayoutInv, Lost, Unconfirmed
<1>4. \A e \in ledger : Share[e] \in Nat
    BY <1>1, ShareIsNat DEF Share
<1>5. \A r \in D :
         Transfer[r] \in Int /\ Transfer[r] <= SumOver(Share, totalled[r])
    <2> SUFFICES ASSUME NEW r \in D
                 PROVE  /\ Transfer[r] \in Int
                        /\ Transfer[r] <= SumOver(Share, totalled[r])
        OBVIOUS
    <2>1. totalled[r] \in SUBSET ledger /\ totalled[r] \in SUBSET Entries
        BY <1>1, <1>2
    <2>2. IsFiniteSet(totalled[r])
        BY <2>1, FS_Subset DEF FiniteInv
    <2>3. NetAmount(r) = SumOver(Share, totalled[r])
        BY <2>1, <2>2, IspTotalIsSum DEF NetAmount
    <2>4. SumOver(Share, totalled[r]) \in Nat
        BY <1>4, <2>1, <2>2, SumNat
    <2>5. Transfer[r] = 100 * (NetAmount(r) \div 100)
        BY <1>1 DEF Transfer, Transferred
    <2>6. ASSUME NEW n \in Nat PROVE 100 * (n \div 100) \in Int /\ 100 * (n \div 100) <= n
        OBVIOUS
    <2>7. QED
        BY <2>3, <2>4, <2>5, <2>6
<1>6. IsFiniteSet(ledger) /\ IsFiniteSet(D)
    BY <1>1, FS_Subset DEF FiniteInv
<1>7. SumOver(Transfer, D) <= SumOver(Share, ledger)
    BY <1>2, <1>3, <1>4, <1>5, <1>6, SumOfParts
<1>8. MapThenSumSet(Transferred, D) = SumOver(Transfer, D)
    BY <1>1, <1>6, TransfersAreSum
<1>9. IspTotal(ledger) = SumOver(Share, ledger)
    BY <1>1, <1>6, IspTotalIsSum
<1>10. QED
    BY <1>7, <1>8, <1>9

\* However many payments, payouts and amounts there are, and whatever crashes
\* or times out meanwhile: confirmed payouts of runs that were not at work
\* together never exceed the ISP's share of what was collected.
THEOREM RunsApartNeverOverpay == Spec => []PaidWithinShare
<1>1. Inv /\ PayoutInv /\ FiniteInv => PaidWithinShare
    BY PayoutsWithinLedger
<1>2. QED
    BY <1>1, CommittedRunsLeaveNothing, FinitelyManySoFar, PTL

-----------------------------------------------------------------------------
\* What a statement of the run read, against what is open and settled now:
\* rows that came since are of webhooks the run met, rows that went were
\* settled by runs it met.
DiffersByMet(r, S) ==
    /\ OpenEntries \ S \subseteq met[r]
    /\ \A e \in S : settledBy[e] \in met[r] \cup {NoOne}

ReadInv ==
    /\ \A r \in Runs :
          pc[r] \in {"totalled", "created", "paid", "cleared", "marked"} =>
             DiffersByMet(r, totalled[r])
    /\ \A r \in Runs : pc[r] \in {"created", "paid", "cleared", "marked"} =>
          DiffersByMet(r, counted[r])
    /\ DifferencesAreOverlaps

\* While a run is at work, what it read differs from the tables by what those
\* it met have done: a webhook or run that commits has met it.
LEMMA DiffersNext ==
    ASSUME Inv, MetInv, [Next]_vars, NEW r \in Runs, Busy(r),
           ~CommitSettlement(r), NEW S \in SUBSET Entries, DiffersByMet(r, S)
    PROVE  DiffersByMet(r, S)'
<1>0. TypeOK /\ r \in Clients
    BY DEF Inv, Clients
<1>1. met[r] \subseteq met'[r]
    BY <1>0, MetGrows DEF Busy
<1>2. CASE UNCHANGED <<ledger, settledBy>>
    BY <1>1, <1>2 DEF DiffersByMet, OpenEntries
<1>3. ASSUME NEW e \in Entries, CommitCommission(e) PROVE DiffersByMet(r, S)'
    <2>1. e \in met[r]
        BY <1>0, <1>3, SettlementAssumption
        DEF CommitCommission, Busy, MetInv, Clients
    <2>2. ledger' = ledger \cup {e} /\ settledBy' = settledBy
        BY <1>3 DEF CommitCommission
    <2>3. QED
        BY <1>1, <2>1, <2>2 DEF DiffersByMet, OpenEntries
<1>4. ASSUME NEW s \in Runs, CommitSettlement(s) PROVE DiffersByMet(r, S)'
    <2>1. s \in met[r]
        BY <1>0, <1>4 DEF CommitSettlement, Busy, MetInv, Clients
    <2>2. /\ ledger' = ledger
          /\ settledBy' = [e \in Entries |->
                             IF e \in marked[s] THEN s ELSE settledBy[e]]
        BY <1>4 DEF CommitSettlement
    <2>3. s # NoOne
        BY SettlementAssumption
    <2>4. QED
        BY <1>0, <1>1, <2>1, <2>2, <2>3 DEF DiffersByMet, OpenEntries, TypeOK
<1>5. \/ UNCHANGED <<ledger, settledBy>>
      \/ \E e \in Entries : CommitCommission(e)
      \/ \E s \in Runs : CommitSettlement(s)
    BY DEF Next, WebhookStep, RunStep, AdminStep, ScheduledSettlement,
           ManualSettlement, RecordCommission, AddToPendingBalance,
           BeginSettlement, ReadTotals, CreateSettlement, PayoutAccepted,
           PayoutRefused, PayoutReplyLost, MarkCompleted, MarkEntriesSettled,
           CommitFailure, LoadConfig, VerifyPayout, PatchConfig, SaveConfig,
           Crash, Tomorrow, vars, ledgerVars
<1>6. QED
    BY <1>2, <1>3, <1>4, <1>5

\* A run that is not over has settled nothing.
LEMMA NothingSettledYet ==
    ASSUME Inv, NEW r \in Runs, pc[r] # "done"
    PROVE  \A e \in Entries : settledBy[e] # r
BY SettlementAssumption DEF Inv, OwnerInv, TypeOK

\* The commit of a run turns what it read differently into differences
\* between what it paid and counted and what is linked to it.
LEMMA CommitDiffers ==
    ASSUME Inv, PayoutInv, ReadInv, NEW r \in Runs, CommitSettlement(r),
           NEW S \in {totalled[r], counted[r]}
    PROVE  /\ LinkedRows(r)' \ S \subseteq met[r]
           /\ \A e \in S \ LinkedRows(r)' : settledBy'[e] \in met[r]
<1>0. TypeOK
    BY DEF Inv
<1>1. /\ pc[r] = "marked" /\ ledger' = ledger
      /\ settledBy' = [e \in Entries |->
                         IF e \in marked[r] THEN r ELSE settledBy[e]]
    BY DEF CommitSettlement
<1>2. DiffersByMet(r, S) /\ S \subseteq Entries
    BY <1>0, <1>1 DEF ReadInv, TypeOK
<1>3. \A e \in S : e \in marked[r] \/ settledBy[e] # NoOne
    BY <1>1 DEF PayoutInv
<1>4. marked[r] \subseteq OpenEntries /\ marked[r] \subseteq Entries
    BY <1>0, <1>1 DEF Inv, MarkedInv, OpenEntries, TypeOK
<1>5. LinkedRows(r)' = marked[r]
    BY <1>1, <1>4, NothingSettledYet DEF LinkedRows
<1>6. QED
    BY <1>1, <1>2, <1>3, <1>4, <1>5 DEF DiffersByMet

\* A run that is over keeps what it read, whom it met and its status.
LEMMA OverStays ==
    ASSUME Inv, [Next]_vars, NEW r \in Runs, pc[r] = "done"
    PROVE  /\ pc'[r] = "done" /\ met'[r] = met[r] /\ status'[r] = status[r]
           /\ totalled'[r] = totalled[r] /\ counted'[r] = counted[r]
<1>0. TypeOK
    BY DEF Inv
<1>1. met'[r] = met[r]
    BY <1>0, MetGrows DEF Busy
<1>2. ASSUME NEW c \in Clients, c # r, NEW l, Goto(c, l) PROVE pc'[r] = pc[r]
    BY <1>0, <1>2 DEF Goto, TypeOK
<1>3. ASSUME NEW c \in Entries \cup Requests PROVE c \in Clients /\ c # r
    BY SettlementAssumption DEF Clients
<1>4. CASE \E e \in Entries : WebhookStep(e)
    <2>1. PICK e \in Entries : WebhookStep(e)
        BY <1>4
    <2>2. UNCHANGED <<status, totalled, counted>> /\ \E l : Goto(e, l)
        BY <2>1 DEF WebhookStep, RecordCommission, AddToPendingBalance,
                    CommitCommission, ledgerVars, runVars
    <2>3. QED
        BY <1>1, <1>2, <1>3, <2>2
<1>5. ASSUME NEW s \in Runs,
             ScheduledSettlement(s) \/ ManualSettlement(s) \/ RunStep(s)
      PROVE  /\ pc'[r] = "done" /\ status'[r] = status[r]
             /\ totalled'[r] = totalled[r] /\ counted'[r] = counted[r]
    <2>1. /\ pc[s] # "done" /\ \E l : Goto(s, l)
          /\ \/ UNCHANGED status
             \/ status' = [status EXCEPT ![s] = "completed"]
             \/ status' = [status EXCEPT ![s] = "failed"]
          /\ \/ UNCHANGED totalled
             \/ totalled' = [totalled EXCEPT ![s] = OpenEntries]
          /\ \/ UNCHANGED counted
             \/ counted' = [counted EXCEPT ![s] = OpenEntries]
        BY <1>5 DEF ScheduledSettlement, ManualSettlement, BeginSettlement,
                    RunStep, ReadTotals, CreateSettlement, PayoutAccepted,
                    PayoutRefused, PayoutReplyLost, MarkCompleted,
                    MarkEntriesSettled, CommitSettlement, CommitFailure,
                    ledgerVars, runVars
    <2>2. s # r /\ s \in Clients
        BY <2>1 DEF Clients
    <2>3. pc'[r] = "done"
        BY <1>2, <2>1, <2>2
    <2>4. QED
        BY <1>0, <2>1, <2>2, <2>3 DEF TypeOK
<1>6. CASE \E q \in Requests : LoadConfig(q) \/ AdminStep(q)
    <2>1. PICK q \in Requests : LoadConfig(q) \/ AdminStep(q)
        BY <1>6
    <2>2. UNCHANGED <<status, totalled, counted>> /\ \E l : Goto(q, l)
        BY <2>1 DEF LoadConfig, AdminStep, VerifyPayout, PatchConfig,
                    SaveConfig, ledgerVars, runVars
    <2>3. QED
        BY <1>1, <1>2, <1>3, <2>2
<1>7. CASE \E c \in Clients : Crash(c)
    <2>1. PICK c \in Clients : Crash(c)
        BY <1>7
    <2>2. /\ UNCHANGED <<status, totalled, counted>>
          /\ Busy(c) /\ \E l : Goto(c, l)
        BY <2>1 DEF Crash, ledgerVars, runVars
    <2>3. c # r
        BY <2>2 DEF Busy
    <2>4. QED
        BY <1>1, <1>2, <2>2, <2>3
<1>8. CASE Tomorrow \/ UNCHANGED vars
    BY <1>1, <1>8 DEF Tomorrow, vars, ledgerVars, runVars
<1>9. QED
    BY <1>1, <1>4, <1>5, <1>6, <1>7, <1>8 DEF Next

\* What a run that goes on has read stays as it was read: ReadTotals and
\* CreateSettlement are the only statements that read.
LEMMA ReadsStay ==
    ASSUME Inv, [Next]_vars, NEW r \in Runs
    PROVE  /\ pc'[r] \in {"totalled", "created", "paid", "cleared", "marked"} =>
                \/ ReadTotals(r)
                \/ /\ pc[r] \in {"totalled", "created", "paid", "cleared", "marked"}
                   /\ totalled'[r] = totalled[r] /\ ~CommitSettlement(r)
           /\ pc'[r] \in {"created", "paid", "cleared", "marked"} =>
                \/ CreateSettlement(r)
                \/ /\ pc[r] \in {"created", "paid", "cleared", "marked"}
                   /\ counted'[r] = counted[r] /\ ~CommitSettlement(r)
<1> DEFINE Same == /\ pc'[r] = pc[r] /\ totalled'[r] = totalled[r]
                   /\ counted'[r] = counted[r]
<1>0. TypeOK /\ r \in Clients
    BY DEF Inv, Clients
<1>1. ASSUME NEW c \in Clients, c # r, NEW l, Goto(c, l) PROVE pc'[r] = pc[r]
    BY <1>0, <1>1 DEF Goto, TypeOK
<1>2. CASE Same
    <2>1. CommitSettlement(r) => pc'[r] = "done"
        BY <1>0 DEF CommitSettlement, Goto, TypeOK
    <2>2. QED
        BY <1>2, <2>1
<1>3. ASSUME NEW e \in Entries, WebhookStep(e) PROVE Same
    <2>1. UNCHANGED <<totalled, counted>> /\ \E l : Goto(e, l)
        BY <1>3 DEF WebhookStep, RecordCommission, AddToPendingBalance,
                    CommitCommission, runVars
    <2>2. e \in Clients /\ e # r
        BY SettlementAssumption DEF Clients
    <2>3. QED
        BY <1>1, <2>1, <2>2
<1>4. ASSUME NEW s \in Runs, s # r,
             ScheduledSettlement(s) \/ ManualSettlement(s) \/ RunStep(s)
      PROVE  Same
    <2>1. /\ \E l : Goto(s, l)
          /\ \/ UNCHANGED totalled
             \/ totalled' = [totalled EXCEPT ![s] = OpenEntries]
          /\ \/ UNCHANGED counted
             \/ counted' = [counted EXCEPT ![s] = OpenEntries]
        BY <1>4 DEF ScheduledSettlement, ManualSettlement, BeginSettlement,
                    RunStep, ReadTotals, CreateSettlement, PayoutAccepted,
                    PayoutRefused, PayoutReplyLost, MarkCompleted,
                    MarkEntriesSettled, CommitSettlement, CommitFailure,
                    runVars
    <2>2. s \in Clients
        BY DEF Clients
    <2>3. QED
        BY <1>0, <1>1, <1>4, <2>1, <2>2 DEF TypeOK
<1>5. CASE ScheduledSettlement(r) \/ ManualSettlement(r) \/ RunStep(r)
    <2>1. CASE ScheduledSettlement(r) \/ ManualSettlement(r)
        <3>1. pc'[r] = "started"
            BY <1>0, <2>1 DEF ScheduledSettlement, ManualSettlement,
                              BeginSettlement, Goto, TypeOK
        <3>2. QED
            BY <3>1
    <2>2. CASE RunStep(r)
        BY <1>0, <2>2 DEF RunStep, ReadTotals, CreateSettlement, PayoutAccepted,
                    PayoutRefused, PayoutReplyLost, MarkCompleted,
                    MarkEntriesSettled, CommitSettlement, CommitFailure,
                    Goto, TypeOK, runVars
    <2>3. QED
        BY <1>5, <2>1, <2>2
<1>6. ASSUME NEW q \in Requests, LoadConfig(q) \/ AdminStep(q) PROVE Same
    <2>1. UNCHANGED <<totalled, counted>> /\ \E l : Goto(q, l)
        BY <1>6 DEF LoadConfig, AdminStep, VerifyPayout, PatchConfig,
                    SaveConfig, runVars
    <2>2. q \in Clients /\ q # r
        BY SettlementAssumption DEF Clients
    <2>3. QED
        BY <1>1, <2>1, <2>2
<1>7. ASSUME NEW c \in Clients, Crash(c)
      PROVE  Same \/ pc'[r] \in {"aborted", "idle"}
    <2>1. /\ UNCHANGED <<totalled, counted>>
          /\ \E l \in {"aborted", "idle"} : Goto(c, l)
        BY <1>7 DEF Crash, runVars
    <2>2. CASE c = r
        BY <1>0, <2>1, <2>2 DEF Goto, TypeOK
    <2>3. CASE c # r
        BY <1>1, <2>1, <2>3
    <2>4. QED
        BY <2>2, <2>3
<1>8. CASE Tomorrow \/ UNCHANGED vars
    BY <1>2, <1>8 DEF Tomorrow, vars, runVars
<1>9. QED
    BY <1>2, <1>3, <1>4, <1>5, <1>6, <1>7, <1>8 DEF Next

\* However clients overlap, crash and time out, every step keeps ReadInv.
LEMMA ReadNext ==
    Inv /\ MetInv /\ PayoutInv /\ ReadInv /\ [Next]_vars => ReadInv'
<1> SUFFICES ASSUME Inv, MetInv, PayoutInv, ReadInv, [Next]_vars PROVE ReadInv'
    OBVIOUS
<1>0. TypeOK
    BY DEF Inv
<1>1. ASSUME NEW r \in Runs,
             pc'[r] \in {"totalled", "created", "paid", "cleared", "marked"}
      PROVE  DiffersByMet(r, totalled[r])'
    <2>1. CASE ReadTotals(r)
        <3>1. totalled'[r] = OpenEntries'
            BY <1>0, <2>1 DEF ReadTotals, TypeOK, OpenEntries, ledgerVars
        <3>2. QED
            BY <3>1 DEF DiffersByMet, OpenEntries
    <2>2. CASE ~ReadTotals(r)
        <3>1. /\ pc[r] \in {"totalled", "created", "paid", "cleared", "marked"}
              /\ totalled'[r] = totalled[r] /\ ~CommitSettlement(r)
            BY <1>1, <2>2, ReadsStay
        <3>2. Busy(r) /\ totalled[r] \in SUBSET Entries /\ DiffersByMet(r, totalled[r])
            BY <1>0, <3>1 DEF Busy, TypeOK, ReadInv
        <3>3. \A S \in SUBSET Entries : DiffersByMet(r, S) => DiffersByMet(r, S)'
            BY <3>1, <3>2, DiffersNext
        <3>4. QED
            BY <3>1, <3>2, <3>3 DEF DiffersByMet
    <2>3. QED
        BY <2>1, <2>2
<1>2. ASSUME NEW r \in Runs,
             pc'[r] \in {"created", "paid", "cleared", "marked"}
      PROVE  DiffersByMet(r, counted[r])'
    <2>1. CASE CreateSettlement(r)
        <3>1. counted'[r] = OpenEntries'
            BY <1>0, <2>1 DEF CreateSettlement, TypeOK, OpenEntries, ledgerVars
        <3>2. QED
            BY <3>1 DEF DiffersByMet, OpenEntries
    <2>2. CASE ~CreateSettlement(r)
        <3>1. /\ pc[r] \in {"created", "paid", "cleared", "marked"}
              /\ counted'[r] = counted[r] /\ ~CommitSettlement(r)
            BY <1>2, <2>2, ReadsStay
        <3>2. Busy(r) /\ counted[r] \in SUBSET Entries /\ DiffersByMet(r, counted[r])
            BY <1>0, <3>1 DEF Busy, TypeOK, ReadInv
        <3>3. \A S \in SUBSET Entries : DiffersByMet(r, S) => DiffersByMet(r, S)'
            BY <3>1, <3>2, DiffersNext
        <3>4. QED
            BY <3>1, <3>2, <3>3 DEF DiffersByMet
    <2>3. QED
        BY <2>1, <2>2
<1>3. ASSUME NEW r \in Runs, status'[r] = "completed"
      PROVE  \A S \in {totalled'[r], counted'[r]} :
                /\ LinkedRows(r)' \ S \subseteq met'[r]
                /\ \A e \in S \ LinkedRows(r)' : settledBy'[e] \in met'[r]
    <2>1. CASE CommitSettlement(r)
        <3>1. UNCHANGED <<totalled, counted, met>>
            BY <2>1 DEF CommitSettlement, runVars
        <3>2. QED
            BY <2>1, <3>1, CommitDiffers
    <2>2. CASE ~CommitSettlement(r)
        <3>1. status[r] = "completed"
            <4>1. \/ UNCHANGED status
                  \/ \E s \in Runs : CommitSettlement(s) \/ CommitFailure(s)
                BY DEF Next, WebhookStep, RunStep, AdminStep,
                       ScheduledSettlement, ManualSettlement, RecordCommission,
                       AddToPendingBalance, CommitCommission, BeginSettlement,
                       ReadTotals, CreateSettlement, PayoutAccepted,
                       PayoutRefused, PayoutReplyLost, MarkCompleted,
                       MarkEntriesSettled, LoadConfig, VerifyPayout,
                       PatchConfig, SaveConfig, Crash, Tomorrow, vars,
                       ledgerVars
            <4>2. QED
                BY <1>0, <1>3, <2>2, <4>1
                DEF CommitSettlement, CommitFailure, TypeOK
        <3>2. pc[r] = "done"
            BY <3>1 DEF PayoutInv
        <3>3. /\ met'[r] = met[r] /\ totalled'[r] = totalled[r]
              /\ counted'[r] = counted[r]
            BY <3>2, OverStays
        <3>4. \A e \in Entries :
                 /\ settledBy[e] # NoOne => settledBy'[e] = settledBy[e]
                 /\ settledBy'[e] = r => settledBy[e] = r
            <4>1. ASSUME NEW s \in Runs, CommitSettlement(s)
                  PROVE  \A e \in Entries :
                            /\ settledBy[e] # NoOne => settledBy'[e] = settledBy[e]
                            /\ settledBy'[e] = r => settledBy[e] = r
                <5>1. s # r
                    BY <2>2, <4>1
                <5>2. settledBy' = [e \in Entries |->
                                      IF e \in marked[s] THEN s ELSE settledBy[e]]
                    BY <4>1 DEF CommitSettlement
                <5>3. QED
                    BY <4>1, <5>1, <5>2, CommitKeepsSettled
            <4>2. UNCHANGED settledBy \/ \E s \in Runs : CommitSettlement(s)
                BY DEF Next, WebhookStep, RunStep, AdminStep,
                       ScheduledSettlement, ManualSettlement, RecordCommission,
                       AddToPendingBalance, CommitCommission, BeginSettlement,
                       ReadTotals, CreateSettlement, PayoutAccepted,
                       PayoutRefused, PayoutReplyLost, MarkCompleted,
                       MarkEntriesSettled, CommitFailure, LoadConfig,
                       VerifyPayout, PatchConfig, SaveConfig, Crash, Tomorrow,
                       vars, ledgerVars
            <4>3. QED
                BY <4>1, <4>2
        <3>5. /\ met[r] \subseteq Clients /\ NoOne \notin Clients /\ r # NoOne
              /\ totalled[r] \subseteq Entries /\ counted[r] \subseteq Entries
            BY <1>0, SettlementAssumption DEF TypeOK, Clients
        <3>6. LinkedRows(r)' = LinkedRows(r)
            BY <3>4, <3>5 DEF LinkedRows
        <3>7. \A S \in {totalled[r], counted[r]} :
                 /\ LinkedRows(r) \ S \subseteq met[r]
                 /\ \A e \in S \ LinkedRows(r) : settledBy[e] \in met[r]
            BY <3>1 DEF ReadInv, DifferencesAreOverlaps
        <3>8. QED
            BY <3>3, <3>4, <3>5, <3>6, <3>7
    <2>3. QED
        BY <2>1, <2>2
<1>4. QED
    BY <1>1, <1>2, <1>3 DEF ReadInv, DifferencesAreOverlaps

\* Whatever overlaps, where the rows a completed settlement paid or counted
\* differ from those linked to it, a webhook or run it met is the cause.
THEOREM OnlyOverlapsDiffer == Spec => []DifferencesAreOverlaps
<1>1. Init => ReadInv
    <2> SUFFICES ASSUME Init PROVE ReadInv
        OBVIOUS
    <2>1. \A r \in Runs : pc[r] = "idle" /\ status[r] = "none"
        BY DEF Init, Clients
    <2>2. QED
        BY <2>1 DEF ReadInv, DifferencesAreOverlaps
<1>2. Inv /\ MetInv /\ PayoutInv /\ ReadInv /\ [Next]_vars => ReadInv'
    BY ReadNext
<1>3. ReadInv => DifferencesAreOverlaps
    BY DEF ReadInv
<1>4. QED
    BY <1>1, <1>2, <1>3, CommittedRunsLeaveNothing, PTL DEF Spec
=============================================================================
