---------------------- MODULE SettlementAccountProofs ----------------------
(***************************************************************************)
(* Settlement implements IspAccount, for every set of ledger rows, runs    *)
(* and requests and every amount, whatever overlaps, crashes or times out; *)
(* and the pending balance is the sum of the unsettled shares until two    *)
(* clients overlap, and again after a settlement with none beside it.      *)
(*                                                                         *)
(* The argument: until clients overlap at most one is at work, and what it *)
(* read is still so when it writes, because nobody else wrote meanwhile.   *)
(* A run that met nobody reads, pays and settles everything open and       *)
(* leaves a balance of zero, however wrong the balance was (AloneInv).  So *)
(* a webhook's commit and a settlement's commit are the steps of the       *)
(* account, an overlap makes it inexact, and every other step leaves it    *)
(* alone or overwrites an inexact balance.                                 *)
(***************************************************************************)
EXTENDS SettlementProofs

\* Until clients overlap at most one is at work, and it has met nobody.
OneAtWork ==
    /\ ~drift => \A c, d \in Clients : Busy(c) /\ Busy(d) => c = d
    /\ ~drift => \A r \in Runs : Busy(r) => met[r] = {}

\* The balance such a client read is still so.
BalancesRead ==
    /\ ~drift => \A e \in Entries : pc[e] \in {"recorded", "added"} =>
          snapshot[e].balance = config.balance
    /\ ~drift => \A e \in Entries : pc[e] = "added" =>
          staged = config.balance + IspAmount(e)
    /\ ~drift => \A q \in Requests : pc[q] = "loaded" =>
          snapshot[q].balance = config.balance

\* A webhook's row is new, a run that has cleared the balance writes zero,
\* and a run that met nobody settles everything open.
AloneInv ==
    /\ \A e \in Entries : pc[e] \in {"recorded", "added"} => e \notin ledger
    /\ \A r \in Runs : pc[r] \in {"cleared", "marked"} => staged = 0
    /\ \A r \in Runs :
          met[r] = {} /\ pc[r] \in {"created", "paid", "cleared", "marked"} =>
             OpenEntries # {}
    /\ \A r \in Runs : met[r] = {} /\ pc[r] = "marked" => marked[r] = OpenEntries

-----------------------------------------------------------------------------
\* A client that begins beside another makes the balance inexact; a run that
\* met nobody is the last at work when it commits.
LEMMA OneAtWorkNext ==
    TypeOK /\ MetInv /\ OneAtWork /\ [Next]_vars => OneAtWork'
<1> SUFFICES ASSUME TypeOK, MetInv, OneAtWork, [Next]_vars PROVE OneAtWork'
    OBVIOUS
<1> USE DEF OneAtWork, Clients
<1>1. ASSUME NEW c \in Clients, NEW l, pc[c] = "idle", Goto(c, l), Meet(c)
      PROVE  OneAtWork'
    <2>1. CASE drift \/ BusyClients # {}
        BY <1>1, <2>1 DEF Meet
    <2>2. CASE ~drift /\ BusyClients = {}
        <3>1. \A d \in Clients : d # c => ~Busy(d)'
            BY <1>1, <2>2 DEF BusyClients, Busy, Goto, TypeOK
        <3>2. \A r \in Runs : r = c => met'[r] = {}
            BY <1>1, <2>2 DEF Meet
        <3>3. QED
            BY <3>1, <3>2
    <2>3. QED
        BY <2>1, <2>2
<1>2. ASSUME NEW c \in Clients, NEW l, Busy(c), Goto(c, l), UNCHANGED historyVars
      PROVE  OneAtWork'
    <2>1. \A d \in Clients : Busy(d)' => Busy(d)
        BY <1>2 DEF Goto, Busy, TypeOK
    <2>2. QED
        BY <1>2, <2>1 DEF historyVars
<1>3. ASSUME NEW r \in Runs, CommitSettlement(r) PROVE OneAtWork'
    <2>1. /\ Busy(r) /\ ~Busy(r)' /\ met' = met
          /\ drift' = (drift /\ met[r] # {})
          /\ \A d \in Clients : Busy(d)' => Busy(d)
        BY <1>3 DEF CommitSettlement, Goto, Busy, TypeOK
    <2>2. CASE drift /\ met[r] = {}
        <3>1. \A d \in Clients : d # r => ~Busy(d)
            BY <2>1, <2>2 DEF MetInv
        <3>2. QED
            BY <2>1, <3>1
    <2>3. CASE ~(drift /\ met[r] = {})
        BY <2>1, <2>3
    <2>4. QED
        BY <2>2, <2>3
<1>4. ASSUME UNCHANGED <<pc, historyVars>> PROVE OneAtWork'
    BY <1>4 DEF Busy, historyVars
<1> HIDE DEF OneAtWork
<1>5. ASSUME NEW e \in Entries, WebhookStep(e) PROVE OneAtWork'
    <2>1. CASE RecordCommission(e)
        BY <1>1, <2>1 DEF RecordCommission
    <2>2. CASE AddToPendingBalance(e) \/ CommitCommission(e)
        <3>1. Busy(e) /\ UNCHANGED historyVars /\ \E l : Goto(e, l)
            BY <2>2 DEF AddToPendingBalance, CommitCommission, Busy
        <3>2. QED
            BY <1>2, <3>1
    <2>3. QED
        BY <1>5, <2>1, <2>2 DEF WebhookStep
<1>6. ASSUME NEW r \in Runs,
             ScheduledSettlement(r) \/ ManualSettlement(r) \/ RunStep(r)
      PROVE  OneAtWork'
    <2>1. CASE ScheduledSettlement(r) \/ ManualSettlement(r)
        BY <1>1, <2>1
        DEF ScheduledSettlement, ManualSettlement, BeginSettlement
    <2>2. CASE RunStep(r) /\ ~CommitSettlement(r)
        <3>1. Busy(r) /\ UNCHANGED historyVars /\ \E l : Goto(r, l)
            BY <2>2
            DEF RunStep, ReadTotals, CreateSettlement, PayoutAccepted,
                PayoutRefused, PayoutReplyLost, MarkCompleted,
                MarkEntriesSettled, CommitFailure, Busy
        <3>2. QED
            BY <1>2, <3>1
    <2>3. QED
        BY <1>3, <1>6, <2>1, <2>2
<1>7. ASSUME NEW q \in Requests, LoadConfig(q) \/ AdminStep(q) PROVE OneAtWork'
    <2>1. CASE LoadConfig(q)
        BY <1>1, <2>1 DEF LoadConfig
    <2>2. CASE AdminStep(q)
        <3>1. Busy(q) /\ UNCHANGED historyVars /\ \E l : Goto(q, l)
            BY <2>2 DEF AdminStep, VerifyPayout, PatchConfig, SaveConfig, Busy
        <3>2. QED
            BY <1>2, <3>1
    <2>3. QED
        BY <1>7, <2>1, <2>2
<1>8. ASSUME NEW c \in Clients, Crash(c) PROVE OneAtWork'
    BY <1>2, <1>8 DEF Crash
<1>9. CASE Tomorrow \/ UNCHANGED vars
    BY <1>4, <1>9 DEF Tomorrow, vars
<1>10. QED
    BY <1>5, <1>6, <1>7, <1>8, <1>9 DEF Next

\* Nobody writes the balance while the only client at work holds what it
\* read of it; a settlement that makes it exact again leaves nobody at work.
LEMMA BalancesReadNext ==
    Inv /\ MetInv /\ OneAtWork /\ OneAtWork' /\ BalancesRead /\ [Next]_vars
        => BalancesRead'
<1> SUFFICES ASSUME Inv, MetInv, OneAtWork, OneAtWork', BalancesRead, [Next]_vars
             PROVE  BalancesRead'
    OBVIOUS
<1>0. TypeOK
    BY DEF Inv
<1> USE <1>0 DEF TypeOK, BalancesRead, Clients, Goto, configVars, historyVars
<1>1. ASSUME NEW e \in Entries, RecordCommission(e) PROVE BalancesRead'
    BY <1>1 DEF RecordCommission, Meet
<1>2. ASSUME NEW e \in Entries, AddToPendingBalance(e) PROVE BalancesRead'
    <2>1. ~drift => \A d \in Entries : d # e => pc[d] # "added"
        BY <1>2 DEF AddToPendingBalance, OneAtWork, Busy
    <2>2. QED
        BY <1>2, <2>1 DEF AddToPendingBalance
<1>3. ASSUME NEW c \in Clients, Busy(c), UNCHANGED drift,
             \E l \in {"done", "aborted", "idle"} : pc' = [pc EXCEPT ![c] = l]
      PROVE  BalancesRead'
    <2>1. ~drift => \A d \in Clients : ~Busy(d)'
        BY <1>3 DEF OneAtWork, Busy
    <2>2. QED
        BY <1>3, <2>1 DEF Busy
<1>4. ASSUME NEW e \in Entries, CommitCommission(e) PROVE BalancesRead'
    BY <1>3, <1>4 DEF CommitCommission, Busy
<1>5. ASSUME NEW r \in Runs, NEW force \in BOOLEAN, BeginSettlement(r, force)
      PROVE  BalancesRead'
    <2>1. /\ \A c \in Entries \cup Requests : pc'[c] = pc[c] /\ snapshot'[c] = snapshot[c]
          /\ UNCHANGED configVars /\ (~drift' => ~drift)
        BY <1>5, SettlementAssumption DEF BeginSettlement, Meet
    <2>2. QED
        BY <2>1
<1>6. ASSUME NEW r \in Runs, RunStep(r), ~CommitSettlement(r), ~MarkCompleted(r)
      PROVE  BalancesRead'
    <2>1. /\ \A c \in Entries \cup Requests : pc'[c] = pc[c]
          /\ UNCHANGED <<snapshot, configVars, drift>>
        BY <1>6, SettlementAssumption
        DEF RunStep, ReadTotals, CreateSettlement, PayoutAccepted,
            PayoutRefused, PayoutReplyLost, MarkEntriesSettled, CommitFailure
    <2>2. QED
        BY <2>1
<1>7. ASSUME NEW r \in Runs, MarkCompleted(r) PROVE BalancesRead'
    <2>1. ~drift => \A c \in Entries : pc[c] # "added"
        BY <1>7, SettlementAssumption DEF MarkCompleted, OneAtWork, Busy
    <2>2. /\ \A c \in Entries \cup Requests : pc'[c] = pc[c]
          /\ UNCHANGED <<snapshot, config, drift>>
        BY <1>7, SettlementAssumption DEF MarkCompleted
    <2>3. QED
        BY <2>1, <2>2
<1>8. ASSUME NEW r \in Runs, CommitSettlement(r) PROVE BalancesRead'
    <2>1. CASE drift' = drift
        BY <1>3, <1>8, <2>1 DEF CommitSettlement, Busy
    <2>2. CASE drift' # drift
        <3>1. met[r] = {} /\ Busy(r) /\ pc' = [pc EXCEPT ![r] = "done"]
            BY <1>8, <2>2 DEF CommitSettlement, Busy
        <3>2. \A c \in Clients : c # r => ~Busy(c)
            BY <3>1 DEF MetInv
        <3>3. QED
            BY <3>1, <3>2, SettlementAssumption DEF Busy
    <2>3. QED
        BY <2>1, <2>2
<1>9. ASSUME NEW q \in Requests, LoadConfig(q) PROVE BalancesRead'
    BY <1>9 DEF LoadConfig, Meet
<1>10. ASSUME NEW q \in Requests, AdminStep(q) PROVE BalancesRead'
    <2>1. /\ pc[q] = "loaded" /\ pc' = [pc EXCEPT ![q] = "done"]
          /\ UNCHANGED historyVars
        BY <1>10 DEF AdminStep, VerifyPayout, PatchConfig, SaveConfig
    <2>2. QED
        BY <1>3, <2>1 DEF Busy
<1>11. ASSUME NEW c \in Clients, Crash(c) PROVE BalancesRead'
    BY <1>3, <1>11 DEF Crash
<1>12. CASE Tomorrow \/ UNCHANGED vars
    BY <1>12 DEF Tomorrow, vars
<1> HIDE DEF TypeOK, BalancesRead
<1>13. QED
    BY <1>1, <1>2, <1>4, <1>5, <1>6, <1>7, <1>8, <1>9, <1>10, <1>11, <1>12
    DEF Next, WebhookStep, ScheduledSettlement, ManualSettlement

\* The stages of a run between inserting its row and its commit.
Late == {"created", "paid", "cleared", "marked"}

\* Nobody commits beside a run that met nobody, so what it found open when
\* it created its row is open when it marks and when it commits.
LEMMA AloneNext ==
    Inv /\ MetInv /\ AloneInv /\ [Next]_vars => AloneInv'
<1> SUFFICES ASSUME Inv, MetInv, AloneInv, [Next]_vars PROVE AloneInv'
    OBVIOUS
<1>0. /\ TypeOK /\ LockInv
      /\ \A r \in Runs : met'[r] = {} /\ pc[r] # "idle" => met[r] = {}
    BY MetGrows DEF Inv
<1> USE <1>0 DEF AloneInv, Late, Clients, Goto, TypeOK
<1>1. ASSUME UNCHANGED <<ledger, settledBy, staged, marked>>,
             \A c \in Clients : \/ pc'[c] = pc[c]
                                \/ pc'[c] \notin {"recorded", "added"} \cup Late
      PROVE  AloneInv'
    <2>1. OpenEntries' = OpenEntries
        BY <1>1 DEF OpenEntries
    <2>2. QED
        BY <1>1, <2>1
<1>2. ASSUME NEW e \in Entries, RecordCommission(e) PROVE AloneInv'
    <2>1. OpenEntries' = OpenEntries
        BY <1>2 DEF OpenEntries, RecordCommission, ledgerVars
    <2>2. \A r \in Runs : pc'[r] = pc[r]
        BY <1>2, SettlementAssumption DEF RecordCommission
    <2>3. QED
        BY <1>2, <2>1, <2>2
        DEF RecordCommission, configVars, ledgerVars, runVars
<1>3. ASSUME NEW e \in Entries, AddToPendingBalance(e) PROVE AloneInv'
    <2>1. OpenEntries' = OpenEntries
        BY <1>3 DEF OpenEntries, AddToPendingBalance, ledgerVars
    <2>2. \A r \in Runs : pc'[r] = pc[r] /\ pc[r] \notin {"cleared", "marked"}
        BY <1>3, SettlementAssumption DEF AddToPendingBalance, LockInv
    <2>3. QED
        BY <1>3, <2>1, <2>2 DEF AddToPendingBalance, ledgerVars, runVars, historyVars
<1>4. ASSUME NEW e \in Entries, CommitCommission(e) PROVE AloneInv'
    <2>1. \A r \in Runs : pc'[r] = pc[r]
        BY <1>4, SettlementAssumption DEF CommitCommission
    <2>2. \A r \in Runs : pc[r] \in Late => met'[r] # {}
        BY <1>4, SettlementAssumption DEF MetInv, Busy, CommitCommission, historyVars
    <2>3. \A r \in Runs : pc[r] \notin {"cleared", "marked"}
        BY <1>4, SettlementAssumption DEF CommitCommission, LockInv
    <2>4. \A d \in Entries : pc'[d] \in {"recorded", "added"} => d \notin ledger'
        BY <1>4 DEF CommitCommission
    <2>5. QED
        BY <2>1, <2>2, <2>3, <2>4
<1>5. ASSUME NEW r \in Runs, CreateSettlement(r) PROVE AloneInv'
    <2>1. OpenEntries' = OpenEntries
        BY <1>5 DEF OpenEntries, CreateSettlement, ledgerVars
    <2>2. \A e \in Entries : pc'[e] = pc[e]
        BY <1>5, SettlementAssumption DEF CreateSettlement
    <2>3. pc'[r] = "created" => OpenEntries # {}
        BY <1>5 DEF CreateSettlement
    <2>4. /\ \A s \in Runs : s # r => pc'[s] = pc[s]
          /\ pc'[r] \in {"created", "aborted"}
          /\ UNCHANGED <<ledger, staged, marked>>
        BY <1>5 DEF CreateSettlement, configVars, ledgerVars
    <2>5. \A s \in Runs : pc'[s] \in Late => s = r \/ pc[s] \in Late
        BY <2>4
    <2>6. QED
        BY <2>1, <2>2, <2>3, <2>4, <2>5
<1>6. ASSUME NEW r \in Runs,
             PayoutAccepted(r) \/ MarkCompleted(r) \/ MarkEntriesSettled(r)
      PROVE  AloneInv'
    <2>1. OpenEntries' = OpenEntries
        BY <1>6 DEF OpenEntries, PayoutAccepted, MarkCompleted,
                    MarkEntriesSettled, ledgerVars
    <2>2. /\ \A e \in Entries : pc'[e] = pc[e]
          /\ \A s \in Runs : s # r => pc'[s] = pc[s] /\ marked'[s] = marked[s]
          /\ pc[r] \in {"created", "paid", "cleared"}
          /\ pc'[r] = "marked" => pc[r] = "cleared" /\ marked'[r] = OpenEntries
          /\ pc'[r] = "cleared" => staged' = 0
          /\ staged' = staged \/ staged' = 0
          /\ UNCHANGED ledger
        BY <1>6, SettlementAssumption
        DEF PayoutAccepted, MarkCompleted, MarkEntriesSettled, configVars,
            ledgerVars, runVars
    <2>3. \A s \in Runs : pc'[s] \in {"cleared", "marked"} => staged' = 0
        BY <2>2
    <2>4. QED
        BY <2>1, <2>2, <2>3
<1>7. ASSUME NEW r \in Runs, CommitSettlement(r) PROVE AloneInv'
    <2>1. /\ \A c \in Clients : c # r => pc'[c] = pc[c]
          /\ pc'[r] = "done" /\ pc[r] = "marked"
          /\ UNCHANGED <<ledger, staged, marked, met>>
        BY <1>7 DEF CommitSettlement, runVars
    <2>2. \A s \in Runs : s # r /\ pc[s] \in Late => met'[s] # {}
        BY <2>1 DEF MetInv, Busy
    <2>3. QED
        BY <2>1, <2>2, SettlementAssumption
<1>8. ASSUME NEW r \in Runs,
             ScheduledSettlement(r) \/ ManualSettlement(r) \/ ReadTotals(r)
             \/ PayoutRefused(r) \/ PayoutReplyLost(r) \/ CommitFailure(r)
      PROVE  AloneInv'
    <2>1. /\ UNCHANGED <<ledger, settledBy, staged, marked>>
          /\ \E l \in {"started", "totalled", "refused", "done"} :
                pc' = [pc EXCEPT ![r] = l]
        BY <1>8
        DEF ScheduledSettlement, ManualSettlement, BeginSettlement, ReadTotals,
            PayoutRefused, PayoutReplyLost, CommitFailure, configVars,
            ledgerVars, runVars
    <2>2. QED
        BY <1>1, <2>1
<1>9. ASSUME NEW q \in Requests, LoadConfig(q) \/ AdminStep(q) PROVE AloneInv'
    <2>1. /\ UNCHANGED <<ledger, settledBy, staged, marked>>
          /\ \E l \in {"loaded", "done"} : pc' = [pc EXCEPT ![q] = l]
        BY <1>9
        DEF LoadConfig, AdminStep, VerifyPayout, PatchConfig, SaveConfig,
            configVars, ledgerVars, runVars
    <2>2. QED
        BY <1>1, <2>1
<1>10. ASSUME NEW c \in Clients, Crash(c) PROVE AloneInv'
    BY <1>1, <1>10 DEF Crash, ledgerVars, runVars
<1>11. CASE Tomorrow \/ UNCHANGED vars
    BY <1>1, <1>11 DEF Tomorrow, vars, configVars, ledgerVars, runVars
<1> HIDE DEF AloneInv, TypeOK
<1>12. QED
    BY <1>2, <1>3, <1>4, <1>5, <1>6, <1>7, <1>8, <1>9, <1>10, <1>11
    DEF Next, WebhookStep, RunStep

\* Until clients overlap nothing anybody has read is stale, whatever the
\* number of webhooks, runs, administrators and crashes before.
THEOREM NobodyReadsStale ==
    Spec => [](Inv /\ MetInv /\ OneAtWork /\ BalancesRead /\ AloneInv)
<1>1. Init => OneAtWork /\ BalancesRead /\ AloneInv
    BY DEF Init, OneAtWork, BalancesRead, AloneInv, Busy, Clients
<1>2. TypeOK /\ MetInv /\ OneAtWork /\ [Next]_vars => OneAtWork'
    BY OneAtWorkNext
<1>3. Inv /\ MetInv /\ OneAtWork /\ OneAtWork' /\ BalancesRead /\ [Next]_vars
        => BalancesRead'
    BY BalancesReadNext
<1>4. Inv /\ MetInv /\ AloneInv /\ [Next]_vars => AloneInv'
    BY AloneNext
<1>5. QED
    BY <1>1, <1>2, <1>3, <1>4, CommittedRunsLeaveNothing, TypeCorrect, PTL
    DEF Spec

-----------------------------------------------------------------------------
SettledRows == {e \in ledger : settledBy[e] # NoOne}

\* Steps that leave the rows and the balance alone.
LEMMA AccountStutters ==
    ASSUME UNCHANGED <<ledger, settledBy, config, drift>>
    PROVE  UNCHANGED Account!accountVars
BY DEF Account!accountVars, OpenEntries

\* A client's beginning makes the balance inexact unless it is alone.
LEMMA BeginOverlaps ==
    ASSUME TypeOK, NEW c \in Clients, Meet(c),
           UNCHANGED <<ledger, settledBy, config>>
    PROVE  Account!Overlap \/ UNCHANGED Account!accountVars
<1>1. OpenEntries' = OpenEntries /\ SettledRows' = SettledRows
    BY DEF OpenEntries, SettledRows
<1>2. drift' = drift \/ (~drift /\ drift' = TRUE)
    BY DEF Meet, TypeOK
<1>3. QED
    BY <1>1, <1>2 DEF Account!Overlap, Account!accountVars, SettledRows

\* A webhook's commit adds one row; while the balance is exact the share is
\* added to the balance there was.
LEMMA CommitAccrues ==
    ASSUME Inv, TypeOK', BalancesRead, AloneInv, NEW e \in Entries,
           CommitCommission(e)
    PROVE  Account!Accrue(e)
<1>0. TypeOK
    BY DEF Inv
<1>1. /\ pc[e] = "added" /\ ledger' = ledger \cup {e}
      /\ config'.balance = staged
      /\ UNCHANGED <<settledBy, drift>>
    BY <1>0 DEF CommitCommission, TypeOK, Config, historyVars
<1>2. e \notin ledger /\ settledBy[e] = NoOne
    BY <1>1 DEF AloneInv, Inv, SettledRowsBelongToPayouts
<1>3. OpenEntries' = OpenEntries \cup {e} /\ SettledRows' = SettledRows
    BY <1>1, <1>2 DEF OpenEntries, SettledRows
<1>4. e \notin OpenEntries \cup SettledRows
    BY <1>2 DEF OpenEntries, SettledRows
<1>5. config'.balance \in Int
    BY DEF TypeOK, Config
<1>6. ~drift => config'.balance = config.balance + IspAmount(e)
    BY <1>1 DEF BalancesRead
<1>7. QED
    BY <1>1, <1>3, <1>4, <1>5, <1>6 DEF Account!Accrue, SettledRows

\* A settlement's commit settles open rows and empties the balance; if it
\* met nobody, it settles all of them.
LEMMA CommitSettles ==
    ASSUME Inv, OneAtWork, AloneInv, NEW r \in Runs, CommitSettlement(r)
    PROVE  \E S \in SUBSET Entries : Account!Settle(S)
<1>0. TypeOK
    BY DEF Inv
<1>1. /\ pc[r] = "marked" /\ UNCHANGED ledger
      /\ settledBy' = [e \in Entries |->
                          IF e \in marked[r] THEN r ELSE settledBy[e]]
      /\ config'.balance = staged
      /\ drift' = (drift /\ met[r] # {})
    BY <1>0 DEF CommitSettlement, TypeOK, Config
<1>2. staged = 0
    BY <1>1 DEF AloneInv
<1>3. marked[r] \subseteq OpenEntries
    BY <1>0, <1>1 DEF Inv, MarkedInv, OpenEntries, TypeOK
<1>4. r # NoOne
    BY SettlementAssumption
<1>5. OpenEntries' = OpenEntries \ marked[r]
    BY <1>0, <1>1, <1>4 DEF OpenEntries, TypeOK
<1>6. SettledRows' = SettledRows \cup marked[r]
    BY <1>0, <1>1, <1>3, <1>4 DEF SettledRows, OpenEntries, TypeOK
<1>7. ~drift \/ ~drift' => ~drift' /\ met[r] = {}
    <2>1. ~drift => met[r] = {}
        BY <1>1 DEF OneAtWork, Busy
    <2>2. QED
        BY <1>1, <2>1
<1>8. met[r] = {} => marked[r] = OpenEntries /\ marked[r] # {}
    BY <1>1 DEF AloneInv
<1>9. marked[r] \in SUBSET Entries /\ (~drift') \in BOOLEAN
    BY <1>0, <1>1 DEF TypeOK
<1>10. PICK S \in SUBSET Entries : S = marked[r]
    BY <1>9
<1>11. Account!Settle(S)
    BY <1>1, <1>2, <1>3, <1>5, <1>6, <1>7, <1>8, <1>9, <1>10
    DEF Account!Settle, SettledRows
<1>12. QED
    BY <1>11

\* An administrator's save keeps an exact balance and may overwrite another.
LEMMA SaveOverwrites ==
    ASSUME TypeOK, TypeOK', BalancesRead, NEW q \in Requests, AdminStep(q)
    PROVE  Account!Overwrite \/ UNCHANGED Account!accountVars
<1>1. /\ pc[q] = "loaded" /\ UNCHANGED <<ledger, settledBy, drift>>
      /\ config'.balance = snapshot[q].balance
    BY DEF AdminStep, VerifyPayout, PatchConfig, SaveConfig, ledgerVars,
           historyVars, TypeOK, Config, Clients
<1>2. config'.balance \in Int
    BY DEF TypeOK, Config
<1>3. OpenEntries' = OpenEntries /\ SettledRows' = SettledRows
    BY <1>1 DEF OpenEntries, SettledRows
<1>4. ~drift => config'.balance = config.balance
    BY <1>1 DEF BalancesRead
<1>5. QED
    BY <1>1, <1>2, <1>3, <1>4
    DEF Account!Overwrite, Account!accountVars, SettledRows

\* Every step of every client is a step of the account or leaves it alone.
LEMMA StepsOfAccount ==
    Inv /\ TypeOK' /\ OneAtWork /\ BalancesRead /\ AloneInv /\ [Next]_vars
        => [Account!Next]_Account!accountVars
<1> SUFFICES ASSUME Inv, TypeOK', OneAtWork, BalancesRead, AloneInv, [Next]_vars
             PROVE  Account!Next \/ UNCHANGED Account!accountVars
    OBVIOUS
<1>0. TypeOK
    BY DEF Inv
<1> DEFINE Step == Account!Next \/ UNCHANGED Account!accountVars
<1>1. ASSUME NEW c \in Clients, Meet(c), UNCHANGED <<ledger, settledBy, config>>
      PROVE  Step
    BY <1>0, <1>1, BeginOverlaps DEF Account!Next
<1>2. ASSUME NEW e \in Entries, WebhookStep(e) PROVE Step
    <2>1. CASE RecordCommission(e)
        BY <1>1, <2>1 DEF RecordCommission, ledgerVars, configVars, Clients
    <2>2. CASE AddToPendingBalance(e)
        BY <2>2, AccountStutters DEF AddToPendingBalance, ledgerVars, historyVars
    <2>3. CASE CommitCommission(e)
        BY <2>3, CommitAccrues DEF Account!Next
    <2>4. QED
        BY <1>2, <2>1, <2>2, <2>3 DEF WebhookStep
<1>3. ASSUME NEW r \in Runs,
             ScheduledSettlement(r) \/ ManualSettlement(r) \/ RunStep(r)
      PROVE  Step
    <2>1. CASE ScheduledSettlement(r) \/ ManualSettlement(r)
        BY <1>1, <2>1
        DEF ScheduledSettlement, ManualSettlement, BeginSettlement, ledgerVars,
            configVars, Clients
    <2>2. CASE CommitSettlement(r)
        <3>1. \E S \in SUBSET Entries : Account!Settle(S)
            BY <2>2, CommitSettles
        <3>2. QED
            BY <3>1 DEF Account!Next
    <2>3. CASE RunStep(r) /\ ~CommitSettlement(r)
        <3>1. UNCHANGED <<ledger, settledBy, config, drift>>
            BY <2>3
            DEF RunStep, ReadTotals, CreateSettlement, PayoutAccepted,
                PayoutRefused, PayoutReplyLost, MarkCompleted,
                MarkEntriesSettled, CommitFailure, configVars, ledgerVars,
                historyVars
        <3>2. QED
            BY <3>1, AccountStutters
    <2>4. QED
        BY <1>3, <2>1, <2>2, <2>3
<1>4. ASSUME NEW q \in Requests, LoadConfig(q) PROVE Step
    BY <1>1, <1>4 DEF LoadConfig, ledgerVars, configVars, Clients
<1>5. ASSUME NEW q \in Requests, AdminStep(q) PROVE Step
    BY <1>0, <1>5, SaveOverwrites DEF Account!Next
<1>6. CASE (\E c \in Clients : Crash(c)) \/ Tomorrow \/ UNCHANGED vars
    <2>1. UNCHANGED <<ledger, settledBy, config, drift>>
        BY <1>6 DEF Crash, Tomorrow, vars, configVars, ledgerVars, historyVars
    <2>2. QED
        BY <2>1, AccountStutters
<1>7. QED
    BY <1>2, <1>3, <1>4, <1>5, <1>6 DEF Next

\* Settlement implements IspAccount: whatever overlaps, crashes or times
\* out, a payment is owed until one settlement takes it, and the balance is
\* kept as the account keeps it.
THEOREM SettlementImplementsAccount == Spec => ImplementsAccount
<1>1. Init => Account!Init
    <2> SUFFICES ASSUME Init PROVE Account!Init
        OBVIOUS
    <2>1. OpenEntries = {} /\ SettledRows = {}
        BY DEF Init, OpenEntries, SettledRows
    <2>2. config.balance = 0 /\ drift = FALSE
        BY DEF Init
    <2>3. QED
        BY <2>1, <2>2 DEF Account!Init, SettledRows
<1>2. Inv /\ TypeOK' /\ OneAtWork /\ BalancesRead /\ AloneInv /\ [Next]_vars
        => [Account!Next]_Account!accountVars
    BY StepsOfAccount
<1>3. QED
    BY <1>1, <1>2, NobodyReadsStale, TypeCorrect, PTL
    DEF Spec, ImplementsAccount, Account!Spec

-----------------------------------------------------------------------------
\* Every step of the account keeps the property: accruing adds one share to
\* both sides, settling what is owed empties both.
LEMMA BalanceNext ==
    ASSUME TypeOK, FiniteInv, FiniteInv', TypeOK',
           PendingBalanceIsUnsettledAmount,
           Account!Next \/ UNCHANGED Account!accountVars
    PROVE  PendingBalanceIsUnsettledAmount'
<1>1. /\ OpenEntries \in SUBSET Entries /\ IsFiniteSet(OpenEntries)
      /\ OpenEntries' \in SUBSET Entries /\ IsFiniteSet(OpenEntries')
    <2>1. OpenEntries \in SUBSET ledger /\ OpenEntries' \in SUBSET ledger'
        BY DEF OpenEntries
    <2>2. ledger \in SUBSET Entries /\ ledger' \in SUBSET Entries
        BY DEF TypeOK
    <2>3. IsFiniteSet(OpenEntries) /\ IsFiniteSet(OpenEntries')
        <3>1. IsFiniteSet(OpenEntries)
            BY <2>1, FS_Subset DEF FiniteInv
        <3>2. IsFiniteSet(OpenEntries')
            BY <2>1, FS_Subset DEF FiniteInv
        <3>3. QED
            BY <3>1, <3>2
    <2> HIDE DEF OpenEntries
    <2>4. QED
        BY <2>1, <2>2, <2>3
<1> HIDE DEF OpenEntries
<1>2. \A e \in OpenEntries : Share[e] \in Int
    BY <1>1, ShareType DEF Share
<1>3. ~drift => config.balance = SumOver(Share, OpenEntries)
    BY <1>1, IspTotalIsSum DEF PendingBalanceIsUnsettledAmount
<1>4. ASSUME NEW e \in Entries, Account!Accrue(e), ~drift'
      PROVE  config'.balance = SumOver(Share, OpenEntries')
    <2>1. /\ e \notin OpenEntries
          /\ OpenEntries' = OpenEntries \cup {e}
          /\ ~drift /\ config'.balance = config.balance + IspAmount(e)
        BY <1>4 DEF Account!Accrue
    <2>2. Share[e] = IspAmount(e) /\ IspAmount(e) \in Int
        BY ShareType DEF Share
    <2>3. SumOver(Share, OpenEntries \cup {e}) = SumOver(Share, OpenEntries) + Share[e]
        BY <1>1, <1>2, <2>1, <2>2, SumAdd
    <2>4. SumOver(Share, OpenEntries') = SumOver(Share, OpenEntries) + Share[e]
        BY Zenon, <2>1, <2>3
    <2>5. QED
        BY <1>3, <2>1, <2>2, <2>4
<1>5. ASSUME NEW S \in SUBSET Entries, Account!Settle(S), ~drift'
      PROVE  config'.balance = SumOver(Share, OpenEntries')
    <2>1. OpenEntries' = {} /\ config'.balance = 0
        BY <1>5 DEF Account!Settle
    <2>2. SumOver(Share, OpenEntries') = 0
        BY Zenon, <2>1, SumEmpty
    <2>3. QED
        BY <2>1, <2>2
<1>6. ASSUME Account!Overlap \/ Account!Overwrite \/ UNCHANGED Account!accountVars,
             ~drift'
      PROVE  config'.balance = SumOver(Share, OpenEntries')
    <2>1. ~drift /\ OpenEntries' = OpenEntries /\ config'.balance = config.balance
        BY <1>6, TypeOK, TypeOK'
        DEF Account!Overlap, Account!Overwrite, Account!accountVars, TypeOK
    <2>2. SumOver(Share, OpenEntries') = SumOver(Share, OpenEntries)
        BY Zenon, <2>1
    <2>3. QED
        BY <1>3, <2>1, <2>2
<1>7. ~drift' => config'.balance = SumOver(Share, OpenEntries')
    BY <1>4, <1>5, <1>6 DEF Account!Next
<1>8. QED
    BY <1>1, <1>7, IspTotalIsSum DEF PendingBalanceIsUnsettledAmount

\* pending_balance is the sum of the unsettled shares until two clients
\* overlap, and again after a settlement that ran with none beside it.
THEOREM PendingBalanceIsExact == Spec => []PendingBalanceIsUnsettledAmount
<1>1. Init => PendingBalanceIsUnsettledAmount
    <2> SUFFICES ASSUME Init PROVE PendingBalanceIsUnsettledAmount
        OBVIOUS
    <2>1. OpenEntries = {} /\ config.balance = 0
        BY DEF Init, OpenEntries
    <2>2. {} \in SUBSET Entries /\ IsFiniteSet({})
        BY FS_EmptySet
    <2>3. IspTotal({}) = SumOver(Share, {})
        BY <2>2, IspTotalIsSum
    <2>4. IspTotal({}) = 0
        BY <2>3, SumEmpty
    <2>5. QED
        BY Zenon, <2>1, <2>4 DEF PendingBalanceIsUnsettledAmount
<1>2. Inv /\ TypeOK' /\ OneAtWork /\ BalancesRead /\ AloneInv /\ [Next]_vars
        => [Account!Next]_Account!accountVars
    BY StepsOfAccount
<1>3. /\ TypeOK /\ TypeOK' /\ FiniteInv /\ FiniteInv'
      /\ PendingBalanceIsUnsettledAmount
      /\ [Account!Next]_Account!accountVars
      => PendingBalanceIsUnsettledAmount'
    BY BalanceNext
<1>4. QED
    BY <1>1, <1>2, <1>3, NobodyReadsStale, TypeCorrect, FinitelyManySoFar, PTL
    DEF Spec
=============================================================================
