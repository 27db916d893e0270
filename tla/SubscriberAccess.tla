-------------------------- MODULE SubscriberAccess --------------------------
(***************************************************************************)
(* The access of one PPPoE subscriber: the Customer and ServiceConnection  *)
(* rows, the CustomerRadiusCredentials row their signals keep up to date,  *)
(* and the subscriber's rows in the two radcheck tables: the tenant's own  *)
(* and the public one, which is all that FreeRADIUS reads.                 *)
(*                                                                         *)
(* Requests run in autocommit.  A request loads Python objects and saves   *)
(* them one by one, and each save runs a post_save signal that may save    *)
(* the credentials in turn; saving the credentials copies them to both     *)
(* tables in a transaction of its own.  A request is a queue of statements *)
(* and a stage: where its save of the credentials stands.                  *)
(*                                                                         *)
(* Transactions are PostgreSQL's READ COMMITTED ones: a statement sees the *)
(* rows committed when it starts, waits for the rows it changes that       *)
(* another transaction has changed, and then skips the ones that are gone. *)
(***************************************************************************)
EXTENDS Integers, Sequences

CONSTANTS
    Requests,   \* requests that can be in flight at a time
    MaxRequests,  \* bound on the requests that begin
    Validity,   \* the plan's validity, in ticks
    Extension,  \* what an extend request adds
    Skew,       \* how far the tasks' time zone is ahead of UTC
    Faults,     \* subset of {"crash", "public_write"}
    MaxFaults,  \* bound on faults
    MaxTime,    \* bound on the clock
    MaxExpiry,  \* bound on expiration dates
    NotLoaded

ASSUME AccessAssumption ==
    /\ MaxRequests \in Nat
    /\ Validity \in Nat \ {0}
    /\ Extension \in Nat \ {0}
    /\ Skew \in Nat
    /\ Faults \subseteq {"crash", "public_write"}
    /\ MaxFaults \in Nat
    /\ MaxTime \in Nat
    /\ MaxExpiry \in Nat

VARIABLES
    customer,  \* Customer.status
    service,   \* ServiceConnection.status
    cred,      \* the CustomerRadiusCredentials row
    table,     \* committed radcheck rows of the subscriber, per schema
    todo,      \* [request -> the statements it has still to run]
    stage,     \* [request -> where its save of the credentials stands]
    mem,       \* [request -> the statuses its Customer and service objects hold]
    obj,       \* [request -> its credentials object]
    tx,        \* [request -> its open transaction on the two tables]
    session,   \* whether public.radacct has an open session
    now,
    faults,
    begun,     \* how many requests have begun
    solo,      \* history: the request that has run alone since it began
    suspect    \* history: requests overlapped, or a copy failed, since the
               \* last copy made by a request that ran alone

rows == <<customer, service, cred>>
history == <<begun, solo, suspect>>
vars == <<rows, table, todo, stage, mem, obj, tx, session, now, faults, history>>

Tables == {"tenant", "public"}
\* PENDING stands for LEAD too, SUSPENDED for INACTIVE and TERMINATED.
Statuses == {"PENDING", "ACTIVE", "SUSPENDED"}

\* What a user's radcheck rows say: the password and Expiration rows that a
\* copy writes together, an Expiration row by itself, or the Auth-Type :=
\* Reject row.
Row == [kind: {"user", "expiry", "reject"}, by: Requests, expires: Nat]
Users(rs) == {r \in rs : r.kind = "user"}
Rejects(rs) == {r \in rs : r.kind = "reject"}
Dated(rs) == rs \ Rejects(rs)

Credentials == [exists: BOOLEAN, enabled: BOOLEAN, expires: Nat]
NoCredentials == [exists |-> FALSE, enabled |-> FALSE, expires |-> 0]

Nothing == [t \in Tables |-> {}]
NoTx == [waits |-> FALSE, seen |-> {}, del |-> Nothing, ins |-> Nothing,
         kick |-> FALSE, failed |-> FALSE]

NoMem == [customer |-> "PENDING", service |-> "PENDING"]

\* FreeRADIUS lets the subscriber in: a password, no Reject, not expired.
Admits(t) == /\ \E r \in Users(table[t]) : now < r.expires
             /\ Rejects(table[t]) = {}

\* A service to be activated later, or one that has been activated.
Init ==
    /\ \/ /\ customer = "PENDING"
          /\ service = "PENDING"
          /\ cred = NoCredentials
          /\ table = Nothing
       \/ /\ customer = "ACTIVE"
          /\ service = "ACTIVE"
          /\ cred = [exists |-> TRUE, enabled |-> TRUE, expires |-> Validity]
          /\ \E h \in Requests :
                table = [t \in Tables |->
                    {[kind |-> "user", by |-> h, expires |-> Validity]}]
    /\ todo = [h \in Requests |-> <<>>]
    /\ stage = [h \in Requests |-> "none"]
    /\ mem = [h \in Requests |-> NoMem]
    /\ obj = [h \in Requests |-> NotLoaded]
    /\ tx = [h \in Requests |-> NoTx]
    /\ session = FALSE
    /\ now = 0
    /\ faults = 0
    /\ begun = 0
    /\ solo = {}
    /\ suspect = FALSE

Idle(h) == todo[h] = <<>>
Due(h) == IF Idle(h) THEN "nothing" ELSE Head(todo[h])

\* Expiration dates are capped by the bound.
Date(e) == IF e > MaxExpiry THEN MaxExpiry ELSE e

Enabled(c, expires) ==
    [c EXCEPT !.exists = TRUE, !.enabled = TRUE, !.expires = Date(expires)]
Disabled(c) == [c EXCEPT !.enabled = FALSE]

\* The credentials object, loaded when it is first used.
Object(h) == IF obj[h] = NotLoaded THEN cred ELSE obj[h]

\* The statement that is due runs.
Run(h, label) ==
    /\ stage[h] = "none"
    /\ Due(h) = label
    /\ todo' = [todo EXCEPT ![h] = Tail(@)]

Goto(h, st) == stage' = [stage EXCEPT ![h] = st]

\* The request ends: its objects and its transaction are gone.
End(h) == /\ todo' = [todo EXCEPT ![h] = <<>>]
          /\ stage' = [stage EXCEPT ![h] = "none"]
          /\ mem' = [mem EXCEPT ![h] = NoMem]
          /\ obj' = [obj EXCEPT ![h] = NotLoaded]
          /\ tx' = [tx EXCEPT ![h] = NoTx]
          /\ solo' = solo \ {h}

-----------------------------------------------------------------------------
(***************************************************************************)
(* Requests begin: they load their objects and queue their statements.     *)
(***************************************************************************)
Begin(h, first, statements, statuses, object) ==
    /\ Idle(h)
    /\ begun < MaxRequests
    /\ begun' = begun + 1
    /\ todo' = [todo EXCEPT ![h] = statements \o <<"answer">>]
    /\ Goto(h, first)
    /\ mem' = [mem EXCEPT ![h] = statuses]
    /\ obj' = [obj EXCEPT ![h] = object]
    /\ LET alone == \A g \in Requests : Idle(g)
       IN  /\ solo' = IF alone THEN {h} ELSE {}
           /\ suspect' = (suspect \/ ~alone)
    /\ UNCHANGED <<rows, table, tx, session, now, faults>>

\* ServiceConnectionViewSet.activate
Activate(h) ==
    /\ service # "ACTIVE"
    /\ Begin(h, IF cred.exists THEN "save" ELSE "insert",
             <<"service", "service_signal">> \o
             IF customer = "PENDING" THEN <<"customer", "customer_signal">>
                                     ELSE <<>>,
             [customer |-> "ACTIVE", service |-> "ACTIVE"],
             Enabled(cred, now + Validity))

\* suspend, terminate and PATCH: PATCH may leave the status as it was.
SaveService(h, status) ==
    Begin(h, "none", <<"service", "service_signal">>,
          [NoMem EXCEPT !.service = status], NotLoaded)

\* extend, which first saves a service whose plan is changed
Extend(h, planChanges) ==
    Begin(h, "none",
          (IF planChanges THEN <<"service", "service_signal">> ELSE <<>>)
             \o <<"extend", "expire", "reopen", "service_signal">>,
          [NoMem EXCEPT !.service = service], NotLoaded)

\* change_status, which first suspends the services of a customer who
\* leaves, and PATCH.  Their querysets load the credentials as well.
SaveCustomer(h, status, leaves) ==
    /\ leaves => status = "SUSPENDED"
    /\ Begin(h, "none", (IF leaves THEN <<"suspend_services">> ELSE <<>>)
                           \o <<"customer", "customer_signal">>,
             [NoMem EXCEPT !.customer = status], cred)

\* A completed payment saves two columns of the customer, not the status.
Payment(h) ==
    Begin(h, "none", <<"customer_signal">>,
          [NoMem EXCEPT !.customer = customer], NotLoaded)

\* toggle_radius, the enable and disable actions, an invoice overdue or paid
SwitchOn(h) ==
    /\ cred.exists
    /\ Begin(h, "save", <<>>, NoMem, Enabled(cred, cred.expires))

SwitchOff(h, kicks) ==
    /\ cred.exists
    /\ Begin(h, "save", IF kicks THEN <<"kick">> ELSE <<>>, NoMem,
             Disabled(cred))

\* renew, and the sync_to_radius it calls: a copy, and the copy made by the
\* signal of that method's own save.
Renew(h) ==
    /\ cred.exists
    /\ Begin(h, "save", <<"sync", "sync">>, NoMem,
             Enabled(cred, now + Validity))

\* A plan is saved, or the sync action runs: sync_to_radius alone.
Resync(h) ==
    /\ cred.exists
    /\ Begin(h, "none", <<"sync", "sync">>, NoMem, cred)

-----------------------------------------------------------------------------
(***************************************************************************)
(* Statements on the rows, and the signals they run.                       *)
(***************************************************************************)
SaveCredentials(h) ==
    /\ stage[h] = "save"
    /\ cred' = obj[h]
    /\ Goto(h, "tenant")
    /\ UNCHANGED <<customer, service, table, todo, mem, obj, tx, session, now,
                   faults, history>>

\* customer is unique: the second of two INSERTs fails the request.
InsertCredentials(h) ==
    /\ stage[h] = "insert"
    /\ \/ /\ ~cred.exists
          /\ cred' = obj[h]
          /\ Goto(h, "tenant")
          /\ UNCHANGED <<todo, mem, obj, tx, solo>>
       \/ /\ cred.exists
          /\ End(h)
          /\ UNCHANGED cred
    /\ UNCHANGED <<customer, service, table, session, now, faults, begun,
                   suspect>>

\* sync_to_radius of credentials that are not saved first
Sync(h) ==
    /\ Run(h, "sync")
    /\ obj' = [obj EXCEPT ![h] = Object(h)]
    /\ Goto(h, "tenant")
    /\ UNCHANGED <<rows, table, mem, tx, session, now, faults, history>>

SaveServiceRow(h) ==
    /\ Run(h, "service")
    /\ service' = mem[h].service
    /\ UNCHANGED <<customer, cred, table, stage, mem, obj, tx, session, now,
                   faults, history>>

\* Mutant: the services get a status that only customers have.
SuspendServices_Inactive(h) ==
    /\ Run(h, "suspend_services")
    /\ service' = "INACTIVE"
    /\ UNCHANGED <<customer, cred, table, stage, mem, obj, tx, session, now,
                   faults, history>>

SuspendServices(h) ==
    /\ Run(h, "suspend_services")
    /\ service' = IF service = "ACTIVE" THEN "SUSPENDED" ELSE service
    /\ UNCHANGED <<customer, cred, table, stage, mem, obj, tx, session, now,
                   faults, history>>

SaveCustomerRow(h) ==
    /\ Run(h, "customer")
    /\ customer' = mem[h].customer
    /\ UNCHANGED <<service, cred, table, stage, mem, obj, tx, session, now,
                   faults, history>>

\* auto_create_radius_for_service
AfterService(c, status) ==
    IF c.exists /\ status = "ACTIVE" /\ ~c.enabled
    THEN Enabled(c, now + Validity)
    ELSE IF c.enabled /\ status = "SUSPENDED"
    THEN Disabled(c)
    ELSE c

\* sync_customer_status_to_radius
AfterCustomer(c, status) ==
    IF c.exists /\ status = "ACTIVE" /\ ~c.enabled
    THEN Enabled(c, c.expires)
    ELSE IF c.enabled /\ status = "SUSPENDED"
    THEN Disabled(c)
    ELSE c

\* The signal saves the credentials if it changed them.
Signal(h, label, object) ==
    /\ Run(h, label)
    /\ obj' = [obj EXCEPT ![h] = object]
    /\ Goto(h, IF object = Object(h) THEN "none" ELSE "save")
    /\ UNCHANGED <<rows, table, mem, tx, session, now, faults, history>>

ServiceSignal(h) ==
    Signal(h, "service_signal", AfterService(Object(h), mem[h].service))

CustomerSignal(h) ==
    Signal(h, "customer_signal", AfterCustomer(Object(h), mem[h].customer))

\* The new expiry counts from the old one, or from now if that has passed.
\* Without credentials the request fails where it would generate a username.
ComputeExtension(h) ==
    LET c == Object(h)
        base == IF c.expires > now THEN c.expires ELSE now
    IN  \/ /\ c.exists
           /\ Run(h, "extend")
           /\ obj' = [obj EXCEPT ![h] = Enabled(c, base + Extension)]
           /\ Goto(h, "save")
           /\ UNCHANGED <<rows, table, mem, tx, session, now, faults, history>>
        \/ /\ stage[h] = "none" /\ Due(h) = "extend"
           /\ ~c.exists
           /\ End(h)
           /\ UNCHANGED <<rows, table, session, now, faults, begun, suspect>>

\* extend saves a service that is not active as active.  The signal finds
\* the credentials enabled and does nothing, as if it had not run at all.
Reopen(h) ==
    /\ Run(h, "reopen")
    /\ mem' = [mem EXCEPT ![h].service = "ACTIVE"]
    /\ service' = IF mem[h].service = "ACTIVE" THEN service ELSE "ACTIVE"
    /\ UNCHANGED <<customer, cred, table, stage, obj, tx, session, now, faults,
                   history>>

Answer(h) ==
    /\ stage[h] = "none"
    /\ Due(h) = "answer"
    /\ End(h)
    /\ UNCHANGED <<rows, table, session, now, faults, begun, suspect>>

-----------------------------------------------------------------------------
(***************************************************************************)
(* Statements on the radcheck tables.  The copy of enabled credentials     *)
(* (create_radius_user) deletes every row and inserts new ones; the copy   *)
(* of disabled ones (disable_radius_user) updates or inserts the tenant's  *)
(* Reject row, inserts the public one if there is none, and ends the open  *)
(* sessions.                                                               *)
(***************************************************************************)
\* Rows other transactions have deleted or locked.
Held(h, t) == UNION {tx[g].del[t] : g \in Requests \ {h}}

\* Mutant: only the password is replaced; the Reject row stays.
Aimed_KeepsReject(h, t) ==
    IF obj[h].enabled THEN Users(table[t])
    ELSE IF t = "tenant" THEN Rejects(table[t]) ELSE {}

\* The committed rows the statement changes.
Aimed(h, t) ==
    IF obj[h].enabled THEN table[t]
    ELSE IF t = "tenant" THEN Rejects(table[t]) ELSE {}

UserRow(h) == [kind |-> "user", by |-> h, expires |-> obj[h].expires]
RejectRow(h) == [kind |-> "reject", by |-> h, expires |-> 0]

\* The statement starts, and has to wait for another transaction.
WaitForRows(h, t) ==
    /\ stage[h] = t
    /\ ~tx[h].waits
    /\ Aimed(h, t) \cap Held(h, t) # {}
    /\ tx' = [tx EXCEPT ![h].waits = TRUE, ![h].seen = Aimed(h, t)]
    /\ UNCHANGED <<rows, table, todo, stage, mem, obj, session, now, faults,
                   history>>

\* The statement runs when nobody holds its rows: the ones it saw when it
\* started, if it had to wait.
Sees(h, t) == IF tx[h].waits THEN tx[h].seen ELSE Aimed(h, t)
Runs(h, t) == stage[h] = t /\ Sees(h, t) \cap Held(h, t) = {}
Found(h, t) == Sees(h, t) \cap table[t]

Staged(h, t, del, ins) ==
    [tx[h] EXCEPT !.waits = FALSE, !.seen = {}, !.del[t] = del, !.ins[t] = ins]

AtMostOne(rs) == \A a, b \in rs : a = b

\* create_radius_user, up to the public copy
CreateInTenant(h) ==
    /\ Runs(h, "tenant")
    /\ obj[h].enabled
    /\ tx' = [tx EXCEPT ![h] =
                Staged(h, "tenant", Found(h, "tenant"), {UserRow(h)})]
    /\ Goto(h, "public")
    /\ UNCHANGED <<rows, table, todo, mem, obj, session, now, faults, history>>

\* disable_radius_user, up to the public copy
RejectInTenant(h) ==
    /\ Runs(h, "tenant")
    /\ ~obj[h].enabled
    /\ table["tenant"] # {}
    /\ AtMostOne(Found(h, "tenant"))
    /\ LET locked == Found(h, "tenant")
           reject == IF locked = {} THEN {RejectRow(h)} ELSE locked
       IN  tx' = [tx EXCEPT ![h] = Staged(h, "tenant", locked, reject)]
    /\ Goto(h, "public")
    /\ UNCHANGED <<rows, table, todo, mem, obj, session, now, faults, history>>

\* It returns early for a user the tenant does not have, and update_or_create
\* raises for two Reject rows: nothing is copied.
SkipCopy(h) ==
    /\ Runs(h, "tenant")
    /\ ~obj[h].enabled
    /\ \/ table["tenant"] = {}
       \/ ~AtMostOne(Found(h, "tenant"))
    /\ tx' = [tx EXCEPT ![h] = NoTx]
    /\ Goto(h, "none")
    /\ UNCHANGED <<rows, table, todo, mem, obj, session, now, faults, history>>

\* _sync_to_public_schema, or _update_public_schema_status and disconnect_user
WritePublic(h) ==
    /\ Runs(h, "public")
    /\ LET ins == IF obj[h].enabled THEN {UserRow(h)}
                  ELSE IF Rejects(table["public"]) = {} THEN {RejectRow(h)}
                  ELSE {}
           kick == ~obj[h].enabled /\ session
       IN  tx' = [tx EXCEPT ![h] =
                    [Staged(h, "public", Found(h, "public"), ins)
                       EXCEPT !.kick = kick]]
    /\ Goto(h, "commit")
    /\ UNCHANGED <<rows, table, todo, mem, obj, session, now, faults, history>>

\* Mutant: no savepoint, so the failed copy leaves its deletions behind.
FailPublic_NoSavepoint(h) ==
    /\ "public_write" \in Faults /\ faults < MaxFaults
    /\ Runs(h, "public")
    /\ tx' = [tx EXCEPT ![h] =
                [Staged(h, "public", Found(h, "public"), {})
                   EXCEPT !.failed = TRUE,
                          !.kick = ~obj[h].enabled /\ session]]
    /\ Goto(h, "commit")
    /\ faults' = faults + 1
    /\ UNCHANGED <<rows, table, todo, mem, obj, session, now, history>>

\* The public write fails: its savepoint is rolled back, a warning logged.
FailPublic(h) ==
    /\ "public_write" \in Faults /\ faults < MaxFaults
    /\ Runs(h, "public")
    /\ tx' = [tx EXCEPT ![h] =
                [Staged(h, "public", {}, {})
                   EXCEPT !.failed = TRUE,
                          !.kick = ~obj[h].enabled /\ session]]
    /\ Goto(h, "commit")
    /\ faults' = faults + 1
    /\ UNCHANGED <<rows, table, todo, mem, obj, session, now, history>>

\* Mutant: no recursion guard; the signal of sync_to_radius's own save copies
\* again.
Commit_NoGuard(h) ==
    /\ stage[h] = "commit"
    /\ table' = [t \in Tables |-> (table[t] \ tx[h].del[t]) \cup tx[h].ins[t]]
    /\ session' = (session /\ ~tx[h].kick)
    /\ tx' = [tx EXCEPT ![h] = NoTx]
    /\ Goto(h, "tenant")
    /\ suspect' = (tx[h].failed \/ (suspect /\ h \notin solo))
    /\ UNCHANGED <<rows, todo, mem, obj, now, faults, begun, solo>>

\* Mutant: the copies a request makes share one transaction.
Commit_Shared(h) ==
    /\ stage[h] = "commit"
    /\ IF Due(h) = "sync"
       THEN UNCHANGED <<table, session, tx, suspect>>
       ELSE /\ table' = [t \in Tables |->
                           (table[t] \ tx[h].del[t]) \cup tx[h].ins[t]]
            /\ session' = (session /\ ~tx[h].kick)
            /\ tx' = [tx EXCEPT ![h] = NoTx]
            /\ suspect' = (tx[h].failed \/ (suspect /\ h \notin solo))
    /\ Goto(h, "none")
    /\ UNCHANGED <<rows, todo, mem, obj, now, faults, begun, solo>>

Commit(h) ==
    /\ stage[h] = "commit"
    /\ table' = [t \in Tables |-> (table[t] \ tx[h].del[t]) \cup tx[h].ins[t]]
    /\ session' = (session /\ ~tx[h].kick)
    /\ tx' = [tx EXCEPT ![h] = NoTx]
    /\ Goto(h, "none")
    /\ suspect' = (tx[h].failed \/ (suspect /\ h \notin solo))
    /\ UNCHANGED <<rows, todo, mem, obj, now, faults, begun, solo>>

\* set_user_expiration looks for the Expiration rows of the tenant's table.
StartExpiration(h) ==
    /\ Run(h, "expire")
    /\ tx' = [tx EXCEPT ![h].seen = Dated(table["tenant"])]
    /\ Goto(h, "expire")
    /\ UNCHANGED <<rows, table, mem, obj, session, now, faults, history>>

\* A statement that waits for a row follows it to its new version.
Follow(g, r, new) ==
    IF stage[g] \in {"tenant", "expire"} /\ r \in tx[g].seen
    THEN [tx[g] EXCEPT !.seen = (@ \ {r}) \cup {new}]
    ELSE tx[g]

\* Once nobody holds the rows it saw, it updates the one that is left.  If a
\* copy has replaced it meanwhile, update_or_create inserts another one; if
\* there are two, it raises, and the request goes on.
SetExpiration(h) ==
    LET found == tx[h].seen \cap table["tenant"]
        date == Object(h).expires
    IN  /\ stage[h] = "expire"
        /\ tx[h].seen \cap Held(h, "tenant") = {}
        /\ \/ /\ found = {}
              /\ table' = [table EXCEPT !["tenant"] =
                    @ \cup {[kind |-> "expiry", by |-> h, expires |-> date]}]
              /\ tx' = [tx EXCEPT ![h] = NoTx]
           \/ \E r \in found :
              /\ found = {r}
              /\ LET new == [r EXCEPT !.expires = date]
                 IN  /\ table' = [table EXCEPT !["tenant"] =
                                    (@ \ {r}) \cup {new}]
                     /\ tx' = [g \in Requests |-> IF g = h THEN NoTx
                                                 ELSE Follow(g, r, new)]
           \/ /\ ~AtMostOne(found)
              /\ tx' = [tx EXCEPT ![h] = NoTx]
              /\ UNCHANGED table
        /\ Goto(h, "none")
        /\ UNCHANGED <<rows, todo, mem, obj, session, now, faults, history>>

\* No other transaction has changed the open session's row.
SessionFree == \A h \in Requests : ~tx[h].kick

\* disconnect_user, called by toggle_radius after its save
Kick(h) ==
    /\ Run(h, "kick")
    /\ SessionFree
    /\ session' = FALSE
    /\ UNCHANGED <<rows, table, stage, mem, obj, tx, now, faults, history>>

\* The process dies: its transaction is rolled back.
Crash(h) ==
    /\ "crash" \in Faults /\ faults < MaxFaults
    /\ ~Idle(h)
    /\ End(h)
    /\ faults' = faults + 1
    /\ suspect' = TRUE
    /\ UNCHANGED <<rows, table, session, now, begun>>

-----------------------------------------------------------------------------
\* FreeRADIUS accepts the subscriber and records the start of the session.
Login ==
    /\ ~session
    /\ Admits("public")
    /\ session' = TRUE
    /\ UNCHANGED <<rows, table, todo, stage, mem, obj, tx, now, faults,
                   history>>

CloseSession ==
    /\ session /\ SessionFree
    /\ session' = FALSE
    /\ UNCHANGED <<rows, table, todo, stage, mem, obj, tx, now, faults,
                   history>>

\* The router reports the end of the session.
Logout == CloseSession

\* Mutant: the comparison is the wrong way round.
DisconnectExpired_Reversed ==
    /\ \E r \in Users(table["public"]) : r.expires - Skew > now
    /\ CloseSession

\* disconnect_expired_users: it reads the UTC date as one of its own zone.
DisconnectExpired ==
    /\ \E r \in Users(table["public"]) : r.expires - Skew <= now
    /\ CloseSession

Tick ==
    /\ now < MaxTime
    /\ now' = now + 1
    /\ UNCHANGED <<rows, table, todo, stage, mem, obj, tx, session, faults,
                   history>>

BeginSome(h) ==
    \/ Activate(h)
    \/ \E st \in Statuses : SaveService(h, st)
    \/ \E planChanges \in BOOLEAN : Extend(h, planChanges)
    \/ \E st \in Statuses, leaves \in BOOLEAN : SaveCustomer(h, st, leaves)
    \/ Payment(h)
    \/ SwitchOn(h)
    \/ \E kicks \in BOOLEAN : SwitchOff(h, kicks)
    \/ Renew(h)
    \/ Resync(h)

Step(h) ==
    \/ SaveCredentials(h)
    \/ InsertCredentials(h)
    \/ Sync(h)
    \/ SaveServiceRow(h)
    \/ SuspendServices(h)
    \/ SaveCustomerRow(h)
    \/ ServiceSignal(h)
    \/ CustomerSignal(h)
    \/ ComputeExtension(h)
    \/ Reopen(h)
    \/ \E t \in Tables : WaitForRows(h, t)
    \/ CreateInTenant(h)
    \/ RejectInTenant(h)
    \/ SkipCopy(h)
    \/ WritePublic(h)
    \/ Commit(h)
    \/ StartExpiration(h)
    \/ SetExpiration(h)
    \/ Kick(h)
    \/ Answer(h)

Next ==
    \/ \E h \in Requests : BeginSome(h) \/ Step(h) \/ FailPublic(h) \/ Crash(h)
    \/ Login
    \/ Logout
    \/ DisconnectExpired
    \/ Tick

\* Gunicorn runs every request on; Celery beat starts the task every five
\* minutes.  Nobody has to send a request, log in or out.
Fairness == /\ \A h \in Requests : WF_vars(Step(h))
            /\ WF_vars(DisconnectExpired)

Spec == Init /\ [][Next]_vars
FairSpec == Spec /\ Fairness

-----------------------------------------------------------------------------
Statements == {"service", "service_signal", "customer", "customer_signal",
               "suspend_services", "sync", "extend", "expire", "reopen",
               "kick", "answer"}
Stages == {"none", "save", "insert", "tenant", "public", "commit", "expire"}

Transactions == [waits: BOOLEAN, seen: SUBSET Row,
                 del: [Tables -> SUBSET Row], ins: [Tables -> SUBSET Row],
                 kick: BOOLEAN, failed: BOOLEAN]

TypeOK ==
    /\ customer \in Statuses
    /\ service \in Statuses
    /\ cred \in Credentials
    /\ table \in [Tables -> SUBSET Row]
    /\ todo \in [Requests -> Seq(Statements)]
    /\ stage \in [Requests -> Stages]
    /\ mem \in [Requests -> [customer: Statuses, service: Statuses]]
    /\ obj \in [Requests -> Credentials \cup {NotLoaded}]
    /\ tx \in [Requests -> Transactions]
    /\ session \in BOOLEAN
    /\ now \in Nat
    /\ faults \in Nat
    /\ begun \in Nat
    /\ solo \in SUBSET Requests
    /\ suspect \in BOOLEAN

\* What the two tables say of the subscriber is what the credentials say.
InStep ==
    \A t \in Tables :
        IF cred.enabled
        THEN \E r \in Users(table[t]) : /\ table[t] = {r}
                                        /\ r.expires = cred.expires
        ELSE Users(table[t]) = {} \/ Rejects(table[t]) # {}

\* When no request is in flight, FreeRADIUS follows the credentials, unless
\* requests have overlapped or a copy failed and no request that ran alone
\* has copied them since: one such request repairs whatever went before.
QuietTablesInStep == (\A h \in Requests : Idle(h)) /\ ~suspect => InStep

\* FreeRADIUS never finds the subscriber half written: once a table has the
\* user, every commit leaves the user in it, however copies interleave.
UserNeverVanishes ==
    [][\A t \in Tables : Users(table[t]) # {} => Users(table'[t]) # {}]_vars

\* Request h cannot go on before request g has ended its transaction.
WaitsFor(h, g) ==
    /\ g # h
    /\ \/ \E t \in Tables :
             stage[h] = t /\ Sees(h, t) \cap tx[g].del[t] # {}
       \/ stage[h] = "expire" /\ tx[h].seen \cap tx[g].del["tenant"] # {}
       \/ stage[h] = "none" /\ Due(h) = "kick" /\ tx[g].kick

\* Copies, extensions and disconnections wait for each other's rows, but
\* in every group of requests there is one that waits for none of them: the
\* database never has a deadlock to break.
NoCircularWait ==
    \A group \in SUBSET Requests : group # {} =>
        \E h \in group : \A g \in group : ~WaitsFor(h, g)

\* However long they wait for each other's rows, requests return.
EveryRequestReturns ==
    \A h \in Requests : ~Idle(h) ~> Idle(h)

\* The accounting of a subscriber who has expired is closed in the end.
Expired == \A r \in Users(table["public"]) : r.expires <= now
ExpiredSessionsEnd ==
    (session /\ Expired) ~> (~session \/ ~Expired)

=============================================================================
