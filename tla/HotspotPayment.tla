--------------------------- MODULE HotspotPayment ---------------------------
(***************************************************************************)
(* The sale of a hotspot session: one HotspotSession row per sale, written *)
(* by the purchase request, PayHero's callback (the webhook), the portal's *)
(* status polls and an administrator's disconnect.  A buyer may let a      *)
(* second device (a television) in on the same sale.                       *)
(*                                                                         *)
(* Every writer loads the row without a lock, changes the object and saves *)
(* all of its columns, so each keeps a copy between its load and its save. *)
(* The purchase and the webhook are one database transaction each: their   *)
(* saves become visible together when it commits.  Polls, disconnects and  *)
(* pairings run in autocommit: each save is visible at once.               *)
(*                                                                         *)
(* Celery's two hotspot tasks have no action.  They query HotspotSession   *)
(* on Celery's own connection; nothing sets a tenant's schema on it, the   *)
(* public schema has no such table, and the task returns the error.        *)
(*                                                                         *)
(* PayHero, M-Pesa and the customer are the variable stk and the actions   *)
(* that change it.                                                         *)
(***************************************************************************)
EXTENDS Integers, FiniteSets

CONSTANTS
    Sessions,    \* sales
    Deliveries,  \* executions of the webhook; two about one sale: a duplicate
    Polls,       \* status requests that can be in flight at a time
    Codeless,    \* executions of the webhook without a result code
    Closers,     \* disconnect and pairing requests
    About,       \* [executions -> Sessions] the sale each one names
    Codes,       \* access codes; random, so two sales may draw the same
    Devices,     \* MAC addresses that have asked for a pairing code
    Duration,    \* plan.duration_minutes, in ticks of ten minutes
    Speed,       \* plan.speed_limit_mbps, the number its digits denote
    Faults,      \* subset of {"crash", "lost_reply"}
    MaxCrashes,  \* bound on crashes
    MaxTime,     \* bound on the clock
    NoCode

Handlers == Deliveries \cup Polls \cup Closers

ASSUME HotspotAssumption ==
    /\ About \in [Handlers -> Sessions]
    /\ Codeless \subseteq Deliveries
    /\ Duration \in Nat \ {0}
    /\ Speed \in 0 .. 999
    /\ Faults \subseteq {"crash", "lost_reply"}
    /\ MaxCrashes \in Nat
    /\ MaxTime \in Nat
    /\ NoCode \notin Codes
    /\ Devices \cap (Codes \cup {NoCode}) = {}
    /\ Deliveries \cap Polls = {}
    /\ Deliveries \cap Closers = {}
    /\ Polls \cap Closers = {}

VARIABLES
    purchase,  \* where each sale's purchase request stands
    stk,       \* what PayHero knows of each sale's STK push
    row,       \* committed HotspotSession rows
    pc,        \* where each handler stands
    copy,      \* the row each handler loaded, as it changed it
    users,     \* names FreeRADIUS accepts, with the sale behind them
    ledger,    \* [sale -> deliveries that recorded a commission for it]
    now,
    crashes

vars == <<purchase, stk, row, pc, copy, users, ledger, now, crashes>>

Statuses == {"absent", "pending", "paid", "active", "expired", "failed"}

Row == [status: Statuses, checkout: BOOLEAN, code: Codes \cup {NoCode},
        expires: Nat]

NoRow == [status |-> "absent", checkout |-> FALSE, code |-> NoCode, expires |-> 0]

Init ==
    /\ purchase = [s \in Sessions |-> "idle"]
    /\ stk = [s \in Sessions |-> "none"]
    /\ row = [s \in Sessions |-> NoRow]
    /\ pc = [h \in Handlers |-> "idle"]
    /\ copy = [h \in Handlers |-> NoRow]
    /\ users = {}
    /\ ledger = [s \in Sessions |-> {}]
    /\ now = 0
    /\ crashes = 0

Goto(h, label) == pc' = [pc EXCEPT ![h] = label]

\* The handler returns: its object is gone.
Return(h, label) == Goto(h, label) /\ copy' = [copy EXCEPT ![h] = NoRow]

\* session.save(): every column of the handler's object.
Save(h, object) == row' = [row EXCEPT ![About[h]] = object]

WithStatus(object, st) == [object EXCEPT !.status = st]

\* Mutant: a new activation adds to the time that was left.
Activated_Stacks(object, code) ==
    [object EXCEPT !.status = "active", !.code = code,
                   !.expires = (IF @ > now THEN @ ELSE now) + Duration]

\* Mutant: the access code is left to a step that never comes.
Activated_NoCode(object, code) ==
    [object EXCEPT !.status = "active", !.expires = now + Duration]

\* HotspotSession.activate
Activated(object, code) ==
    [object EXCEPT !.status = "active", !.code = code,
                   !.expires = now + Duration]

-----------------------------------------------------------------------------
(***************************************************************************)
(* HotspotPurchaseView.post: the row is created, the STK push is sent, and *)
(* the outcome is saved, all before the commit makes the row visible.      *)
(***************************************************************************)
PushAccepted(s) ==
    /\ purchase[s] = "idle"
    /\ purchase' = [purchase EXCEPT ![s] = "accepted"]
    /\ stk' = [stk EXCEPT ![s] = "sent"]
    /\ UNCHANGED <<row, pc, copy, users, ledger, now, crashes>>

PushRefused(s) ==
    /\ purchase[s] = "idle"
    /\ purchase' = [purchase EXCEPT ![s] = "refused"]
    /\ UNCHANGED <<stk, row, pc, copy, users, ledger, now, crashes>>

\* The request timed out after PayHero accepted it: stk_push turns the
\* PayHeroTimeoutError into success=False without a checkout id.
PushReplyLost(s) ==
    /\ "lost_reply" \in Faults
    /\ purchase[s] = "idle"
    /\ purchase' = [purchase EXCEPT ![s] = "refused"]
    /\ stk' = [stk EXCEPT ![s] = "sent"]
    /\ UNCHANGED <<row, pc, copy, users, ledger, now, crashes>>

\* mark_failed, or the checkout id saved on a pending session.
CommitPurchase(s) ==
    /\ purchase[s] \in {"accepted", "refused"}
    /\ purchase' = [purchase EXCEPT ![s] = "done"]
    /\ LET accepted == purchase[s] = "accepted"
       IN  row' = [row EXCEPT ![s] =
                     [status |-> IF accepted THEN "pending" ELSE "failed",
                      checkout |-> accepted, code |-> NoCode, expires |-> 0]]
    /\ UNCHANGED <<stk, pc, copy, users, ledger, now, crashes>>

\* The process dies before the commit: there never was a row.
CrashPurchase(s) ==
    /\ "crash" \in Faults /\ crashes < MaxCrashes
    /\ purchase[s] \in {"accepted", "refused"}
    /\ purchase' = [purchase EXCEPT ![s] = "done"]
    /\ crashes' = crashes + 1
    /\ UNCHANGED <<stk, row, pc, copy, users, ledger, now>>

\* The customer enters the PIN, or the push fails or is cancelled.
Resolve(s) ==
    /\ stk[s] = "sent"
    /\ \E outcome \in {"paid", "failed", "cancelled"} :
          stk' = [stk EXCEPT ![s] = outcome]
    /\ UNCHANGED <<purchase, row, pc, copy, users, ledger, now, crashes>>

-----------------------------------------------------------------------------
(***************************************************************************)
(* PayHeroHotspotWebhookView.post, one transaction.  Its saves hold the    *)
(* row's lock up to the commit, so they are one step here.                 *)
(***************************************************************************)
\* A session without the callback's checkout id is answered 404.
ReceiveCallback(d) ==
    /\ pc[d] = "idle" /\ stk[About[d]] \in {"paid", "failed", "cancelled"}
    /\ IF row[About[d]].checkout
       THEN /\ Goto(d, "loaded")
            /\ copy' = [copy EXCEPT ![d] = row[About[d]]]
       ELSE Return(d, "done")
    /\ UNCHANGED <<purchase, stk, row, users, ledger, now, crashes>>

\* Mutant: result_code is not compared with 0.
ApplySuccess_AnyResult(d) ==
    /\ pc[d] = "loaded"
    /\ \E code \in Codes : Save(d, Activated(copy[d], code))
    /\ ledger' = [ledger EXCEPT ![About[d]] = @ \cup {d}]
    /\ Return(d, "done")
    /\ UNCHANGED <<purchase, stk, users, now, crashes>>

\* mark_paid, _activate_hotspot_user (it only draws a code), activate and
\* record_commission, whatever the session's status is by now.  The result
\* code of a callback without one is 0, which is that of a payment.
ApplySuccess(d) ==
    /\ pc[d] = "loaded" /\ (stk[About[d]] = "paid" \/ d \in Codeless)
    /\ \E code \in Codes : Save(d, Activated(copy[d], code))
    /\ ledger' = [ledger EXCEPT ![About[d]] = @ \cup {d}]
    /\ Return(d, "done")
    /\ UNCHANGED <<purchase, stk, users, now, crashes>>

ApplyFailure(d) ==
    /\ pc[d] = "loaded" /\ d \notin Codeless
    /\ stk[About[d]] \in {"failed", "cancelled"}
    /\ Save(d, WithStatus(copy[d], "failed"))
    /\ Return(d, "done")
    /\ UNCHANGED <<purchase, stk, users, ledger, now, crashes>>

-----------------------------------------------------------------------------
(***************************************************************************)
(* HotspotPurchaseStatusView.get.  A poll that finds the session active,   *)
(* failed or expired, or pending without a checkout id, changes nothing.   *)
(***************************************************************************)
\* Mutant: a session left "paid" is not taken up again.
LoadPoll_PendingOnly(p) ==
    /\ pc[p] = "idle"
    /\ LET r == row[About[p]]
       IN  /\ r.status = "pending" /\ r.checkout
           /\ copy' = [copy EXCEPT ![p] = r]
           /\ Goto(p, r.status)
    /\ UNCHANGED <<purchase, stk, row, users, ledger, now, crashes>>

LoadPoll(p) ==
    /\ pc[p] = "idle"
    /\ LET r == row[About[p]]
       IN  /\ r.status = "paid" \/ (r.status = "pending" /\ r.checkout)
           /\ copy' = [copy EXCEPT ![p] = r]
           /\ Goto(p, r.status)
    /\ UNCHANGED <<purchase, stk, row, users, ledger, now, crashes>>

\* get_payment_status answers SUCCESS: mark_paid, committed on its own.
ConfirmPayment(p) ==
    /\ pc[p] = "pending" /\ stk[About[p]] = "paid"
    /\ Save(p, WithStatus(copy[p], "paid"))
    /\ copy' = [copy EXCEPT ![p] = WithStatus(@, "paid")]
    /\ Goto(p, "paid")
    /\ UNCHANGED <<purchase, stk, users, ledger, now, crashes>>

\* Mutant: every answer but SUCCESS ends the sale.
RejectPayment_NotConfirmed(p) ==
    /\ pc[p] = "pending" /\ stk[About[p]] # "paid"
    /\ Save(p, WithStatus(copy[p], "failed"))
    /\ Return(p, "idle")
    /\ UNCHANGED <<purchase, stk, users, ledger, now, crashes>>

\* Mutant: a refused payment is a cancelled sale.
RejectPayment_Cancels(p) ==
    /\ pc[p] = "pending" /\ stk[About[p]] = "failed"
    /\ Save(p, WithStatus(copy[p], "cancelled"))
    /\ Return(p, "idle")
    /\ UNCHANGED <<purchase, stk, users, ledger, now, crashes>>

\* It answers FAILED.
RejectPayment(p) ==
    /\ pc[p] = "pending" /\ stk[About[p]] = "failed"
    /\ Save(p, WithStatus(copy[p], "failed"))
    /\ Return(p, "idle")
    /\ UNCHANGED <<purchase, stk, users, ledger, now, crashes>>

\* Mutant: the object is saved although nothing changed.
AnswerPending_Saves(p) ==
    /\ pc[p] = "pending"
    /\ stk[About[p]] \in {"sent", "cancelled"} \/ "lost_reply" \in Faults
    /\ Save(p, copy[p])
    /\ Return(p, "idle")
    /\ UNCHANGED <<purchase, stk, users, ledger, now, crashes>>

\* It answers anything else (CANCELLED too), or could not be asked.
AnswerPending(p) ==
    /\ pc[p] = "pending"
    /\ stk[About[p]] \in {"sent", "cancelled"} \/ "lost_reply" \in Faults
    /\ Return(p, "idle")
    /\ UNCHANGED <<purchase, stk, row, users, ledger, now, crashes>>

Activate(p) ==
    /\ pc[p] = "paid"
    /\ \E code \in Codes :
          /\ Save(p, Activated(copy[p], code))
          /\ copy' = [copy EXCEPT ![p] = Activated(@, code)]
    /\ Goto(p, "active")
    /\ UNCHANGED <<purchase, stk, users, ledger, now, crashes>>

(***************************************************************************)
(* int(plan.speed_limit_mbps * 1024) repeats the column's digits 1024      *)
(* times, and the value "<n>k/<n>k" goes into radreply.value, 253          *)
(* characters long.  Only "0" (a plan below 1024 kbps) stays short.        *)
(***************************************************************************)
Digits == IF Speed < 10 THEN 1 ELSE IF Speed < 100 THEN 2 ELSE 3

RateLimitLength == IF Speed = 0 THEN 5 ELSE 2 * 1024 * Digits + 3

RateLimitFits == RateLimitLength <= 253

\* create_hotspot_credentials: the user replaces one of the same name; a
\* rate limit that does not fit is rolled back, logged and ignored.
Admit(name, s) ==
    users' = IF RateLimitFits
             THEN {u \in users : u.code # name}
                    \cup {[code |-> name, session |-> s]}
             ELSE users

CreateCredentials(p) ==
    /\ pc[p] = "active"
    /\ Admit(copy[p].code, About[p])
    /\ Return(p, "idle")
    /\ UNCHANGED <<purchase, stk, row, ledger, now, crashes>>

-----------------------------------------------------------------------------
Load(c, label) ==
    /\ pc[c] = "idle"
    /\ copy' = [copy EXCEPT ![c] = row[About[c]]]
    /\ Goto(c, label)
    /\ UNCHANGED <<purchase, stk, row, users, ledger, now, crashes>>

\* HotspotSessionViewSet.disconnect
LoadDisconnect(c) ==
    row[About[c]].status = "active" /\ Load(c, "closing")

MarkExpired(c) ==
    /\ pc[c] = "closing"
    /\ Save(c, WithStatus(copy[c], "expired"))
    /\ Return(c, "idle")
    /\ UNCHANGED <<purchase, stk, users, ledger, now, crashes>>

(***************************************************************************)
(* HotspotDeviceAuthView._authorize_device: the buyer types the code a     *)
(* device shows, and its MAC address becomes a user of its own.  The view  *)
(* ignores whether that worked, and closing the session leaves that user.  *)
(***************************************************************************)
\* Mutant: any session on record will do.
LoadPairing_AnyStatus(c) ==
    /\ Devices # {} /\ row[About[c]].status # "absent"
    /\ Load(c, "pairing")

LoadPairing(c) ==
    /\ Devices # {}
    /\ row[About[c]].status = "active" /\ row[About[c]].expires > now
    /\ Load(c, "pairing")

AuthorizeDevice(c) ==
    /\ pc[c] = "pairing"
    /\ \E device \in Devices : Admit(device, About[c])
    /\ Return(c, "idle")
    /\ UNCHANGED <<purchase, stk, row, ledger, now, crashes>>

-----------------------------------------------------------------------------
\* A worker dies: what it saved in autocommit stays, a webhook's
\* transaction is rolled back.
Crash(h) ==
    /\ "crash" \in Faults /\ crashes < MaxCrashes
    /\ pc[h] \notin {"idle", "done"}
    /\ Return(h, IF h \in Deliveries THEN "done" ELSE "idle")
    /\ crashes' = crashes + 1
    /\ UNCHANGED <<purchase, stk, row, users, ledger, now>>

Tick ==
    /\ now < MaxTime
    /\ now' = now + 1
    /\ UNCHANGED <<purchase, stk, row, pc, copy, users, ledger, crashes>>

PurchaseStep(s) ==
    \/ PushAccepted(s) \/ PushRefused(s) \/ PushReplyLost(s)
    \/ CommitPurchase(s) \/ CrashPurchase(s)

WebhookStep(d) == ReceiveCallback(d) \/ ApplySuccess(d) \/ ApplyFailure(d)

PollStep(p) ==
    \/ LoadPoll(p) \/ ConfirmPayment(p) \/ RejectPayment(p)
    \/ AnswerPending(p) \/ Activate(p) \/ CreateCredentials(p)

DisconnectStep(c) == LoadDisconnect(c) \/ MarkExpired(c)

PairingStep(c) == LoadPairing(c) \/ AuthorizeDevice(c)

Next ==
    \/ \E s \in Sessions : PurchaseStep(s) \/ Resolve(s)
    \/ \E d \in Deliveries : WebhookStep(d)
    \/ \E p \in Polls : PollStep(p)
    \/ \E c \in Closers : DisconnectStep(c) \/ PairingStep(c)
    \/ \E h \in Handlers : Crash(h)
    \/ Tick

Spec == Init /\ [][Next]_vars

\* The purchase request runs to its commit, the portal keeps polling while
\* the page is open, and disconnect and pairing requests return.  Nothing
\* makes the customer pay, PayHero call back or an administrator disconnect.
Fairness ==
    /\ \A s \in Sessions : WF_vars(CommitPurchase(s))
    /\ \A p \in Polls : WF_vars(PollStep(p))
    /\ \A c \in Closers : WF_vars(MarkExpired(c)) /\ WF_vars(AuthorizeDevice(c))

FairSpec == Spec /\ Fairness

-----------------------------------------------------------------------------
(***************************************************************************)
(* Properties.                                                             *)
(***************************************************************************)

\* Every variable stays in its type.
TypeOK ==
    /\ purchase \in [Sessions -> {"idle", "accepted", "refused", "done"}]
    /\ stk \in [Sessions -> {"none", "sent", "paid", "failed", "cancelled"}]
    /\ row \in [Sessions -> Row]
    /\ pc \in [Handlers -> {"idle", "loaded", "done", "pending", "paid",
                            "active", "closing", "pairing"}]
    /\ copy \in [Handlers -> Row]
    /\ users \in SUBSET [code: Codes \cup {NoCode} \cup Devices,
                          session: Sessions]
    /\ ledger \in [Sessions -> SUBSET Deliveries]
    /\ now \in 0 .. MaxTime
    /\ crashes \in 0 .. MaxCrashes

\* Sales about which every callback carries its result code.
Vouched == {s \in Sessions : \A d \in Codeless : About[d] # s}

\* Nobody is served, charged commission for or let in by FreeRADIUS unless
\* PayHero collected the money, although every writer saves a copy it
\* loaded earlier and polls, callbacks and disconnects interleave; provided
\* that PayHero gives a result code, which the webhook takes for 0 if not.
AccessNeedsPayment ==
    /\ \A s \in Vouched :
          row[s].status \in {"paid", "active", "expired"} \/ ledger[s] # {}
             => stk[s] = "paid"
    /\ \A u \in users : u.session \in Vouched => stk[u.session] = "paid"

\* A sale that PayHero took on and that is marked "Payment Failed" was not
\* paid, although polls and callbacks overwrite each other's rows.
FailedMeansUnpaid ==
    \A s \in Sessions :
        row[s].status = "failed" /\ row[s].checkout => stk[s] # "paid"

\* However often a sale is activated, its access ends at most one plan
\* duration from now: repeated activations never add up.
AccessNeverStacks ==
    \A s \in Sessions : row[s].expires <= now + Duration

\* A session that is or was served has the access code the customer needs:
\* no stale save leaves an active or expired row without one.
ServedRowsHaveCodes ==
    \A s \in Sessions : row[s].status \in {"active", "expired"} =>
        row[s].code # NoCode

\* A session on record whose payment went through does not stay pending or
\* half way, even when the worker that confirmed it died before activating.
PaidSalesEnd ==
    \A s \in Sessions :
        stk[s] = "paid" /\ row[s].status \in {"pending", "paid"}
            ~> row[s].status \notin {"pending", "paid"}

Overdue(s) == row[s].status = "active" /\ row[s].expires < now

\* "Marks sessions as expired in the database": a session past its expiry
\* does not stay active, unless it is sold again.
ExpiredSessionsAreMarked == \A s \in Sessions : Overdue(s) ~> ~Overdue(s)

Quiet(s) == \A h \in Handlers : About[h] = s => pc[h] \in {"idle", "done"}

\* "Payment confirmed -> RADIUS credentials created -> User can
\* authenticate": once nobody works on it, an active session's access code
\* is a user of FreeRADIUS.
ActiveSessionsCanAuthenticate ==
    \A s \in Sessions : Quiet(s) /\ row[s].status = "active" =>
        \E u \in users : u.code = row[s].code

-----------------------------------------------------------------------------
(***************************************************************************)
(* The sale behind a row.  A confirmed, active or expired session is sold; *)
(* a commission or a FreeRADIUS user is something given.                   *)
(***************************************************************************)
Phases ==
    [s \in Vouched |->
        CASE row[s].status = "absent"  -> "none"
          [] row[s].status = "pending" -> "open"
          [] row[s].status = "failed"  -> "lost"
          [] OTHER                     -> "sold"]

Outcomes ==
    [s \in Vouched |->
        CASE stk[s] = "paid"                    -> "paid"
          [] stk[s] \in {"failed", "cancelled"} -> "unpaid"
          [] OTHER                              -> "unknown"]

Given == {s \in Vouched : ledger[s] # {} \/ \E u \in users : u.session = s}

Sale == INSTANCE PaidSale WITH
    Sales <- Vouched, phase <- Phases, outcome <- Outcomes, given <- Given

\* Whichever stale copy is saved last, a sale whose callbacks carry their
\* result code is decided once, by what PayHero said, and nothing is given
\* for one that was not sold.
ImplementsSale == Sale!Spec

=============================================================================
