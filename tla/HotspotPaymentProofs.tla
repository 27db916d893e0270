------------------------ MODULE HotspotPaymentProofs ------------------------
(***************************************************************************)
(* What HotspotPayment guarantees for every number of sales, callbacks,    *)
(* polls and closers, every plan and every bound; and that the sales whose *)
(* callbacks carry a result code implement PaidSale.                       *)
(***************************************************************************)
EXTENDS HotspotPayment, TLAPS

-----------------------------------------------------------------------------
(***************************************************************************)
(* The two ways a handler changes its object.                              *)
(***************************************************************************)
\* mark_paid, mark_failed and mark_expired leave a row a row.
LEMMA WithStatusRow ==
    ASSUME NEW r \in Row, NEW st \in Statuses
    PROVE  /\ WithStatus(r, st) \in Row
           /\ WithStatus(r, st).status = st
           /\ WithStatus(r, st).code = r.code
           /\ WithStatus(r, st).expires = r.expires
BY DEF WithStatus, Row

\* activate leaves a row a row.
LEMMA ActivatedRow ==
    ASSUME NEW r \in Row, NEW code \in Codes, now \in Nat
    PROVE  /\ Activated(r, code) \in Row
           /\ Activated(r, code).status = "active"
           /\ Activated(r, code).code = code
           /\ Activated(r, code).expires = now + Duration
<1>1. now + Duration \in Nat
    BY HotspotAssumption
<1>2. QED
    BY <1>1 DEF Activated, Row, Statuses

\* The object of an idle handler is a row.
LEMMA NoRowType == NoRow \in Row
BY DEF NoRow, Row, Statuses

\* Admitting a name for a sale, or failing to, leaves users in their type.
LEMMA AdmitType ==
    ASSUME TypeOK, NEW name \in Codes \cup {NoCode} \cup Devices,
           NEW s \in Sessions, Admit(name, s)
    PROVE  /\ users' \in SUBSET [code: Codes \cup {NoCode} \cup Devices,
                                  session: Sessions]
           /\ \A u \in users' : u \in users \/ u.session = s
BY DEF Admit, TypeOK

\* What a step leaves in rows and copies: a row of the right type, for every
\* handler's save and for the purchase's commit.
LEMMA SaveType ==
    ASSUME TypeOK, NEW h \in Handlers, NEW r \in Row, Save(h, r)
    PROVE  row' \in [Sessions -> Row]
BY HotspotAssumption DEF Save, TypeOK

\* A handler that returns leaves its label and its object in their types.
LEMMA ReturnType ==
    ASSUME TypeOK, NEW h \in Handlers, NEW l \in {"idle", "done"}, Return(h, l)
    PROVE  /\ copy' \in [Handlers -> Row]
           /\ pc' \in [Handlers -> {"idle", "loaded", "done", "pending", "paid",
                                    "active", "closing", "pairing"}]
BY NoRowType DEF Return, Goto, TypeOK

-----------------------------------------------------------------------------
\* Before the first purchase every variable is in its type.
LEMMA TypeInit == Init => TypeOK
BY HotspotAssumption, NoRowType DEF Init, TypeOK

\* The purchase request keeps every variable in its type.
LEMMA PurchaseType ==
    ASSUME TypeOK, NEW s \in Sessions, PurchaseStep(s) \/ Resolve(s)
    PROVE  TypeOK'
<1>1. CASE PushAccepted(s) \/ PushRefused(s) \/ PushReplyLost(s) \/ Resolve(s)
    BY <1>1 DEF PushAccepted, PushRefused, PushReplyLost, Resolve, TypeOK
<1>2. CASE CommitPurchase(s)
    <2>1. PICK b \in BOOLEAN, st \in {"pending", "failed"} :
             row' = [row EXCEPT ![s] =
                       [status |-> st, checkout |-> b, code |-> NoCode,
                        expires |-> 0]]
        BY <1>2 DEF CommitPurchase
    <2>2. [status |-> st, checkout |-> b, code |-> NoCode,
           expires |-> 0] \in Row
        BY DEF Row, Statuses
    <2>3. row' \in [Sessions -> Row]
        BY <2>1, <2>2 DEF TypeOK
    <2>4. QED
        BY <1>2, <2>3 DEF CommitPurchase, TypeOK
<1>3. CASE CrashPurchase(s)
    BY <1>3, HotspotAssumption DEF CrashPurchase, TypeOK
<1>4. QED
    BY <1>1, <1>2, <1>3 DEF PurchaseStep

\* The callback keeps every variable in its type.
LEMMA WebhookType ==
    ASSUME TypeOK, NEW d \in Deliveries, WebhookStep(d)
    PROVE  TypeOK'
<1>0. /\ d \in Handlers /\ About[d] \in Sessions /\ copy[d] \in Row
      /\ row[About[d]] \in Row /\ now \in Nat
    BY HotspotAssumption DEF Handlers, TypeOK
<1>1. CASE ReceiveCallback(d)
    <2>1. CASE Return(d, "done")
        BY <1>0, <1>1, <2>1, ReturnType DEF ReceiveCallback, TypeOK
    <2>2. CASE Goto(d, "loaded") /\ copy' = [copy EXCEPT ![d] = row[About[d]]]
        BY <1>0, <1>1, <2>2 DEF ReceiveCallback, Goto, TypeOK
    <2>3. QED
        BY <1>1, <2>1, <2>2 DEF ReceiveCallback
<1>2. CASE ApplySuccess(d)
    <2>1. PICK code \in Codes : Save(d, Activated(copy[d], code))
        BY <1>2 DEF ApplySuccess
    <2>2. row' \in [Sessions -> Row]
        BY <1>0, <2>1, ActivatedRow, SaveType
    <2>3. QED
        BY <1>0, <1>2, <2>2, ReturnType DEF ApplySuccess, TypeOK
<1>3. CASE ApplyFailure(d)
    <2>1. row' \in [Sessions -> Row]
        BY <1>0, <1>3, WithStatusRow, SaveType DEF ApplyFailure, Statuses
    <2>2. QED
        BY <1>0, <1>3, <2>1, ReturnType DEF ApplyFailure, TypeOK
<1>4. QED
    BY <1>1, <1>2, <1>3 DEF WebhookStep

\* The status poll keeps every variable in its type.
LEMMA PollType ==
    ASSUME TypeOK, NEW p \in Polls, PollStep(p)
    PROVE  TypeOK'
<1>0. /\ p \in Handlers /\ About[p] \in Sessions /\ copy[p] \in Row
      /\ row[About[p]] \in Row /\ now \in Nat
    BY HotspotAssumption DEF Handlers, TypeOK
<1>1. CASE LoadPoll(p)
    BY <1>0, <1>1 DEF LoadPoll, Goto, TypeOK
<1>2. CASE ConfirmPayment(p)
    <2>1. WithStatus(copy[p], "paid") \in Row
        BY <1>0, WithStatusRow DEF Statuses
    <2>2. row' \in [Sessions -> Row] /\ copy' \in [Handlers -> Row]
        BY <1>0, <1>2, <2>1, SaveType DEF ConfirmPayment, TypeOK
    <2>3. QED
        BY <1>0, <1>2, <2>2 DEF ConfirmPayment, Goto, TypeOK
<1>3. CASE RejectPayment(p)
    <2>1. row' \in [Sessions -> Row]
        BY <1>0, <1>3, WithStatusRow, SaveType DEF RejectPayment, Statuses
    <2>2. QED
        BY <1>0, <1>3, <2>1, ReturnType DEF RejectPayment, TypeOK
<1>4. CASE AnswerPending(p)
    BY <1>0, <1>4, ReturnType DEF AnswerPending, TypeOK
<1>5. CASE Activate(p)
    <2>1. PICK code \in Codes :
             /\ Save(p, Activated(copy[p], code))
             /\ copy' = [copy EXCEPT ![p] = Activated(copy[p], code)]
        BY <1>5 DEF Activate
    <2>2. Activated(copy[p], code) \in Row
        BY <1>0, ActivatedRow
    <2>3. row' \in [Sessions -> Row] /\ copy' \in [Handlers -> Row]
        BY <1>0, <2>1, <2>2, SaveType DEF TypeOK
    <2>4. QED
        BY <1>0, <1>5, <2>3 DEF Activate, Goto, TypeOK
<1>6. CASE CreateCredentials(p)
    <2>1. copy[p].code \in Codes \cup {NoCode}
        BY <1>0 DEF Row
    <2>2. users' \in SUBSET [code: Codes \cup {NoCode} \cup Devices,
                             session: Sessions]
        BY <1>0, <1>6, <2>1, AdmitType DEF CreateCredentials
    <2>3. QED
        BY <1>0, <1>6, <2>2, ReturnType DEF CreateCredentials, TypeOK
<1>7. QED
    BY <1>1, <1>2, <1>3, <1>4, <1>5, <1>6 DEF PollStep

\* The disconnect and the pairing keep every variable in its type.
LEMMA CloserType ==
    ASSUME TypeOK, NEW c \in Closers,
           DisconnectStep(c) \/ PairingStep(c)
    PROVE  TypeOK'
<1>0. /\ c \in Handlers /\ About[c] \in Sessions /\ copy[c] \in Row
      /\ row[About[c]] \in Row
    BY HotspotAssumption DEF Handlers, TypeOK
<1>1. CASE LoadDisconnect(c) \/ LoadPairing(c)
    BY <1>0, <1>1 DEF LoadDisconnect, LoadPairing, Load, Goto, TypeOK
<1>2. CASE MarkExpired(c)
    <2>1. row' \in [Sessions -> Row]
        BY <1>0, <1>2, WithStatusRow, SaveType DEF MarkExpired, Statuses
    <2>2. QED
        BY <1>0, <1>2, <2>1, ReturnType DEF MarkExpired, TypeOK
<1>3. CASE AuthorizeDevice(c)
    <2>1. users' \in SUBSET [code: Codes \cup {NoCode} \cup Devices,
                             session: Sessions]
        BY <1>0, <1>3, AdmitType DEF AuthorizeDevice
    <2>2. QED
        BY <1>0, <1>3, <2>1, ReturnType DEF AuthorizeDevice, TypeOK
<1>4. QED
    BY <1>1, <1>2, <1>3 DEF DisconnectStep, PairingStep

\* A worker's crash keeps every variable in its type.
LEMMA CrashType ==
    ASSUME TypeOK, NEW h \in Handlers, Crash(h)
    PROVE  TypeOK'
<1>1. crashes' \in 0 .. MaxCrashes
    BY HotspotAssumption DEF Crash, TypeOK
<1>2. QED
    BY <1>1, ReturnType DEF Crash, TypeOK

\* Every step keeps every variable in its type.
LEMMA TypeNext == TypeOK /\ [Next]_vars => TypeOK'
<1> SUFFICES ASSUME TypeOK, [Next]_vars PROVE TypeOK'
    OBVIOUS
<1>1. CASE Tick
    BY <1>1, HotspotAssumption DEF Tick, TypeOK
<1>2. CASE UNCHANGED vars
    BY <1>2 DEF vars, TypeOK
<1>3. QED
    BY <1>1, <1>2, PurchaseType, WebhookType, PollType, CloserType,
       CrashType DEF Next

\* Type correctness of every behaviour.
THEOREM TypeCorrect == Spec => []TypeOK
BY TypeInit, TypeNext, PTL DEF Spec

-----------------------------------------------------------------------------
(***************************************************************************)
(* Money before access.  What a handler is about to save it decided from a *)
(* copy; the copy is harmless because what PayHero collected is never      *)
(* given back, so the payment behind it is still there when it is saved.   *)
(* A callback without a result code counts as a payment, so all of this is *)
(* about the sales that no such callback names.                            *)
(***************************************************************************)
Served == {"paid", "active", "expired"}

PaidInv ==
    /\ \A s \in Sessions : purchase[s] = "idle" => stk[s] = "none"
    /\ \A s \in Vouched : row[s].status \in Served => stk[s] = "paid"
    /\ \A s \in Vouched : ledger[s] # {} => stk[s] = "paid"
    /\ \A u \in users : u.session \in Vouched => stk[u.session] = "paid"
    /\ \A h \in Handlers :
          About[h] \in Vouched /\ pc[h] \in {"paid", "active", "closing", "pairing"}
             => stk[About[h]] = "paid"

\* The purchase request and the customer never take a payment back.
LEMMA PurchasePaid ==
    ASSUME TypeOK, PaidInv, NEW s \in Sessions, PurchaseStep(s) \/ Resolve(s)
    PROVE  PaidInv'
<1>1. \A t \in Sessions : stk[t] = "paid" => stk'[t] = "paid"
    BY DEF PaidInv, TypeOK, PurchaseStep, PushAccepted, PushRefused,
           PushReplyLost, CommitPurchase, CrashPurchase, Resolve
<1>2. \A t \in Sessions : purchase'[t] = "idle" => stk'[t] = "none"
    BY DEF PaidInv, TypeOK, PurchaseStep, PushAccepted, PushRefused,
           PushReplyLost, CommitPurchase, CrashPurchase, Resolve
<1>3. \A t \in Sessions : row'[t].status \in Served => row[t].status \in Served
    <2>1. CASE CommitPurchase(s)
        BY <2>1 DEF CommitPurchase, TypeOK, Served
    <2>2. CASE UNCHANGED row
        BY <2>2
    <2>3. QED
        BY <2>1, <2>2 DEF PurchaseStep, PushAccepted, PushRefused,
                          PushReplyLost, CrashPurchase, Resolve
<1>4. UNCHANGED <<ledger, users, pc>>
    BY DEF PurchaseStep, PushAccepted, PushRefused, PushReplyLost,
           CommitPurchase, CrashPurchase, Resolve
<1>5. \A u \in users : u.session \in Sessions
    BY DEF TypeOK
<1>6. \A h \in Handlers : About[h] \in Sessions
    BY HotspotAssumption
<1>7. QED
    BY <1>1, <1>2, <1>3, <1>4, <1>5, <1>6 DEF PaidInv, Vouched

\* The handler's sale is paid for, if its callbacks carry a result code.
PaidFor(h) == About[h] \in Vouched => stk[About[h]] = "paid"

\* A handler's step that leaves stk alone keeps PaidInv if what it saves,
\* records and admits is paid for.
LEMMA HandlerPaid ==
    ASSUME TypeOK, PaidInv, NEW h \in Handlers, NEW l, Goto(h, l),
           UNCHANGED <<purchase, stk>>,
           l \in {"paid", "active", "closing", "pairing"} => PaidFor(h),
           \/ UNCHANGED row
           \/ \E r \in Row : Save(h, r) /\ (r.status \in Served => PaidFor(h)),
           \A s \in Vouched : ledger'[s] # {} => stk[s] = "paid",
           \A u \in users' : u.session \in Vouched => stk[u.session] = "paid"
    PROVE  PaidInv'
<1>1. \A g \in Handlers : pc'[g] = IF g = h THEN l ELSE pc[g]
    BY DEF Goto, TypeOK
<1>2. \A s \in Vouched : row'[s].status \in Served => stk[s] = "paid"
    <2>1. CASE UNCHANGED row
        BY <2>1 DEF PaidInv
    <2>2. ASSUME NEW r \in Row, Save(h, r), r.status \in Served => PaidFor(h)
          PROVE  \A s \in Vouched : row'[s].status \in Served => stk[s] = "paid"
        BY <2>2 DEF PaidInv, PaidFor, Vouched, Save, TypeOK
    <2>3. QED
        BY <2>1, <2>2
<1>3. QED
    BY <1>1, <1>2 DEF PaidInv, PaidFor

\* Callbacks, polls and closers, one step each.
LEMMA WebhookPaid ==
    ASSUME TypeOK, PaidInv, NEW d \in Deliveries, WebhookStep(d)
    PROVE  PaidInv'
<1>0. /\ d \in Handlers /\ About[d] \in Sessions /\ copy[d] \in Row /\ now \in Nat
    BY HotspotAssumption DEF Handlers, TypeOK
<1>1. CASE ReceiveCallback(d)
    <2>1. PICK l \in {"loaded", "done"} : Goto(d, l)
        BY <1>1 DEF ReceiveCallback, Return
    <2>2. UNCHANGED <<purchase, stk, row, users, ledger>>
        BY <1>1 DEF ReceiveCallback
    <2>3. QED
        BY <1>0, <2>1, <2>2, HandlerPaid DEF PaidInv
<1>2. CASE ApplySuccess(d)
    <2>1. PICK code \in Codes : Save(d, Activated(copy[d], code))
        BY <1>2 DEF ApplySuccess
    <2>2. Activated(copy[d], code) \in Row
        BY <1>0, ActivatedRow
    <2>3. PaidFor(d) /\ UNCHANGED <<purchase, stk, users>> /\ Goto(d, "done")
        BY <1>2 DEF ApplySuccess, Return, PaidFor, Vouched
    <2>4. \A s \in Vouched : ledger'[s] # {} => stk[s] = "paid"
        BY <1>2, <2>3 DEF ApplySuccess, PaidInv, PaidFor, Vouched, TypeOK
    <2>5. QED
        BY <1>0, <2>1, <2>2, <2>3, <2>4, HandlerPaid DEF PaidInv
<1>3. CASE ApplyFailure(d)
    <2>1. WithStatus(copy[d], "failed") \in Row
          /\ WithStatus(copy[d], "failed").status \notin Served
        BY <1>0, WithStatusRow DEF Statuses, Served
    <2>2. Save(d, WithStatus(copy[d], "failed")) /\ Goto(d, "done")
          /\ UNCHANGED <<purchase, stk, users, ledger>>
        BY <1>3 DEF ApplyFailure, Return
    <2>3. QED
        BY <1>0, <2>1, <2>2, HandlerPaid DEF PaidInv
<1>4. QED
    BY <1>1, <1>2, <1>3 DEF WebhookStep

\* A poll is past its confirmation only for a payment PayHero has.
LEMMA PollPaid ==
    ASSUME TypeOK, PaidInv, NEW p \in Polls, PollStep(p)
    PROVE  PaidInv'
<1>0. /\ p \in Handlers /\ About[p] \in Sessions /\ copy[p] \in Row /\ now \in Nat
    BY HotspotAssumption DEF Handlers, TypeOK
<1>1. CASE LoadPoll(p)
    <2>1. /\ Goto(p, row[About[p]].status)
          /\ row[About[p]].status \in {"paid", "pending"}
          /\ UNCHANGED <<purchase, stk, row, users, ledger>>
        BY <1>1 DEF LoadPoll
    <2>2. row[About[p]].status = "paid" => PaidFor(p)
        BY DEF PaidInv, PaidFor, Served
    <2>3. QED
        BY <1>0, <2>1, <2>2, HandlerPaid DEF PaidInv
<1>2. CASE ConfirmPayment(p)
    <2>1. WithStatus(copy[p], "paid") \in Row
        BY <1>0, WithStatusRow DEF Statuses
    <2>2. /\ Save(p, WithStatus(copy[p], "paid")) /\ Goto(p, "paid")
          /\ PaidFor(p)
          /\ UNCHANGED <<purchase, stk, users, ledger>>
        BY <1>2 DEF ConfirmPayment, PaidFor
    <2>3. QED
        BY <1>0, <2>1, <2>2, HandlerPaid DEF PaidInv
<1>3. CASE RejectPayment(p)
    <2>1. WithStatus(copy[p], "failed") \in Row
          /\ WithStatus(copy[p], "failed").status \notin Served
        BY <1>0, WithStatusRow DEF Statuses, Served
    <2>2. Save(p, WithStatus(copy[p], "failed")) /\ Goto(p, "idle")
          /\ UNCHANGED <<purchase, stk, users, ledger>>
        BY <1>3 DEF RejectPayment, Return
    <2>3. QED
        BY <1>0, <2>1, <2>2, HandlerPaid DEF PaidInv
<1>4. CASE AnswerPending(p)
    <2>1. Goto(p, "idle") /\ UNCHANGED <<purchase, stk, row, users, ledger>>
        BY <1>4 DEF AnswerPending, Return
    <2>2. QED
        BY <1>0, <2>1, HandlerPaid DEF PaidInv
<1>5. CASE Activate(p)
    <2>1. PICK code \in Codes : Save(p, Activated(copy[p], code))
        BY <1>5 DEF Activate
    <2>2. Activated(copy[p], code) \in Row
        BY <1>0, ActivatedRow
    <2>3. /\ Goto(p, "active") /\ PaidFor(p)
          /\ UNCHANGED <<purchase, stk, users, ledger>>
        BY <1>0, <1>5 DEF Activate, PaidInv, PaidFor
    <2>4. QED
        BY <1>0, <2>1, <2>2, <2>3, HandlerPaid DEF PaidInv
<1>6. CASE CreateCredentials(p)
    <2>1. /\ Goto(p, "idle") /\ PaidFor(p)
          /\ UNCHANGED <<purchase, stk, row, ledger>>
        BY <1>0, <1>6 DEF CreateCredentials, Return, PaidInv, PaidFor
    <2>2. \A u \in users' : u \in users \/ u.session = About[p]
        BY <1>6 DEF CreateCredentials, Admit
    <2>3. QED
        BY <1>0, <2>1, <2>2, HandlerPaid DEF PaidInv, PaidFor
<1>7. QED
    BY <1>1, <1>2, <1>3, <1>4, <1>5, <1>6 DEF PollStep

\* Closing saves "expired" on what was active; a device is admitted for a
\* sale that was active.
LEMMA CloserPaid ==
    ASSUME TypeOK, PaidInv, NEW c \in Closers,
           DisconnectStep(c) \/ PairingStep(c)
    PROVE  PaidInv'
<1>0. /\ c \in Handlers /\ About[c] \in Sessions /\ copy[c] \in Row
    BY HotspotAssumption DEF Handlers, TypeOK
<1>1. CASE LoadDisconnect(c) \/ LoadPairing(c)
    <2>1. PICK l \in {"closing", "pairing"} : Goto(c, l)
        BY <1>1 DEF LoadDisconnect, LoadPairing, Load
    <2>2. row[About[c]].status = "active"
          /\ UNCHANGED <<purchase, stk, row, users, ledger>>
        BY <1>1 DEF LoadDisconnect, LoadPairing, Load
    <2>3. PaidFor(c)
        BY <2>2 DEF PaidInv, PaidFor, Served
    <2>4. QED
        BY <1>0, <2>1, <2>2, <2>3, HandlerPaid DEF PaidInv
<1>2. CASE MarkExpired(c)
    <2>1. WithStatus(copy[c], "expired") \in Row
        BY <1>0, WithStatusRow DEF Statuses
    <2>2. /\ Save(c, WithStatus(copy[c], "expired")) /\ Goto(c, "idle")
          /\ PaidFor(c)
          /\ UNCHANGED <<purchase, stk, users, ledger>>
        BY <1>0, <1>2 DEF MarkExpired, Return, PaidInv, PaidFor
    <2>3. QED
        BY <1>0, <2>1, <2>2, HandlerPaid DEF PaidInv
<1>3. CASE AuthorizeDevice(c)
    <2>1. /\ Goto(c, "idle") /\ PaidFor(c)
          /\ UNCHANGED <<purchase, stk, row, ledger>>
        BY <1>0, <1>3 DEF AuthorizeDevice, Return, PaidInv, PaidFor
    <2>2. \A u \in users' : u \in users \/ u.session = About[c]
        BY <1>3 DEF AuthorizeDevice, Admit
    <2>3. QED
        BY <1>0, <2>1, <2>2, HandlerPaid DEF PaidInv, PaidFor
<1>4. QED
    BY <1>1, <1>2, <1>3 DEF DisconnectStep, PairingStep

\* PaidInv is inductive.
LEMMA PaidNext == TypeOK /\ PaidInv /\ [Next]_vars => PaidInv'
<1> SUFFICES ASSUME TypeOK, PaidInv, [Next]_vars PROVE PaidInv'
    OBVIOUS
<1>1. ASSUME NEW h \in Handlers, Crash(h) PROVE PaidInv'
    <2>1. PICK l \in {"idle", "done"} : Goto(h, l)
        BY <1>1 DEF Crash, Return
    <2>2. UNCHANGED <<purchase, stk, row, users, ledger>>
        BY <1>1 DEF Crash
    <2>3. QED
        BY <2>1, <2>2, HandlerPaid DEF PaidInv
<1>2. CASE Tick \/ UNCHANGED vars
    BY <1>2 DEF Tick, vars, PaidInv
<1>3. QED
    BY <1>1, <1>2, PurchasePaid, WebhookPaid, PollPaid, CloserPaid DEF Next

\* Where callbacks carry a result code, nobody is served, charged commission
\* for or let in without a payment, in any number of sales and handlers,
\* crashes, lost replies and callbacks without a code about other sales
\* included.
THEOREM MoneyBeforeAccess == Spec => []AccessNeedsPayment
<1>1. Init => PaidInv
    BY HotspotAssumption DEF Init, PaidInv, Vouched, NoRow, Served
<1>2. PaidInv => AccessNeedsPayment
    BY DEF PaidInv, AccessNeedsPayment, Served
<1>3. QED
    BY <1>1, <1>2, TypeCorrect, PaidNext, PTL DEF Spec

-----------------------------------------------------------------------------
(***************************************************************************)
(* What handlers save.  Rows are only written from a handler's own object, *)
(* activated or with another status, so what holds of every row and every  *)
(* object, and of the ways to change one, holds for good.                  *)
(***************************************************************************)
HandlerStep(h) ==
    \/ h \in Deliveries /\ WebhookStep(h)
    \/ h \in Polls /\ PollStep(h)
    \/ h \in Closers /\ (DisconnectStep(h) \/ PairingStep(h))
    \/ Crash(h)

\* What handler h saves if it saves: an activation, a confirmation, the end
\* of an active session, or a failure that PayHero reported.
Saved(h, object) ==
    /\ pc[h] \notin {"idle", "done"}
    /\ \/ \E code \in Codes : object = Activated(copy[h], code)
       \/ object = WithStatus(copy[h], "paid")
       \/ pc[h] = "closing" /\ object = WithStatus(copy[h], "expired")
       \/ /\ stk[About[h]] \in {"failed", "cancelled"}
          /\ object = WithStatus(copy[h], "failed")

\* Every step of a handler leaves the rows alone or saves such an object.
LEMMA StepSaves ==
    ASSUME NEW h \in Handlers, HandlerStep(h)
    PROVE  /\ row' = row \/ \E object : Saved(h, object) /\ Save(h, object)
           /\ UNCHANGED <<purchase, stk, now>>
<1>1. ASSUME WebhookStep(h)
      PROVE  /\ row' = row \/ \E object : Saved(h, object) /\ Save(h, object)
             /\ UNCHANGED <<purchase, stk, now>>
    <2>1. CASE ReceiveCallback(h)
        BY <2>1 DEF ReceiveCallback
    <2>2. CASE ApplySuccess(h)
        BY <2>2 DEF ApplySuccess, Saved
    <2>3. CASE ApplyFailure(h)
        BY <2>3 DEF ApplyFailure, Saved
    <2>4. QED
        BY <1>1, <2>1, <2>2, <2>3 DEF WebhookStep
<1>2. ASSUME PollStep(h)
      PROVE  /\ row' = row \/ \E object : Saved(h, object) /\ Save(h, object)
             /\ UNCHANGED <<purchase, stk, now>>
    <2>1. CASE LoadPoll(h) \/ AnswerPending(h) \/ CreateCredentials(h)
        BY <2>1 DEF LoadPoll, AnswerPending, CreateCredentials
    <2>2. CASE ConfirmPayment(h)
        BY <2>2 DEF ConfirmPayment, Saved
    <2>3. CASE RejectPayment(h)
        BY <2>3 DEF RejectPayment, Saved
    <2>4. CASE Activate(h)
        BY <2>4 DEF Activate, Saved
    <2>5. QED
        BY <1>2, <2>1, <2>2, <2>3, <2>4 DEF PollStep
<1>3. ASSUME DisconnectStep(h) \/ PairingStep(h)
      PROVE  /\ row' = row \/ \E object : Saved(h, object) /\ Save(h, object)
             /\ UNCHANGED <<purchase, stk, now>>
    <2>1. CASE MarkExpired(h)
        BY <2>1 DEF MarkExpired, Saved
    <2>2. CASE LoadDisconnect(h) \/ LoadPairing(h) \/ AuthorizeDevice(h)
        BY <2>2 DEF LoadDisconnect, LoadPairing, Load, AuthorizeDevice
    <2>3. QED
        BY <1>3, <2>1, <2>2 DEF DisconnectStep, PairingStep
<1>4. ASSUME Crash(h)
      PROVE  row' = row /\ UNCHANGED <<purchase, stk, now>>
    BY <1>4 DEF Crash
<1>5. QED
    BY <1>1, <1>2, <1>3, <1>4 DEF HandlerStep

\* What handler h holds after its step: nothing, the row as it is, or its
\* object confirmed or activated.  It closes what it found active.
Held(h) ==
    /\ \/ copy' = copy
       \/ copy' = [copy EXCEPT ![h] = NoRow]
       \/ copy' = [copy EXCEPT ![h] = row[About[h]]]
       \/ copy' = [copy EXCEPT ![h] = WithStatus(copy[h], "paid")]
       \/ \E code \in Codes : copy' = [copy EXCEPT ![h] = Activated(copy[h], code)]
    /\ \E label : Goto(h, label)
    /\ pc'[h] = "closing" =>
          /\ row[About[h]].status = "active"
          /\ copy' = [copy EXCEPT ![h] = row[About[h]]]

\* Every step of a handler does that.
LEMMA StepHolds ==
    ASSUME TypeOK, NEW h \in Handlers, HandlerStep(h)
    PROVE  Held(h)
<1>1. ASSUME NEW label \in {"idle", "done"}, Return(h, label) PROVE Held(h)
    BY <1>1 DEF Return, Goto, Held, TypeOK
<1>2. CASE WebhookStep(h)
    <2>1. CASE Return(h, "done")
        BY <1>1, <2>1
    <2>2. CASE Goto(h, "loaded") /\ copy' = [copy EXCEPT ![h] = row[About[h]]]
        BY <2>2 DEF Goto, Held, TypeOK
    <2>3. QED
        BY <1>2, <2>1, <2>2
        DEF WebhookStep, ReceiveCallback, ApplySuccess, ApplyFailure
<1>3. CASE PollStep(h)
    <2>1. CASE LoadPoll(h)
        BY <2>1 DEF LoadPoll, Goto, Held, TypeOK
    <2>2. CASE ConfirmPayment(h)
        BY <2>2 DEF ConfirmPayment, Goto, Held, TypeOK
    <2>3. CASE Activate(h)
        BY <2>3 DEF Activate, Goto, Held, TypeOK
    <2>4. CASE RejectPayment(h) \/ AnswerPending(h) \/ CreateCredentials(h)
        BY <1>1, <2>4 DEF RejectPayment, AnswerPending, CreateCredentials
    <2>5. QED
        BY <1>3, <2>1, <2>2, <2>3, <2>4 DEF PollStep
<1>4. CASE DisconnectStep(h) \/ PairingStep(h)
    <2>1. CASE LoadDisconnect(h) \/ LoadPairing(h)
        BY <2>1 DEF LoadDisconnect, LoadPairing, Load, Goto, Held, TypeOK
    <2>2. CASE AuthorizeDevice(h) \/ MarkExpired(h)
        BY <1>1, <2>2 DEF AuthorizeDevice, MarkExpired
    <2>3. QED
        BY <1>4, <2>1, <2>2 DEF DisconnectStep, PairingStep
<1>5. CASE Crash(h)
    BY <1>1, <1>5 DEF Crash
<1>6. QED
    BY <1>2, <1>3, <1>4, <1>5 DEF HandlerStep

\* Every step is the purchase's, the customer's, a handler's or the clock's.
LEMMA NextSteps ==
    ASSUME Next
    PROVE  \/ \E s \in Sessions : PurchaseStep(s) \/ Resolve(s)
           \/ \E h \in Handlers : HandlerStep(h)
           \/ Tick
BY DEF Next, HandlerStep, Handlers

-----------------------------------------------------------------------------
(***************************************************************************)
(* Time.  Stale objects carry expiries of their own, so the bound has to   *)
(* hold of them too.                                                       *)
(***************************************************************************)
TimeInv ==
    /\ \A s \in Sessions : row[s].expires <= now + Duration
    /\ \A h \in Handlers : copy[h].expires <= now + Duration

\* TimeInv is inductive.
LEMMA TimeNext == TypeOK /\ TimeInv /\ [Next]_vars => TimeInv'
<1> SUFFICES ASSUME TypeOK, TimeInv, [Next]_vars PROVE TimeInv'
    OBVIOUS
<1>0. now \in Nat /\ Duration \in Nat /\ now + Duration \in Nat /\ NoRow.expires = 0
    BY HotspotAssumption DEF TypeOK, NoRow
<1>1. ASSUME NEW s \in Sessions, PurchaseStep(s) \/ Resolve(s) PROVE TimeInv'
    <2>1. UNCHANGED <<now, copy>>
        BY <1>1 DEF PurchaseStep, PushAccepted, PushRefused, PushReplyLost,
                    CommitPurchase, CrashPurchase, Resolve
    <2>2. \A t \in Sessions : row'[t].expires = row[t].expires \/ row'[t].expires = 0
        <3>1. CASE CommitPurchase(s)
            BY <3>1 DEF CommitPurchase, TypeOK
        <3>2. CASE UNCHANGED row
            BY <3>2
        <3>3. QED
            BY <1>1, <3>1, <3>2 DEF PurchaseStep, PushAccepted, PushRefused,
                                    PushReplyLost, CrashPurchase, Resolve
    <2>3. QED
        BY <1>0, <2>1, <2>2 DEF TimeInv
<1>2. ASSUME NEW h \in Handlers, HandlerStep(h) PROVE TimeInv'
    <2>0. /\ About[h] \in Sessions /\ copy[h] \in Row
          /\ "paid" \in Statuses /\ "expired" \in Statuses /\ "failed" \in Statuses
        BY HotspotAssumption DEF TypeOK, Statuses
    <2>1. now' = now
        BY <1>2, StepSaves
    <2>2. ASSUME NEW object, Saved(h, object)
          PROVE  object.expires <= now + Duration
        <3>1. CASE \E code \in Codes : object = Activated(copy[h], code)
            BY <1>0, <2>0, <3>1, ActivatedRow
        <3>2. ASSUME NEW st \in {"paid", "expired", "failed"},
                     object = WithStatus(copy[h], st)
              PROVE  object.expires <= now + Duration
            <4>1. object.expires = copy[h].expires
                BY <2>0, <3>2, WithStatusRow
            <4>2. QED
                BY <4>1 DEF TimeInv
        <3>3. QED
            BY <2>2, <3>1, <3>2 DEF Saved
    <2>3. \A s \in Sessions : row'[s].expires <= now + Duration
        <3>1. CASE row' = row
            BY <3>1 DEF TimeInv
        <3>2. CASE \E object : Saved(h, object) /\ Save(h, object)
            BY <2>2, <3>2 DEF Save, TimeInv, TypeOK
        <3>3. QED
            BY <1>2, <3>1, <3>2, StepSaves
    <2>4. \A g \in Handlers : copy'[g].expires <= now + Duration
        <3>1. \A g \in Handlers :
                 \/ copy'[g] = copy[g] \/ copy'[g] = NoRow
                 \/ copy'[g] = row[About[h]]
                 \/ copy'[g] = WithStatus(copy[h], "paid")
                 \/ \E code \in Codes : copy'[g] = Activated(copy[h], code)
            BY <1>2, StepHolds DEF Held, TypeOK
        <3>2. WithStatus(copy[h], "paid").expires = copy[h].expires
            BY <2>0, WithStatusRow
        <3>3. \A code \in Codes : Activated(copy[h], code).expires = now + Duration
            BY <1>0, <2>0, ActivatedRow
        <3>4. /\ copy[h].expires <= now + Duration
              /\ row[About[h]].expires <= now + Duration
              /\ \A g \in Handlers : copy[g].expires <= now + Duration
            BY <2>0 DEF TimeInv
        <3>5. QED
            BY <1>0, <3>1, <3>2, <3>3, <3>4
    <2>5. QED
        BY <2>1, <2>3, <2>4 DEF TimeInv
<1>3. CASE Tick
    <2>1. /\ \A s \in Sessions : row[s].expires \in Nat
          /\ \A h \in Handlers : copy[h].expires \in Nat
        BY DEF TypeOK, Row
    <2>2. QED
        BY <1>0, <1>3, <2>1 DEF Tick, TimeInv
<1>4. CASE UNCHANGED vars
    BY <1>4 DEF vars, TimeInv
<1>5. QED
    BY <1>1, <1>2, <1>3, <1>4, NextSteps

\* However often callbacks and polls activate a sale, its access ends at
\* most one plan duration from now.
THEOREM RepeatedActivationsNeverStack == Spec => []AccessNeverStacks
<1>1. Init => TimeInv
    BY HotspotAssumption DEF Init, TimeInv, NoRow
<1>2. TimeInv => AccessNeverStacks
    BY DEF TimeInv, AccessNeverStacks
<1>3. QED
    BY <1>1, <1>2, TypeCorrect, TimeNext, PTL DEF Spec

-----------------------------------------------------------------------------
(***************************************************************************)
(* Codes.  A session is only closed by somebody who found it active.       *)
(***************************************************************************)
CodeInv ==
    /\ \A s \in Sessions : row[s].status \in {"active", "expired"} =>
          row[s].code # NoCode
    /\ \A h \in Handlers : pc[h] = "closing" =>
          copy[h].code # NoCode

\* CodeInv is inductive.
LEMMA CodeNext == TypeOK /\ CodeInv /\ [Next]_vars => CodeInv'
<1> SUFFICES ASSUME TypeOK, CodeInv, [Next]_vars PROVE CodeInv'
    OBVIOUS
<1>1. ASSUME NEW s \in Sessions, PurchaseStep(s) \/ Resolve(s) PROVE CodeInv'
    <2>1. UNCHANGED <<pc, copy>>
        BY <1>1 DEF PurchaseStep, PushAccepted, PushRefused, PushReplyLost,
                    CommitPurchase, CrashPurchase, Resolve
    <2>2. \A t \in Sessions :
             row'[t] = row[t] \/ row'[t].status \in {"pending", "failed"}
        <3>1. CASE CommitPurchase(s)
            BY <3>1 DEF CommitPurchase, TypeOK
        <3>2. CASE UNCHANGED row
            BY <3>2
        <3>3. QED
            BY <1>1, <3>1, <3>2 DEF PurchaseStep, PushAccepted, PushRefused,
                                    PushReplyLost, CrashPurchase, Resolve
    <2>3. QED
        BY <2>1, <2>2 DEF CodeInv
<1>2. ASSUME NEW h \in Handlers, HandlerStep(h) PROVE CodeInv'
    <2>0. /\ About[h] \in Sessions /\ copy[h] \in Row /\ now \in Nat
          /\ "paid" \in Statuses /\ "expired" \in Statuses /\ "failed" \in Statuses
          /\ NoCode \notin Codes
        BY HotspotAssumption DEF TypeOK, Statuses
    <2>1. ASSUME NEW object, Saved(h, object),
                 object.status \in {"active", "expired"}
          PROVE  object.code # NoCode
        <3>1. CASE \E code \in Codes : object = Activated(copy[h], code)
            BY <2>0, <3>1, ActivatedRow
        <3>2. CASE pc[h] = "closing" /\ object = WithStatus(copy[h], "expired")
            BY <2>0, <3>2, WithStatusRow DEF CodeInv
        <3>3. QED
            BY <2>0, <2>1, <3>1, <3>2, WithStatusRow DEF Saved
    <2>2. \A s \in Sessions : row'[s].status \in {"active", "expired"} =>
             row'[s].code # NoCode
        <3>1. CASE row' = row
            BY <3>1 DEF CodeInv
        <3>2. CASE \E object : Saved(h, object) /\ Save(h, object)
            BY <2>1, <3>2 DEF Save, CodeInv, TypeOK
        <3>3. QED
            BY <1>2, <3>1, <3>2, StepSaves
    <2>3. \A g \in Handlers : pc'[g] = "closing" =>
             copy'[g].code # NoCode
        <3>1. Held(h)
            BY <1>2, StepHolds
        <3>2. \A g \in Handlers \ {h} : pc'[g] = pc[g] /\ copy'[g] = copy[g]
            BY <3>1 DEF Held, Goto, TypeOK
        <3>3. ASSUME pc'[h] = "closing"
              PROVE  copy'[h].code # NoCode
            BY <2>0, <3>1, <3>3 DEF Held, CodeInv, TypeOK
        <3>4. QED
            BY <3>2, <3>3 DEF CodeInv
    <2>4. QED
        BY <2>2, <2>3 DEF CodeInv
<1>3. CASE Tick \/ UNCHANGED vars
    BY <1>3 DEF Tick, vars, CodeInv
<1>4. QED
    BY <1>1, <1>2, <1>3, NextSteps

\* No stale save leaves an active or expired session without the access
\* code its buyer needs.
THEOREM ServedSessionsHaveCodes == Spec => []ServedRowsHaveCodes
<1>1. Init => CodeInv
    BY DEF Init, CodeInv, NoRow
<1>2. CodeInv => ServedRowsHaveCodes
    BY DEF CodeInv, ServedRowsHaveCodes
<1>3. QED
    BY <1>1, <1>2, TypeCorrect, CodeNext, PTL DEF Spec

-----------------------------------------------------------------------------
(***************************************************************************)
(* Failure.  Celery's tasks reach no sale, so every failure of a sale that *)
(* PayHero took on is one that PayHero reported, which is final.           *)
(***************************************************************************)
FailInv ==
    \A s \in Sessions : row[s].status = "failed" /\ row[s].checkout =>
        stk[s] \in {"failed", "cancelled"}

\* FailInv is inductive.
LEMMA FailNext == TypeOK /\ PaidInv /\ FailInv /\ [Next]_vars => FailInv'
<1> SUFFICES ASSUME TypeOK, PaidInv, FailInv, [Next]_vars PROVE FailInv'
    OBVIOUS
<1>1. ASSUME NEW s \in Sessions, PurchaseStep(s) \/ Resolve(s) PROVE FailInv'
    <2>1. \A t \in Sessions : row'[t].status = "failed" /\ row'[t].checkout =>
             row'[t] = row[t]
        <3>1. CASE CommitPurchase(s)
            BY <3>1 DEF CommitPurchase, TypeOK
        <3>2. CASE UNCHANGED row
            BY <3>2
        <3>3. QED
            BY <1>1, <3>1, <3>2 DEF PurchaseStep, PushAccepted, PushRefused,
                                    PushReplyLost, CrashPurchase, Resolve
    <2>2. \A t \in Sessions : stk[t] \in {"failed", "cancelled"} => stk'[t] = stk[t]
        BY <1>1 DEF PurchaseStep, PushAccepted, PushRefused, PushReplyLost,
                    CommitPurchase, CrashPurchase, Resolve, PaidInv, TypeOK
    <2>3. QED
        BY <2>1, <2>2 DEF FailInv
<1>2. ASSUME NEW h \in Handlers, HandlerStep(h) PROVE FailInv'
    <2>0. /\ About[h] \in Sessions /\ copy[h] \in Row /\ now \in Nat
          /\ "paid" \in Statuses /\ "expired" \in Statuses /\ "failed" \in Statuses
        BY HotspotAssumption DEF TypeOK, Statuses
    <2>1. stk' = stk
        BY <1>2, StepSaves
    <2>2. ASSUME NEW object, Saved(h, object), object.status = "failed"
          PROVE  stk[About[h]] \in {"failed", "cancelled"}
        <3>1. /\ \A code \in Codes : Activated(copy[h], code).status = "active"
              /\ \A st \in Statuses : WithStatus(copy[h], st).status = st
            BY <2>0, WithStatusRow, ActivatedRow
        <3>2. QED
            BY <2>0, <2>2, <3>1 DEF Saved
    <2>3. \A s \in Sessions : row'[s].status = "failed" /\ row'[s].checkout =>
             stk[s] \in {"failed", "cancelled"}
        <3>1. CASE row' = row
            BY <3>1 DEF FailInv
        <3>2. CASE \E object : Saved(h, object) /\ Save(h, object)
            BY <2>2, <3>2 DEF Save, FailInv, TypeOK
        <3>3. QED
            BY <1>2, <3>1, <3>2, StepSaves
    <2>4. QED
        BY <2>1, <2>3 DEF FailInv
<1>3. CASE Tick \/ UNCHANGED vars
    BY <1>3 DEF Tick, vars, FailInv
<1>4. QED
    BY <1>1, <1>2, <1>3, NextSteps

\* A sale that PayHero took on and that is marked failed was not paid,
\* whichever stale copy was saved last.
THEOREM FailedSalesAreUnpaid == Spec => []FailedMeansUnpaid
<1>1. Init => PaidInv /\ FailInv
    BY HotspotAssumption DEF Init, PaidInv, FailInv, Vouched, NoRow, Served
<1>2. FailInv => FailedMeansUnpaid
    BY DEF FailInv, FailedMeansUnpaid
<1>3. QED
    BY <1>1, <1>2, TypeCorrect, PaidNext, FailNext, PTL DEF Spec

-----------------------------------------------------------------------------
(***************************************************************************)
(* The sale.  A handler's object is that of a row on record which PayHero  *)
(* took on, and stays one however old it gets; a handler past its          *)
(* confirmation works on a session that is sold, as does whatever was      *)
(* recorded or let in, where callbacks carry their result code.  PaidInv   *)
(* and FailInv add that PayHero's word stands behind every decision: so    *)
(* two handlers never decide differently.                                  *)
(***************************************************************************)
Confirmed == {"paid", "active", "closing", "pairing"}

SaleInv ==
    /\ \A s \in Sessions : purchase[s] # "done" => row[s].status = "absent"
    /\ \A s \in Sessions :
          /\ row[s].status = "absent" => ~row[s].checkout
          /\ row[s].status \notin {"absent", "failed"} => row[s].checkout
    /\ \A h \in Handlers : pc[h] \notin {"idle", "done"} =>
          row[About[h]].checkout /\ copy[h].checkout
    /\ \A h \in Handlers : About[h] \in Vouched /\ pc[h] \in Confirmed =>
          row[About[h]].status \in Served
    /\ \A s \in Vouched : ledger[s] # {} => row[s].status \in Served
    /\ \A u \in users : u.session \in Vouched => row[u.session].status \in Served

\* The purchase writes a row nobody has seen, the customer none.
LEMMA PurchaseSale ==
    ASSUME TypeOK, SaleInv, NEW s \in Sessions, PurchaseStep(s) \/ Resolve(s)
    PROVE  SaleInv'
<1>1. UNCHANGED <<pc, copy, users, ledger>>
    BY DEF PurchaseStep, PushAccepted, PushRefused, PushReplyLost,
           CommitPurchase, CrashPurchase, Resolve
<1>2. \A h \in Handlers : About[h] \in Sessions
    BY HotspotAssumption
<1>3. \A u \in users : u.session \in Sessions
    BY DEF TypeOK
<1>4. CASE CommitPurchase(s)
    <2>1. row[s].status = "absent" /\ ~row[s].checkout
        BY <1>4 DEF CommitPurchase, SaleInv
    <2>2. /\ \A t \in Sessions \ {s} :
                row'[t] = row[t] /\ purchase'[t] = purchase[t]
          /\ purchase'[s] = "done"
          /\ \/ row'[s].status = "pending" /\ row'[s].checkout
             \/ row'[s].status = "failed" /\ ~row'[s].checkout
        BY <1>4 DEF CommitPurchase, TypeOK
    <2>3. /\ s \in Vouched => ledger[s] = {} /\ \A u \in users : u.session # s
          /\ \A h \in Handlers : About[h] = s => pc[h] \in {"idle", "done"}
        BY <2>1 DEF SaleInv, Served
    <2>4. QED
        BY <1>1, <1>2, <1>3, <2>2, <2>3 DEF SaleInv, Confirmed, Vouched
<1>5. CASE UNCHANGED row
    <2>1. \A t \in Sessions : purchase'[t] # "done" => purchase[t] # "done"
        BY DEF PurchaseStep, PushAccepted, PushRefused, PushReplyLost,
               CommitPurchase, CrashPurchase, Resolve, TypeOK
    <2>2. QED
        BY <1>1, <1>5, <2>1 DEF SaleInv, Vouched
<1>6. QED
    BY <1>4, <1>5 DEF PurchaseStep, PushAccepted, PushRefused, PushReplyLost,
                      CrashPurchase, Resolve

\* Every object a handler may save is that of a row PayHero took on: it is
\* served, and paid for if the callbacks carry a code, or failed on
\* PayHero's word.
LEMMA SavedSale ==
    ASSUME TypeOK, PaidInv', FailInv, SaleInv, NEW h \in Handlers,
           HandlerStep(h), row' # row
    PROVE  /\ pc[h] \notin {"idle", "done"}
           /\ \E object \in Row :
                 /\ row' = [row EXCEPT ![About[h]] = object]
                 /\ object.checkout
                 /\ \/ object.status \in Served /\ PaidFor(h)
                    \/ /\ object.status = "failed"
                       /\ stk[About[h]] \in {"failed", "cancelled"}
<1>0. /\ About[h] \in Sessions /\ copy[h] \in Row /\ now \in Nat
      /\ {"paid", "expired", "failed"} \subseteq Statuses
    BY HotspotAssumption DEF TypeOK, Statuses
<1>1. PICK object : Saved(h, object) /\ Save(h, object)
    BY StepSaves
<1>2. pc[h] \notin {"idle", "done"} /\ copy[h].checkout
    BY <1>1 DEF Saved, SaleInv
<1>3. /\ \A code \in Codes :
            /\ Activated(copy[h], code) \in Row
            /\ Activated(copy[h], code).status = "active"
            /\ Activated(copy[h], code).checkout = copy[h].checkout
      /\ \A st \in Statuses :
            /\ WithStatus(copy[h], st) \in Row
            /\ WithStatus(copy[h], st).status = st
            /\ WithStatus(copy[h], st).checkout = copy[h].checkout
    BY <1>0, ActivatedRow, WithStatusRow DEF Activated, WithStatus, Row
<1>4. /\ object \in Row /\ object.checkout
      /\ \/ object.status \in Served
         \/ /\ object.status = "failed"
            /\ stk[About[h]] \in {"failed", "cancelled"}
    BY <1>0, <1>1, <1>2, <1>3 DEF Saved, Served
<1>5. row' = [row EXCEPT ![About[h]] = object] /\ row'[About[h]] = object
    BY <1>0, <1>1 DEF Save, TypeOK
<1>6. object.status \in Served => PaidFor(h)
    <2>1. stk' = stk
        BY StepSaves
    <2>2. QED
        BY <1>0, <1>5, <2>1 DEF PaidInv, PaidFor
<1>7. QED
    BY <1>2, <1>4, <1>5, <1>6

\* A session that was decided stays so when a handler saves, where
\* callbacks carry their result code.
LEMMA DecisionStands ==
    ASSUME TypeOK, PaidInv, PaidInv', FailInv, SaleInv, NEW h \in Handlers,
           HandlerStep(h), NEW s \in Sessions
    PROVE  /\ s \in Vouched =>
                 /\ row[s].status \in Served => row'[s].status \in Served
                 /\ row[s].status = "failed" => row'[s].status = "failed"
           /\ row[s].status = "absent" => row'[s] = row[s]
           /\ row[s].checkout => row'[s].checkout
           /\ row'[s].status \in {"absent", "pending"} => row'[s] = row[s]
<1>1. CASE row' # row
    <2>1. PICK object \in Row :
             /\ row' = [row EXCEPT ![About[h]] = object]
             /\ object.checkout
             /\ \/ object.status \in Served /\ PaidFor(h)
                \/ /\ object.status = "failed"
                   /\ stk[About[h]] \in {"failed", "cancelled"}
        BY <1>1, SavedSale
    <2>2. row'[s] = IF s = About[h] THEN object ELSE row[s]
        BY <2>1 DEF TypeOK
    <2>3. CASE s = About[h]
        <3>1. row[s].checkout
            BY <1>1, <2>3, SavedSale DEF SaleInv
        <3>2. /\ row[s].status # "absent"
              /\ row[s].status = "failed" => stk[s] # "paid"
              /\ s \in Vouched /\ row[s].status \in Served => stk[s] = "paid"
            BY <3>1 DEF SaleInv, FailInv, PaidInv
        <3>3. QED
            BY <2>1, <2>2, <2>3, <3>1, <3>2 DEF Served, PaidFor
    <2>4. QED
        BY <2>2, <2>3
<1>2. QED
    BY <1>1

\* The handler's sale is sold, if its callbacks carry a result code.
Sold(h) == About[h] \in Vouched => row[About[h]].status \in Served

\* What a step of a handler records and lets in: for its own sale, one that
\* is sold; and what it holds on to is an object of its sale.
LEMMA StepGives ==
    ASSUME TypeOK, PaidInv', FailInv, FailInv', SaleInv, NEW h \in Handlers,
           HandlerStep(h)
    PROVE  /\ \A g \in Handlers \ {h} : pc'[g] = pc[g] /\ copy'[g] = copy[g]
           /\ pc'[h] \notin {"idle", "done"} =>
                 row[About[h]].checkout /\ copy'[h].checkout
           /\ pc'[h] \in Confirmed => Sold(h)'
           /\ row' = row \/ users' = users
           /\ \A s \in Sessions \ {About[h]} : ledger'[s] = ledger[s]
           /\ ledger[About[h]] \subseteq ledger'[About[h]]
           /\ ledger' # ledger => Sold(h)'
           /\ \A u \in users' :
                 u \in users \/ (u.session = About[h] /\ pc[h] \in Confirmed)
<1>0. /\ About[h] \in Sessions /\ copy[h] \in Row /\ now \in Nat
      /\ row[About[h]] \in Row /\ "paid" \in Statuses
    BY HotspotAssumption DEF TypeOK, Statuses
<1>1. \A g \in Handlers \ {h} : pc'[g] = pc[g] /\ copy'[g] = copy[g]
    BY StepHolds DEF Held, Goto, TypeOK
<1>2. /\ row[About[h]].status = "active" => row[About[h]].checkout
      /\ row[About[h]].status = "paid" => row[About[h]].checkout
      /\ pc[h] \notin {"idle", "done"} => row[About[h]].checkout /\ copy[h].checkout
      /\ pc[h] \in Confirmed => Sold(h)
    BY <1>0 DEF SaleInv, Sold
<1> DEFINE Goal ==
           /\ pc'[h] \notin {"idle", "done"} =>
                 row[About[h]].checkout /\ copy'[h].checkout
           /\ pc'[h] \in Confirmed => Sold(h)'
           /\ row' = row \/ users' = users
           /\ \A s \in Sessions \ {About[h]} : ledger'[s] = ledger[s]
           /\ ledger[About[h]] \subseteq ledger'[About[h]]
           /\ ledger' # ledger => Sold(h)'
           /\ \A u \in users' :
                 u \in users \/ (u.session = About[h] /\ pc[h] \in Confirmed)
<1> SUFFICES Goal
    BY <1>1
<1>3. ASSUME NEW l \in {"idle", "done"}, Return(h, l),
             row' = row \/ users' = users,
             \A s \in Sessions \ {About[h]} : ledger'[s] = ledger[s],
             ledger[About[h]] \subseteq ledger'[About[h]],
             ledger' # ledger => Sold(h)',
             \A u \in users' :
                u \in users \/ (u.session = About[h] /\ pc[h] \in Confirmed)
      PROVE  Goal
    <2>1. pc'[h] = l
        BY <1>3 DEF Return, Goto, TypeOK
    <2>2. pc'[h] \in {"idle", "done"} /\ pc'[h] \notin Confirmed
        BY <2>1 DEF Confirmed
    <2>3. QED
        BY <1>3, <2>2
<1>4. ASSUME NEW l, Goto(h, l), UNCHANGED <<row, users, ledger>>,
             copy' = [copy EXCEPT ![h] = row[About[h]]], row[About[h]].checkout,
             l \in Confirmed => Sold(h)
      PROVE  Goal
    <2>1. pc'[h] = l /\ copy'[h] = row[About[h]]
        BY <1>4 DEF Goto, TypeOK
    <2>2. QED
        BY <1>4, <2>1 DEF Sold
<1>5. CASE WebhookStep(h)
    <2>1. CASE ReceiveCallback(h)
        <3>1. CASE Return(h, "done")
            BY <1>3, <2>1, <3>1 DEF ReceiveCallback
        <3>2. CASE ~Return(h, "done")
            BY <1>4, <2>1, <3>2 DEF ReceiveCallback, Confirmed
        <3>3. QED
            BY <3>1, <3>2
    <2>2. CASE ApplySuccess(h)
        <3>1. PICK code \in Codes : Save(h, Activated(copy[h], code))
            BY <2>2 DEF ApplySuccess
        <3>2. row'[About[h]].status = "active"
            BY <1>0, <3>1, ActivatedRow DEF Save, TypeOK
        <3>3. /\ \A s \in Sessions \ {About[h]} : ledger'[s] = ledger[s]
              /\ ledger[About[h]] \subseteq ledger'[About[h]]
            BY <1>0, <2>2 DEF ApplySuccess, TypeOK
        <3>4. QED
            BY <1>3, <2>2, <3>2, <3>3 DEF ApplySuccess, Served, Sold
    <2>3. CASE ApplyFailure(h)
        BY <1>3, <2>3 DEF ApplyFailure
    <2>4. QED
        BY <1>5, <2>1, <2>2, <2>3 DEF WebhookStep
<1>6. CASE PollStep(h)
    <2>1. CASE LoadPoll(h)
        BY <1>2, <1>4, <2>1 DEF LoadPoll, Confirmed, Served, Sold
    <2>2. CASE ConfirmPayment(h)
        <3>1. /\ row'[About[h]] = WithStatus(copy[h], "paid")
              /\ copy'[h] = WithStatus(copy[h], "paid") /\ pc'[h] = "paid"
            BY <1>0, <2>2 DEF ConfirmPayment, Save, Goto, TypeOK
        <3>2. /\ row'[About[h]].status = "paid"
              /\ copy'[h].checkout = copy[h].checkout
            BY <1>0, <3>1, WithStatusRow DEF WithStatus, Row
        <3>3. QED
            BY <1>2, <2>2, <3>1, <3>2 DEF ConfirmPayment, Served, Sold
    <2>3. CASE Activate(h)
        <3>1. PICK code \in Codes :
                 /\ Save(h, Activated(copy[h], code))
                 /\ copy' = [copy EXCEPT ![h] = Activated(copy[h], code)]
            BY <2>3 DEF Activate
        <3>2. /\ row'[About[h]] = Activated(copy[h], code)
              /\ copy'[h] = Activated(copy[h], code) /\ pc'[h] = "active"
            BY <1>0, <2>3, <3>1 DEF Activate, Save, Goto, TypeOK
        <3>3. /\ row'[About[h]].status = "active"
              /\ copy'[h].checkout = copy[h].checkout
            BY <1>0, <3>2, ActivatedRow DEF Activated, Row
        <3>4. QED
            BY <1>2, <2>3, <3>2, <3>3 DEF Activate, Served, Sold
    <2>4. CASE RejectPayment(h) \/ AnswerPending(h)
        BY <1>3, <2>4 DEF RejectPayment, AnswerPending
    <2>5. CASE CreateCredentials(h)
        BY <1>3, <2>5 DEF CreateCredentials, Admit, Confirmed
    <2>6. QED
        BY <1>6, <2>1, <2>2, <2>3, <2>4, <2>5 DEF PollStep
<1>7. CASE DisconnectStep(h) \/ PairingStep(h)
    <2>1. CASE LoadDisconnect(h) \/ LoadPairing(h)
        BY <1>2, <1>4, <2>1 DEF LoadDisconnect, LoadPairing, Load, Served, Sold
    <2>2. CASE MarkExpired(h)
        BY <1>3, <2>2 DEF MarkExpired
    <2>3. CASE AuthorizeDevice(h)
        BY <1>3, <2>3 DEF AuthorizeDevice, Admit, Confirmed
    <2>4. QED
        BY <1>7, <2>1, <2>2, <2>3 DEF DisconnectStep, PairingStep
<1>8. CASE Crash(h)
    BY <1>3, <1>8 DEF Crash
<1>9. QED
    BY <1>5, <1>6, <1>7, <1>8 DEF HandlerStep

\* SaleInv is inductive together with the money and failure invariants.
LEMMA SaleNext ==
    TypeOK /\ PaidInv /\ FailInv /\ SaleInv /\ [Next]_vars => SaleInv'
<1> SUFFICES ASSUME TypeOK, PaidInv, FailInv, SaleInv, [Next]_vars
             PROVE  SaleInv'
    OBVIOUS
<1>1. ASSUME NEW h \in Handlers, HandlerStep(h) PROVE SaleInv'
    <2>1. PaidInv' /\ FailInv'
        BY PaidNext, FailNext
    <2>2. UNCHANGED purchase
        BY <1>1, StepSaves
    <2>3. \A s \in Sessions :
             /\ s \in Vouched /\ row[s].status \in Served =>
                   row'[s].status \in Served
             /\ row[s].status = "absent" => row'[s] = row[s]
             /\ row[s].checkout => row'[s].checkout
             /\ row'[s].status \in {"absent", "pending"} => row'[s] = row[s]
        BY <1>1, <2>1, DecisionStands
    <2>4. /\ \A g \in Handlers \ {h} : pc'[g] = pc[g] /\ copy'[g] = copy[g]
          /\ pc'[h] \notin {"idle", "done"} =>
                row[About[h]].checkout /\ copy'[h].checkout
          /\ pc'[h] \in Confirmed => Sold(h)'
          /\ \A s \in Sessions \ {About[h]} : ledger'[s] = ledger[s]
          /\ ledger' # ledger => Sold(h)'
          /\ \A u \in users' :
                u \in users \/ (u.session = About[h] /\ pc[h] \in Confirmed)
        BY <1>1, <2>1, StepGives
    <2>5. /\ \A g \in Handlers : About[g] \in Sessions
          /\ \A u \in users : u.session \in Sessions
          /\ \A s \in Sessions : row[s] \in Row
          /\ Vouched \subseteq Sessions
        BY HotspotAssumption DEF TypeOK, Vouched
    <2>6. \A s \in Sessions : row'[s].status \notin {"absent", "failed"} =>
             row'[s].checkout
        BY <1>1, <2>1, <2>3, <2>5, SavedSale DEF SaleInv, TypeOK
    <2>7. \A s \in Sessions : row'[s].status = "absent" => ~row'[s].checkout
        BY <2>3 DEF SaleInv
    <2>8. \A s \in Vouched : ledger'[s] # {} => row'[s].status \in Served
        BY <2>3, <2>4, <2>5 DEF SaleInv, Sold
    <2>9. \A u \in users' : u.session \in Vouched =>
             row'[u.session].status \in Served
        BY <2>3, <2>4, <2>5 DEF SaleInv
    <2>10. \A g \in Handlers : About[g] \in Vouched /\ pc'[g] \in Confirmed =>
             row'[About[g]].status \in Served
        BY <2>3, <2>4, <2>5 DEF SaleInv, Sold
    <2>11. \A g \in Handlers : pc'[g] \notin {"idle", "done"} =>
             row'[About[g]].checkout /\ copy'[g].checkout
        BY <2>3, <2>4, <2>5 DEF SaleInv
    <2>12. \A s \in Sessions : purchase[s] # "done" => row'[s].status = "absent"
        BY <2>3 DEF SaleInv
    <2>13. QED
        BY <2>2, <2>6, <2>7, <2>8, <2>9, <2>10, <2>11, <2>12 DEF SaleInv
<1>2. CASE Tick \/ UNCHANGED vars
    BY <1>2 DEF Tick, vars, SaleInv, Vouched
<1>3. QED
    BY <1>1, <1>2, PurchaseSale, NextSteps

-----------------------------------------------------------------------------
\* A phase is what the row's status says.
LEMMA PhaseOf ==
    ASSUME TypeOK, NEW s \in Vouched
    PROVE  /\ Phases[s] = "none" <=> row[s].status = "absent"
           /\ Phases[s] = "open" <=> row[s].status = "pending"
           /\ Phases[s] = "lost" <=> row[s].status = "failed"
           /\ Phases[s] = "sold" <=> row[s].status \in Served
           /\ Phases[s] \in {"none", "open", "sold", "lost"}
<1>1. row[s].status \in Statuses
    BY DEF TypeOK, Row, Vouched
<1>2. QED
    BY <1>1 DEF Phases, Statuses, Served

\* An outcome is PayHero's word.
LEMMA OutcomeOf ==
    ASSUME NEW s \in Vouched
    PROVE  /\ Outcomes[s] = "paid" <=> stk[s] = "paid"
           /\ Outcomes[s] = "unpaid" <=> stk[s] \in {"failed", "cancelled"}
           /\ Outcomes[s] \in {"paid", "unpaid", "unknown"}
BY DEF Outcomes

\* A callback, poll, closer or crash sells, loses, gives, takes back or
\* leaves its sale alone.
LEMMA HandlerSells ==
    ASSUME TypeOK, TypeOK', PaidInv, PaidInv', FailInv, FailInv', SaleInv,
           SaleInv', NEW h \in Handlers, HandlerStep(h), About[h] \in Vouched
    PROVE  Sale!Next
<1> DEFINE s == About[h]
<1>0. s \in Vouched /\ Vouched \subseteq Sessions
    BY DEF Vouched
<1>1. Outcomes' = Outcomes
    BY StepSaves DEF Outcomes
<1>2. /\ row' = row \/ users' = users
      /\ \A t \in Sessions \ {s} : ledger'[t] = ledger[t]
      /\ ledger[s] \subseteq ledger'[s]
      /\ \A u \in users' : u \in users \/ u.session = s
    BY StepGives
<1>3. /\ \A t \in Given' : t \in Given \/ t = s
      /\ s \in Given' => row'[s].status \in Served
      /\ Given \subseteq Vouched
    <2>1. /\ \A u \in users' : u.session \in Vouched =>
                row'[u.session].status \in Served
          /\ \A t \in Vouched : ledger'[t] # {} => row'[t].status \in Served
        BY DEF SaleInv
    <2>2. QED
        BY <1>0, <1>2, <2>1 DEF Given
<1>4. CASE Phases' = Phases
    <2>1. CASE Given' \subseteq Given
        BY <1>1, <1>4, <2>1 DEF Sale!Next, Sale!TakeBack
    <2>2. CASE ~(Given' \subseteq Given)
        <3>1. s \in Given' /\ row'[s].status \in Served
            BY <1>3, <2>2
        <3>2. Phases'[s] = "sold"
            BY <1>0, <3>1 DEF Phases, Served
        <3>3. Given' \ {s} \in SUBSET Given /\ Given' = (Given' \ {s}) \cup {s}
            BY <1>3, <3>1
        <3>4. Sale!Give(s)
            BY <1>1, <1>4, <3>2, <3>3 DEF Sale!Give
        <3>5. QED
            BY <1>0, <3>4 DEF Sale!Next, Sale!SaleStep
    <2>3. QED
        BY <2>1, <2>2
<1>5. ASSUME row' # row, row[s].status # "pending" PROVE Phases' = Phases
    <2>1. PICK object \in Row : row' = [row EXCEPT ![s] = object]
        BY <1>5, SavedSale
    <2>2. \A t \in Sessions \ {s} : row'[t] = row[t]
        BY <2>1 DEF TypeOK
    <2>3. row[s].status \in Served \cup {"absent", "failed"}
        BY <1>0, <1>5 DEF TypeOK, Row, Statuses, Served
    <2>4. \/ row[s].status \in Served /\ row'[s].status \in Served
          \/ row[s].status = row'[s].status
        BY <1>0, <2>3, DecisionStands
    <2>5. \A t \in Vouched : Phases'[t] = Phases[t]
        BY <1>0, <2>2, <2>4 DEF Phases, Served
    <2>6. QED
        BY <2>5 DEF Phases
<1>6. ASSUME row' # row, row[s].status = "pending" PROVE Sale!Next
    <2>1. PICK object \in Row :
             /\ row' = [row EXCEPT ![s] = object]
             /\ \/ object.status \in Served /\ PaidFor(h)
                \/ object.status = "failed" /\ stk[s] \in {"failed", "cancelled"}
        BY <1>6, SavedSale
    <2>2. /\ row'[s] = object
          /\ \A t \in Sessions \ {s} : row'[t] = row[t]
        BY <1>0, <2>1 DEF TypeOK
    <2>3. Phases[s] = "open"
        BY <1>0, <1>6, PhaseOf
    <2>4. Given \subseteq Given'
        BY <1>0, <1>2, <1>6 DEF Given
    <2>5. CASE object.status \in Served /\ PaidFor(h)
        <3>1. Phases' = [Phases EXCEPT ![s] = "sold"]
            BY <1>0, <2>2, <2>5 DEF Phases, Served
        <3>2. Outcomes[s] = "paid"
            BY <1>0, <2>5, OutcomeOf DEF PaidFor
        <3>3. Given' \in {Given, Given \cup {s}}
            BY <1>3, <2>4
        <3>4. Sale!Sell(s)
            BY <1>1, <2>3, <3>1, <3>2, <3>3 DEF Sale!Sell, Sale!MoveTo
        <3>5. QED
            BY <1>0, <3>4 DEF Sale!Next, Sale!SaleStep
    <2>6. CASE object.status = "failed" /\ stk[s] \in {"failed", "cancelled"}
        <3>1. Phases' = [Phases EXCEPT ![s] = "lost"]
            BY <1>0, <2>2, <2>6 DEF Phases
        <3>2. Outcomes[s] = "unpaid"
            BY <1>0, <2>6, OutcomeOf
        <3>3. s \notin Given'
            BY <1>3, <2>2, <2>6 DEF Served
        <3>4. Given' = Given
            BY <1>3, <2>4, <3>3
        <3>5. Sale!Lose(s)
            BY <1>1, <2>3, <3>1, <3>2, <3>4 DEF Sale!Lose, Sale!MoveTo
        <3>6. QED
            BY <1>0, <3>5 DEF Sale!Next, Sale!SaleStep
    <2>7. QED
        BY <2>1, <2>5, <2>6
<1>7. row' = row => Phases' = Phases
    BY DEF Phases
<1>8. QED
    BY <1>4, <1>5, <1>6, <1>7

\* A handler of another sale leaves this one's phase and outcome alone and
\* gives it nothing; at most it replaces a user of the same name.
LEMMA OtherSales ==
    ASSUME TypeOK, PaidInv', FailInv, FailInv', SaleInv, NEW h \in Handlers,
           HandlerStep(h), About[h] \notin Vouched
    PROVE  Sale!Next
<1>1. About[h] \in Sessions /\ Vouched \subseteq Sessions \ {About[h]}
    BY HotspotAssumption DEF Vouched
<1>2. \A s \in Vouched : row'[s] = row[s]
    BY <1>1, StepSaves DEF Save, TypeOK
<1>3. /\ \A s \in Vouched : ledger'[s] = ledger[s]
      /\ \A u \in users' : u.session \in Vouched => u \in users
    BY <1>1, StepGives
<1>4. Phases' = Phases
    BY <1>2 DEF Phases
<1>5. Outcomes' = Outcomes
    BY StepSaves DEF Outcomes
<1>6. Given' \subseteq Given
    BY <1>3 DEF Given
<1>7. QED
    BY <1>4, <1>5, <1>6 DEF Sale!Next, Sale!TakeBack

\* The purchase opens or refuses a sale, the customer pays for it or not.
LEMMA PurchaseOpens ==
    ASSUME TypeOK, PaidInv, SaleInv, NEW s \in Sessions,
           PurchaseStep(s) \/ Resolve(s)
    PROVE  Sale!Next \/ UNCHANGED Sale!saleVars
<1>0. Vouched \subseteq Sessions
    BY DEF Vouched
<1>1. UNCHANGED <<users, ledger>>
    BY DEF PurchaseStep, PushAccepted, PushRefused, PushReplyLost,
           CommitPurchase, CrashPurchase, Resolve
<1>2. Given' = Given
    BY <1>1 DEF Given
<1>3. CASE CommitPurchase(s) /\ s \in Vouched
    <2>1. row[s].status = "absent"
        BY <1>3 DEF CommitPurchase, SaleInv
    <2>2. Phases[s] = "none"
        BY <1>3, <2>1, PhaseOf
    <2>3. Outcomes' = Outcomes
        BY <1>3 DEF CommitPurchase, Outcomes
    <2>4. PICK st \in {"pending", "failed"} :
             /\ row'[s].status = st
             /\ \A t \in Sessions \ {s} : row'[t] = row[t]
        BY <1>3 DEF CommitPurchase, TypeOK
    <2>5. Phases' = [Phases EXCEPT ![s] = IF st = "pending" THEN "open" ELSE "lost"]
        BY <1>0, <2>4 DEF Phases
    <2>6. Sale!Open(s) \/ Sale!Refuse(s)
        BY <1>2, <2>2, <2>3, <2>5 DEF Sale!Open, Sale!Refuse, Sale!MoveTo
    <2>7. QED
        BY <1>3, <2>6 DEF Sale!Next, Sale!SaleStep
<1>4. CASE Resolve(s) /\ s \in Vouched
    <2>1. PICK word \in {"paid", "failed", "cancelled"} :
             stk' = [stk EXCEPT ![s] = word]
        BY <1>4 DEF Resolve
    <2>2. stk[s] = "sent" /\ UNCHANGED row
        BY <1>4 DEF Resolve
    <2>3. Phases' = Phases
        BY <2>2 DEF Phases
    <2>4. Outcomes' = [Outcomes EXCEPT ![s] = IF word = "paid" THEN "paid" ELSE "unpaid"]
        BY <1>0, <2>1 DEF Outcomes, TypeOK
    <2>5. Outcomes[s] = "unknown"
        BY <1>4, <2>2 DEF Outcomes
    <2>6. Sale!Collect(s)
        BY <1>2, <2>3, <2>4, <2>5 DEF Sale!Collect
    <2>7. QED
        BY <1>4, <2>6 DEF Sale!Next, Sale!SaleStep
<1>5. CASE PushAccepted(s) \/ PushRefused(s) \/ PushReplyLost(s) \/ CrashPurchase(s)
    <2>1. UNCHANGED row
        BY <1>5 DEF PushAccepted, PushRefused, PushReplyLost, CrashPurchase
    <2>2. Phases' = Phases
        BY <2>1 DEF Phases
    <2>3. stk' = stk \/ (stk[s] = "none" /\ stk' = [stk EXCEPT ![s] = "sent"])
        BY <1>5 DEF PushAccepted, PushRefused, PushReplyLost, CrashPurchase, PaidInv
    <2>4. \A t \in Sessions :
             /\ stk'[t] = "paid" <=> stk[t] = "paid"
             /\ stk'[t] \in {"failed", "cancelled"} <=> stk[t] \in {"failed", "cancelled"}
        BY <2>3 DEF TypeOK
    <2>5. Outcomes' = Outcomes
        BY <1>0, <2>4 DEF Outcomes
    <2>6. QED
        BY <1>2, <2>2, <2>5 DEF Sale!saleVars
<1>6. CASE s \notin Vouched
    <2>1. \A t \in Vouched : row'[t] = row[t] /\ stk'[t] = stk[t]
        BY <1>0, <1>6 DEF PurchaseStep, PushAccepted, PushRefused, PushReplyLost,
           CommitPurchase, CrashPurchase, Resolve, TypeOK
    <2>2. Phases' = Phases /\ Outcomes' = Outcomes
        BY <2>1 DEF Phases, Outcomes
    <2>3. QED
        BY <1>2, <2>2 DEF Sale!saleVars
<1>7. QED
    BY <1>3, <1>4, <1>5, <1>6 DEF PurchaseStep

\* However callbacks, polls, disconnects, pairings and crashes interleave, a
\* sale whose callbacks carry their result code is decided once and by
\* PayHero's word, and nothing is recorded or let in for one that is not
\* sold: HotspotPayment implements PaidSale.
THEOREM HotspotImplementsSale == Spec => ImplementsSale
<1> DEFINE AllInv == TypeOK /\ PaidInv /\ FailInv /\ SaleInv
<1>1. Init => AllInv
    BY TypeInit, HotspotAssumption
    DEF Init, PaidInv, FailInv, SaleInv, Vouched, NoRow, Served, Confirmed
<1>2. Init => Sale!Init
    <2>1. Init => Phases = [s \in Vouched |-> "none"]
        BY DEF Init, Phases, Vouched, NoRow
    <2>2. Init => Outcomes = [s \in Vouched |-> "unknown"]
        BY DEF Init, Outcomes, Vouched
    <2>3. Init => Given = {}
        BY DEF Init, Given, Vouched
    <2>4. QED
        BY <2>1, <2>2, <2>3 DEF Sale!Init
<1>3. TypeOK /\ [Next]_vars => TypeOK'
    BY TypeNext
<1>4. AllInv /\ [Next]_vars => AllInv'
    BY <1>3, PaidNext, FailNext, SaleNext
<1>5. AllInv /\ AllInv' /\ [Next]_vars => [Sale!Next]_Sale!saleVars
    <2> SUFFICES ASSUME AllInv, AllInv', [Next]_vars
                 PROVE  Sale!Next \/ UNCHANGED Sale!saleVars
        OBVIOUS
    <2>1. CASE Tick \/ UNCHANGED vars
        BY <2>1 DEF Tick, vars, Phases, Outcomes, Given, Sale!saleVars
    <2>2. QED
        BY <2>1, PurchaseOpens, HandlerSells, OtherSales, NextSteps
<1> HIDE DEF AllInv
<1>6. QED
    BY <1>1, <1>2, <1>4, <1>5, PTL DEF Spec, ImplementsSale, Sale!Spec

=============================================================================
