------------------------ MODULE CompanySubscription ------------------------
(***************************************************************************)
(* One ISP company's subscription to the platform: the CompanySubscription *)
(* row and its SubscriptionPayment rows (apps/subscriptions/models.py),    *)
(* written by payment requests, PayHero's callbacks, status polls and      *)
(* cancellations.                                                          *)
(*                                                                         *)
(* Every writer saves all columns of an object it loaded earlier.  A       *)
(* payment request saves the subscription before it calls PayHero and      *)
(* commits afterwards, so it holds the row's lock during the call; the     *)
(* other saves of that row wait for it (Unlocked).  A callback is one      *)
(* transaction, polls and cancellations run in autocommit.  A payment      *)
(* request also chooses the billing period of the subscription, which is   *)
(* what every payment then extends it by.  Payments by paybill and bank    *)
(* are left out: nothing in the code completes them.                       *)
(***************************************************************************)
EXTENDS Integers

CONSTANTS
    Payments,    \* M-Pesa payments, named as the requests that start them
    Deliveries,  \* executions of the webhook
    Polls,       \* status requests that can be in flight at a time
    Cancels,     \* cancellation requests
    About,       \* [Deliveries and Polls -> Payments]
    Period,      \* [Payments -> the billing period the request asks for]
    Trial,       \* TRIAL_DURATION_DAYS
    Month,       \* days a monthly period lasts
    Year,        \* days a yearly period lasts
    Faults,      \* subset of {"crash", "lost_reply"}
    MaxTime      \* bound on the calendar

Periods == {"monthly", "yearly"}

Handlers == Payments \cup Deliveries \cup Polls \cup Cancels

ASSUME SubscriptionAssumption ==
    /\ About \in [Deliveries \cup Polls -> Payments]
    /\ Payments \cap (Deliveries \cup Polls \cup Cancels) = {}
    /\ Deliveries \cap Polls = {} /\ Cancels \cap (Deliveries \cup Polls) = {}
    /\ Period \in [Payments -> Periods]
    /\ Trial \in Nat /\ Month \in Nat /\ Year \in Nat
    /\ Faults \subseteq {"crash", "lost_reply"}
    /\ MaxTime \in Nat

VARIABLES
    sub,         \* the committed subscription row
    status,      \* committed SubscriptionPayment.status, "absent" if no row
    covers,      \* days between the payment's period_start and period_end
    known,       \* payments whose row has PayHero's checkout id
    stk,         \* what PayHero knows of each payment
    pc,
    copy,        \* the subscription row each handler loaded, as it changed it
    added,       \* history: days each payment added
    sold,        \* history: days all of them added
    now

payments == <<status, covers, known>>
history == <<added, sold>>
vars == <<sub, payments, stk, pc, copy, history, now>>

Subscription == [status: {"none", "pending", "trialing", "active", "cancelled"},
                 trial: BOOLEAN, period: Periods, end: Nat,
                 cancelling: BOOLEAN]

\* is_trial is TRUE unless a creator says otherwise, and none does.
Row(st, period, end) ==
    [status |-> st, trial |-> TRUE, period |-> period, end |-> end,
     cancelling |-> FALSE]

NoRow == Row("none", "monthly", 0)

Days(period) == IF period = "yearly" THEN Year ELSE Month

Init ==
    /\ sub = NoRow
    /\ status = [p \in Payments |-> "absent"]
    /\ covers = [p \in Payments |-> 0]
    /\ known = {}
    /\ stk = [p \in Payments |-> "none"]
    /\ pc = [h \in Handlers |-> "idle"]
    /\ copy = [h \in Handlers |-> NoRow]
    /\ added = [p \in Payments |-> 0]
    /\ sold = 0
    /\ now = 0

Goto(h, label) == pc' = [pc EXCEPT ![h] = label]

Return(h, label) == Goto(h, label) /\ copy' = [copy EXCEPT ![h] = NoRow]

\* Mutant: the billing period is not looked at.
Extended_Yearly(object) ==
    [object EXCEPT !.status = "active",
                   !.end = (IF @ < now THEN now ELSE @) + Year]

\* CompanySubscription.extend_subscription
Extended(object) ==
    [object EXCEPT !.status = "active",
                   !.end = (IF @ < now THEN now ELSE @) + Days(object.period)]

\* CompanySubscription.convert_from_trial
Converted(object) ==
    [object EXCEPT !.status = "active", !.trial = FALSE,
                   !.end = now + Days(object.period)]

\* CompanySubscription.cancel
Cancelled(object, immediate) ==
    IF immediate THEN [object EXCEPT !.status = "cancelled", !.end = now]
                 ELSE [object EXCEPT !.cancelling = TRUE]

\* Payment p extends the subscription so many times.
Credit(p, times, period) ==
    /\ added' = [added EXCEPT ![p] = @ + times * Days(period)]
    /\ sold' = sold + times * Days(period)

\* No payment request is between its save of the row and its commit.
Unlocked == \A p \in Payments : pc[p] \notin {"accepted", "refused"}

-----------------------------------------------------------------------------
\* The signal on a new company starts its trial; where that failed,
\* CurrentSubscriptionView.get does.
CreateTrial ==
    /\ sub.status = "none" /\ Unlocked
    /\ sub' = Row("trialing", "monthly", now + Trial)
    /\ UNCHANGED <<payments, stk, pc, copy, history, now>>

(***************************************************************************)
(* InitiateSubscriptionPaymentView.post.  get_or_create either loads the   *)
(* row or inserts one, "pending"; plan and billing period are set on it    *)
(* and it is saved; then the STK push.                                     *)
(***************************************************************************)
LoadSubscription(p) ==
    /\ pc[p] = "idle" /\ sub.status # "none"
    /\ copy' = [copy EXCEPT ![p] = [sub EXCEPT !.period = Period[p]]]
    /\ Goto(p, "loaded")
    /\ UNCHANGED <<sub, payments, stk, history, now>>

\* The save takes the row's lock, then PayHero is called.
Push(p, label, sent) ==
    /\ Unlocked
    /\ \/ pc[p] = "loaded" /\ UNCHANGED copy
       \/ /\ pc[p] = "idle" /\ sub.status = "none"
          /\ copy' = [copy EXCEPT ![p] = Row("pending", Period[p], now)]
    /\ stk' = [stk EXCEPT ![p] = sent]
    /\ Goto(p, label)
    /\ UNCHANGED <<sub, payments, history, now>>

PushAccepted(p) == Push(p, "accepted", "sent")

PushRefused(p) == Push(p, "refused", "none")

\* PayHero accepted the push and the reply timed out.
PushReplyLost(p) == "lost_reply" \in Faults /\ Push(p, "refused", "sent")

CommitPayment(p) ==
    /\ pc[p] \in {"accepted", "refused"}
    /\ sub' = copy[p]
    /\ status' = [status EXCEPT ![p] =
                    IF pc[p] = "accepted" THEN "processing" ELSE "failed"]
    /\ covers' = [covers EXCEPT ![p] = Days(copy[p].period)]
    /\ known' = IF pc[p] = "accepted" THEN known \cup {p} ELSE known
    /\ Return(p, "done")
    /\ UNCHANGED <<stk, history, now>>

\* The company enters the PIN, or the push fails or is cancelled.
Resolve(p) ==
    /\ stk[p] = "sent"
    /\ \E outcome \in {"paid", "failed", "cancelled"} :
          stk' = [stk EXCEPT ![p] = outcome]
    /\ UNCHANGED <<sub, payments, pc, copy, history, now>>

-----------------------------------------------------------------------------
(***************************************************************************)
(* PayHeroSubscriptionWebhookView.post.  The payment is loaded together    *)
(* with its subscription; a payment without the checkout id is a 404.      *)
(***************************************************************************)
ReceiveCallback(d) ==
    /\ pc[d] = "idle" /\ stk[About[d]] \in {"paid", "failed", "cancelled"}
    /\ IF About[d] \in known
       THEN Goto(d, "loaded") /\ copy' = [copy EXCEPT ![d] = sub]
       ELSE Return(d, "done")
    /\ UNCHANGED <<sub, payments, stk, history, now>>

\* mark_completed extends; then a trial is converted and any other
\* subscription extended again.  A callback's result code is assumed to be
\* there: one without would count as paid, and make the claims void.
CompleteByCallback(d) ==
    /\ pc[d] = "loaded" /\ stk[About[d]] = "paid" /\ Unlocked
    /\ LET once  == Extended(copy[d])
           final == IF once.trial THEN Converted(once) ELSE Extended(once)
       IN  /\ sub' = final
           /\ Credit(About[d], IF once.trial THEN 1 ELSE 2, once.period)
    /\ status' = [status EXCEPT ![About[d]] = "completed"]
    /\ Return(d, "done")
    /\ UNCHANGED <<covers, known, stk, now>>

\* Mutant: the result code is not looked at.
FailByCallback_Completes(d) ==
    /\ pc[d] = "loaded" /\ stk[About[d]] \in {"failed", "cancelled"}
    /\ status' = [status EXCEPT ![About[d]] = "completed"]
    /\ Return(d, "done")
    /\ UNCHANGED <<sub, covers, known, stk, history, now>>

FailByCallback(d) ==
    /\ pc[d] = "loaded" /\ stk[About[d]] \in {"failed", "cancelled"}
    /\ status' = [status EXCEPT ![About[d]] = "failed"]
    /\ Return(d, "done")
    /\ UNCHANGED <<sub, covers, known, stk, history, now>>

-----------------------------------------------------------------------------
(***************************************************************************)
(* SubscriptionPaymentViewSet.status.                                      *)
(***************************************************************************)
LoadPoll(r) ==
    /\ pc[r] = "idle" /\ status[About[r]] = "processing"
    /\ copy' = [copy EXCEPT ![r] = sub]
    /\ Goto(r, "loaded")
    /\ UNCHANGED <<sub, payments, stk, history, now>>

\* Mutant: the poll leaves completing the payment to the callback.
ConfirmPayment_Waits(r) ==
    /\ pc[r] = "loaded" /\ stk[About[r]] = "paid"
    /\ Return(r, "idle")
    /\ UNCHANGED <<sub, payments, stk, history, now>>

\* mark_completed saves the payment ...
ConfirmPayment(r) ==
    /\ pc[r] = "loaded" /\ stk[About[r]] = "paid"
    /\ status' = [status EXCEPT ![About[r]] = "completed"]
    /\ Goto(r, "completed")
    /\ UNCHANGED <<sub, covers, known, stk, copy, history, now>>

\* ... and then extends the subscription: another statement, another commit.
ExtendByPoll(r) ==
    /\ pc[r] = "completed" /\ Unlocked
    /\ sub' = Extended(copy[r])
    /\ Credit(About[r], 1, copy[r].period)
    /\ Return(r, "idle")
    /\ UNCHANGED <<payments, stk, now>>

\* Mutant: a refusal is stored under PayHero's name for it.
RejectPayment_Cancels(r) ==
    /\ pc[r] = "loaded" /\ stk[About[r]] = "failed"
    /\ status' = [status EXCEPT ![About[r]] = "cancelled"]
    /\ Return(r, "idle")
    /\ UNCHANGED <<sub, covers, known, stk, history, now>>

\* Mutant: every answer but SUCCESS fails the payment.
RejectPayment_NotConfirmed(r) ==
    /\ pc[r] = "loaded" /\ stk[About[r]] # "paid"
    /\ status' = [status EXCEPT ![About[r]] = "failed"]
    /\ Return(r, "idle")
    /\ UNCHANGED <<sub, covers, known, stk, history, now>>

RejectPayment(r) ==
    /\ pc[r] = "loaded" /\ stk[About[r]] = "failed"
    /\ status' = [status EXCEPT ![About[r]] = "failed"]
    /\ Return(r, "idle")
    /\ UNCHANGED <<sub, covers, known, stk, history, now>>

\* Mutant: the payment is saved although nothing changed.
AnswerPending_Saves(r) ==
    /\ pc[r] = "loaded"
    /\ stk[About[r]] \in {"sent", "cancelled"} \/ "lost_reply" \in Faults
    /\ status' = [status EXCEPT ![About[r]] = "processing"]
    /\ Return(r, "idle")
    /\ UNCHANGED <<sub, covers, known, stk, history, now>>

AnswerPending(r) ==
    /\ pc[r] = "loaded"
    /\ stk[About[r]] \in {"sent", "cancelled"} \/ "lost_reply" \in Faults
    /\ Return(r, "idle")
    /\ UNCHANGED <<sub, payments, stk, history, now>>

-----------------------------------------------------------------------------
\* CancelSubscriptionView.post
LoadCancel(c) ==
    /\ pc[c] = "idle" /\ sub.status # "none"
    /\ copy' = [copy EXCEPT ![c] = sub]
    /\ Goto(c, "loaded")
    /\ UNCHANGED <<sub, payments, stk, history, now>>

SaveCancel(c, immediate) ==
    /\ pc[c] = "loaded" /\ Unlocked
    /\ sub' = Cancelled(copy[c], immediate)
    /\ Return(c, "done")
    /\ UNCHANGED <<payments, stk, history, now>>

\* A worker dies: a payment request or callback is rolled back, a poll
\* keeps what it saved.
Crash(h) ==
    /\ "crash" \in Faults
    /\ pc[h] \notin {"idle", "done"}
    /\ Return(h, IF h \in Polls THEN "idle" ELSE "done")
    /\ UNCHANGED <<sub, payments, stk, history, now>>

Tick ==
    /\ now < MaxTime
    /\ now' = now + 1
    /\ UNCHANGED <<sub, payments, stk, pc, copy, history>>

PaymentStep(p) ==
    \/ LoadSubscription(p) \/ PushAccepted(p) \/ PushRefused(p)
    \/ PushReplyLost(p) \/ CommitPayment(p) \/ Resolve(p)

CallbackStep(d) ==
    ReceiveCallback(d) \/ CompleteByCallback(d) \/ FailByCallback(d)

PollStep(r) ==
    \/ LoadPoll(r) \/ ConfirmPayment(r) \/ ExtendByPoll(r)
    \/ RejectPayment(r) \/ AnswerPending(r)

CancelStep(c) ==
    LoadCancel(c) \/ \E immediate \in BOOLEAN : SaveCancel(c, immediate)

Next ==
    \/ CreateTrial
    \/ \E p \in Payments : PaymentStep(p)
    \/ \E d \in Deliveries : CallbackStep(d)
    \/ \E r \in Polls : PollStep(r)
    \/ \E c \in Cancels : CancelStep(c)
    \/ \E h \in Handlers : Crash(h)
    \/ Tick

Spec == Init /\ [][Next]_vars

\* The page keeps polling while a payment is being processed, and not every
\* query that confirms it fails or loses its worker.
Fairness ==
    \A r \in Polls :
        /\ WF_vars(LoadPoll(r)) /\ SF_vars(ConfirmPayment(r))
        /\ WF_vars(RejectPayment(r)) /\ WF_vars(AnswerPending(r))

FairSpec == Spec /\ Fairness

-----------------------------------------------------------------------------
(***************************************************************************)
(* Properties.                                                             *)
(***************************************************************************)

\* Every variable stays in its type.
TypeOK ==
    /\ sub \in Subscription
    /\ status \in [Payments -> {"absent", "processing", "completed", "failed"}]
    /\ covers \in [Payments -> Nat]
    /\ known \subseteq Payments
    /\ stk \in [Payments -> {"none", "sent", "paid", "failed", "cancelled"}]
    /\ pc \in [Handlers -> {"idle", "loaded", "accepted", "refused",
                            "completed", "done"}]
    /\ copy \in [Handlers -> Subscription]
    /\ added \in [Payments -> Nat]
    /\ sold \in Nat
    /\ now \in 0 .. MaxTime

\* The subscription is active, a payment completed or time added only where
\* PayHero collected money, whichever stale row is saved last.
ServiceNeedsPayment ==
    /\ sub.status = "active" => \E p \in Payments : stk[p] = "paid"
    /\ \A p \in Payments :
          status[p] = "completed" \/ added[p] > 0 => stk[p] = "paid"

\* A payment that PayHero took on and that is recorded as failed was not
\* collected.
FailedMeansUnpaid ==
    \A p \in Payments : status[p] = "failed" /\ p \in known => stk[p] # "paid"

\* Concurrent saves and changes of the billing period may lose time, they
\* never make any: the time left is at most a trial and what payments added.
TimeIsBought == sub.end <= now + Trial + sold

\* A payment on record that PayHero collected is completed, however many
\* pollers die and queries fail on the way.
PaidPaymentsComplete ==
    \A p \in Payments :
        stk[p] = "paid" /\ status[p] = "processing" ~> status[p] = "completed"

\* "Billing period this payment covers": a payment adds no more than that.
OnePeriodPerPayment == \A p \in Payments : added[p] <= covers[p]

-----------------------------------------------------------------------------
(***************************************************************************)
(* The sale behind a payment: time on the platform.                        *)
(***************************************************************************)
Phases ==
    [p \in Payments |->
        CASE status[p] = "absent"     -> "none"
          [] status[p] = "processing" -> "open"
          [] status[p] = "failed"     -> "lost"
          [] OTHER                    -> "sold"]

Outcomes ==
    [p \in Payments |->
        CASE stk[p] = "paid"                    -> "paid"
          [] stk[p] \in {"failed", "cancelled"} -> "unpaid"
          [] OTHER                              -> "unknown"]

Given == {p \in Payments : added[p] > 0}

Sale == INSTANCE PaidSale WITH
    Sales <- Payments, phase <- Phases, outcome <- Outcomes, given <- Given

\* Whichever callback or poll comes last, a payment is decided once, by
\* what PayHero said, and only a completed one adds time.
ImplementsSale == Sale!Spec

=============================================================================
