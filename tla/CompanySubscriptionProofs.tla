---------------------- MODULE CompanySubscriptionProofs ----------------------
(***************************************************************************)
(* Theorems about CompanySubscription: its types, that service and time    *)
(* presuppose a payment, that a failed payment was not collected, that     *)
(* concurrent saves never make time, and that its payments implement       *)
(* PaidSale: decided once, by PayHero's word.                              *)
(***************************************************************************)
EXTENDS CompanySubscription, TLAPS

LEMMA RowType ==
    ASSUME NEW st \in {"pending", "trialing"}, NEW period \in Periods, NEW end \in Nat
    PROVE  /\ Row(st, period, end) \in Subscription
           /\ Row(st, period, end).status = st
           /\ Row(st, period, end).end = end
BY DEF Row, Subscription

LEMMA NoRowType == NoRow \in Subscription /\ NoRow.status = "none" /\ NoRow.end = 0
BY DEF NoRow, Row, Subscription, Periods

LEMMA DaysType == \A period \in Periods : Days(period) \in Nat
BY SubscriptionAssumption DEF Days

\* An extension adds the days of the row's period to what was left, or to
\* today, and changes neither the period nor the trial.
LEMMA ExtendedRow ==
    ASSUME NEW object \in Subscription, now \in Nat
    PROVE  /\ Extended(object) \in Subscription
           /\ Extended(object).period = object.period
           /\ \/ Extended(object).end = object.end + Days(object.period)
              \/ Extended(object).end = now + Days(object.period)
<1> DEFINE end == (IF object.end < now THEN now ELSE object.end) + Days(object.period)
<1>1. Days(object.period) \in Nat /\ object.end \in Nat
    BY DaysType DEF Subscription
<1>2. /\ end \in Nat
      /\ end = object.end + Days(object.period) \/ end = now + Days(object.period)
    BY <1>1
<1>3. Extended(object) = [object EXCEPT !.status = "active", !.end = end]
    BY DEF Extended, Subscription
<1> HIDE DEF end
<1>4. /\ [object EXCEPT !.status = "active", !.end = end] \in Subscription
      /\ [object EXCEPT !.status = "active", !.end = end].period = object.period
      /\ [object EXCEPT !.status = "active", !.end = end].end = end
    BY <1>2 DEF Subscription
<1>5. QED
    BY <1>2, <1>3, <1>4

\* A conversion counts the days of the row's period from today.
LEMMA ConvertedRow ==
    ASSUME NEW object \in Subscription, now \in Nat
    PROVE  /\ Converted(object) \in Subscription
           /\ Converted(object).end = now + Days(object.period)
<1> DEFINE end == now + Days(object.period)
<1>1. end \in Nat
    BY DaysType DEF Subscription
<1>2. Converted(object)
         = [object EXCEPT !.status = "active", !.trial = FALSE, !.end = end]
    BY DEF Converted
<1> HIDE DEF end
<1>3. /\ [object EXCEPT !.status = "active", !.trial = FALSE, !.end = end]
            \in Subscription
      /\ [object EXCEPT !.status = "active", !.trial = FALSE, !.end = end].end = end
    BY <1>1 DEF Subscription
<1>4. QED
    BY <1>2, <1>3 DEF end

\* A cancellation activates nothing and adds no time.
LEMMA CancelledRow ==
    ASSUME NEW object \in Subscription, now \in Nat, NEW immediate \in BOOLEAN
    PROVE  /\ Cancelled(object, immediate) \in Subscription
           /\ Cancelled(object, immediate).status = "active" => object.status = "active"
           /\ \/ Cancelled(object, immediate).end = object.end
              \/ Cancelled(object, immediate).end = now
BY DEF Cancelled, Subscription

-----------------------------------------------------------------------------
\* A handler that returns leaves its label and its row in their types.
LEMMA ReturnType ==
    ASSUME TypeOK, NEW h \in Handlers, NEW l \in {"idle", "done"}, Return(h, l)
    PROVE  /\ copy' \in [Handlers -> Subscription]
           /\ pc' \in [Handlers -> {"idle", "loaded", "accepted", "refused",
                                    "completed", "done"}]
BY NoRowType DEF Return, Goto, TypeOK

\* A payment's credit leaves the history in its type, and is what the total
\* grows by.
LEMMA CreditType ==
    ASSUME TypeOK, NEW p \in Payments, NEW times \in {1, 2},
           NEW period \in Periods, Credit(p, times, period)
    PROVE  /\ added' \in [Payments -> Nat]
           /\ sold' \in Nat
           /\ \A q \in Payments : q # p => added'[q] = added[q]
           /\ \A q \in Payments : added'[q] >= added[q]
           /\ times = 1 => sold' = sold + Days(period)
           /\ times = 2 => sold' = sold + Days(period) + Days(period)
<1>1. Days(period) \in Nat
    BY DaysType
<1>2. times * Days(period) \in Nat
      /\ (times = 1 => times * Days(period) = Days(period))
      /\ (times = 2 => times * Days(period) = Days(period) + Days(period))
    BY <1>1
<1> DEFINE days == times * Days(period)
<1>3. /\ added' = [added EXCEPT ![p] = @ + days]
      /\ sold' = sold + days
    BY DEF Credit
<1> HIDE DEF days
<1>4. days \in Nat
    BY <1>2 DEF days
<1>5. /\ added' \in [Payments -> Nat] /\ sold' \in Nat
      /\ \A q \in Payments : q # p => added'[q] = added[q]
      /\ \A q \in Payments : added'[q] >= added[q]
    BY <1>3, <1>4 DEF TypeOK
<1>6. QED
    BY <1>1, <1>2, <1>3, <1>5 DEF days, TypeOK

\* What a callback makes of the row it loaded: it adds no more time than it
\* credits its payment with.
LEMMA CallbackRow ==
    ASSUME TypeOK, NEW d \in Deliveries, CompleteByCallback(d)
    PROVE  /\ sub' \in Subscription
           /\ added' \in [Payments -> Nat]
           /\ sold' \in Nat /\ sold' >= sold
           /\ \A q \in Payments : q # About[d] => added'[q] = added[q]
           /\ \A q \in Payments : added'[q] >= added[q]
           /\ \/ sub'.end <= copy[d].end + (sold' - sold)
              \/ sub'.end <= now + (sold' - sold)
<1> DEFINE once == Extended(copy[d])
           days == Days(once.period)
           times == IF once.trial THEN 1 ELSE 2
<1>1. copy[d] \in Subscription /\ now \in Nat /\ About[d] \in Payments /\ sold \in Nat
    BY SubscriptionAssumption DEF TypeOK, Handlers
<1>2. /\ once \in Subscription
      /\ once.end = copy[d].end + days \/ once.end = now + days
    BY <1>1, ExtendedRow
<1>3. Credit(About[d], times, once.period)
      /\ sub' = IF once.trial THEN Converted(once) ELSE Extended(once)
    BY DEF CompleteByCallback
<1> HIDE DEF once
<1>4. days \in Nat /\ once.period \in Periods /\ copy[d].end \in Nat
    BY <1>1, <1>2, DaysType DEF Subscription
<1>5. /\ Extended(once) \in Subscription
      /\ Extended(once).end = once.end + days \/ Extended(once).end = now + days
      /\ Converted(once) \in Subscription
      /\ Converted(once).end = now + days
    BY <1>1, <1>2, ExtendedRow, ConvertedRow
<1>6. /\ added' \in [Payments -> Nat] /\ sold' \in Nat
      /\ \A q \in Payments : q # About[d] => added'[q] = added[q]
      /\ \A q \in Payments : added'[q] >= added[q]
      /\ times = 1 => sold' = sold + days
      /\ times = 2 => sold' = sold + days + days
    BY <1>1, <1>3, <1>4, CreditType
<1> HIDE DEF days
<1>7. CASE once.trial
    BY <1>1, <1>3, <1>4, <1>5, <1>6, <1>7
<1>8. CASE ~once.trial
    BY <1>1, <1>2, <1>3, <1>4, <1>5, <1>6, <1>8
<1>9. QED
    BY <1>7, <1>8

\* The same of the poll's extension.
LEMMA PollRow ==
    ASSUME TypeOK, NEW r \in Polls, ExtendByPoll(r)
    PROVE  /\ sub' \in Subscription
           /\ added' \in [Payments -> Nat]
           /\ sold' \in Nat /\ sold' >= sold
           /\ \A q \in Payments : q # About[r] => added'[q] = added[q]
           /\ \A q \in Payments : added'[q] >= added[q]
           /\ \/ sub'.end <= copy[r].end + (sold' - sold)
              \/ sub'.end <= now + (sold' - sold)
<1> DEFINE days == Days(copy[r].period)
<1>1. copy[r] \in Subscription /\ now \in Nat /\ About[r] \in Payments /\ sold \in Nat
    BY SubscriptionAssumption DEF TypeOK, Handlers
<1>2. days \in Nat /\ copy[r].period \in Periods /\ copy[r].end \in Nat
    BY <1>1, DaysType DEF Subscription
<1>3. /\ Extended(copy[r]) \in Subscription
      /\ Extended(copy[r]).end = copy[r].end + days \/ Extended(copy[r]).end = now + days
    BY <1>1, ExtendedRow
<1>4. sub' = Extended(copy[r]) /\ Credit(About[r], 1, copy[r].period)
    BY DEF ExtendByPoll
<1>5. /\ added' \in [Payments -> Nat] /\ sold' \in Nat
      /\ \A q \in Payments : q # About[r] => added'[q] = added[q]
      /\ \A q \in Payments : added'[q] >= added[q]
      /\ sold' = sold + days
    BY <1>1, <1>2, <1>4, CreditType
<1> HIDE DEF days
<1>6. QED
    BY <1>1, <1>2, <1>3, <1>4, <1>5

-----------------------------------------------------------------------------
\* A company without a subscription has every variable in its type.
LEMMA TypeInit == Init => TypeOK
BY SubscriptionAssumption, NoRowType DEF Init, TypeOK

\* A payment request keeps every variable in its type.
LEMMA PaymentType ==
    ASSUME TypeOK, NEW p \in Payments, PaymentStep(p)
    PROVE  TypeOK'
<1>1. p \in Handlers /\ Period[p] \in Periods /\ copy[p] \in Subscription
    BY SubscriptionAssumption DEF Handlers, TypeOK
<1>2. CASE LoadSubscription(p)
    <2>1. [sub EXCEPT !.period = Period[p]] \in Subscription
        BY <1>1 DEF TypeOK, Subscription
    <2>2. copy' \in [Handlers -> Subscription]
        BY <1>2, <2>1 DEF LoadSubscription, TypeOK
    <2>3. QED
        BY <1>2, <2>2 DEF LoadSubscription, Goto, payments, history, TypeOK
<1>3. ASSUME NEW l \in {"accepted", "refused"}, NEW sent \in {"none", "sent"},
             Push(p, l, sent)
      PROVE  TypeOK'
    <2>1. Row("pending", Period[p], now) \in Subscription
        BY <1>1, RowType DEF TypeOK
    <2>2. copy' \in [Handlers -> Subscription]
        BY <1>3, <2>1 DEF Push, TypeOK
    <2>3. QED
        BY <1>3, <2>2 DEF Push, Goto, payments, history, TypeOK
<1>4. CASE PushAccepted(p) \/ PushRefused(p) \/ PushReplyLost(p)
    BY <1>3, <1>4 DEF PushAccepted, PushRefused, PushReplyLost
<1>5. CASE CommitPayment(p)
    <2>1. Days(copy[p].period) \in Nat
        BY <1>1, DaysType DEF Subscription
    <2>2. covers' \in [Payments -> Nat]
        BY <1>5, <2>1 DEF CommitPayment, TypeOK
    <2>3. /\ copy' \in [Handlers -> Subscription]
          /\ pc' \in [Handlers -> {"idle", "loaded", "accepted", "refused",
                                   "completed", "done"}]
        BY <1>1, <1>5, ReturnType DEF CommitPayment
    <2>4. QED
        BY <1>1, <1>5, <2>2, <2>3 DEF CommitPayment, history, TypeOK
<1>6. CASE Resolve(p)
    BY <1>6 DEF Resolve, payments, history, TypeOK
<1>7. QED
    BY <1>2, <1>4, <1>5, <1>6 DEF PaymentStep

\* A callback keeps every variable in its type.
LEMMA CallbackType ==
    ASSUME TypeOK, NEW d \in Deliveries, CallbackStep(d)
    PROVE  TypeOK'
<1>1. d \in Handlers /\ About[d] \in Payments
    BY SubscriptionAssumption DEF Handlers
<1>2. ASSUME Return(d, "done")
      PROVE  /\ copy' \in [Handlers -> Subscription]
             /\ pc' \in [Handlers -> {"idle", "loaded", "accepted", "refused",
                                      "completed", "done"}]
    BY <1>1, <1>2, ReturnType
<1>3. CASE ReceiveCallback(d)
    <2>1. CASE About[d] \in known
        BY <1>3, <2>1 DEF ReceiveCallback, Goto, payments, history, TypeOK
    <2>2. CASE About[d] \notin known
        BY <1>2, <1>3, <2>2 DEF ReceiveCallback, payments, history, TypeOK
    <2>3. QED
        BY <2>1, <2>2
<1>4. CASE CompleteByCallback(d)
    BY <1>1, <1>2, <1>4, CallbackRow DEF CompleteByCallback, TypeOK
<1>5. CASE FailByCallback(d)
    BY <1>1, <1>2, <1>5 DEF FailByCallback, history, TypeOK
<1>6. QED
    BY <1>3, <1>4, <1>5 DEF CallbackStep

\* A poll keeps every variable in its type.
LEMMA PollType ==
    ASSUME TypeOK, NEW r \in Polls, PollStep(r)
    PROVE  TypeOK'
<1>1. r \in Handlers /\ About[r] \in Payments
    BY SubscriptionAssumption DEF Handlers
<1>2. ASSUME Return(r, "idle")
      PROVE  /\ copy' \in [Handlers -> Subscription]
             /\ pc' \in [Handlers -> {"idle", "loaded", "accepted", "refused",
                                      "completed", "done"}]
    BY <1>1, <1>2, ReturnType
<1>3. CASE LoadPoll(r) \/ ConfirmPayment(r)
    BY <1>1, <1>3
    DEF LoadPoll, ConfirmPayment, Goto, payments, history, TypeOK
<1>4. CASE ExtendByPoll(r)
    BY <1>2, <1>4, PollRow DEF ExtendByPoll, payments, TypeOK
<1>5. CASE RejectPayment(r) \/ AnswerPending(r)
    BY <1>1, <1>2, <1>5
    DEF RejectPayment, AnswerPending, payments, history, TypeOK
<1>6. QED
    BY <1>3, <1>4, <1>5 DEF PollStep

\* A cancellation keeps every variable in its type.
LEMMA CancelType ==
    ASSUME TypeOK, NEW c \in Cancels, CancelStep(c)
    PROVE  TypeOK'
<1>1. c \in Handlers /\ copy[c] \in Subscription /\ now \in Nat
    BY SubscriptionAssumption DEF Handlers, TypeOK
<1>2. CASE LoadCancel(c)
    BY <1>1, <1>2 DEF LoadCancel, Goto, payments, history, TypeOK
<1>3. CASE \E immediate \in BOOLEAN : SaveCancel(c, immediate)
    <2>1. PICK immediate \in BOOLEAN : SaveCancel(c, immediate)
        BY <1>3
    <2>2. sub' \in Subscription
        BY <1>1, <2>1, CancelledRow DEF SaveCancel
    <2>3. /\ copy' \in [Handlers -> Subscription]
          /\ pc' \in [Handlers -> {"idle", "loaded", "accepted", "refused",
                                   "completed", "done"}]
        BY <1>1, <2>1, ReturnType DEF SaveCancel
    <2>4. QED
        BY <2>1, <2>2, <2>3 DEF SaveCancel, payments, history, TypeOK
<1>4. QED
    BY <1>2, <1>3 DEF CancelStep

\* Every step keeps every variable in its type.
LEMMA TypeStep ==
    ASSUME TypeOK, [Next]_vars
    PROVE  TypeOK'
<1>1. CASE CreateTrial
    <2>1. now + Trial \in Nat /\ "monthly" \in Periods
        BY SubscriptionAssumption DEF TypeOK, Periods
    <2>2. sub' \in Subscription
        BY <1>1, <2>1, RowType DEF CreateTrial
    <2>3. QED
        BY <1>1, <2>2 DEF CreateTrial, payments, history, TypeOK
<1>2. CASE \E p \in Payments : PaymentStep(p)
    BY <1>2, PaymentType
<1>3. CASE \E d \in Deliveries : CallbackStep(d)
    BY <1>3, CallbackType
<1>4. CASE \E r \in Polls : PollStep(r)
    BY <1>4, PollType
<1>5. CASE \E c \in Cancels : CancelStep(c)
    BY <1>5, CancelType
<1>6. CASE \E h \in Handlers : Crash(h)
    <2>1. PICK h \in Handlers : Crash(h)
        BY <1>6
    <2>2. PICK l \in {"idle", "done"} : Return(h, l)
        BY <2>1 DEF Crash
    <2>3. QED
        BY <2>1, <2>2, ReturnType DEF Crash, payments, history, TypeOK
<1>7. CASE Tick
    BY <1>7, SubscriptionAssumption DEF Tick, payments, history, TypeOK
<1>8. CASE UNCHANGED vars
    BY <1>8 DEF vars, payments, history, TypeOK
<1>9. QED
    BY <1>1, <1>2, <1>3, <1>4, <1>5, <1>6, <1>7, <1>8 DEF Next

\* Every variable of a subscription and its payments stays in its type.
THEOREM TypeCorrect == Spec => []TypeOK
<1>1. TypeOK /\ [Next]_vars => TypeOK'
    BY TypeStep
<1>2. QED
    BY <1>1, TypeInit, PTL DEF Spec

-----------------------------------------------------------------------------
(***************************************************************************)
(* Time.  Stale rows are saved over newer ones, so the bound has to hold   *)
(* of the rows handlers carry as well.                                     *)
(***************************************************************************)
TimeInv ==
    /\ TypeOK
    /\ TimeIsBought
    /\ \A h \in Handlers : copy[h].end <= now + Trial + sold

\* A handler that returns carries no time.
LEMMA ReturnTime ==
    ASSUME TimeInv, NEW h \in Handlers, NEW l \in {"idle", "done"}, Return(h, l),
           now' = now, sold' \in Nat, sold' >= sold
    PROVE  \A g \in Handlers : copy'[g].end <= now' + Trial + sold'
<1>1. NoRow.end = 0 /\ copy' = [copy EXCEPT ![h] = NoRow]
    BY NoRowType DEF Return
<1>2. \A g \in Handlers : copy[g].end \in Nat
    BY DEF TimeInv, TypeOK, Subscription
<1>3. \A g \in Handlers : copy'[g].end = 0 \/ copy'[g].end = copy[g].end
    BY <1>1 DEF TimeInv, TypeOK
<1>4. now \in Nat /\ sold \in Nat /\ Trial \in Nat
    BY SubscriptionAssumption DEF TimeInv, TypeOK
<1>5. QED
    BY <1>2, <1>3, <1>4 DEF TimeInv

\* Loading the row, with whatever period, adds no time.
LEMMA LoadTime ==
    ASSUME TimeInv, NEW h \in Handlers, NEW r \in Subscription,
           r.end = sub.end \/ r.end = now,
           copy' = [copy EXCEPT ![h] = r], UNCHANGED <<sub, sold, now>>
    PROVE  /\ TimeIsBought'
           /\ \A g \in Handlers : copy'[g].end <= now' + Trial + sold'
<1>1. now \in Nat /\ sold \in Nat /\ Trial \in Nat /\ sub.end \in Nat
    BY SubscriptionAssumption DEF TimeInv, TypeOK, Subscription
<1>2. r.end <= now + Trial + sold
    BY <1>1 DEF TimeInv, TimeIsBought
<1>3. \A g \in Handlers : copy'[g] = r \/ copy'[g] = copy[g]
    BY DEF TimeInv, TypeOK
<1>4. QED
    BY <1>2, <1>3 DEF TimeInv, TimeIsBought

\* A payment request makes no time.
LEMMA PaymentTime ==
    ASSUME TimeInv, NEW p \in Payments, PaymentStep(p)
    PROVE  /\ TimeIsBought'
           /\ \A g \in Handlers : copy'[g].end <= now' + Trial + sold'
<1>1. p \in Handlers /\ Period[p] \in Periods /\ sub \in Subscription /\ now \in Nat
    BY SubscriptionAssumption DEF Handlers, TimeInv, TypeOK
<1>2. CASE LoadSubscription(p)
    <2>1. /\ [sub EXCEPT !.period = Period[p]] \in Subscription
          /\ [sub EXCEPT !.period = Period[p]].end = sub.end
        BY <1>1 DEF Subscription
    <2>2. QED
        BY <1>1, <1>2, <2>1, LoadTime DEF LoadSubscription, history
<1>3. ASSUME NEW l, NEW sent, Push(p, l, sent)
      PROVE  /\ TimeIsBought'
             /\ \A g \in Handlers : copy'[g].end <= now' + Trial + sold'
    <2>1. CASE UNCHANGED copy
        BY <1>3, <2>1 DEF Push, history, TimeInv, TimeIsBought
    <2>2. CASE copy' = [copy EXCEPT ![p] = Row("pending", Period[p], now)]
        BY <1>1, <1>3, <2>2, RowType, LoadTime DEF Push, history
    <2>3. QED
        BY <1>3, <2>1, <2>2 DEF Push
<1>4. CASE PushAccepted(p) \/ PushRefused(p) \/ PushReplyLost(p)
    BY <1>3, <1>4 DEF PushAccepted, PushRefused, PushReplyLost
<1>5. CASE CommitPayment(p)
    <2>1. /\ sold' = sold /\ now' = now /\ sold \in Nat
          /\ Return(p, "done") /\ sub' = copy[p]
        BY <1>5 DEF CommitPayment, history, TimeInv, TypeOK
    <2>2. \A g \in Handlers : copy'[g].end <= now' + Trial + sold'
        BY <1>1, <2>1, ReturnTime
    <2>3. QED
        BY <1>1, <2>1, <2>2 DEF TimeInv, TimeIsBought
<1>6. CASE Resolve(p)
    BY <1>6 DEF Resolve, history, TimeInv, TimeIsBought
<1>7. QED
    BY <1>2, <1>4, <1>5, <1>6 DEF PaymentStep

\* Callbacks, polls and cancellations make none but what they credit.
LEMMA HandlerTime ==
    ASSUME TimeInv, NEW h \in Handlers, NEW l \in {"idle", "done"}, Return(h, l),
           sold' \in Nat, sold' >= sold, now' = now, sub' \in Subscription,
           \/ sub' = sub
           \/ sub'.end <= copy[h].end + (sold' - sold)
           \/ sub'.end <= now + (sold' - sold)
    PROVE  /\ TimeIsBought'
           /\ \A g \in Handlers : copy'[g].end <= now' + Trial + sold'
<1>1. /\ now \in Nat /\ sold \in Nat /\ Trial \in Nat
      /\ sub.end \in Nat /\ sub'.end \in Nat /\ copy[h].end \in Nat
    BY SubscriptionAssumption DEF TimeInv, TypeOK, Subscription
<1>2. TimeIsBought'
    BY <1>1 DEF TimeInv, TimeIsBought
<1>3. QED
    BY <1>2, ReturnTime

\* Every step leaves the time left within what was given and bought.
LEMMA TimeStep ==
    ASSUME TimeInv, [Next]_vars
    PROVE  TimeInv'
<1>1. TypeOK' /\ TypeOK
    BY TypeStep DEF TimeInv
<1>2. /\ now \in Nat /\ sold \in Nat /\ Trial \in Nat /\ sub \in Subscription
      /\ sub' \in Subscription /\ sold' \in Nat
      /\ \A h \in Handlers : copy[h] \in Subscription
    BY <1>1, SubscriptionAssumption DEF TypeOK
<1>3. Deliveries \subseteq Handlers /\ Polls \subseteq Handlers
      /\ Cancels \subseteq Handlers
    BY DEF Handlers
<1> DEFINE Goal == /\ TimeIsBought'
                   /\ \A g \in Handlers : copy'[g].end <= now' + Trial + sold'
<1>4. CASE CreateTrial
    <2>1. now + Trial \in Nat /\ "monthly" \in Periods
        BY <1>2 DEF Periods
    <2>2. sub'.end = now + Trial
        BY <1>4, <2>1, RowType DEF CreateTrial
    <2>3. QED
        BY <1>1, <1>2, <1>4, <2>2 DEF CreateTrial, history, TimeInv, TimeIsBought
<1>5. CASE \E p \in Payments : PaymentStep(p)
    BY <1>1, <1>5, PaymentTime DEF TimeInv
<1>6. CASE \E d \in Deliveries : CallbackStep(d)
    <2>1. PICK d \in Deliveries : CallbackStep(d)
        BY <1>6
    <2>2. CASE ReceiveCallback(d) /\ copy' = [copy EXCEPT ![d] = sub]
        BY <1>1, <1>2, <1>3, <2>2, LoadTime DEF ReceiveCallback, history, TimeInv
    <2>3. CASE ReceiveCallback(d) /\ Return(d, "done")
        BY <1>1, <1>2, <1>3, <2>3, HandlerTime
        DEF ReceiveCallback, history, TimeInv
    <2>4. CASE CompleteByCallback(d)
        <3>1. Return(d, "done") /\ now' = now
            BY <2>4 DEF CompleteByCallback
        <3>2. QED
            BY <1>1, <1>2, <1>3, <2>4, <3>1, CallbackRow, HandlerTime DEF TimeInv
    <2>5. CASE FailByCallback(d)
        BY <1>1, <1>2, <1>3, <2>5, HandlerTime DEF FailByCallback, history, TimeInv
    <2>6. QED
        BY <2>1, <2>2, <2>3, <2>4, <2>5 DEF CallbackStep, ReceiveCallback
<1>7. CASE \E r \in Polls : PollStep(r)
    <2>1. PICK r \in Polls : PollStep(r)
        BY <1>7
    <2>2. CASE LoadPoll(r)
        BY <1>1, <1>2, <1>3, <2>2, LoadTime DEF LoadPoll, history, TimeInv
    <2>3. CASE ConfirmPayment(r)
        BY <1>1, <2>3 DEF ConfirmPayment, history, TimeInv, TimeIsBought
    <2>4. CASE ExtendByPoll(r)
        <3>1. Return(r, "idle") /\ now' = now
            BY <2>4 DEF ExtendByPoll
        <3>2. QED
            BY <1>1, <1>2, <1>3, <2>4, <3>1, PollRow, HandlerTime DEF TimeInv
    <2>5. CASE RejectPayment(r) \/ AnswerPending(r)
        <3>1. Return(r, "idle") /\ UNCHANGED <<sub, sold, now>>
            BY <2>5 DEF RejectPayment, AnswerPending, history
        <3>2. QED
            BY <1>1, <1>2, <1>3, <3>1, HandlerTime DEF TimeInv
    <2>6. QED
        BY <2>1, <2>2, <2>3, <2>4, <2>5 DEF PollStep
<1>8. CASE \E c \in Cancels : CancelStep(c)
    <2>1. PICK c \in Cancels : CancelStep(c)
        BY <1>8
    <2>2. CASE LoadCancel(c)
        BY <1>1, <1>2, <1>3, <2>2, LoadTime DEF LoadCancel, history, TimeInv
    <2>3. CASE \E immediate \in BOOLEAN : SaveCancel(c, immediate)
        <3>1. PICK immediate \in BOOLEAN : SaveCancel(c, immediate)
            BY <2>3
        <3>2. sub'.end = copy[c].end \/ sub'.end = now
            BY <1>2, <1>3, <3>1, CancelledRow DEF SaveCancel
        <3>3. Return(c, "done") /\ now' = now /\ sold' = sold
            BY <3>1 DEF SaveCancel, history
        <3>4. copy[c].end \in Nat /\ sub'.end \in Nat
            BY <1>2, <1>3 DEF Subscription
        <3>5. \/ sub'.end <= copy[c].end + (sold' - sold)
              \/ sub'.end <= now + (sold' - sold)
            BY <1>2, <3>2, <3>3, <3>4
        <3>6. QED
            BY <1>1, <1>2, <1>3, <3>3, <3>5, HandlerTime DEF TimeInv
    <2>4. QED
        BY <2>1, <2>2, <2>3 DEF CancelStep
<1>9. CASE \E h \in Handlers : Crash(h)
    <2>1. PICK h \in Handlers : Crash(h)
        BY <1>9
    <2>2. PICK l \in {"idle", "done"} : Return(h, l)
        BY <2>1 DEF Crash
    <2>3. UNCHANGED <<sub, sold, now>>
        BY <2>1 DEF Crash, history
    <2>4. QED
        BY <1>1, <1>2, <2>2, <2>3, HandlerTime DEF TimeInv
<1>10. CASE Tick
    <2>1. now' = now + 1 /\ UNCHANGED <<sub, copy, sold>>
        BY <1>10 DEF Tick, history
    <2>2. sub.end \in Nat /\ \A h \in Handlers : copy[h].end \in Nat
        BY <1>2 DEF Subscription
    <2>3. QED
        BY <1>1, <1>2, <2>1, <2>2 DEF TimeInv, TimeIsBought
<1>11. CASE UNCHANGED vars
    BY <1>1, <1>11 DEF vars, history, TimeInv, TimeIsBought
<1>12. QED
    BY <1>4, <1>5, <1>6, <1>7, <1>8, <1>9, <1>10, <1>11 DEF Next

\* Concurrent saves, stale rows and changes of the billing period never make
\* time: what is left is at most a trial and what payments added.
THEOREM TimeIsNeverMade == Spec => []TimeIsBought
<1>1. Init => TimeInv
    <2>1. SUFFICES ASSUME Init PROVE TimeInv
        OBVIOUS
    <2>2. TypeOK
        BY <2>1, TypeInit
    <2>3. QED
        BY <2>1, <2>2, NoRowType, SubscriptionAssumption
        DEF Init, TimeInv, TimeIsBought
<1>2. TimeInv /\ [Next]_vars => TimeInv'
    BY TimeStep
<1>3. TimeInv => TimeIsBought
    BY DEF TimeInv
<1>4. QED
    BY <1>1, <1>2, <1>3, PTL DEF Spec

-----------------------------------------------------------------------------
(***************************************************************************)
(* Money.  A request calls PayHero once, before its payment's checkout id  *)
(* is known, so an outcome is never taken back; and each handler past its  *)
(* confirmation, and each row a handler carries, presupposes the payment.  *)
(***************************************************************************)
SomePaid == \E p \in Payments : stk[p] = "paid"

FreshInv ==
    \A p \in Payments :
        /\ p \in known => pc[p] = "done"
        /\ pc[p] \in {"idle", "loaded"} => stk[p] = "none"

PaidInv ==
    /\ sub.status = "active" => SomePaid
    /\ \A h \in Handlers : copy[h].status = "active" => SomePaid
    /\ \A r \in Polls : pc[r] = "completed" => stk[About[r]] = "paid"
    /\ \A p \in Payments :
          status[p] = "completed" \/ added[p] > 0 => stk[p] = "paid"

FailInv ==
    \A p \in Payments :
        status[p] = "failed" /\ p \in known => stk[p] \in {"failed", "cancelled"}

MoneyInv == TypeOK /\ FreshInv /\ PaidInv /\ FailInv

\* A handler moves its own label only.
LEMMA OtherLabel ==
    ASSUME TypeOK, NEW p \in Payments, NEW h \in Handlers, h # p, NEW l,
           Goto(h, l) \/ Return(h, l)
    PROVE  pc'[p] = pc[p]
<1>1. pc' = [pc EXCEPT ![h] = l] /\ pc \in [Handlers -> {"idle", "loaded",
            "accepted", "refused", "completed", "done"}] /\ p \in Handlers
    BY DEF Return, Goto, TypeOK, Handlers
<1>2. QED
    BY <1>1

\* Only the request itself and a crash move a payment's label, and only the
\* request and its outcome change what PayHero knows of it.
LEMMA PaymentAlone ==
    ASSUME TypeOK, NEW p \in Payments, [Next]_vars
    PROVE  \/ PaymentStep(p)
           \/ stk'[p] = stk[p] /\ pc'[p] \in {pc[p], "done"} /\ (p \in known' => p \in known)
<1>1. /\ p \notin Deliveries \cup Polls \cup Cancels /\ p \in Handlers
      /\ Payments \subseteq Handlers /\ Deliveries \subseteq Handlers
      /\ Polls \subseteq Handlers /\ Cancels \subseteq Handlers
    BY SubscriptionAssumption DEF Handlers
<1>2. CASE CreateTrial \/ Tick \/ UNCHANGED vars
    BY <1>2 DEF CreateTrial, Tick, vars, payments
<1>3. CASE \E q \in Payments : PaymentStep(q)
    <2>1. PICK q \in Payments : PaymentStep(q)
        BY <1>3
    <2>2. CASE q = p
        BY <2>1, <2>2
    <2>3. ASSUME q # p
          PROVE  stk'[p] = stk[p] /\ pc'[p] = pc[p] /\ (p \in known' => p \in known)
        <3>1. CASE LoadSubscription(q)
            BY <1>1, <2>3, <3>1, OtherLabel DEF LoadSubscription, payments
        <3>2. CASE PushAccepted(q) \/ PushRefused(q) \/ PushReplyLost(q)
            <4>1. PICK l, sent : Push(q, l, sent)
                BY <3>2 DEF PushAccepted, PushRefused, PushReplyLost
            <4>2. QED
                BY <1>1, <2>3, <4>1, OtherLabel DEF Push, payments, TypeOK
        <3>3. CASE CommitPayment(q)
            BY <1>1, <2>3, <3>3, OtherLabel DEF CommitPayment
        <3>4. CASE Resolve(q)
            BY <2>3, <3>4 DEF Resolve, payments, TypeOK
        <3>5. QED
            BY <2>1, <3>1, <3>2, <3>3, <3>4 DEF PaymentStep
    <2>4. QED
        BY <2>2, <2>3
<1>4. CASE \E d \in Deliveries : CallbackStep(d)
    BY <1>1, <1>4, OtherLabel
    DEF CallbackStep, ReceiveCallback, CompleteByCallback, FailByCallback, payments
<1>5. CASE \E r \in Polls : PollStep(r)
    BY <1>1, <1>5, OtherLabel
    DEF PollStep, LoadPoll, ConfirmPayment, ExtendByPoll, RejectPayment,
        AnswerPending, payments
<1>6. CASE \E c \in Cancels : CancelStep(c)
    BY <1>1, <1>6, OtherLabel DEF CancelStep, LoadCancel, SaveCancel, payments
<1>7. CASE \E h \in Handlers : Crash(h)
    <2>1. PICK h \in Handlers : Crash(h)
        BY <1>7
    <2>2. CASE h # p
        BY <1>1, <2>1, <2>2, OtherLabel DEF Crash, payments
    <2>3. CASE h = p
        BY <1>1, <2>1, <2>3 DEF Crash, Return, Goto, payments, TypeOK
    <2>4. QED
        BY <2>2, <2>3
<1>8. QED
    BY <1>2, <1>3, <1>4, <1>5, <1>6, <1>7 DEF Next

\* A request calls PayHero before its payment is known, and once.
LEMMA FreshStep ==
    ASSUME TypeOK, FreshInv, [Next]_vars
    PROVE  /\ FreshInv'
           /\ \A p \in Payments :
                 stk[p] \in {"paid", "failed", "cancelled"} => stk'[p] = stk[p]
<1>1. SUFFICES ASSUME NEW p \in Payments
               PROVE  /\ p \in known' => pc'[p] = "done"
                      /\ pc'[p] \in {"idle", "loaded"} => stk'[p] = "none"
                      /\ stk[p] \in {"paid", "failed", "cancelled"} => stk'[p] = stk[p]
    BY DEF FreshInv
<1>2. p \in Handlers
    BY DEF Handlers
<1>3. CASE PaymentStep(p)
    <2>1. CASE LoadSubscription(p) \/ PushAccepted(p) \/ PushRefused(p) \/ PushReplyLost(p)
        BY <1>2, <2>1
        DEF LoadSubscription, PushAccepted, PushRefused, PushReplyLost, Push,
            Goto, payments, FreshInv, TypeOK
    <2>2. CASE CommitPayment(p)
        BY <1>2, <2>2 DEF CommitPayment, Return, Goto, FreshInv, TypeOK
    <2>3. CASE Resolve(p)
        BY <1>2, <2>3 DEF Resolve, payments, FreshInv, TypeOK
    <2>4. QED
        BY <1>3, <2>1, <2>2, <2>3 DEF PaymentStep
<1>4. QED
    BY <1>3, PaymentAlone DEF FreshInv

\* A handler that returns carries no active row and no confirmation.
LEMMA ReturnPaid ==
    ASSUME TypeOK, NEW h \in Handlers, NEW l \in {"idle", "done"}, Return(h, l)
    PROVE  /\ \A g \in Handlers :
                 copy'[g].status = "active" => copy[g].status = "active"
           /\ \A r \in Polls : pc'[r] = "completed" => pc[r] = "completed"
<1>1. /\ copy' = [copy EXCEPT ![h] = NoRow] /\ NoRow.status # "active"
      /\ pc' = [pc EXCEPT ![h] = l]
    BY NoRowType DEF Return, Goto
<1>2. \A r \in Polls : r \in Handlers
    BY DEF Handlers
<1>3. QED
    BY <1>1, <1>2 DEF TypeOK

\* A step that changes neither the row nor the copies' statuses for active
\* ones, confirms nothing and credits nothing keeps the invariant.
LEMMA QuietPaid ==
    ASSUME MoneyInv, [Next]_vars,
           sub'.status = "active" => SomePaid,
           \A g \in Handlers : copy'[g].status = "active" => SomePaid,
           \A r \in Polls : pc'[r] = "completed" => stk[About[r]] = "paid",
           \A p \in Payments :
              status'[p] = "completed" \/ added'[p] > 0 => stk[p] = "paid"
    PROVE  PaidInv'
<1>1. \A p \in Payments : stk[p] = "paid" => stk'[p] = "paid"
    BY FreshStep DEF MoneyInv
<1>2. SomePaid => SomePaid'
    BY <1>1 DEF SomePaid
<1>3. \A r \in Polls : About[r] \in Payments
    BY SubscriptionAssumption
<1>4. QED
    BY <1>1, <1>2, <1>3 DEF PaidInv

\* Every step leaves what it confirms, activates or credits paid for.
LEMMA PaidStep ==
    ASSUME MoneyInv, [Next]_vars
    PROVE  PaidInv'
<1>1. /\ TypeOK /\ PaidInv /\ sub \in Subscription
      /\ \A h \in Handlers : copy[h] \in Subscription
      /\ Payments \subseteq Handlers /\ Deliveries \subseteq Handlers
      /\ Polls \subseteq Handlers /\ Cancels \subseteq Handlers
    BY DEF MoneyInv, TypeOK, Handlers
<1>2. /\ sub.status = "active" => SomePaid
      /\ \A g \in Handlers : copy[g].status = "active" => SomePaid
      /\ \A r \in Polls : pc[r] = "completed" => stk[About[r]] = "paid"
      /\ \A p \in Payments :
            status[p] = "completed" \/ added[p] > 0 => stk[p] = "paid"
    BY <1>1 DEF PaidInv
<1>3. CASE CreateTrial
    <2>1. now + Trial \in Nat /\ "monthly" \in Periods
        BY <1>1, SubscriptionAssumption DEF TypeOK, Periods
    <2>2. sub'.status # "active"
        BY <1>3, <2>1, RowType DEF CreateTrial
    <2>3. QED
        BY <1>2, <1>3, <2>2, QuietPaid DEF CreateTrial, payments, history
<1>4. CASE \E p \in Payments : PaymentStep(p)
    <2>1. PICK p \in Payments : PaymentStep(p)
        BY <1>4
    <2>2. Period[p] \in Periods /\ now \in Nat /\ p \in Handlers
        BY <1>1, SubscriptionAssumption DEF TypeOK
    <2>3. p \notin Polls
        BY SubscriptionAssumption
    <2>4. CASE LoadSubscription(p)
        <3>1. [sub EXCEPT !.period = Period[p]].status = sub.status
            BY <1>1 DEF Subscription
        <3>2. \A g \in Handlers : copy'[g].status = "active" => SomePaid
            BY <1>1, <1>2, <2>2, <2>4, <3>1 DEF LoadSubscription, TypeOK
        <3>3. \A r \in Polls : pc'[r] = pc[r]
            BY <1>1, <2>3, <2>4 DEF LoadSubscription, Goto, TypeOK
        <3>4. QED
            BY <1>2, <2>4, <3>2, <3>3, QuietPaid
            DEF LoadSubscription, payments, history
    <2>5. CASE PushAccepted(p) \/ PushRefused(p) \/ PushReplyLost(p)
        <3>1. PICK l, sent : Push(p, l, sent)
            BY <2>5 DEF PushAccepted, PushRefused, PushReplyLost
        <3>2. Row("pending", Period[p], now).status # "active"
            BY <2>2, RowType
        <3>3. \A g \in Handlers : copy'[g].status = "active" => SomePaid
            BY <1>1, <1>2, <2>2, <3>1, <3>2 DEF Push, TypeOK
        <3>4. \A r \in Polls : pc'[r] = pc[r]
            BY <1>1, <2>3, <3>1 DEF Push, Goto, TypeOK
        <3>5. QED
            BY <1>2, <3>1, <3>3, <3>4, QuietPaid DEF Push, payments, history
    <2>6. CASE CommitPayment(p)
        <3>1. \A q \in Payments : status'[q] = "completed" => status[q] = "completed"
            BY <1>1, <2>6 DEF CommitPayment, TypeOK
        <3>2. /\ sub' = copy[p] /\ added' = added /\ Return(p, "done")
            BY <2>6 DEF CommitPayment, history
        <3>3. /\ \A g \in Handlers : copy'[g].status = "active" => copy[g].status = "active"
              /\ \A r \in Polls : pc'[r] = "completed" => pc[r] = "completed"
            BY <1>1, <2>2, <3>2, ReturnPaid
        <3>4. QED
            BY <1>2, <2>2, <3>1, <3>2, <3>3, QuietPaid
    <2>7. CASE Resolve(p)
        BY <1>2, <2>7, QuietPaid DEF Resolve, payments, history
    <2>8. QED
        BY <2>1, <2>4, <2>5, <2>6, <2>7 DEF PaymentStep
<1>5. CASE \E d \in Deliveries : CallbackStep(d)
    <2>1. PICK d \in Deliveries : CallbackStep(d)
        BY <1>5
    <2>2. d \in Handlers /\ About[d] \in Payments
        BY <1>1, SubscriptionAssumption
    <2>3. Return(d, "done") =>
             /\ \A g \in Handlers : copy'[g].status = "active" => copy[g].status = "active"
             /\ \A r \in Polls : pc'[r] = "completed" => pc[r] = "completed"
        BY <1>1, <2>2, ReturnPaid
    <2>4. CASE ReceiveCallback(d) /\ Return(d, "done")
        BY <1>2, <2>3, <2>4, QuietPaid DEF ReceiveCallback, payments, history
    <2>5. CASE ReceiveCallback(d) /\ Goto(d, "loaded") /\ copy' = [copy EXCEPT ![d] = sub]
        <3>1. /\ \A g \in Handlers : copy'[g].status = "active" => SomePaid
              /\ \A r \in Polls : pc'[r] = "completed" => pc[r] = "completed"
            BY <1>1, <1>2, <2>2, <2>5 DEF Goto, TypeOK
        <3>2. QED
            BY <1>2, <2>5, <3>1, QuietPaid DEF ReceiveCallback, payments, history
    <2>6. CASE CompleteByCallback(d)
        <3>1. stk[About[d]] = "paid" /\ Return(d, "done")
            BY <2>6 DEF CompleteByCallback
        <3>2. SomePaid
            BY <2>2, <3>1 DEF SomePaid
        <3>3. \A q \in Payments : q # About[d] => added'[q] = added[q]
            BY <1>1, <2>6, CallbackRow
        <3>4. \A q \in Payments : q # About[d] => status'[q] = status[q]
            BY <1>1, <2>6 DEF CompleteByCallback, TypeOK
        <3>5. \A p \in Payments :
                 status'[p] = "completed" \/ added'[p] > 0 => stk[p] = "paid"
            BY <1>2, <3>1, <3>3, <3>4
        <3>6. QED
            BY <1>2, <2>3, <3>1, <3>2, <3>5, QuietPaid
    <2>7. CASE FailByCallback(d)
        <3>1. \A q \in Payments : status'[q] = "completed" => status[q] = "completed"
            BY <1>1, <2>7 DEF FailByCallback, TypeOK
        <3>2. QED
            BY <1>2, <2>3, <2>7, <3>1, QuietPaid DEF FailByCallback, history
    <2>8. QED
        BY <2>1, <2>4, <2>5, <2>6, <2>7 DEF CallbackStep, ReceiveCallback
<1>6. CASE \E r \in Polls : PollStep(r)
    <2>1. PICK r \in Polls : PollStep(r)
        BY <1>6
    <2>2. r \in Handlers /\ About[r] \in Payments
        BY <1>1, SubscriptionAssumption
    <2>3. Return(r, "idle") =>
             /\ \A g \in Handlers : copy'[g].status = "active" => copy[g].status = "active"
             /\ \A g \in Polls : pc'[g] = "completed" => pc[g] = "completed"
        BY <1>1, <2>2, ReturnPaid
    <2>4. CASE LoadPoll(r)
        <3>1. /\ \A g \in Handlers : copy'[g].status = "active" => SomePaid
              /\ \A g \in Polls : pc'[g] = "completed" => pc[g] = "completed"
            BY <1>1, <1>2, <2>2, <2>4 DEF LoadPoll, Goto, TypeOK
        <3>2. QED
            BY <1>2, <2>4, <3>1, QuietPaid DEF LoadPoll, payments, history
    <2>5. CASE ConfirmPayment(r)
        <3>1. /\ \A q \in Payments : q # About[r] => status'[q] = status[q]
              /\ \A g \in Polls : g # r => pc'[g] = pc[g]
            BY <1>1, <2>2, <2>5 DEF ConfirmPayment, Goto, TypeOK
        <3>2. stk[About[r]] = "paid" /\ copy' = copy /\ sub' = sub /\ added' = added
            BY <2>5 DEF ConfirmPayment, history
        <3>3. /\ \A p \in Payments :
                    status'[p] = "completed" \/ added'[p] > 0 => stk[p] = "paid"
              /\ \A g \in Polls : pc'[g] = "completed" => stk[About[g]] = "paid"
            BY <1>2, <3>1, <3>2
        <3>4. QED
            BY <1>2, <3>2, <3>3, QuietPaid
    <2>6. CASE ExtendByPoll(r)
        <3>1. stk[About[r]] = "paid" /\ Return(r, "idle") /\ status' = status
            BY <1>2, <2>6 DEF ExtendByPoll, payments
        <3>2. SomePaid
            BY <2>2, <3>1 DEF SomePaid
        <3>3. \A q \in Payments : q # About[r] => added'[q] = added[q]
            BY <1>1, <2>6, PollRow
        <3>4. \A p \in Payments :
                 status'[p] = "completed" \/ added'[p] > 0 => stk[p] = "paid"
            BY <1>2, <3>1, <3>3
        <3>5. QED
            BY <1>2, <2>3, <3>1, <3>2, <3>4, QuietPaid
    <2>7. CASE RejectPayment(r) \/ AnswerPending(r)
        <3>1. /\ \A q \in Payments : status'[q] = "completed" => status[q] = "completed"
              /\ Return(r, "idle") /\ sub' = sub /\ added' = added
            BY <1>1, <2>2, <2>7
            DEF RejectPayment, AnswerPending, payments, history, TypeOK
        <3>2. QED
            BY <1>2, <2>3, <3>1, QuietPaid
    <2>8. QED
        BY <2>1, <2>4, <2>5, <2>6, <2>7 DEF PollStep
<1>7. CASE \E c \in Cancels : CancelStep(c)
    <2>1. PICK c \in Cancels : CancelStep(c)
        BY <1>7
    <2>2. CASE LoadCancel(c)
        <3>1. /\ \A g \in Handlers : copy'[g].status = "active" => SomePaid
              /\ \A g \in Polls : pc'[g] = "completed" => pc[g] = "completed"
            BY <1>1, <1>2, <2>2 DEF LoadCancel, Goto, TypeOK
        <3>2. QED
            BY <1>2, <2>2, <3>1, QuietPaid DEF LoadCancel, payments, history
    <2>3. CASE \E immediate \in BOOLEAN : SaveCancel(c, immediate)
        <3>1. PICK immediate \in BOOLEAN : SaveCancel(c, immediate)
            BY <2>3
        <3>2. sub'.status = "active" => copy[c].status = "active"
            BY <1>1, <3>1, CancelledRow DEF SaveCancel, TypeOK
        <3>3. /\ \A g \in Handlers : copy'[g].status = "active" => copy[g].status = "active"
              /\ \A g \in Polls : pc'[g] = "completed" => pc[g] = "completed"
            BY <1>1, <3>1, ReturnPaid DEF SaveCancel
        <3>4. QED
            BY <1>1, <1>2, <3>1, <3>2, <3>3, QuietPaid
            DEF SaveCancel, payments, history
    <2>4. QED
        BY <2>1, <2>2, <2>3 DEF CancelStep
<1>8. CASE \E h \in Handlers : Crash(h)
    <2>1. PICK h \in Handlers : Crash(h)
        BY <1>8
    <2>2. PICK l \in {"idle", "done"} : Return(h, l)
        BY <2>1 DEF Crash
    <2>3. /\ \A g \in Handlers : copy'[g].status = "active" => copy[g].status = "active"
          /\ \A g \in Polls : pc'[g] = "completed" => pc[g] = "completed"
        BY <1>1, <2>2, ReturnPaid
    <2>4. QED
        BY <1>2, <2>1, <2>3, QuietPaid DEF Crash, payments, history
<1>9. CASE Tick \/ UNCHANGED vars
    BY <1>2, <1>9, QuietPaid DEF Tick, vars, payments, history
<1>10. QED
    BY <1>3, <1>4, <1>5, <1>6, <1>7, <1>8, <1>9 DEF Next

\* A payment on record is failed only on PayHero's word.
LEMMA FailStep ==
    ASSUME MoneyInv, [Next]_vars
    PROVE  FailInv'
<1>1. SUFFICES ASSUME NEW p \in Payments, status'[p] = "failed", p \in known'
               PROVE  stk'[p] \in {"failed", "cancelled"}
    BY DEF FailInv
<1>2. TypeOK /\ FreshInv /\ FailInv
    BY DEF MoneyInv
<1>3. stk[p] \in {"failed", "cancelled"} => stk'[p] = stk[p]
    BY <1>2, FreshStep
<1>4. CASE status[p] = "failed" /\ p \in known
    BY <1>2, <1>3, <1>4 DEF FailInv
<1>5. CASE \E q \in Payments : CommitPayment(q)
    <2>1. PICK q \in Payments : CommitPayment(q)
        BY <1>5
    <2>2. CASE q = p
        <3>1. p \notin known
            BY <1>2, <2>1, <2>2 DEF CommitPayment, FreshInv
        <3>2. QED
            BY <1>1, <1>2, <2>1, <2>2, <3>1 DEF CommitPayment, TypeOK
    <2>3. CASE q # p
        BY <1>1, <1>2, <1>4, <2>1, <2>3 DEF CommitPayment, TypeOK
    <2>4. QED
        BY <2>2, <2>3
<1>6. CASE \E d \in Deliveries : FailByCallback(d) \/ CompleteByCallback(d)
    BY <1>1, <1>2, <1>3, <1>4, <1>6, SubscriptionAssumption
    DEF FailByCallback, CompleteByCallback, TypeOK
<1>7. CASE \E r \in Polls : RejectPayment(r) \/ ConfirmPayment(r)
    BY <1>1, <1>2, <1>3, <1>4, <1>7, SubscriptionAssumption
    DEF RejectPayment, ConfirmPayment, TypeOK
<1>8. CASE UNCHANGED <<status, known>>
    BY <1>1, <1>4, <1>8
<1>9. QED
    BY <1>5, <1>6, <1>7, <1>8
    DEF Next, vars, payments, CreateTrial, PaymentStep, LoadSubscription,
        PushAccepted, PushRefused, PushReplyLost, Push, Resolve, CallbackStep,
        ReceiveCallback, PollStep, LoadPoll, ExtendByPoll, AnswerPending,
        CancelStep, LoadCancel, SaveCancel, Crash, Tick

\* Together the parts are inductive.
LEMMA MoneyInvariant == Spec => []MoneyInv
<1>1. Init => MoneyInv
    <2>1. SUFFICES ASSUME Init PROVE MoneyInv
        OBVIOUS
    <2>2. TypeOK
        BY <2>1, TypeInit
    <2>3. \A r \in Polls : r \in Handlers /\ About[r] \in Payments
        BY SubscriptionAssumption DEF Handlers
    <2>4. \A p \in Payments : p \in Handlers
        BY DEF Handlers
    <2>5. QED
        BY <2>1, <2>2, <2>3, <2>4, NoRowType
        DEF Init, MoneyInv, FreshInv, PaidInv, FailInv
<1>2. MoneyInv /\ [Next]_vars => MoneyInv'
    BY TypeStep, FreshStep, PaidStep, FailStep DEF MoneyInv
<1>3. QED
    BY <1>1, <1>2, PTL DEF Spec

\* The subscription is in service, a payment completed and time added only
\* where PayHero collected money, whichever stale row is saved last.
THEOREM MoneyBeforeService == Spec => []ServiceNeedsPayment
<1>1. MoneyInv => ServiceNeedsPayment
    BY DEF MoneyInv, PaidInv, SomePaid, ServiceNeedsPayment
<1>2. QED
    BY <1>1, MoneyInvariant, PTL

\* A payment on record that is failed was not collected, and never will be.
THEOREM FailedPaymentsAreUnpaid == Spec => []FailedMeansUnpaid
<1>1. MoneyInv => FailedMeansUnpaid
    BY DEF MoneyInv, FailInv, FailedMeansUnpaid
<1>2. QED
    BY <1>1, MoneyInvariant, PTL
-----------------------------------------------------------------------------
(***************************************************************************)
(* The sale.  Callbacks and polls only take up payments on record that     *)
(* PayHero took on, and each decides by PayHero's word, which is final     *)
(* (FreshStep): so two of them never decide differently, and only a        *)
(* completed payment is credited.                                          *)
(***************************************************************************)
Requests == Deliveries \cup Polls

SaleInv ==
    /\ \A p \in Payments :
          /\ status[p] # "absent" => pc[p] = "done"
          /\ p \in known => status[p] # "absent"
          /\ status[p] \in {"processing", "completed"} => p \in known
          /\ added[p] > 0 => status[p] = "completed"
    /\ \A h \in Requests :
          /\ pc[h] \in {"loaded", "completed"} => About[h] \in known
          /\ pc[h] = "completed" => status[About[h]] = "completed"

\* What a callback or poll does to the payment it is about.
Decided(h, word) ==
    /\ About[h] \in known
    /\ status' = [status EXCEPT ![About[h]] = word]
    /\ \/ word = "completed" /\ stk[About[h]] = "paid"
       \/ word = "failed" /\ stk[About[h]] \in {"failed", "cancelled"}

Handled(h) ==
    /\ \E label : Goto(h, label)
    /\ pc'[h] \in {"loaded", "completed"} => About[h] \in known
    /\ UNCHANGED <<known, stk>>
    /\ status' = status \/ \E word : Decided(h, word)
    /\ pc'[h] = "completed" => status'[About[h]] = "completed"
    /\ \A p \in Payments :
          added'[p] >= added[p] /\ (p # About[h] => added'[p] = added[p])
    /\ added' # added => status'[About[h]] = "completed"

\* Every step of a callback or a poll does that.
LEMMA RequestHandles ==
    ASSUME MoneyInv, SaleInv, NEW h \in Requests,
           \/ h \in Deliveries /\ CallbackStep(h)
           \/ h \in Polls /\ PollStep(h)
    PROVE  Handled(h)
<1>1. /\ TypeOK /\ h \in Handlers /\ About[h] \in Payments
      /\ \A p \in Payments : added[p] \in Nat
    BY SubscriptionAssumption DEF MoneyInv, TypeOK, Requests, Handlers
<1>2. pc[h] \in {"loaded", "completed"} => About[h] \in known
    BY DEF SaleInv
<1>3. ASSUME NEW l \in {"idle", "done"}, Return(h, l), UNCHANGED <<known, stk>>,
             status' = status \/ \E word : Decided(h, word),
             \A p \in Payments :
                added'[p] >= added[p] /\ (p # About[h] => added'[p] = added[p]),
             added' # added => status'[About[h]] = "completed"
      PROVE  Handled(h)
    BY <1>1, <1>3 DEF Handled, Return, Goto, TypeOK
<1>4. added' = added => \A p \in Payments :
             added'[p] >= added[p] /\ (p # About[h] => added'[p] = added[p])
    BY <1>1
<1>5. CASE h \in Deliveries /\ CallbackStep(h)
    <2>1. CASE ReceiveCallback(h)
        <3>1. CASE About[h] \in known
            BY <1>1, <1>4, <2>1, <3>1
            DEF ReceiveCallback, Handled, Goto, payments, history, TypeOK
        <3>2. CASE About[h] \notin known
            BY <1>3, <1>4, <2>1, <3>2 DEF ReceiveCallback, payments, history
        <3>3. QED
            BY <3>1, <3>2
    <2>2. CASE CompleteByCallback(h)
        <3>1. \A p \in Payments :
                added'[p] >= added[p] /\ (p # About[h] => added'[p] = added[p])
            BY <1>1, <1>5, <2>2, CallbackRow
        <3>2. Decided(h, "completed")
            BY <1>2, <2>2 DEF CompleteByCallback, Decided
        <3>3. status'[About[h]] = "completed"
            BY <1>1, <3>2 DEF Decided, TypeOK
        <3>4. Return(h, "done") /\ UNCHANGED <<known, stk>>
            BY <2>2 DEF CompleteByCallback
        <3>5. QED
            BY <1>3, <3>1, <3>2, <3>3, <3>4
    <2>3. CASE FailByCallback(h)
        <3>1. Decided(h, "failed")
            BY <1>2, <2>3 DEF FailByCallback, Decided
        <3>2. QED
            BY <1>3, <1>4, <2>3, <3>1 DEF FailByCallback, history
    <2>4. QED
        BY <1>5, <2>1, <2>2, <2>3 DEF CallbackStep
<1>6. CASE h \in Polls /\ PollStep(h)
    <2>1. CASE LoadPoll(h)
        <3>1. About[h] \in known
            BY <1>1, <2>1 DEF LoadPoll, SaleInv
        <3>2. QED
            BY <1>1, <1>4, <2>1, <3>1
            DEF LoadPoll, Handled, Goto, payments, history, TypeOK
    <2>2. CASE ConfirmPayment(h)
        <3>1. Decided(h, "completed")
            BY <1>2, <2>2 DEF ConfirmPayment, Decided
        <3>2. /\ pc'[h] = "completed" /\ status'[About[h]] = "completed"
              /\ Goto(h, "completed") /\ UNCHANGED <<known, stk, added>>
              /\ About[h] \in known
            BY <1>1, <1>2, <2>2 DEF ConfirmPayment, Goto, history, TypeOK
        <3>3. QED
            BY <1>4, <3>1, <3>2 DEF Handled
    <2>3. CASE ExtendByPoll(h)
        <3>1. \A p \in Payments :
                added'[p] >= added[p] /\ (p # About[h] => added'[p] = added[p])
            BY <1>1, <1>6, <2>3, PollRow
        <3>2. status' = status /\ status[About[h]] = "completed"
            BY <2>3 DEF ExtendByPoll, payments, SaleInv
        <3>3. Return(h, "idle") /\ UNCHANGED <<known, stk>>
            BY <2>3 DEF ExtendByPoll, payments
        <3>4. QED
            BY <1>3, <3>1, <3>2, <3>3
    <2>4. CASE RejectPayment(h)
        <3>1. Decided(h, "failed")
            BY <1>2, <2>4 DEF RejectPayment, Decided
        <3>2. QED
            BY <1>3, <1>4, <2>4, <3>1 DEF RejectPayment, history
    <2>5. CASE AnswerPending(h)
        BY <1>3, <1>4, <2>5 DEF AnswerPending, payments, history
    <2>6. QED
        BY <1>6, <2>1, <2>2, <2>3, <2>4, <2>5 DEF PollStep
<1>7. QED
    BY <1>5, <1>6

\* A payment on record that was decided stays so: PayHero's word is final.
LEMMA DecisionStands ==
    ASSUME MoneyInv, SaleInv, NEW h \in Requests, Handled(h), NEW p \in Payments
    PROVE  /\ status[p] \in {"absent", "completed", "failed"} =>
                 status'[p] = status[p]
           /\ status'[p] \in {"absent", "processing"} => status'[p] = status[p]
<1>1. CASE status' = status
    BY <1>1
<1>2. ASSUME NEW word, Decided(h, word)
      PROVE  /\ status[p] \in {"absent", "completed", "failed"} =>
                   status'[p] = status[p]
             /\ status'[p] \in {"absent", "processing"} => status'[p] = status[p]
    <2>1. status'[p] = IF p = About[h] THEN word ELSE status[p]
        BY <1>2 DEF Decided, MoneyInv, TypeOK
    <2>2. CASE p = About[h]
        <3>1. /\ p \in known /\ status[p] # "absent"
              /\ status[p] = "completed" => stk[p] = "paid"
              /\ status[p] = "failed" => stk[p] \in {"failed", "cancelled"}
            BY <1>2, <2>2 DEF Decided, SaleInv, MoneyInv, PaidInv, FailInv
        <3>2. QED
            BY <1>2, <2>1, <2>2, <3>1 DEF Decided
    <2>3. QED
        BY <2>1, <2>2
<1>3. QED
    BY <1>1, <1>2 DEF Handled

\* Callbacks and polls keep the invariant of the sale.
LEMMA RequestSale ==
    ASSUME MoneyInv, SaleInv, NEW h \in Requests, Handled(h)
    PROVE  SaleInv'
<1>1. /\ h \in Handlers /\ h \notin Payments /\ About[h] \in Payments
      /\ \A g \in Requests : g \in Handlers /\ About[g] \in Payments
      /\ \A p \in Payments : p \in Handlers
    BY SubscriptionAssumption DEF Requests, Handlers
<1>2. /\ known' = known
      /\ \A g \in Handlers : g # h => pc'[g] = pc[g]
    BY DEF Handled, Goto, MoneyInv, TypeOK
<1>3. \A p \in Payments :
         /\ status[p] \in {"absent", "completed", "failed"} => status'[p] = status[p]
         /\ status'[p] \in {"absent", "processing"} => status'[p] = status[p]
    BY DecisionStands
<1>4. \A p \in Payments :
         status'[p] \in {"processing", "completed"} => p \in known
    <2>1. CASE status' = status
        BY <2>1 DEF SaleInv
    <2>2. CASE \E word : Decided(h, word)
        BY <1>1, <2>2 DEF Decided, SaleInv, MoneyInv, TypeOK
    <2>3. QED
        BY <2>1, <2>2 DEF Handled
<1>5. \A p \in Payments : added'[p] > 0 => status'[p] = "completed"
    <2>1. CASE added' = added
        BY <1>3, <2>1 DEF SaleInv
    <2>2. CASE status'[About[h]] = "completed"
        <3>1. ASSUME NEW p \in Payments, p # About[h], added'[p] > 0
              PROVE  status'[p] = "completed"
            BY <1>3, <3>1 DEF Handled, SaleInv
        <3>2. QED
            BY <2>2, <3>1
    <2>3. QED
        BY <2>1, <2>2 DEF Handled
<1>6. \A p \in Payments :
         /\ status'[p] # "absent" => pc'[p] = "done"
         /\ p \in known => status'[p] # "absent"
    BY <1>1, <1>2, <1>3 DEF SaleInv
<1>7. \A g \in Requests :
         /\ pc'[g] \in {"loaded", "completed"} => About[g] \in known
         /\ pc'[g] = "completed" => status'[About[g]] = "completed"
    BY <1>1, <1>2, <1>3 DEF SaleInv, Handled
<1>8. QED
    BY <1>2, <1>4, <1>5, <1>6, <1>7 DEF SaleInv

\* A payment request puts a payment on record that nobody has seen.
LEMMA CommitSale ==
    ASSUME MoneyInv, SaleInv, NEW p \in Payments, CommitPayment(p)
    PROVE  /\ SaleInv'
           /\ status[p] = "absent" /\ UNCHANGED <<stk, added>>
           /\ \E st \in {"processing", "failed"} :
                 status' = [status EXCEPT ![p] = st]
<1>1. /\ p \in Handlers
      /\ \A g \in Requests : g \in Handlers /\ g # p /\ About[g] \in Payments
      /\ \A q \in Payments : q \in Handlers
    BY SubscriptionAssumption DEF Requests, Handlers
<1>2. /\ pc[p] \in {"accepted", "refused"}
      /\ status[p] = "absent" /\ p \notin known /\ ~(added[p] > 0)
      /\ \A g \in Requests : About[g] = p => pc[g] \notin {"loaded", "completed"}
    BY DEF CommitPayment, SaleInv
<1>3. PICK st \in {"processing", "failed"} :
         /\ status' = [status EXCEPT ![p] = st]
         /\ st = "processing" => known' = known \cup {p}
         /\ st = "failed" => known' = known
    BY DEF CommitPayment
<1>4. UNCHANGED <<stk, added>> /\ pc' = [pc EXCEPT ![p] = "done"]
    BY DEF CommitPayment, Return, Goto, history
<1>5. /\ status'[p] = st /\ pc'[p] = "done"
      /\ \A q \in Payments : q # p => status'[q] = status[q] /\ pc'[q] = pc[q]
      /\ \A g \in Requests : pc'[g] = pc[g]
    BY <1>1, <1>3, <1>4 DEF MoneyInv, TypeOK
<1>6. SaleInv'
    BY <1>1, <1>2, <1>3, <1>4, <1>5 DEF SaleInv
<1>7. QED
    BY <1>2, <1>3, <1>4, <1>6

\* Every step is a payment request's, the customer's, a callback's or poll's,
\* or one that leaves every payment as it is.
LEMMA NextSteps ==
    ASSUME MoneyInv, [Next]_vars
    PROVE  \/ \E p \in Payments : CommitPayment(p) \/ Resolve(p)
           \/ \E h \in Deliveries : CallbackStep(h)
           \/ \E h \in Polls : PollStep(h)
           \/ /\ UNCHANGED <<status, known, added>>
              /\ \A p \in Payments :
                    /\ pc[p] = "done" => pc'[p] = "done"
                    /\ stk'[p] = "paid" <=> stk[p] = "paid"
                    /\ stk'[p] \in {"failed", "cancelled"}
                          <=> stk[p] \in {"failed", "cancelled"}
              /\ \A h \in Requests :
                    pc'[h] \in {"loaded", "completed"} => pc'[h] = pc[h]
<1> DEFINE Aside ==
              /\ UNCHANGED <<status, known, added>>
              /\ \A p \in Payments :
                    /\ pc[p] = "done" => pc'[p] = "done"
                    /\ stk'[p] = "paid" <=> stk[p] = "paid"
                    /\ stk'[p] \in {"failed", "cancelled"}
                          <=> stk[p] \in {"failed", "cancelled"}
              /\ \A h \in Requests :
                    pc'[h] \in {"loaded", "completed"} => pc'[h] = pc[h]
<1>1. /\ TypeOK /\ FreshInv
      /\ \A p \in Payments : p \in Handlers /\ p \notin Requests /\ p \notin Cancels
      /\ \A h \in Requests : h \in Handlers /\ h \notin Cancels
      /\ \A c \in Cancels : c \in Handlers
    BY SubscriptionAssumption DEF MoneyInv, Requests, Handlers
<1>2. CASE CreateTrial \/ Tick \/ UNCHANGED vars
    BY <1>2 DEF CreateTrial, Tick, vars, payments, history
<1>3. ASSUME NEW p \in Payments,
             LoadSubscription(p) \/ PushAccepted(p) \/ PushRefused(p) \/ PushReplyLost(p)
      PROVE  Aside
    <2>1. PICK l \in {"loaded", "accepted", "refused"} :
             pc' = [pc EXCEPT ![p] = l]
        BY <1>3 DEF LoadSubscription, PushAccepted, PushRefused, PushReplyLost,
                    Push, Goto
    <2>2. /\ UNCHANGED <<status, known, added>>
          /\ pc[p] \in {"idle", "loaded"}
          /\ stk' = stk \/ \E sent \in {"none", "sent"} : stk' = [stk EXCEPT ![p] = sent]
        BY <1>3 DEF LoadSubscription, PushAccepted, PushRefused, PushReplyLost,
                    Push, payments, history
    <2>3. stk[p] = "none"
        BY <1>1, <2>2 DEF FreshInv
    <2>4. \A q \in Payments :
             /\ stk'[q] = "paid" <=> stk[q] = "paid"
             /\ stk'[q] \in {"failed", "cancelled"} <=> stk[q] \in {"failed", "cancelled"}
        BY <1>1, <2>2, <2>3 DEF TypeOK
    <2>5. /\ \A q \in Payments : pc[q] = "done" => pc'[q] = "done"
          /\ \A h \in Requests : pc'[h] = pc[h]
        BY <1>1, <2>1, <2>2 DEF TypeOK
    <2>6. QED
        BY <2>2, <2>4, <2>5
<1>4. ASSUME NEW c \in Cancels, CancelStep(c) PROVE Aside
    <2>1. PICK l : Goto(c, l)
        BY <1>4 DEF CancelStep, LoadCancel, SaveCancel, Return
    <2>2. \A h \in Handlers : h # c => pc'[h] = pc[h]
        BY <1>1, <2>1 DEF Goto, TypeOK
    <2>3. UNCHANGED <<status, known, added, stk>>
        BY <1>4 DEF CancelStep, LoadCancel, SaveCancel, payments, history
    <2>4. QED
        BY <1>1, <2>2, <2>3
<1>5. ASSUME NEW h \in Handlers, Crash(h) PROVE Aside
    <2>1. PICK l \in {"idle", "done"} : pc' = [pc EXCEPT ![h] = l]
        BY <1>5 DEF Crash, Return, Goto
    <2>2. UNCHANGED <<status, known, added, stk>> /\ pc[h] # "done"
        BY <1>5 DEF Crash, payments, history
    <2>3. \A g \in Handlers :
             pc'[g] = pc[g] \/ (pc'[g] \in {"idle", "done"} /\ pc[g] # "done")
        BY <1>1, <2>1, <2>2 DEF TypeOK
    <2>4. QED
        BY <1>1, <2>2, <2>3
<1>6. QED
    BY <1>2, <1>3, <1>4, <1>5 DEF Next, PaymentStep

\* SaleInv is inductive.
LEMMA SaleNext == MoneyInv /\ SaleInv /\ [Next]_vars => SaleInv'
<1> SUFFICES ASSUME MoneyInv, SaleInv, [Next]_vars PROVE SaleInv'
    OBVIOUS
<1>1. ASSUME NEW p \in Payments, Resolve(p) PROVE SaleInv'
    BY <1>1 DEF Resolve, payments, history, SaleInv
<1>2. ASSUME NEW h \in Requests,
             \/ h \in Deliveries /\ CallbackStep(h)
             \/ h \in Polls /\ PollStep(h)
      PROVE  SaleInv'
    BY <1>2, RequestHandles, RequestSale
<1>3. ASSUME UNCHANGED <<status, known, added>>,
             \A p \in Payments : pc[p] = "done" => pc'[p] = "done",
             \A h \in Requests :
                pc'[h] \in {"loaded", "completed"} => pc'[h] = pc[h]
      PROVE  SaleInv'
    BY <1>3 DEF SaleInv
<1>4. QED
    BY <1>1, <1>2, <1>3, NextSteps, CommitSale DEF Requests

-----------------------------------------------------------------------------
\* The sale behind a payment, member by member.
LEMMA PhaseOf ==
    ASSUME NEW p \in Payments
    PROVE  /\ status[p] = "absent" => Phases[p] = "none"
           /\ status[p] = "processing" => Phases[p] = "open"
           /\ status[p] = "failed" => Phases[p] = "lost"
           /\ status[p] = "completed" => Phases[p] = "sold"
           /\ stk[p] = "paid" => Outcomes[p] = "paid"
           /\ stk[p] \in {"failed", "cancelled"} => Outcomes[p] = "unpaid"
           /\ stk[p] \in {"none", "sent"} => Outcomes[p] = "unknown"
BY DEF Phases, Outcomes

\* A callback or poll sells, loses, gives or leaves the sale alone.
LEMMA RequestSells ==
    ASSUME MoneyInv, TypeOK', SaleInv, NEW h \in Requests, Handled(h)
    PROVE  Sale!Next \/ UNCHANGED Sale!saleVars
<1> DEFINE p == About[h]
<1>1. /\ p \in Payments /\ TypeOK
      /\ \A q \in Payments : added[q] \in Nat /\ added'[q] \in Nat
    BY SubscriptionAssumption DEF Requests, MoneyInv, TypeOK
<1>2. Outcomes' = Outcomes
    BY DEF Handled, Outcomes
<1>3. SaleInv'
    BY RequestSale
<1>4. Given' \in {Given, Given \cup {p}} /\ Given \subseteq Given'
    <2>1. \A q \in Payments :
             /\ added[q] > 0 => added'[q] > 0
             /\ q # p => added'[q] = added[q]
        <3>1. \A q \in Payments :
                 added'[q] >= added[q] /\ (q # p => added'[q] = added[q])
            BY DEF Handled
        <3>2. QED
            BY <1>1, <3>1
    <2>2. QED
        BY <2>1 DEF Given
<1>5. p \in Given' => status'[p] = "completed"
    BY <1>1, <1>3 DEF Given, SaleInv
<1>6. CASE status' = status
    <2>1. Phases' = Phases
        BY <1>6 DEF Phases
    <2>2. CASE Given' = Given
        BY <1>2, <2>1, <2>2 DEF Sale!saleVars
    <2>3. CASE Given' # Given
        <3>1. Given' = Given \cup {p} /\ Phases[p] = "sold"
            BY <1>1, <1>4, <1>5, <1>6, <2>3, PhaseOf
        <3>2. Sale!Give(p)
            BY <1>2, <2>1, <3>1 DEF Sale!Give
        <3>3. QED
            BY <1>1, <3>2 DEF Sale!Next, Sale!SaleStep
    <2>4. QED
        BY <2>2, <2>3
<1>7. ASSUME NEW word, Decided(h, word), status' # status
      PROVE  Sale!Next
    <2>1. /\ status'[p] = word /\ status[p] = "processing"
          /\ \A q \in Payments : q # p => status'[q] = status[q]
        <3>1. /\ status' = [status EXCEPT ![p] = word]
              /\ status'[p] = word
            BY <1>1, <1>7 DEF Decided, TypeOK
        <3>2. status[p] # word
            BY <1>1, <1>7, <3>1 DEF TypeOK
        <3>3. status[p] = "processing"
            BY <1>1, <3>1, <3>2, DecisionStands DEF TypeOK
        <3>4. QED
            BY <1>1, <3>1, <3>3 DEF TypeOK
    <2>2. Phases[p] = "open"
        BY <1>1, <2>1, PhaseOf
    <2>3. CASE word = "completed" /\ stk[p] = "paid"
        <3>1. Phases' = [Phases EXCEPT ![p] = "sold"]
            BY <2>1, <2>3 DEF Phases
        <3>2. Outcomes[p] = "paid"
            BY <1>1, <2>3, PhaseOf
        <3>3. Sale!Sell(p)
            BY <1>2, <1>4, <2>2, <3>1, <3>2 DEF Sale!Sell, Sale!MoveTo
        <3>4. QED
            BY <1>1, <3>3 DEF Sale!Next, Sale!SaleStep
    <2>4. CASE word = "failed" /\ stk[p] \in {"failed", "cancelled"}
        <3>1. Phases' = [Phases EXCEPT ![p] = "lost"]
            BY <2>1, <2>4 DEF Phases
        <3>2. Outcomes[p] = "unpaid"
            BY <1>1, <2>4, PhaseOf
        <3>3. Given' = Given
            BY <1>4, <1>5, <2>1, <2>4
        <3>4. Sale!Lose(p)
            BY <1>2, <2>2, <3>1, <3>2, <3>3 DEF Sale!Lose, Sale!MoveTo
        <3>5. QED
            BY <1>1, <3>4 DEF Sale!Next, Sale!SaleStep
    <2>5. QED
        BY <1>7, <2>3, <2>4 DEF Decided
<1>8. QED
    BY <1>6, <1>7 DEF Handled

\* A payment request opens or refuses a sale, the company pays or does not.
LEMMA PaymentOpens ==
    ASSUME MoneyInv, SaleInv, NEW p \in Payments, CommitPayment(p) \/ Resolve(p)
    PROVE  Sale!Next
<1>1. CASE CommitPayment(p)
    <2>1. PICK st \in {"processing", "failed"} : status' = [status EXCEPT ![p] = st]
        BY <1>1, CommitSale
    <2>2. status[p] = "absent" /\ UNCHANGED <<stk, added>>
        BY <1>1, CommitSale
    <2>3. UNCHANGED <<Outcomes, Given>> /\ Phases[p] = "none"
        BY <2>2, PhaseOf DEF Outcomes, Given
    <2>4. /\ status'[p] = st
          /\ \A q \in Payments : q # p => status'[q] = status[q]
        BY <2>1 DEF MoneyInv, TypeOK
    <2>5. Phases' = [Phases EXCEPT ![p] = IF st = "failed" THEN "lost" ELSE "open"]
        BY <2>4 DEF Phases
    <2>6. Sale!Open(p) \/ Sale!Refuse(p)
        BY <2>3, <2>5 DEF Sale!Open, Sale!Refuse, Sale!MoveTo
    <2>7. QED
        BY <2>6 DEF Sale!Next, Sale!SaleStep
<1>2. CASE Resolve(p)
    <2>1. PICK word \in {"paid", "failed", "cancelled"} :
             stk' = [stk EXCEPT ![p] = word]
        BY <1>2 DEF Resolve
    <2>2. stk[p] = "sent" /\ UNCHANGED <<status, added>>
        BY <1>2 DEF Resolve, payments, history
    <2>3. UNCHANGED <<Phases, Given>> /\ Outcomes[p] = "unknown"
        BY <2>2, PhaseOf DEF Phases, Given
    <2>4. /\ stk'[p] = word
          /\ \A q \in Payments : q # p => stk'[q] = stk[q]
        BY <2>1 DEF MoneyInv, TypeOK
    <2>5. Outcomes' = [Outcomes EXCEPT ![p] = IF word = "paid" THEN "paid" ELSE "unpaid"]
        BY <2>4 DEF Outcomes
    <2>6. Sale!Collect(p)
        BY <2>3, <2>5 DEF Sale!Collect
    <2>7. QED
        BY <2>6 DEF Sale!Next, Sale!SaleStep
<1>3. QED
    BY <1>1, <1>2

\* However callbacks, polls, cancellations and crashes interleave, a payment
\* is decided once and by PayHero's word, and only a completed one adds
\* time: CompanySubscription implements PaidSale.
THEOREM SubscriptionImplementsSale == Spec => ImplementsSale
<1>1. Init => SaleInv /\ Sale!Init
    <2>1. SUFFICES ASSUME Init PROVE SaleInv /\ Sale!Init
        OBVIOUS
    <2>2. \A h \in Requests : h \in Handlers
        BY DEF Requests, Handlers
    <2>3. SaleInv
        BY <2>1, <2>2 DEF Init, SaleInv
    <2>4. /\ Phases = [p \in Payments |-> "none"]
          /\ Outcomes = [p \in Payments |-> "unknown"]
          /\ Given = {}
        BY <2>1 DEF Init, Phases, Outcomes, Given
    <2>5. QED
        BY <2>3, <2>4 DEF Sale!Init
<1>2. MoneyInv /\ SaleInv /\ [Next]_vars => [Sale!Next]_Sale!saleVars
    <2> SUFFICES ASSUME MoneyInv, SaleInv, [Next]_vars
                 PROVE  Sale!Next \/ UNCHANGED Sale!saleVars
        OBVIOUS
    <2>1. ASSUME UNCHANGED <<status, added>>,
                 \A p \in Payments :
                    /\ stk'[p] = "paid" <=> stk[p] = "paid"
                    /\ stk'[p] \in {"failed", "cancelled"}
                          <=> stk[p] \in {"failed", "cancelled"}
          PROVE  UNCHANGED Sale!saleVars
        BY <2>1 DEF Phases, Outcomes, Given, Sale!saleVars
    <2>2. ASSUME NEW h \in Requests,
                 \/ h \in Deliveries /\ CallbackStep(h)
                 \/ h \in Polls /\ PollStep(h)
          PROVE  Sale!Next \/ UNCHANGED Sale!saleVars
        <3>1. TypeOK'
            BY TypeStep DEF MoneyInv
        <3>2. QED
            BY <2>2, <3>1, RequestHandles, RequestSells
    <2>3. CASE \E h \in Deliveries : CallbackStep(h)
        BY <2>2, <2>3 DEF Requests
    <2>4. CASE \E h \in Polls : PollStep(h)
        BY <2>2, <2>4 DEF Requests
    <2>5. CASE \E p \in Payments : CommitPayment(p) \/ Resolve(p)
        BY <2>5, PaymentOpens
    <2>6. QED
        BY <2>1, <2>3, <2>4, <2>5, NextSteps
<1>3. QED
    BY <1>1, <1>2, SaleNext, MoneyInvariant, PTL DEF Spec, ImplementsSale, Sale!Spec

=============================================================================
