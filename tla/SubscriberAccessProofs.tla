---------------------- MODULE SubscriberAccessProofs ----------------------
(***************************************************************************)
(* What SubscriberAccess guarantees for every number of requests and every *)
(* bound: FreeRADIUS never loses the user, a request that runs alone       *)
(* leaves the tables as the credentials say, whatever happened before, and *)
(* requests never wait for each other in a circle.                         *)
(***************************************************************************)
EXTENDS SubscriberAccess, SequenceTheorems, TLAPS

Copying == {"tenant", "public", "commit"}

\* A request that is saving or copying credentials has loaded them, and one
\* that does not copy them has no transaction; set_user_expiration has seen
\* rows with a date.
ObjectsLoaded ==
    \A h \in Requests :
        /\ stage[h] \notin {"none", "expire"} => obj[h] \in Credentials
        /\ stage[h] \notin Copying \cup {"expire"} => tx[h] = NoTx
        /\ stage[h] = "expire" => /\ tx[h] = [NoTx EXCEPT !.seen = tx[h].seen]
                                  /\ Rejects(tx[h].seen) = {}
        /\ Idle(h) => stage[h] = "none"

\* A request answers last.
AnswersLast ==
    \A h \in Requests : ~Idle(h) => todo[h][Len(todo[h])] = "answer"

\* Every request in flight is the only one, or suspect says so.
SoloIsAlone ==
    /\ \A h \in solo : \A g \in Requests \ {h} : Idle(g)
    /\ \A h \in Requests : suspect \/ Idle(h) \/ h \in solo

\* The object of a request that has run alone is the row, until the request
\* is about to save it.
SoloIsCurrent ==
    \A h \in solo :
        /\ stage[h] \in {"none", "expire"} => obj[h] \in {NotLoaded, cred}
        /\ stage[h] \in Copying => obj[h] = cred

\* A transaction takes no user away without putting one back.
UserReplaced ==
    \A h \in Requests :
        /\ \A t \in Tables :
              Users(tx[h].del[t]) # {} => Users(tx[h].ins[t]) # {}
        /\ stage[h] = "public" /\ tx[h].waits => obj[h].enabled

\* Nothing is in the public table before it is in the tenant's.
TenantFirst ==
    /\ table["tenant"] = {} => table["public"] = {}
    /\ \A h \in Requests :
          stage[h] \in {"public", "commit"} => tx[h].ins["tenant"] # {}

HasReject(rs) == \E r \in rs : r.kind = "reject"

\* What the transaction of a request that has run alone will commit.
SoloCopies ==
    \A h \in solo :
        /\ ~tx[h].waits
        /\ stage[h] = "expire" => tx[h].seen = Dated(table["tenant"])
        /\ stage[h] \in {"public", "commit"} =>
              IF cred.enabled
              THEN /\ tx[h].del["tenant"] = table["tenant"]
                   /\ tx[h].ins["tenant"] = {UserRow(h)}
              ELSE HasReject(tx[h].ins["tenant"])
        /\ stage[h] = "commit" /\ ~tx[h].failed =>
              IF cred.enabled
              THEN /\ tx[h].del["public"] = table["public"]
                   /\ tx[h].ins["public"] = {UserRow(h)}
              ELSE /\ tx[h].del["public"] = {}
                   /\ \/ HasReject(table["public"])
                      \/ HasReject(tx[h].ins["public"])

Refuses(rs) == Users(rs) = {} \/ Rejects(rs) # {}

\* Without a copy under way the tables follow the credentials, and the copy
\* of disabled credentials that gives up leaves them so.
FollowsWhenSure ==
    ~suspect => /\ (\A h \in Requests : stage[h] \notin Copying) => InStep
                /\ Rejects(table["tenant"]) # {} => Refuses(table["public"])

IInv ==
    /\ TypeOK
    /\ ObjectsLoaded
    /\ AnswersLast
    /\ SoloIsAlone
    /\ SoloIsCurrent
    /\ UserReplaced
    /\ TenantFirst
    /\ SoloCopies
    /\ FollowsWhenSure

-----------------------------------------------------------------------------
(***************************************************************************)
(* Queues of statements.                                                   *)
(***************************************************************************)
\* A statement that is not the answer leaves the answer in the queue.
LEMMA TailAnswersLast ==
    ASSUME NEW s \in Seq(Statements), s # <<>>, s[Len(s)] = "answer",
           Head(s) # "answer"
    PROVE  /\ Tail(s) \in Seq(Statements)
           /\ Tail(s) # <<>>
           /\ Tail(s)[Len(Tail(s))] = "answer"
<1>1. Len(s) \in Nat \ {0} /\ Head(s) = s[1]
  BY EmptySeq
<1>2. Len(s) > 1
  BY <1>1
<1>3. /\ Tail(s) \in Seq(Statements)
      /\ Len(Tail(s)) = Len(s) - 1
      /\ \A i \in 1 .. Len(Tail(s)) : Tail(s)[i] = s[i + 1]
  BY HeadTailProperties
<1>4. Tail(s)[Len(Tail(s))] = s[Len(s)]
  BY <1>1, <1>2, <1>3
<1>5. Tail(s) # <<>>
  BY <1>1, <1>2, <1>3
<1>6. QED
  BY <1>3, <1>4, <1>5

LEMMA AppendAnswersLast ==
    ASSUME NEW s \in Seq(Statements)
    PROVE  LET q == s \o <<"answer">>
           IN  q \in Seq(Statements) /\ q # <<>> /\ q[Len(q)] = "answer"
<1> DEFINE q == s \o <<"answer">>
<1>1. <<"answer">> \in Seq(Statements) /\ Len(<<"answer">>) = 1
  BY DEF Statements
<1>2. /\ q \in Seq(Statements)
      /\ Len(q) = Len(s) + 1
      /\ q[Len(s) + 1] = <<"answer">>[1]
      /\ Len(s) \in Nat
  BY <1>1, ConcatProperties, LenProperties
<1>3. q # <<>>
  BY <1>2, EmptySeq
<1>4. QED
  BY <1>2, <1>3

\* Running a statement leaves nobody idle who was not.
LEMMA RunKeepsQueues ==
    ASSUME IInv, NEW h \in Requests,
           NEW label \in Statements \ {"answer"}, Run(h, label)
    PROVE  /\ todo' \in [Requests -> Seq(Statements)]
           /\ \A g \in Requests : Idle(g)' <=> Idle(g)
           /\ AnswersLast'
           /\ stage[h] = "none"
           /\ ~Idle(h)
<1>1. todo \in [Requests -> Seq(Statements)]
  BY DEF IInv, TypeOK
<1>2. ~Idle(h)
  BY DEF Run, Due, Statements
<1>3. /\ todo[h] \in Seq(Statements) /\ todo[h] # <<>>
      /\ Head(todo[h]) # "answer"
      /\ todo[h][Len(todo[h])] = "answer"
  BY <1>1, <1>2 DEF Run, Due, Idle, IInv, AnswersLast
<1>4. /\ Tail(todo[h]) \in Seq(Statements)
      /\ Tail(todo[h]) # <<>>
      /\ Tail(todo[h])[Len(Tail(todo[h]))] = "answer"
  BY <1>3, TailAnswersLast
<1>5. todo' = [todo EXCEPT ![h] = Tail(todo[h])]
  BY DEF Run
<1>6. todo' \in [Requests -> Seq(Statements)]
  BY <1>1, <1>4, <1>5
<1>7. \A g \in Requests : Idle(g)' <=> Idle(g)
  BY <1>1, <1>3, <1>4, <1>5 DEF Idle
<1>8. AnswersLast'
  BY <1>1, <1>4, <1>5 DEF AnswersLast, IInv, Idle
<1>9. QED
  BY <1>2, <1>6, <1>7, <1>8 DEF Run

-----------------------------------------------------------------------------
(***************************************************************************)
(* Requests in flight.                                                     *)
(***************************************************************************)
\* While a request is in flight no other one is solo.
LEMMA InFlight ==
    ASSUME IInv, NEW h \in Requests, ~Idle(h)
    PROVE  /\ solo \subseteq {h}
           /\ suspect \/ h \in solo
  BY DEF IInv, TypeOK, SoloIsAlone

\* A solo request meets no other transaction.
LEMMA SoloMeetsNobody ==
    ASSUME IInv, NEW h \in solo, NEW t \in Tables
    PROVE  Held(h, t) = {}
<1>1. ASSUME NEW g \in Requests \ {h}
      PROVE  tx[g].del[t] = {}
  <2>1. Idle(g)
    BY DEF IInv, SoloIsAlone
  <2>2. tx[g] = NoTx
    BY <2>1 DEF IInv, ObjectsLoaded, Copying
  <2>3. QED
    BY <2>2 DEF NoTx, Nothing
<1>2. QED
  BY <1>1 DEF Held

LEMMA InitInvariant == Init => IInv
<1> SUFFICES ASSUME Init
             PROVE  IInv
  OBVIOUS
<1> USE DEF Init
<1> DEFINE Copied(h) ==
      [t \in Tables |-> {[kind |-> "user", by |-> h, expires |-> Validity]}]
<1>0. \/ cred = NoCredentials /\ table = Nothing
      \/ /\ cred = [exists |-> TRUE, enabled |-> TRUE, expires |-> Validity]
         /\ \E h \in Requests : table = Copied(h)
  OBVIOUS
<1>1. cred \in Credentials /\ table \in [Tables -> SUBSET Row]
  <2>1. \A h \in Requests :
           [kind |-> "user", by |-> h, expires |-> Validity] \in Row
    BY AccessAssumption DEF Row
  <2>2. \A h \in Requests : Copied(h) \in [Tables -> SUBSET Row]
    BY <2>1
  <2>3. Nothing \in [Tables -> SUBSET Row]
    BY DEF Nothing
  <2>4. table \in [Tables -> SUBSET Row]
    <3> HIDE DEF Copied, Init
    <3> QED  BY <1>0, <2>2, <2>3
  <2>5. cred \in Credentials
    <3> HIDE DEF Copied, Init
    <3>1. /\ NoCredentials \in Credentials
          /\ [exists |-> TRUE, enabled |-> TRUE, expires |-> Validity]
                \in Credentials
      BY AccessAssumption DEF Credentials, NoCredentials
    <3>2. QED  BY <1>0, <3>1
  <2>6. QED
    BY <2>4, <2>5
<1>2. tx \in [Requests -> Transactions]
  BY DEF NoTx, Nothing, Transactions
<1>3. todo \in [Requests -> Seq(Statements)]
  <2>1. <<>> \in Seq(Statements)
    BY EmptySeq
  <2>2. QED
    BY <2>1
<1>4. TypeOK
  BY <1>1, <1>2, <1>3 DEF TypeOK, NoMem, Statuses, Stages
<1>5. /\ ObjectsLoaded
      /\ AnswersLast
      /\ SoloIsAlone
      /\ SoloIsCurrent
  BY DEF ObjectsLoaded, AnswersLast, SoloIsAlone, SoloIsCurrent, Idle, Copying
<1>6. UserReplaced
  BY DEF UserReplaced, Users, NoTx, Nothing
<1>7. TenantFirst
  BY DEF TenantFirst, Nothing, Tables
<1>8. SoloCopies
  BY DEF SoloCopies
<1>9. FollowsWhenSure
  <2>1. CASE cred = NoCredentials /\ table = Nothing
    BY <2>1 DEF FollowsWhenSure, InStep, Nothing, NoCredentials, Users,
                Rejects, Refuses, Tables
  <2>2. CASE /\ cred.enabled /\ cred.expires = Validity
             /\ \E h \in Requests : table = Copied(h)
    <3>1. PICK r \in Row :
             /\ r.kind = "user" /\ r.expires = cred.expires
             /\ \A t \in Tables : table[t] = {r}
      BY <2>2, AccessAssumption DEF Row
    <3>2. \A t \in Tables : r \in Users(table[t]) /\ Rejects(table[t]) = {}
      BY <3>1 DEF Users, Rejects
    <3>3. InStep
      BY <2>2, <3>1, <3>2 DEF InStep
    <3>4. QED
      BY <3>2, <3>3 DEF FollowsWhenSure, Tables
  <2>3. QED
    BY <1>0, <2>1, <2>2
<1>10. QED
  BY <1>4, <1>5, <1>6, <1>7, <1>8, <1>9 DEF IInv

-----------------------------------------------------------------------------
(***************************************************************************)
(* Requests begin and end.                                                 *)
(***************************************************************************)
Mem == [customer: Statuses, service: Statuses]

LEMMA BeginInvariant ==
    ASSUME IInv, NEW h \in Requests, NEW first \in {"none", "save", "insert"},
           NEW statements \in Seq(Statements), NEW statuses \in Mem,
           NEW object \in Credentials \cup {NotLoaded},
           first = "none" => object \in {NotLoaded, cred},
           first # "none" => object \in Credentials,
           Begin(h, first, statements, statuses, object)
    PROVE  IInv'
<1> DEFINE q == statements \o <<"answer">>
           alone == \A g \in Requests : Idle(g)
<1>1. q \in Seq(Statements) /\ q # <<>> /\ q[Len(q)] = "answer"
  BY AppendAnswersLast
<1> HIDE DEF q
<1>2. /\ Idle(h)
      /\ begun' = begun + 1
      /\ todo' = [todo EXCEPT ![h] = q]
      /\ stage' = [stage EXCEPT ![h] = first]
      /\ mem' = [mem EXCEPT ![h] = statuses]
      /\ obj' = [obj EXCEPT ![h] = object]
      /\ solo' = (IF alone THEN {h} ELSE {})
      /\ suspect' = (suspect \/ ~alone)
      /\ UNCHANGED <<rows, table, tx, session, now, faults>>
  BY DEF Begin, Goto, q
<1> HIDE DEF alone
<1>3. /\ stage[h] = "none"
      /\ tx[h] = NoTx
      /\ IInv
  BY <1>2 DEF IInv, ObjectsLoaded, Copying
<1>4. TypeOK'
  BY <1>1, <1>2, <1>3 DEF IInv, TypeOK, Mem, Stages, rows
<1>5. \A g \in Requests : g # h => /\ Idle(g)' <=> Idle(g)
                                   /\ stage'[g] = stage[g]
                                   /\ obj'[g] = obj[g]
  BY <1>2 DEF IInv, TypeOK, Idle
<1>6. /\ ~Idle(h)'
      /\ stage'[h] = first
      /\ obj'[h] = object
      /\ stage'[h] \notin Copying
  BY <1>1, <1>2 DEF IInv, TypeOK, Idle, Copying
<1>7. ObjectsLoaded'
  BY <1>2, <1>3, <1>5, <1>6 DEF IInv, ObjectsLoaded, rows, Copying
<1>8. AnswersLast'
  BY <1>1, <1>2, <1>5 DEF IInv, AnswersLast, TypeOK
<1>9. SoloIsAlone'
  BY <1>2, <1>5, <1>6 DEF IInv, SoloIsAlone, alone
<1>10. SoloIsCurrent'
  BY <1>2, <1>6 DEF SoloIsCurrent, rows
<1>11. UserReplaced'
  BY <1>2, <1>5, <1>6 DEF IInv, UserReplaced, Copying
<1>12. TenantFirst'
  BY <1>2, <1>5, <1>6 DEF IInv, TenantFirst, Copying
<1>13. SoloCopies'
  BY <1>2, <1>3, <1>6 DEF SoloCopies, Copying, NoTx
<1>14. FollowsWhenSure'
  <2> SUFFICES ASSUME ~suspect'
               PROVE  /\ InStep'
                      /\ Rejects(table'["tenant"]) # {} =>
                            Refuses(table'["public"])
    BY DEF FollowsWhenSure
  <2>1. alone /\ ~suspect
    BY <1>2 DEF IInv, TypeOK
  <2>2. \A g \in Requests : stage[g] \notin Copying
    BY <2>1 DEF alone, IInv, ObjectsLoaded, Copying
  <2>3. QED
    BY <1>2, <2>1, <2>2 DEF IInv, FollowsWhenSure, InStep, rows
<1>15. QED
  BY <1>4, <1>7, <1>8, <1>9, <1>10, <1>11, <1>12, <1>13, <1>14 DEF IInv

\* A request may end anywhere; if it ends while it copies, suspect says so.
LEMMA EndInvariant ==
    ASSUME IInv, NEW h \in Requests, End(h), faults' \in Nat,
           suspect' \in BOOLEAN, suspect => suspect',
           stage[h] \notin Copying \/ suspect',
           UNCHANGED <<rows, table, session, now, begun>>
    PROVE  IInv'
<1>1. /\ todo' = [todo EXCEPT ![h] = <<>>]
      /\ stage' = [stage EXCEPT ![h] = "none"]
      /\ mem' = [mem EXCEPT ![h] = NoMem]
      /\ obj' = [obj EXCEPT ![h] = NotLoaded]
      /\ tx' = [tx EXCEPT ![h] = NoTx]
      /\ solo' = solo \ {h}
      /\ UNCHANGED <<customer, service, cred, table>>
  BY DEF End, rows
<1>2. <<>> \in Seq(Statements) /\ NoTx \in Transactions /\ NoMem \in Mem
  BY EmptySeq DEF NoTx, Nothing, Transactions, NoMem, Mem, Statuses
<1>3. TypeOK'
  BY <1>1, <1>2 DEF IInv, TypeOK, Mem, Stages
<1>4. \A g \in Requests : g # h => /\ Idle(g)' <=> Idle(g)
                                   /\ stage'[g] = stage[g]
                                   /\ obj'[g] = obj[g]
                                   /\ tx'[g] = tx[g]
  BY <1>1 DEF IInv, TypeOK, Idle
<1>5. /\ Idle(h)'
      /\ stage'[h] = "none"
      /\ tx'[h] = NoTx
  BY <1>1 DEF IInv, TypeOK, Idle
<1>6. ObjectsLoaded'
  BY <1>4, <1>5 DEF IInv, ObjectsLoaded, Copying
<1>7. AnswersLast'
  BY <1>1, <1>4, <1>5 DEF IInv, AnswersLast, TypeOK
<1>8. SoloIsAlone'
  BY <1>1, <1>4, <1>5 DEF IInv, SoloIsAlone
<1>9. SoloIsCurrent'
  BY <1>1, <1>4 DEF IInv, SoloIsCurrent, TypeOK
<1>10. UserReplaced'
  BY <1>4, <1>5 DEF IInv, UserReplaced, NoTx, Nothing, Users
<1>11. TenantFirst'
  BY <1>1, <1>4, <1>5 DEF IInv, TenantFirst
<1>12. SoloCopies'
  BY <1>1, <1>4 DEF IInv, SoloCopies, TypeOK, UserRow
<1>13. FollowsWhenSure'
  BY <1>1, <1>4, <1>5 DEF IInv, FollowsWhenSure, InStep
<1>14. QED
  BY <1>3, <1>6, <1>7, <1>8, <1>9, <1>10, <1>11, <1>12, <1>13 DEF IInv

\* Steps that touch neither the credentials nor the copies.
LEMMA FrameInvariant ==
    ASSUME IInv, TypeOK', AnswersLast',
           \A g \in Requests : Idle(g)' <=> Idle(g),
           UNCHANGED <<cred, table, stage, obj, tx, solo, suspect>>
    PROVE  IInv'
<1>1. ObjectsLoaded' /\ SoloIsAlone' /\ SoloIsCurrent'
  BY DEF IInv, ObjectsLoaded, SoloIsAlone, SoloIsCurrent
<1>2. UserReplaced' /\ TenantFirst'
  BY DEF IInv, UserReplaced, TenantFirst
<1>3. SoloCopies'
  BY DEF IInv, SoloCopies, UserRow
<1>4. FollowsWhenSure'
  BY DEF IInv, FollowsWhenSure, InStep
<1>5. QED
  BY <1>1, <1>2, <1>3, <1>4 DEF IInv

LEMMA EnabledCredentials ==
    ASSUME NEW c \in Credentials, NEW e \in Nat
    PROVE  Enabled(c, e) \in Credentials /\ Disabled(c) \in Credentials
<1>1. Date(e) \in Nat
  BY AccessAssumption DEF Date
<1>2. QED
  BY <1>1 DEF Enabled, Disabled, Credentials

LEMMA BeginSomeInvariant ==
    ASSUME IInv, NEW h \in Requests, BeginSome(h)
    PROVE  IInv'
<1> DEFINE S == Seq(Statements)
<1>a. /\ <<>> \in S /\ <<"service", "service_signal">> \in S
      /\ <<"customer", "customer_signal">> \in S
      /\ <<"extend", "expire", "reopen", "service_signal">> \in S
      /\ <<"suspend_services">> \in S /\ <<"customer_signal">> \in S
      /\ <<"kick">> \in S /\ <<"sync", "sync">> \in S
  BY EmptySeq DEF Statements
<1>b. /\ cred \in Credentials /\ now \in Nat
      /\ cred.expires \in Nat
      /\ service \in Statuses /\ customer \in Statuses
      /\ Enabled(cred, now + Validity) \in Credentials
      /\ Enabled(cred, cred.expires) \in Credentials
      /\ Disabled(cred) \in Credentials
  <2>1. /\ cred \in Credentials /\ now \in Nat
        /\ service \in Statuses /\ customer \in Statuses
    BY DEF IInv, TypeOK
  <2>2. cred.expires \in Nat /\ now + Validity \in Nat
    BY <2>1, AccessAssumption DEF Credentials
  <2>3. QED
    BY <2>1, <2>2, EnabledCredentials
<1>1. NoMem \in Mem /\ \A st \in Statuses :
         [NoMem EXCEPT !.service = st] \in Mem /\
         [NoMem EXCEPT !.customer = st] \in Mem
  BY DEF NoMem, Mem, Statuses
<1>2. CASE Activate(h)
  <2> DEFINE more == IF customer = "PENDING"
                     THEN <<"customer", "customer_signal">> ELSE <<>>
             q == <<"service", "service_signal">> \o more
             statuses == [customer |-> "ACTIVE", service |-> "ACTIVE"]
             first == IF cred.exists THEN "save" ELSE "insert"
  <2>1. more \in Seq(Statements)
    BY <1>a
  <2>2. <<"service", "service_signal">> \in Seq(Statements)
    BY <1>a
  <2>3. q \in Seq(Statements)
    BY <2>1, <2>2, ConcatProperties
  <2>4. statuses \in Mem /\ first \in {"save", "insert"}
    BY DEF Mem, Statuses
  <2>5. Begin(h, first, q, statuses, Enabled(cred, now + Validity))
    BY <1>2 DEF Activate
  <2> HIDE DEF q, statuses, first
  <2>6. QED
    BY <1>b, <2>3, <2>4, <2>5, BeginInvariant
<1>3. CASE \E st \in Statuses : SaveService(h, st)
  <2>1. PICK st \in Statuses : SaveService(h, st)
    BY <1>3
  <2> DEFINE q == <<"service", "service_signal">>
  <2>2. q \in Seq(Statements)
    BY <1>a
  <2>3. Begin(h, "none", q, [NoMem EXCEPT !.service = st], NotLoaded)
    BY <2>1 DEF SaveService
  <2> HIDE DEF q
  <2>4. QED
    BY <1>1, <2>2, <2>3, BeginInvariant
<1>4. CASE \E planChanges \in BOOLEAN : Extend(h, planChanges)
  <2>1. PICK planChanges \in BOOLEAN : Extend(h, planChanges)
    BY <1>4
  <2> DEFINE s == IF planChanges THEN <<"service", "service_signal">> ELSE <<>>
             r == <<"extend", "expire", "reopen", "service_signal">>
             q == s \o r
  <2>2. s \in Seq(Statements) /\ r \in Seq(Statements)
    BY <1>a
  <2>3. q \in Seq(Statements)
    BY <2>2, ConcatProperties
  <2>4. Begin(h, "none", q, [NoMem EXCEPT !.service = service], NotLoaded)
    BY <2>1 DEF Extend
  <2> HIDE DEF q
  <2>5. QED
    BY <1>b, <1>1, <2>3, <2>4, BeginInvariant
<1>5. CASE \E st \in Statuses, leaves \in BOOLEAN : SaveCustomer(h, st, leaves)
  <2>1. PICK st \in Statuses, leaves \in BOOLEAN : SaveCustomer(h, st, leaves)
    BY <1>5
  <2> DEFINE s == IF leaves THEN <<"suspend_services">> ELSE <<>>
             r == <<"customer", "customer_signal">>
             q == s \o r
  <2>2. s \in Seq(Statements) /\ r \in Seq(Statements)
    BY <1>a
  <2>3. q \in Seq(Statements)
    BY <2>2, ConcatProperties
  <2>4. Begin(h, "none", q, [NoMem EXCEPT !.customer = st], cred)
    BY <2>1 DEF SaveCustomer
  <2> HIDE DEF q
  <2>5. QED
    BY <1>b, <1>1, <2>3, <2>4, BeginInvariant
<1>6. CASE Payment(h)
  <2> DEFINE q == <<"customer_signal">>
  <2>1. q \in Seq(Statements)
    BY <1>a
  <2>2. Begin(h, "none", q, [NoMem EXCEPT !.customer = customer], NotLoaded)
    BY <1>6 DEF Payment
  <2> HIDE DEF q
  <2>3. QED
    BY <1>b, <1>1, <2>1, <2>2, BeginInvariant
<1>7. CASE SwitchOn(h)
  <2>1. Begin(h, "save", <<>>, NoMem, Enabled(cred, cred.expires))
    BY <1>7 DEF SwitchOn
  <2>2. QED
    BY <1>b, <1>1, <1>a, <2>1, BeginInvariant
<1>8. CASE \E kicks \in BOOLEAN : SwitchOff(h, kicks)
  <2>1. PICK kicks \in BOOLEAN : SwitchOff(h, kicks)
    BY <1>8
  <2> DEFINE q == IF kicks THEN <<"kick">> ELSE <<>>
  <2>2. q \in Seq(Statements)
    BY <1>a
  <2>3. Begin(h, "save", q, NoMem, Disabled(cred))
    BY <2>1 DEF SwitchOff
  <2> HIDE DEF q
  <2>4. QED
    BY <1>b, <1>1, <2>2, <2>3, BeginInvariant
<1>9. CASE Renew(h)
  <2> DEFINE q == <<"sync", "sync">>
  <2>1. q \in Seq(Statements)
    BY <1>a
  <2>2. Begin(h, "save", q, NoMem, Enabled(cred, now + Validity))
    BY <1>9 DEF Renew
  <2> HIDE DEF q
  <2>3. QED
    BY <1>b, <1>1, <2>1, <2>2, BeginInvariant
<1>10. CASE Resync(h)
  <2> DEFINE q == <<"sync", "sync">>
  <2>1. q \in Seq(Statements)
    BY <1>a
  <2>2. Begin(h, "none", q, NoMem, cred)
    BY <1>10 DEF Resync
  <2> HIDE DEF q
  <2>3. QED
    BY <1>b, <1>1, <2>1, <2>2, BeginInvariant
<1>11. QED
  BY <1>2, <1>3, <1>4, <1>5, <1>6, <1>7, <1>8, <1>9, <1>10 DEF BeginSome

-----------------------------------------------------------------------------
(***************************************************************************)
(* Steps that load or save the credentials.                                *)
(***************************************************************************)
LEMMA LoadInvariant ==
    ASSUME IInv, NEW h \in Requests,
           NEW label \in Statements \ {"answer"}, Run(h, label),
           NEW object \in Credentials, NEW st \in {"none", "save", "tenant"},
           st # "save" => object = Object(h),
           obj' = [obj EXCEPT ![h] = object], Goto(h, st),
           UNCHANGED <<rows, table, mem, tx, session, now, faults, history>>
    PROVE  IInv'
<1>1. /\ todo' \in [Requests -> Seq(Statements)]
      /\ \A g \in Requests : Idle(g)' <=> Idle(g)
      /\ AnswersLast'
      /\ stage[h] = "none"
      /\ ~Idle(h)
  BY RunKeepsQueues
<1>2. /\ UNCHANGED <<customer, service, cred, table, mem, tx, session, now>>
      /\ UNCHANGED <<faults, begun, solo, suspect>>
      /\ stage' = [stage EXCEPT ![h] = st]
  BY DEF rows, history, Goto
<1>3. /\ TypeOK /\ ObjectsLoaded /\ SoloIsAlone /\ SoloIsCurrent
      /\ UserReplaced /\ TenantFirst /\ SoloCopies /\ FollowsWhenSure
  BY DEF IInv
<1>4. TypeOK'
  BY <1>1, <1>2, <1>3 DEF TypeOK, Stages
<1>5. /\ stage'[h] = st /\ obj'[h] = object /\ tx[h] = NoTx
      /\ \A g \in Requests \ {h} : /\ stage'[g] = stage[g]
                                   /\ obj'[g] = obj[g]
  BY <1>1, <1>2, <1>3 DEF TypeOK, ObjectsLoaded, Copying
<1>6. ObjectsLoaded'
  BY <1>1, <1>2, <1>3, <1>5 DEF ObjectsLoaded, Copying
<1>7. SoloIsAlone'
  BY <1>1, <1>2, <1>3 DEF SoloIsAlone
<1>8. SoloIsCurrent'
  BY <1>1, <1>2, <1>3, <1>5 DEF SoloIsCurrent, Object, Copying, TypeOK
<1>9. UserReplaced'
  BY <1>2, <1>3, <1>5 DEF UserReplaced
<1>10. TenantFirst'
  BY <1>2, <1>3, <1>5 DEF TenantFirst
<1>11. SoloCopies'
  <2>1. solo \subseteq {h}
    BY <1>1, InFlight
  <2>2. ~tx'[h].waits /\ stage'[h] \notin {"expire", "public", "commit"}
    BY <1>2, <1>5 DEF NoTx
  <2>3. QED
    BY <1>2, <2>1, <2>2 DEF SoloCopies
<1>12. FollowsWhenSure'
  BY <1>1, <1>2, <1>3, <1>5 DEF FollowsWhenSure, InStep, Copying
<1>13. QED
  BY <1>1, <1>4, <1>6, <1>7, <1>8, <1>9, <1>10, <1>11, <1>12 DEF IInv

LEMMA SaveInvariant ==
    ASSUME IInv, NEW h \in Requests, stage[h] \in {"save", "insert"},
           cred' = obj[h], Goto(h, "tenant"),
           UNCHANGED <<customer, service, table, todo, mem, obj, tx, session,
                       now, faults, history>>
    PROVE  IInv'
<1>1. /\ UNCHANGED <<begun, solo, suspect>>
      /\ stage' = [stage EXCEPT ![h] = "tenant"]
  BY DEF history, Goto
<1>2. /\ TypeOK /\ ObjectsLoaded /\ AnswersLast /\ SoloIsAlone
      /\ SoloIsCurrent /\ UserReplaced /\ TenantFirst /\ SoloCopies
      /\ FollowsWhenSure
  BY DEF IInv
<1>3. obj[h] \in Credentials /\ ~Idle(h) /\ tx[h] = NoTx
  BY <1>2 DEF ObjectsLoaded, Copying
<1>4. solo \subseteq {h}
  BY <1>3, InFlight
<1>5. TypeOK'
  BY <1>1, <1>2, <1>3 DEF TypeOK, Stages
<1>6. /\ stage'[h] = "tenant"
      /\ \A g \in Requests \ {h} : stage'[g] = stage[g]
      /\ \A g \in Requests : Idle(g)' <=> Idle(g)
  BY <1>1, <1>2 DEF TypeOK, Idle
<1>7. ObjectsLoaded'
  BY <1>2, <1>3, <1>6 DEF ObjectsLoaded, Copying
<1>8. AnswersLast' /\ SoloIsAlone'
  BY <1>1, <1>2, <1>6 DEF AnswersLast, SoloIsAlone
<1>9. SoloIsCurrent'
  BY <1>1, <1>4, <1>6 DEF SoloIsCurrent
<1>10. UserReplaced' /\ TenantFirst'
  BY <1>2, <1>6 DEF UserReplaced, TenantFirst
<1>11. SoloCopies'
  BY <1>1, <1>3, <1>4, <1>6 DEF SoloCopies, NoTx
<1>12. FollowsWhenSure'
  BY <1>1, <1>2, <1>6 DEF FollowsWhenSure, Copying
<1>13. QED
  BY <1>5, <1>7, <1>8, <1>9, <1>10, <1>11, <1>12 DEF IInv

\* What a signal makes of a credentials object is one again.
LEMMA SignalCredentials ==
    ASSUME IInv, NEW h \in Requests
    PROVE  /\ Object(h) \in Credentials
           /\ \A st \in Statuses :
                 /\ AfterService(Object(h), st) \in Credentials
                 /\ AfterCustomer(Object(h), st) \in Credentials
<1>1. Object(h) \in Credentials
  BY DEF Object, IInv, TypeOK
<1>2. Object(h).expires \in Nat /\ now + Validity \in Nat
  BY <1>1, AccessAssumption DEF Credentials, IInv, TypeOK
<1>3. /\ Enabled(Object(h), now + Validity) \in Credentials
      /\ Enabled(Object(h), Object(h).expires) \in Credentials
      /\ Disabled(Object(h)) \in Credentials
  BY <1>1, <1>2, EnabledCredentials
<1>4. QED
  BY <1>1, <1>3 DEF AfterService, AfterCustomer

-----------------------------------------------------------------------------
(***************************************************************************)
(* Steps of a copy.                                                        *)
(***************************************************************************)
\* What a step that stages x and goes to st has to see to.
LEMMA StageInvariant ==
    ASSUME IInv, NEW h \in Requests, stage[h] \in Copying,
           NEW x \in Transactions, NEW st \in Copying \cup {"none"},
           tx' = [tx EXCEPT ![h] = x], stage' = [stage EXCEPT ![h] = st],
           UNCHANGED <<rows, table, todo, mem, obj, session, now, history>>,
           faults' \in Nat,
           st = "none" => x = NoTx /\ (suspect \/ InStep),
           \A t \in Tables : Users(x.del[t]) # {} => Users(x.ins[t]) # {},
           st = "public" /\ x.waits => obj[h].enabled,
           st \in {"public", "commit"} => x.ins["tenant"] # {},
           h \in solo =>
              /\ ~x.waits
              /\ st \in {"public", "commit"} =>
                    IF cred.enabled
                    THEN /\ x.del["tenant"] = table["tenant"]
                         /\ x.ins["tenant"] = {UserRow(h)}
                    ELSE HasReject(x.ins["tenant"])
              /\ st = "commit" /\ ~x.failed =>
                    IF cred.enabled
                    THEN /\ x.del["public"] = table["public"]
                         /\ x.ins["public"] = {UserRow(h)}
                    ELSE /\ x.del["public"] = {}
                         /\ \/ HasReject(table["public"])
                            \/ HasReject(x.ins["public"])
    PROVE  IInv'
<1>1. UNCHANGED <<customer, service, cred, begun, solo, suspect>>
  BY DEF rows, history
<1>2. /\ TypeOK /\ ObjectsLoaded /\ AnswersLast /\ SoloIsAlone
      /\ SoloIsCurrent /\ UserReplaced /\ TenantFirst /\ SoloCopies
      /\ FollowsWhenSure
  BY DEF IInv
<1>3. obj[h] \in Credentials /\ ~Idle(h)
  BY <1>2 DEF ObjectsLoaded, Copying
<1>4. solo \subseteq {h} /\ (suspect \/ h \in solo)
  BY <1>3, InFlight
<1>5. TypeOK'
  BY <1>1, <1>2 DEF TypeOK, Stages, Copying
<1>6. /\ stage'[h] = st /\ tx'[h] = x
      /\ \A g \in Requests \ {h} : stage'[g] = stage[g] /\ tx'[g] = tx[g]
      /\ \A g \in Requests : Idle(g)' <=> Idle(g)
  BY <1>2 DEF TypeOK, Idle
<1>7. ObjectsLoaded'
  BY <1>2, <1>3, <1>6 DEF ObjectsLoaded, Copying
<1>8. AnswersLast' /\ SoloIsAlone'
  BY <1>1, <1>2, <1>6 DEF AnswersLast, SoloIsAlone
<1>9. SoloIsCurrent'
  BY <1>1, <1>2, <1>4, <1>6 DEF SoloIsCurrent, Copying
<1>10. UserReplaced'
  <2>1. ASSUME NEW g \in Requests, NEW t \in Tables
        PROVE  Users(tx'[g].del[t]) # {} => Users(tx'[g].ins[t]) # {}
    <3>1. CASE g = h
      BY <1>6, <3>1
    <3>2. CASE g # h
      BY <1>2, <1>6, <3>2 DEF UserReplaced
    <3>3. QED
      BY <3>1, <3>2
  <2>2. ASSUME NEW g \in Requests
        PROVE  stage'[g] = "public" /\ tx'[g].waits => obj'[g].enabled
    BY <1>2, <1>6 DEF UserReplaced
  <2>3. QED
    BY <2>1, <2>2 DEF UserReplaced
<1>11. TenantFirst'
  BY <1>2, <1>6 DEF TenantFirst
<1>12. SoloCopies'
  BY <1>1, <1>4, <1>6 DEF SoloCopies, UserRow, Copying
<1>13. FollowsWhenSure'
  <2>1. CASE st = "none"
    BY <1>1, <1>2, <2>1 DEF FollowsWhenSure, InStep
  <2>2. CASE st # "none"
    BY <1>1, <1>2, <1>6, <2>2 DEF FollowsWhenSure, Copying
  <2>3. QED
    BY <2>1, <2>2
<1>14. QED
  BY <1>5, <1>7, <1>8, <1>9, <1>10, <1>11, <1>12, <1>13 DEF IInv

\* The rows a copy writes.
LEMMA CopiedRows ==
    ASSUME IInv, NEW h \in Requests, stage[h] \in Copying
    PROVE  /\ UserRow(h) \in Row /\ Users({UserRow(h)}) # {}
           /\ RejectRow(h) \in Row /\ HasReject({RejectRow(h)})
<1>1. obj[h] \in Credentials
  BY DEF IInv, ObjectsLoaded, Copying
<1>2. UserRow(h) \in Row /\ RejectRow(h) \in Row
  BY <1>1 DEF UserRow, RejectRow, Row, Credentials
<1>3. UserRow(h).kind = "user" /\ RejectRow(h).kind = "reject"
  BY DEF UserRow, RejectRow
<1>4. QED
  BY <1>2, <1>3 DEF Users, HasReject

\* The rows a statement finds; a solo request finds all that it aims at.
LEMMA FoundRows ==
    ASSUME IInv, NEW h \in Requests, NEW t \in Tables
    PROVE  /\ Found(h, t) \in SUBSET Row
           /\ h \in solo => Found(h, t) = Aimed(h, t)
<1>1. table[t] \in SUBSET Row
  BY DEF IInv, TypeOK
<1>2. Found(h, t) \in SUBSET Row
  BY <1>1 DEF Found
<1>3. Aimed(h, t) \subseteq table[t]
  BY DEF Aimed, Rejects
<1>4. h \in solo => Found(h, t) = Aimed(h, t)
  BY <1>3 DEF Found, Sees, IInv, SoloCopies
<1>5. QED
  BY <1>2, <1>4

\* Staging keeps the rest of the transaction.
LEMMA StagedTransaction ==
    ASSUME IInv, NEW h \in Requests, NEW t \in Tables,
           NEW del \in SUBSET Row, NEW ins \in SUBSET Row,
           NEW x, x = Staged(h, t, del, ins)
    PROVE  /\ x \in Transactions
           /\ ~x.waits
           /\ x.failed = tx[h].failed
           /\ x.del[t] = del /\ x.ins[t] = ins
           /\ \A u \in Tables \ {t} : /\ x.del[u] = tx[h].del[u]
                                     /\ x.ins[u] = tx[h].ins[u]
<1> DEFINE y == tx[h]
<1>1. y \in Transactions
  BY DEF IInv, TypeOK
<1> HIDE DEF y
<1>2. x = [y EXCEPT !.waits = FALSE, !.seen = {},
                    !.del = [y.del EXCEPT ![t] = del],
                    !.ins = [y.ins EXCEPT ![t] = ins]]
  BY <1>1 DEF Staged, y, Transactions
<1>3. /\ [y.del EXCEPT ![t] = del] \in [Tables -> SUBSET Row]
      /\ [y.ins EXCEPT ![t] = ins] \in [Tables -> SUBSET Row]
      /\ y.del \in [Tables -> SUBSET Row] /\ y.ins \in [Tables -> SUBSET Row]
  BY <1>1 DEF Transactions
<1>4. x \in Transactions
  BY <1>1, <1>2, <1>3 DEF Transactions
<1>5. QED
  BY <1>1, <1>2, <1>3, <1>4 DEF Transactions, y

LEMMA WaitInvariant ==
    ASSUME IInv, NEW h \in Requests, NEW t \in Tables, WaitForRows(h, t)
    PROVE  IInv'
<1> DEFINE x == [tx[h] EXCEPT !.waits = TRUE, !.seen = Aimed(h, t)]
<1>1. /\ stage[h] = t /\ Aimed(h, t) \cap Held(h, t) # {}
      /\ tx' = [tx EXCEPT ![h] = x]
      /\ UNCHANGED <<rows, table, todo, stage, mem, obj, session, now,
                     faults, history>>
  BY DEF WaitForRows
<1>2. stage[h] \in Copying /\ stage[h] \notin {"commit", "none"}
      /\ stage' = [stage EXCEPT ![h] = stage[h]]
  BY <1>1 DEF IInv, TypeOK, Tables, Copying
<1>3. Aimed(h, t) \in SUBSET Row /\ tx[h] \in Transactions /\ faults \in Nat
  BY DEF IInv, TypeOK, Aimed, Users, Rejects
<1>4. /\ x \in Transactions
      /\ x.del = tx[h].del /\ x.ins = tx[h].ins
  BY <1>3 DEF Transactions
<1>5. h \notin solo
  BY <1>1, SoloMeetsNobody
<1>6. stage[h] = "public" => obj[h].enabled
  BY <1>1 DEF Aimed, Tables
<1>7. /\ \A u \in Tables : Users(tx[h].del[u]) # {} => Users(tx[h].ins[u]) # {}
      /\ stage[h] = "public" => tx[h].ins["tenant"] # {}
  BY DEF IInv, UserReplaced, TenantFirst
<1>8. /\ \A u \in Tables : Users(x.del[u]) # {} => Users(x.ins[u]) # {}
      /\ stage[h] \in {"public", "commit"} => x.ins["tenant"] # {}
  BY <1>2, <1>4, <1>7
<1> DEFINE st == stage[h]
<1>9. /\ st \in Copying /\ st \in Copying \cup {"none"} /\ st # "none"
      /\ st # "commit"
      /\ stage' = [stage EXCEPT ![h] = st]
      /\ st = "public" /\ x.waits => obj[h].enabled
      /\ st \in {"public", "commit"} => x.ins["tenant"] # {}
  BY <1>2, <1>6, <1>8
<1>10. /\ tx' = [tx EXCEPT ![h] = x] /\ stage[h] \in Copying
       /\ UNCHANGED <<rows, table, todo, mem, obj, session, now, history>>
       /\ faults' \in Nat
       /\ x \in Transactions
       /\ \A u \in Tables : Users(x.del[u]) # {} => Users(x.ins[u]) # {}
  BY <1>1, <1>2, <1>3, <1>4, <1>8
<1> HIDE DEF x, st
<1>11. QED
  BY <1>5, <1>9, <1>10, StageInvariant

\* A request at the start of its copy has staged nothing.
LEMMA StagedFirst ==
    ASSUME IInv, NEW h \in Requests, NEW ins \in SUBSET Row,
           Runs(h, "tenant"),
           Users(Found(h, "tenant")) # {} => Users(ins) # {},
           ins # {},
           h \in solo => IF cred.enabled
                         THEN /\ Found(h, "tenant") = table["tenant"]
                              /\ ins = {UserRow(h)}
                         ELSE HasReject(ins),
           tx' = [tx EXCEPT ![h] =
                    Staged(h, "tenant", Found(h, "tenant"), ins)],
           Goto(h, "public"),
           UNCHANGED <<rows, table, todo, mem, obj, session, now, faults,
                       history>>
    PROVE  IInv'
<1> DEFINE x == Staged(h, "tenant", Found(h, "tenant"), ins)
<1>1. stage[h] = "tenant" /\ stage[h] \in Copying
      /\ stage' = [stage EXCEPT ![h] = "public"]
  BY DEF Runs, Copying, Goto
<1>2. "tenant" \in Tables /\ "public" \in Tables
      /\ "public" \in Copying /\ faults \in Nat
  BY DEF Tables, Copying, IInv, TypeOK
<1>3. /\ x \in Transactions
      /\ ~x.waits
      /\ x.del["tenant"] = Found(h, "tenant") /\ x.ins["tenant"] = ins
      /\ x.del["public"] = tx[h].del["public"]
      /\ x.ins["public"] = tx[h].ins["public"]
  BY <1>2, FoundRows, StagedTransaction
<1>4. Users(tx[h].del["public"]) # {} => Users(tx[h].ins["public"]) # {}
  BY <1>2 DEF IInv, UserReplaced
<1> HIDE DEF x
<1>5. \A u \in Tables : Users(x.del[u]) # {} => Users(x.ins[u]) # {}
  BY <1>3, <1>4 DEF Tables
<1>6. tx' = [tx EXCEPT ![h] = x]
  BY DEF x
<1>7. /\ x.ins["tenant"] # {}
      /\ h \in solo => IF cred.enabled
                       THEN /\ x.del["tenant"] = table["tenant"]
                            /\ x.ins["tenant"] = {UserRow(h)}
                       ELSE HasReject(x.ins["tenant"])
  BY <1>3
<1>8. faults' \in Nat
  BY <1>2
<1>9. QED
  BY <1>1, <1>2, <1>3, <1>5, <1>6, <1>7, <1>8, StageInvariant

LEMMA CreateInvariant ==
    ASSUME IInv, NEW h \in Requests, CreateInTenant(h)
    PROVE  IInv'
<1>1. /\ Runs(h, "tenant") /\ stage[h] = "tenant" /\ obj[h].enabled
      /\ "tenant" \in Tables
  BY DEF CreateInTenant, Runs, Tables
<1>2. UserRow(h) \in Row /\ Users({UserRow(h)}) # {}
  BY <1>1, CopiedRows DEF Copying
<1>3. h \in solo => /\ obj[h] = cred
                    /\ Found(h, "tenant") = table["tenant"]
  BY <1>1, FoundRows DEF IInv, SoloIsCurrent, Copying, Aimed
<1>4. /\ tx' = [tx EXCEPT ![h] = Staged(h, "tenant", Found(h, "tenant"),
                                        {UserRow(h)})]
      /\ Goto(h, "public")
      /\ UNCHANGED <<rows, table, todo, mem, obj, session, now, faults,
                     history>>
  BY DEF CreateInTenant
<1>5. h \in solo => /\ cred.enabled
                    /\ Found(h, "tenant") = table["tenant"]
  BY <1>1, <1>3
<1>6. {UserRow(h)} \in SUBSET Row
  BY <1>2
<1>7. QED
  BY <1>1, <1>2, <1>4, <1>5, <1>6, StagedFirst

LEMMA RejectInvariant ==
    ASSUME IInv, NEW h \in Requests, RejectInTenant(h)
    PROVE  IInv'
<1> DEFINE locked == Found(h, "tenant")
           ins == IF locked = {} THEN {RejectRow(h)} ELSE locked
<1>1. /\ Runs(h, "tenant") /\ stage[h] = "tenant" /\ ~obj[h].enabled
      /\ "tenant" \in Tables
  BY DEF RejectInTenant, Runs, Tables
<1>2. RejectRow(h) \in Row /\ HasReject({RejectRow(h)})
  BY <1>1, CopiedRows DEF Copying
<1>3. locked \in SUBSET Row
  BY <1>1, FoundRows
<1>4. h \in solo => obj[h] = cred /\ locked = Rejects(table["tenant"])
  BY <1>1, FoundRows DEF IInv, SoloIsCurrent, Copying, Aimed
<1>5. h \in solo => ~cred.enabled /\ HasReject(ins)
  BY <1>1, <1>2, <1>4 DEF HasReject, Rejects
<1>6. ins \in SUBSET Row /\ ins # {}
  BY <1>2, <1>3
<1>7. Users(locked) # {} => Users(ins) # {}
  BY DEF Users
<1>8. /\ tx' = [tx EXCEPT ![h] = Staged(h, "tenant", locked, ins)]
      /\ Goto(h, "public")
      /\ UNCHANGED <<rows, table, todo, mem, obj, session, now, faults,
                     history>>
  BY DEF RejectInTenant
<1> HIDE DEF locked, ins
<1>9. QED
  BY <1>1, <1>5, <1>6, <1>7, <1>8, StagedFirst DEF locked

LEMMA SkipInvariant ==
    ASSUME IInv, NEW h \in Requests, SkipCopy(h)
    PROVE  IInv'
<1>1. /\ stage[h] = "tenant" /\ stage[h] \in Copying /\ ~obj[h].enabled
      /\ "tenant" \in Tables
      /\ \/ table["tenant"] = {}
         \/ ~AtMostOne(Found(h, "tenant"))
      /\ tx' = [tx EXCEPT ![h] = NoTx]
      /\ stage' = [stage EXCEPT ![h] = "none"]
      /\ UNCHANGED <<rows, table, todo, mem, obj, session, now, faults,
                     history>>
  BY DEF SkipCopy, Runs, Tables, Copying, Goto
<1>2. /\ NoTx \in Transactions /\ ~NoTx.waits
      /\ \A t \in Tables : NoTx.del[t] = {}
  BY DEF NoTx, Nothing, Transactions
<1>3. suspect \/ InStep
  <2> SUFFICES ASSUME ~suspect
               PROVE  InStep
    BY DEF IInv, TypeOK
  <2>1. h \in solo /\ ~Idle(h)
    BY <1>1, InFlight DEF IInv, ObjectsLoaded
  <2>2. ~cred.enabled /\ Found(h, "tenant") = Rejects(table["tenant"])
    BY <1>1, <2>1, FoundRows DEF IInv, SoloIsCurrent, Copying, Aimed
  <2>3. CASE table["tenant"] = {}
    <3>1. table["public"] = {}
      BY <2>3 DEF IInv, TenantFirst
    <3>2. QED
      BY <2>2, <2>3, <3>1 DEF InStep, Users, Tables
  <2>4. CASE ~AtMostOne(Found(h, "tenant"))
    <3>1. Rejects(table["tenant"]) # {}
      BY <2>2, <2>4 DEF AtMostOne
    <3>2. Refuses(table["public"])
      BY <3>1 DEF IInv, FollowsWhenSure
    <3>3. QED
      BY <2>2, <3>1, <3>2 DEF InStep, Refuses, Tables
  <2>5. QED
    BY <1>1, <2>3, <2>4
<1>4. faults \in Nat /\ Users({}) = {}
  BY DEF IInv, TypeOK, Users
<1>5. QED
  BY <1>1, <1>2, <1>3, <1>4, StageInvariant

\* The public half of a copy: it succeeds, or its savepoint is rolled back.
LEMMA StagedSecond ==
    ASSUME IInv, NEW h \in Requests, Runs(h, "public"),
           NEW del \in SUBSET Row, NEW ins \in SUBSET Row,
           NEW kick \in BOOLEAN, NEW failed \in BOOLEAN,
           NEW x, x = [Staged(h, "public", del, ins)
                         EXCEPT !.failed = failed, !.kick = kick],
           Users(del) # {} => Users(ins) # {},
           h \in solo /\ ~failed =>
              IF cred.enabled
              THEN del = table["public"] /\ ins = {UserRow(h)}
              ELSE del = {} /\ (HasReject(table["public"]) \/ HasReject(ins)),
           tx' = [tx EXCEPT ![h] = x], Goto(h, "commit"), faults' \in Nat,
           UNCHANGED <<rows, table, todo, mem, obj, session, now, history>>
    PROVE  IInv'
<1> DEFINE y == Staged(h, "public", del, ins)
<1>1. stage[h] = "public" /\ stage[h] \in Copying
      /\ stage' = [stage EXCEPT ![h] = "commit"]
  BY DEF Runs, Copying, Goto
<1>2. "tenant" \in Tables /\ "public" \in Tables /\ "commit" \in Copying
  BY DEF Tables, Copying
<1>3. /\ y \in Transactions
      /\ ~y.waits
      /\ y.del["public"] = del /\ y.ins["public"] = ins
      /\ y.del["tenant"] = tx[h].del["tenant"]
      /\ y.ins["tenant"] = tx[h].ins["tenant"]
  BY <1>2, StagedTransaction
<1> HIDE DEF y
<1>4. /\ x \in Transactions
      /\ ~x.waits /\ x.failed = failed
      /\ x.del = y.del /\ x.ins = y.ins
  BY <1>3 DEF Transactions, y
<1>5. /\ x.del["public"] = del /\ x.ins["public"] = ins
      /\ x.del["tenant"] = tx[h].del["tenant"]
      /\ x.ins["tenant"] = tx[h].ins["tenant"]
  BY <1>3, <1>4
<1>6. Users(tx[h].del["tenant"]) # {} => Users(tx[h].ins["tenant"]) # {}
  BY <1>2 DEF IInv, UserReplaced
<1>7. \A u \in Tables : Users(x.del[u]) # {} => Users(x.ins[u]) # {}
  BY <1>5, <1>6 DEF Tables
<1>8. x.ins["tenant"] # {}
  BY <1>1, <1>5 DEF IInv, TenantFirst
<1>9. h \in solo => IF cred.enabled
                    THEN /\ x.del["tenant"] = table["tenant"]
                         /\ x.ins["tenant"] = {UserRow(h)}
                    ELSE HasReject(x.ins["tenant"])
  BY <1>1, <1>5 DEF IInv, SoloCopies, TypeOK
<1>10. h \in solo /\ ~x.failed =>
         IF cred.enabled
         THEN /\ x.del["public"] = table["public"]
              /\ x.ins["public"] = {UserRow(h)}
         ELSE /\ x.del["public"] = {}
              /\ \/ HasReject(table["public"])
                 \/ HasReject(x.ins["public"])
  BY <1>4, <1>5
<1>11. QED
  BY <1>1, <1>2, <1>4, <1>7, <1>8, <1>9, <1>10, StageInvariant

LEMMA WriteInvariant ==
    ASSUME IInv, NEW h \in Requests, WritePublic(h)
    PROVE  IInv'
<1> DEFINE del == Found(h, "public")
           ins == IF obj[h].enabled THEN {UserRow(h)}
                  ELSE IF Rejects(table["public"]) = {} THEN {RejectRow(h)}
                  ELSE {}
           kick == ~obj[h].enabled /\ session
           y == Staged(h, "public", del, ins)
           x == [y EXCEPT !.kick = kick]
<1>1. /\ Runs(h, "public") /\ stage[h] = "public" /\ "public" \in Tables
      /\ Goto(h, "commit")
      /\ tx' = [tx EXCEPT ![h] = x]
      /\ UNCHANGED <<rows, table, todo, mem, obj, session, now, faults,
                     history>>
  BY DEF WritePublic, Runs, Tables
<1>2. /\ UserRow(h) \in Row /\ Users({UserRow(h)}) # {}
      /\ RejectRow(h) \in Row /\ HasReject({RejectRow(h)})
  BY <1>1, CopiedRows DEF Copying
<1>3. /\ del \in SUBSET Row
      /\ h \in solo => del = Aimed(h, "public")
  BY <1>1, FoundRows
<1>4. ins \in SUBSET Row /\ kick \in BOOLEAN
  BY <1>2
<1>5. ~obj[h].enabled => del = {}
  BY <1>1 DEF Found, Sees, Aimed, IInv, UserReplaced
<1>6. Users(del) # {} => Users(ins) # {}
  BY <1>2, <1>5 DEF Users
<1>7. h \in solo => obj[h] = cred
  BY <1>1 DEF IInv, SoloIsCurrent, Copying
<1>8. h \in solo /\ obj[h].enabled =>
         del = table["public"] /\ ins = {UserRow(h)}
  BY <1>3 DEF Aimed
<1>9. ~obj[h].enabled => HasReject(table["public"]) \/ HasReject(ins)
  BY <1>2 DEF HasReject, Rejects
<1>10. tx[h].failed \in BOOLEAN /\ faults' \in Nat
  BY <1>1 DEF IInv, TypeOK, Transactions
<1> HIDE DEF del, ins, kick
<1>11. y \in Transactions /\ y.failed = tx[h].failed
  <2>1. "public" \in Tables /\ y = Staged(h, "public", del, ins)
    BY DEF Tables
  <2> HIDE DEF y
  <2>2. QED
    <3>1. del \in SUBSET Row /\ ins \in SUBSET Row
      BY <1>3, <1>4
    <3>2. y \in Transactions
      BY <2>1, <3>1, StagedTransaction
    <3>3. y.failed = tx[h].failed
      BY <2>1, <3>1, StagedTransaction
    <3>4. QED
      BY <3>2, <3>3
<1>12. x = [y EXCEPT !.failed = tx[h].failed, !.kick = kick]
  BY <1>11 DEF Transactions
<1> HIDE DEF x, y
<1>13. h \in solo => IF cred.enabled
                     THEN del = table["public"] /\ ins = {UserRow(h)}
                     ELSE del = {} /\ (\/ HasReject(table["public"])
                                       \/ HasReject(ins))
  BY <1>5, <1>7, <1>8, <1>9
<1>14. UNCHANGED <<rows, table, todo, mem, obj, session, now, history>>
  BY <1>1
<1>15. QED
  BY <1>1, <1>3, <1>4, <1>6, <1>10, <1>12, <1>13, <1>14, StagedSecond DEF y

LEMMA FailInvariant ==
    ASSUME IInv, NEW h \in Requests, FailPublic(h)
    PROVE  IInv'
<1> DEFINE kick == ~obj[h].enabled /\ session
           x == [Staged(h, "public", {}, {}) EXCEPT !.failed = TRUE,
                                                    !.kick = kick]
<1>1. /\ Runs(h, "public") /\ Goto(h, "commit")
      /\ tx' = [tx EXCEPT ![h] = x]
      /\ faults' = faults + 1
      /\ UNCHANGED <<rows, table, todo, mem, obj, session, now, history>>
  BY DEF FailPublic
<1>2. {} \in SUBSET Row /\ kick \in BOOLEAN /\ faults' \in Nat
  BY <1>1 DEF IInv, TypeOK
<1>3. Users({}) = {}
  BY DEF Users
<1>4. x = [Staged(h, "public", {}, {}) EXCEPT !.failed = TRUE, !.kick = kick]
  OBVIOUS
<1> HIDE DEF kick, x
<1>5. QED
  BY <1>1, <1>2, <1>3, <1>4, StagedSecond

LEMMA CommitInvariant ==
    ASSUME IInv, NEW h \in Requests, Commit(h)
    PROVE  IInv'
<1>1. /\ stage[h] = "commit"
      /\ table' = [t \in Tables |-> (table[t] \ tx[h].del[t])
                                     \cup tx[h].ins[t]]
      /\ session' = (session /\ ~tx[h].kick)
      /\ tx' = [tx EXCEPT ![h] = NoTx]
      /\ stage' = [stage EXCEPT ![h] = "none"]
      /\ suspect' = (tx[h].failed \/ (suspect /\ h \notin solo))
      /\ UNCHANGED <<customer, service, cred, todo, mem, obj, now, faults,
                     begun, solo>>
  BY DEF Commit, Goto, rows
<1>2. /\ TypeOK /\ ObjectsLoaded /\ AnswersLast /\ SoloIsAlone
      /\ SoloIsCurrent /\ UserReplaced /\ TenantFirst /\ SoloCopies
  BY DEF IInv
<1>3. obj[h] \in Credentials /\ ~Idle(h)
  BY <1>1, <1>2 DEF ObjectsLoaded
<1>4. solo \subseteq {h} /\ (suspect \/ h \in solo)
  BY <1>3, InFlight
<1>5. tx[h] \in Transactions /\ NoTx \in Transactions
      /\ "tenant" \in Tables /\ "public" \in Tables
  BY <1>2 DEF TypeOK, NoTx, Nothing, Transactions, Tables
<1>6. /\ tx[h].del \in [Tables -> SUBSET Row]
      /\ tx[h].ins \in [Tables -> SUBSET Row]
      /\ tx[h].failed \in BOOLEAN /\ tx[h].kick \in BOOLEAN
  BY <1>5 DEF Transactions
<1>7. table' \in [Tables -> SUBSET Row]
  BY <1>1, <1>2, <1>6 DEF TypeOK
<1>8. session' \in BOOLEAN /\ suspect' \in BOOLEAN
  BY <1>1
<1>9. TypeOK'
  BY <1>1, <1>2, <1>5, <1>7, <1>8 DEF TypeOK, Stages
<1>10. /\ stage'[h] = "none" /\ tx'[h] = NoTx /\ obj'[h] = obj[h]
       /\ \A g \in Requests \ {h} : stage'[g] = stage[g] /\ tx'[g] = tx[g]
       /\ \A g \in Requests : Idle(g)' <=> Idle(g)
  BY <1>1, <1>2 DEF TypeOK, Idle
<1>11. ObjectsLoaded'
  BY <1>1, <1>2, <1>3, <1>10 DEF ObjectsLoaded
<1>12. AnswersLast'
  BY <1>1, <1>2, <1>10 DEF AnswersLast
<1>13. SoloIsAlone'
  BY <1>1, <1>2, <1>4, <1>10 DEF SoloIsAlone
<1>14. h \in solo => obj[h] = cred
  BY <1>1, <1>2 DEF SoloIsCurrent, Copying
<1>15. SoloIsCurrent'
  BY <1>1, <1>4, <1>10, <1>14 DEF SoloIsCurrent, Copying
<1>16. UserReplaced'
  <2>1. ASSUME NEW g \in Requests, NEW t \in Tables
        PROVE  Users(tx'[g].del[t]) # {} => Users(tx'[g].ins[t]) # {}
    <3>1. CASE g = h
      BY <1>10, <3>1 DEF NoTx, Nothing, Users
    <3>2. CASE g # h
      BY <1>2, <1>10, <3>2 DEF UserReplaced
    <3>3. QED
      BY <3>1, <3>2
  <2>2. ASSUME NEW g \in Requests
        PROVE  stage'[g] = "public" /\ tx'[g].waits => obj'[g].enabled
    BY <1>1, <1>2, <1>10 DEF UserReplaced
  <2>3. QED
    BY <2>1, <2>2 DEF UserReplaced
<1>17. TenantFirst'
  <2>1. tx[h].ins["tenant"] # {}
    BY <1>1, <1>2 DEF TenantFirst
  <2>2. table'["tenant"] # {}
    BY <1>1, <1>5, <2>1
  <2>3. QED
    BY <1>2, <1>10, <2>2 DEF TenantFirst
<1>18. SoloCopies'
  BY <1>1, <1>4, <1>10 DEF SoloCopies, NoTx
<1>19. FollowsWhenSure'
  <2> SUFFICES ASSUME ~suspect'
               PROVE  /\ InStep'
                      /\ Rejects(table'["tenant"]) # {} =>
                            Refuses(table'["public"])
    BY DEF FollowsWhenSure
  <2>1. h \in solo /\ ~tx[h].failed
    BY <1>1, <1>4
  <2>2. \A t \in Tables : table'[t] = (table[t] \ tx[h].del[t])
                                      \cup tx[h].ins[t]
    BY <1>1
  <2>3. CASE cred.enabled
    <3>1. \A t \in Tables : table'[t] = {UserRow(h)}
      BY <1>1, <1>2, <2>1, <2>2, <2>3 DEF SoloCopies, Tables
    <3>2. UserRow(h).kind = "user" /\ UserRow(h).expires = cred.expires
      BY <1>14, <2>1 DEF UserRow
    <3>3. \A t \in Tables : /\ Users(table'[t]) = {UserRow(h)}
                            /\ Rejects(table'[t]) = {}
      BY <3>1, <3>2 DEF Users, Rejects
    <3>4. InStep'
      BY <1>1, <2>3, <3>1, <3>2, <3>3 DEF InStep
    <3>5. QED
      BY <1>5, <3>3, <3>4
  <2>4. CASE ~cred.enabled
    <3>1. /\ HasReject(tx[h].ins["tenant"])
          /\ tx[h].del["public"] = {}
          /\ HasReject(table["public"]) \/ HasReject(tx[h].ins["public"])
      BY <1>1, <1>2, <2>1, <2>4 DEF SoloCopies
    <3>2. HasReject(table'["tenant"]) /\ HasReject(table'["public"])
      BY <1>5, <2>2, <3>1 DEF HasReject
    <3>3. \A t \in Tables : Rejects(table'[t]) # {}
      BY <3>2 DEF HasReject, Rejects, Tables
    <3>4. QED
      BY <1>1, <1>5, <2>4, <3>3 DEF InStep, Refuses
  <2>5. QED
    BY <2>3, <2>4
<1>20. QED
  BY <1>9, <1>11, <1>12, <1>13, <1>15, <1>16, <1>17, <1>18, <1>19 DEF IInv

LEMMA StartExpirationInvariant ==
    ASSUME IInv, NEW h \in Requests, StartExpiration(h)
    PROVE  IInv'
<1> DEFINE x == [tx[h] EXCEPT !.seen = Dated(table["tenant"])]
<1>1. /\ Run(h, "expire")
      /\ tx' = [tx EXCEPT ![h] = x]
      /\ stage' = [stage EXCEPT ![h] = "expire"]
      /\ UNCHANGED <<customer, service, cred, table, mem, obj, session, now,
                     faults, begun, solo, suspect>>
  BY DEF StartExpiration, Goto, rows, history
<1>2. /\ TypeOK /\ ObjectsLoaded /\ SoloIsAlone /\ SoloIsCurrent
      /\ UserReplaced /\ TenantFirst /\ SoloCopies /\ FollowsWhenSure
  BY DEF IInv
<1>3. /\ todo' \in [Requests -> Seq(Statements)]
      /\ \A g \in Requests : Idle(g)' <=> Idle(g)
      /\ AnswersLast'
      /\ stage[h] = "none"
      /\ ~Idle(h)
  BY <1>1, RunKeepsQueues DEF Statements
<1>4. tx[h] = NoTx /\ NoTx \in Transactions
      /\ Dated(table["tenant"]) \in SUBSET Row
  BY <1>2, <1>3 DEF TypeOK, ObjectsLoaded, Copying, NoTx, Nothing,
                    Transactions, Dated, Tables
<1>5. /\ x \in Transactions
      /\ x.seen = Dated(table["tenant"])
      /\ x = [NoTx EXCEPT !.seen = x.seen]
      /\ x.del = NoTx.del /\ x.ins = NoTx.ins /\ ~x.waits
  BY <1>4 DEF Transactions, NoTx
<1> HIDE DEF x
<1>6. /\ stage'[h] = "expire" /\ tx'[h] = x
      /\ \A g \in Requests \ {h} : stage'[g] = stage[g] /\ tx'[g] = tx[g]
  BY <1>1, <1>2 DEF TypeOK
<1>7. TypeOK'
  BY <1>1, <1>2, <1>3, <1>5 DEF TypeOK, Stages
<1>8. ObjectsLoaded'
  <2>1. Rejects(x.seen) = {}
    BY <1>5 DEF Dated, Rejects
  <2>2. QED
    BY <1>1, <1>2, <1>3, <1>5, <1>6, <2>1 DEF ObjectsLoaded, Copying
<1>9. SoloIsAlone' /\ SoloIsCurrent'
  BY <1>1, <1>2, <1>3, <1>6 DEF SoloIsAlone, SoloIsCurrent, Copying
<1>10. UserReplaced'
  <2>1. x.del = tx[h].del /\ x.ins = tx[h].ins
    BY <1>4, <1>5
  <2>2. \A g \in Requests : tx'[g].del = tx[g].del /\ tx'[g].ins = tx[g].ins
    BY <1>6, <2>1
  <2>3. ASSUME NEW g \in Requests
        PROVE  stage'[g] = "public" /\ tx'[g].waits => obj'[g].enabled
    BY <1>1, <1>2, <1>5, <1>6 DEF UserReplaced
  <2>4. QED
    BY <1>2, <2>2, <2>3 DEF UserReplaced
<1>11. TenantFirst'
  BY <1>1, <1>2, <1>6 DEF TenantFirst
<1>12. SoloCopies'
  <2>1. solo \subseteq {h}
    BY <1>3, InFlight
  <2>2. QED
    BY <1>1, <1>5, <1>6, <2>1 DEF SoloCopies
<1>13. FollowsWhenSure'
  BY <1>1, <1>2, <1>3, <1>6 DEF FollowsWhenSure, InStep, Copying
<1>14. QED
  BY <1>3, <1>7, <1>8, <1>9, <1>10, <1>11, <1>12, <1>13 DEF IInv

\* set_user_expiration changes dates in the tenant's table, or adds one.
LEMMA ExpirationRows ==
    ASSUME IInv, NEW h \in Requests, SetExpiration(h)
    PROVE  /\ table' \in [Tables -> SUBSET Row]
           /\ table'["public"] = table["public"]
           /\ Rejects(table'["tenant"]) = Rejects(table["tenant"])
           /\ Users(table'["tenant"]) = {} <=> Users(table["tenant"]) = {}
           /\ table'["tenant"] = {} => table["tenant"] = {}
           /\ \A r : table["tenant"] = {r} /\ tx[h].seen = {r} =>
                     table'["tenant"] = {[r EXCEPT !.expires = Object(h).expires]}
<1> DEFINE T == table["tenant"]
           found == tx[h].seen \cap T
           e == [kind |-> "expiry", by |-> h, expires |-> Object(h).expires]
           Later(r) == [r EXCEPT !.expires = Object(h).expires]
<1>1. /\ table \in [Tables -> SUBSET Row]
      /\ "tenant" \in Tables /\ "public" \in Tables
      /\ T \in SUBSET Row
      /\ Object(h).expires \in Nat
  BY SignalCredentials DEF IInv, TypeOK, Tables, Credentials
<1>2. e \in Row /\ e.kind = "expiry"
  BY <1>1 DEF Row
<1>3. ASSUME NEW r \in Row
      PROVE  Later(r) \in Row /\ Later(r).kind = r.kind
  BY <1>1, <1>3 DEF Row
<1>4. \A r \in found : r \in Row /\ r.kind # "reject"
  BY <1>1 DEF SetExpiration, IInv, ObjectsLoaded, Rejects
<1>5. \/ found = {} /\ table' = [table EXCEPT !["tenant"] = T \cup {e}]
      \/ \E r \in found :
            found = {r} /\ table' = [table EXCEPT !["tenant"] =
                                         (T \ {r}) \cup {Later(r)}]
      \/ ~AtMostOne(found) /\ UNCHANGED table
  BY DEF SetExpiration
<1> HIDE DEF e, Later
<1>6. CASE found = {} /\ table' = [table EXCEPT !["tenant"] = T \cup {e}]
  <2>1. table'["tenant"] = T \cup {e} /\ table'["public"] = table["public"]
        /\ table' \in [Tables -> SUBSET Row]
    BY <1>1, <1>2, <1>6
  <2>2. Users(T \cup {e}) = Users(T) /\ Rejects(T \cup {e}) = Rejects(T)
    BY <1>2 DEF Users, Rejects
  <2>3. QED
    BY <1>6, <2>1, <2>2
<1>7. CASE \E r \in found :
             found = {r} /\ table' = [table EXCEPT !["tenant"] =
                                          (T \ {r}) \cup {Later(r)}]
  <2>1. PICK r \in found :
             found = {r} /\ table' = [table EXCEPT !["tenant"] =
                                          (T \ {r}) \cup {Later(r)}]
    BY <1>7
  <2>2. /\ r \in T /\ r.kind # "reject"
        /\ Later(r) \in Row /\ Later(r).kind = r.kind
    BY <1>3, <1>4
  <2>3. /\ table'["tenant"] = (T \ {r}) \cup {Later(r)}
        /\ table'["public"] = table["public"]
        /\ table' \in [Tables -> SUBSET Row]
    BY <1>1, <2>1, <2>2
  <2>4. Rejects(table'["tenant"]) = Rejects(T)
    BY <2>2, <2>3 DEF Rejects
  <2>5. Users(table'["tenant"]) = {} <=> Users(T) = {}
    BY <2>2, <2>3 DEF Users
  <2>6. \A q : T = {q} /\ tx[h].seen = {q} => table'["tenant"] = {Later(q)}
    BY <2>2, <2>3
  <2>7. QED
    BY <2>3, <2>4, <2>5, <2>6 DEF Later
<1>8. CASE ~AtMostOne(found) /\ UNCHANGED table
  BY <1>1, <1>8 DEF AtMostOne
<1>9. QED
  BY <1>5, <1>6, <1>7, <1>8

\* Of another request's transaction it changes at most what that one waits for.
LEMMA ExpirationTransactions ==
    ASSUME IInv, NEW h \in Requests, SetExpiration(h)
    PROVE  /\ tx' \in [Requests -> Transactions]
           /\ tx'[h] = NoTx
           /\ \A g \in Requests \ {h} :
                 /\ tx'[g] = [tx[g] EXCEPT !.seen = tx'[g].seen]
                 /\ stage[g] \notin {"tenant", "expire"} => tx'[g] = tx[g]
                 /\ stage[g] = "expire" => Rejects(tx'[g].seen) = {}
<1> DEFINE found == tx[h].seen \cap table["tenant"]
           Later(r) == [r EXCEPT !.expires = Object(h).expires]
<1>1. /\ tx \in [Requests -> Transactions] /\ NoTx \in Transactions
      /\ table["tenant"] \in SUBSET Row
      /\ Object(h).expires \in Nat
  BY SignalCredentials DEF IInv, TypeOK, Tables, Credentials, NoTx, Nothing,
                           Transactions
<1>2. \A g \in Requests : stage[g] = "expire" => Rejects(tx[g].seen) = {}
  BY DEF IInv, ObjectsLoaded
<1>3. stage[h] = "expire"
  BY DEF SetExpiration
<1>4. CASE tx' = [tx EXCEPT ![h] = NoTx]
  BY <1>1, <1>2, <1>4 DEF Transactions
<1>5. CASE \E r \in found :
             tx' = [g \in Requests |-> IF g = h THEN NoTx
                                      ELSE Follow(g, r, Later(r))]
  <2>1. PICK r \in found :
             tx' = [g \in Requests |-> IF g = h THEN NoTx
                                      ELSE Follow(g, r, Later(r))]
    BY <1>5
  <2>2. r \in Row /\ Later(r) \in Row /\ Later(r).kind = r.kind
        /\ r.kind # "reject"
    BY <1>1, <1>2, <1>3 DEF Row, Rejects
  <2>3. tx'[h] = NoTx
    BY <2>1
  <2> HIDE DEF Later
  <2>4. ASSUME NEW g \in Requests \ {h}
        PROVE  /\ tx'[g] \in Transactions
               /\ tx'[g] = [tx[g] EXCEPT !.seen = tx'[g].seen]
               /\ stage[g] \notin {"tenant", "expire"} => tx'[g] = tx[g]
               /\ stage[g] = "expire" => Rejects(tx'[g].seen) = {}
    <3>1. tx'[g] = Follow(g, r, Later(r)) /\ tx[g] \in Transactions
      BY <1>1, <2>1
    <3>2. CASE stage[g] \in {"tenant", "expire"} /\ r \in tx[g].seen
      <4> DEFINE seen == (tx[g].seen \ {r}) \cup {Later(r)}
      <4>1. tx'[g] = [tx[g] EXCEPT !.seen = seen]
        BY <3>1, <3>2 DEF Follow
      <4>2. seen \in SUBSET Row
        BY <2>2, <3>1 DEF Transactions
      <4>3. stage[g] = "expire" => Rejects(seen) = {}
        BY <1>2, <2>2 DEF Rejects
      <4> HIDE DEF seen
      <4>4. QED
        BY <3>1, <3>2, <4>1, <4>2, <4>3 DEF Transactions
    <3>3. CASE ~(stage[g] \in {"tenant", "expire"} /\ r \in tx[g].seen)
      <4>1. tx'[g] = tx[g]
        BY <3>1, <3>3 DEF Follow
      <4>2. QED
        BY <1>2, <3>1, <4>1 DEF Transactions
    <3>4. QED
      BY <3>2, <3>3
  <2>5. tx' \in [Requests -> Transactions]
    BY <1>1, <2>1, <2>3, <2>4
  <2>6. QED
    BY <2>3, <2>4, <2>5
<1>6. QED
  BY <1>4, <1>5 DEF SetExpiration

LEMMA SetExpirationInvariant ==
    ASSUME IInv, NEW h \in Requests, SetExpiration(h)
    PROVE  IInv'
<1>1. /\ stage[h] = "expire"
      /\ stage' = [stage EXCEPT ![h] = "none"]
      /\ UNCHANGED <<customer, service, cred, todo, mem, obj, session, now,
                     faults, begun, solo, suspect>>
  BY DEF SetExpiration, Goto, rows, history
<1>2. /\ TypeOK /\ ObjectsLoaded /\ AnswersLast /\ SoloIsAlone
      /\ SoloIsCurrent /\ UserReplaced /\ TenantFirst /\ SoloCopies
      /\ FollowsWhenSure
  BY DEF IInv
<1>3. /\ ~Idle(h)
      /\ stage'[h] = "none"
      /\ \A g \in Requests \ {h} : stage'[g] = stage[g]
      /\ \A g \in Requests : Idle(g)' <=> Idle(g)
  BY <1>1, <1>2 DEF ObjectsLoaded, TypeOK, Idle
<1>4. /\ tx' \in [Requests -> Transactions]
      /\ tx'[h] = NoTx
      /\ \A g \in Requests \ {h} :
            /\ tx'[g] = [tx[g] EXCEPT !.seen = tx'[g].seen]
            /\ stage[g] \notin {"tenant", "expire"} => tx'[g] = tx[g]
            /\ stage[g] = "expire" => Rejects(tx'[g].seen) = {}
  BY ExpirationTransactions
<1>5. /\ table' \in [Tables -> SUBSET Row]
      /\ table'["public"] = table["public"]
      /\ Rejects(table'["tenant"]) = Rejects(table["tenant"])
      /\ Users(table'["tenant"]) = {} <=> Users(table["tenant"]) = {}
      /\ table'["tenant"] = {} => table["tenant"] = {}
      /\ \A r : table["tenant"] = {r} /\ tx[h].seen = {r} =>
                table'["tenant"] = {[r EXCEPT !.expires = Object(h).expires]}
  BY ExpirationRows
<1>6. \A g \in Requests \ {h} :
         /\ tx'[g].del = tx[g].del /\ tx'[g].ins = tx[g].ins
         /\ tx'[g].waits = tx[g].waits
  BY <1>2, <1>4 DEF TypeOK, Transactions
<1>7. TypeOK'
  BY <1>1, <1>2, <1>4, <1>5 DEF TypeOK, Stages
<1>8. ObjectsLoaded'
  <2>1. ASSUME NEW g \in Requests \ {h}, stage[g] = "expire"
        PROVE  tx'[g] = [NoTx EXCEPT !.seen = tx'[g].seen]
    <3>1. tx[g] = [NoTx EXCEPT !.seen = tx[g].seen]
      BY <1>2, <2>1 DEF ObjectsLoaded
    <3>2. QED
      BY <1>4, <3>1 DEF NoTx
  <2>2. ASSUME NEW g \in Requests \ {h},
               stage[g] \notin Copying \cup {"expire"}
        PROVE  tx'[g] = NoTx
    BY <1>2, <1>4, <2>2 DEF ObjectsLoaded, Copying
  <2>3. ASSUME NEW g \in Requests \ {h}
        PROVE  /\ stage'[g] \notin {"none", "expire"} => obj'[g] \in Credentials
               /\ Idle(g)' => stage'[g] = "none"
    BY <1>1, <1>2, <1>3 DEF ObjectsLoaded
  <2>4. /\ stage'[h] = "none" /\ tx'[h] = NoTx
    BY <1>3, <1>4
  <2>5. QED
    BY <1>3, <1>4, <2>1, <2>2, <2>3, <2>4 DEF ObjectsLoaded, Copying
<1>9. AnswersLast' /\ SoloIsAlone'
  BY <1>1, <1>2, <1>3 DEF AnswersLast, SoloIsAlone
<1>10. SoloIsCurrent'
  BY <1>1, <1>2, <1>3 DEF SoloIsCurrent, Copying
<1>11. UserReplaced'
  <2>1. /\ \A t \in Tables : Users(tx'[h].del[t]) = {}
        /\ ~tx'[h].waits
    BY <1>4 DEF NoTx, Nothing, Users
  <2>2. QED
    BY <1>1, <1>2, <1>3, <1>6, <2>1 DEF UserReplaced
<1>12. TenantFirst'
  BY <1>2, <1>3, <1>5, <1>6 DEF TenantFirst
<1>13. solo \subseteq {h} /\ (suspect \/ h \in solo)
  BY <1>3, InFlight
<1>14. SoloCopies'
  BY <1>1, <1>3, <1>4, <1>13 DEF SoloCopies, NoTx
<1>15. FollowsWhenSure'
  <2> SUFFICES ASSUME ~suspect
               PROVE  /\ (\A g \in Requests : stage'[g] \notin Copying)
                            => InStep'
                      /\ Rejects(table'["tenant"]) # {} =>
                            Refuses(table'["public"])
    BY <1>1 DEF FollowsWhenSure
  <2>1. h \in solo /\ Object(h) = cred /\ tx[h].seen = Dated(table["tenant"])
    BY <1>1, <1>2, <1>13 DEF SoloIsCurrent, SoloCopies, Object
  <2>2. ASSUME InStep
        PROVE  InStep'
    <3>1. CASE cred.enabled
      <4>1. PICK r \in Users(table["tenant"]) :
               table["tenant"] = {r} /\ r.expires = cred.expires
        BY <2>2, <3>1 DEF InStep, Tables
      <4>2. r \in Row /\ r.kind = "user"
        BY <1>2, <4>1 DEF Users, TypeOK, Tables
      <4>3. tx[h].seen = {r}
        BY <2>1, <4>1, <4>2 DEF Dated, Rejects
      <4>4. [r EXCEPT !.expires = cred.expires] = r
        BY <4>1, <4>2 DEF Row
      <4>5. table'["tenant"] = table["tenant"]
        BY <1>5, <2>1, <4>1, <4>3, <4>4
      <4>6. QED
        BY <1>1, <1>5, <2>2, <3>1, <4>5 DEF InStep, Tables
    <3>2. CASE ~cred.enabled
      BY <1>1, <1>5, <2>2, <3>2 DEF InStep, Tables
    <3>3. QED
      BY <3>1, <3>2
  <2>3. (\A g \in Requests : stage'[g] \notin Copying) =>
           \A g \in Requests : stage[g] \notin Copying
    BY <1>1, <1>3 DEF Copying
  <2>4. QED
    BY <1>2, <1>5, <2>2, <2>3 DEF FollowsWhenSure
<1>16. QED
  BY <1>7, <1>8, <1>9, <1>10, <1>11, <1>12, <1>14, <1>15 DEF IInv

-----------------------------------------------------------------------------
(***************************************************************************)
(* The remaining steps, and the theorems.                                  *)
(***************************************************************************)
\* Statements that save a row or end the session.
LEMMA StatementInvariant ==
    ASSUME IInv, NEW h \in Requests,
           \/ SaveServiceRow(h) \/ SuspendServices(h) \/ SaveCustomerRow(h)
           \/ Reopen(h) \/ Kick(h)
    PROVE  IInv'
<1> USE DEF rows, history
<1>1. TypeOK
  BY DEF IInv
<1>2. PICK label \in Statements \ {"answer"} : Run(h, label)
  BY DEF SaveServiceRow, SuspendServices, SaveCustomerRow, Reopen, Kick,
         Statements
<1>3. /\ todo' \in [Requests -> Seq(Statements)]
      /\ \A g \in Requests : Idle(g)' <=> Idle(g)
      /\ AnswersLast'
  BY <1>2, RunKeepsQueues
<1>4. /\ UNCHANGED <<cred, table, stage, obj, tx, solo, suspect>>
      /\ UNCHANGED <<now, faults, begun>>
  BY DEF SaveServiceRow, SuspendServices, SaveCustomerRow, Reopen, Kick
<1>5. /\ customer' \in Statuses /\ service' \in Statuses
      /\ mem' \in [Requests -> Mem] /\ session' \in BOOLEAN
  BY <1>1 DEF SaveServiceRow, SuspendServices, SaveCustomerRow, Reopen, Kick,
              TypeOK, Statuses, Mem
<1>6. TypeOK'
  BY <1>1, <1>3, <1>4, <1>5 DEF TypeOK, Mem
<1>7. QED
  BY <1>3, <1>4, <1>6, FrameInvariant

\* Steps of FreeRADIUS, the tasks and the clock.
LEMMA EnvironmentInvariant ==
    ASSUME IInv, Login \/ Logout \/ DisconnectExpired \/ Tick
    PROVE  IInv'
<1> USE DEF rows, history
<1>1. /\ UNCHANGED <<customer, service, cred, table, todo, stage, mem, obj, tx>>
      /\ UNCHANGED <<faults, begun, solo, suspect>>
  BY DEF Login, Logout, DisconnectExpired, CloseSession, Tick
<1>2. session' \in BOOLEAN /\ now' \in Nat
  <2>1. session \in BOOLEAN /\ now \in Nat
    BY DEF IInv, TypeOK
  <2>2. CASE Login
    BY <2>1, <2>2 DEF Login
  <2>3. CASE Logout \/ DisconnectExpired
    BY <2>1, <2>3 DEF Logout, DisconnectExpired, CloseSession
  <2>4. CASE Tick
    BY <2>1, <2>4 DEF Tick
  <2>5. QED
    BY <2>2, <2>3, <2>4
<1>3. TypeOK'
  BY <1>1, <1>2 DEF IInv, TypeOK
<1>4. AnswersLast' /\ \A g \in Requests : Idle(g)' <=> Idle(g)
  BY <1>1 DEF IInv, AnswersLast, Idle
<1>5. QED
  BY <1>1, <1>3, <1>4, FrameInvariant

LEMMA StepInvariant ==
    ASSUME IInv, NEW h \in Requests, Step(h)
    PROVE  IInv'
<1>1. Object(h) \in Credentials /\ TypeOK
  BY SignalCredentials DEF IInv
<1>2. CASE SaveCredentials(h)
  BY <1>2, SaveInvariant DEF SaveCredentials
<1>3. CASE InsertCredentials(h)
  <2>1. stage[h] = "insert"
    BY <1>3 DEF InsertCredentials
  <2>2. CASE cred' = obj[h] /\ Goto(h, "tenant") /\
             UNCHANGED <<todo, mem, obj, tx, solo>>
    BY <1>3, <2>1, <2>2, SaveInvariant DEF InsertCredentials, history
  <2>3. CASE End(h) /\ UNCHANGED cred
    BY <1>1, <1>3, <2>1, <2>3, EndInvariant
       DEF InsertCredentials, rows, Copying, TypeOK
  <2>4. QED
    BY <1>3, <2>2, <2>3 DEF InsertCredentials
<1>4. CASE Sync(h)
  BY <1>1, <1>4, LoadInvariant DEF Sync, Statements
<1>5. CASE ServiceSignal(h)
  <2> DEFINE object == AfterService(Object(h), mem[h].service)
             st == IF object = Object(h) THEN "none" ELSE "save"
  <2>1. object \in Credentials
    BY <1>1, SignalCredentials DEF TypeOK
  <2>2. /\ Run(h, "service_signal") /\ Goto(h, st)
        /\ obj' = [obj EXCEPT ![h] = object]
        /\ UNCHANGED <<rows, table, mem, tx, session, now, faults, history>>
    BY <1>5 DEF ServiceSignal, Signal
  <2>3. st \in {"none", "save", "tenant"} /\ (st # "save" => object = Object(h))
        /\ "service_signal" \in Statements \ {"answer"}
    BY DEF Statements
  <2> HIDE DEF object, st
  <2>4. QED
    BY <2>1, <2>2, <2>3, LoadInvariant
<1>6. CASE CustomerSignal(h)
  <2> DEFINE object == AfterCustomer(Object(h), mem[h].customer)
             st == IF object = Object(h) THEN "none" ELSE "save"
  <2>1. object \in Credentials
    BY <1>1, SignalCredentials DEF TypeOK
  <2>2. /\ Run(h, "customer_signal") /\ Goto(h, st)
        /\ obj' = [obj EXCEPT ![h] = object]
        /\ UNCHANGED <<rows, table, mem, tx, session, now, faults, history>>
    BY <1>6 DEF CustomerSignal, Signal
  <2>3. st \in {"none", "save", "tenant"} /\ (st # "save" => object = Object(h))
        /\ "customer_signal" \in Statements \ {"answer"}
    BY DEF Statements
  <2> HIDE DEF object, st
  <2>4. QED
    BY <2>1, <2>2, <2>3, LoadInvariant
<1>7. CASE ComputeExtension(h)
  <2> DEFINE c == Object(h)
             base == IF c.expires > now THEN c.expires ELSE now
             object == Enabled(c, base + Extension)
  <2>1. base + Extension \in Nat
    BY <1>1, AccessAssumption DEF TypeOK, Credentials
  <2>2. object \in Credentials
    BY <1>1, <2>1, EnabledCredentials
  <2>3. CASE /\ Run(h, "extend") /\ Goto(h, "save")
             /\ obj' = [obj EXCEPT ![h] = object]
             /\ UNCHANGED <<rows, table, mem, tx, session, now, faults,
                            history>>
    <3> HIDE DEF object
    <3> QED
      BY <2>2, <2>3, LoadInvariant DEF Statements
  <2>4. CASE /\ stage[h] = "none" /\ End(h)
             /\ UNCHANGED <<rows, table, session, now, faults, begun, suspect>>
    BY <1>1, <2>4, EndInvariant DEF Copying, TypeOK
  <2>5. QED
    BY <1>7, <2>3, <2>4 DEF ComputeExtension
<1>8. CASE Answer(h)
  BY <1>1, <1>8, EndInvariant DEF Answer, Copying, TypeOK
<1>9. QED
  BY <1>2, <1>3, <1>4, <1>5, <1>6, <1>7, <1>8, StatementInvariant,
     WaitInvariant, CreateInvariant, RejectInvariant, SkipInvariant,
     WriteInvariant, CommitInvariant, StartExpirationInvariant,
     SetExpirationInvariant DEF Step

LEMMA CrashInvariant ==
    ASSUME IInv, NEW h \in Requests, Crash(h)
    PROVE  IInv'
<1>1. /\ End(h) /\ suspect' = TRUE
      /\ UNCHANGED <<rows, table, session, now, begun>>
  BY DEF Crash
<1>2. faults' \in Nat
  BY DEF Crash, IInv, TypeOK
<1>3. QED
  BY <1>1, <1>2, EndInvariant

LEMMA NextInvariant == IInv /\ [Next]_vars => IInv'
<1> SUFFICES ASSUME IInv, [Next]_vars
             PROVE  IInv'
  OBVIOUS
<1>1. CASE UNCHANGED vars
  <2>1. /\ UNCHANGED <<customer, service, cred, table, todo, stage, mem, obj>>
        /\ UNCHANGED <<tx, session, now, faults, begun, solo, suspect>>
    BY <1>1 DEF vars, rows, history
  <2>2. TypeOK'
    BY <2>1 DEF IInv, TypeOK
  <2>3. AnswersLast' /\ \A g \in Requests : Idle(g)' <=> Idle(g)
    BY <2>1 DEF IInv, AnswersLast, Idle
  <2>4. QED
    BY <2>1, <2>2, <2>3, FrameInvariant
<1>2. CASE Next
  BY <1>2, BeginSomeInvariant, StepInvariant, FailInvariant, CrashInvariant,
     EnvironmentInvariant DEF Next
<1>3. QED
  BY <1>1, <1>2

\* The invariant holds for every number of requests, faults and ticks.
THEOREM AccessInvariant == Spec => []IInv
<1>1. QED
  BY InitInvariant, NextInvariant, PTL DEF Spec

\* Every variable keeps its type.
THEOREM AccessTypeOK == Spec => []TypeOK
<1>1. IInv => TypeOK
  BY DEF IInv
<1>2. QED
  BY <1>1, AccessInvariant, PTL

\* Once all requests have answered, FreeRADIUS follows the credentials,
\* unless requests have overlapped or a copy has failed since the last
\* request that ran alone (sync_to_radius, create_radius_user,
\* disable_radius_user).
THEOREM TablesFollowCredentials == Spec => []QuietTablesInStep
<1>1. IInv => QuietTablesInStep
  BY DEF IInv, ObjectsLoaded, FollowsWhenSure, Copying, QuietTablesInStep
<1>2. QED
  BY <1>1, AccessInvariant, PTL

\* No step of any request takes the user out of a radcheck table.
LEMMA UserStays ==
    ASSUME IInv, [Next]_vars, NEW t \in Tables, Users(table[t]) # {}
    PROVE  Users(table'[t]) # {}
<1>1. CASE UNCHANGED table
  BY <1>1
<1>2. CASE \E h \in Requests : Commit(h)
  <2>1. PICK h \in Requests : Commit(h)
    BY <1>2
  <2>2. table'[t] = (table[t] \ tx[h].del[t]) \cup tx[h].ins[t]
    BY <2>1 DEF Commit
  <2>3. Users(tx[h].del[t]) # {} => Users(tx[h].ins[t]) # {}
    BY DEF IInv, UserReplaced
  <2>4. QED
    BY <2>2, <2>3 DEF Users
<1>3. CASE \E h \in Requests : SetExpiration(h)
  <2>1. PICK h \in Requests : SetExpiration(h)
    BY <1>3
  <2>2. QED
    BY <2>1, ExpirationRows DEF Tables
<1>4. ASSUME NEW h \in Requests, BeginSome(h)
      PROVE  UNCHANGED table
  BY <1>4 DEF BeginSome, Begin, Activate, SaveService, Extend, SaveCustomer,
              Payment, SwitchOn, SwitchOff, Renew, Resync
<1>5. ASSUME NEW h \in Requests, Step(h), ~Commit(h), ~SetExpiration(h)
      PROVE  UNCHANGED table
  BY <1>5 DEF Step, SaveCredentials, InsertCredentials, Sync, SaveServiceRow,
              SuspendServices, SaveCustomerRow, ServiceSignal,
              CustomerSignal, Signal, ComputeExtension, Reopen, WaitForRows,
              CreateInTenant, RejectInTenant, SkipCopy, WritePublic,
              StartExpiration, Kick, Answer
<1>6. ASSUME NEW h \in Requests, FailPublic(h) \/ Crash(h)
      PROVE  UNCHANGED table
  BY <1>6 DEF FailPublic, Crash
<1>7. ASSUME Login \/ Logout \/ DisconnectExpired \/ Tick
      PROVE  UNCHANGED table
  BY <1>7 DEF Login, Logout, CloseSession, DisconnectExpired, Tick
<1>8. CASE UNCHANGED vars
  BY <1>1, <1>8 DEF vars
<1>9. QED
  BY <1>1, <1>2, <1>3, <1>4, <1>5, <1>6, <1>7, <1>8 DEF Next

\* FreeRADIUS never loses the user, however copies interleave, fail or crash.
THEOREM AccessUserNeverVanishes == Spec => UserNeverVanishes
<1>1. IInv /\ [Next]_vars =>
        [\A t \in Tables : Users(table[t]) # {} => Users(table'[t]) # {}]_vars
  BY UserStays
<1>2. QED
  BY <1>1, AccessInvariant, PTL DEF Spec, UserNeverVanishes

-----------------------------------------------------------------------------
(***************************************************************************)
(* Waiting.  A copy takes rows of the tenant's table first and of the      *)
(* public one second, and holds the open session only once it has both:    *)
(* so whoever waits does so for a request that is further on than itself.  *)
(***************************************************************************)
HoldsInOrder ==
    \A h \in Requests :
        /\ tx[h].del["tenant"] # {} => stage[h] \in {"public", "commit"}
        /\ tx[h].del["public"] # {} => stage[h] = "commit"
        /\ tx[h].kick => stage[h] = "commit"

\* What a step of a request does to the rows it holds: it lets go of them,
\* keeps them, takes the tenant's, or takes what is left.
LEMMA StepHolds ==
    ASSUME IInv, NEW h \in Requests,
           BeginSome(h) \/ Step(h) \/ FailPublic(h) \/ Crash(h)
    PROVE  /\ \A g \in Requests \ {h} : /\ tx'[g].del = tx[g].del
                                        /\ tx'[g].kick = tx[g].kick
                                        /\ stage'[g] = stage[g]
           /\ \/ tx'[h] = NoTx
              \/ /\ tx'[h].del = tx[h].del /\ tx'[h].kick = tx[h].kick
                 /\ stage'[h] = stage[h] \/ tx[h] = NoTx
              \/ /\ stage[h] = "tenant" /\ stage'[h] = "public"
                 /\ tx'[h].del["public"] = tx[h].del["public"]
                 /\ tx'[h].kick = tx[h].kick
              \/ stage'[h] = "commit"
<1> DEFINE Others ==
             \A g \in Requests \ {h} : /\ tx'[g].del = tx[g].del
                                      /\ tx'[g].kick = tx[g].kick
                                      /\ stage'[g] = stage[g]
<1>1. TypeOK /\ (stage[h] \notin Copying \cup {"expire"} => tx[h] = NoTx)
      /\ (Idle(h) => stage[h] = "none")
  BY DEF IInv, ObjectsLoaded
<1>2. ASSUME NEW st, Goto(h, st), UNCHANGED tx,
             stage[h] \notin Copying \cup {"expire"}
      PROVE  Others /\ tx'[h] = NoTx
  BY <1>1, <1>2 DEF Goto, TypeOK
<1>3. ASSUME End(h)
      PROVE  Others /\ tx'[h] = NoTx
  BY <1>1, <1>3 DEF End, TypeOK
<1>4. CASE BeginSome(h)
  <2>1. PICK first, statements, statuses, object :
           Begin(h, first, statements, statuses, object)
    BY <1>4 DEF BeginSome, Activate, SaveService, Extend, SaveCustomer,
                Payment, SwitchOn, SwitchOff, Renew, Resync
  <2>2. /\ Goto(h, first) /\ UNCHANGED tx
        /\ stage[h] \notin Copying \cup {"expire"}
    BY <1>1, <2>1 DEF Begin, Copying
  <2>3. QED
    BY <1>2, <2>2
<1>5. CASE Crash(h)
  BY <1>3, <1>5 DEF Crash
<1>6. CASE FailPublic(h) \/ WritePublic(h)
  <2>1. \E x : tx' = [tx EXCEPT ![h] = x]
    BY <1>6 DEF FailPublic, WritePublic
  <2>2. Goto(h, "commit")
    BY <1>6 DEF FailPublic, WritePublic
  <2>3. QED
    BY <1>1, <2>1, <2>2 DEF Goto, TypeOK
<1>7. CASE CreateInTenant(h) \/ RejectInTenant(h)
  <2>1. PICK del, ins : tx' = [tx EXCEPT ![h] = Staged(h, "tenant", del, ins)]
    BY <1>7 DEF CreateInTenant, RejectInTenant
  <2>2. Goto(h, "public") /\ stage[h] = "tenant"
    BY <1>7 DEF CreateInTenant, RejectInTenant, Runs
  <2>3. Others /\ tx'[h] = Staged(h, "tenant", del, ins) /\ stage'[h] = "public"
    BY <1>1, <2>1, <2>2 DEF Goto, TypeOK
  <2>4. /\ Staged(h, "tenant", del, ins).del["public"] = tx[h].del["public"]
        /\ Staged(h, "tenant", del, ins).kick = tx[h].kick
    <3>1. tx[h] \in Transactions
      BY <1>1 DEF TypeOK
    <3>2. QED
      BY <3>1 DEF Staged, Transactions, Tables
  <2>5. QED
    BY <2>2, <2>3, <2>4
<1>8. CASE SkipCopy(h) \/ Commit(h)
  BY <1>1, <1>8 DEF SkipCopy, Commit, Goto, TypeOK
<1>9. CASE \E t \in Tables : WaitForRows(h, t)
  BY <1>1, <1>9 DEF WaitForRows, TypeOK, Transactions
<1>10. CASE \/ SaveServiceRow(h) \/ SuspendServices(h) \/ SaveCustomerRow(h)
            \/ Reopen(h) \/ Kick(h)
  BY <1>10 DEF SaveServiceRow, SuspendServices, SaveCustomerRow, Reopen, Kick
<1>11. CASE SaveCredentials(h) \/ Sync(h) \/ ServiceSignal(h) \/ CustomerSignal(h)
  <2>1. \E st : Goto(h, st)
    BY <1>11 DEF SaveCredentials, Sync, ServiceSignal, CustomerSignal, Signal
  <2>2. UNCHANGED tx /\ stage[h] \notin Copying \cup {"expire"}
    BY <1>11 DEF SaveCredentials, Sync, ServiceSignal, CustomerSignal, Signal,
                 Run, Copying
  <2>3. QED
    BY <1>2, <2>1, <2>2
<1>12. CASE InsertCredentials(h)
  BY <1>2, <1>3, <1>12 DEF InsertCredentials, Copying
<1>13. CASE ComputeExtension(h)
  BY <1>2, <1>3, <1>13 DEF ComputeExtension, Run, Copying
<1>14. CASE Answer(h)
  BY <1>3, <1>14 DEF Answer
<1>15. CASE StartExpiration(h)
  <2>1. /\ stage[h] = "none" /\ stage'= [stage EXCEPT ![h] = "expire"]
        /\ tx' = [tx EXCEPT ![h].seen = Dated(table["tenant"])]
    BY <1>15 DEF StartExpiration, Run, Goto
  <2>2. Others
    BY <1>1, <2>1 DEF TypeOK
  <2>3. tx'[h].del = tx[h].del /\ tx'[h].kick = tx[h].kick /\ tx[h] = NoTx
    BY <1>1, <2>1 DEF TypeOK, Transactions, Copying
  <2>4. QED
    BY <2>1, <2>2, <2>3
<1>16. CASE SetExpiration(h)
  <2>1. /\ tx'[h] = NoTx
        /\ \A g \in Requests \ {h} : tx'[g] = [tx[g] EXCEPT !.seen = tx'[g].seen]
    BY <1>16, ExpirationTransactions
  <2>2. \A g \in Requests \ {h} : stage'[g] = stage[g]
    BY <1>1, <1>16 DEF SetExpiration, Goto, TypeOK
  <2>3. QED
    BY <1>1, <2>1, <2>2 DEF TypeOK, Transactions
<1>17. QED
  BY <1>4, <1>5, <1>6, <1>7, <1>8, <1>9, <1>10, <1>11, <1>12, <1>13, <1>14,
     <1>15, <1>16 DEF Step

\* Every step keeps that order.
LEMMA OrderNext == IInv /\ HoldsInOrder /\ [Next]_vars => HoldsInOrder'
<1> SUFFICES ASSUME IInv, HoldsInOrder, [Next]_vars
             PROVE  HoldsInOrder'
  OBVIOUS
<1>1. ASSUME NEW h \in Requests,
             BeginSome(h) \/ Step(h) \/ FailPublic(h) \/ Crash(h)
      PROVE  HoldsInOrder'
  <2>1. SUFFICES ASSUME NEW g \in Requests
                 PROVE  /\ tx'[g].del["tenant"] # {} =>
                              stage'[g] \in {"public", "commit"}
                        /\ tx'[g].del["public"] # {} => stage'[g] = "commit"
                        /\ tx'[g].kick => stage'[g] = "commit"
    BY DEF HoldsInOrder
  <2>2. /\ tx[g].del["tenant"] # {} => stage[g] \in {"public", "commit"}
        /\ tx[g].del["public"] # {} => stage[g] = "commit"
        /\ tx[g].kick => stage[g] = "commit"
    BY DEF HoldsInOrder
  <2>3. CASE g # h
    BY <1>1, <2>2, <2>3, StepHolds
  <2>4. CASE g = h
    <3>1. NoTx.del["tenant"] = {} /\ NoTx.del["public"] = {} /\ NoTx.kick = FALSE
      BY DEF NoTx, Nothing, Tables
    <3>2. QED
      BY <1>1, <2>2, <2>4, <3>1, StepHolds
  <2>5. QED
    BY <2>3, <2>4
<1>2. CASE Login \/ Logout \/ DisconnectExpired \/ Tick \/ UNCHANGED vars
  BY <1>2 DEF Login, Logout, DisconnectExpired, CloseSession, Tick, vars,
              HoldsInOrder
<1>3. QED
  BY <1>1, <1>2 DEF Next

\* So a request only waits for one that is further on.
LEMMA WaitsForFurther ==
    ASSUME IInv, HoldsInOrder, NEW h \in Requests, NEW g \in Requests,
           WaitsFor(h, g)
    PROVE  \/ stage[h] \in {"none", "expire"} /\ stage[g] \in Copying
           \/ stage[h] = "tenant" /\ stage[g] \in {"public", "commit"}
           \/ stage[h] = "public" /\ stage[g] = "commit"
<1>1. /\ tx[g].del["tenant"] # {} => stage[g] \in {"public", "commit"}
      /\ tx[g].del["public"] # {} => stage[g] = "commit"
      /\ tx[g].kick => stage[g] = "commit"
  BY DEF HoldsInOrder
<1>2. QED
  BY <1>1 DEF WaitsFor, Tables, Copying

\* In every group of requests, however many there are and whatever failed or
\* crashed, somebody waits for none of the others: the one that is furthest
\* on (create_radius_user, disable_radius_user, set_user_expiration,
\* disconnect_user).
THEOREM NobodyWaitsInACircle == Spec => []NoCircularWait
<1>1. Init => HoldsInOrder
  <2>1. SUFFICES ASSUME Init  PROVE HoldsInOrder
    OBVIOUS
  <2>2. \A h \in Requests : tx[h] = NoTx
    BY <2>1 DEF Init
  <2>3. NoTx.del["tenant"] = {} /\ NoTx.del["public"] = {} /\ NoTx.kick = FALSE
    BY DEF NoTx, Nothing, Tables
  <2>4. QED
    BY <2>2, <2>3 DEF HoldsInOrder
<1>2. IInv /\ HoldsInOrder => NoCircularWait
  <2>1. SUFFICES ASSUME IInv, HoldsInOrder,
                        NEW group \in SUBSET Requests, group # {}
                 PROVE  \E h \in group : \A g \in group : ~WaitsFor(h, g)
    BY DEF NoCircularWait
  <2>2. ASSUME NEW h \in group, NEW g \in group, WaitsFor(h, g)
        PROVE  \/ stage[h] \in {"none", "expire"} /\ stage[g] \in Copying
               \/ stage[h] = "tenant" /\ stage[g] \in {"public", "commit"}
               \/ stage[h] = "public" /\ stage[g] = "commit"
    BY <2>1, <2>2, WaitsForFurther
  <2>3. CASE \E h \in group : stage[h] = "commit"
    BY <2>2, <2>3
  <2>4. CASE /\ \A h \in group : stage[h] # "commit"
             /\ \E h \in group : stage[h] = "public"
    BY <2>2, <2>4
  <2>5. CASE /\ \A h \in group : stage[h] \notin {"commit", "public"}
             /\ \E h \in group : stage[h] = "tenant"
    BY <2>2, <2>5
  <2>6. CASE \A h \in group : stage[h] \notin Copying
    BY <2>1, <2>2, <2>6
  <2>7. QED
    BY <2>3, <2>4, <2>5, <2>6 DEF Copying
<1>3. QED
  BY <1>1, <1>2, OrderNext, AccessInvariant, PTL DEF Spec

\* NoCircularWait leaves no wait out: whoever is kept from its next statement
\* by rows another transaction has changed waits for somebody in its sense.
LEMMA NobodyElseWaits ==
    ASSUME NEW h \in Requests,
           \/ \E t \in Tables : stage[h] = t /\ ~Runs(h, t)
           \/ /\ stage[h] = "expire"
              /\ tx[h].seen \cap Held(h, "tenant") # {}
           \/ /\ stage[h] = "none" /\ Due(h) = "kick"
              /\ \E g \in Requests \ {h} : tx[g].kick
    PROVE  \E g \in Requests : WaitsFor(h, g)
<1>1. ASSUME NEW t \in Tables, stage[h] = t, ~Runs(h, t)
      PROVE  \E g \in Requests : WaitsFor(h, g)
  <2>1. PICK row \in Sees(h, t) : row \in Held(h, t)
    BY <1>1 DEF Runs
  <2>2. PICK g \in Requests \ {h} : row \in tx[g].del[t]
    BY <2>1 DEF Held
  <2>3. Sees(h, t) \cap tx[g].del[t] # {}
    BY <2>1, <2>2
  <2>4. WaitsFor(h, g)
    BY <1>1, <2>2, <2>3 DEF WaitsFor
  <2>5. QED
    BY <2>2, <2>4
<1>2. ASSUME stage[h] = "expire", tx[h].seen \cap Held(h, "tenant") # {}
      PROVE  \E g \in Requests : WaitsFor(h, g)
  <2>1. PICK row \in tx[h].seen : row \in Held(h, "tenant")
    BY <1>2
  <2>2. PICK g \in Requests \ {h} : row \in tx[g].del["tenant"]
    BY <2>1 DEF Held
  <2>3. tx[h].seen \cap tx[g].del["tenant"] # {}
    BY <2>1, <2>2
  <2>4. WaitsFor(h, g)
    BY <1>2, <2>2, <2>3 DEF WaitsFor
  <2>5. QED
    BY <2>2, <2>4
<1>3. ASSUME NEW g \in Requests \ {h}, stage[h] = "none", Due(h) = "kick",
             tx[g].kick
      PROVE  WaitsFor(h, g)
  BY <1>3 DEF WaitsFor
<1>4. QED
  BY <1>1, <1>2, <1>3

=============================================================================
