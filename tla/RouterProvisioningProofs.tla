---------------------- MODULE RouterProvisioningProofs ----------------------
(***************************************************************************)
(* What RouterProvisioning guarantees for every set of tenants, routers,   *)
(* addresses and requests: the file of a router's certificate pushes the   *)
(* router's own address, or none while or after a write of it is cut       *)
(* short; no two routers of a tenant are pushed the same address; and a    *)
(* router has one active certificate at most, as long as the requests on   *)
(* it do not overlap.                                                      *)
(***************************************************************************)
EXTENDS RouterProvisioning, TLAPS

Provisioning == {"assign", "find", "revoke", "write", "flush", "save", "commit"}
Addressed == {"find", "revoke", "write", "flush", "save", "commit"}
Signed == {"write", "flush", "save", "commit"}

\* A request in flight has its router to itself, or the router says so.
Alone ==
    /\ \A h \in Requests : At(h, "idle") <=> Target(h) = NoRouter
    /\ \A h \in solo : /\ ~At(h, "idle")
                       /\ \A g \in Requests : Target(g) = Target(h) => g = h
    /\ \A h \in Requests \ solo :
          At(h, "idle") \/ Target(h) \in suspect \cap disturbed

\* Only a router with an address counts as provisioned.
Columns ==
    /\ \A r \in Routers : router[r].provisioned => router[r].ip # None
    /\ \A h \in Requests :
          /\ req[h].obj.provisioned => req[h].obj.ip # None
          /\ req[h].stage \in Addressed => req[h].ip # None

\* No key refers to a certificate that is still to be inserted.
KnownKey(k) == /\ k <= issued
               /\ \A g \in Requests : req[g].stage \in Signed => req[g].new # k

CommittedKeys == \A k \in Keys : certs[k].status # "none" => KnownKey(k)

KnownKeys ==
    /\ \A r \in Routers : router[r].cert # None => KnownKey(router[r].cert)
    /\ \A h \in Requests :
          /\ req[h].obj.cert # None =>
                /\ KnownKey(req[h].obj.cert)
                /\ certs[req[h].obj.cert].router = Target(h)
          /\ req[h].old # None =>
                /\ KnownKey(req[h].old)
                /\ certs[req[h].old].router = Target(h)
          /\ req[h].stage \in Signed =>
                /\ req[h].new \in 1 .. issued
                /\ \A g \in Requests \ {h} :
                      req[g].stage \in Signed => req[g].new # req[h].new
    /\ \A r \in Routers :
          Live(r) /\ router[r].cert # None => certs[router[r].cert].router = r

\* What a request that has its router to itself works with is the row.
CurrentObject ==
    \A h \in solo :
        LET r == Target(h)
            row == req[h].obj
        IN  /\ req[h].stage \in Provisioning /\ Live(r) =>
                  /\ row.ip = router[r].ip
                  /\ req[h].stage \in Addressed /\ router[r].ip # None =>
                        req[h].ip = router[r].ip
            /\ At(h, "full") =>
                  \/ row.cert = None
                  \/ certs[row.cert].status = "none"
                  \/ /\ Live(r)
                     /\ row.ip = router[r].ip
                     /\ row.cert = router[r].cert
                     /\ row.provisioned = router[r].provisioned

\* The file such a request has written is still as it wrote it.
FileWritten ==
    \A h \in solo :
        req[h].stage \in {"save", "commit"} =>
            (writers[CommonName(h)] = {Target(h)} =>
                /\ ccd[CommonName(h)] = req[h].ip
                /\ CommonName(h) \notin torn)

\* Nobody else holds the lock.
RowMine(h, r) ==
    \A g \in Requests \ {h} : At(g, "commit") => Target(g) # r
AddressMine(h, r, ip) ==
    \A g \in Requests \ {h} :
        At(g, "commit") /\ Target(g) \in Siblings(r) => req[g].ip # ip

\* Addresses are unique in a tenant, committed or staged.
UniqueAddresses ==
    /\ \A r \in Routers : Live(r) => ~Taken(r, router[r].ip)
    /\ \A h \in Requests :
          At(h, "commit") =>
              /\ Live(Target(h))
              /\ ~Taken(Target(h), req[h].ip)
              /\ RowMine(h, Target(h))
              /\ AddressMine(h, Target(h), req[h].ip)

\* The certificate a request is about to replace is the only active one.
OldIsTheOne ==
    \A h \in Requests :
        LET r == Target(h)
        IN  ~At(h, "idle") /\ r \notin disturbed =>
                /\ req[h].stage \in Signed \cup {"revoke", "force"} =>
                      Active(r) \subseteq {req[h].old}
                /\ At(h, "sign") => Active(r) = {}
                /\ ~At(h, "add")

IInv ==
    /\ TypeOK
    /\ Alone
    /\ Columns
    /\ CommittedKeys
    /\ KnownKeys
    /\ CurrentObject
    /\ FileWritten
    /\ OwnAddressPushed
    /\ UniqueAddresses
    /\ OldIsTheOne
    /\ OneActiveCertificate

-----------------------------------------------------------------------------
LEMMA NoRequestType == /\ BlankRow \in Row
                       /\ NoRequest \in Request
                       /\ NoCertificate \in Certificate
<1>1. (CHOOSE n \in Names : TRUE) \in Names
  BY ProvisioningAssumption
<1>2. (CHOOSE r \in Routers : TRUE) \in Routers
  BY ProvisioningAssumption
<1>3. CommonNames # {}
  <2>1. PICK r \in Tenants \X Ids, n \in Names : TRUE
    BY ProvisioningAssumption
  <2>2. <<r[2], n>> \in CommonNames
    BY DEF CommonNames
  <2>3. QED
    BY <2>2
<1>4. (CHOOSE c \in CommonNames : TRUE) \in CommonNames
  BY <1>3
<1>5. BlankRow \in Row
  BY <1>1 DEF BlankRow, Row
<1>6. NoCertificate \in Certificate
  BY <1>2, <1>4 DEF NoCertificate, Certificate
<1>7. NoRequest \in Request
  BY <1>5 DEF NoRequest, Request, Stages
<1>8. QED
  BY <1>5, <1>6, <1>7

LEMMA InitInvariant == Init => IInv
<1> SUFFICES ASSUME Init
             PROVE  IInv
  OBVIOUS
<1> USE DEF Init
<1>1. TypeOK
  BY NoRequestType, ProvisioningAssumption DEF TypeOK
<1>2. \A r \in Routers : /\ ~Live(r)
                         /\ router[r].ip = None
                         /\ router[r].cert = None
                         /\ ~router[r].provisioned
  BY DEF Live, BlankRow
<1>3. \A h \in Requests : /\ At(h, "idle")
                          /\ Target(h) = NoRouter
                          /\ req[h].obj.cert = None
                          /\ ~req[h].obj.provisioned
                          /\ req[h].old = None
                          /\ req[h].stage = "idle"
  BY DEF At, Target, NoRequest, BlankRow
<1>4. \A r \in Routers : Active(r) = {}
  BY DEF Active, NoCertificate
<1> HIDE DEF Init
<1>5. Alone
  BY <1>3 DEF Init, Alone
<1>6. Columns
  BY <1>2, <1>3 DEF Columns, Addressed
<1>7. KnownKeys /\ CommittedKeys
  BY <1>2, <1>3 DEF Init, KnownKeys, CommittedKeys, Signed, NoCertificate
<1>8. CurrentObject /\ FileWritten
  BY DEF Init, CurrentObject, FileWritten
<1>9. OwnAddressPushed
  BY <1>2 DEF OwnAddressPushed, Tunnelled
<1>10. UniqueAddresses
  BY <1>2, <1>3 DEF UniqueAddresses, At
<1>11. OldIsTheOne
  BY <1>3 DEF OldIsTheOne
<1>12. OneActiveCertificate
  BY <1>4 DEF OneActiveCertificate
<1>13. QED
  BY <1>1, <1>5, <1>6, <1>7, <1>8, <1>9, <1>10, <1>11, <1>12 DEF IInv

-----------------------------------------------------------------------------
(***************************************************************************)
(* Requests that end, and move on.                                         *)
(***************************************************************************)
LEMMA Ended ==
    ASSUME TypeOK, NEW h \in Requests, End(h)
    PROVE  /\ req' \in [Requests -> Request]
           /\ req'[h] = NoRequest
           /\ \A g \in Requests \ {h} : req'[g] = req[g]
           /\ solo' = solo \ {h}
           /\ solo' \in SUBSET Requests
  BY NoRequestType DEF TypeOK, End

\* When a request ends, Alone is kept unless a router in flight is cleared.
LEMMA EndKeepsAlone ==
    ASSUME TypeOK, Alone, NEW h \in Requests, End(h),
           disturbed' = disturbed,
           \A g \in Requests \ {h} :
              Target(g) \in suspect /\ g \notin solo => Target(g) \in suspect'
    PROVE  Alone'
<1>1. /\ req'[h] = NoRequest
      /\ \A g \in Requests \ {h} : req'[g] = req[g]
      /\ solo' = solo \ {h}
      /\ solo \subseteq Requests
  BY Ended DEF TypeOK
<1>2. At(h, "idle")' /\ Target(h)' = NoRouter
  BY <1>1 DEF At, Target, NoRequest
<1>3. \A g \in Requests \ {h} :
         /\ At(g, "idle")' <=> At(g, "idle")
         /\ Target(g)' = Target(g)
  BY <1>1 DEF At, Target
<1>4. \A g \in solo' : /\ ~At(g, "idle")'
                       /\ Target(g)' # NoRouter
                       /\ \A f \in Requests : Target(f)' = Target(g)' => f = g
  BY <1>1, <1>2, <1>3 DEF Alone
<1>5. QED
  BY <1>1, <1>2, <1>3, <1>4 DEF Alone

LEMMA Moved ==
    ASSUME TypeOK, Alone, NEW h \in Requests, NEW x \in Request,
           req' = [req EXCEPT ![h] = x], x.router = Target(h),
           ~At(h, "idle"), x.stage # "idle",
           UNCHANGED <<solo, suspect, disturbed>>
    PROVE  /\ req' \in [Requests -> Request]
           /\ req'[h] = x
           /\ \A g \in Requests \ {h} : req'[g] = req[g]
           /\ solo \subseteq Requests
           /\ Alone'
<1>1. /\ req' \in [Requests -> Request]
      /\ req'[h] = x
      /\ \A g \in Requests \ {h} : req'[g] = req[g]
  BY DEF TypeOK
<1>2. \A g \in Requests : /\ At(g, "idle")' <=> At(g, "idle")
                          /\ Target(g)' = Target(g)
  BY <1>1 DEF At, Target
<1>3. QED
  BY <1>1, <1>2 DEF Alone, TypeOK

LEMMA KeysStayKnown ==
    ASSUME TypeOK, issued' \in Nat, issued <= issued',
           \A g \in Requests : req'[g].stage \in Signed =>
              \/ req[g].stage \in Signed /\ req'[g].new = req[g].new
              \/ req'[g].new = issued + 1,
           NEW k \in Nat, KnownKey(k)
    PROVE  KnownKey(k)'
  BY DEF TypeOK, KnownKey

LEMMA KeyTypes ==
    ASSUME TypeOK
    PROVE  /\ \A r \in Routers : router[r].cert \in Nat
           /\ \A h \in Requests : /\ req[h].obj.cert \in Nat
                                  /\ req[h].old \in Nat
                                  /\ req[h].new \in Nat
                                  /\ Target(h) \in Routers \cup {NoRouter}
           /\ issued \in Nat
<1>1. Keys \cup {None} \subseteq Nat
  BY ProvisioningAssumption DEF Keys, None
<1>2. \A r \in Routers : router[r] \in Row
  BY DEF TypeOK
<1>3. \A h \in Requests : req[h] \in Request
  BY DEF TypeOK
<1>4. \A h \in Requests : req[h].obj \in Row
  BY <1>3 DEF Request
<1>5. issued \in Nat
  BY ProvisioningAssumption DEF TypeOK
<1>6. QED
  BY <1>1, <1>2, <1>3, <1>4, <1>5 DEF Row, Request, Target

LEMMA RowsUnchanged ==
    ASSUME IInv, UNCHANGED <<router, certs, ccd, writers, torn, suspect, disturbed>>
    PROVE  OwnAddressPushed' /\ OneActiveCertificate'
  BY DEF IInv, OwnAddressPushed, Tunnelled, Live, Pushed, FileOf,
         OneActiveCertificate, Active

LEMMA EndInvariant ==
    ASSUME IInv, NEW h \in Requests, End(h),
           UNCHANGED <<router, certs, issued, ccd, begun, writers, torn, suspect,
                       disturbed>>,
           faults' \in Nat
    PROVE  IInv'
<1>1. /\ req' \in [Requests -> Request]
      /\ req'[h] = NoRequest
      /\ \A g \in Requests \ {h} : req'[g] = req[g]
      /\ solo' = solo \ {h}
      /\ solo' \in SUBSET Requests
  BY Ended DEF IInv
<1>2. /\ req'[h].stage = "idle"
      /\ req'[h].obj.cert = None
      /\ ~req'[h].obj.provisioned
      /\ req'[h].old = None
  BY <1>1 DEF NoRequest, BlankRow
<1>3. TypeOK'
  BY <1>1 DEF IInv, TypeOK
<1>4. Alone'
  BY EndKeepsAlone DEF IInv
<1>5. Columns'
  BY <1>1, <1>2 DEF IInv, Columns, Addressed
<1>6. KnownKeys' /\ CommittedKeys'
  <2>1. \A k \in Nat : KnownKey(k) => KnownKey(k)'
    BY <1>1, <1>2, KeysStayKnown DEF IInv, TypeOK, Signed
  <2>2. CommittedKeys'
    BY <2>1, KeyTypes DEF IInv, CommittedKeys, Keys
  <2>3. QED
    BY <1>1, <1>2, <2>1, <2>2, KeyTypes
       DEF IInv, KnownKeys, Signed, Live, Target
<1>7. CurrentObject'
  BY <1>1, <1>2 DEF IInv, CurrentObject, Provisioning, Addressed, At, Live,
                    Target
<1>8. FileWritten'
  BY <1>1, <1>2 DEF IInv, FileWritten, CommonName, Target
<1>9. UniqueAddresses'
  BY <1>1, <1>2 DEF IInv, UniqueAddresses, At, Live, Taken, RowMine,
                    AddressMine, Target
<1>10. OldIsTheOne'
  BY <1>1, <1>2 DEF IInv, OldIsTheOne, At, Target, Active
<1>11. QED
  BY <1>3, <1>4, <1>5, <1>6, <1>7, <1>8, <1>9, <1>10, RowsUnchanged DEF IInv

LEMMA FailInvariant ==
    ASSUME IInv, NEW h \in Requests, Fail(h) \/ FailFile(h) \/ Crash(h)
    PROVE  IInv'
<1>1. End(h)
  BY DEF Fail, FailFile, Crash
<1>2. /\ UNCHANGED <<router, certs, issued, ccd, begun, writers, torn, suspect,
                     disturbed>>
      /\ faults' \in Nat
  BY DEF Fail, FailFile, Crash, IInv, TypeOK
<1>3. QED
  BY <1>1, <1>2, EndInvariant

-----------------------------------------------------------------------------
(***************************************************************************)
(* The steps of provision_router.                                          *)
(***************************************************************************)
LEMMA AssignInvariant ==
    ASSUME IInv, NEW h \in Requests, AssignAddress(h)
    PROVE  IInv'
<1>1. CASE Fail(h)
  BY <1>1, FailInvariant
<1>2. CASE ~Fail(h)
  <2>1. PICK ip \in Candidates(h) :
           /\ At(h, "assign")
           /\ req' = [req EXCEPT ![h].ip = ip, ![h].stage = "find"]
           /\ UNCHANGED <<router, certs, issued, ccd, faults, history>>
    BY <1>2 DEF AssignAddress
  <2>2. /\ ip \in Addresses
        /\ req[h].obj.ip # None => ip = req[h].obj.ip
    <3>1. req[h].obj.ip \in Addresses \cup {None}
      BY DEF IInv, TypeOK, Request, Row
    <3>2. QED
      BY <2>1, <3>1 DEF Candidates, Lowest, Untaken
  <2> DEFINE x == [req[h] EXCEPT !.ip = ip, !.stage = "find"]
  <2>3. req[h] \in Request
    BY DEF IInv, TypeOK
  <2>4. /\ x \in Request
        /\ x.router = Target(h) /\ x.stage = "find" /\ x.ip = ip
        /\ x.obj = req[h].obj /\ x.old = req[h].old /\ x.new = req[h].new
    BY <2>2, <2>3 DEF Request, Stages, Target
  <2>5. req' = [req EXCEPT ![h] = x]
    BY <2>1
  <2>6. req[h].stage = "assign"
    BY <2>1 DEF At
  <2> HIDE DEF x
  <2>7. /\ req' \in [Requests -> Request]
        /\ req'[h] = x
        /\ \A g \in Requests \ {h} : req'[g] = req[g]
        /\ solo \subseteq Requests
        /\ Alone'
    BY <2>1, <2>4, <2>5, <2>6, Moved DEF IInv, At, history
  <2>8. ip # None
    BY <2>2, ProvisioningAssumption DEF None
  <2>9. TypeOK'
    BY <2>1, <2>7 DEF IInv, TypeOK, history
  <2>10. Columns'
    BY <2>1, <2>4, <2>7, <2>8 DEF IInv, Columns, Addressed
  <2>11. KnownKeys' /\ CommittedKeys'
    <3>1. \A k \in Nat : KnownKey(k) => KnownKey(k)'
      BY <2>1, <2>4, <2>7, KeysStayKnown, KeyTypes DEF IInv, Signed
    <3>2. CommittedKeys'
      BY <2>1, <3>1 DEF IInv, CommittedKeys, Keys
    <3>3. QED
      BY <2>1, <2>4, <2>7, <3>1, <3>2, KeyTypes
         DEF IInv, KnownKeys, Signed, Live, Target
  <2>12. CurrentObject'
    BY <2>1, <2>2, <2>4, <2>6, <2>7
       DEF IInv, CurrentObject, Provisioning, Addressed, At, Live, Target,
           history
  <2>13. FileWritten'
    BY <2>1, <2>4, <2>7 DEF IInv, FileWritten, CommonName, Target, history
  <2>14. UniqueAddresses'
    BY <2>1, <2>4, <2>6, <2>7
       DEF IInv, UniqueAddresses, At, Live, Taken, RowMine, AddressMine, Target
  <2>15. OldIsTheOne'
    BY <2>1, <2>4, <2>7
       DEF IInv, OldIsTheOne, At, Target, Active, Signed, history
  <2>16. QED
    BY <2>1, <2>9, <2>7, <2>10, <2>11, <2>12, <2>13, <2>14, <2>15,
       RowsUnchanged DEF IInv, history
<1>3. QED
  BY <1>1, <1>2

\* The certificate looked for is the only active one, if there is only one.
LEMMA FirstOfOne ==
    ASSUME NEW ks \in SUBSET Keys, \A j, k \in ks : j = k, NEW k \in First(ks)
    PROVE  ks \subseteq {k}
  BY DEF First

LEMMA FindInvariant ==
    ASSUME IInv, NEW h \in Requests, FindCertificate(h)
    PROVE  IInv'
<1>1. PICK old \in First(Active(Target(h))) :
         req' = [req EXCEPT ![h].old = old, ![h].stage = "revoke"]
  BY DEF FindCertificate
<1>2. /\ req[h].stage = "find"
      /\ UNCHANGED <<router, certs, issued, ccd, faults, history>>
  BY DEF FindCertificate, At
<1>3. /\ Active(Target(h)) \subseteq Keys
      /\ old \in Active(Target(h)) \cup {None}
  BY DEF First, Active
<1> DEFINE x == [req[h] EXCEPT !.old = old, !.stage = "revoke"]
<1>4. req[h] \in Request
  BY DEF IInv, TypeOK
<1>5. /\ x \in Request
      /\ x.router = Target(h) /\ x.stage = "revoke" /\ x.ip = req[h].ip
      /\ x.obj = req[h].obj /\ x.old = old /\ x.new = req[h].new
  BY <1>3, <1>4 DEF Request, Stages, Target
<1>6. req' = [req EXCEPT ![h] = x]
  BY <1>1
<1> HIDE DEF x
<1>7. /\ req' \in [Requests -> Request]
      /\ req'[h] = x
      /\ \A g \in Requests \ {h} : req'[g] = req[g]
      /\ solo \subseteq Requests
      /\ Alone'
  BY <1>2, <1>5, <1>6, Moved DEF IInv, At, history
<1>8. TypeOK'
  BY <1>2, <1>7 DEF IInv, TypeOK, history
<1>9. Columns'
  BY <1>2, <1>5, <1>7 DEF IInv, Columns, Addressed
<1>10. KnownKeys' /\ CommittedKeys'
  <2>1. \A k \in Nat : KnownKey(k) => KnownKey(k)'
    BY <1>2, <1>5, <1>7, KeysStayKnown, KeyTypes DEF IInv, Signed
  <2>2. old # None => KnownKey(old) /\ certs[old].router = Target(h)
    BY <1>3 DEF Active, IInv, CommittedKeys
  <2>3. old \in Nat
    BY <1>3, ProvisioningAssumption DEF Keys, None
  <2>4. CommittedKeys'
    BY <1>2, <2>1 DEF IInv, CommittedKeys, Keys
  <2>5. QED
    BY <1>2, <1>5, <1>7, <2>1, <2>2, <2>3, <2>4, KeyTypes
       DEF IInv, KnownKeys, Signed, Live, Target
<1>11. CurrentObject'
  BY <1>2, <1>5, <1>7
     DEF IInv, CurrentObject, Provisioning, Addressed, At, Live, Target, history
<1>12. FileWritten'
  BY <1>2, <1>5, <1>7 DEF IInv, FileWritten, CommonName, Target, history
<1>13. UniqueAddresses'
  BY <1>2, <1>5, <1>7
     DEF IInv, UniqueAddresses, At, Live, Taken, RowMine, AddressMine, Target
<1>14. OldIsTheOne'
  <2>1. Target(h) \in Routers
    BY <1>2, KeyTypes DEF IInv, Alone, At
  <2>2. Target(h) \notin disturbed => Active(Target(h)) \subseteq {old}
    BY <1>3, <2>1, FirstOfOne DEF IInv, OneActiveCertificate
  <2>3. QED
    BY <1>2, <1>5, <1>7, <2>2
       DEF IInv, OldIsTheOne, At, Target, Active, Signed, history
<1>15. QED
  BY <1>2, <1>7, <1>8, <1>9, <1>10, <1>11, <1>12, <1>13, <1>14, RowsUnchanged
     DEF IInv, history

LEMMA CertifyInvariant ==
    ASSUME IInv, NEW h \in Requests, Certify(h)
    PROVE  IInv'
<1>1. CASE Fail(h)
  BY <1>1, FailInvariant
<1>2. CASE ~Fail(h)
  <2>1. /\ req[h].stage = "revoke"
        /\ issued < MaxRequests
        /\ issued' = issued + 1
        /\ req' = [req EXCEPT ![h].new = issued', ![h].stage = "write"]
        /\ UNCHANGED <<router, certs, ccd, faults, history>>
    BY <1>2 DEF Certify, At
  <2>2. issued \in 0 .. MaxRequests /\ issued' \in 1 .. MaxRequests
    BY <2>1, ProvisioningAssumption DEF IInv, TypeOK
  <2> DEFINE x == [req[h] EXCEPT !.new = issued', !.stage = "write"]
  <2>3. req[h] \in Request
    BY DEF IInv, TypeOK
  <2>4. /\ x \in Request
        /\ x.router = Target(h) /\ x.stage = "write" /\ x.ip = req[h].ip
        /\ x.obj = req[h].obj /\ x.old = req[h].old /\ x.new = issued'
    BY <2>2, <2>3 DEF Request, Stages, Target, Keys
  <2>5. req' = [req EXCEPT ![h] = x]
    BY <2>1
  <2> HIDE DEF x
  <2>6. /\ req' \in [Requests -> Request]
        /\ req'[h] = x
        /\ \A g \in Requests \ {h} : req'[g] = req[g]
        /\ solo \subseteq Requests
        /\ Alone'
    BY <2>1, <2>4, <2>5, Moved DEF IInv, At, history
  <2>7. TypeOK'
    BY <2>1, <2>2, <2>6 DEF IInv, TypeOK, history
  <2>8. Columns'
    BY <2>1, <2>4, <2>6 DEF IInv, Columns, Addressed
  <2>9. KnownKeys' /\ CommittedKeys'
    <3>1. \A k \in Nat : KnownKey(k) => KnownKey(k)'
      BY <2>1, <2>2, <2>4, <2>6, KeysStayKnown, KeyTypes DEF IInv, Signed
    <3>2. CommittedKeys'
      BY <2>1, <3>1 DEF IInv, CommittedKeys, Keys
    <3>3. \A g \in Requests \ {h} :
             req[g].stage \in Signed => /\ req[g].new \in 1 .. issued
                                        /\ req[g].new # issued'
      BY <2>1, <2>2 DEF IInv, KnownKeys
    <3>4. QED
      BY <2>1, <2>2, <2>4, <2>6, <3>1, <3>2, <3>3, KeyTypes
         DEF IInv, KnownKeys, Signed, Live, Target
  <2>10. CurrentObject'
    BY <2>1, <2>4, <2>6
       DEF IInv, CurrentObject, Provisioning, Addressed, At, Live, Target,
           history
  <2>11. FileWritten'
    BY <2>1, <2>4, <2>6 DEF IInv, FileWritten, CommonName, Target, history
  <2>12. UniqueAddresses'
    BY <2>1, <2>4, <2>6
       DEF IInv, UniqueAddresses, At, Live, Taken, RowMine, AddressMine, Target
  <2>13. OldIsTheOne'
    BY <2>1, <2>4, <2>6
       DEF IInv, OldIsTheOne, At, Target, Active, Signed, history
  <2>14. QED
    BY <2>1, <2>6, <2>7, <2>8, <2>9, <2>10, <2>11, <2>12, <2>13, RowsUnchanged
       DEF IInv, history
<1>3. QED
  BY <1>1, <1>2

\* Opening a file or writing it: the file is the writer's own from then on,
\* unless it was another router's.
LEMMA FileInvariant ==
    ASSUME IInv, NEW h \in Requests, OpenFile(h) \/ WriteFile(h)
    PROVE  IInv'
<1> DEFINE opens == req[h].stage = "write"
           st == IF opens THEN "flush" ELSE "save"
           x == [req[h] EXCEPT !.stage = st]
           cn == CommonName(h)
           v == IF opens THEN None ELSE req[h].ip
<1>1. /\ req[h].stage \in {"write", "flush"}
      /\ req' = [req EXCEPT ![h] = x]
      /\ ccd' = [ccd EXCEPT ![cn] = v]
      /\ writers' = [writers EXCEPT ![cn] = @ \cup {Target(h)}]
      /\ torn' = IF opens THEN torn \cup {cn} ELSE torn \ {cn}
      /\ UNCHANGED <<router, certs, issued, faults, begun, solo, suspect,
                     disturbed>>
  BY DEF OpenFile, WriteFile, PutFile, At, Goto
<1>2. req[h] \in Request
  BY DEF IInv, TypeOK
<1>3. /\ x \in Request
      /\ x.router = Target(h) /\ x.stage = st /\ x.ip = req[h].ip
      /\ x.obj = req[h].obj /\ x.old = req[h].old /\ x.new = req[h].new
  BY <1>2 DEF Request, Stages, Target
<1>0. /\ st \in {"flush", "save"} /\ (st = "save" <=> ~opens)
      /\ opens => v = None
      /\ ~opens => v = req[h].ip
  OBVIOUS
<1> HIDE DEF x, st, v
<1>4. /\ req' \in [Requests -> Request]
      /\ req'[h] = x
      /\ \A g \in Requests \ {h} : req'[g] = req[g]
      /\ solo \subseteq Requests
      /\ Alone'
  BY <1>0, <1>1, <1>3, Moved DEF IInv, At
<1>5. /\ Target(h) \in Routers
      /\ req[h].ip \in Addresses \cup {None}
      /\ cn \in CommonNames
  <2>1. Target(h) \in Routers
    BY <1>1, KeyTypes DEF IInv, Alone, At
  <2>2. IdOf(Target(h)) \in Ids
    BY <2>1, ProvisioningAssumption DEF IdOf
  <2>3. req[h].obj.name \in Names /\ req[h].ip \in Addresses \cup {None}
    BY <1>2 DEF Request, Row
  <2>4. QED
    BY <2>1, <2>2, <2>3 DEF CommonName, CommonNames
<1> HIDE DEF cn
<1>6. /\ ccd \in [CommonNames -> Addresses \cup {None}]
      /\ writers \in [CommonNames -> SUBSET Routers]
  BY DEF IInv, TypeOK
<1>7. TypeOK'
  BY <1>0, <1>1, <1>4, <1>5, <1>6 DEF IInv, TypeOK, None
<1>8. Columns'
  BY <1>0, <1>1, <1>3, <1>4 DEF IInv, Columns, Addressed
<1>9. KnownKeys' /\ CommittedKeys'
  <2>1. \A k \in Nat : KnownKey(k) => KnownKey(k)'
    BY <1>0, <1>1, <1>3, <1>4, KeysStayKnown, KeyTypes DEF IInv, Signed
  <2>2. CommittedKeys'
    BY <1>1, <2>1 DEF IInv, CommittedKeys, Keys
  <2>3. QED
    BY <1>0, <1>1, <1>3, <1>4, <2>1, <2>2, KeyTypes
       DEF IInv, KnownKeys, Signed, Live, Target
<1>10. CurrentObject'
  BY <1>0, <1>1, <1>3, <1>4
     DEF IInv, CurrentObject, Provisioning, Addressed, At, Live, Target
<1>11. \A g \in Requests : /\ Target(g)' = Target(g)
                           /\ CommonName(g)' = CommonName(g)
                           /\ req'[g].ip = req[g].ip
  BY <1>3, <1>4 DEF Target, CommonName
<1>12. \A c \in CommonNames : c # cn => /\ ccd'[c] = ccd[c]
                                        /\ writers'[c] = writers[c]
                                        /\ c \in torn' <=> c \in torn
  BY <1>1, <1>6
<1>13. /\ ccd'[cn] = v /\ Target(h) \in writers'[cn]
       /\ cn \in torn' <=> opens
  BY <1>1, <1>5, <1>6
<1>14. FileWritten'
  <2> SUFFICES ASSUME NEW g \in solo, req'[g].stage \in {"save", "commit"},
                      writers'[CommonName(g)] = {Target(g)}
               PROVE  /\ ccd'[CommonName(g)] = req[g].ip
                      /\ CommonName(g) \notin torn'
    BY <1>1, <1>4, <1>11 DEF FileWritten
  <2>1. CASE g = h
    BY <2>1, <1>0, <1>3, <1>4, <1>13 DEF cn
  <2>2. CASE g # h
    <3>1. Target(g) # Target(h)
      BY <1>4, <2>2 DEF IInv, Alone
    <3>2. CommonName(g) # cn
      BY <1>13, <3>1
    <3>3. req[g].stage \in {"save", "commit"}
      BY <1>4, <2>2
    <3>4. CommonName(g) \in CommonNames
      <4>1. Target(g) \in Routers /\ req[g] \in Request
        BY <1>4, <3>3, KeyTypes DEF IInv, Alone, At, TypeOK
      <4>2. IdOf(Target(g)) \in Ids /\ req[g].obj.name \in Names
        BY <4>1, ProvisioningAssumption DEF IdOf, Request, Row
      <4>3. QED
        BY <4>2 DEF CommonName, CommonNames
    <3>5. QED
      BY <1>4, <1>12, <3>2, <3>3, <3>4 DEF IInv, FileWritten
  <2>3. QED
    BY <2>1, <2>2
<1>15. OwnAddressPushed'
  <2> SUFFICES ASSUME NEW r \in Routers \ suspect, Tunnelled(r)'
               PROVE  Pushed(r)' = IF FileOf(r)' \in torn' THEN None
                                      ELSE router[r].ip
    BY <1>1 DEF OwnAddressPushed
  <2> DEFINE c == certs[router[r].cert].cn
  <2>1. /\ Live(r) /\ router[r].provisioned /\ router[r].cert # None
        /\ writers'[c] = {r}
    BY <1>1 DEF Tunnelled, FileOf, Live
  <2>2. c \in CommonNames
    <3>1. router[r].cert \in Keys
      BY <2>1 DEF IInv, TypeOK, Row
    <3>2. QED
      BY <3>1 DEF IInv, TypeOK, Certificate
  <2>3. CASE c # cn
    BY <1>1, <1>12, <2>1, <2>2, <2>3
       DEF IInv, OwnAddressPushed, Tunnelled, Pushed, FileOf, Live
  <2>4. CASE c = cn
    <3>1. Target(h) = r
      BY <1>13, <2>1, <2>4
    <3>2. h \in solo
      BY <1>1, <3>1 DEF IInv, Alone, At
    <3>3. router[r].ip # None
      BY <2>1 DEF IInv, Columns
    <3>4. req[h].ip = router[r].ip
      BY <1>1, <2>1, <3>1, <3>2, <3>3
         DEF IInv, CurrentObject, Provisioning, Addressed
    <3>5. QED
      BY <1>0, <1>1, <1>13, <2>4, <3>4 DEF Pushed, FileOf
  <2>5. QED
    BY <2>3, <2>4
<1>16. UniqueAddresses'
  BY <1>0, <1>1, <1>3, <1>4
     DEF IInv, UniqueAddresses, At, Live, Taken, RowMine, AddressMine, Target
<1>17. OldIsTheOne'
  BY <1>0, <1>1, <1>3, <1>4 DEF IInv, OldIsTheOne, At, Target, Active, Signed
<1>18. OneActiveCertificate'
  BY <1>1 DEF IInv, OneActiveCertificate, Active
<1>19. QED
  BY <1>4, <1>7, <1>8, <1>9, <1>10, <1>14, <1>15, <1>16, <1>17, <1>18 DEF IInv

LEMMA SaveTunnelInvariant ==
    ASSUME IInv, NEW h \in Requests, SaveTunnel(h)
    PROVE  IInv'
<1>1. CASE Fail(h)
  BY <1>1, FailInvariant
<1>2. CASE ~Fail(h)
  <2> DEFINE x == [req[h] EXCEPT !.stage = "commit"]
             r == Target(h)
  <2>1. /\ req[h].stage = "save"
        /\ req' = [req EXCEPT ![h] = x]
        /\ UNCHANGED <<router, certs, issued, ccd, faults, history>>
        /\ Live(r) /\ ~Taken(r, req[h].ip)
        /\ RowMine(h, r) /\ AddressMine(h, r, req[h].ip)
    BY <1>2 DEF SaveTunnel, At, Goto, RowFree, AddressFree, RowMine, AddressMine
  <2>2. req[h] \in Request
    BY DEF IInv, TypeOK
  <2>3. /\ x \in Request
        /\ x.router = Target(h) /\ x.stage = "commit" /\ x.ip = req[h].ip
        /\ x.obj = req[h].obj /\ x.old = req[h].old /\ x.new = req[h].new
    BY <2>2 DEF Request, Stages, Target
  <2> HIDE DEF x, r
  <2>4. /\ req' \in [Requests -> Request]
        /\ req'[h] = x
        /\ \A g \in Requests \ {h} : req'[g] = req[g]
        /\ solo \subseteq Requests
        /\ Alone'
    BY <2>1, <2>3, Moved DEF IInv, At, history
  <2>5. TypeOK'
    BY <2>1, <2>4 DEF IInv, TypeOK, history
  <2>6. Columns'
    BY <2>1, <2>3, <2>4 DEF IInv, Columns, Addressed
  <2>7. KnownKeys' /\ CommittedKeys'
    <3>1. \A k \in Nat : KnownKey(k) => KnownKey(k)'
      BY <2>1, <2>3, <2>4, KeysStayKnown, KeyTypes DEF IInv, Signed
    <3>2. CommittedKeys'
      BY <2>1, <3>1 DEF IInv, CommittedKeys, Keys
    <3>3. QED
      BY <2>1, <2>3, <2>4, <3>1, <3>2, KeyTypes
         DEF IInv, KnownKeys, Signed, Live, Target
  <2>8. CurrentObject'
    BY <2>1, <2>3, <2>4
       DEF IInv, CurrentObject, Provisioning, Addressed, At, Live, Target,
           history
  <2>9. FileWritten'
    BY <2>1, <2>3, <2>4 DEF IInv, FileWritten, CommonName, Target, history
  <2>10. UniqueAddresses'
    <3>1. r \in Routers
      BY <2>1, KeyTypes DEF IInv, Alone, At, r
    <3>2. \A g \in Requests : /\ Target(g)' = Target(g)
                              /\ req'[g].ip = req[g].ip
      BY <2>3, <2>4 DEF Target
    <3>3. \A g \in Requests \ {h} : At(g, "commit")' <=> At(g, "commit")
      BY <2>4 DEF At
    <3>4. \A g \in Requests \ {h} :
             At(g, "commit") =>
                /\ Target(g) # r
                /\ Target(g) \in Siblings(r) => req[g].ip # req[h].ip
                /\ r \in Siblings(Target(g)) => req[g].ip # req[h].ip
      <4> SUFFICES ASSUME NEW g \in Requests \ {h}, At(g, "commit")
                   PROVE  /\ Target(g) # r
                          /\ Target(g) \in Siblings(r) => req[g].ip # req[h].ip
                          /\ r \in Siblings(Target(g)) => req[g].ip # req[h].ip
        OBVIOUS
      <4>1. Target(g) \in Routers
        BY KeyTypes DEF IInv, Alone, At
      <4>2. r \in Siblings(Target(g)) => Target(g) \in Siblings(r)
        BY <3>1, <4>1 DEF Siblings
      <4>3. QED
        BY <2>1, <4>2 DEF RowMine, AddressMine
    <3>5. \A g \in Requests : At(g, "commit") =>
             /\ Live(Target(g))
             /\ ~Taken(Target(g), req[g].ip)
             /\ RowMine(g, Target(g))
             /\ AddressMine(g, Target(g), req[g].ip)
      BY DEF IInv, UniqueAddresses
    <3>6. ASSUME NEW g \in Requests, At(g, "commit")'
          PROVE  /\ Live(Target(g)) /\ ~Taken(Target(g), req[g].ip)
                 /\ RowMine(g, Target(g))'
                 /\ AddressMine(g, Target(g), req[g].ip)'
      <4>1. CASE g = h
        BY <2>1, <3>2, <3>3, <4>1 DEF RowMine, AddressMine, Siblings, r
      <4>2. CASE g # h
        <5>1. At(g, "commit")
          BY <3>3, <3>6, <4>2
        <5>2. QED
          BY <3>2, <3>3, <3>4, <3>5, <4>2, <5>1
             DEF RowMine, AddressMine, Siblings, r
      <4>3. QED
        BY <4>1, <4>2
    <3>7. \A q \in Routers : Live(q) => ~Taken(q, router[q].ip)
      BY DEF IInv, UniqueAddresses
    <3>8. QED
      BY <2>1, <3>2, <3>6, <3>7 DEF UniqueAddresses, Live, Taken
  <2>11. OldIsTheOne'
    BY <2>1, <2>3, <2>4
       DEF IInv, OldIsTheOne, At, Target, Active, Signed, history
  <2>12. QED
    BY <2>1, <2>4, <2>5, <2>6, <2>7, <2>8, <2>9, <2>10, <2>11, RowsUnchanged
       DEF IInv, history
<1>3. QED
  BY <1>1, <1>2

-----------------------------------------------------------------------------
(***************************************************************************)
(* Certificates revoked and deleted.                                       *)
(***************************************************************************)
\* What depends on certificates when only their statuses change, and none
\* becomes active or comes back.
Fewer == \A k \in Keys :
            /\ certs'[k] \in Certificate
            /\ certs'[k].router = certs[k].router /\ certs'[k].cn = certs[k].cn
            /\ certs'[k].status = "active" => certs[k].status = "active"
            /\ certs[k].status = "none" => certs'[k].status = "none"

LEMMA FewerActive ==
    ASSUME IInv, Fewer, UNCHANGED disturbed
    PROVE  /\ \A r \in Routers : Active(r)' \subseteq Active(r)
           /\ OneActiveCertificate'
<1>1. \A r \in Routers : Active(r)' \subseteq Active(r)
  BY DEF Fewer, Active
<1>2. QED
  BY <1>1 DEF IInv, OneActiveCertificate

LEMMA RevokedAreFewer ==
    ASSUME IInv, NEW k \in Keys \cup {None}, k # None => certs[k].status # "none",
           certs' = [certs EXCEPT ![k] = Revoked(k)]
    PROVE  /\ Fewer
           /\ certs' \in [Keys -> Certificate]
           /\ k \in Keys => certs'[k].status = "revoked"
<1>1. certs \in [Keys -> Certificate]
  BY DEF IInv, TypeOK
<1>2. \A j \in Keys : /\ certs[j] \in Certificate
                      /\ Revoked(j) \in Certificate
                      /\ Revoked(j).status = "revoked"
                      /\ Revoked(j).router = certs[j].router
                      /\ Revoked(j).cn = certs[j].cn
  BY <1>1 DEF Certificate, Revoked
<1> HIDE DEF Revoked
<1>3. CASE k = None
  <2>1. None \notin Keys
    BY DEF None, Keys
  <2>2. \A j \in Keys : certs'[j] = certs[j]
    BY <1>1, <1>3, <2>1
  <2>3. QED
    BY <1>1, <1>2, <1>3, <2>1, <2>2 DEF Fewer
<1>4. CASE k \in Keys
  <2>1. k # None
    BY <1>4 DEF None, Keys
  <2>2. /\ certs'[k] = Revoked(k)
        /\ \A j \in Keys \ {k} : certs'[j] = certs[j]
    BY <1>1, <1>4
  <2>3. \A j \in Keys : certs'[j] \in Certificate
    BY <1>2, <2>2
  <2>4. Fewer
    BY <1>2, <2>1, <2>2, <2>3 DEF Fewer
  <2>5. certs' \in [Keys -> Certificate]
    BY <1>1, <2>3
  <2>6. QED
    BY <1>2, <1>4, <2>2, <2>4, <2>5
<1>5. QED
  BY <1>3, <1>4

LEMMA FewerRows ==
    ASSUME IInv, Fewer,
           \A r \in Routers :
              /\ router'[r].ip = router[r].ip
              /\ router'[r].provisioned = router[r].provisioned
              /\ router'[r].state = "live" => router[r].state = "live"
              /\ router'[r].cert \in {router[r].cert, None},
           UNCHANGED <<ccd, writers, torn, suspect>>
    PROVE  OwnAddressPushed'
<1> SUFFICES ASSUME NEW r \in Routers \ suspect, Tunnelled(r)'
             PROVE  Pushed(r)' = IF FileOf(r)' \in torn' THEN None
                                      ELSE router[r].ip
  BY DEF OwnAddressPushed
<1>1. /\ Live(r) /\ router[r].provisioned
      /\ router'[r].cert = router[r].cert /\ router[r].cert # None
  BY DEF Tunnelled, Live
<1>2. router[r].cert \in Keys
  BY <1>1 DEF IInv, TypeOK, Row
<1>3. certs'[router[r].cert].cn = certs[router[r].cert].cn
  BY <1>2 DEF Fewer
<1>4. QED
  BY <1>1, <1>3 DEF IInv, OwnAddressPushed, Tunnelled, Pushed, FileOf

LEMMA ForceInvariant ==
    ASSUME IInv, NEW h \in Requests, ForceRevoke(h)
    PROVE  IInv'
<1>1. CASE Fail(h)
  BY <1>1, FailInvariant
<1>2. CASE ~Fail(h)
  <2> DEFINE x == [req[h] EXCEPT !.stage = "sign"]
             old == req[h].old
  <2>1. /\ req[h].stage = "force"
        /\ certs[old].status # "none"
        /\ certs' = [certs EXCEPT ![old] = Revoked(old)]
        /\ req' = [req EXCEPT ![h] = x]
        /\ UNCHANGED <<router, issued, ccd, faults, history>>
    BY <1>2 DEF ForceRevoke, At, Goto
  <2>2. req[h] \in Request
    BY DEF IInv, TypeOK
  <2>3. /\ x \in Request
        /\ x.router = Target(h) /\ x.stage = "sign" /\ x.ip = req[h].ip
        /\ x.obj = req[h].obj /\ x.old = old /\ x.new = req[h].new
    BY <2>2 DEF Request, Stages, Target
  <2>4. old \in Keys \cup {None}
    BY <2>2 DEF Request
  <2> HIDE DEF x
  <2>5. /\ req' \in [Requests -> Request]
        /\ req'[h] = x
        /\ \A g \in Requests \ {h} : req'[g] = req[g]
        /\ solo \subseteq Requests
        /\ Alone'
    BY <2>1, <2>3, Moved DEF IInv, At, history
  <2>6. /\ Fewer
        /\ certs' \in [Keys -> Certificate]
        /\ old \in Keys => certs'[old].status = "revoked"
    BY <2>1, <2>4, RevokedAreFewer
  <2>7. TypeOK'
    BY <2>1, <2>5, <2>6 DEF IInv, TypeOK, history
  <2>8. Columns'
    BY <2>1, <2>3, <2>5 DEF IInv, Columns, Addressed
  <2>9. /\ \A r \in Routers : router[r].cert \in Keys \cup {None}
        /\ \A g \in Requests : req[g].obj.cert \in Keys \cup {None}
        /\ \A g \in Requests : req[g].old \in Keys \cup {None}
    BY DEF IInv, TypeOK, Request, Row
  <2>10. \A k \in Keys : /\ certs'[k].router = certs[k].router
                         /\ certs[k].status = "none" => certs'[k].status = "none"
    BY <2>6 DEF Fewer
  <2>11. \A k \in Keys : certs'[k].status # "none" => certs[k].status # "none"
    BY <2>10
  <2>12. KnownKeys' /\ CommittedKeys'
    <3>1. \A k \in Nat : KnownKey(k) => KnownKey(k)'
      BY <2>1, <2>3, <2>5, KeysStayKnown, KeyTypes DEF IInv, Signed
    <3>2. CommittedKeys'
      BY <2>11, <3>1 DEF IInv, CommittedKeys, Keys
    <3>3. QED
      BY <2>1, <2>3, <2>5, <2>9, <2>10, <3>1, <3>2, KeyTypes
         DEF IInv, KnownKeys, Signed, Live, Target
  <2>13. CurrentObject'
    BY <2>1, <2>3, <2>5, <2>9, <2>10
       DEF IInv, CurrentObject, Provisioning, Addressed, At, Live, Target,
           history
  <2>14. FileWritten'
    BY <2>1, <2>3, <2>5 DEF IInv, FileWritten, CommonName, Target, history
  <2>15. UniqueAddresses'
    BY <2>1, <2>3, <2>5
       DEF IInv, UniqueAddresses, At, Live, Taken, RowMine, AddressMine, Target
  <2>16. /\ \A r \in Routers : Active(r)' \subseteq Active(r)
         /\ OneActiveCertificate'
    BY <2>1, <2>6, FewerActive DEF history
  <2>17. OldIsTheOne'
    <3>1. \A g \in Requests : ~At(g, "idle") => Target(g) \in Routers
      BY KeyTypes DEF IInv, Alone
    <3>2. \A r \in Routers : old \notin Active(r)'
      BY <2>6 DEF Active
    <3>3. \A g \in Requests : Target(g)' = Target(g)
      BY <2>3, <2>5 DEF Target
    <3> SUFFICES ASSUME NEW g \in Requests, NEW r \in Routers, r = Target(g),
                        ~At(g, "idle"), r \notin disturbed
                 PROVE  /\ req'[g].stage \in Signed \cup {"revoke", "force"} =>
                              Active(r)' \subseteq {req'[g].old}
                        /\ At(g, "sign")' => Active(r)' = {}
                        /\ ~At(g, "add")'
      <4>1. \A g \in Requests : At(g, "idle")' <=> At(g, "idle")
        BY <2>1, <2>3, <2>5 DEF At
      <4>2. disturbed' = disturbed
        BY <2>1 DEF history
      <4>3. QED
        BY <3>1, <3>3, <4>1, <4>2 DEF OldIsTheOne, Active
    <3>4. Active(r)' \subseteq Active(r)
      BY <2>16
    <3>5. /\ req[g].stage \in Signed \cup {"revoke", "force"} =>
                Active(r) \subseteq {req[g].old}
          /\ At(g, "sign") => Active(r) = {}
          /\ ~At(g, "add")
      BY DEF IInv, OldIsTheOne
    <3>6. CASE g = h
      BY <2>1, <2>3, <2>5, <3>2, <3>4, <3>5, <3>6 DEF Signed, At
    <3>7. CASE g # h
      BY <2>5, <3>4, <3>5, <3>7 DEF At
    <3>8. QED
      BY <3>6, <3>7
  <2>18. OwnAddressPushed'
    BY <2>1, <2>6, FewerRows DEF history
  <2>19. QED
    BY <2>5, <2>7, <2>8, <2>12, <2>13, <2>14, <2>15, <2>16, <2>17, <2>18 DEF IInv
<1>3. QED
  BY <1>1, <1>2

\* While no request moves, certificates and router rows may only go.
LEMMA GoneInvariant ==
    ASSUME IInv, Fewer, certs' \in [Keys -> Certificate],
           router' \in [Routers -> Row],
           \A r \in Routers :
              /\ router'[r].ip = router[r].ip
              /\ router'[r].provisioned = router[r].provisioned
              /\ router'[r].state = "live" => router[r].state = "live"
              /\ router'[r].cert \in {router[r].cert, None},
           \A h \in Requests : At(h, "commit") =>
              router'[Target(h)].state = router[Target(h)].state,
           \* what a full save would restore is as it was, or refused
           \A h \in solo : At(h, "full") /\ req[h].obj.cert # None =>
              \/ certs'[req[h].obj.cert].status = "none"
              \/ /\ router'[Target(h)].state = router[Target(h)].state
                 /\ router'[Target(h)].cert = router[Target(h)].cert,
           UNCHANGED <<issued, ccd, req, faults, history>>
    PROVE  IInv'
<1>1. TypeOK'
  BY DEF IInv, TypeOK, history
<1>2. \A h \in Requests : Target(h)' = Target(h)
  BY DEF Target
<1>3. Alone'
  BY DEF IInv, Alone, At, Target, history
<1>4. Columns'
  BY DEF IInv, Columns
<1>5. /\ \A r \in Routers : router[r].cert \in Keys \cup {None}
      /\ \A g \in Requests : req[g].obj.cert \in Keys \cup {None}
      /\ \A g \in Requests : req[g].old \in Keys \cup {None}
      /\ solo \subseteq Requests
  BY DEF IInv, TypeOK, Request, Row
<1>6. \A k \in Keys : /\ certs'[k].router = certs[k].router
                      /\ certs'[k].status # "none" => certs[k].status # "none"
                      /\ certs[k].status = "none" => certs'[k].status = "none"
  BY DEF Fewer
<1>7. \A k : KnownKey(k)' <=> KnownKey(k)
  BY DEF KnownKey
<1>8. CommittedKeys'
  BY <1>6, <1>7 DEF IInv, CommittedKeys
<1>9. KnownKeys'
  BY <1>5, <1>6, <1>7 DEF IInv, KnownKeys, Live, Target
<1>10. CurrentObject'
  <2> SUFFICES ASSUME NEW h \in solo, NEW r, r = Target(h)
               PROVE  /\ req[h].stage \in Provisioning /\ Live(r)' =>
                            /\ req[h].obj.ip = router'[r].ip
                            /\ req[h].stage \in Addressed /\ router'[r].ip # None =>
                                  req[h].ip = router'[r].ip
                      /\ At(h, "full") =>
                            \/ req[h].obj.cert = None
                            \/ certs'[req[h].obj.cert].status = "none"
                            \/ /\ Live(r)'
                               /\ req[h].obj.ip = router'[r].ip
                               /\ req[h].obj.cert = router'[r].cert
                               /\ req[h].obj.provisioned = router'[r].provisioned
    BY DEF CurrentObject, history, Target, At
  <2>1. r \in Routers
    BY <1>5, KeyTypes DEF IInv, Alone
  <2>2. Live(r)' => Live(r)
    BY <2>1 DEF Live
  <2>3. /\ req[h].stage \in Provisioning /\ Live(r) =>
              /\ req[h].obj.ip = router[r].ip
              /\ req[h].stage \in Addressed /\ router[r].ip # None =>
                    req[h].ip = router[r].ip
        /\ At(h, "full") =>
              \/ req[h].obj.cert = None
              \/ certs[req[h].obj.cert].status = "none"
              \/ /\ Live(r)
                 /\ req[h].obj.ip = router[r].ip
                 /\ req[h].obj.cert = router[r].cert
                 /\ req[h].obj.provisioned = router[r].provisioned
    BY DEF IInv, CurrentObject
  <2>4. req[h].obj.cert \in Keys \cup {None}
    BY <1>5
  <2>5. QED
    BY <1>6, <2>1, <2>2, <2>3, <2>4 DEF Live
<1>11. FileWritten'
  BY DEF IInv, FileWritten, CommonName, Target, history
<1>12. UniqueAddresses'
  <2>1. \A r \in Routers : Live(r)' => Live(r)
    BY DEF Live
  <2>2. \A r \in Routers : \A ip : Taken(r, ip)' => Taken(r, ip)
    BY <2>1 DEF Taken, Siblings
  <2>3. \A h \in Requests : At(h, "commit") => Target(h) \in Routers
    BY KeyTypes DEF IInv, Alone, At
  <2>4. \A h \in Requests : At(h, "commit") => (Live(Target(h))' <=> Live(Target(h)))
    BY DEF Live, Target
  <2>5. \A h \in Requests : \A ip : /\ RowMine(h, Target(h))' <=> RowMine(h, Target(h))
                                    /\ AddressMine(h, Target(h), ip)' <=>
                                          AddressMine(h, Target(h), ip)
    BY DEF RowMine, AddressMine, At, Target
  <2>6. \A h \in Requests : At(h, "commit")' <=> At(h, "commit")
    BY DEF At
  <2>7. /\ \A h \in Requests : At(h, "commit") =>
              /\ Live(Target(h)) /\ ~Taken(Target(h), req[h].ip)
              /\ RowMine(h, Target(h))
              /\ AddressMine(h, Target(h), req[h].ip)
        /\ \A r \in Routers : Live(r) => ~Taken(r, router[r].ip)
    BY DEF IInv, UniqueAddresses
  <2>8. \A h \in Requests : At(h, "commit") => ~Taken(Target(h), req[h].ip)'
    <3> SUFFICES ASSUME NEW h \in Requests, At(h, "commit"), NEW r \in Routers,
                        r = Target(h), NEW ip, ip = req[h].ip
                 PROVE  ~Taken(r, ip)'
      BY <2>3 DEF Taken, Target, Live
    <3>1. QED
      BY <2>2, <2>7
  <2>9. \A r \in Routers : Live(r)' => ~Taken(r, router[r].ip)'
    <3> SUFFICES ASSUME NEW r \in Routers, Live(r)', NEW ip, ip = router[r].ip
                 PROVE  ~Taken(r, ip)'
      BY DEF Taken, Live
    <3>1. QED
      BY <2>1, <2>2, <2>7
  <2>10. QED
    BY <1>2, <2>4, <2>5, <2>6, <2>7, <2>8, <2>9 DEF UniqueAddresses
<1>13. /\ \A r \in Routers : Active(r)' \subseteq Active(r)
       /\ OneActiveCertificate'
  BY FewerActive DEF history
<1>14. OldIsTheOne'
  <2>1. \A h \in Requests : ~At(h, "idle") => Target(h) \in Routers
    BY KeyTypes DEF IInv, Alone
  <2> SUFFICES ASSUME NEW h \in Requests, NEW r \in Routers, r = Target(h),
                      ~At(h, "idle"), r \notin disturbed
               PROVE  /\ req[h].stage \in Signed \cup {"revoke", "force"} =>
                            Active(r)' \subseteq {req[h].old}
                      /\ At(h, "sign") => Active(r)' = {}
                      /\ ~At(h, "add")
    BY <1>2, <2>1 DEF OldIsTheOne, At, Active, history
  <2>2. Active(r)' \subseteq Active(r)
    BY <1>13
  <2>3. /\ req[h].stage \in Signed \cup {"revoke", "force"} =>
              Active(r) \subseteq {req[h].old}
        /\ At(h, "sign") => Active(r) = {}
        /\ ~At(h, "add")
    BY DEF IInv, OldIsTheOne
  <2>4. QED
    BY <2>2, <2>3
<1>15. OwnAddressPushed'
  BY FewerRows DEF history
<1>16. QED
  BY <1>1, <1>3, <1>4, <1>8, <1>9, <1>10, <1>11, <1>12, <1>13, <1>14, <1>15
     DEF IInv

LEMMA RevokeInvariant ==
    ASSUME IInv, NEW k \in Keys, RevokeCertificate(k)
    PROVE  IInv'
<1>1. /\ certs' = [certs EXCEPT ![k] = Revoked(k)]
      /\ certs[k].status # "none"
      /\ UNCHANGED <<router, issued, ccd, req, faults, history>>
  BY DEF RevokeCertificate
<1>2. Fewer /\ certs' \in [Keys -> Certificate]
  BY <1>1, RevokedAreFewer
<1>3. router \in [Routers -> Row]
  BY DEF IInv, TypeOK
<1>4. QED
  BY <1>1, <1>2, <1>3, GoneInvariant

LEMMA DeleteCertificateInvariant ==
    ASSUME IInv, NEW k \in Keys, DeleteCertificate(k)
    PROVE  IInv'
<1> DEFINE r == certs[k].router
<1>1. /\ RowFree(r)
      /\ certs' = [certs EXCEPT ![k].status = "none"]
      /\ router' = IF router[r].cert = k
                   THEN [router EXCEPT ![r].cert = None] ELSE router
      /\ UNCHANGED <<issued, ccd, req, faults, history>>
  BY DEF DeleteCertificate
<1>2. /\ certs \in [Keys -> Certificate]
      /\ router \in [Routers -> Row]
  BY DEF IInv, TypeOK
<1>3. certs[k] \in Certificate /\ r \in Routers
  BY <1>2 DEF Certificate
<1>4. /\ certs' \in [Keys -> Certificate]
      /\ Fewer
  <2>1. [certs[k] EXCEPT !.status = "none"] \in Certificate
    BY <1>3 DEF Certificate
  <2>2. QED
    BY <1>1, <1>2, <1>3, <2>1 DEF Fewer, Certificate
<1> HIDE DEF r
<1>5. \A q \in Routers : [router[q] EXCEPT !.cert = None] \in Row
  BY <1>2 DEF Row
<1>6. /\ router' \in [Routers -> Row]
      /\ \A q \in Routers :
            /\ router'[q].ip = router[q].ip
            /\ router'[q].provisioned = router[q].provisioned
            /\ router'[q].state = router[q].state
            /\ router'[q].cert \in {router[q].cert, None}
            /\ router'[q].cert # router[q].cert => router[q].cert = k
  BY <1>1, <1>2, <1>3, <1>5 DEF Row
<1>7. \A h \in Requests : At(h, "commit") => Target(h) \in Routers
  BY KeyTypes DEF IInv, Alone, At
<1>8. certs'[k].status = "none"
  BY <1>1, <1>2, <1>3 DEF Certificate
<1>9. \A h \in solo : At(h, "full") /\ req[h].obj.cert # None =>
         \/ certs'[req[h].obj.cert].status = "none"
         \/ /\ router'[Target(h)].state = router[Target(h)].state
            /\ router'[Target(h)].cert = router[Target(h)].cert
  <2> SUFFICES ASSUME NEW h \in solo, At(h, "full"), req[h].obj.cert # None,
                      certs'[req[h].obj.cert].status # "none"
               PROVE  /\ router'[Target(h)].state = router[Target(h)].state
                      /\ router'[Target(h)].cert = router[Target(h)].cert
    OBVIOUS
  <2>1. h \in Requests
    BY DEF IInv, TypeOK
  <2>2. Target(h) \in Routers
    BY <2>1, KeyTypes DEF IInv, Alone, At
  <2>3. req[h].obj.cert \in Keys /\ req[h].obj.cert # k
    BY <1>8, <2>1 DEF IInv, TypeOK, Request, Row
  <2>4. certs[req[h].obj.cert].status # "none"
    BY <1>4, <2>3 DEF Fewer
  <2>5. req[h].obj.cert = router[Target(h)].cert
    BY <2>1, <2>4 DEF IInv, CurrentObject
  <2>6. QED
    BY <1>6, <2>2, <2>3, <2>5
<1>10. QED
  BY <1>1, <1>4, <1>6, <1>7, <1>9, GoneInvariant

LEMMA DeleteRouterInvariant ==
    ASSUME IInv, NEW r \in Routers, DeleteRouter(r)
    PROVE  IInv'
<1>1. /\ RowFree(r)
      /\ router' = [router EXCEPT ![r].state = "deleted"]
      /\ certs' = [k \in Keys |-> IF certs[k].router = r
                                  THEN [certs[k] EXCEPT !.status = "none"]
                                  ELSE certs[k]]
      /\ UNCHANGED <<issued, ccd, req, faults, history>>
  BY DEF DeleteRouter
<1>2. /\ certs \in [Keys -> Certificate]
      /\ router \in [Routers -> Row]
  BY DEF IInv, TypeOK
<1>3. \A k \in Keys : /\ certs[k] \in Certificate
                      /\ [certs[k] EXCEPT !.status = "none"] \in Certificate
  BY <1>2 DEF Certificate
<1>4. /\ certs' \in [Keys -> Certificate]
      /\ Fewer
      /\ \A k \in Keys : certs[k].router = r => certs'[k].status = "none"
  BY <1>1, <1>3 DEF Fewer, Certificate
<1>5. [router[r] EXCEPT !.state = "deleted"] \in Row
  BY <1>2 DEF Row
<1>6. /\ router' \in [Routers -> Row]
      /\ \A q \in Routers \ {r} : router'[q] = router[q]
      /\ router'[r].state = "deleted"
      /\ router'[r].ip = router[r].ip
      /\ router'[r].provisioned = router[r].provisioned
      /\ router'[r].cert = router[r].cert
  BY <1>1, <1>2, <1>5 DEF Row
<1>7. \A h \in Requests : At(h, "commit") => Target(h) \in Routers \ {r}
  <2> SUFFICES ASSUME NEW h \in Requests, At(h, "commit")
               PROVE  Target(h) \in Routers \ {r}
    OBVIOUS
  <2>1. Target(h) \in Routers
    BY KeyTypes DEF IInv, Alone, At
  <2>2. Target(h) # r
    BY <1>1 DEF RowFree
  <2>3. QED
    BY <2>1, <2>2
<1>8. \A h \in solo : At(h, "full") /\ req[h].obj.cert # None =>
         \/ certs'[req[h].obj.cert].status = "none"
         \/ /\ router'[Target(h)].state = router[Target(h)].state
            /\ router'[Target(h)].cert = router[Target(h)].cert
  <2> SUFFICES ASSUME NEW h \in solo, At(h, "full"), req[h].obj.cert # None,
                      certs'[req[h].obj.cert].status # "none"
               PROVE  Target(h) \in Routers \ {r}
    BY <1>6
  <2>1. h \in Requests
    BY DEF IInv, TypeOK
  <2>2. Target(h) \in Routers
    BY <2>1, KeyTypes DEF IInv, Alone, At
  <2>3. req[h].obj.cert \in Keys
    BY <2>1 DEF IInv, TypeOK, Request, Row
  <2>4. certs[req[h].obj.cert].router = Target(h)
    BY <2>1 DEF IInv, KnownKeys
  <2>5. QED
    BY <1>4, <2>2, <2>3, <2>4
<1>9. QED
  BY <1>1, <1>4, <1>6, <1>7, <1>8, GoneInvariant

-----------------------------------------------------------------------------
(***************************************************************************)
(* Requests that end with a save.                                          *)
(***************************************************************************)
\* The parts of the invariant that are about the other requests' objects.
LEMMA EndObjects ==
    ASSUME IInv, NEW h \in Requests, End(h), issued' \in Nat, issued <= issued'
    PROVE  /\ \A k \in Nat : KnownKey(k) => KnownKey(k)'
           /\ \A g \in Requests :
                 /\ req'[g].obj.provisioned => req'[g].obj.ip # None
                 /\ req'[g].stage \in Addressed => req'[g].ip # None
           /\ \A g \in Requests : req'[g].stage # "idle" => g # h /\ req'[g] = req[g]
           /\ req'[h].stage = "idle" /\ req'[h].obj.cert = None
           /\ req'[h].old = None
<1>1. /\ req'[h] = NoRequest
      /\ \A g \in Requests \ {h} : req'[g] = req[g]
  BY Ended DEF IInv
<1>2. /\ req'[h].stage = "idle"
      /\ req'[h].obj.cert = None
      /\ ~req'[h].obj.provisioned
      /\ req'[h].old = None
  BY <1>1 DEF NoRequest, BlankRow
<1>3. \A k \in Nat : KnownKey(k) => KnownKey(k)'
  BY <1>1, <1>2, KeysStayKnown DEF IInv, Signed
<1>4. QED
  BY <1>1, <1>2, <1>3 DEF IInv, Columns, Addressed

\* The ending request h, which alone has the router's row, saves it.
LEMMA RowSavedUnique ==
    ASSUME IInv, NEW h \in Requests, NEW r \in Routers, End(h), RowMine(h, r),
           NEW row \in Row, router' = [router EXCEPT ![r] = row],
           row.state = "live" =>
              /\ ~Taken(r, row.ip)
              /\ row.ip # None => AddressMine(h, r, row.ip)
    PROVE  UniqueAddresses'
<1>1. /\ \A g \in Requests \ {h} : req'[g] = req[g]
      /\ req'[h].stage = "idle"
  BY Ended DEF IInv, NoRequest
<1>2. /\ router'[r] = row
      /\ \A q \in Routers \ {r} : router'[q] = router[q]
  BY DEF IInv, TypeOK
<1>3. /\ \A g \in Requests : At(g, "commit") =>
            /\ Target(g) \in Routers
            /\ Live(Target(g)) /\ ~Taken(Target(g), req[g].ip)
            /\ RowMine(g, Target(g))
            /\ AddressMine(g, Target(g), req[g].ip)
      /\ \A q \in Routers : Live(q) => ~Taken(q, router[q].ip)
  BY KeyTypes DEF IInv, UniqueAddresses, Alone, At
<1>4. \A g \in Requests : At(g, "commit")' =>
         /\ g # h /\ At(g, "commit") /\ Target(g)' = Target(g)
         /\ req'[g] = req[g] /\ Target(g) # r
  BY <1>1 DEF At, Target, RowMine
<1>5. \A q \in Routers \ {r} : Live(q)' <=> Live(q)
  BY <1>2 DEF Live
<1>6. ASSUME NEW q \in Routers \ {r}, NEW ip, ~Taken(q, ip),
             r \in Siblings(q) /\ row.state = "live" /\ ip # None => row.ip # ip
      PROVE  ~Taken(q, ip)'
  BY <1>2, <1>5, <1>6 DEF Taken, Siblings, Live
<1>7. ~Taken(r, row.ip) => ~Taken(r, row.ip)'
  BY <1>2, <1>5 DEF Taken, Siblings
<1>8. \A q \in Routers : q \in Siblings(r) <=> r # q /\ r \in Siblings(q)
  BY DEF Siblings
<1>9. ASSUME NEW q \in Routers, Live(q)'
      PROVE  ~Taken(q, router[q].ip)'
  <2>1. CASE q = r
    BY <1>2, <1>7, <1>9, <2>1 DEF Live, Taken
  <2>2. CASE q # r
    <3>1. Live(q) /\ router'[q].ip = router[q].ip
      BY <1>2, <1>5, <1>9, <2>2
    <3>2. r \in Siblings(q) /\ row.state = "live" /\ router[q].ip # None =>
             row.ip # router[q].ip
      BY <1>8, <3>1 DEF Taken
    <3>3. ASSUME NEW ip, ip = router[q].ip
          PROVE  ~Taken(q, ip)'
      BY <1>3, <1>6, <2>2, <3>1, <3>2, <3>3
    <3>4. QED
      BY <3>1, <3>3 DEF Taken
  <2>3. QED
    BY <2>1, <2>2
<1>10. ASSUME NEW g \in Requests, At(g, "commit")'
      PROVE  Live(Target(g))' /\ ~Taken(Target(g), req[g].ip)'
  <2>1. ASSUME NEW q \in Routers, q = Target(g), NEW ip, ip = req[g].ip
        PROVE  Live(q)' /\ ~Taken(q, ip)'
    <3>1. /\ At(g, "commit") /\ q \in Routers \ {r} /\ Live(q)
          /\ ~Taken(q, ip)
      BY <1>3, <1>4, <1>10, <2>1
    <3>2. r \in Siblings(q) /\ row.state = "live" /\ ip # None => row.ip # ip
      BY <1>4, <1>8, <1>10, <2>1, <3>1 DEF AddressMine
    <3>3. QED
      BY <1>5, <1>6, <3>1, <3>2
  <2>2. QED
    BY <1>3, <1>4, <1>10, <2>1 DEF Taken, Live
<1>11. ASSUME NEW g \in Requests, At(g, "commit")'
      PROVE  RowMine(g, Target(g))' /\ AddressMine(g, Target(g), req[g].ip)'
  BY <1>3, <1>4, <1>11 DEF RowMine, AddressMine
<1>12. QED
  BY <1>9, <1>10, <1>11 DEF UniqueAddresses

\* A request that ends saves the row of its router and nothing else.
LEMMA SaveRowInvariant ==
    ASSUME IInv, NEW h \in Requests, NEW r \in Routers, r = Target(h), End(h),
           ~At(h, "idle"), RowFree(r),
           NEW row \in Row, router' = [router EXCEPT ![r] = row],
           row.provisioned => row.ip # None,
           row.cert # None => /\ KnownKey(row.cert)
                              /\ certs[row.cert].router = r,
           row.state = "live" => /\ ~Taken(r, row.ip)
                                 /\ row.ip # None => AddressFree(r, row.ip),
           \* what the router's file should push does not change
           r \notin suspect /\ row.state = "live" /\ row.provisioned
              /\ row.cert # None =>
                 /\ Live(r) /\ router[r].provisioned
                 /\ router[r].ip = row.ip /\ router[r].cert = row.cert,
           UNCHANGED <<certs, issued, ccd, faults, begun, writers, torn, suspect,
                       disturbed>>
    PROVE  IInv'
<1>1. /\ req' \in [Requests -> Request]
      /\ \A g \in Requests \ {h} : req'[g] = req[g]
      /\ solo' = solo \ {h}
      /\ solo' \in SUBSET Requests
  BY Ended DEF IInv
<1>2. /\ \A k \in Nat : KnownKey(k) => KnownKey(k)'
      /\ \A g \in Requests :
            /\ req'[g].obj.provisioned => req'[g].obj.ip # None
            /\ req'[g].stage \in Addressed => req'[g].ip # None
      /\ req'[h].stage = "idle" /\ req'[h].obj.cert = None
      /\ req'[h].old = None
  BY EndObjects, KeyTypes DEF IInv
<1>3. /\ router' \in [Routers -> Row]
      /\ router'[r] = row
      /\ \A q \in Routers \ {r} : router'[q] = router[q]
  BY DEF IInv, TypeOK
<1>4. TypeOK'
  BY <1>1, <1>3 DEF IInv, TypeOK
<1>5. Alone'
  BY EndKeepsAlone DEF IInv
<1>6. Columns'
  BY <1>2, <1>3 DEF IInv, Columns
<1>7. CommittedKeys'
  BY <1>2 DEF IInv, CommittedKeys, Keys
<1>8. KnownKeys'
  <2>1. row.cert \in Nat
    BY <1>3, <1>4, KeyTypes, ProvisioningAssumption DEF Row, Keys, None
  <2>2. QED
    BY <1>1, <1>2, <1>3, <2>1, KeyTypes DEF IInv, KnownKeys, Signed, Live, Target
<1>9. \A g \in solo' : g # h /\ g \in solo /\ g \in Requests /\ Target(g) \in Routers \ {r}
                       /\ req'[g] = req[g]
  BY <1>1, KeyTypes DEF IInv, Alone, TypeOK
<1>10. CurrentObject'
  BY <1>3, <1>9 DEF IInv, CurrentObject, At, Live, Target
<1>11. FileWritten'
  BY <1>9 DEF IInv, FileWritten, CommonName, Target
<1>12. OwnAddressPushed'
  <2> SUFFICES ASSUME NEW q \in Routers \ suspect, Tunnelled(q)'
               PROVE  Pushed(q)' = IF FileOf(q)' \in torn' THEN None
                                      ELSE router'[q].ip
    BY DEF OwnAddressPushed
  <2>1. CASE q = r
    BY <1>3, <2>1 DEF IInv, OwnAddressPushed, Tunnelled, Pushed, FileOf, Live
  <2>2. CASE q # r
    BY <1>3, <2>2 DEF IInv, OwnAddressPushed, Tunnelled, Pushed, FileOf, Live
  <2>3. QED
    BY <2>1, <2>2
<1>13. UniqueAddresses'
  BY RowSavedUnique DEF RowFree, AddressFree, RowMine, AddressMine
<1>14. OldIsTheOne'
  BY <1>1, <1>2 DEF IInv, OldIsTheOne, At, Target, Active
<1>15. OneActiveCertificate'
  BY DEF IInv, OneActiveCertificate, Active
<1>16. QED
  BY <1>4, <1>5, <1>6, <1>7, <1>8, <1>10, <1>11, <1>12, <1>13, <1>14, <1>15
     DEF IInv

LEMMA SaveAllInvariant ==
    ASSUME IInv, NEW h \in Requests, SaveAll(h)
    PROVE  IInv'
<1> DEFINE r == Target(h)
           row == req[h].obj
           refused == \/ Taken(r, row.ip)
                      \/ row.cert # None /\ certs[row.cert].status = "none"
<1>1. /\ req[h].stage = "full"
      /\ RowFree(r)
      /\ row.ip # None => AddressFree(r, row.ip)
      /\ router' = IF refused THEN router ELSE [router EXCEPT ![r] = row]
      /\ End(h)
      /\ UNCHANGED <<certs, issued, ccd, faults, begun, writers, torn, suspect,
                     disturbed>>
  BY DEF SaveAll, At
<1>2. r \in Routers /\ row \in Row /\ ~At(h, "idle")
  BY <1>1, KeyTypes DEF IInv, Alone, At, TypeOK, Request
<1>3. CASE refused
  <2>1. router' = router /\ faults' \in Nat
    BY <1>1, <1>3 DEF IInv, TypeOK
  <2>2. QED
    BY <1>1, <2>1, EndInvariant
<1>4. CASE ~refused
  <2>1. router' = [router EXCEPT ![r] = row]
    BY <1>1, <1>4
  <2>2. row.provisioned => row.ip # None
    BY DEF IInv, Columns
  <2>3. row.cert # None => KnownKey(row.cert) /\ certs[row.cert].router = r
    BY DEF IInv, KnownKeys
  <2>4. ~Taken(r, row.ip)
    BY <1>4
  <2>5. r \notin suspect /\ row.cert # None =>
           /\ Live(r) /\ router[r].provisioned = row.provisioned
           /\ router[r].ip = row.ip /\ router[r].cert = row.cert
    <3>1. r \notin suspect => h \in solo
      BY <1>2 DEF IInv, Alone
    <3>2. QED
      BY <1>1, <1>4, <3>1 DEF IInv, CurrentObject, At
  <2> HIDE DEF r, row, refused
  <2>6. QED
    BY <1>1, <1>2, <2>1, <2>2, <2>3, <2>4, <2>5, SaveRowInvariant DEF r
<1>5. QED
  BY <1>3, <1>4

LEMMA SaveRevokedInvariant ==
    ASSUME IInv, NEW h \in Requests, SaveRevoked(h)
    PROVE  IInv'
<1> DEFINE r == Target(h)
           row == [router[r] EXCEPT !.ip = None, !.provisioned = FALSE]
<1>1. /\ req[h].stage = "drop"
      /\ RowFree(r)
      /\ router' = IF Live(r)
                   THEN [router EXCEPT ![r].ip = None, ![r].provisioned = FALSE]
                   ELSE router
      /\ End(h)
      /\ UNCHANGED <<certs, issued, ccd, faults, begun, writers, torn, suspect,
                     disturbed>>
  BY DEF SaveRevoked, At
<1>2. r \in Routers /\ router[r] \in Row /\ ~At(h, "idle")
  BY <1>1, KeyTypes DEF IInv, Alone, At, TypeOK
<1>3. CASE ~Live(r)
  <2>1. router' = router /\ faults' \in Nat
    BY <1>1, <1>3 DEF IInv, TypeOK
  <2>2. QED
    BY <1>1, <2>1, EndInvariant
<1>4. CASE Live(r)
  <2>1. router' = [router EXCEPT ![r] = row]
    BY <1>1, <1>4
  <2>2. /\ row \in Row
        /\ row.ip = None /\ ~row.provisioned /\ row.cert = router[r].cert
    BY <1>2 DEF Row
  <2>3. row.cert # None => KnownKey(row.cert) /\ certs[row.cert].router = r
    BY <1>2, <1>4, <2>2 DEF IInv, KnownKeys
  <2>4. ~Taken(r, row.ip)
    BY <2>2 DEF Taken
  <2> HIDE DEF r, row
  <2>5. QED
    BY <1>1, <1>2, <2>1, <2>2, <2>3, <2>4, SaveRowInvariant DEF r
<1>5. QED
  BY <1>3, <1>4

LEMMA SignInvariant ==
    ASSUME IInv, NEW h \in Requests, Sign(h)
    PROVE  IInv'
<1>1. /\ req[h].stage \in {"sign", "add"}
      /\ issued < MaxRequests
      /\ issued' = issued + 1
      /\ certs' = IF Live(Target(h))
                  THEN [certs EXCEPT
                          ![issued'] = Issue(issued', Target(h),
                                             <<IdOf(Target(h)), Anonymous>>)]
                  ELSE certs
      /\ End(h)
      /\ UNCHANGED <<router, ccd, faults, begun, writers, torn, suspect, disturbed>>
  BY DEF Sign, At
<1>2. Target(h) \in Routers /\ ~At(h, "idle")
  BY <1>1, KeyTypes DEF IInv, Alone, At
<1>0. issued \in 0 .. MaxRequests /\ issued + 1 \in Keys
  BY <1>1, ProvisioningAssumption DEF IInv, TypeOK, Keys
<1> SUFFICES ASSUME NEW r \in Routers, r = Target(h),
                    NEW n \in Keys, n = issued + 1
             PROVE  IInv'
  BY <1>2, <1>0
<1> DEFINE cert == Issue(n, r, <<IdOf(r), Anonymous>>)
<1>3. /\ issued' = n /\ n \in 1 .. MaxRequests
      /\ issued' \in Nat /\ issued <= issued' /\ issued \in Nat
      /\ certs' = IF Live(r) THEN [certs EXCEPT ![n] = cert] ELSE certs
  BY <1>1, <1>0, ProvisioningAssumption DEF Keys
<1>4. /\ cert \in Certificate
      /\ cert.status = "active" /\ cert.router = r
  <2>1. <<IdOf(r), Anonymous>> \in CommonNames
    BY <1>2, ProvisioningAssumption DEF CommonNames, IdOf
  <2>2. QED
    BY <1>2, <2>1 DEF Certificate, Issue
<1> HIDE DEF cert
<1>5. /\ certs' \in [Keys -> Certificate]
      /\ \A k \in Keys \ {n} : certs'[k] = certs[k]
      /\ certs'[n] \in {certs[n], cert}
  BY <1>3, <1>4 DEF IInv, TypeOK
<1>6. /\ req' \in [Requests -> Request]
      /\ \A g \in Requests \ {h} : req'[g] = req[g]
      /\ solo' = solo \ {h}
      /\ solo' \in SUBSET Requests
  BY <1>1, Ended DEF IInv
<1>7. /\ \A k \in Nat : KnownKey(k) => KnownKey(k)'
      /\ \A g \in Requests :
            /\ req'[g].obj.provisioned => req'[g].obj.ip # None
            /\ req'[g].stage \in Addressed => req'[g].ip # None
      /\ req'[h].stage = "idle" /\ req'[h].obj.cert = None
      /\ req'[h].old = None
  BY <1>1, <1>3, EndObjects
<1>8. TypeOK'
  BY <1>1, <1>3, <1>5, <1>6 DEF IInv, TypeOK
<1>9. Alone'
  BY <1>1, EndKeepsAlone DEF IInv
<1>10. Columns'
  BY <1>1, <1>7 DEF IInv, Columns
<1>11. \A k \in Keys : KnownKey(k) => certs'[k] = certs[k]
  BY <1>1, <1>3, <1>5 DEF KnownKey
<1>12. /\ \A q \in Routers : router[q].cert \in Keys \cup {None}
       /\ \A g \in Requests : req[g].obj.cert \in Keys \cup {None}
  BY DEF IInv, TypeOK, Request, Row
<1>13. KnownKey(n)'
  <2>1. \A g \in Requests : req'[g].stage \in Signed => req'[g].new # n
    BY <1>1, <1>3, <1>6, <1>7 DEF IInv, KnownKeys, Signed
  <2>2. QED
    BY <1>3, <2>1 DEF KnownKey
<1>14. CommittedKeys'
  <2> SUFFICES ASSUME NEW k \in Keys, certs'[k].status # "none"
               PROVE  KnownKey(k)'
    BY DEF CommittedKeys
  <2>1. CASE k = n
    BY <1>13, <2>1 DEF KnownKey
  <2>2. CASE k # n
    BY <1>5, <1>7, <2>2 DEF IInv, CommittedKeys, Keys
  <2>3. QED
    BY <2>1, <2>2
<1>15. KnownKeys'
  BY <1>1, <1>3, <1>6, <1>7, <1>11, <1>12, KeyTypes
     DEF IInv, KnownKeys, Signed, Live, Target
<1>16. \A g \in solo' : g # h /\ g \in solo /\ g \in Requests /\ req'[g] = req[g]
  BY <1>6 DEF IInv, TypeOK
<1>17. CurrentObject'
  BY <1>1, <1>11, <1>12, <1>16 DEF IInv, CurrentObject, KnownKeys, At, Live, Target
<1>18. FileWritten'
  BY <1>1, <1>16 DEF IInv, FileWritten, CommonName, Target
<1>19. OwnAddressPushed'
  <2> SUFFICES ASSUME NEW q \in Routers \ suspect, Tunnelled(q)'
               PROVE  Pushed(q)' = IF FileOf(q)' \in torn' THEN None
                                      ELSE router[q].ip
    BY <1>1 DEF OwnAddressPushed
  <2>1. router[q].cert \in Keys /\ KnownKey(router[q].cert)
    BY <1>1, <1>12 DEF IInv, KnownKeys, Tunnelled
  <2>2. certs'[router[q].cert] = certs[router[q].cert]
    BY <1>11, <2>1
  <2>3. QED
    BY <1>1, <2>2 DEF IInv, OwnAddressPushed, Tunnelled, Pushed, FileOf, Live
<1>20. UniqueAddresses'
  BY <1>1, <1>6, <1>7
     DEF IInv, UniqueAddresses, At, Live, Taken, RowMine, AddressMine, Target
<1>21. \A q \in Routers \ {r} : Active(q)' \subseteq Active(q)
  BY <1>3, <1>4, <1>5 DEF Active
<1>22. r \notin disturbed => Active(r)' \subseteq {n}
  <2>1. r \notin disturbed => Active(r) = {}
    BY <1>1, <1>2 DEF IInv, OldIsTheOne, At
  <2>2. Active(r)' \subseteq Active(r) \cup {n}
    BY <1>5 DEF Active
  <2>3. QED
    BY <2>1, <2>2
<1>23. OldIsTheOne'
  <2> SUFFICES ASSUME NEW g \in Requests, ~At(g, "idle")', NEW q \in Routers,
                      q = Target(g), q \notin disturbed, g # h
               PROVE  /\ req[g].stage \in Signed \cup {"revoke", "force"} =>
                            Active(q)' \subseteq {req[g].old}
                      /\ At(g, "sign") => Active(q)' = {}
                      /\ ~At(g, "add")
    <3>1. \A g \in Requests : ~At(g, "idle")' =>
             /\ g # h /\ req'[g] = req[g] /\ Target(g)' = Target(g)
             /\ Target(g) \in Routers
      BY <1>6, <1>7, KeyTypes DEF IInv, Alone, At, Target
    <3>2. QED
      BY <1>1, <3>1 DEF OldIsTheOne, At, Active
  <2>1. ~At(g, "idle")
    BY <1>6 DEF At
  <2>2. q # r
    BY <1>2, <2>1 DEF IInv, Alone
  <2>3. QED
    BY <1>21, <2>1, <2>2 DEF IInv, OldIsTheOne
<1>24. OneActiveCertificate'
  BY <1>1, <1>21, <1>22 DEF IInv, OneActiveCertificate
<1>25. QED
  BY <1>8, <1>9, <1>10, <1>14, <1>15, <1>17, <1>18, <1>19, <1>20, <1>23, <1>24
     DEF IInv

LEMMA CommitInvariant ==
    ASSUME IInv, NEW h \in Requests, Commit(h)
    PROVE  IInv'
<1>1. /\ req[h].stage = "commit"
      /\ End(h)
      /\ UNCHANGED <<issued, ccd, faults, begun, writers, torn, disturbed>>
  BY DEF Commit, At
<1>2. Target(h) \in Routers /\ ~At(h, "idle")
  BY <1>1, KeyTypes DEF IInv, Alone, At
<1>3. /\ req[h] \in Request /\ req[h].ip # None
      /\ req[h].new \in 1 .. issued /\ issued \in 0 .. MaxRequests
  BY <1>1 DEF IInv, TypeOK, Columns, KnownKeys, Addressed, Signed
<1>4. /\ req[h].ip \in Addresses /\ req[h].new \in Keys
      /\ req[h].old \in Keys \cup {None}
  BY <1>3, ProvisioningAssumption DEF Request, Keys
<1> SUFFICES ASSUME NEW r \in Routers, r = Target(h),
                    NEW ip \in Addresses, ip = req[h].ip,
                    NEW n \in Keys, n = req[h].new,
                    NEW o \in Keys \cup {None}, o = req[h].old,
                    NEW cn, cn = CommonName(h)
             PROVE  IInv'
  BY <1>2, <1>4
<1> DEFINE row == [router[r] EXCEPT !.ip = ip, !.cert = n, !.provisioned = TRUE]
<1>5. /\ router' = [router EXCEPT ![r] = row]
      /\ certs' = [k \in Keys |-> IF k = n THEN Issue(k, r, cn)
                                  ELSE IF k = o THEN Revoked(k)
                                  ELSE certs[k]]
      /\ suspect' = IF h \in solo THEN suspect \ {r} ELSE suspect
  BY DEF Commit
<1>6. /\ row \in Row /\ row.state = router[r].state /\ row.ip = ip
      /\ row.cert = n /\ row.provisioned
  BY DEF IInv, TypeOK, Row
<1> HIDE DEF row
<1>7. cn \in CommonNames
  BY <1>3, ProvisioningAssumption DEF CommonNames, CommonName, IdOf, Request, Row
<1>8. /\ certs' \in [Keys -> Certificate]
      /\ certs'[n].status = "active" /\ certs'[n].router = r /\ certs'[n].cn = cn
      /\ \A k \in Keys \ {n} :
            /\ certs'[k].router = certs[k].router
            /\ certs'[k].cn = certs[k].cn
            /\ k # o => certs'[k] = certs[k]
            /\ k = o => certs'[k].status = "revoked"
  <2>1. \A k \in Keys : certs[k] \in Certificate
    BY DEF IInv, TypeOK
  <2>2. \A k \in Keys : /\ Revoked(k) \in Certificate
                        /\ Revoked(k).status = "revoked"
                        /\ Revoked(k).router = certs[k].router
                        /\ Revoked(k).cn = certs[k].cn
    BY <2>1 DEF Revoked, Certificate
  <2>3. \A k \in Keys : /\ Issue(k, r, cn) \in Certificate
                        /\ Issue(k, r, cn).status = "active"
                        /\ Issue(k, r, cn).router = r
                        /\ Issue(k, r, cn).cn = cn
    BY <1>7 DEF Issue, Certificate
  <2>4. QED
    BY <1>5, <2>1, <2>2, <2>3
<1>9. /\ router' \in [Routers -> Row]
      /\ router'[r] = row
      /\ \A q \in Routers \ {r} : router'[q] = router[q]
  BY <1>5, <1>6 DEF IInv, TypeOK
<1>10. /\ req' \in [Requests -> Request]
       /\ \A g \in Requests \ {h} : req'[g] = req[g]
       /\ solo' = solo \ {h}
       /\ solo' \in SUBSET Requests
  BY <1>1, Ended DEF IInv
<1>11. /\ \A k \in Nat : KnownKey(k) => KnownKey(k)'
       /\ \A g \in Requests :
             /\ req'[g].obj.provisioned => req'[g].obj.ip # None
             /\ req'[g].stage \in Addressed => req'[g].ip # None
       /\ req'[h].stage = "idle" /\ req'[h].obj.cert = None
       /\ req'[h].old = None
  BY <1>1, EndObjects, KeyTypes DEF IInv
<1>12. KnownKey(n)'
  <2>1. \A g \in Requests : req'[g].stage \in Signed => req'[g].new # n
    BY <1>1, <1>10, <1>11 DEF IInv, KnownKeys, Signed
  <2>2. QED
    BY <1>1, <1>3, <2>1 DEF KnownKey
<1>13. \A k \in Keys : KnownKey(k) => /\ k # n
                                     /\ certs'[k].router = certs[k].router
                                     /\ certs'[k].cn = certs[k].cn
  BY <1>1, <1>8 DEF KnownKey, Signed
<1>14. o # None => KnownKey(o) /\ certs[o].router = r
  BY DEF IInv, KnownKeys
<1>15. /\ \A q \in Routers : router[q].cert \in Keys \cup {None}
       /\ \A g \in Requests : /\ req[g].obj.cert \in Keys \cup {None}
                               /\ req[g].old \in Keys \cup {None}
  BY DEF IInv, TypeOK, Request, Row
<1>16. \A g \in solo' : /\ g # h /\ g \in solo /\ g \in Requests
                        /\ Target(g) \in Routers \ {r} /\ req'[g] = req[g]
  BY <1>10, KeyTypes DEF IInv, Alone, TypeOK
<1>17. h \in solo => \A g \in Requests \ {h} : Target(g) # r
  BY DEF IInv, Alone
<1>18. TypeOK'
  BY <1>1, <1>5, <1>8, <1>9, <1>10 DEF IInv, TypeOK
<1>19. Alone'
  BY <1>1, <1>5, <1>17, EndKeepsAlone DEF IInv
<1>20. Columns'
  BY <1>3, <1>6, <1>9, <1>11 DEF IInv, Columns
<1>21. CommittedKeys'
  <2> SUFFICES ASSUME NEW k \in Keys, certs'[k].status # "none"
               PROVE  KnownKey(k)'
    BY DEF CommittedKeys
  <2>1. CASE k = n
    BY <1>12, <2>1 DEF KnownKey
  <2>2. CASE k # n
    <3>1. k # o => KnownKey(k)
      BY <1>8, <2>2 DEF IInv, CommittedKeys
    <3>2. k = o => KnownKey(k)
      BY <1>14, ProvisioningAssumption DEF Keys, None
    <3>3. QED
      BY <1>11, <3>1, <3>2 DEF Keys
  <2>3. QED
    BY <2>1, <2>2
<1>22. KnownKeys'
  <2>1. \A q \in Routers \ {r} : router'[q].cert # None =>
           /\ KnownKey(router[q].cert)'
           /\ Live(q)' => certs'[router'[q].cert].router = q
    BY <1>9, <1>11, <1>13, <1>15, KeyTypes DEF IInv, KnownKeys, Live
  <2>2. KnownKey(router[r].cert)' /\ certs'[router'[r].cert].router = r
    BY <1>6, <1>8, <1>9, <1>12 DEF KnownKey
  <2>3. \A g \in Requests : req'[g].obj.cert # None =>
           /\ KnownKey(req[g].obj.cert)'
           /\ certs'[req'[g].obj.cert].router = Target(g)'
    BY <1>10, <1>11, <1>13, <1>15, KeyTypes DEF IInv, KnownKeys, Target
  <2>4. \A g \in Requests : req'[g].old # None =>
           /\ KnownKey(req[g].old)'
           /\ certs'[req'[g].old].router = Target(g)'
    BY <1>10, <1>11, <1>13, <1>15, KeyTypes DEF IInv, KnownKeys, Target
  <2>5. \A g \in Requests : req'[g].stage \in Signed =>
           /\ req'[g].new \in 1 .. issued
           /\ \A f \in Requests \ {g} :
                 req'[f].stage \in Signed => req'[f].new # req'[g].new
    BY <1>10, <1>11 DEF IInv, KnownKeys, Signed
  <2>6. QED
    BY <1>1, <2>1, <2>2, <2>3, <2>4, <2>5 DEF KnownKeys
<1>23. CurrentObject'
  <2>1. \A g \in solo' : req[g].obj.cert # None =>
           certs'[req[g].obj.cert] = certs[req[g].obj.cert]
    BY <1>8, <1>13, <1>14, <1>15, <1>16 DEF IInv, KnownKeys
  <2>2. QED
    BY <1>9, <1>16, <2>1 DEF IInv, CurrentObject, At, Live, Target
<1>24. FileWritten'
  BY <1>1, <1>16 DEF IInv, FileWritten, CommonName, Target
<1>25. OwnAddressPushed'
  <2> SUFFICES ASSUME NEW q \in Routers \ suspect', Tunnelled(q)'
               PROVE  Pushed(q)' = IF FileOf(q)' \in torn' THEN None
                                      ELSE router'[q].ip
    BY DEF OwnAddressPushed
  <2>1. CASE q = r
    <3>1. h \in solo
      BY <1>2, <1>5, <2>1 DEF IInv, Alone
    <3>2. /\ router'[r].cert = n /\ router'[r].ip = ip
          /\ writers[cn] = {r}
      BY <1>1, <1>6, <1>8, <1>9, <2>1 DEF Tunnelled, FileOf
    <3>3. ccd[cn] = ip /\ cn \notin torn
      BY <1>1, <3>1, <3>2 DEF IInv, FileWritten
    <3>4. QED
      BY <1>1, <1>8, <2>1, <3>2, <3>3 DEF Pushed, FileOf
  <2>2. CASE q # r
    <3>1. q \notin suspect /\ router'[q] = router[q]
      BY <1>5, <1>9, <2>2
    <3>2. router[q].cert \in Keys /\ KnownKey(router[q].cert)
      BY <1>15, <3>1 DEF IInv, KnownKeys, Tunnelled
    <3>3. certs'[router[q].cert].cn = certs[router[q].cert].cn
      BY <1>13, <3>2
    <3>4. QED
      BY <1>1, <3>1, <3>3 DEF IInv, OwnAddressPushed, Tunnelled, Pushed, FileOf, Live
  <2>3. QED
    BY <2>1, <2>2
<1>26. UniqueAddresses'
  <2>1. RowMine(h, r) /\ ~Taken(r, ip) /\ AddressMine(h, r, ip)
    BY <1>1 DEF IInv, UniqueAddresses, At
  <2>2. QED
    BY <1>1, <1>5, <1>6, <2>1, RowSavedUnique
<1>27. \A q \in Routers \ {r} : Active(q)' \subseteq Active(q)
  BY <1>8 DEF Active
<1>28. r \notin disturbed => Active(r)' \subseteq {n}
  <2>1. r \notin disturbed => Active(r) \subseteq {o}
    BY <1>1, <1>2 DEF IInv, OldIsTheOne, Signed
  <2>2. Active(r)' \subseteq (Active(r) \ {o}) \cup {n}
    BY <1>8 DEF Active
  <2>3. QED
    BY <2>1, <2>2
<1>29. OldIsTheOne'
  <2> SUFFICES ASSUME NEW g \in Requests, ~At(g, "idle")', NEW q \in Routers,
                      q = Target(g), q \notin disturbed, g # h
               PROVE  /\ req[g].stage \in Signed \cup {"revoke", "force"} =>
                            Active(q)' \subseteq {req[g].old}
                      /\ At(g, "sign") => Active(q)' = {}
                      /\ ~At(g, "add")
    <3>1. \A g \in Requests : ~At(g, "idle")' =>
             /\ g # h /\ req'[g] = req[g] /\ Target(g)' = Target(g)
             /\ Target(g) \in Routers
      BY <1>10, <1>11, KeyTypes DEF IInv, Alone, At, Target
    <3>2. QED
      BY <1>1, <3>1 DEF OldIsTheOne, At, Active
  <2>1. ~At(g, "idle")
    BY <1>10 DEF At
  <2>2. q # r
    BY <1>2, <2>1 DEF IInv, Alone
  <2>3. QED
    BY <1>27, <2>1, <2>2 DEF IInv, OldIsTheOne
<1>30. OneActiveCertificate'
  BY <1>1, <1>27, <1>28 DEF IInv, OneActiveCertificate
<1>31. QED
  BY <1>18, <1>19, <1>20, <1>21, <1>22, <1>23, <1>24, <1>25, <1>26, <1>29,
     <1>30 DEF IInv

-----------------------------------------------------------------------------
(***************************************************************************)
(* Requests that begin.                                                    *)
(***************************************************************************)
\* A request that begins has loaded the row, which may just be inserted.
LEMMA BeginInvariant ==
    ASSUME IInv, NEW h \in Requests, NEW r \in Routers,
           NEW st \in {"assign", "full", "drop", "force", "sign", "add"},
           NEW row \in Row, NEW old \in Keys \cup {None},
           Begin(h, r, st, row, old),
           router' \in [Routers -> Row],
           \A q \in Routers \ {r} : router'[q] = router[q],
           router'[r].state = "live",
           row.ip = router'[r].ip, row.cert = router'[r].cert,
           row.provisioned = router'[r].provisioned,
           \/ router'[r] = router[r]
           \/ ~Live(r) /\ row.ip = None /\ row.cert = None /\ ~row.provisioned,
           old # None => KnownKey(old) /\ certs[old].router = r,
           st = "force" /\ r \notin disturbed => Active(r) \subseteq {old},
           st = "sign" => Active(r) = {}
    PROVE  IInv'
<1> DEFINE x == [NoRequest EXCEPT !.router = r, !.stage = st, !.obj = row,
                                  !.old = old]
           others == {g \in Requests : Target(g) = r}
           hit == IF others = {} THEN {} ELSE {r}
<1>1. /\ req[h].stage = "idle"
      /\ begun' = begun + 1
      /\ req' = [req EXCEPT ![h] = x]
      /\ solo' = (solo \ others) \cup (IF others = {} THEN {h} ELSE {})
      /\ suspect' = suspect \cup hit
      /\ disturbed' = disturbed \cup hit \cup (IF st = "add" THEN {r} ELSE {})
      /\ UNCHANGED <<certs, issued, ccd, faults, writers, torn>>
  BY DEF Begin, At
<1>2. /\ x \in Request
      /\ x.router = r /\ x.stage = st /\ x.obj = row /\ x.old = old
  <2>1. st \in Stages
    BY DEF Stages
  <2>2. QED
    BY <2>1, NoRequestType DEF NoRequest, Request
<1> HIDE DEF x
<1>3. /\ req' \in [Requests -> Request]
      /\ req'[h] = x
      /\ \A g \in Requests \ {h} : req'[g] = req[g]
  BY <1>1, <1>2 DEF IInv, TypeOK
<1>4. Target(h) = NoRouter /\ r # NoRouter /\ h \notin others
  BY <1>1, ProvisioningAssumption DEF IInv, Alone, At
<1>5. \A g \in solo' \ {h} : /\ g \in solo /\ g \in Requests
                              /\ Target(g) \in Routers \ {r} /\ req'[g] = req[g]
  BY <1>1, <1>3, KeyTypes DEF IInv, Alone, TypeOK
<1>6. TypeOK'
  <2>1. /\ solo' \in SUBSET Requests
        /\ suspect' \in SUBSET Routers /\ disturbed' \in SUBSET Routers
    BY <1>1 DEF IInv, TypeOK
  <2>2. QED
    BY <1>1, <1>3, <2>1 DEF IInv, TypeOK
<1>7. Alone'
  <2>1. /\ Target(h)' = r /\ ~At(h, "idle")'
        /\ \A g \in Requests \ {h} : /\ Target(g)' = Target(g)
                                     /\ At(g, "idle")' <=> At(g, "idle")
    BY <1>2, <1>3 DEF Target, At
  <2>2. \A g \in Requests : At(g, "idle")' <=> Target(g)' = NoRouter
    BY <1>4, <2>1 DEF IInv, Alone
  <2>3. ASSUME NEW g \in solo'
        PROVE  /\ ~At(g, "idle")'
               /\ \A f \in Requests : Target(f)' = Target(g)' => f = g
    <3>1. CASE g = h
      <4>1. h \notin solo /\ others = {}
        BY <1>1, <2>3, <3>1 DEF IInv, Alone, At
      <4>2. QED
        BY <2>1, <3>1, <4>1
    <3>2. CASE g # h
      BY <1>5, <2>1, <2>3, <3>2 DEF IInv, Alone
    <3>3. QED
      BY <3>1, <3>2
  <2>4. ASSUME NEW g \in Requests \ solo', ~At(g, "idle")'
        PROVE  Target(g)' \in suspect' \cap disturbed'
    <3>1. CASE g = h
      BY <1>1, <2>1, <2>4, <3>1
    <3>2. CASE g # h /\ g \in others
      BY <1>1, <2>1, <2>4, <3>2
    <3>3. CASE g # h /\ g \notin others
      BY <1>1, <2>1, <2>4, <3>3 DEF IInv, Alone
    <3>4. QED
      BY <3>1, <3>2, <3>3
  <2>5. QED
    BY <2>2, <2>3, <2>4 DEF Alone
<1> HIDE DEF others, hit
<1>8. Columns'
  BY <1>2, <1>3 DEF IInv, Columns, Addressed
<1>9. \A k \in Nat : KnownKey(k) => KnownKey(k)'
  BY <1>1, <1>2, <1>3, KeyTypes, KeysStayKnown DEF IInv, Signed
<1>10. CommittedKeys'
  BY <1>1, <1>9 DEF IInv, CommittedKeys, Keys
<1>11. KnownKeys'
  <2>1. row.cert # None => KnownKey(row.cert) /\ certs[row.cert].router = r
    BY DEF IInv, KnownKeys, Live
  <2>2. row.cert \in Nat /\ old \in Nat
    BY ProvisioningAssumption DEF Row, Keys, None
  <2>3. QED
    BY <1>1, <1>2, <1>3, <1>9, <2>1, <2>2, KeyTypes
       DEF IInv, KnownKeys, Signed, Live, Target
<1>12. CurrentObject'
  <2> SUFFICES ASSUME NEW g \in solo', NEW q \in Routers, q = Target(g)'
               PROVE  /\ req'[g].stage \in Provisioning /\ Live(q)' =>
                            /\ req'[g].obj.ip = router'[q].ip
                            /\ req'[g].stage \in Addressed
                                 /\ router'[q].ip # None =>
                                   req'[g].ip = router'[q].ip
                      /\ At(g, "full")' =>
                            \/ req'[g].obj.cert = None
                            \/ certs'[req'[g].obj.cert].status = "none"
                            \/ /\ Live(q)'
                               /\ req'[g].obj.ip = router'[q].ip
                               /\ req'[g].obj.cert = router'[q].cert
                               /\ req'[g].obj.provisioned = router'[q].provisioned
    <3>1. \A g \in solo' : Target(g)' \in Routers
      BY <1>2, <1>3, <1>5 DEF Target
    <3>2. QED
      BY <3>1 DEF CurrentObject
  <2>1. CASE g = h
    BY <1>2, <1>3, <2>1 DEF Addressed, Target, Live
  <2>2. CASE g # h
    BY <1>1, <1>5, <2>2 DEF IInv, CurrentObject, At, Live, Target
  <2>3. QED
    BY <2>1, <2>2
<1>13. FileWritten'
  BY <1>1, <1>2, <1>3, <1>5 DEF IInv, FileWritten, CommonName, Target
<1>14. OwnAddressPushed'
  BY <1>1 DEF IInv, OwnAddressPushed, Tunnelled, Pushed, FileOf, Live
<1>15. UniqueAddresses'
  <2>1. \A g \in Requests : At(g, "commit")' =>
           /\ g # h /\ At(g, "commit") /\ Target(g)' = Target(g)
           /\ req'[g] = req[g] /\ Target(g) \in Routers
    BY <1>2, <1>3, KeyTypes DEF IInv, Alone, At, Target
  <2>2. ASSUME NEW q \in Routers, NEW ip, ~Taken(q, ip)
        PROVE  ~Taken(q, ip)'
    BY <2>2 DEF Taken, Siblings, Live
  <2>3. \A q \in Routers : Live(q) => Live(q)'
    BY DEF Live
  <2>4. ASSUME NEW q \in Routers, Live(q)'
        PROVE  ~Taken(q, router[q].ip)'
    <3>1. CASE router'[q] = router[q]
      <4>1. ~Taken(q, router[q].ip)
        BY <2>4, <3>1 DEF IInv, UniqueAddresses, Live
      <4>2. ASSUME NEW ip, ip = router[q].ip
            PROVE  ~Taken(q, ip)'
        BY <2>2, <4>1, <4>2
      <4>3. QED
        BY <3>1, <4>2 DEF Taken
    <3>2. CASE router'[q] # router[q]
      BY <3>2 DEF Taken
    <3>3. QED
      BY <3>1, <3>2
  <2>5. ASSUME NEW g \in Requests, At(g, "commit")'
        PROVE  Live(Target(g))' /\ ~Taken(Target(g), req[g].ip)'
    <3>1. ASSUME NEW q \in Routers, q = Target(g), NEW ip, ip = req[g].ip
          PROVE  Live(q)' /\ ~Taken(q, ip)'
      BY <2>1, <2>2, <2>3, <2>5, <3>1 DEF IInv, UniqueAddresses
    <3>2. QED
      BY <2>1, <2>5, <3>1 DEF Taken, Live
  <2>6. ASSUME NEW g \in Requests, At(g, "commit")'
        PROVE  RowMine(g, Target(g))' /\ AddressMine(g, Target(g), req[g].ip)'
    BY <2>1, <2>6 DEF IInv, UniqueAddresses, RowMine, AddressMine
  <2>7. QED
    BY <2>4, <2>5, <2>6 DEF UniqueAddresses
<1>16. OldIsTheOne'
  <2> SUFFICES ASSUME NEW g \in Requests, ~At(g, "idle")',
                      NEW q, q = req'[g].router, q \notin disturbed'
               PROVE  /\ req'[g].stage \in Signed \cup {"revoke", "force"} =>
                            Active(q) \subseteq {req'[g].old}
                      /\ req'[g].stage = "sign" => Active(q) = {}
                      /\ req'[g].stage # "add"
    BY <1>1 DEF OldIsTheOne, At, Target, Active
  <2>0. disturbed \subseteq disturbed' /\ (st = "add" => r \in disturbed')
    BY <1>1
  <2>1. CASE g = h
    BY <1>2, <1>3, <2>0, <2>1 DEF Signed
  <2>2. CASE g # h
    <3>1. req'[g] = req[g] /\ q = Target(g) /\ ~At(g, "idle")
      BY <1>3, <2>2 DEF Target, At
    <3>2. QED
      BY <2>0, <3>1 DEF IInv, OldIsTheOne, At
  <2>3. QED
    BY <2>1, <2>2
<1>17. OneActiveCertificate'
  BY <1>1 DEF IInv, OneActiveCertificate, Active
<1>18. QED
  BY <1>6, <1>7, <1>8, <1>10, <1>11, <1>12, <1>13, <1>14, <1>15, <1>16, <1>17
     DEF IInv

LEMMA BeginSomeInvariant ==
    ASSUME IInv, NEW h \in Requests, BeginSome(h)
    PROVE  IInv'
<1>1. PICK r \in Routers :
         \/ \E name \in Names : CreateRouter(h, r, name) \/ LoadForSave(h, r, name)
         \/ Reprovision(h, r)
         \/ RevokeVpn(h, r)
         \/ GenerateCertificate(h, r)
         \/ AddCertificate(h, r)
  BY DEF BeginSome
<1>2. /\ router \in [Routers -> Row] /\ router[r] \in Row
      /\ None \in Keys \cup {None}
  BY DEF IInv, TypeOK
<1>3. ASSUME NEW name \in Names, CreateRouter(h, r, name)
      PROVE  IInv'
  <2> DEFINE row == [BlankRow EXCEPT !.state = "live", !.name = name]
  <2>1. /\ router[r].state = "new"
        /\ Begin(h, r, "assign", row, None)
        /\ router' = [router EXCEPT ![r] = row]
    BY <1>3 DEF CreateRouter
  <2>2. /\ row \in Row /\ row.state = "live"
        /\ row.ip = None /\ row.cert = None /\ ~row.provisioned
    BY NoRequestType DEF BlankRow, Row
  <2> HIDE DEF row
  <2>3. /\ router' \in [Routers -> Row] /\ router'[r] = row
        /\ \A q \in Routers \ {r} : router'[q] = router[q]
    BY <1>2, <2>1, <2>2
  <2>4. ~Live(r)
    BY <2>1 DEF Live
  <2>5. QED
    BY <1>2, <2>1, <2>2, <2>3, <2>4, BeginInvariant
<1>4. ASSUME NEW name \in Names, LoadForSave(h, r, name)
      PROVE  IInv'
  <2> DEFINE row == [router[r] EXCEPT !.name = name]
  <2>1. Live(r) /\ Begin(h, r, "full", row, None) /\ router' = router
    BY <1>4 DEF LoadForSave
  <2>2. /\ row \in Row /\ row.ip = router[r].ip /\ row.cert = router[r].cert
        /\ row.provisioned = router[r].provisioned
    BY <1>2 DEF Row
  <2> HIDE DEF row
  <2>3. QED
    BY <1>2, <2>1, <2>2, BeginInvariant DEF Live
<1>5. CASE Reprovision(h, r)
  <2>1. Live(r) /\ Begin(h, r, "assign", router[r], None) /\ router' = router
    BY <1>5 DEF Reprovision
  <2>2. QED
    BY <1>2, <2>1, BeginInvariant DEF Live
<1>6. CASE RevokeVpn(h, r)
  <2>1. Live(r) /\ Begin(h, r, "drop", router[r], None) /\ router' = router
    BY <1>6 DEF RevokeVpn
  <2>2. QED
    BY <1>2, <2>1, BeginInvariant DEF Live
<1>7. CASE GenerateCertificate(h, r)
  <2>1. PICK old \in First(Active(r)) :
           Begin(h, r, IF old = None THEN "sign" ELSE "force", router[r], old)
    BY <1>7 DEF GenerateCertificate
  <2>2. Live(r) /\ router' = router
    BY <1>7 DEF GenerateCertificate
  <2>3. /\ Active(r) \subseteq Keys
        /\ old \in Active(r) \cup {None}
        /\ old = None => Active(r) = {}
    BY ProvisioningAssumption DEF First, Active, Keys, None
  <2>4. old # None => KnownKey(old) /\ certs[old].router = r
    BY <2>3 DEF Active, IInv, CommittedKeys
  <2>5. r \notin disturbed => Active(r) \subseteq {old}
    BY <2>3, FirstOfOne DEF IInv, OneActiveCertificate
  <2>6. CASE old = None
    BY <1>2, <2>1, <2>2, <2>3, <2>6, BeginInvariant DEF Live
  <2>7. CASE old # None
    BY <1>2, <2>1, <2>2, <2>3, <2>4, <2>5, <2>7, BeginInvariant DEF Live
  <2>8. QED
    BY <2>6, <2>7
<1>8. CASE AddCertificate(h, r)
  <2>1. Live(r) /\ Begin(h, r, "add", router[r], None) /\ router' = router
    BY <1>8 DEF AddCertificate
  <2>2. QED
    BY <1>2, <2>1, BeginInvariant DEF Live
<1>9. QED
  BY <1>1, <1>3, <1>4, <1>5, <1>6, <1>7, <1>8

-----------------------------------------------------------------------------
(***************************************************************************)
(* The theorems.                                                           *)
(***************************************************************************)
LEMMA StutterInvariant ==
    ASSUME IInv, UNCHANGED vars
    PROVE  IInv'
<1>1. /\ UNCHANGED <<router, certs, issued, ccd, req, faults>>
      /\ UNCHANGED <<begun, writers, torn, solo, suspect, disturbed>>
  BY DEF vars, history
<1>2. TypeOK' /\ Columns' /\ Alone'
  BY <1>1 DEF IInv, TypeOK, Columns, Alone, At, Target
<1>3. /\ \A k : KnownKey(k)' <=> KnownKey(k)
      /\ CommittedKeys' /\ KnownKeys'
  BY <1>1 DEF IInv, CommittedKeys, KnownKeys, KnownKey, Live, Target
<1>4. CurrentObject' /\ FileWritten'
  BY <1>1 DEF IInv, CurrentObject, FileWritten, CommonName, At, Live, Target
<1>5. UniqueAddresses'
  BY <1>1 DEF IInv, UniqueAddresses, At, Live, Taken, RowMine, AddressMine,
              Target
<1>6. OldIsTheOne'
  BY <1>1 DEF IInv, OldIsTheOne, At, Target, Active
<1>7. QED
  BY <1>1, <1>2, <1>3, <1>4, <1>5, <1>6, RowsUnchanged DEF IInv

LEMMA NextInvariant == IInv /\ [Next]_vars => IInv'
<1> SUFFICES ASSUME IInv, [Next]_vars
             PROVE  IInv'
  OBVIOUS
<1>1. CASE UNCHANGED vars
  BY <1>1, StutterInvariant
<1>2. ASSUME NEW h \in Requests, BeginSome(h)
      PROVE  IInv'
  BY <1>2, BeginSomeInvariant
<1>3. ASSUME NEW h \in Requests, Step(h)
      PROVE  IInv'
  BY <1>3, AssignInvariant, FindInvariant, CertifyInvariant, FileInvariant,
     SaveTunnelInvariant, CommitInvariant, SaveAllInvariant,
     SaveRevokedInvariant, ForceInvariant, SignInvariant DEF Step
<1>4. ASSUME NEW h \in Requests, FailFile(h) \/ Crash(h)
      PROVE  IInv'
  BY <1>4, FailInvariant
<1>5. ASSUME NEW k \in Keys, RevokeCertificate(k) \/ DeleteCertificate(k)
      PROVE  IInv'
  BY <1>5, RevokeInvariant, DeleteCertificateInvariant
<1>6. ASSUME NEW r \in Routers, DeleteRouter(r)
      PROVE  IInv'
  BY <1>6, DeleteRouterInvariant
<1>7. QED
  BY <1>1, <1>2, <1>3, <1>4, <1>5, <1>6 DEF Next

\* The invariant holds for every set of routers, addresses and requests.
THEOREM RouterInvariant == Spec => []IInv
<1>1. QED
  BY InitInvariant, NextInvariant, PTL DEF Spec

\* Every variable keeps its type.
THEOREM RouterTypeOK == Spec => []TypeOK
<1>1. IInv => TypeOK
  BY DEF IInv
<1>2. QED
  BY <1>1, RouterInvariant, PTL

\* OpenVPN pushes to a provisioned router the address its row says, or none
\* when create_ccd_file has emptied its file and not written it, whatever
\* failed in provision_router before or after, unless requests on the router
\* have overlapped since it was provisioned.
THEOREM FilesPushOwnAddress == Spec => []OwnAddressPushed
<1>1. IInv => OwnAddressPushed
  BY DEF IInv
<1>2. QED
  BY <1>1, RouterInvariant, PTL

\* Two such routers of a tenant are not pushed the same address: the unique
\* index stops what _assign_vpn_ip chooses twice.
THEOREM TenantAddressesApart == Spec => []AddressesApart
<1>1. IInv => AddressesApart
  <2> SUFFICES ASSUME IInv, NEW r \in Routers \ suspect,
                      NEW s \in Siblings(r) \ suspect,
                      Tunnelled(r), Tunnelled(s), Pushed(r) # None,
                      Pushed(r) = Pushed(s)
               PROVE  FALSE
    BY DEF AddressesApart
  <2>1. s \in Routers /\ Pushed(r) = router[r].ip /\ Pushed(s) = router[s].ip
    BY DEF IInv, OwnAddressPushed, Siblings
  <2>2. router[r].ip # None /\ Live(r) /\ Live(s)
    BY DEF IInv, Columns, Tunnelled
  <2>3. Taken(r, router[r].ip)
    BY <2>1, <2>2 DEF Taken
  <2>4. QED
    BY <2>2, <2>3 DEF IInv, UniqueAddresses
<1>2. QED
  BY <1>1, RouterInvariant, PTL

\* A router whose requests have never overlapped has one active certificate
\* at most: _generate_client_certificate and generate-certificate find the
\* one the other has issued.
THEOREM CertificatesReplaceEachOther == Spec => []OneActiveCertificate
<1>1. IInv => OneActiveCertificate
  BY DEF IInv
<1>2. QED
  BY <1>1, RouterInvariant, PTL

=============================================================================
