------------------------- MODULE RouterProvisioning -------------------------
(***************************************************************************)
(* The VPN tunnels of routers: their Router and VPNCertificate rows, and   *)
(* the client-config directory that tells OpenVPN which address to push to *)
(* which certificate name.                                                 *)
(*                                                                         *)
(* Rows live in the schema of their tenant; the directory, the OpenVPN     *)
(* server and its subnet are shared by all tenants.  A directory file is   *)
(* named after the router's id and name, and ids are counted per tenant.   *)
(*                                                                         *)
(* Provisioning is one READ COMMITTED transaction, but a file it writes    *)
(* stays when the transaction is rolled back.  Everything else runs in     *)
(* autocommit: it loads a row, and saves all or some of its columns later. *)
(* The rows of a certificate authority, created on first use, the NAS rows *)
(* that follow Router.ip_address and PATCHes of certificate rows, which    *)
(* may set any status, router and name, are left out.                      *)
(***************************************************************************)
EXTENDS Integers

CONSTANTS
    Tenants,
    Ids,          \* primary keys of the tenants' router tables
    Routers,      \* the routers there can be: <<tenant, id>>
    Names,        \* router names, up to case, blanks and their length
    Addresses,    \* VPN_IP_RANGE_START .. VPN_IP_RANGE_END
    Requests,     \* requests that can be in flight at a time
    MaxRequests,  \* bound on the requests that begin
    Faults,       \* subset of {"crash", "disk"}
    MaxFaults,    \* bound on faults
    NoRouter,
    Anonymous     \* what generate-certificate puts in place of a name

ASSUME ProvisioningAssumption ==
    /\ Routers \subseteq Tenants \X Ids
    /\ Routers # {}
    /\ Names # {}
    /\ Addresses \subseteq Nat \ {0}
    /\ MaxRequests \in Nat
    /\ Faults \subseteq {"crash", "disk"}
    /\ MaxFaults \in Nat
    /\ NoRouter \notin Routers
    /\ Anonymous \notin Names

VARIABLES
    router,   \* [router -> its committed row]
    certs,    \* the committed VPNCertificate rows
    issued,   \* how many certificates have been signed
    ccd,      \* [common name -> the address its file pushes]
    req,      \* [request -> where it stands]
    faults,
    begun,    \* how many requests have begun
    writers,  \* history: the routers for which a file has been put
    torn,     \* history: files emptied by an open whose write has not come
    solo,     \* history: requests that have had their router to themselves
    suspect,  \* history: requests on the router overlapped, and no request
              \* that had the router to itself has provisioned it since
    disturbed  \* history: requests on the router have ever overlapped, or
               \* one has issued a certificate beside another

history == <<begun, writers, torn, solo, suspect, disturbed>>
vars == <<router, certs, issued, ccd, req, faults, history>>

None == 0
Keys == 1 .. MaxRequests  \* a request signs one certificate at most
TenantOf(r) == r[1]
IdOf(r) == r[2]

CommonNames == Ids \X (Names \cup {Anonymous})

\* The tunnel's columns always move together with the PEM texts.
Row == [state: {"new", "live", "deleted"}, name: Names,
        ip: Addresses \cup {None}, cert: Keys \cup {None},
        provisioned: BOOLEAN]

Certificate == [status: {"none", "active", "revoked"}, router: Routers,
                cn: CommonNames]

Stages == {"idle", "assign", "find", "revoke", "write", "flush", "save",
           "commit", "full", "drop", "force", "sign", "add"}

Request == [router: Routers \cup {NoRouter}, stage: Stages, obj: Row,
            ip: Addresses \cup {None}, old: Keys \cup {None},
            new: Keys \cup {None}]

BlankRow == [state |-> "new", name |-> CHOOSE n \in Names : TRUE, ip |-> None,
             cert |-> None, provisioned |-> FALSE]
NoCertificate == [status |-> "none", router |-> CHOOSE r \in Routers : TRUE,
                  cn |-> CHOOSE c \in CommonNames : TRUE]
NoRequest == [router |-> NoRouter, stage |-> "idle", obj |-> BlankRow,
              ip |-> None, old |-> None, new |-> None]

Init ==
    /\ router = [r \in Routers |-> BlankRow]
    /\ certs = [k \in Keys |-> NoCertificate]
    /\ issued = 0
    /\ ccd = [c \in CommonNames |-> None]
    /\ req = [h \in Requests |-> NoRequest]
    /\ faults = 0
    /\ begun = 0
    /\ writers = [c \in CommonNames |-> {}]
    /\ torn = {}
    /\ solo = {}
    /\ suspect = {}
    /\ disturbed = {}

Live(r) == router[r].state = "live"
Siblings(r) == {s \in Routers \ {r} : TenantOf(s) = TenantOf(r)}
Target(h) == req[h].router
At(h, st) == req[h].stage = st
Goto(h, st) == req' = [req EXCEPT ![h].stage = st]

Active(r) == {k \in Keys : certs[k].status = "active" /\ certs[k].router = r}
\* filter(status='active').first(): certificates are ordered newest first.
First(ks) == IF ks = {} THEN {None} ELSE {k \in ks : \A j \in ks : j <= k}

\* A provisioning transaction locks the certificate it revokes, then the
\* router's row and the address it puts into the unique index.
CertFree(k) ==
    \A g \in Requests : req[g].stage \in {"write", "flush", "save", "commit"} =>
                           req[g].old # k
RowFree(r) == \A g \in Requests : At(g, "commit") => Target(g) # r
AddressFree(r, ip) ==
    \A g \in Requests :
        At(g, "commit") /\ Target(g) \in Siblings(r) => req[g].ip # ip
\* The unique index on vpn_ip_address: nulls do not collide.
Taken(r, ip) == /\ ip # None
                /\ \E s \in Siblings(r) : Live(s) /\ router[s].ip = ip

\* The request answers, fails or dies; an open transaction is rolled back.
End(h) == /\ req' = [req EXCEPT ![h] = NoRequest]
          /\ solo' = solo \ {h}

Fail(h) == /\ End(h)
           /\ UNCHANGED <<router, certs, issued, ccd, faults, begun, writers,
                          torn, suspect, disturbed>>

-----------------------------------------------------------------------------
(***************************************************************************)
(* Requests begin: they load the router's row.                             *)
(***************************************************************************)
Begin(h, r, st, row, old) ==
    /\ At(h, "idle")
    /\ begun < MaxRequests
    /\ begun' = begun + 1
    /\ req' = [req EXCEPT ![h] = [NoRequest EXCEPT !.router = r, !.stage = st,
                                                   !.obj = row, !.old = old]]
    /\ LET others == {g \in Requests : Target(g) = r}
           hit == IF others = {} THEN {} ELSE {r}
       IN  /\ solo' = (solo \ others) \cup (IF others = {} THEN {h} ELSE {})
           /\ suspect' = suspect \cup hit
           /\ disturbed' = disturbed \cup hit \cup
                               (IF st = "add" THEN {r} ELSE {})
    /\ UNCHANGED <<certs, issued, ccd, faults, writers, torn>>

\* RouterSerializer.validate: no other router of the tenant has the name.
NameIsFree(r, name) ==
    \A s \in Siblings(r) : Live(s) => router[s].name # name

\* perform_create: the row is saved, then provisioned.
CreateRouter(h, r, name) ==
    LET row == [BlankRow EXCEPT !.state = "live", !.name = name]
    IN  /\ router[r].state = "new"
        /\ NameIsFree(r, name)
        /\ Begin(h, r, "assign", row, None)
        /\ router' = [router EXCEPT ![r] = row]

\* reprovision_vpn
Reprovision(h, r) ==
    /\ Live(r)
    /\ Begin(h, r, "assign", router[r], None)
    /\ UNCHANGED router

\* PATCH, which may rename; update_config_settings and authenticate do not.
\* All of them save every column.
LoadForSave(h, r, name) ==
    /\ Live(r)
    /\ name # router[r].name => NameIsFree(r, name)
    /\ Begin(h, r, "full", [router[r] EXCEPT !.name = name], None)
    /\ UNCHANGED router

\* revoke_vpn: with an address it calls a method CCDManager does not have,
\* and answers 400 before it has changed anything.
RevokeVpn(h, r) ==
    /\ Live(r)
    /\ router[r].ip = None
    /\ Begin(h, r, "drop", router[r], None)
    /\ UNCHANGED router

\* generate-certificate: an active certificate is replaced only by force.
GenerateCertificate(h, r) ==
    /\ Live(r)
    /\ \E old \in First(Active(r)) :
          Begin(h, r, IF old = None THEN "sign" ELSE "force", router[r], old)
    /\ UNCHANGED router

\* VPNCertificateViewSet.create does not look for another certificate.
AddCertificate(h, r) ==
    /\ Live(r)
    /\ Begin(h, r, "add", router[r], None)
    /\ UNCHANGED router

-----------------------------------------------------------------------------
(***************************************************************************)
(* provision_router, statement by statement.                               *)
(***************************************************************************)
\* Mutant: the loop runs one address past the range.
Untaken_TooFar(r) ==
    {a \in Addresses \cup {b + 1 : b \in Addresses} :
        \A s \in Routers : TenantOf(s) = TenantOf(r) /\ Live(s) =>
                              router[s].ip # a}

\* The addresses that no committed row of the tenant has.
Untaken(r) ==
    {a \in Addresses :
        \A s \in Routers : TenantOf(s) = TenantOf(r) /\ Live(s) =>
                              router[s].ip # a}

Lowest(as) == {a \in as : \A b \in as : a <= b}

\* Mutant: the router's own address is not reused.
Candidates_Anew(h) == Lowest(Untaken(Target(h)))

\* The object's own address, or the lowest untaken one.
Candidates(h) == IF req[h].obj.ip # None THEN {req[h].obj.ip}
                 ELSE Lowest(Untaken(Target(h)))

\* _assign_vpn_ip
AssignAddress(h) ==
    /\ At(h, "assign")
    /\ \/ \E ip \in Candidates(h) :
             /\ req' = [req EXCEPT ![h].ip = ip, ![h].stage = "find"]
             /\ UNCHANGED <<router, certs, issued, ccd, faults, history>>
       \/ /\ Candidates(h) = {}
          /\ Fail(h)

\* Mutant: the old certificate is not looked for.
FindCertificate_None(h) ==
    /\ At(h, "find")
    /\ Goto(h, "revoke")
    /\ UNCHANGED <<router, certs, issued, ccd, faults, history>>

\* _generate_client_certificate looks for one active certificate.
FindCertificate(h) ==
    /\ At(h, "find")
    /\ \E old \in First(Active(Target(h))) :
          req' = [req EXCEPT ![h].old = old, ![h].stage = "revoke"]
    /\ UNCHANGED <<router, certs, issued, ccd, faults, history>>

\* It revokes that certificate, waiting for its row, and inserts a new one.
\* A save with update_fields fails when its row is gone.
Certify(h) ==
    LET old == req[h].old
    IN  /\ At(h, "revoke")
        /\ old # None => CertFree(old)
        /\ \/ /\ old # None /\ certs[old].status = "none"
              /\ Fail(h)
           \/ /\ old # None => certs[old].status # "none"
              /\ issued < MaxRequests
              /\ issued' = issued + 1
              /\ req' = [req EXCEPT ![h].new = issued', ![h].stage = "write"]
              /\ UNCHANGED <<router, certs, ccd, faults, history>>

CommonName(h) == <<IdOf(Target(h)), req[h].obj.name>>

PutFile(h, ip) ==
    /\ ccd' = [ccd EXCEPT ![CommonName(h)] = ip]
    /\ writers' = [writers EXCEPT ![CommonName(h)] = @ \cup {Target(h)}]

\* create_ccd_file: opening the file empties it, or creates it empty; an
\* empty file pushes nothing.
OpenFile(h) ==
    /\ At(h, "write")
    /\ PutFile(h, None)
    /\ torn' = torn \cup {CommonName(h)}
    /\ Goto(h, "flush")
    /\ UNCHANGED <<router, certs, issued, faults, begun, solo, suspect,
                   disturbed>>

\* The one line is buffered and written when the file is closed.
WriteFile(h) ==
    /\ At(h, "flush")
    /\ PutFile(h, req[h].ip)
    /\ torn' = torn \ {CommonName(h)}
    /\ Goto(h, "save")
    /\ UNCHANGED <<router, certs, issued, faults, begun, solo, suspect,
                   disturbed>>

\* The file cannot be opened, or the disk is full and it stays empty.
FailFile(h) ==
    /\ "disk" \in Faults /\ faults < MaxFaults
    /\ At(h, "write") \/ At(h, "flush")
    /\ faults' = faults + 1
    /\ End(h)
    /\ UNCHANGED <<router, certs, issued, ccd, begun, writers, torn, suspect,
                   disturbed>>

\* Mutant: vpn_ip_address is not unique.
SaveTunnel_NotUnique(h) ==
    LET r == Target(h)
    IN  /\ At(h, "save")
        /\ RowFree(r)
        /\ \/ /\ Live(r)
              /\ Goto(h, "commit")
              /\ UNCHANGED <<router, certs, issued, ccd, faults, history>>
           \/ /\ ~Live(r)
              /\ Fail(h)

\* router.save(update_fields=...): it waits for the row and for a
\* transaction that is putting the same address into the index.
SaveTunnel(h) ==
    LET r == Target(h)
    IN  /\ At(h, "save")
        /\ RowFree(r)
        /\ AddressFree(r, req[h].ip)
        /\ \/ /\ Live(r) /\ ~Taken(r, req[h].ip)
              /\ Goto(h, "commit")
              /\ UNCHANGED <<router, certs, issued, ccd, faults, history>>
           \/ /\ ~Live(r) \/ Taken(r, req[h].ip)
              /\ Fail(h)

Revoked(k) == [certs[k] EXCEPT !.status = "revoked"]
Issue(k, r, cn) == [status |-> "active", router |-> r, cn |-> cn]

Commit(h) ==
    LET r == Target(h)
    IN  /\ At(h, "commit")
        /\ router' = [router EXCEPT ![r].ip = req[h].ip,
                                    ![r].cert = req[h].new,
                                    ![r].provisioned = TRUE]
        /\ certs' = [k \in Keys |->
                        IF k = req[h].new THEN Issue(k, r, CommonName(h))
                        ELSE IF k = req[h].old THEN Revoked(k)
                        ELSE certs[k]]
        /\ suspect' = IF h \in solo THEN suspect \ {r} ELSE suspect
        /\ End(h)
        /\ UNCHANGED <<issued, ccd, faults, begun, writers, torn, disturbed>>

-----------------------------------------------------------------------------
(***************************************************************************)
(* The other requests save.                                                *)
(***************************************************************************)
\* save() of every column: UPDATE, or INSERT if the row is gone.
SaveAll(h) ==
    LET r == Target(h)
        row == req[h].obj
        refused == \/ Taken(r, row.ip)
                   \/ row.cert # None /\ certs[row.cert].status = "none"
    IN  /\ At(h, "full")
        /\ RowFree(r)
        /\ row.ip # None => AddressFree(r, row.ip)
        /\ router' = IF refused THEN router ELSE [router EXCEPT ![r] = row]
        /\ End(h)
        /\ UNCHANGED <<certs, issued, ccd, faults, begun, writers, torn, suspect,
                       disturbed>>

\* revoke_vpn of a router that had no address keeps vpn_certificate.
SaveRevoked(h) ==
    LET r == Target(h)
    IN  /\ At(h, "drop")
        /\ RowFree(r)
        /\ router' = IF Live(r)
                     THEN [router EXCEPT ![r].ip = None,
                                         ![r].provisioned = FALSE]
                     ELSE router
        /\ End(h)
        /\ UNCHANGED <<certs, issued, ccd, faults, begun, writers, torn, suspect,
                       disturbed>>

\* revoke_certificate in generate-certificate: committed at once.
ForceRevoke(h) ==
    LET old == req[h].old
    IN  /\ At(h, "force")
        /\ CertFree(old)
        /\ \/ /\ certs[old].status = "none"
              /\ Fail(h)
           \/ /\ certs[old].status # "none"
              /\ certs' = [certs EXCEPT ![old] = Revoked(old)]
              /\ Goto(h, "sign")
              /\ UNCHANGED <<router, issued, ccd, faults, history>>

\* The new certificate references the router, which must still be there.
Sign(h) ==
    LET r == Target(h)
    IN  /\ At(h, "sign") \/ At(h, "add")
        /\ issued < MaxRequests
        /\ issued' = issued + 1
        /\ certs' = IF Live(r)
                    THEN [certs EXCEPT ![issued'] =
                             Issue(issued', r, <<IdOf(r), Anonymous>>)]
                    ELSE certs
        /\ End(h)
        /\ UNCHANGED <<router, ccd, faults, begun, writers, torn, suspect,
                       disturbed>>

\* VPNCertificateViewSet.revoke
RevokeCertificate(k) ==
    /\ certs[k].status = "active"
    /\ CertFree(k)
    /\ certs' = [certs EXCEPT ![k] = Revoked(k)]
    /\ UNCHANGED <<router, issued, ccd, req, faults, history>>

\* Its destroy sets the columns that reference the certificate to null.
DeleteCertificate(k) ==
    LET r == certs[k].router
    IN  /\ certs[k].status # "none"
        /\ CertFree(k) /\ RowFree(r)
        /\ certs' = [certs EXCEPT ![k].status = "none"]
        /\ router' = IF router[r].cert = k
                     THEN [router EXCEPT ![r].cert = None] ELSE router
        /\ UNCHANGED <<issued, ccd, req, faults, history>>

\* destroy: the certificates go with the row; the directory file stays.
DeleteRouter(r) ==
    /\ Live(r)
    /\ RowFree(r)
    /\ \A k \in Keys : certs[k].router = r => CertFree(k)
    /\ router' = [router EXCEPT ![r].state = "deleted"]
    /\ certs' = [k \in Keys |-> IF certs[k].router = r
                                THEN [certs[k] EXCEPT !.status = "none"]
                                ELSE certs[k]]
    /\ UNCHANGED <<issued, ccd, req, faults, history>>

\* The process dies.
Crash(h) ==
    /\ "crash" \in Faults /\ faults < MaxFaults
    /\ ~At(h, "idle")
    /\ faults' = faults + 1
    /\ End(h)
    /\ UNCHANGED <<router, certs, issued, ccd, begun, writers, torn, suspect,
                   disturbed>>

BeginSome(h) ==
    \E r \in Routers :
        \/ \E name \in Names : CreateRouter(h, r, name) \/ LoadForSave(h, r, name)
        \/ Reprovision(h, r)
        \/ RevokeVpn(h, r)
        \/ GenerateCertificate(h, r)
        \/ AddCertificate(h, r)

Step(h) ==
    \/ AssignAddress(h)
    \/ FindCertificate(h)
    \/ Certify(h)
    \/ OpenFile(h)
    \/ WriteFile(h)
    \/ SaveTunnel(h)
    \/ Commit(h)
    \/ SaveAll(h)
    \/ SaveRevoked(h)
    \/ ForceRevoke(h)
    \/ Sign(h)

Next ==
    \/ \E h \in Requests : BeginSome(h) \/ Step(h) \/ FailFile(h) \/ Crash(h)
    \/ \E k \in Keys : RevokeCertificate(k) \/ DeleteCertificate(k)
    \/ \E r \in Routers : DeleteRouter(r)

Spec == Init /\ [][Next]_vars

-----------------------------------------------------------------------------
TypeOK ==
    /\ router \in [Routers -> Row]
    /\ certs \in [Keys -> Certificate]
    /\ issued \in 0 .. MaxRequests
    /\ ccd \in [CommonNames -> Addresses \cup {None}]
    /\ req \in [Requests -> Request]
    /\ faults \in Nat
    /\ begun \in Nat
    /\ writers \in [CommonNames -> SUBSET Routers]
    /\ torn \in SUBSET CommonNames
    /\ solo \in SUBSET Requests
    /\ suspect \in SUBSET Routers
    /\ disturbed \in SUBSET Routers

FileOf(r) == certs[router[r].cert].cn

\* The file of the router's certificate is the router's own: no router of
\* another tenant with the same id and name has written it.
Tunnelled(r) ==
    /\ Live(r) /\ router[r].provisioned /\ router[r].cert # None
    /\ writers[FileOf(r)] = {r}
Pushed(r) == ccd[FileOf(r)]

\* OpenVPN pushes to a provisioned router the address its row says, where
\* the controller then connects, or none if a write of its file was begun
\* and not finished; never another, whatever requests failed after they had
\* written a file, and whatever other routers do.  Requests on one router
\* that overlap may break it; one that has the router to itself repairs it.
OwnAddressPushed ==
    \A r \in Routers \ suspect : Tunnelled(r) =>
        Pushed(r) = IF FileOf(r) \in torn THEN None ELSE router[r].ip

\* Two such routers of a tenant are not pushed the same address, although
\* the address is chosen without a lock.
AddressesApart ==
    \A r \in Routers \ suspect : \A s \in Siblings(r) \ suspect :
        Tunnelled(r) /\ Tunnelled(s) /\ Pushed(r) # None => Pushed(r) # Pushed(s)

\* A router whose requests have never overlapped, and for which none was
\* added by hand, has one active certificate at most, though provisioning
\* and generate-certificate replace each other's, and each revokes only one.
OneActiveCertificate ==
    \A r \in Routers \ disturbed : \A j, k \in Active(r) : j = k

=============================================================================
