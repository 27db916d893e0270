------------------------ MODULE MCRouterProvisioning ------------------------
(* Two routers of one tenant, and one of another that has an id in common. *)
EXTENDS RouterProvisioning, TLC

CONSTANTS t1, t2, h1, h2

MCTenants == {t1, t2}
MCIds == {1, 2}
MCRouters == {<<t1, 1>>, <<t1, 2>>, <<t2, 1>>}
MCAddresses == 10 .. 11

Symmetry == Permutations(Requests)

=============================================================================
