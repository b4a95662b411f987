-------------------------------- MODULE MCShops --------------------------------
EXTENDS Shops, TLC
CONSTANTS u1, u2, n1, n2, n3, h1, h2
MCUsers == {u1, u2}
MCNames == {n1, n2, n3}
MCHandlers == {h1, h2}
MCRole == u1 :> "TENANT_ADMIN" @@ u2 :> "ADMIN"
(* Two names of one slug, and a name whose slug is taken by the main site. *)
MCSlugOf == n1 :> "s1" @@ n2 :> "s1" @@ n3 :> "www"
Alike == Permutations(MCHandlers)
=============================================================================
