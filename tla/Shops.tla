---------------------------------- MODULE Shops ----------------------------------
(***************************************************************************)
(* Shops (tenants): their registration, which opens a subaccount at the    *)
(* payment gateway between its check and its insert, their verification    *)
(* and soft deletion, and the host names that lead to them.                *)
(*                                                                         *)
(* A request carries the access token of its user and arrives at a host;   *)
(* Api says what stands before its handler.  The token's payload is the    *)
(* user's id, phone and role: it has neither a tenantId nor an email.      *)
(***************************************************************************)
EXTENDS Api, FiniteSets

CONSTANTS
  Users, Handlers,
  None,        \* nobody, no shop, no subaccount
  Names,       \* business names
  SlugOf,      \* Slug.create: a name's slug, or None when it has none
  Role,        \* users.role: no code writes it once the user is created
  MaxAccounts  \* bound: subaccounts ever opened

ASSUME NoneAssumption == None \notin Users \union Names \union Nat
ASSUME RoleAssumption == Role \in [Users -> {"CUSTOMER", "TENANT_ADMIN", "ADMIN"}]
ASSUME SlugAssumption == DOMAIN SlugOf = Names /\ \A n \in Names : SlugOf[n] # ""
ASSUME BoundAssumption == MaxAccounts \in Nat

VARIABLES
  shops,     \* table Tenant; a shop's id is its index
  accounts,  \* the gateway's subaccounts: who asked for each
  proc,      \* the registrations in flight
  strays     \* history: subaccounts whose registration died or was refused

vars == <<shops, accounts, proc, strays>>

ShopIds == DOMAIN shops
Slugs == {SlugOf[n] : n \in Names} \ {None}

Idle == [pc |-> "idle"]
At(h, pc) == proc[h].pc = pc
Ends(h) == proc' = [proc EXCEPT ![h] = Idle]
Strays(h) == IF At(h, "idle") THEN {} ELSE {proc[h].account} \ {None}

(* findBySlug: the one shop of a slug, or None.                            *)
FindBySlug(slug, includeInactive) ==
  LET found == {s \in ShopIds : shops[s].slug = slug /\ (includeInactive \/ shops[s].isActive)}
  IN  IF found = {} THEN None ELSE CHOOSE s \in found : TRUE

(* A host is named by its subdomain, the main domain by the empty one,     *)
(* which is no slug.  TenantMiddleware: the main domain and its www have   *)
(* no shop; a host that should have one and has none is refused before any *)
(* guard.                                                                  *)
MainHosts == {"", "www"}
Hosts == MainHosts \union Slugs
ShopOf(host) == IF host \in MainHosts THEN None ELSE FindBySlug(host, FALSE)

Payload(u) == [id |-> u, role |-> Role[u], tenantId |-> None, email |-> None]
Leads(host) == host \in MainHosts \/ ShopOf(host) # None
Request(u, cookie, host) ==
  [user |-> IF u = None THEN None ELSE Payload(u), shop |-> ShopOf(host), cookie |-> cookie]

(* A request for the path of an operation reaches it: the router takes the *)
(* operation's own route, the host leads somewhere and nothing refuses.    *)
Serves(calls, u, cookie, host) ==
  /\ RouteTaken[calls].calls = calls
  /\ Leads(host)
  /\ Refusals(RouteTaken[calls], Request(u, cookie, host), None) = {}

(* No operation looks at the host once its guards have let the user in.    *)
Served(calls, u) == \E host \in Hosts, cookie \in BOOLEAN : Serves(calls, u, cookie, host)

Init ==
  /\ shops = <<>>
  /\ accounts = <<>>
  /\ proc = [h \in Handlers |-> Idle]
  /\ strays = {}

(***************************************************************************)
(* create: check the slug, open a subaccount, insert the row.  The event   *)
(* that follows has no queue (EventBus).                                   *)
(***************************************************************************)
RequestShop(h, u, name, banked) ==
  /\ At(h, "idle") /\ Served("tenants.create", u)
  /\ SlugOf[name] # None /\ FindBySlug(SlugOf[name], TRUE) = None
  /\ proc' = [proc EXCEPT ![h] =
       [pc |-> IF banked THEN "createSubaccount" ELSE "insert",
        owner |-> u, name |-> name, banked |-> banked, account |-> None]]
  /\ UNCHANGED <<shops, accounts, strays>>

(* The gateway opens the account; its answer may be lost.                  *)
CreateSubaccount(h, answered) ==
  /\ At(h, "createSubaccount") /\ Len(accounts) < MaxAccounts
  /\ accounts' = Append(accounts, proc[h].owner)
  /\ IF answered
     THEN /\ proc' = [proc EXCEPT ![h].pc = "insert", ![h].account = Len(accounts) + 1]
          /\ UNCHANGED strays
     ELSE Ends(h) /\ strays' = strays \union {Len(accounts) + 1}
  /\ UNCHANGED shops

(* A row has each field of the request, the account among them.            *)
NewRow(r, account) ==
  [owner |-> r.owner, name |-> r.name, slug |-> SlugOf[r.name], isActive |-> TRUE,
   isVerified |-> FALSE, banked |-> r.banked, account |-> account]
Shop_Unpaid(r) == NewRow(r, None)
Shop_RawSlug(r) == [NewRow(r, r.account) EXCEPT !.slug = r.name]
Shop(r) == NewRow(r, r.account)

(* The unique keys of the table: slug and userId.                          *)
Taken_ByOwner(r) == \E s \in ShopIds : shops[s].owner = r.owner
Taken(r) == \E s \in ShopIds : shops[s].slug = SlugOf[r.name] \/ shops[s].owner = r.owner

InsertShop(h) ==
  /\ At(h, "insert")
  /\ IF Taken(proc[h])
     THEN strays' = strays \union Strays(h) /\ UNCHANGED shops
     ELSE shops' = Append(shops, Shop(proc[h])) /\ UNCHANGED strays
  /\ Ends(h)
  /\ UNCHANGED accounts

(* The gateway refuses, or the process crashes.                            *)
Fail(h) ==
  /\ ~At(h, "idle")
  /\ strays' = strays \union Strays(h)
  /\ Ends(h)
  /\ UNCHANGED <<shops, accounts>>

(***************************************************************************)
(* What is done to a shop once it is there.  An update drops a             *)
(* businessName, so that the slug stays that of the name; what it changes  *)
(* otherwise is Catalog's.                                                 *)
(***************************************************************************)
Write(s, row) == shops' = [shops EXCEPT ![s] = row] /\ UNCHANGED <<accounts, proc, strays>>

VerifyShop(u, s, isVerified) ==
  /\ Served("tenants.verifyTenant", u)
  /\ Write(s, [shops[s] EXCEPT !.isVerified = isVerified])

DeleteShop(u, s) ==
  /\ Served("tenants.delete", u)
  /\ Write(s, [shops[s] EXCEPT !.isActive = FALSE])

Next ==
  \/ \E h \in Handlers :
       \/ \E u \in Users, name \in Names, banked \in BOOLEAN :
            RequestShop(h, u, name, banked)
       \/ \E answered \in BOOLEAN : CreateSubaccount(h, answered)
       \/ InsertShop(h) \/ Fail(h)
  \/ \E u \in Users, s \in ShopIds :
       \/ \E isVerified \in BOOLEAN : VerifyShop(u, s, isVerified)
       \/ DeleteShop(u, s)

Spec == Init /\ [][Next]_vars

(***************************************************************************)
(* Properties.                                                             *)
(***************************************************************************)
Codes == 1 .. MaxAccounts
Row ==
  [owner : Users, name : Names, slug : Slugs, isActive : BOOLEAN,
   isVerified : BOOLEAN, banked : BOOLEAN, account : Codes \union {None}]
Registration ==
  [pc : {"createSubaccount", "insert"}, owner : Users, name : Names, banked : BOOLEAN,
   account : Codes \union {None}]

(* Every variable keeps its type.                                          *)
TypeOK ==
  /\ shops \in Seq(Row)
  /\ accounts \in Seq(Users) /\ Len(accounts) <= MaxAccounts
  /\ proc \in [Handlers -> Registration \union {Idle}]
  /\ strays \subseteq DOMAIN accounts

(* An address that led to a shop never leads to another, though a shop is  *)
(* deleted softly, two names have one slug and registrations overlap.      *)
AddressIsForLife ==
  [][/\ \A slug \in Slugs : FindBySlug(slug, TRUE) # None => FindBySlug(slug, TRUE)' = FindBySlug(slug, TRUE)
     /\ \A slug \in Slugs : ShopOf(slug)' # None => ShopOf(slug)' = FindBySlug(slug, TRUE)']_vars

(* A subaccount at the gateway is that of its owner's shop, is held by the *)
(* registration that opened it, or was left behind by one that ended: the  *)
(* three exclude each other.  A shop that gave its bank details has one.   *)
Holders(c) ==
  {<<"shop", s>> : s \in {t \in ShopIds : shops[t].account = c}}
  \union {<<"request", h>> : h \in {g \in Handlers : At(g, "insert") /\ proc[g].account = c}}
  \union {<<"stray", c>> : d \in strays \intersect {c}}
SubaccountsAccounted ==
  /\ \A c \in DOMAIN accounts : Cardinality(Holders(c)) = 1
  /\ \A s \in ShopIds : shops[s].banked => accounts[shops[s].account] = shops[s].owner

(* Of all routes declared, three kinds are dead: their own path reaches    *)
(* them for no caller at any host, and the others serve somebody as soon   *)
(* as a shop is open and each role has a user.  The dead are a path that   *)
(* one declared before it swallows (PATCH tenants/branding), the routes    *)
(* for the owner of a shop that read the shop of their host, since the     *)
(* tokens that AuthService signs name no shop, and the one that needs an   *)
(* email, which they do not name either.  src/README.md:245, the comments  *)
(* at tenant.controller.ts:163 and order.controller.ts:73 and the one at   *)
(* paystack.controller.ts:34 say that they serve: see OwnersAreServed and  *)
(* UsersCanPay, which this refutes.                                        *)
Dead(route) ==
  \/ route.calls = "tenants.updateBranding"
  \/ {"owner", "tenant"} \subseteq route.demands \/ "email" \in route.demands
ServesSomebody(calls) == \E u \in Users \union {None} : Served(calls, u)

(* What src/README.md:245 says of TenantOwnerGuard and the comment at      *)
(* tenant.controller.ts:163 of a route it stands before: the owner of an   *)
(* open shop, a tenant admin, is served at the shop's host by the routes   *)
(* for owners.  The code refuses him: his token names no shop.             *)
OwnersAreServed ==
  \A s \in ShopIds, i \in DOMAIN Routes :
    /\ ShopOf(shops[s].slug) = s /\ Role[shops[s].owner] = "TENANT_ADMIN"
    /\ "owner" \in Routes[i].demands
    => Serves(Routes[i].calls, shops[s].owner, FALSE, shops[s].slug)

(* What the comment at paystack.controller.ts:34 takes for granted: every  *)
(* user who is signed in has an email in his token, and so can pay for the *)
(* orders he has placed.  The code signs tokens without one.               *)
UsersCanPay ==
  \A u \in Users : Served("orders.createOrder", u) => Served("payments.initializePayment", u)
=============================================================================
