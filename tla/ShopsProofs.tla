------------------------------ MODULE ShopsProofs ------------------------------
(***************************************************************************)
(* Proofs about Shops, for any users, names and roles and any way names    *)
(* have slugs: the type invariant, that an address is one shop's for ever, *)
(* and who holds a subaccount.                                             *)
(***************************************************************************)
EXTENDS Shops, FiniteSetTheorems, SequenceTheorems, TLAPS

(***************************************************************************)
(* The inductive invariant.                                                *)
(***************************************************************************)

(* Every variable keeps its type, and a registration's name has a slug.    *)
Typed ==
  /\ TypeOK
  /\ \A h \in Handlers : ~At(h, "idle") => SlugOf[proc[h].name] # None

(* The unique key of the table.                                            *)
OneOfASlug == \A s, t \in ShopIds : shops[s].slug = shops[t].slug => s = t

(* A subaccount that a shop or a registration names exists, and is its     *)
(* owner's if bank details were given.                                     *)
Backed(r) ==
  /\ r.account # None => r.account \in DOMAIN accounts
  /\ r.banked => r.account \in DOMAIN accounts /\ accounts[r.account] = r.owner
AllBacked ==
  /\ \A s \in ShopIds : Backed(shops[s])
  /\ \A h \in Handlers : At(h, "insert") => Backed(proc[h])
  /\ \A h \in Handlers : At(h, "createSubaccount") => proc[h].account = None

(* Each subaccount is one shop's, one registration's, or a stray.          *)
ByShop(c) == {s \in ShopIds : shops[s].account = c}
ByRequest(c) == {h \in Handlers : At(h, "insert") /\ proc[h].account = c}
OneShop(c) == (\E s : ByShop(c) = {s}) /\ ByRequest(c) = {} /\ c \notin strays
OneRequest(c) == ByShop(c) = {} /\ (\E h : ByRequest(c) = {h}) /\ c \notin strays
OneStray(c) == ByShop(c) = {} /\ ByRequest(c) = {} /\ c \in strays
Held(c) == OneShop(c) \/ OneRequest(c) \/ OneStray(c)
AllHeld == \A c \in DOMAIN accounts : Held(c)

IInv == Typed /\ OneOfASlug /\ AllBacked /\ AllHeld

(***************************************************************************)
(* Rows, requests and subaccounts.                                         *)
(***************************************************************************)
LEMMA IdleFacts == Idle.pc = "idle"
BY DEF Idle

LEMMA ShopFacts ==
  ASSUME TypeOK
  PROVE  /\ Len(shops) \in Nat /\ ShopIds = 1 .. Len(shops)
         /\ \A s \in ShopIds : shops[s] \in Row
BY LenProperties, ElementOfSeq DEF TypeOK, ShopIds

LEMMA AccountFacts ==
  ASSUME TypeOK
  PROVE  /\ Len(accounts) \in Nat /\ DOMAIN accounts = 1 .. Len(accounts)
         /\ DOMAIN accounts \subseteq Codes /\ None \notin DOMAIN accounts
         /\ \A c \in DOMAIN accounts : accounts[c] \in Users
<1>1. Len(accounts) \in Nat /\ DOMAIN accounts = 1 .. Len(accounts) /\ Len(accounts) <= MaxAccounts
  BY LenProperties DEF TypeOK
<1>2. \A c \in DOMAIN accounts : accounts[c] \in Users
  BY ElementOfSeq, <1>1 DEF TypeOK
<1>3. DOMAIN accounts \subseteq Codes
  BY <1>1, BoundAssumption DEF Codes
<1>4. None \notin DOMAIN accounts
  BY <1>1, NoneAssumption
<1>5. QED
  BY <1>1, <1>2, <1>3, <1>4

LEMMA RequestFacts ==
  ASSUME Typed, NEW h \in Handlers
  PROVE  /\ At(h, "idle") => proc[h] = Idle
         /\ ~At(h, "idle") => proc[h] \in Registration /\ SlugOf[proc[h].name] \in Slugs
         /\ ~At(h, "idle") => At(h, "insert") \/ At(h, "createSubaccount")
BY DEF Typed, TypeOK, Registration, Idle, At, Slugs

LEMMA HeldFacts ==
  ASSUME NEW c, Held(c)
  PROVE  Cardinality(Holders(c)) = 1
<1>1. CASE OneShop(c)
  <2>1. PICK s : ByShop(c) = {s}
    BY <1>1 DEF OneShop
  <2>2. Holders(c) = {<<"shop", s>>}
    BY <1>1, <2>1 DEF OneShop, Holders, ByShop, ByRequest
  <2>3. QED
    BY <2>2, FS_Singleton
<1>2. CASE OneRequest(c)
  <2>1. PICK h : ByRequest(c) = {h}
    BY <1>2 DEF OneRequest
  <2>2. Holders(c) = {<<"request", h>>}
    BY <1>2, <2>1 DEF OneRequest, Holders, ByShop, ByRequest
  <2>3. QED
    BY <2>2, FS_Singleton
<1>3. CASE OneStray(c)
  <2>1. Holders(c) = {<<"stray", c>>}
    BY <1>3 DEF OneStray, Holders, ByShop, ByRequest
  <2>2. QED
    BY <2>1, FS_Singleton
<1>4. QED
  BY <1>1, <1>2, <1>3 DEF Held

(* What a handler's new request is, and that the others keep theirs.       *)
Takes(h, r) ==
  /\ proc' = [proc EXCEPT ![h] = r]
  /\ proc'[h] = r
  /\ \A g \in Handlers \ {h} : proc'[g] = proc[g]

LEMMA TakesFacts ==
  ASSUME TypeOK, NEW h \in Handlers, NEW r, proc' = [proc EXCEPT ![h] = r]
  PROVE  Takes(h, r)
BY DEF TypeOK, Takes

LEMMA TakesTyped ==
  ASSUME Typed, NEW h \in Handlers, NEW r, Takes(h, r), r \in Registration \union {Idle},
         r # Idle => SlugOf[r.name] # None
  PROVE  /\ proc' \in [Handlers -> Registration \union {Idle}]
         /\ \A g \in Handlers : ~At(g, "idle")' => SlugOf[proc'[g].name] # None
BY DEF Typed, TypeOK, At, Takes, Idle

(* The account that a request names, when it is at its insert.             *)
LEMMA InsertFacts ==
  ASSUME Typed, AllBacked, AllHeld, NEW h \in Handlers, At(h, "insert"),
         proc[h].account # None
  PROVE  /\ proc[h].account \in DOMAIN accounts /\ OneRequest(proc[h].account)
         /\ ByRequest(proc[h].account) = {h}
<1>1. PICK c : c = proc[h].account
  OBVIOUS
<1>2. c \in DOMAIN accounts
  BY <1>1 DEF AllBacked, Backed
<1>3. h \in ByRequest(c)
  BY <1>1 DEF ByRequest
<1>4. Held(c)
  BY <1>2 DEF AllHeld
<1>5. OneRequest(c) /\ ByRequest(c) = {h}
  BY <1>3, <1>4 DEF Held, OneShop, OneRequest, OneStray
<1>6. QED
  BY <1>1, <1>2, <1>5

(* A subaccount whose holders a step leaves alone.                         *)
Unmoved(c) == ByShop(c)' = ByShop(c) /\ ByRequest(c)' = ByRequest(c) /\ (c \in strays' <=> c \in strays)

LEMMA UnmovedHeld == ASSUME NEW c, Held(c), Unmoved(c) PROVE Held(c)'
BY DEF Unmoved, Held, OneShop, OneRequest, OneStray

LEMMA BackedKept ==
  ASSUME NEW r, Backed(r), \A c \in DOMAIN accounts : c \in DOMAIN accounts' /\ accounts'[c] = accounts[c]
  PROVE  Backed(r)'
BY DEF Backed

(***************************************************************************)
(* The steps of a registration.                                            *)
(***************************************************************************)
LEMMA RequestShopStep ==
  ASSUME IInv, NEW h \in Handlers, NEW u \in Users, NEW name \in Names, NEW banked \in BOOLEAN,
         RequestShop(h, u, name, banked)
  PROVE  IInv'
<1>1. Typed /\ TypeOK /\ OneOfASlug /\ AllBacked /\ AllHeld
  BY DEF IInv, Typed
<1>2. PICK r : r = [pc |-> IF banked THEN "createSubaccount" ELSE "insert",
                    owner |-> u, name |-> name, banked |-> banked, account |-> None]
  OBVIOUS
<1>3. /\ r \in Registration /\ r.account = None /\ r.name = name
      /\ (r.pc = "insert" => ~r.banked)
  BY <1>2 DEF Registration
<1>4. At(h, "idle") /\ SlugOf[name] # None /\ UNCHANGED <<shops, accounts, strays>>
  BY DEF RequestShop
<1>5. Takes(h, r)
  BY <1>1, <1>2, TakesFacts DEF RequestShop
<1>6. Typed'
  BY <1>1, <1>3, <1>4, <1>5, TakesTyped DEF Typed, TypeOK
<1>7. OneOfASlug'
  BY <1>1, <1>4 DEF OneOfASlug, ShopIds
<1>8. AllBacked'
  BY <1>1, <1>3, <1>4, <1>5 DEF AllBacked, Backed, Takes, At, ShopIds
<1>9. \A c \in DOMAIN accounts : Unmoved(c)
  BY <1>1, <1>3, <1>4, <1>5, AccountFacts DEF Unmoved, ByShop, ByRequest, Takes, At, ShopIds
<1>10. AllHeld'
  BY <1>1, <1>4, <1>9, UnmovedHeld DEF AllHeld
<1>11. QED
  BY <1>6, <1>7, <1>8, <1>10 DEF IInv

LEMMA CreateSubaccountStep ==
  ASSUME IInv, NEW h \in Handlers, NEW answered \in BOOLEAN, CreateSubaccount(h, answered)
  PROVE  IInv'
<1>1. Typed /\ TypeOK /\ OneOfASlug /\ AllBacked /\ AllHeld
  BY DEF IInv, Typed
<1>2. PICK new : new = Len(accounts) + 1
  OBVIOUS
<1>3. /\ At(h, "createSubaccount") /\ UNCHANGED shops /\ ~At(h, "idle") /\ ~At(h, "insert")
      /\ Len(accounts) < MaxAccounts
  BY DEF CreateSubaccount, At
<1>4. proc[h] \in Registration /\ SlugOf[proc[h].name] \in Slugs /\ proc[h].owner \in Users
  BY <1>1, <1>3, RequestFacts DEF Registration
<1>5. /\ accounts' \in Seq(Users) /\ Len(accounts') = new /\ DOMAIN accounts' = 1 .. new
      /\ accounts'[new] = proc[h].owner
      /\ \A c \in DOMAIN accounts : accounts'[c] = accounts[c]
  BY <1>1, <1>2, <1>4, AppendProperties, LenProperties DEF TypeOK, CreateSubaccount
<1>6. /\ new \notin DOMAIN accounts /\ DOMAIN accounts' = DOMAIN accounts \union {new}
      /\ new <= MaxAccounts /\ new \in Codes /\ new # None
  BY <1>1, <1>2, <1>3, <1>5, AccountFacts, BoundAssumption, NoneAssumption DEF Codes
<1>7. /\ ByShop(new) = {} /\ ByRequest(new) = {} /\ new \notin strays
  BY <1>1, <1>6 DEF ByShop, ByRequest, AllBacked, Backed, TypeOK
<1>8. PICK r : r = IF answered THEN [proc[h] EXCEPT !.pc = "insert", !.account = new] ELSE Idle
  OBVIOUS
<1>9. proc' = [proc EXCEPT ![h] = r]
  <2>1. CASE answered
    <3>1. proc' = [proc EXCEPT ![h].pc = "insert", ![h].account = new]
      BY <1>2, <2>1 DEF CreateSubaccount
    <3>2. QED
      BY <1>1, <1>8, <2>1, <3>1 DEF TypeOK
  <2>2. CASE ~answered
    BY <1>8, <2>2 DEF CreateSubaccount, Ends
  <2>3. QED
    BY <2>1, <2>2
<1>10. Takes(h, r)
  BY <1>1, <1>9, TakesFacts
<1>11. strays' = IF answered THEN strays ELSE strays \union {new}
  BY <1>2 DEF CreateSubaccount
<1>12. answered => /\ r \in Registration /\ r.pc = "insert" /\ r.account = new
                   /\ r.owner = proc[h].owner /\ r.name = proc[h].name
  BY <1>4, <1>6, <1>8 DEF Registration
<1>13. ~answered => r = Idle
  BY <1>8
<1>14. None \notin Slugs
  BY DEF Slugs
<1>15. Typed'
  <2>1. r \in Registration \union {Idle} /\ (r # Idle => SlugOf[r.name] # None)
    BY <1>4, <1>12, <1>13, <1>14
  <2>2. strays' \subseteq DOMAIN accounts'
    BY <1>1, <1>6, <1>11 DEF TypeOK
  <2>3. QED
    BY <1>1, <1>3, <1>5, <1>6, <1>10, <2>1, <2>2, TakesTyped DEF Typed, TypeOK
<1>16. OneOfASlug'
  BY <1>1, <1>3 DEF OneOfASlug, ShopIds
<1>17. AllBacked'
  <2>1. \A s \in ShopIds : Backed(shops[s])'
    BY <1>1, <1>3, <1>5, <1>6 DEF AllBacked, Backed
  <2>2. ASSUME NEW g \in Handlers \ {h}, At(g, "insert")'
        PROVE  Backed(proc[g])'
    <3>1. proc'[g] = proc[g] /\ At(g, "insert")
      BY <1>10, <2>2 DEF Takes, At
    <3>2. Backed(proc[g])
      BY <1>1, <3>1 DEF AllBacked
    <3>3. QED
      BY <1>5, <1>6, <3>1, <3>2 DEF Backed
  <2>3. At(h, "insert")' => Backed(proc[h])'
    BY <1>5, <1>6, <1>10, <1>12, <1>13, IdleFacts DEF Backed, Takes, At
  <2>4. \A g \in Handlers : At(g, "createSubaccount")' => proc'[g].account = None
    BY <1>1, <1>10, <1>12, <1>13, IdleFacts DEF AllBacked, Takes, At
  <2>5. QED
    BY <1>3, <2>1, <2>2, <2>3, <2>4 DEF AllBacked, ShopIds
<1>18. \A c \in DOMAIN accounts : Unmoved(c)
  BY <1>3, <1>6, <1>10, <1>11, <1>12, <1>13, IdleFacts DEF Unmoved, ByShop, ByRequest, Takes, At, ShopIds
<1>19. Held(new)'
  <2>1. ByShop(new)' = {}
    BY <1>3, <1>7 DEF ByShop, ShopIds
  <2>2. CASE answered
    <3>1. ByRequest(new)' = {h}
      BY <1>7, <1>10, <1>12, <2>2 DEF ByRequest, Takes, At
    <3>2. new \notin strays'
      BY <1>7, <1>11, <2>2
    <3>3. QED
      BY <2>1, <3>1, <3>2 DEF Held, OneRequest
  <2>3. CASE ~answered
    <3>1. ByRequest(new)' = {}
      BY <1>7, <1>10, <1>13, <2>3, IdleFacts DEF ByRequest, Takes, At
    <3>2. new \in strays'
      BY <1>11, <2>3
    <3>3. QED
      BY <2>1, <3>1, <3>2 DEF Held, OneStray
  <2>4. QED
    BY <2>2, <2>3
<1>20. AllHeld'
  BY <1>1, <1>6, <1>18, <1>19, UnmovedHeld DEF AllHeld
<1>21. QED
  BY <1>15, <1>16, <1>17, <1>20 DEF IInv

LEMMA InsertShopStep ==
  ASSUME IInv, NEW h \in Handlers, InsertShop(h)
  PROVE  IInv'
<1>1. Typed /\ TypeOK /\ OneOfASlug /\ AllBacked /\ AllHeld
  BY DEF IInv, Typed
<1>2. PICK c : c = proc[h].account
  OBVIOUS
<1>3. At(h, "insert") /\ ~At(h, "idle") /\ UNCHANGED accounts /\ Takes(h, Idle)
  BY <1>1, TakesFacts DEF InsertShop, At, Ends
<1>4. proc[h] \in Registration /\ SlugOf[proc[h].name] \in Slugs
  BY <1>1, <1>3, RequestFacts
<1>5. Strays(h) = {c} \ {None}
  BY <1>2, <1>3 DEF Strays
<1>6. c # None => c \in DOMAIN accounts /\ OneRequest(c) /\ ByRequest(c) = {h}
  BY <1>1, <1>2, <1>3, InsertFacts
<1>7. c # None => ByRequest(c)' = {}
  BY <1>3, <1>6, IdleFacts DEF ByRequest, Takes, At
<1>8. \A d \in DOMAIN accounts \ {c} : ByRequest(d)' = ByRequest(d)
  BY <1>2, <1>3, IdleFacts DEF ByRequest, Takes, At
<1>9. /\ \A g \in Handlers : At(g, "insert")' => Backed(proc[g])'
      /\ \A g \in Handlers : At(g, "createSubaccount")' => proc'[g].account = None
  <2>1. ASSUME NEW g \in Handlers, ~At(g, "idle")'
        PROVE  proc'[g] = proc[g]
    BY <1>3, <2>1, IdleFacts DEF Takes, At
  <2>2. \A g \in Handlers : At(g, "insert")' => Backed(proc[g])'
    BY <1>1, <1>3, <2>1 DEF AllBacked, Backed, At
  <2>3. \A g \in Handlers : At(g, "createSubaccount")' => proc'[g].account = None
    BY <1>1, <2>1 DEF AllBacked, At
  <2>4. QED
    BY <2>2, <2>3
<1>10. /\ proc' \in [Handlers -> Registration \union {Idle}]
       /\ \A g \in Handlers : ~At(g, "idle")' => SlugOf[proc'[g].name] # None
  BY <1>1, <1>3, TakesTyped
<1>11. CASE Taken(proc[h])
  <2>1. shops' = shops /\ strays' = strays \union ({c} \ {None})
    BY <1>5, <1>11 DEF InsertShop
  <2>2. Typed'
    BY <1>1, <1>3, <1>6, <1>10, <2>1 DEF Typed, TypeOK
  <2>3. OneOfASlug' /\ AllBacked'
    BY <1>1, <1>3, <1>9, <2>1 DEF OneOfASlug, AllBacked, Backed, ShopIds
  <2>4. c # None => Held(c)'
    BY <1>6, <1>7, <2>1 DEF Held, OneStray, OneRequest, ByShop, ShopIds
  <2>5. \A d \in DOMAIN accounts \ {c} : Unmoved(d)
    BY <1>8, <2>1 DEF Unmoved, ByShop, ShopIds
  <2>6. AllHeld'
    BY <1>1, <1>3, <2>4, <2>5, UnmovedHeld, AccountFacts DEF AllHeld
  <2>7. QED
    BY <2>2, <2>3, <2>6 DEF IInv
<1>12. CASE ~Taken(proc[h])
  <2>1. PICK row : row = Shop(proc[h])
    OBVIOUS
  <2>2. PICK new : new = Len(shops) + 1
    OBVIOUS
  <2>3. /\ row \in Row /\ row.slug = SlugOf[proc[h].name] /\ row.owner = proc[h].owner
        /\ row.account = c /\ row.banked = proc[h].banked
    BY <1>2, <1>4, <2>1 DEF Shop, NewRow, Row, Registration
  <2>4. shops' = Append(shops, row) /\ strays' = strays
    BY <1>12, <2>1 DEF InsertShop
  <2>5. /\ shops' \in Seq(Row) /\ Len(shops') = new /\ ShopIds' = 1 .. new /\ shops'[new] = row
        /\ \A s \in ShopIds : shops'[s] = shops[s]
    BY <1>1, <2>2, <2>3, <2>4, AppendProperties, LenProperties DEF TypeOK, ShopIds
  <2>6. new \notin ShopIds /\ ShopIds' = ShopIds \union {new}
    BY <1>1, <2>2, <2>5, ShopFacts
  <2>7. Typed'
    BY <1>1, <1>3, <1>10, <2>4, <2>5 DEF Typed, TypeOK
  <2>8. OneOfASlug'
    <3>1. \A s \in ShopIds : shops[s].slug # row.slug
      BY <1>12, <2>3 DEF Taken
    <3>2. QED
      BY <1>1, <2>5, <2>6, <3>1 DEF OneOfASlug
  <2>9. AllBacked'
    <3>1. Backed(row)
      BY <1>1, <1>2, <1>3, <2>3 DEF AllBacked, Backed
    <3>2. \A s \in ShopIds' : Backed(shops[s])'
      BY <1>1, <1>3, <2>5, <2>6, <3>1 DEF AllBacked, Backed
    <3>3. QED
      BY <1>9, <3>2 DEF AllBacked
  <2>10. c # None => Held(c)'
    <3>1. ASSUME c # None PROVE ByShop(c)' = {new}
      <4>1. \A s \in ShopIds : shops[s].account # c
        BY <1>6, <3>1 DEF OneRequest, ByShop
      <4>2. QED
        BY <2>3, <2>5, <2>6, <4>1 DEF ByShop
    <3>2. QED
      BY <1>6, <1>7, <2>4, <3>1 DEF Held, OneShop, OneRequest
  <2>11. \A d \in DOMAIN accounts \ {c} : Unmoved(d)
    <3>1. \A d \in DOMAIN accounts \ {c} : ByShop(d)' = ByShop(d)
      BY <2>3, <2>5, <2>6 DEF ByShop
    <3>2. QED
      BY <1>8, <2>4, <3>1 DEF Unmoved
  <2>12. AllHeld'
    BY <1>1, <1>3, <2>10, <2>11, UnmovedHeld, AccountFacts DEF AllHeld
  <2>13. QED
    BY <2>7, <2>8, <2>9, <2>12 DEF IInv
<1>13. QED
  BY <1>11, <1>12

LEMMA FailStep ==
  ASSUME IInv, NEW h \in Handlers, Fail(h)
  PROVE  IInv'
<1>1. Typed /\ TypeOK /\ OneOfASlug /\ AllBacked /\ AllHeld
  BY DEF IInv, Typed
<1>2. PICK c : c = proc[h].account
  OBVIOUS
<1>3. ~At(h, "idle") /\ UNCHANGED <<shops, accounts>> /\ Takes(h, Idle)
  BY <1>1, TakesFacts DEF Fail, Ends
<1>4. strays' = strays \union ({c} \ {None})
  BY <1>2, <1>3 DEF Fail, Strays
<1>5. c # None => c \in DOMAIN accounts /\ OneRequest(c) /\ ByRequest(c) = {h}
  <2>1. c # None => At(h, "insert")
    BY <1>1, <1>2, <1>3, RequestFacts DEF AllBacked
  <2>2. QED
    BY <1>1, <1>2, <2>1, InsertFacts
<1>6. c # None => ByRequest(c)' = {}
  BY <1>3, <1>5, IdleFacts DEF ByRequest, Takes, At
<1>7. c # None => Held(c)'
  BY <1>3, <1>4, <1>5, <1>6 DEF Held, OneStray, OneRequest, ByShop, ShopIds
<1>8. \A d \in DOMAIN accounts \ {c} : Unmoved(d)
  BY <1>2, <1>3, <1>4, IdleFacts DEF Unmoved, ByShop, ByRequest, Takes, At, ShopIds
<1>9. AllHeld'
  BY <1>1, <1>3, <1>7, <1>8, UnmovedHeld, AccountFacts DEF AllHeld
<1>10. Typed'
  BY <1>1, <1>3, <1>4, <1>5, TakesTyped DEF Typed, TypeOK
<1>11. OneOfASlug'
  BY <1>1, <1>3 DEF OneOfASlug, ShopIds
<1>12. AllBacked'
  <2>1. ASSUME NEW g \in Handlers, ~At(g, "idle")'
        PROVE  proc'[g] = proc[g]
    BY <1>3, <2>1, IdleFacts DEF Takes, At
  <2>2. QED
    BY <1>1, <1>3, <2>1 DEF AllBacked, Backed, At, ShopIds
<1>13. QED
  BY <1>9, <1>10, <1>11, <1>12 DEF IInv

(* What is done to a shop leaves it its slug, its owner and its account.   *)
LEMMA WriteStep ==
  ASSUME IInv, NEW s \in ShopIds, NEW row \in Row, Write(s, row),
         row.slug = shops[s].slug, row.owner = shops[s].owner, row.banked = shops[s].banked,
         row.account = shops[s].account
  PROVE  IInv'
<1>1. Typed /\ TypeOK /\ OneOfASlug /\ AllBacked /\ AllHeld
  BY DEF IInv, Typed
<1>2. UNCHANGED <<accounts, proc, strays>>
  BY DEF Write
<1>3. /\ shops' \in Seq(Row) /\ ShopIds' = ShopIds /\ shops'[s] = row
      /\ \A t \in ShopIds \ {s} : shops'[t] = shops[t]
  BY <1>1, ExceptSeq DEF Write, TypeOK, ShopIds
<1>4. \A t \in ShopIds : /\ shops'[t].slug = shops[t].slug /\ shops'[t].owner = shops[t].owner
                         /\ shops'[t].banked = shops[t].banked
                         /\ shops'[t].account = shops[t].account
  BY <1>3
<1>5. Typed'
  BY <1>1, <1>2, <1>3 DEF Typed, TypeOK, At
<1>6. OneOfASlug'
  BY <1>1, <1>3, <1>4 DEF OneOfASlug
<1>7. AllBacked'
  BY <1>1, <1>2, <1>3, <1>4 DEF AllBacked, Backed, At
<1>8. \A c \in DOMAIN accounts : Unmoved(c)
  BY <1>2, <1>3, <1>4 DEF Unmoved, ByShop, ByRequest, At
<1>9. AllHeld'
  BY <1>1, <1>2, <1>8, UnmovedHeld DEF AllHeld
<1>10. QED
  BY <1>5, <1>6, <1>7, <1>9 DEF IInv

LEMMA VerifyShopStep ==
  ASSUME IInv, NEW u \in Users, NEW s \in ShopIds, NEW isVerified \in BOOLEAN,
         VerifyShop(u, s, isVerified)
  PROVE  IInv'
<1>1. PICK row : row = [shops[s] EXCEPT !.isVerified = isVerified]
  OBVIOUS
<1>2. shops[s] \in Row
  BY ShopFacts DEF IInv, Typed
<1>3. /\ row \in Row /\ row.slug = shops[s].slug /\ row.owner = shops[s].owner
      /\ row.banked = shops[s].banked /\ row.account = shops[s].account
  BY <1>1, <1>2 DEF Row
<1>4. QED
  BY <1>1, <1>3, WriteStep DEF VerifyShop

LEMMA DeleteShopStep ==
  ASSUME IInv, NEW u \in Users, NEW s \in ShopIds, DeleteShop(u, s)
  PROVE  IInv'
<1>1. PICK row : row = [shops[s] EXCEPT !.isActive = FALSE]
  OBVIOUS
<1>2. shops[s] \in Row
  BY ShopFacts DEF IInv, Typed
<1>3. /\ row \in Row /\ row.slug = shops[s].slug /\ row.owner = shops[s].owner
      /\ row.banked = shops[s].banked /\ row.account = shops[s].account
  BY <1>1, <1>2 DEF Row
<1>4. QED
  BY <1>1, <1>3, WriteStep DEF DeleteShop

LEMMA InitIInv == Init => IInv
<1>1. SUFFICES ASSUME Init PROVE IInv
  OBVIOUS
<1>2. ShopIds = {} /\ DOMAIN accounts = {} /\ Len(accounts) = 0
  BY <1>1 DEF Init, ShopIds
<1>3. TypeOK
  BY <1>1, <1>2, BoundAssumption DEF Init, TypeOK
<1>4. \A h \in Handlers : At(h, "idle")
  BY <1>1, IdleFacts DEF Init, At
<1>5. QED
  BY <1>2, <1>3, <1>4 DEF IInv, Typed, OneOfASlug, AllBacked, AllHeld, At

LEMMA QuietStep == ASSUME IInv, UNCHANGED vars PROVE IInv'
<1>1. AllHeld'
  BY UnmovedHeld DEF IInv, AllHeld, Unmoved, vars, ByShop, ByRequest, At, ShopIds
<1>2. QED
  BY <1>1 DEF IInv, vars, Typed, TypeOK, OneOfASlug, AllBacked, Backed, At, ShopIds

LEMMA StepIInv == IInv /\ [Next]_vars => IInv'
<1>1. SUFFICES ASSUME IInv, [Next]_vars PROVE IInv'
  OBVIOUS
<1>2. ASSUME NEW h \in Handlers, NEW u \in Users, NEW name \in Names, NEW banked \in BOOLEAN,
             RequestShop(h, u, name, banked)
      PROVE  IInv'
  BY <1>1, <1>2, RequestShopStep
<1>3. ASSUME NEW h \in Handlers, NEW answered \in BOOLEAN, CreateSubaccount(h, answered)
      PROVE  IInv'
  BY <1>1, <1>3, CreateSubaccountStep
<1>4. ASSUME NEW h \in Handlers, InsertShop(h) \/ Fail(h)
      PROVE  IInv'
  BY <1>1, <1>4, InsertShopStep, FailStep
<1>5. ASSUME NEW u \in Users, NEW s \in ShopIds, NEW isVerified \in BOOLEAN,
             VerifyShop(u, s, isVerified)
      PROVE  IInv'
  BY <1>1, <1>5, VerifyShopStep
<1>6. ASSUME NEW u \in Users, NEW s \in ShopIds, DeleteShop(u, s)
      PROVE  IInv'
  BY <1>1, <1>6, DeleteShopStep
<1>7. CASE UNCHANGED vars
  BY <1>1, <1>7, QuietStep
<1>8. QED
  BY <1>1, <1>2, <1>3, <1>4, <1>5, <1>6, <1>7 DEF Next

(* The invariant holds in every reachable state.                           *)
THEOREM Invariance == Spec => []IInv
BY InitIInv, StepIInv, PTL DEF Spec

(* Every variable keeps its type.                                          *)
THEOREM TypeCorrect == Spec => []TypeOK
<1>1. IInv => TypeOK
  BY DEF IInv, Typed
<1>2. QED
  BY <1>1, Invariance, PTL

(* A subaccount opened at the gateway is one shop's, one registration's or *)
(* a stray, whatever is lost or refused on the way, and a shop that gave   *)
(* its bank details has its own.                                           *)
THEOREM SubaccountsKept == Spec => []SubaccountsAccounted
<1>1. IInv => SubaccountsAccounted
  BY HeldFacts DEF IInv, AllHeld, AllBacked, Backed, SubaccountsAccounted
<1>2. QED
  BY <1>1, Invariance, PTL

(***************************************************************************)
(* Addresses.                                                              *)
(***************************************************************************)
FoundOnce(slug) ==
  /\ FindBySlug(slug, TRUE) # None =>
       FindBySlug(slug, TRUE) \in ShopIds /\ shops[FindBySlug(slug, TRUE)].slug = slug
  /\ \A s \in ShopIds : shops[s].slug = slug => FindBySlug(slug, TRUE) = s
  /\ FindBySlug(slug, FALSE) # None => FindBySlug(slug, FALSE) = FindBySlug(slug, TRUE)

LEMMA FoundFacts == IInv => \A slug : FoundOnce(slug)
<1>0. SUFFICES ASSUME IInv, NEW slug PROVE FoundOnce(slug)
  OBVIOUS
<1>1. \A s \in ShopIds : s # None
  BY <1>0, ShopFacts, NoneAssumption DEF IInv, Typed
<1>2. PICK all : all = {s \in ShopIds : shops[s].slug = slug}
  OBVIOUS
<1>3. PICK live : live = {s \in ShopIds : shops[s].slug = slug /\ shops[s].isActive}
  OBVIOUS
<1>4. \A s, t \in all : s = t
  BY <1>0, <1>2 DEF IInv, OneOfASlug
<1>5. FindBySlug(slug, TRUE) = IF all = {} THEN None ELSE CHOOSE s \in all : TRUE
  BY <1>2 DEF FindBySlug
<1>6. FindBySlug(slug, FALSE) = IF live = {} THEN None ELSE CHOOSE s \in live : TRUE
  BY <1>3 DEF FindBySlug
<1>7. all # {} => (CHOOSE s \in all : TRUE) \in all
  OBVIOUS
<1>8. live # {} => (CHOOSE s \in live : TRUE) \in live
  OBVIOUS
<1>9. live \subseteq all
  BY <1>2, <1>3
<1>10. \A s \in all : FindBySlug(slug, TRUE) = s
  BY <1>4, <1>5, <1>7
<1>11. QED
  BY <1>1, <1>2, <1>4, <1>5, <1>6, <1>7, <1>8, <1>9, <1>10 DEF FoundOnce

LEMMA FoundFactsPrimed == IInv' => (\A slug : FoundOnce(slug))'
BY FoundFacts, PTL

(* A shop that is there stays, with its slug.                              *)
LEMMA ShopsStay ==
  ASSUME IInv, [Next]_vars, NEW s \in ShopIds
  PROVE  s \in ShopIds' /\ shops'[s].slug = shops[s].slug
<1>1. shops \in Seq(Row) /\ shops[s] \in Row
  BY ShopFacts DEF IInv, Typed, TypeOK
<1>2. CASE UNCHANGED shops
  BY <1>2 DEF ShopIds
<1>3. ASSUME NEW h \in Handlers, shops' = Append(shops, Shop(proc[h]))
      PROVE  s \in ShopIds' /\ shops'[s] = shops[s]
  BY <1>1, <1>3, AppendProperties, LenProperties DEF ShopIds
<1>4. ASSUME NEW t \in ShopIds, NEW isVerified, shops' = [shops EXCEPT ![t] = [shops[t] EXCEPT !.isVerified = isVerified]]
      PROVE  s \in ShopIds' /\ shops'[s].slug = shops[s].slug
  BY <1>1, <1>4, ExceptSeq DEF ShopIds, Row
<1>5. ASSUME NEW t \in ShopIds, shops' = [shops EXCEPT ![t] = [shops[t] EXCEPT !.isActive = FALSE]]
      PROVE  s \in ShopIds' /\ shops'[s].slug = shops[s].slug
  BY <1>1, <1>5, ExceptSeq DEF ShopIds, Row
<1>6. QED
  BY <1>2, <1>3, <1>4, <1>5 DEF Next, vars, RequestShop, CreateSubaccount, InsertShop, Fail,
     VerifyShop, DeleteShop, Write

(* An address leads to the one shop that took it, deleted or not, for ever.*)
THEOREM AddressesStay == Spec => AddressIsForLife
<1>1. ASSUME IInv, IInv', [Next]_vars, NEW slug
      PROVE  /\ FindBySlug(slug, TRUE) # None => FindBySlug(slug, TRUE)' = FindBySlug(slug, TRUE)
             /\ ShopOf(slug)' # None => ShopOf(slug)' = FindBySlug(slug, TRUE)'
  <2>1. FoundOnce(slug) /\ FoundOnce(slug)'
    BY <1>1, FoundFacts, FoundFactsPrimed
  <2>2. FindBySlug(slug, TRUE) # None => FindBySlug(slug, TRUE)' = FindBySlug(slug, TRUE)
    BY <1>1, <2>1, ShopsStay DEF FoundOnce
  <2>3. FindBySlug(slug, FALSE)' # None => FindBySlug(slug, FALSE)' = FindBySlug(slug, TRUE)'
    BY <2>1 DEF FoundOnce
  <2>4. QED
    BY <2>2, <2>3 DEF ShopOf
<1>2. IInv /\ IInv' /\ [Next]_vars =>
        [/\ \A slug \in Slugs : FindBySlug(slug, TRUE) # None => FindBySlug(slug, TRUE)' = FindBySlug(slug, TRUE)
         /\ \A slug \in Slugs : ShopOf(slug)' # None => ShopOf(slug)' = FindBySlug(slug, TRUE)']_vars
  BY <1>1
<1>3. QED
  BY <1>2, Invariance, PTL DEF Spec, AddressIsForLife

================================================================================
