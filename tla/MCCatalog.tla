-------------------------------- MODULE MCCatalog --------------------------------
EXTENDS Catalog
CONSTANTS t1, c1, c2, p1, w1, w2
MCTableOf ==
  [lamp |-> "product", rug |-> "product", remark |-> "comment", shop |-> "tenant", photo |-> "post"]
MCKeysOf ==
  [lamp |-> {<<"tenant", t1>>, <<"category", c1>>}, rug |-> {<<"tenant", t1>>, <<"category", c2>>},
   remark |-> {<<"post", p1>>}, photo |-> {<<"tenant", t1>>},
   shop |-> {<<"text", w1>>, <<"location", w2>>, <<"category", c1>>}]
MCShapes == DOMAIN MCTableOf
MCListings ==
  [lamps |-> ProductsBy("category", c1), remarks |-> CommentsByPost(p1),
   feed |-> UserFeed({t1}), shops |-> TenantsByText(w1),
   market |-> SearchTenants([q |-> w2, location |-> w2, category |-> c1, businessType |-> NoFilter])]
=============================================================================
