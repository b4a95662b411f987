--------------------------------- MODULE Catalog ---------------------------------
(***************************************************************************)
(* The rows that shops, their products, services, portfolio and posts, and *)
(* the orders, bookings, comments and reviews on them make up, written one *)
(* statement at a time (BaseService over BaseRepository), and the listings *)
(* that clients page through with skip and take while rows are written.    *)
(*                                                                         *)
(* createdAt orders a listing; ids stand for it, so no two rows share a    *)
(* createdAt.  No validation pipe is installed: an update's body reaches   *)
(* Prisma as it is, a createdAt or a table's id excepted, which are left   *)
(* out here.  The guards in front of the services are Api's.               *)
(***************************************************************************)
EXTENDS Integers, Sequences, FiniteSetsExt

CONSTANTS
  NoFilter,   \* in place of a filter's value
  Shapes,     \* what rows are written with
  TableOf, KeysOf,  \* a shape's table, and the keys that listings find it by
  Listings,   \* the listings that clients open, by name
  Take,       \* the size of a page
  MaxRows,    \* bound: rows ever created
  MaxWrites   \* bound: writes while a listing is being read

ASSUME PageAssumption == Take \in Nat \ {0} /\ MaxRows \in Nat /\ MaxWrites \in Nat

VARIABLES
  rows,    \* all tables; a row's id is its index
  reader,  \* the listing being read, and how far
  during   \* history: what was written to it meanwhile

catalogVars == <<rows, reader, during>>

Tables == {"tenant", "product", "service", "portfolio", "post", "order", "booking", "comment", "review"}
Kept == {"tenant", "post", "order", "booking"}  \* no row of these is ever removed

ASSUME ShapesAssumption == TableOf \in [Shapes -> Tables] /\ DOMAIN KeysOf = Shapes

(* What is read as a whole is not filled up.                               *)
ASSUME ListingsAssumption ==
  \A name \in DOMAIN Listings :
    /\ Listings[name].reads \in {"pages", "page", "whole"}
    /\ Listings[name].order \in {"newest", "oldest", "none"}
    /\ Listings[name].padded => Listings[name].reads # "whole"

(***************************************************************************)
(* Listings.  Each clause of where is a set of keys, one of which a row    *)
(* has.  offered: only rows that are available, active, published and not  *)
(* deleted, or paid.  reads: page after page, one page, or all at once     *)
(* with a count beside it.  padded: short pages are filled up.             *)
(***************************************************************************)
Listing(table, where, offered, order, reads) ==
  [table |-> table, where |-> where, offered |-> offered, order |-> order,
   reads |-> reads, padded |-> FALSE]
Pages(table, field, value, offered) ==
  Listing(table, {{<<field, value>>}}, offered, "newest", "pages")

ProductsBy(field, value) == Pages("product", field, value, TRUE)
ServicesByTenant(t) == Pages("service", "tenant", t, TRUE)
PortfolioByTenant(t) == Pages("portfolio", "tenant", t, FALSE)
OrdersBy(field, value) == Pages("order", field, value, FALSE)
BookingsBy(field, value) == Pages("booking", field, value, FALSE)
ReviewsBy(field, value) == Pages("review", field, value, FALSE)
CommentsByPost_Newest(p) == Pages("comment", "post", p, FALSE)
CommentsByPost(p) == [Pages("comment", "post", p, FALSE) EXCEPT !.order = "oldest"]
TenantsByBusinessType(v) == Pages("tenant", "businessType", v, TRUE)
TenantsByCategory(v) == Pages("tenant", "category", v, TRUE)
PostsByTenant(t) == Pages("post", "tenant", t, TRUE)

(* Two that are paged without an order.                                    *)
TenantsByText(q) == Listing("tenant", {{<<"text", q>>, <<"location", q>>}}, TRUE, "none", "pages")
CustomerHistory(t) == Listing("order", {{<<"tenant", t>>}}, TRUE, "none", "pages")

(* A shop's page shows the newest of three tables.                         *)
Storefront(t) ==
  {[l EXCEPT !.reads = "page"] : l \in {ProductsBy("tenant", t), ServicesByTenant(t), PortfolioByTenant(t)}}

(* A feed that is shorter than a page is filled up with trending posts,    *)
(* the followed shops' own among them.                                     *)
TrendingPosts == Listing("post", {}, TRUE, "none", "page")
UserFeed(followed) ==
  [Listing("post", {{<<"tenant", t>> : t \in followed}}, TRUE, "newest", "pages") EXCEPT !.padded = TRUE]

(* The marketplace: its DTO would default skip and take, but no pipe makes *)
(* a query a DTO.  A location and a text are alternatives.                 *)
Equals(field, v) == IF v = NoFilter THEN {} ELSE {{<<field, v>>}}
Contains(fields, v) == IF v = NoFilter THEN {} ELSE {<<field, v>> : field \in fields}
NonEmpty(clause) == {clause} \ {{}}
Search(table, where) == Listing(table, where, TRUE, "newest", "whole")

SearchTenants(query) ==
  Search("tenant", Equals("category", query.category) \union Equals("businessType", query.businessType)
    \union NonEmpty(Contains({"location"}, query.location) \union Contains({"text"}, query.q)))
SearchProducts(query) ==
  Search("product", Equals("category", query.category) \union NonEmpty(Contains({"text"}, query.q)))
SearchServices(query) == Search("service", NonEmpty(Contains({"text"}, query.q)))

Listed(rs, l) ==
  {i \in DOMAIN rs :
    /\ ~rs[i].removed /\ TableOf[rs[i].shape] = l.table
    /\ l.offered => rs[i].offered
    /\ \A clause \in l.where : clause \intersect KeysOf[rs[i].shape] # {}}

Before(order, j, i) == IF order = "oldest" THEN j < i ELSE j > i

(* How many of the rows listed come before row i.                          *)
Place(listed, order, i) == Cardinality({j \in listed : Before(order, j, i)})

(* What one query may return: without an order, any rows will do.          *)
Query(l, skip) ==
  LET all == Listed(rows, l)
      page == {i \in all : Place(all, l.order, i) \in skip .. skip + Take - 1}
  IN  CASE l.reads = "whole" -> {all}
        [] l = TrendingPosts -> {s \in SUBSET all : Cardinality(s) <= Take}
        [] OTHER -> IF l.order = "none" THEN kSubset(Cardinality(page), all) ELSE {page}

Filling(l, page) ==
  IF l.padded THEN {s \in SUBSET Listed(rows, TrendingPosts) : Cardinality(s) + Cardinality(page) <= Take}
  ELSE {{}}

(***************************************************************************)
(* Writes; one that changes nothing modelled here is no step.              *)
(***************************************************************************)
Write(new) ==
  LET l == Listings[reader.listing]
      old == Listed(rows, l)
      all == Listed(new, l)
      came == all \ old
      gone == old \ all
  IN  /\ during.writes < MaxWrites /\ new # rows
      /\ rows' = new
      /\ during' =
           [writes |-> during.writes + 1,
            steady |-> during.steady \ gone,
            pushed |-> during.pushed
              + Cardinality({i \in came : Place(all, l.order, i) < reader.skip \/ reader.shown[i] > 0}),
            pulled |-> during.pulled + Cardinality({i \in gone : Place(old, l.order, i) < reader.skip}),
            drift |-> during.drift
              + IF Cardinality(reader.pending) = 1 THEN Cardinality(came \union gone) ELSE 0]
      /\ UNCHANGED reader

(* An order is offered once it is paid; all else is at once.               *)
InitiallyOffered(table) == table # "order"

CreateRow(shape) ==
  /\ Len(rows) < MaxRows
  /\ Write(Append(rows, [shape |-> shape, offered |-> InitiallyOffered(TableOf[shape]), removed |-> FALSE]))

(* TenantService maps an update field by field, and isActive is no field   *)
(* of it; only the payment of an order changes what lists it.              *)
Rekeyed == {"tenant", "product", "service", "portfolio", "post"}
Toggled == {"product", "service", "post", "order"}

TableAt(i) == TableOf[rows[i].shape]

UpdateRow(i, shape, offered) ==
  /\ ~rows[i].removed /\ TableOf[shape] = TableAt(i)
  /\ shape # rows[i].shape => TableAt(i) \in Rekeyed
  /\ offered # rows[i].offered => TableAt(i) \in Toggled
  /\ Write([rows EXCEPT ![i].shape = shape, ![i].offered = offered])

DeleteRow(i) ==
  /\ ~rows[i].removed /\ TableAt(i) \notin Kept
  /\ Write([rows EXCEPT ![i].removed = TRUE])

HideRow_Removes(i) ==
  /\ TableAt(i) \in {"tenant", "post"}
  /\ Write([rows EXCEPT ![i].offered = FALSE, ![i].removed = TRUE])
(* TenantService and PostService override delete.                          *)
HideRow(i) ==
  /\ TableAt(i) \in {"tenant", "post"}
  /\ Write([rows EXCEPT ![i].offered = FALSE])

(***************************************************************************)
(* Reads.                                                                  *)
(***************************************************************************)
Queries(l) == IF l.reads = "whole" THEN {"items", "total"} ELSE {"items"}

Fresh(name) ==
  [listing |-> name, skip |-> 0, more |-> FALSE, pending |-> Queries(Listings[name]),
   found |-> 0, total |-> 0, shown |-> [i \in 1 .. MaxRows |-> 0]]
Unwritten(name) ==
  [writes |-> 0, steady |-> Listed(rows, Listings[name]), pushed |-> 0, pulled |-> 0, drift |-> 0]

Open(name) ==
  /\ reader.pending = {}
  /\ reader' = Fresh(name)
  /\ during' = Unwritten(name)
  /\ UNCHANGED rows

ReadItems ==
  LET l == Listings[reader.listing] IN
  /\ "items" \in reader.pending
  /\ \E page \in Query(l, reader.skip) : \E filling \in Filling(l, page) :
       LET size == Cardinality(page) + Cardinality(filling)
           times(i) == Cardinality({i} \intersect page) + Cardinality({i} \intersect filling)
       IN  reader' = [reader EXCEPT
             !.pending = @ \ {"items"}, !.skip = @ + size,
             !.found = IF l.reads = "whole" THEN size ELSE 0,
             !.more = l.reads = "pages" /\ size = Take,
             !.shown = [i \in DOMAIN @ |-> @[i] + times(i)]]
  /\ UNCHANGED <<rows, during>>

ReadTotal ==
  /\ "total" \in reader.pending
  /\ reader' = [reader EXCEPT !.pending = @ \ {"total"}, !.total = Cardinality(Listed(rows, Listings[reader.listing]))]
  /\ UNCHANGED <<rows, during>>

NextPage ==
  /\ reader.pending = {} /\ reader.more /\ reader.skip <= MaxRows
  /\ reader' = [reader EXCEPT !.pending = {"items"}]
  /\ UNCHANGED <<rows, during>>

CatalogInit ==
  /\ rows = <<>>
  /\ \E name \in DOMAIN Listings : reader = Fresh(name) /\ during = Unwritten(name)

CatalogNext ==
  \/ \E shape \in Shapes : CreateRow(shape)
  \/ \E i \in DOMAIN rows :
       \/ \E shape \in Shapes, offered \in BOOLEAN : UpdateRow(i, shape, offered)
       \/ DeleteRow(i) \/ HideRow(i)
  \/ \E name \in DOMAIN Listings : Open(name)
  \/ ReadItems \/ ReadTotal \/ NextPage

CatalogSpec == CatalogInit /\ [][CatalogNext]_catalogVars

(***************************************************************************)
(* Properties.                                                             *)
(***************************************************************************)
RowType == [shape : Shapes, offered : BOOLEAN, removed : BOOLEAN]
ReaderType ==
  [listing : DOMAIN Listings, skip : Nat, more : BOOLEAN, pending : SUBSET {"items", "total"},
   found : Nat, total : Nat, shown : [1 .. MaxRows -> Nat]]
Counts == [writes : 0 .. MaxWrites, steady : SUBSET (1 .. MaxRows), pushed : Nat, pulled : Nat, drift : Nat]

(* Every variable keeps its type; shops and posts are deleted softly, for  *)
(* orders, products, comments and likes refer to them.                     *)
CatalogTypeOK ==
  /\ rows \in Seq(RowType) /\ Len(rows) <= MaxRows
  /\ \A i \in DOMAIN rows : rows[i].removed => TableAt(i) \notin Kept
  /\ reader \in ReaderType
  /\ during \in Counts

(* A reader's skip counts rows that others insert, hide, restore and       *)
(* delete.  Reading an ordered listing page by page, it meets a row twice, *)
(* or still will, at most once per row that came before its place, and     *)
(* skips at most one row per row that went from there.  Comments come at   *)
(* the end: none is met twice.  A total is off by what was written between *)
(* its query and the items'.                                               *)
Reading == Listings[reader.listing]
Threads == {CommentsByPost(key[2]) : key \in UNION {KeysOf[shape] : shape \in Shapes}}

Shown == {i \in 1 .. MaxRows : reader.shown[i] > 0}
Repeats == UNION {{i} \X (2 .. reader.shown[i]) : i \in 1 .. MaxRows}
Ahead(listed) == {i \in listed : Place(listed, Reading.order, i) >= reader.skip}
Again == Ahead(Listed(rows, Reading)) \intersect Shown
Skipped == (during.steady \ Ahead(Listed(rows, Reading))) \ Shown

PagesAccounted ==
  /\ Reading.order # "none" /\ ~Reading.padded =>
       /\ Cardinality(Repeats) + Cardinality(Again) <= during.pushed
       /\ Cardinality(Skipped) <= during.pulled
  /\ Reading \in Threads => Repeats = {} /\ Again = {}
  /\ reader.pending = {} /\ Reading.reads = "whole" =>
       reader.total - reader.found \in -during.drift .. during.drift
=============================================================================
