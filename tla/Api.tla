---------------------------------- MODULE Api ----------------------------------
(***************************************************************************)
(* The routes of the HTTP API and what stands before each handler: the     *)
(* TenantMiddleware, the two global guards (AuthGuard, RolesGuard), the    *)
(* TenantOwnerGuard, and the parameters CurrentUser and CurrentTenant.     *)
(*                                                                         *)
(* A route is one decorated method of a controller: its verb, its path (a  *)
(* parameter such as :id is Param), what it demands, and the operation it  *)
(* calls.  The body of a handler parses its paging, makes that one call    *)
(* and wraps what it returns; a missing entity is the operation's matter.  *)
(* Two handlers throw before their call: auth/refresh without the cookie,  *)
(* and payments/initialize when the token's payload has no email.          *)
(* SeoController and WhatsAppWebhookController are in no module that the    *)
(* application imports: their routes do not exist.                         *)
(***************************************************************************)
EXTENDS Sequences, Naturals

Param == ":"
Demands == {"public",   \* @Public()
            "ADMIN",    \* @Roles('ADMIN')
            "owner",    \* @UseGuards(TenantOwnerGuard)
            "user",     \* @CurrentUser()
            "tenant",   \* @CurrentTenant()
            "cookie",   \* the handler asks for the refreshToken cookie
            "email"}    \* the handler asks for the payload's email

Route(verb, path, demands, calls) ==
  [verb |-> verb, path |-> path, demands |-> demands, calls |-> calls]

AdminRoutes == <<
  Route("POST", <<"admin", "tenants", "verify">>, {"ADMIN"}, "tenants.verifyTenant")>>

AnalyticsRoutes == <<
  Route("GET", <<"analytics", "revenue-by-source">>, {"owner", "tenant"}, "analytics.getRevenueBySource"),
  Route("GET", <<"analytics", "top-products">>, {"owner", "tenant"}, "analytics.getTopProducts"),
  Route("GET", <<"analytics", "order-count">>, {"owner", "tenant"}, "analytics.getOrderCount")>>


AuthRoutes == <<
  Route("POST", <<"auth", "register">>, {"public"}, "auth.register"),
  Route("POST", <<"auth", "login">>, {"public"}, "auth.login"),
  Route("POST", <<"auth", "logout">>, {"user"}, "auth.logout"),
  Route("POST", <<"auth", "refresh">>, {"public", "cookie"}, "auth.refreshTokens")>>

TenantRoutes == <<
  Route("GET", <<"tenants", "storefront", Param>>, {"public"}, "tenants.getStorefront"),
  Route("GET", <<"tenants", "search">>, {"public"}, "tenants.searchTenants"),
  Route("GET", <<"tenants", "category", Param>>, {"public"}, "tenants.getByCategory"),
  Route("GET", <<"tenants", "type", Param>>, {"public"}, "tenants.getByBusinessType"),
  Route("POST", <<"tenants">>, {"user"}, "tenants.create"),
  Route("PATCH", <<"tenants", Param>>, {"owner"}, "tenants.update"),
  Route("DELETE", <<"tenants", Param>>, {"owner"}, "tenants.delete"),
  Route("PATCH", <<"tenants", "branding">>, {"owner", "tenant"}, "tenants.updateBranding"),
  Route("GET", <<"tenants", "current">>, {"public", "tenant"}, "tenants.current")>>

PaymentRoutes == <<
  Route("POST", <<"payments", "initialize">>, {"user", "email"}, "payments.initializePayment"),
  Route("POST", <<"payments", "webhook", "paystack">>, {"public"}, "payments.handleSuccessfulPayment")>>

PostRoutes == <<
  Route("GET", <<"posts", "feed">>, {"user"}, "posts.getUserFeed"),
  Route("GET", <<"posts", "trending">>, {"public"}, "posts.getTrendingPosts"),
  Route("GET", <<"posts", "tenant", Param>>, {"public"}, "posts.getPostsByTenant"),
  Route("POST", <<"posts">>, {"owner", "tenant"}, "posts.create"),
  Route("PATCH", <<"posts", Param>>, {"owner"}, "posts.update"),
  Route("DELETE", <<"posts", Param>>, {"owner"}, "posts.delete"),
  Route("POST", <<"posts", Param, "like">>, {"user"}, "posts.toggleLike")>>

FollowRoutes == <<
  Route("POST", <<"follow", Param>>, {"user"}, "follow.follow"),
  Route("DELETE", <<"follow", Param>>, {"user"}, "follow.unfollow")>>

LikeRoutes == <<
  Route("POST", <<"likes", "posts", Param>>, {"user"}, "likes.like"),
  Route("DELETE", <<"likes", "posts", Param>>, {"user"}, "likes.unlike")>>

CommentRoutes == <<
  Route("POST", <<"comments">>, {"user"}, "comments.create"),
  Route("PATCH", <<"comments", Param>>, {"user"}, "comments.update"),
  Route("DELETE", <<"comments", Param>>, {"user"}, "comments.delete"),
  Route("GET", <<"comments", "post", Param>>, {"public"}, "comments.getCommentsByPost")>>

ProductRoutes == <<
  Route("GET", <<"products", "tenant", Param>>, {"public"}, "products.getProductsByTenant"),
  Route("GET", <<"products", "category", Param>>, {"public"}, "products.getProductsByCategory"),
  Route("POST", <<"products">>, {"owner", "tenant"}, "products.create"),
  Route("PATCH", <<"products", Param>>, {"owner"}, "products.update"),
  Route("DELETE", <<"products", Param>>, {"owner"}, "products.delete")>>

ServiceRoutes == <<
  Route("GET", <<"services", "tenant", Param>>, {"public"}, "services.getServicesByTenant"),
  Route("POST", <<"services">>, {"owner", "tenant"}, "services.create"),
  Route("PATCH", <<"services", Param>>, {"owner"}, "services.update"),
  Route("DELETE", <<"services", Param>>, {"owner"}, "services.delete")>>

OrderRoutes == <<
  Route("POST", <<"orders">>, {"user"}, "orders.createOrder"),
  Route("GET", <<"orders", "my">>, {"user"}, "orders.getCustomerOrders"),
  Route("GET", <<"orders", "tenant">>, {"owner", "tenant"}, "orders.getTenantOrders"),
  Route("PATCH", <<"orders", Param, "status">>, {"owner"}, "orders.updateOrderStatus"),
  Route("GET", <<"orders", "customers">>, {"owner", "tenant"}, "orders.getCustomerHistory"),
  Route("POST", <<"orders", Param, "reorder">>, {"user"}, "orders.reorder")>>

BookingRoutes == <<
  Route("POST", <<"bookings">>, {"user"}, "bookings.createBooking"),
  Route("GET", <<"bookings", "my">>, {"user"}, "bookings.getCustomerBookings"),
  Route("GET", <<"bookings", "tenant">>, {"owner", "tenant"}, "bookings.getTenantBookings"),
  Route("PATCH", <<"bookings", Param, "status">>, {"owner"}, "bookings.updateBookingStatus")>>

MarketplaceRoutes == <<
  Route("GET", <<"marketplace", "tenants">>, {"public"}, "marketplace.searchTenants"),
  Route("GET", <<"marketplace", "products">>, {"public"}, "marketplace.searchProducts"),
  Route("GET", <<"marketplace", "services">>, {"public"}, "marketplace.searchServices")>>

PortfolioRoutes == <<
  Route("GET", <<"portfolio", "tenant", Param>>, {"public"}, "portfolio.getPortfolioByTenant"),
  Route("POST", <<"portfolio">>, {"owner", "tenant"}, "portfolio.create"),
  Route("PATCH", <<"portfolio", Param>>, {"owner"}, "portfolio.update"),
  Route("DELETE", <<"portfolio", Param>>, {"owner"}, "portfolio.delete")>>

CartRoutes == <<
  Route("GET", <<"cart">>, {"user"}, "cart.getCart"),
  Route("GET", <<"cart", "summary">>, {"user"}, "cart.getCartSummary"),
  Route("POST", <<"cart", "items">>, {"user"}, "cart.addToCart"),
  Route("PATCH", <<"cart", "items", Param>>, {"user"}, "cart.updateCartItem"),
  Route("DELETE", <<"cart", "items", Param>>, {"user"}, "cart.removeCartItem"),
  Route("DELETE", <<"cart">>, {"user"}, "cart.clearCart"),
  Route("POST", <<"cart", "checkout">>, {"user"}, "cart.checkout")>>

ReviewRoutes == <<
  Route("POST", <<"reviews">>, {"user"}, "reviews.create"),
  Route("PATCH", <<"reviews", Param>>, {"user"}, "reviews.update"),
  Route("DELETE", <<"reviews", Param>>, {"user"}, "reviews.delete"),
  Route("GET", <<"reviews", "product", Param>>, {"public"}, "reviews.getProductReviews"),
  Route("GET", <<"reviews", "my">>, {"user"}, "reviews.getUserReviews"),
  Route("POST", <<"reviews", Param, "reply">>, {"owner", "tenant"}, "reviews.replyToReview")>>

Routes ==
  AdminRoutes \o TenantRoutes \o PaymentRoutes \o OrderRoutes \o ProductRoutes
  \o AnalyticsRoutes \o AuthRoutes \o PostRoutes \o FollowRoutes \o LikeRoutes
  \o CommentRoutes \o ServiceRoutes \o BookingRoutes \o MarketplaceRoutes
  \o PortfolioRoutes \o CartRoutes \o ReviewRoutes

(***************************************************************************)
(* The router takes the first route declared that matches.                 *)
(***************************************************************************)
Matches(route, verb, path) ==
  /\ route.verb = verb /\ Len(route.path) = Len(path)
  /\ \A i \in DOMAIN path : route.path[i] \in {Param, path[i]}

Dispatch(verb, path) ==
  CHOOSE i \in DOMAIN Routes :
    Matches(Routes[i], verb, path) /\ \A j \in 1 .. i - 1 : ~Matches(Routes[j], verb, path)

(* The route taken by a request for the path declared for an operation.    *)
RouteTaken ==
  [calls \in {Routes[i].calls : i \in DOMAIN Routes} |->
     LET declared == Routes[CHOOSE i \in DOMAIN Routes : Routes[i].calls = calls]
     IN  Routes[Dispatch(declared.verb, declared.path)]]

(***************************************************************************)
(* What a request meets, in order.  user is the payload of its access      *)
(* token or NoOne, shop the id of the shop of its host or NoOne, cookie    *)
(* whether it carries a refresh token.                                     *)
(***************************************************************************)
AuthGuard(d, user, NoOne) == IF "public" \notin d /\ user = NoOne THEN {"unauthorized"} ELSE {}

RolesGuard(d, user, NoOne) ==
  IF "ADMIN" \in d /\ (user = NoOne \/ user.role # "ADMIN") THEN {"forbidden"} ELSE {}

TenantOwnerGuard(d, user, shop, NoOne) ==
  IF /\ "owner" \in d
     /\ \/ user = NoOne
        \/ user.role # "TENANT_ADMIN"
        \/ shop # NoOne /\ user.tenantId # shop
  THEN {"forbidden"} ELSE {}

Parameters(d, user, shop, NoOne) ==
  (IF "user" \in d /\ user = NoOne THEN {"unauthorized"} ELSE {})
  \union (IF "tenant" \in d /\ shop = NoOne THEN {"notFound"} ELSE {})

Handler(d, user, cookie, NoOne) ==
  (IF "cookie" \in d /\ ~cookie THEN {"unauthorized"} ELSE {})
  \union (IF "email" \in d /\ (user = NoOne \/ user.email = NoOne) THEN {"internalError"} ELSE {})

(* The refusals a request meets; its answer is that of the first.          *)
Refusals(route, request, NoOne) ==
  LET d == route.demands
      user == IF "public" \in d THEN NoOne ELSE request.user
  IN  AuthGuard(d, user, NoOne) \union RolesGuard(d, user, NoOne)
      \union TenantOwnerGuard(d, user, request.shop, NoOne)
      \union Parameters(d, user, request.shop, NoOne)
      \union Handler(d, user, request.cookie, NoOne)

=============================================================================
