-------------------------------- MODULE Sessions --------------------------------
(***************************************************************************)
(* Sessions: AuthService.login, logout and refreshTokens, the cookies that *)
(* AuthController sets, and the AuthGuard in front of every other route.   *)
(*                                                                         *)
(* A session is a refresh token.  It is a JWT of the user and the second   *)
(* it was signed in, so two logins of one second have one token; the row   *)
(* of the user stores one, and a login overwrites it.  Passwords are       *)
(* right: a refused login changes nothing.  A cookie's maxAge is the       *)
(* default life of the token inside it: one clock is enough for both, and  *)
(* a browser drops a cookie when its token expires (Tick).                 *)
(***************************************************************************)
EXTENDS Integers, FiniteSets

CONSTANTS
  Users, Browsers, Handlers,
  Tabs,          \* the browsers that send a request before the last is answered
  None,          \* no token, no browser
  CookieParser,  \* whether the application parses the Cookie header
  AccessLife, RefreshLife,  \* JWT_ACCESS_EXPIRES, JWT_REFRESH_EXPIRES
  MaxTime,       \* bound: the clock
  MaxLogins      \* bound: logins ever sent

ASSUME BrowsersAssumption == Tabs \subseteq Browsers /\ None \notin Users \union Browsers \union Int
ASSUME LivesAssumption ==
  /\ CookieParser \in BOOLEAN
  /\ AccessLife \in Nat \ {0} /\ RefreshLife \in Nat \ {0}
  /\ MaxTime \in Nat /\ MaxLogins \in Nat

VARIABLES
  now,      \* seconds
  stored,   \* users.refreshToken: the second it was signed in, or None
  jar,      \* the two cookies of each browser
  proc,     \* the request each handler serves
  logins,   \* logins sent so far
  twins,    \* history: sessions two logins opened in one second
  ended     \* history: sessions overwritten or logged out, and when

vars == <<now, stored, jar, proc, logins, twins, ended>>

Times == 0 .. MaxTime
Session(u, t) == [user |-> u, since |-> t]
Sessions == [user : Users, since : Times]
(* History: "session" and "late" are not in the JWT.  A token is late when *)
(* its session ended after the refresh that signs it had read the row.     *)
Access(s, t, late) == [session |-> s, iat |-> t, late |-> late]
NoCookies == [access |-> None, refresh |-> None]

Idle == [pc |-> "idle"]
At(h, pc) == proc[h].pc = pc
Waiting == {proc[h].browser : h \in {g \in Handlers : ~At(g, "idle")}}
Free(b) == b \notin Waiting \ Tabs
Starts(h, b, pc, s) ==
  /\ At(h, "idle") /\ Free(b)
  /\ proc' = [proc EXCEPT ![h] = [pc |-> pc, browser |-> b, session |-> s, iat |-> s.since, late |-> FALSE]]

AccessFresh(a, t) == a # None /\ t < a.iat + AccessLife
RefreshFresh(s, t) == s # None /\ t < s.since + RefreshLife

(* What AuthGuard admits; without a parser request.cookies is undefined.   *)
Admitted(b) == CookieParser /\ AccessFresh(jar[b].access, now)

(* The row of u takes another value: whoever read it before is now late.   *)
IsOf(h, u) == proc[h].pc = "sign" /\ proc[h].session.user = u
Store(h, u, t, pc) ==
  /\ stored' = [stored EXCEPT ![u] = t]
  /\ ended' = IF stored[u] \in {None, t} THEN ended
              ELSE ended \union {[session |-> Session(u, stored[u]), at |-> now]}
  /\ proc' = [g \in Handlers |->
               IF g = h THEN [proc[g] EXCEPT !.pc = pc]
               ELSE IF IsOf(g, u) /\ stored[u] # t THEN [proc[g] EXCEPT !.late = TRUE]
               ELSE proc[g]]

Init ==
  /\ now = 0
  /\ stored = [u \in Users |-> None]
  /\ jar = [b \in Browsers |-> NoCookies]
  /\ proc = [h \in Handlers |-> Idle]
  /\ logins = 0 /\ twins = {} /\ ended = {}

(***************************************************************************)
(* POST auth/login.                                                        *)
(***************************************************************************)
Opened == {proc[h].session : h \in {g \in Handlers : At(g, "store")}}
          \union {Session(u, stored[u]) : u \in {v \in Users : stored[v] # None}}
          \union {e.session : e \in ended}

Login(h, b, u) ==
  /\ Starts(h, b, "store", Session(u, now))
  /\ twins' = twins \union (Opened \intersect {Session(u, now)})
  /\ logins < MaxLogins /\ logins' = logins + 1
  /\ UNCHANGED <<now, stored, jar, ended>>

StoreRefreshToken(h) ==
  /\ At(h, "store")
  /\ Store(h, proc[h].session.user, proc[h].session.since, "setAuthCookies")
  /\ UNCHANGED <<now, jar, logins, twins>>

(***************************************************************************)
(* POST auth/logout: the user is the access token's.                       *)
(***************************************************************************)
Logout(h, b) ==
  /\ Admitted(b)
  /\ Starts(h, b, "forget", jar[b].access.session)
  /\ UNCHANGED <<now, stored, jar, logins, twins, ended>>

ForgetRefreshToken(h) ==
  /\ At(h, "forget")
  /\ Store(h, proc[h].session.user, None, "clearAuthCookies")
  /\ UNCHANGED <<now, jar, logins, twins>>

(***************************************************************************)
(* POST auth/refresh: the token is verified, the user's row is read, then  *)
(* an access token is signed.  The refresh token is kept.                  *)
(***************************************************************************)
Refresh_AnyToken(h, b) ==
  LET s == jar[b].refresh IN
  /\ CookieParser /\ RefreshFresh(s, now)
  /\ Starts(h, b, "sign", s)
  /\ UNCHANGED <<now, stored, jar, logins, twins, ended>>

Refresh(h, b) ==
  LET s == jar[b].refresh IN
  /\ CookieParser /\ RefreshFresh(s, now) /\ stored[s.user] = s.since
  /\ Starts(h, b, "sign", s)
  /\ UNCHANGED <<now, stored, jar, logins, twins, ended>>

SignAccessToken_Rotate(h) ==
  /\ At(h, "sign")
  /\ proc' = [proc EXCEPT ![h].pc = "setAccessTokenCookie", ![h].iat = now]
  /\ stored' = [stored EXCEPT ![proc[h].session.user] = proc[h].session.since]
  /\ UNCHANGED <<now, jar, logins, twins, ended>>

SignAccessToken(h) ==
  /\ At(h, "sign")
  /\ proc' = [proc EXCEPT ![h].pc = "setAccessTokenCookie", ![h].iat = now]
  /\ UNCHANGED <<now, stored, jar, logins, twins, ended>>

(***************************************************************************)
(* The answer sets cookies; it is lost when the process crashed or the     *)
(* browser no longer waits.                                                *)
(***************************************************************************)
Cookies_RefreshOnly(r) ==
  CASE r.pc = "setAuthCookies" -> [jar[r.browser] EXCEPT !.refresh = r.session]
    [] r.pc = "setAccessTokenCookie" -> [jar[r.browser] EXCEPT !.access = Access(r.session, r.iat, r.late)]
    [] r.pc = "clearAuthCookies" -> NoCookies

Cookies_Swapped(r) ==
  CASE r.pc = "clearAuthCookies" -> NoCookies
    [] OTHER -> [access |-> r.session, refresh |-> Access(r.session, r.iat, r.late)]

Cookies(r) ==
  CASE r.pc = "setAuthCookies" -> [access |-> Access(r.session, r.iat, r.late), refresh |-> r.session]
    [] r.pc = "setAccessTokenCookie" -> [jar[r.browser] EXCEPT !.access = Access(r.session, r.iat, r.late)]
    [] r.pc = "clearAuthCookies" -> NoCookies

Answer(h) ==
  /\ proc[h].pc \in {"setAuthCookies", "setAccessTokenCookie", "clearAuthCookies"}
  /\ IF proc[h].browser = None THEN UNCHANGED jar
     ELSE jar' = [jar EXCEPT ![proc[h].browser] = Cookies(proc[h])]
  /\ proc' = [proc EXCEPT ![h] = Idle]
  /\ UNCHANGED <<now, stored, logins, twins, ended>>

(* The browser gives up; the request runs on.                              *)
Abandon(h) ==
  /\ ~At(h, "idle") /\ proc[h].browser # None
  /\ proc' = [proc EXCEPT ![h].browser = None]
  /\ UNCHANGED <<now, stored, jar, logins, twins, ended>>

Fail(h) ==
  /\ ~At(h, "idle")
  /\ proc' = [proc EXCEPT ![h] = Idle]
  /\ UNCHANGED <<now, stored, jar, logins, twins, ended>>

Tick ==
  /\ now < MaxTime
  /\ now' = now + 1
  /\ jar' = [b \in Browsers |->
              [access |-> IF AccessFresh(jar[b].access, now + 1) THEN jar[b].access ELSE None,
               refresh |-> IF RefreshFresh(jar[b].refresh, now + 1) THEN jar[b].refresh ELSE None]]
  /\ UNCHANGED <<stored, proc, logins, twins, ended>>

Next ==
  \/ Tick
  \/ \E h \in Handlers, b \in Browsers :
       (\E u \in Users : Login(h, b, u)) \/ Logout(h, b) \/ Refresh(h, b)
  \/ \E h \in Handlers :
       \/ StoreRefreshToken(h) \/ ForgetRefreshToken(h) \/ SignAccessToken(h)
       \/ Answer(h) \/ Abandon(h) \/ Fail(h)

Spec == Init /\ [][Next]_vars

(***************************************************************************)
(* Properties.                                                             *)
(***************************************************************************)
AccessTokens == [session : Sessions, iat : Times, late : BOOLEAN]
Busy ==
  [pc : {"store", "forget", "sign", "setAuthCookies", "setAccessTokenCookie", "clearAuthCookies"},
   browser : Browsers \union {None}, session : Sessions, iat : Times, late : BOOLEAN]

(* Every variable keeps its type.                                          *)
TypeOK ==
  /\ now \in Times
  /\ stored \in [Users -> Times \union {None}]
  /\ jar \in [Browsers -> [access : AccessTokens \union {None}, refresh : Sessions \union {None}]]
  /\ proc \in [Handlers -> Busy \union {Idle}]
  /\ logins \in 0 .. MaxLogins
  /\ twins \subseteq Sessions
  /\ ended \subseteq [session : Sessions, at : Times]

(* The two cookies are set by different answers, and a refresh sets one of *)
(* them.  In a browser that waits for its answers they are of one user and *)
(* one session, whatever requests it gave up on are still doing.           *)
CookiesAgree ==
  \A b \in Browsers \ Tabs :
    jar[b].access # None /\ jar[b].refresh # None => jar[b].access.session = jar[b].refresh

(* An ended session is not opened again by a request that was under way    *)
(* when it ended; only a login of the same second can, by the same token.  *)
EndedStaysEnded ==
  [][\A u \in Users :
       stored'[u] \notin {stored[u], None} /\ Session(u, stored'[u]) \notin twins
         => \A e \in ended : e.session # Session(u, stored'[u])]_vars

(* A browser whose session was ended, by a logout or by a login elsewhere, *)
(* is admitted for the life of an access token and no longer, but for a    *)
(* refresh that had read the user's row before the end.                    *)
EndTakesHold ==
  \A b \in Browsers, e \in ended :
    /\ Admitted(b) /\ jar[b].access.session = e.session
    /\ e.session \notin twins /\ ~jar[b].access.late
    => now < e.at + AccessLife
=============================================================================
