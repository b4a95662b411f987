---------------------------- MODULE SessionsProofs ----------------------------
(***************************************************************************)
(* Proofs about Sessions, for any users, browsers and handlers and any     *)
(* lives of the tokens: the type invariant, that the two cookies of a      *)
(* browser that waits agree, and that a session that ended stays ended and *)
(* loses its browsers within the life of an access token.                  *)
(***************************************************************************)
EXTENDS Sessions, TLAPS

(***************************************************************************)
(* The inductive invariants.                                               *)
(***************************************************************************)

(* A browser that waits has one request under way, and the access token    *)
(* that a refresh will give it is that of its refresh token.               *)
OneAtATime ==
  \A g, h \in Handlers :
    /\ ~At(g, "idle") /\ ~At(h, "idle")
    /\ proc[g].browser = proc[h].browser /\ proc[g].browser \in Browsers \ Tabs
    => g = h
Renews(h) ==
  /\ proc[h].pc \in {"sign", "setAccessTokenCookie"} /\ proc[h].browser \in Browsers \ Tabs
  => jar[proc[h].browser].refresh \in {None, proc[h].session}

BrowsersInv ==
  /\ TypeOK
  /\ OneAtATime
  /\ \A h \in Handlers : Renews(h)
  /\ CookiesAgree

(* A session that one login opens is stored once and ends after that: it   *)
(* is not over while its login has yet to store it, nor while it is the    *)
(* one stored.  A refresh that is not late is of the session stored.       *)
Over(s, ends) == \E e \in ends : e.session = s
Unborn(h) ==
  LET s == proc[h].session IN
  At(h, "store") =>
    /\ proc[h].iat <= now
    /\ s \notin twins =>
         /\ ~Over(s, ended) /\ stored[s.user] # s.since
         /\ \A g \in Handlers \ {h} : At(g, "store") => proc[g].session # s
Current(h) ==
  At(h, "sign") /\ ~proc[h].late => stored[proc[h].session.user] = proc[h].session.since
Live(u) == stored[u] # None /\ Session(u, stored[u]) \notin twins => ~Over(Session(u, stored[u]), ended)

(* A token, in a cookie or in an answer, that is not late was signed       *)
(* before its session ended.                                               *)
InTime(a, time, doubles, ends) ==
  /\ a.iat <= time
  /\ a.session \notin doubles /\ ~a.late => \A e \in ends : e.session = a.session => a.iat <= e.at

SessionsInv ==
  /\ TypeOK
  /\ \A h \in Handlers : Unborn(h) /\ Current(h)
  /\ \A u \in Users : Live(u)
  /\ \A h \in Handlers :
       proc[h].pc \in {"setAuthCookies", "setAccessTokenCookie"} => InTime(proc[h], now, twins, ended)
  /\ \A b \in Browsers : jar[b].access # None => InTime(jar[b].access, now, twins, ended)
(***************************************************************************)
(* The steps, and the type invariant.                                      *)
(***************************************************************************)
Sends == {"store", "forget", "sign"}
Answers == {"setAuthCookies", "setAccessTokenCookie", "clearAuthCookies"}
TakesUp(h, r) == proc' = [proc EXCEPT ![h] = r]
Served(b, pc, s) == [pc |-> pc, browser |-> b, session |-> s, iat |-> s.since, late |-> FALSE]

LEMMA BusyFacts ==
  ASSUME TypeOK, NEW h \in Handlers
  PROVE  /\ At(h, "idle") => proc[h] = Idle
         /\ ~At(h, "idle") => proc[h] \in Busy /\ proc[h].pc \in Sends \union Answers
         /\ proc[h] = Idle => At(h, "idle")
BY DEF TypeOK, Busy, Idle, At, Sends, Answers

LEMMA SessionFacts ==
  ASSUME NEW s \in Sessions
  PROVE  s.user \in Users /\ s.since \in Times /\ s.since \in Int /\ s = Session(s.user, s.since)
BY LivesAssumption DEF Sessions, Session, Times

LEMMA SessionType == \A u \in Users, t \in Times : Session(u, t) \in Sessions
BY DEF Session, Sessions

LEMMA TimeFacts ==
  ASSUME TypeOK
  PROVE  /\ None \notin Times /\ None \notin Browsers /\ now \in Int
         /\ \A u \in Users : stored[u] # None => stored[u] \in Times /\ Session(u, stored[u]) \in Sessions
BY BrowsersAssumption, LivesAssumption, SessionType DEF Times, TypeOK

LEMMA ServedType ==
  ASSUME NEW b \in Browsers, NEW pc \in Sends, NEW s \in Sessions
  PROVE  Served(b, pc, s) \in Busy /\ Served(b, pc, s).pc = pc /\ Served(b, pc, s).browser = b
         /\ Served(b, pc, s).session = s /\ Served(b, pc, s).iat = s.since /\ ~Served(b, pc, s).late
BY SessionFacts DEF Served, Busy, Sends

(* What a request starts with: nobody else waits with its browser, unless  *)
(* that is a browser of tabs.                                              *)
LEMMA StartFacts ==
  ASSUME TypeOK, NEW h \in Handlers, NEW b \in Browsers, NEW pc \in Sends, NEW s \in Sessions,
         Starts(h, b, pc, s)
  PROVE  /\ proc[h] = Idle /\ TakesUp(h, Served(b, pc, s))
         /\ proc' \in [Handlers -> Busy \union {Idle}]
         /\ b \notin Tabs => \A g \in Handlers : At(g, "idle") \/ proc[g].browser # b
<1>1. proc[h] = Idle /\ TakesUp(h, Served(b, pc, s))
  BY BusyFacts DEF Starts, TakesUp, Served
<1>2. proc' \in [Handlers -> Busy \union {Idle}]
  BY <1>1, ServedType DEF TakesUp, TypeOK
<1>3. ASSUME b \notin Tabs, NEW g \in Handlers PROVE At(g, "idle") \/ proc[g].browser # b
  BY <1>3 DEF Starts, Free, Waiting
<1>4. QED
  BY <1>1, <1>2, <1>3

(* The step of one request, seen by that request and by the others.        *)
LEMMA MoveFacts ==
  ASSUME TypeOK, NEW h \in Handlers, NEW r, TakesUp(h, r)
  PROVE  proc'[h] = r /\ \A g \in Handlers \ {h} : proc'[g] = proc[g]
BY DEF TypeOK, TakesUp

LEMMA StoreFacts ==
  ASSUME TypeOK, NEW h \in Handlers, NEW u \in Users, NEW t \in Times \union {None}, NEW pc \in Answers,
         ~At(h, "idle"), Store(h, u, t, pc)
  PROVE  /\ stored' \in [Users -> Times \union {None}]
         /\ stored'[u] = t /\ \A v \in Users \ {u} : stored'[v] = stored[v]
         /\ ended' \subseteq [session : Sessions, at : Times]
         /\ \A e \in ended' : \/ e \in ended
                              \/ /\ e.at = now /\ stored[u] \notin {None, t}
                                 /\ e.session = Session(u, stored[u])
         /\ ended \subseteq ended'
         /\ proc' \in [Handlers -> Busy \union {Idle}]
         /\ proc'[h].pc = pc /\ proc'[h].browser = proc[h].browser /\ proc'[h].session = proc[h].session
         /\ proc'[h].iat = proc[h].iat /\ proc'[h].late = proc[h].late
         /\ \A g \in Handlers \ {h} :
              /\ proc'[g].pc = proc[g].pc
              /\ proc[g] = Idle => proc'[g] = Idle
              /\ proc[g] # Idle =>
                   /\ proc'[g].browser = proc[g].browser /\ proc'[g].session = proc[g].session
                   /\ proc'[g].iat = proc[g].iat
                   /\ proc'[g].late = (proc[g].late \/ (IsOf(g, u) /\ stored[u] # t))
<1>1. stored' \in [Users -> Times \union {None}] /\ stored'[u] = t /\ \A v \in Users \ {u} : stored'[v] = stored[v]
  BY DEF Store, TypeOK
<1>2. /\ ended' \subseteq [session : Sessions, at : Times] /\ ended \subseteq ended'
      /\ \A e \in ended' : \/ e \in ended
                           \/ /\ e.at = now /\ stored[u] \notin {None, t}
                              /\ e.session = Session(u, stored[u])
  <2>1. CASE stored[u] \in {None, t}
    BY <2>1 DEF Store, TypeOK
  <2>2. CASE stored[u] \notin {None, t}
    <3>1. Session(u, stored[u]) \in Sessions /\ now \in Times
      BY <2>2, TimeFacts DEF TypeOK
    <3>2. ended' = ended \union {[session |-> Session(u, stored[u]), at |-> now]}
      BY <2>2 DEF Store
    <3>3. QED
      BY <2>2, <3>1, <3>2 DEF TypeOK
  <2>3. QED
    BY <2>1, <2>2
<1>3. /\ proc' = [g \in Handlers |-> proc'[g]] /\ proc'[h] = [proc[h] EXCEPT !.pc = pc]
      /\ \A g \in Handlers \ {h} :
           proc'[g] = IF IsOf(g, u) /\ stored[u] # t THEN [proc[g] EXCEPT !.late = TRUE] ELSE proc[g]
  BY DEF Store
<1>4. proc[h] \in Busy
  BY BusyFacts
<1>5. /\ proc'[h] \in Busy
      /\ proc'[h].pc = pc /\ proc'[h].browser = proc[h].browser /\ proc'[h].session = proc[h].session
      /\ proc'[h].iat = proc[h].iat /\ proc'[h].late = proc[h].late
  BY <1>3, <1>4 DEF Busy, Answers
<1>6. ASSUME NEW g \in Handlers \ {h}
      PROVE  /\ proc'[g] \in Busy \union {Idle}
             /\ proc'[g].pc = proc[g].pc
             /\ proc[g] = Idle => proc'[g] = Idle
             /\ proc[g] # Idle =>
                  /\ proc'[g].browser = proc[g].browser /\ proc'[g].session = proc[g].session
                  /\ proc'[g].iat = proc[g].iat
                  /\ proc'[g].late = (proc[g].late \/ (IsOf(g, u) /\ stored[u] # t))
  <2>1. CASE proc[g] = Idle
    <3>1. ~IsOf(g, u)
      BY <2>1 DEF IsOf, Idle
    <3>2. proc'[g] = proc[g]
      BY <1>3, <3>1
    <3>3. QED
      BY <2>1, <3>2
  <2>2. CASE proc[g] # Idle
    <3>1. proc[g] \in Busy
      BY <2>2, BusyFacts DEF TypeOK
    <3>2. CASE IsOf(g, u) /\ stored[u] # t
      <4>1. proc'[g] = [proc[g] EXCEPT !.late = TRUE]
        BY <1>3, <3>2
      <4>2. QED
        BY <2>2, <3>1, <3>2, <4>1 DEF Busy
    <3>3. CASE ~(IsOf(g, u) /\ stored[u] # t)
      <4>1. proc'[g] = proc[g]
        BY <1>3, <3>3
      <4>2. QED
        BY <2>2, <3>1, <3>3, <4>1 DEF Busy
    <3>4. QED
      BY <3>2, <3>3
  <2>3. QED
    BY <2>1, <2>2
<1>7. proc' \in [Handlers -> Busy \union {Idle}]
  BY <1>3, <1>5, <1>6
<1>8. QED
  BY <1>1, <1>2, <1>5, <1>6, <1>7

JarType == [Browsers -> [access : AccessTokens \union {None}, refresh : Sessions \union {None}]]

LEMMA AnswerFacts ==
  ASSUME TypeOK, NEW h \in Handlers, Answer(h)
  PROVE  /\ proc[h] \in Busy /\ proc[h].pc \in Answers /\ TakesUp(h, Idle) /\ jar' \in JarType
         /\ \A b \in Browsers :
              /\ b # proc[h].browser => jar'[b] = jar[b]
              /\ b = proc[h].browser =>
                   /\ proc[h].pc = "setAuthCookies" =>
                        /\ jar'[b].access = Access(proc[h].session, proc[h].iat, proc[h].late)
                        /\ jar'[b].refresh = proc[h].session
                   /\ proc[h].pc = "setAccessTokenCookie" =>
                        /\ jar'[b].access = Access(proc[h].session, proc[h].iat, proc[h].late)
                        /\ jar'[b].refresh = jar[b].refresh
                   /\ proc[h].pc = "clearAuthCookies" => jar'[b].access = None /\ jar'[b].refresh = None
<1> DEFINE token == Access(proc[h].session, proc[h].iat, proc[h].late)
           b == proc[h].browser
<1>1. proc[h].pc \in Answers /\ TakesUp(h, Idle)
  BY DEF Answer, Answers, TakesUp
<1>2. proc[h] \in Busy
  BY <1>1, BusyFacts DEF Answers, At
<1>3. token \in AccessTokens
  BY <1>2 DEF Access, AccessTokens, Busy
<1> HIDE DEF token
<1>4. CASE b = None
  <2>1. jar' = jar /\ b \notin Browsers
    BY <1>4, TimeFacts DEF Answer
  <2>2. QED
    BY <1>1, <1>2, <2>1 DEF TypeOK, JarType
<1>5. CASE b # None
  <2>1. b \in Browsers /\ jar' = [jar EXCEPT ![b] = Cookies(proc[h])]
    BY <1>2, <1>5 DEF Busy, Answer
  <2>2. jar[b] \in [access : AccessTokens \union {None}, refresh : Sessions \union {None}] /\ proc[h].session \in Sessions
    BY <1>2, <2>1 DEF TypeOK, Busy
  <2>3. /\ Cookies(proc[h]) \in [access : AccessTokens \union {None}, refresh : Sessions \union {None}]
        /\ proc[h].pc = "setAuthCookies" =>
             Cookies(proc[h]).access = token /\ Cookies(proc[h]).refresh = proc[h].session
        /\ proc[h].pc = "setAccessTokenCookie" =>
             Cookies(proc[h]).access = token /\ Cookies(proc[h]).refresh = jar[b].refresh
        /\ proc[h].pc = "clearAuthCookies" => Cookies(proc[h]).access = None /\ Cookies(proc[h]).refresh = None
    <3>1. CASE proc[h].pc = "setAuthCookies"
      <4>1. Cookies(proc[h]) = [access |-> token, refresh |-> proc[h].session]
        BY <3>1 DEF Cookies, token
      <4>2. QED
        BY <1>3, <2>2, <3>1, <4>1
    <3>2. CASE proc[h].pc = "setAccessTokenCookie"
      <4>1. Cookies(proc[h]) = [jar[b] EXCEPT !.access = token]
        BY <3>2 DEF Cookies, token
      <4>2. QED
        BY <1>3, <2>2, <3>2, <4>1
    <3>3. CASE proc[h].pc = "clearAuthCookies"
      BY <3>3 DEF Cookies, NoCookies
    <3>4. QED
      BY <1>1, <3>1, <3>2, <3>3 DEF Answers
  <2> HIDE DEF b
  <2>4. jar' \in JarType /\ jar'[b] = Cookies(proc[h]) /\ \A c \in Browsers \ {b} : jar'[c] = jar[c]
    BY <2>1, <2>3 DEF TypeOK, JarType
  <2>5. QED
    BY <1>1, <1>2, <2>3, <2>4 DEF b, token
<1>6. QED
  BY <1>4, <1>5

LEMMA TickFacts ==
  ASSUME TypeOK, Tick
  PROVE  /\ jar' \in JarType /\ now' \in Times /\ now' = now + 1
         /\ \A b \in Browsers : jar'[b].access \in {jar[b].access, None} /\ jar'[b].refresh \in {jar[b].refresh, None}
<1>1. \A b \in Browsers : jar[b] \in [access : AccessTokens \union {None}, refresh : Sessions \union {None}]
  BY DEF TypeOK
<1>2. ASSUME NEW b \in Browsers
      PROVE  jar'[b].access \in {jar[b].access, None} /\ jar'[b].refresh \in {jar[b].refresh, None}
  <2> DEFINE access == IF AccessFresh(jar[b].access, now + 1) THEN jar[b].access ELSE None
             refresh == IF RefreshFresh(jar[b].refresh, now + 1) THEN jar[b].refresh ELSE None
  <2>1. jar'[b] = [access |-> access, refresh |-> refresh]
    BY DEF Tick
  <2>2. access \in {jar[b].access, None} /\ refresh \in {jar[b].refresh, None}
    BY Zenon
  <2> HIDE DEF access, refresh
  <2>3. QED
    BY <2>1, <2>2
<1>3. jar' \in JarType
  BY <1>1 DEF Tick, JarType
<1>4. now' \in Times /\ now' = now + 1
  BY LivesAssumption DEF Tick, TypeOK, Times
<1>5. QED
  BY <1>2, <1>3, <1>4

LEMMA LoginFacts ==
  ASSUME TypeOK, NEW h \in Handlers, NEW b \in Browsers, NEW u \in Users, Login(h, b, u)
  PROVE  Session(u, now) \in Sessions /\ "store" \in Sends /\ Starts(h, b, "store", Session(u, now))
BY SessionType DEF Login, TypeOK, Sends

LEMMA LogoutFacts ==
  ASSUME TypeOK, NEW h \in Handlers, NEW b \in Browsers, Logout(h, b)
  PROVE  jar[b].access.session \in Sessions /\ "forget" \in Sends /\ Starts(h, b, "forget", jar[b].access.session)
<1>1. jar[b].access # None /\ Starts(h, b, "forget", jar[b].access.session)
  BY DEF Logout, Admitted, AccessFresh
<1>2. jar[b].access \in AccessTokens
  BY <1>1 DEF TypeOK
<1>3. QED
  BY <1>1, <1>2 DEF AccessTokens, Sends

LEMMA RefreshFacts ==
  ASSUME TypeOK, NEW h \in Handlers, NEW b \in Browsers, Refresh(h, b)
  PROVE  jar[b].refresh \in Sessions /\ "sign" \in Sends /\ Starts(h, b, "sign", jar[b].refresh)
<1>1. jar[b].refresh # None /\ Starts(h, b, "sign", jar[b].refresh)
  BY DEF Refresh, RefreshFresh
<1>2. QED
  BY <1>1 DEF TypeOK, Sends

LEMMA StoreStepFacts ==
  ASSUME TypeOK, NEW h \in Handlers, StoreRefreshToken(h) \/ ForgetRefreshToken(h)
  PROVE  /\ ~At(h, "idle") /\ proc[h] \in Busy
         /\ proc[h].session.user \in Users /\ proc[h].session.since \in Times
         /\ StoreRefreshToken(h) => Store(h, proc[h].session.user, proc[h].session.since, "setAuthCookies")
         /\ ForgetRefreshToken(h) => Store(h, proc[h].session.user, None, "clearAuthCookies")
<1>1. ~At(h, "idle")
  BY DEF StoreRefreshToken, ForgetRefreshToken, At
<1>2. proc[h] \in Busy
  BY <1>1, BusyFacts
<1>3. proc[h].session \in Sessions
  BY <1>2 DEF Busy
<1>4. QED
  BY <1>1, <1>2, <1>3, SessionFacts DEF StoreRefreshToken, ForgetRefreshToken

LEMMA SignFacts ==
  ASSUME TypeOK, NEW h \in Handlers, SignAccessToken(h)
  PROVE  /\ proc[h] \in Busy /\ proc[h].pc = "sign" /\ proc'[h] \in Busy
         /\ proc' \in [Handlers -> Busy \union {Idle}] /\ \A g \in Handlers \ {h} : proc'[g] = proc[g]
         /\ proc'[h].pc = "setAccessTokenCookie" /\ proc'[h].browser = proc[h].browser
         /\ proc'[h].session = proc[h].session /\ proc'[h].iat = now /\ proc'[h].late = proc[h].late
<1>1. proc[h] \in Busy /\ proc[h].pc = "sign"
  BY BusyFacts DEF SignAccessToken, At
<1>2. proc' = [proc EXCEPT ![h] = [[proc[h] EXCEPT !.pc = "setAccessTokenCookie"] EXCEPT !.iat = now]]
  BY DEF SignAccessToken, TypeOK
<1> DEFINE r == [[proc[h] EXCEPT !.pc = "setAccessTokenCookie"] EXCEPT !.iat = now]
<1>3. /\ r \in Busy /\ r.pc = "setAccessTokenCookie" /\ r.browser = proc[h].browser
      /\ r.session = proc[h].session /\ r.iat = now /\ r.late = proc[h].late
  BY <1>1 DEF Busy, TypeOK
<1> HIDE DEF r
<1>4. proc' = [proc EXCEPT ![h] = r]
  BY <1>2 DEF r
<1>5. QED
  BY <1>1, <1>3, <1>4 DEF TypeOK

LEMMA AbandonFacts ==
  ASSUME TypeOK, NEW h \in Handlers, Abandon(h)
  PROVE  /\ proc[h] \in Busy /\ proc'[h] \in Busy
         /\ proc' \in [Handlers -> Busy \union {Idle}] /\ \A g \in Handlers \ {h} : proc'[g] = proc[g]
         /\ proc'[h].pc = proc[h].pc /\ proc'[h].browser = None
         /\ proc'[h].session = proc[h].session /\ proc'[h].iat = proc[h].iat /\ proc'[h].late = proc[h].late
<1>1. proc[h] \in Busy
  BY BusyFacts DEF Abandon
<1> DEFINE r == [proc[h] EXCEPT !.browser = None]
<1>2. proc' = [proc EXCEPT ![h] = r]
  BY DEF Abandon
<1>3. /\ r \in Busy /\ r.pc = proc[h].pc /\ r.browser = None
      /\ r.session = proc[h].session /\ r.iat = proc[h].iat /\ r.late = proc[h].late
  BY <1>1 DEF Busy
<1> HIDE DEF r
<1>4. QED
  BY <1>1, <1>2, <1>3 DEF TypeOK

LEMMA EndFacts ==
  ASSUME TypeOK, NEW h \in Handlers, TakesUp(h, Idle)
  PROVE  proc' \in [Handlers -> Busy \union {Idle}] /\ proc'[h] = Idle /\ \A g \in Handlers \ {h} : proc'[g] = proc[g]
BY DEF TypeOK, TakesUp

LEMMA InitType == Init => TypeOK
BY LivesAssumption DEF Init, TypeOK, Times, NoCookies, Idle

LEMMA TypeStep ==
  ASSUME TypeOK, [Next]_vars
  PROVE  TypeOK'
<1>1. ASSUME Tick PROVE TypeOK'
  BY <1>1, TickFacts DEF Tick, TypeOK, JarType
<1>2. ASSUME NEW h \in Handlers, NEW b \in Browsers, NEW u \in Users, Login(h, b, u) PROVE TypeOK'
  <2>1. proc' \in [Handlers -> Busy \union {Idle}] /\ Session(u, now) \in Sessions
    BY <1>2, LoginFacts, StartFacts
  <2>2. logins' \in 0 .. MaxLogins
    BY <1>2, LivesAssumption DEF Login, TypeOK
  <2>3. twins' \subseteq Sessions /\ UNCHANGED <<now, stored, jar, ended>>
    BY <1>2, <2>1 DEF Login, TypeOK
  <2>4. QED
    BY <2>1, <2>2, <2>3 DEF TypeOK
<1>3. ASSUME NEW h \in Handlers, NEW b \in Browsers, Logout(h, b) \/ Refresh(h, b) PROVE TypeOK'
  <2>1. proc' \in [Handlers -> Busy \union {Idle}]
    BY <1>3, LogoutFacts, RefreshFacts, StartFacts
  <2>2. UNCHANGED <<now, stored, jar, logins, twins, ended>>
    BY <1>3 DEF Logout, Refresh
  <2>3. QED
    BY <2>1, <2>2 DEF TypeOK
<1>4. ASSUME NEW h \in Handlers, StoreRefreshToken(h) \/ ForgetRefreshToken(h) PROVE TypeOK'
  <2>1. "setAuthCookies" \in Answers /\ "clearAuthCookies" \in Answers
    BY DEF Answers
  <2>2. /\ stored' \in [Users -> Times \union {None}] /\ ended' \subseteq [session : Sessions, at : Times]
        /\ proc' \in [Handlers -> Busy \union {Idle}]
    BY <1>4, <2>1, StoreStepFacts, StoreFacts
  <2>3. UNCHANGED <<now, jar, logins, twins>>
    BY <1>4 DEF StoreRefreshToken, ForgetRefreshToken
  <2>4. QED
    BY <2>2, <2>3 DEF TypeOK
<1>5. ASSUME NEW h \in Handlers, SignAccessToken(h) \/ Abandon(h) \/ Fail(h) PROVE TypeOK'
  <2>1. proc' \in [Handlers -> Busy \union {Idle}]
    BY <1>5, SignFacts, AbandonFacts, EndFacts DEF Fail, TakesUp
  <2>2. UNCHANGED <<now, stored, jar, logins, twins, ended>>
    BY <1>5 DEF SignAccessToken, Abandon, Fail
  <2>3. QED
    BY <2>1, <2>2 DEF TypeOK
<1>6. ASSUME NEW h \in Handlers, Answer(h) PROVE TypeOK'
  <2>1. proc' \in [Handlers -> Busy \union {Idle}] /\ jar' \in JarType
    BY <1>6, AnswerFacts, EndFacts
  <2>2. UNCHANGED <<now, stored, logins, twins, ended>>
    BY <1>6 DEF Answer
  <2>3. QED
    BY <2>1, <2>2 DEF TypeOK, JarType
<1>7. CASE UNCHANGED vars
  BY <1>7 DEF vars, TypeOK
<1>8. QED
  BY <1>1, <1>2, <1>3, <1>4, <1>5, <1>6, <1>7 DEF Next

(***************************************************************************)
(* Browsers.                                                               *)
(***************************************************************************)
LEMMA InitBrowsers == Init => BrowsersInv
<1> SUFFICES ASSUME Init PROVE BrowsersInv
  OBVIOUS
<1>1. TypeOK
  BY InitType
<1>2. \A h \in Handlers : proc[h].pc = "idle"
  BY DEF Init, Idle
<1>3. \A b \in Browsers : jar[b].access = None
  BY DEF Init, NoCookies
<1>4. QED
  BY <1>1, <1>2, <1>3 DEF BrowsersInv, OneAtATime, Renews, CookiesAgree, At

(* A step that changes no cookie, of a request that keeps its browser or   *)
(* no longer has one that waits.                                           *)
LEMMA QuietBrowsers ==
  ASSUME BrowsersInv, TypeOK', UNCHANGED jar, NEW h \in Handlers,
         \A g \in Handlers \ {h} :
           /\ proc'[g].pc = proc[g].pc
           /\ proc[g].pc # "idle" => proc'[g].browser = proc[g].browser /\ proc'[g].session = proc[g].session,
         \/ proc'[h].pc = "idle"
         \/ proc'[h].browser = None
         \/ proc[h].pc # "idle" /\ proc'[h].browser = proc[h].browser,
         Renews(h)'
  PROVE  BrowsersInv'
<1>1. None \notin Browsers
  BY TimeFacts DEF BrowsersInv
<1>2. OneAtATime'
  BY <1>1 DEF BrowsersInv, OneAtATime, At
<1>3. ASSUME NEW g \in Handlers \ {h} PROVE Renews(g)'
  BY DEF BrowsersInv, Renews
<1>4. CookiesAgree'
  BY DEF BrowsersInv, CookiesAgree
<1>5. QED
  BY <1>2, <1>3, <1>4 DEF BrowsersInv

LEMMA StartBrowsers ==
  ASSUME BrowsersInv, TypeOK', UNCHANGED jar, NEW h \in Handlers, NEW b \in Browsers, NEW pc \in Sends,
         NEW s \in Sessions, Starts(h, b, pc, s), pc = "sign" => s = jar[b].refresh
  PROVE  BrowsersInv'
<1>1. /\ proc'[h].pc = pc /\ proc'[h].browser = b /\ proc'[h].session = s
      /\ \A g \in Handlers \ {h} : proc'[g] = proc[g]
      /\ b \notin Tabs => \A g \in Handlers : At(g, "idle") \/ proc[g].browser # b
  BY StartFacts, MoveFacts, ServedType DEF BrowsersInv
<1>2. OneAtATime'
  BY <1>1 DEF BrowsersInv, OneAtATime, At
<1>3. ASSUME NEW g \in Handlers PROVE Renews(g)'
  BY <1>1 DEF BrowsersInv, Renews, Sends
<1>4. CookiesAgree'
  BY DEF BrowsersInv, CookiesAgree
<1>5. QED
  BY <1>2, <1>3, <1>4 DEF BrowsersInv

LEMMA AnswerBrowsers ==
  ASSUME BrowsersInv, TypeOK', NEW h \in Handlers, Answer(h)
  PROVE  BrowsersInv'
<1>1. proc[h].pc \in Answers /\ proc[h].pc # "idle" /\ TakesUp(h, Idle)
  BY AnswerFacts DEF BrowsersInv, Answers
<1>2. proc'[h].pc = "idle" /\ \A g \in Handlers \ {h} : proc'[g] = proc[g]
  BY <1>1, EndFacts DEF BrowsersInv, Idle
<1>3. \A b \in Browsers :
        /\ b # proc[h].browser => jar'[b] = jar[b]
        /\ b = proc[h].browser =>
             /\ proc[h].pc = "setAuthCookies" =>
                  /\ jar'[b].access = Access(proc[h].session, proc[h].iat, proc[h].late)
                  /\ jar'[b].refresh = proc[h].session
             /\ proc[h].pc = "setAccessTokenCookie" =>
                  /\ jar'[b].access = Access(proc[h].session, proc[h].iat, proc[h].late)
                  /\ jar'[b].refresh = jar[b].refresh
             /\ proc[h].pc = "clearAuthCookies" => jar'[b].access = None /\ jar'[b].refresh = None
  BY AnswerFacts DEF BrowsersInv
<1>4. OneAtATime'
  BY <1>2 DEF BrowsersInv, OneAtATime, At
<1>5. ASSUME NEW g \in Handlers PROVE Renews(g)'
  <2>1. CASE g = h
    BY <1>2, <2>1 DEF Renews
  <2>2. CASE g # h /\ proc[g].pc \in {"sign", "setAccessTokenCookie"} /\ proc[g].browser \in Browsers \ Tabs
    <3>1. proc[g].browser # proc[h].browser
      BY <1>1, <2>2 DEF BrowsersInv, OneAtATime, At
    <3>2. jar'[proc[g].browser] = jar[proc[g].browser]
      BY <1>3, <2>2, <3>1
    <3>3. QED
      BY <1>2, <2>2, <3>2 DEF BrowsersInv, Renews
  <2>3. CASE g # h /\ ~(proc[g].pc \in {"sign", "setAccessTokenCookie"} /\ proc[g].browser \in Browsers \ Tabs)
    BY <1>2, <2>3 DEF Renews
  <2>4. QED
    BY <2>1, <2>2, <2>3
<1>6. ASSUME NEW b \in Browsers \ Tabs, jar'[b].access # None, jar'[b].refresh # None
      PROVE  jar'[b].access.session = jar'[b].refresh
  <2>1. CASE b # proc[h].browser
    BY <1>3, <1>6, <2>1 DEF BrowsersInv, CookiesAgree
  <2>2. CASE b = proc[h].browser
    <3>1. CASE proc[h].pc = "setAuthCookies"
      BY <1>3, <2>2, <3>1 DEF Access
    <3>2. CASE proc[h].pc = "setAccessTokenCookie"
      BY <1>3, <1>6, <2>2, <3>2 DEF Access, BrowsersInv, Renews
    <3>3. CASE proc[h].pc = "clearAuthCookies"
      BY <1>3, <1>6, <2>2, <3>3
    <3>4. QED
      BY <1>1, <3>1, <3>2, <3>3 DEF Answers
  <2>3. QED
    BY <2>1, <2>2
<1>7. CookiesAgree'
  BY <1>6 DEF CookiesAgree
<1>8. QED
  BY <1>4, <1>5, <1>7 DEF BrowsersInv

LEMMA BrowsersStep ==
  ASSUME BrowsersInv, [Next]_vars
  PROVE  BrowsersInv'
<1>0. TypeOK /\ TypeOK'
  BY TypeStep DEF BrowsersInv
<1>1. ASSUME Tick PROVE BrowsersInv'
  <2>1. UNCHANGED proc
    BY <1>1 DEF Tick
  <2>2. \A b \in Browsers : jar'[b].access \in {jar[b].access, None} /\ jar'[b].refresh \in {jar[b].refresh, None}
    BY <1>0, <1>1, TickFacts
  <2>3. OneAtATime'
    BY <2>1 DEF BrowsersInv, OneAtATime, At
  <2>4. \A h \in Handlers : Renews(h)'
    BY <2>1, <2>2 DEF BrowsersInv, Renews
  <2>5. CookiesAgree'
    BY <2>2 DEF BrowsersInv, CookiesAgree
  <2>6. QED
    BY <1>0, <2>3, <2>4, <2>5 DEF BrowsersInv
<1>2. ASSUME NEW h \in Handlers, NEW b \in Browsers, NEW u \in Users, Login(h, b, u) PROVE BrowsersInv'
  <2>1. UNCHANGED jar /\ "store" # "sign"
    BY <1>2 DEF Login
  <2>2. QED
    BY <1>0, <1>2, <2>1, LoginFacts, StartBrowsers
<1>3. ASSUME NEW h \in Handlers, NEW b \in Browsers, Logout(h, b) PROVE BrowsersInv'
  <2>1. UNCHANGED jar /\ "forget" # "sign"
    BY <1>3 DEF Logout
  <2>2. QED
    BY <1>0, <1>3, <2>1, LogoutFacts, StartBrowsers
<1>4. ASSUME NEW h \in Handlers, NEW b \in Browsers, Refresh(h, b) PROVE BrowsersInv'
  <2>1. UNCHANGED jar
    BY <1>4 DEF Refresh
  <2>2. QED
    BY <1>0, <1>4, <2>1, RefreshFacts, StartBrowsers
<1>5. ASSUME NEW h \in Handlers, StoreRefreshToken(h) \/ ForgetRefreshToken(h) PROVE BrowsersInv'
  <2>1. UNCHANGED jar /\ ~At(h, "idle")
    BY <1>0, <1>5, StoreStepFacts DEF StoreRefreshToken, ForgetRefreshToken
  <2>2. PICK t \in Times \union {None}, pc \in {"setAuthCookies", "clearAuthCookies"} :
          proc[h].session.user \in Users /\ Store(h, proc[h].session.user, t, pc)
    BY <1>0, <1>5, StoreStepFacts
  <2>3. /\ proc'[h].pc = pc /\ proc'[h].browser = proc[h].browser
        /\ \A g \in Handlers \ {h} :
             /\ proc'[g].pc = proc[g].pc
             /\ proc[g] # Idle => proc'[g].browser = proc[g].browser /\ proc'[g].session = proc[g].session
    <3>1. pc \in Answers
      BY DEF Answers
    <3>2. QED
      BY <1>0, <2>1, <2>2, <3>1, StoreFacts
  <2>4. \A g \in Handlers : proc[g].pc # "idle" => proc[g] # Idle
    BY DEF Idle
  <2>5. Renews(h)'
    BY <2>2, <2>3 DEF Renews
  <2>6. QED
    BY <1>0, <2>1, <2>3, <2>4, <2>5, QuietBrowsers DEF At
<1>6. ASSUME NEW h \in Handlers, SignAccessToken(h) PROVE BrowsersInv'
  <2>1. UNCHANGED jar
    BY <1>6 DEF SignAccessToken
  <2>2. /\ proc[h].pc = "sign" /\ \A g \in Handlers \ {h} : proc'[g] = proc[g]
        /\ proc'[h].browser = proc[h].browser /\ proc'[h].session = proc[h].session
    BY <1>0, <1>6, SignFacts
  <2>3. Renews(h)'
    BY <2>1, <2>2 DEF BrowsersInv, Renews
  <2>4. QED
    BY <1>0, <2>1, <2>2, <2>3, QuietBrowsers
<1>7. ASSUME NEW h \in Handlers, Abandon(h) PROVE BrowsersInv'
  <2>1. UNCHANGED jar
    BY <1>7 DEF Abandon
  <2>2. proc'[h].browser = None /\ \A g \in Handlers \ {h} : proc'[g] = proc[g]
    BY <1>0, <1>7, AbandonFacts
  <2>3. Renews(h)'
    BY <1>0, <2>2, TimeFacts DEF Renews
  <2>4. QED
    BY <1>0, <2>1, <2>2, <2>3, QuietBrowsers
<1>8. ASSUME NEW h \in Handlers, Fail(h) PROVE BrowsersInv'
  <2>1. UNCHANGED jar /\ TakesUp(h, Idle)
    BY <1>8 DEF Fail, TakesUp
  <2>2. proc'[h].pc = "idle" /\ \A g \in Handlers \ {h} : proc'[g] = proc[g]
    BY <1>0, <2>1, EndFacts DEF Idle
  <2>3. Renews(h)'
    BY <2>2 DEF Renews
  <2>4. QED
    BY <1>0, <2>1, <2>2, <2>3, QuietBrowsers
<1>9. ASSUME NEW h \in Handlers, Answer(h) PROVE BrowsersInv'
  BY <1>0, <1>9, AnswerBrowsers
<1>10. CASE UNCHANGED vars
  BY <1>0, <1>10 DEF vars, BrowsersInv, OneAtATime, Renews, CookiesAgree, At
<1>11. QED
  BY <1>1, <1>2, <1>3, <1>4, <1>5, <1>6, <1>7, <1>8, <1>9, <1>10 DEF Next

(***************************************************************************)
(* Sessions.                                                               *)
(***************************************************************************)
LEMMA InitSessions == Init => SessionsInv
<1> SUFFICES ASSUME Init PROVE SessionsInv
  OBVIOUS
<1>1. TypeOK
  BY InitType
<1>2. \A h \in Handlers : proc[h].pc = "idle"
  BY DEF Init, Idle
<1>3. /\ \A b \in Browsers : jar[b].access = None
      /\ \A u \in Users : stored[u] = None
  BY DEF Init, NoCookies
<1>4. QED
  BY <1>1, <1>2, <1>3 DEF SessionsInv, Unborn, Current, Live, At

(* A token stays in time when the clock goes on, when more sessions are    *)
(* twins, and when other sessions end.                                     *)
LEMMA InTimeKept ==
  ASSUME TypeOK, TypeOK', NEW a, a.iat \in Int, InTime(a, now, twins, ended), now' >= now, twins \subseteq twins',
         \A e \in ended' : e \in ended \/ e.at = now
  PROVE  InTime(a, now', twins', ended')
<1>1. \A e \in ended' : e.at \in Int
  BY LivesAssumption DEF TypeOK, Times
<1>2. now \in Int /\ now' \in Int
  BY LivesAssumption DEF TypeOK, Times
<1>3. QED
  BY <1>1, <1>2 DEF InTime

LEMMA IatFacts ==
  ASSUME TypeOK
  PROVE  /\ \A h \in Handlers : ~At(h, "idle") => proc[h].iat \in Int
         /\ \A b \in Browsers : jar[b].access # None => jar[b].access.iat \in Int
<1>1. Times \subseteq Int
  BY LivesAssumption DEF Times
<1>2. \A h \in Handlers : ~At(h, "idle") => proc[h].iat \in Times
  BY BusyFacts DEF Busy
<1>3. \A b \in Browsers : jar[b].access # None => jar[b].access \in AccessTokens
  BY DEF TypeOK
<1>4. QED
  BY <1>1, <1>2, <1>3 DEF AccessTokens

(* A step that stores and ends no session, of a request that does not now  *)
(* open one.                                                               *)
LEMMA QuietSessions ==
  ASSUME SessionsInv, TypeOK', UNCHANGED <<now, stored, twins, ended>>, NEW h \in Handlers,
         \A g \in Handlers \ {h} : proc'[g] = proc[g],
         proc'[h].pc = "store" =>
           proc[h].pc = "store" /\ proc'[h].session = proc[h].session /\ proc'[h].iat = proc[h].iat,
         Current(h)',
         proc'[h].pc \in {"setAuthCookies", "setAccessTokenCookie"} => InTime(proc'[h], now, twins, ended),
         \A b \in Browsers : jar'[b].access # None => InTime(jar'[b].access, now, twins, ended)
  PROVE  SessionsInv'
<1>1. \A g \in Handlers : At(g, "store")' => At(g, "store") /\ proc'[g].session = proc[g].session /\ proc'[g].iat = proc[g].iat
  BY DEF At
<1>2. ASSUME NEW g \in Handlers PROVE Unborn(g)'
  BY <1>1 DEF SessionsInv, Unborn
<1>3. ASSUME NEW g \in Handlers PROVE Current(g)'
  <2>1. CASE g = h
    BY <2>1
  <2>2. CASE g # h
    BY <2>2 DEF SessionsInv, Current, At
  <2>3. QED
    BY <2>1, <2>2
<1>4. ASSUME NEW u \in Users PROVE Live(u)'
  BY DEF SessionsInv, Live
<1>5. ASSUME NEW g \in Handlers, proc'[g].pc \in {"setAuthCookies", "setAccessTokenCookie"}
      PROVE  InTime(proc'[g], now', twins', ended')
  BY <1>5 DEF SessionsInv
<1>6. QED
  BY <1>2, <1>3, <1>4, <1>5 DEF SessionsInv

LEMMA LoginSessions ==
  ASSUME SessionsInv, TypeOK', NEW h \in Handlers, NEW b \in Browsers, NEW u \in Users, Login(h, b, u)
  PROVE  SessionsInv'
<1>0. PICK s : s = Session(u, now)
  OBVIOUS
<1>1. /\ UNCHANGED <<now, stored, jar, ended>> /\ twins \subseteq twins'
      /\ s \in Opened => s \in twins'
  BY <1>0 DEF Login
<1>2. /\ proc[h] = Idle /\ s \in Sessions
      /\ proc'[h].pc = "store" /\ proc'[h].session = s /\ proc'[h].iat = s.since
      /\ \A g \in Handlers \ {h} : proc'[g] = proc[g]
  BY <1>0, LoginFacts, StartFacts, MoveFacts, ServedType DEF SessionsInv
<1>3. s.user = u /\ s.since = now
  BY <1>0 DEF Session
<1>4. s \notin twins' => /\ ~Over(s, ended) /\ stored[u] # now
                         /\ \A g \in Handlers : At(g, "store") => proc[g].session # s
  <2>1. now # None
    BY TimeFacts DEF SessionsInv, TypeOK
  <2>2. QED
    BY <1>0, <1>1, <2>1 DEF Opened, Over
<1>5. Unborn(h)'
  <2>1. proc'[h].iat <= now'
    BY <1>1, <1>2, <1>3, TimeFacts DEF SessionsInv
  <2>2. s \notin twins' => /\ ~Over(s, ended') /\ stored'[s.user] # s.since
                           /\ \A g \in Handlers \ {h} : At(g, "store")' => proc'[g].session # s
    BY <1>1, <1>2, <1>3, <1>4 DEF At
  <2>3. QED
    BY <1>2, <2>1, <2>2 DEF Unborn
<1>6. ASSUME NEW g \in Handlers \ {h} PROVE Unborn(g)'
  <2>1. SUFFICES ASSUME At(g, "store") PROVE Unborn(g)'
    BY <1>2 DEF Unborn, At
  <2>2. proc[g].session \notin twins' => proc[g].session # s
    BY <1>4, <2>1
  <2>3. \A k \in Handlers \ {g} : At(k, "store")' => k = h \/ (At(k, "store") /\ proc'[k].session = proc[k].session)
    BY <1>2 DEF At
  <2>4. QED
    BY <1>1, <1>2, <2>1, <2>2, <2>3 DEF SessionsInv, Unborn
<1>7. ASSUME NEW g \in Handlers PROVE Current(g)'
  BY <1>1, <1>2 DEF SessionsInv, Current, At
<1>8. ASSUME NEW v \in Users PROVE Live(v)'
  BY <1>1 DEF SessionsInv, Live
<1>9. ASSUME NEW g \in Handlers, proc'[g].pc \in {"setAuthCookies", "setAccessTokenCookie"}
      PROVE  InTime(proc'[g], now', twins', ended')
  <2>1. proc'[g] = proc[g] /\ ~At(g, "idle") /\ InTime(proc[g], now, twins, ended)
    BY <1>2, <1>9 DEF SessionsInv, At
  <2>2. QED
    BY <1>1, <2>1, IatFacts, InTimeKept, TimeFacts DEF SessionsInv
<1>10. ASSUME NEW c \in Browsers, jar'[c].access # None PROVE InTime(jar'[c].access, now', twins', ended')
  <2>1. jar[c].access.iat \in Int /\ InTime(jar[c].access, now, twins, ended)
    BY <1>1, <1>10, IatFacts DEF SessionsInv
  <2>2. QED
    BY <1>1, <2>1, InTimeKept, TimeFacts DEF SessionsInv
<1>11. QED
  BY <1>5, <1>6, <1>7, <1>8, <1>9, <1>10 DEF SessionsInv

LEMMA StoreSessions ==
  ASSUME SessionsInv, TypeOK', NEW h \in Handlers, StoreRefreshToken(h) \/ ForgetRefreshToken(h)
  PROVE  SessionsInv'
<1>0. PICK s \in Sessions, u \in Users, t \in Times \union {None}, pc \in Answers :
        /\ s = proc[h].session /\ u = s.user /\ Store(h, u, t, pc)
        /\ \/ At(h, "store") /\ t = s.since /\ pc = "setAuthCookies"
           \/ t = None /\ pc = "clearAuthCookies"
  <2>1. proc[h].session \in Sessions
    BY StoreStepFacts DEF SessionsInv, Busy
  <2>2. "setAuthCookies" \in Answers /\ "clearAuthCookies" \in Answers
    BY DEF Answers
  <2>3. CASE StoreRefreshToken(h)
    BY <2>1, <2>2, <2>3, StoreStepFacts DEF SessionsInv, StoreRefreshToken
  <2>4. CASE ForgetRefreshToken(h)
    BY <2>1, <2>2, <2>4, StoreStepFacts DEF SessionsInv
  <2>5. QED
    BY <2>3, <2>4
<1>1. UNCHANGED <<now, jar, twins>>
  BY DEF StoreRefreshToken, ForgetRefreshToken
<1>2. ~At(h, "idle")
  BY StoreStepFacts DEF SessionsInv
<1>3. /\ stored'[u] = t /\ \A v \in Users \ {u} : stored'[v] = stored[v]
      /\ \A e \in ended' : \/ e \in ended
                           \/ e.at = now /\ stored[u] \notin {None, t} /\ e.session = Session(u, stored[u])
      /\ proc'[h].pc = pc /\ proc'[h].session = s /\ proc'[h].iat = proc[h].iat
      /\ \A g \in Handlers \ {h} :
           /\ proc'[g].pc = proc[g].pc
           /\ proc[g] # Idle =>
                /\ proc'[g].session = proc[g].session /\ proc'[g].iat = proc[g].iat
                /\ proc'[g].late = (proc[g].late \/ (IsOf(g, u) /\ stored[u] # t))
  BY <1>0, <1>2, StoreFacts DEF SessionsInv
<1>4. /\ None \notin Times
      /\ \A g \in Handlers : proc[g].pc # "idle" => proc[g] # Idle /\ proc[g].session \in Sessions
  BY BusyFacts, TimeFacts DEF SessionsInv, Busy, At, Idle
(* The session that ends is not one that a login has yet to store.         *)
<1>5. ASSUME NEW x \in Sessions, ~Over(x, ended), stored[x.user] # x.since PROVE ~Over(x, ended')
  <2>1. SUFFICES ASSUME NEW e \in ended', e.session = x PROVE FALSE
    BY DEF Over
  <2>2. x = Session(u, stored[u])
    BY <1>3, <1>5, <2>1 DEF Over
  <2>3. x.user = u /\ x.since = stored[u]
    BY <2>2 DEF Session
  <2>4. QED
    BY <1>5, <2>3
<1>6. ASSUME NEW g \in Handlers PROVE Unborn(g)'
  <2>1. SUFFICES ASSUME g # h, At(g, "store") PROVE Unborn(g)'
    BY <1>0, <1>3 DEF Unborn, At
  <2>2. /\ proc[g] # Idle /\ proc[g].session \in Sessions
        /\ proc'[g].session = proc[g].session /\ proc'[g].iat = proc[g].iat
    BY <1>3, <1>4, <2>1 DEF At
  <2>3. proc'[g].iat <= now'
    BY <1>1, <2>1, <2>2 DEF SessionsInv, Unborn
  <2>4. CASE proc[g].session \notin twins
    <3>1. /\ ~Over(proc[g].session, ended) /\ stored[proc[g].session.user] # proc[g].session.since
          /\ \A k \in Handlers \ {g} : At(k, "store") => proc[k].session # proc[g].session
      BY <2>1, <2>4 DEF SessionsInv, Unborn
    <3>2. ~Over(proc[g].session, ended')
      BY <1>5, <2>2, <3>1
    <3>3. stored'[proc[g].session.user] # proc[g].session.since
      <4>1. proc[g].session.user \in Users /\ proc[g].session.since \in Times
        BY <2>2, SessionFacts
      <4>2. CASE proc[g].session.user # u
        BY <1>3, <3>1, <4>1, <4>2
      <4>3. CASE proc[g].session.user = u
        <5>1. CASE t = None
          BY <1>3, <1>4, <4>1, <4>3, <5>1
        <5>2. CASE At(h, "store") /\ t = s.since
          <6>1. proc[g].session # s
            BY <1>0, <2>1, <3>1, <5>2
          <6>2. proc[g].session.since # s.since
            BY <1>0, <2>2, <4>3, <6>1, SessionFacts
          <6>3. QED
            BY <1>3, <4>3, <5>2, <6>2
        <5>3. QED
          BY <1>0, <5>1, <5>2
      <4>4. QED
        BY <4>2, <4>3
    <3>4. \A k \in Handlers \ {g} : At(k, "store")' => At(k, "store") /\ proc'[k].session = proc[k].session
      BY <1>0, <1>3, <1>4 DEF At
    <3>5. QED
      BY <1>1, <2>2, <2>3, <3>1, <3>2, <3>3, <3>4 DEF Unborn
  <2>5. CASE proc[g].session \in twins
    BY <1>1, <2>2, <2>3, <2>5 DEF Unborn
  <2>6. QED
    BY <2>4, <2>5
<1>7. ASSUME NEW g \in Handlers PROVE Current(g)'
  <2>1. SUFFICES ASSUME g # h, At(g, "sign"), ~proc'[g].late PROVE Current(g)'
    BY <1>0, <1>3 DEF Current, At
  <2>2. /\ proc[g] # Idle /\ proc[g].session \in Sessions /\ proc'[g].session = proc[g].session
        /\ ~proc[g].late /\ ~(IsOf(g, u) /\ stored[u] # t)
    BY <1>3, <1>4, <2>1 DEF At
  <2>3. stored[proc[g].session.user] = proc[g].session.since
    BY <2>1, <2>2 DEF SessionsInv, Current
  <2>4. stored'[proc[g].session.user] = stored[proc[g].session.user]
    BY <1>3, <2>1, <2>2, SessionFacts DEF IsOf, At
  <2>5. QED
    BY <2>2, <2>3, <2>4 DEF Current
<1>8. ASSUME At(h, "store"), s \notin twins PROVE ~Over(s, ended')
  BY <1>0, <1>5, <1>8 DEF SessionsInv, Unborn
<1>9. ASSUME NEW v \in Users PROVE Live(v)'
  <2>1. CASE v = u
    <3>1. CASE t = None
      BY <1>3, <2>1, <3>1 DEF Live
    <3>2. CASE At(h, "store") /\ t = s.since
      <4>1. Session(v, stored'[v]) = s
        BY <1>0, <1>3, <2>1, <3>2, SessionFacts
      <4>2. QED
        BY <1>1, <1>8, <3>2, <4>1 DEF Live
    <3>3. QED
      BY <1>0, <3>1, <3>2
  <2>2. CASE v # u
    <3>1. PICK x : x = Session(v, stored[v])
      OBVIOUS
    <3>2. x.user = v /\ stored'[v] = stored[v]
      BY <1>3, <2>2, <3>1 DEF Session
    <3>3. ~Over(x, ended) => ~Over(x, ended')
      <4>1. \A e \in ended' : e.session = x => e \in ended
        BY <1>3, <2>2, <3>2 DEF Session
      <4>2. QED
        BY <4>1 DEF Over
    <3>4. stored[v] # None /\ x \notin twins => ~Over(x, ended)
      BY <3>1 DEF SessionsInv, Live
    <3>5. stored'[v] # None /\ x \notin twins' => ~Over(x, ended')
      BY <1>1, <3>2, <3>3, <3>4
    <3>6. QED
      BY <3>1, <3>2, <3>5 DEF Live
  <2>3. QED
    BY <2>1, <2>2
<1>10. \A e \in ended' : e \in ended \/ e.at = now
  BY <1>3
<1>11. now' >= now /\ twins \subseteq twins'
  BY <1>1, TimeFacts DEF SessionsInv
<1>12. ASSUME NEW g \in Handlers, proc'[g].pc \in {"setAuthCookies", "setAccessTokenCookie"}
       PROVE  InTime(proc'[g], now', twins', ended')
  <2>1. CASE g = h
    <3>1. At(h, "store") /\ proc[h].iat <= now
      BY <1>0, <1>3, <1>12, <2>1 DEF SessionsInv, Unborn
    <3>2. s \notin twins => ~Over(s, ended')
      BY <1>8, <3>1
    <3>3. QED
      BY <1>1, <1>3, <2>1, <3>1, <3>2 DEF InTime, Over
  <2>2. CASE g # h
    <3>1. proc[g].pc = proc'[g].pc /\ ~At(g, "idle") /\ proc[g] # Idle
      BY <1>3, <1>4, <1>12, <2>2 DEF At
    <3>2. InTime(proc[g], now, twins, ended) /\ proc[g].iat \in Int
      BY <1>12, <3>1, IatFacts DEF SessionsInv
    <3>3. InTime(proc[g], now', twins', ended')
      BY <1>10, <1>11, <3>2, InTimeKept DEF SessionsInv
    <3>4. /\ proc'[g].session = proc[g].session /\ proc'[g].iat = proc[g].iat
          /\ proc[g].late => proc'[g].late
      BY <1>3, <2>2, <3>1
    <3>5. QED
      BY <3>3, <3>4 DEF InTime
  <2>3. QED
    BY <2>1, <2>2
<1>13. ASSUME NEW c \in Browsers, jar'[c].access # None PROVE InTime(jar'[c].access, now', twins', ended')
  <2>1. jar'[c] = jar[c] /\ jar[c].access.iat \in Int /\ InTime(jar[c].access, now, twins, ended)
    BY <1>1, <1>13, IatFacts DEF SessionsInv
  <2>2. QED
    BY <1>10, <1>11, <2>1, InTimeKept DEF SessionsInv
<1>14. QED
  BY <1>6, <1>7, <1>9, <1>12, <1>13 DEF SessionsInv

LEMMA SessionsStep ==
  ASSUME SessionsInv, [Next]_vars
  PROVE  SessionsInv'
<1>0. TypeOK /\ TypeOK'
  BY TypeStep DEF SessionsInv
<1>1. ASSUME Tick PROVE SessionsInv'
  <2>1. /\ UNCHANGED <<stored, proc, twins, ended>> /\ now' >= now
        /\ \A b \in Browsers : jar'[b].access \in {jar[b].access, None}
    BY <1>0, <1>1, TickFacts, TimeFacts DEF Tick
  <2>2. \A h \in Handlers : Unborn(h)' /\ Current(h)'
    <3>1. now \in Int /\ now' \in Int
      BY <1>0, <1>1, TickFacts, TimeFacts
    <3>2. \A h \in Handlers : At(h, "store") => proc[h].iat \in Int /\ proc[h].iat <= now
      BY <1>0, IatFacts DEF SessionsInv, Unborn, At
    <3>3. \A h \in Handlers : At(h, "store") => proc[h].iat <= now'
      BY <2>1, <3>1, <3>2
    <3>4. QED
      BY <2>1, <3>3 DEF SessionsInv, Unborn, Current, At
  <2>3. \A u \in Users : Live(u)'
    BY <2>1 DEF SessionsInv, Live
  <2>4. ASSUME NEW h \in Handlers, proc'[h].pc \in {"setAuthCookies", "setAccessTokenCookie"}
        PROVE  InTime(proc'[h], now', twins', ended')
    <3>1. proc'[h] = proc[h] /\ proc[h].iat \in Int /\ InTime(proc[h], now, twins, ended)
      BY <1>0, <2>1, <2>4, IatFacts DEF SessionsInv, At
    <3>2. QED
      BY <1>0, <2>1, <3>1, InTimeKept
  <2>5. ASSUME NEW b \in Browsers, jar'[b].access # None PROVE InTime(jar'[b].access, now', twins', ended')
    <3>1. jar'[b].access = jar[b].access /\ jar[b].access.iat \in Int /\ InTime(jar[b].access, now, twins, ended)
      BY <1>0, <2>1, <2>5, IatFacts DEF SessionsInv
    <3>2. QED
      BY <1>0, <2>1, <3>1, InTimeKept
  <2>6. QED
    BY <1>0, <2>2, <2>3, <2>4, <2>5 DEF SessionsInv
<1>2. ASSUME NEW h \in Handlers, NEW b \in Browsers, NEW u \in Users, Login(h, b, u) PROVE SessionsInv'
  BY <1>0, <1>2, LoginSessions
<1>3. ASSUME NEW h \in Handlers, NEW b \in Browsers, Logout(h, b) PROVE SessionsInv'
  <2>1. UNCHANGED <<now, stored, jar, twins, ended>>
    BY <1>3 DEF Logout
  <2>2. proc'[h].pc = "forget" /\ \A g \in Handlers \ {h} : proc'[g] = proc[g]
    BY <1>0, <1>3, LogoutFacts, StartFacts, MoveFacts, ServedType
  <2>3. Current(h)'
    BY <2>2 DEF Current, At
  <2>4. \A c \in Browsers : jar'[c].access # None => InTime(jar'[c].access, now, twins, ended)
    BY <2>1 DEF SessionsInv
  <2>5. QED
    BY <1>0, <2>1, <2>2, <2>3, <2>4, QuietSessions
<1>4. ASSUME NEW h \in Handlers, NEW b \in Browsers, Refresh(h, b) PROVE SessionsInv'
  <2>1. /\ UNCHANGED <<now, stored, jar, twins, ended>>
        /\ stored[jar[b].refresh.user] = jar[b].refresh.since
    BY <1>4 DEF Refresh
  <2>2. /\ proc'[h].pc = "sign" /\ proc'[h].session = jar[b].refresh
        /\ \A g \in Handlers \ {h} : proc'[g] = proc[g]
    BY <1>0, <1>4, RefreshFacts, StartFacts, MoveFacts, ServedType
  <2>3. Current(h)'
    BY <2>1, <2>2 DEF Current
  <2>4. \A c \in Browsers : jar'[c].access # None => InTime(jar'[c].access, now, twins, ended)
    BY <2>1 DEF SessionsInv
  <2>5. QED
    BY <1>0, <2>1, <2>2, <2>3, <2>4, QuietSessions
<1>5. ASSUME NEW h \in Handlers, StoreRefreshToken(h) \/ ForgetRefreshToken(h) PROVE SessionsInv'
  BY <1>0, <1>5, StoreSessions
<1>6. ASSUME NEW h \in Handlers, SignAccessToken(h) PROVE SessionsInv'
  <2>1. UNCHANGED <<now, stored, jar, twins, ended>>
    BY <1>6 DEF SignAccessToken
  <2>2. /\ proc[h] \in Busy /\ At(h, "sign") /\ \A g \in Handlers \ {h} : proc'[g] = proc[g]
        /\ proc'[h].pc = "setAccessTokenCookie" /\ proc'[h].session = proc[h].session
        /\ proc'[h].iat = now /\ proc'[h].late = proc[h].late
    BY <1>0, <1>6, SignFacts DEF At
  <2>3. PICK s \in Sessions : s = proc[h].session
    BY <2>2 DEF Busy
  <2>4. s \notin twins /\ ~proc[h].late => ~Over(s, ended)
    <3>1. SUFFICES ASSUME s \notin twins, ~proc[h].late PROVE ~Over(s, ended)
      OBVIOUS
    <3>2. stored[s.user] = s.since /\ s.user \in Users /\ s = Session(s.user, s.since) /\ s.since # None
      BY <1>0, <2>2, <2>3, <3>1, SessionFacts, TimeFacts DEF SessionsInv, Current
    <3>3. QED
      BY <3>1, <3>2 DEF SessionsInv, Live
  <2>5. InTime(proc'[h], now, twins, ended)
    <3>1. proc'[h].iat <= now
      BY <1>0, <2>2, TimeFacts
    <3>2. QED
      BY <2>2, <2>3, <2>4, <3>1 DEF InTime, Over
  <2>6. Current(h)'
    BY <2>2 DEF Current, At
  <2>7. \A c \in Browsers : jar'[c].access # None => InTime(jar'[c].access, now, twins, ended)
    BY <2>1 DEF SessionsInv
  <2>8. QED
    BY <1>0, <2>1, <2>2, <2>5, <2>6, <2>7, QuietSessions
<1>7. ASSUME NEW h \in Handlers, Abandon(h) PROVE SessionsInv'
  <2>1. UNCHANGED <<now, stored, jar, twins, ended>>
    BY <1>7 DEF Abandon
  <2>2. /\ \A g \in Handlers \ {h} : proc'[g] = proc[g]
        /\ proc'[h].pc = proc[h].pc /\ proc'[h].session = proc[h].session
        /\ proc'[h].iat = proc[h].iat /\ proc'[h].late = proc[h].late
    BY <1>0, <1>7, AbandonFacts
  <2>3. Current(h)'
    BY <2>1, <2>2 DEF SessionsInv, Current, At
  <2>4. proc'[h].pc \in {"setAuthCookies", "setAccessTokenCookie"} => InTime(proc'[h], now, twins, ended)
    BY <2>2 DEF SessionsInv, InTime
  <2>5. \A c \in Browsers : jar'[c].access # None => InTime(jar'[c].access, now, twins, ended)
    BY <2>1 DEF SessionsInv
  <2>6. QED
    BY <1>0, <2>1, <2>2, <2>3, <2>4, <2>5, QuietSessions
<1>8. ASSUME NEW h \in Handlers, Fail(h) PROVE SessionsInv'
  <2>1. UNCHANGED <<now, stored, jar, twins, ended>> /\ TakesUp(h, Idle)
    BY <1>8 DEF Fail, TakesUp
  <2>2. proc'[h].pc = "idle" /\ \A g \in Handlers \ {h} : proc'[g] = proc[g]
    BY <1>0, <2>1, EndFacts DEF Idle
  <2>3. Current(h)'
    BY <2>2 DEF Current, At
  <2>4. \A c \in Browsers : jar'[c].access # None => InTime(jar'[c].access, now, twins, ended)
    BY <2>1 DEF SessionsInv
  <2>5. QED
    BY <1>0, <2>1, <2>2, <2>3, <2>4, QuietSessions
<1>9. ASSUME NEW h \in Handlers, Answer(h) PROVE SessionsInv'
  <2>1. UNCHANGED <<now, stored, twins, ended>> /\ TakesUp(h, Idle) /\ proc[h].pc \in Answers
    BY <1>0, <1>9, AnswerFacts DEF Answer
  <2>2. proc'[h].pc = "idle" /\ \A g \in Handlers \ {h} : proc'[g] = proc[g]
    BY <1>0, <2>1, EndFacts DEF Idle
  <2>3. Current(h)'
    BY <2>2 DEF Current, At
  <2>4. ASSUME NEW c \in Browsers, jar'[c].access # None PROVE InTime(jar'[c].access, now, twins, ended)
    <3> DEFINE token == Access(proc[h].session, proc[h].iat, proc[h].late)
    <3>1. \/ jar'[c].access = jar[c].access
          \/ /\ jar'[c].access = token
             /\ proc[h].pc \in {"setAuthCookies", "setAccessTokenCookie"}
      <4>1. CASE c # proc[h].browser
        BY <1>0, <1>9, <4>1, AnswerFacts
      <4>2. CASE c = proc[h].browser /\ proc[h].pc \in {"setAuthCookies", "setAccessTokenCookie"}
        BY <1>0, <1>9, <4>2, AnswerFacts
      <4>3. CASE c = proc[h].browser /\ proc[h].pc = "clearAuthCookies"
        BY <1>0, <1>9, <2>4, <4>3, AnswerFacts
      <4>4. QED
        BY <2>1, <4>1, <4>2, <4>3 DEF Answers
    <3>2. CASE jar'[c].access = jar[c].access
      BY <2>4, <3>2 DEF SessionsInv
    <3>3. CASE jar'[c].access = token /\ proc[h].pc \in {"setAuthCookies", "setAccessTokenCookie"}
      <4>1. InTime(proc[h], now, twins, ended)
        BY <3>3 DEF SessionsInv
      <4>2. token.session = proc[h].session /\ token.iat = proc[h].iat /\ token.late = proc[h].late
        BY DEF Access
      <4>3. QED
        BY <3>3, <4>1, <4>2 DEF InTime
    <3>4. QED
      BY <3>1, <3>2, <3>3
  <2>5. QED
    BY <1>0, <2>1, <2>2, <2>3, <2>4, QuietSessions
<1>10. CASE UNCHANGED vars
  BY <1>0, <1>10 DEF vars, SessionsInv, Unborn, Current, Live, At
<1>11. QED
  BY <1>1, <1>2, <1>3, <1>4, <1>5, <1>6, <1>7, <1>8, <1>9, <1>10 DEF Next

(***************************************************************************)
(* The theorems.                                                           *)
(***************************************************************************)

(* The two inductive invariants hold of every state the code can reach.    *)
THEOREM BrowsersInvariance == Spec => []BrowsersInv
BY InitBrowsers, BrowsersStep, PTL DEF Spec

THEOREM SessionsInvariance == Spec => []SessionsInv
BY InitSessions, SessionsStep, PTL DEF Spec

(* Every variable keeps its type, whatever requests login, logout and      *)
(* refresh overlap and whatever answers are lost.                          *)
THEOREM TypeCorrect == Spec => []TypeOK
<1>1. BrowsersInv => TypeOK
  BY DEF BrowsersInv
<1>2. QED
  BY <1>1, BrowsersInvariance, PTL

(* AuthController sets the two cookies by different answers; in a browser  *)
(* that waits for its answers they are of one user and one session.        *)
THEOREM CookiesOfOneSession == Spec => []CookiesAgree
<1>1. BrowsersInv => CookiesAgree
  BY DEF BrowsersInv
<1>2. QED
  BY <1>1, BrowsersInvariance, PTL

(* Once a logout or another login has ended a session, AuthGuard admits    *)
(* its browsers for the life of an access token and no longer, but for the *)
(* refreshes that had read the user's row before.                          *)
THEOREM EndsTakeHold == Spec => []EndTakesHold
<1>1. SessionsInv => EndTakesHold
  <2>1. SUFFICES ASSUME SessionsInv, NEW b \in Browsers, NEW e \in ended,
                        Admitted(b), jar[b].access.session = e.session,
                        e.session \notin twins, ~jar[b].access.late
                 PROVE  now < e.at + AccessLife
    BY DEF EndTakesHold
  <2>2. jar[b].access # None /\ now < jar[b].access.iat + AccessLife
    BY <2>1 DEF Admitted, AccessFresh
  <2>3. jar[b].access.iat <= e.at
    BY <2>1, <2>2 DEF SessionsInv, InTime
  <2>4. jar[b].access.iat \in Int /\ e.at \in Int /\ now \in Int /\ AccessLife \in Int
    BY <2>1, <2>2, IatFacts, TimeFacts, LivesAssumption DEF SessionsInv, TypeOK, Times
  <2>5. QED
    BY <2>2, <2>3, <2>4
<1>2. QED
  BY <1>1, SessionsInvariance, PTL

(* A login that is still under way when its session ends, or that answers  *)
(* late, never opens it again: the row of the user gets a session that was *)
(* over only when two logins of one second share the token.                *)
THEOREM EndsAreForGood == Spec => EndedStaysEnded
<1>1. ASSUME SessionsInv, Next, NEW u \in Users, stored'[u] \notin {stored[u], None},
             Session(u, stored'[u]) \notin twins
      PROVE  \A e \in ended : e.session # Session(u, stored'[u])
  <2>1. PICK h \in Handlers : StoreRefreshToken(h) \/ ForgetRefreshToken(h)
    BY <1>1 DEF Next, Tick, Login, Logout, Refresh, SignAccessToken, Answer, Abandon, Fail
  <2>2. /\ proc[h].session \in Sessions
        /\ StoreRefreshToken(h) => Store(h, proc[h].session.user, proc[h].session.since, "setAuthCookies")
        /\ ForgetRefreshToken(h) => Store(h, proc[h].session.user, None, "clearAuthCookies")
    BY <1>1, <2>1, StoreStepFacts DEF SessionsInv, Busy
  <2>3. StoreRefreshToken(h) /\ u = proc[h].session.user /\ stored'[u] = proc[h].session.since
    BY <1>1, <2>1, <2>2 DEF Store, SessionsInv, TypeOK
  <2>4. Session(u, stored'[u]) = proc[h].session
    BY <2>2, <2>3, SessionFacts
  <2>5. ~Over(proc[h].session, ended)
    BY <1>1, <2>3, <2>4 DEF SessionsInv, Unborn, StoreRefreshToken
  <2>6. QED
    BY <2>4, <2>5 DEF Over
<1>2. SessionsInv /\ [Next]_vars =>
        [\A u \in Users :
           stored'[u] \notin {stored[u], None} /\ Session(u, stored'[u]) \notin twins
             => \A e \in ended : e.session # Session(u, stored'[u])]_vars
  BY <1>1
<1>3. QED
  BY <1>2, SessionsInvariance, PTL DEF Spec, EndedStaysEnded
=============================================================================
