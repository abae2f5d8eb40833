------------------------- MODULE AuthSessionsProofs -------------------------
(***************************************************************************)
(* Theorems about AuthSessions, for any number of tabs, browsers, password *)
(* resets in flight and links.                                             *)
(***************************************************************************)
EXTENDS AuthSessions, TLAPS

-----------------------------------------------------------------------------
LEMMA IdleType == Idle \in Request /\ NoReset.link = 0
BY DEF Idle, Request, Tokens, Kinds, NoReset

LEMMA StaleType == \A token \in Tokens : Stale(token) \in Tokens
BY DEF Stale, Tokens

LEMMA InitChecks == Init => ChecksInv
<1> SUFFICES ASSUME Init  PROVE ChecksInv
  OBVIOUS
<1>1. TypeOK
  <2>1. closed \in BOOLEAN
    BY Zenon DEF Init
  <2>2. reset \in [Resets -> [link: 0 .. mailed, overtaken: BOOLEAN]]
    BY DEF Init, NoReset
  <2>3. tab \in [Tabs -> Request] /\ jar \in [Jars -> Tokens]
    BY IdleType DEF Init, Tokens
  <2> QED  BY <2>1, <2>2, <2>3, SessionConstants DEF Init, TypeOK
<1>2. LinkChecked /\ \A t \in Tabs : PasswordChecked(tab[t]) /\ EndedIsEnded(tab[t])
  BY DEF Init, Idle, PasswordChecked, LinkChecked, EndedIsEnded
<1>3. closed => slot = "none"
  BY DEF Init
<1> QED  BY <1>1, <1>2, <1>3 DEF ChecksInv

-----------------------------------------------------------------------------
\* What a step leaves of the other tabs when the row has changed: their token
\* may be stale, and they may be overtaken.
LEMMA StaleTabsType ==
  ASSUME TypeOK
  PROVE  /\ StaleTabs \in [Tabs -> Request] /\ StaleJars \in [Jars -> Tokens]
         /\ \A t \in Tabs : StaleTabs[t] = [tab[t] EXCEPT !.token = StaleTabs[t].token]
<1>1. \A t \in Tabs : tab[t] \in Request /\ Stale(tab[t].token) \in Tokens
  BY StaleType DEF TypeOK, Request
<1>2. \A t \in Tabs : StaleTabs[t] = [tab[t] EXCEPT !.token = Stale(tab[t].token)]
  BY DEF StaleTabs
<1>3. \A t \in Tabs : StaleTabs[t] \in Request /\ StaleTabs[t].token = Stale(tab[t].token)
  BY <1>1, <1>2 DEF Request
<1>4. StaleTabs \in [Tabs -> Request]
  BY <1>3 DEF StaleTabs
<1>5. StaleJars \in [Jars -> Tokens]
  BY StaleType DEF StaleJars, TypeOK
<1> QED  BY <1>2, <1>3, <1>4, <1>5

-----------------------------------------------------------------------------
\* A step of tab t that leaves the row alone.
LEMMA OwnStep ==
  ASSUME ChecksInv, NEW t \in Tabs, NEW q \in Request,
         PasswordChecked(q), EndedIsEnded(q),
         tab' = [tab EXCEPT ![t] = q], jar' \in [Jars -> Tokens],
         mem' \in [Tabs -> {"none", "valid", "useless"}], spoilt' \subseteq Jars,
         UNCHANGED <<userVars, reset, closed>>
  PROVE  ChecksInv'
<1> USE DEF userVars
<1>1. tab' \in [Tabs -> Request] /\ \A u \in Tabs : tab'[u] = IF u = t THEN q ELSE tab[u]
  BY DEF ChecksInv, TypeOK
<1>2. TypeOK'
  BY <1>1 DEF ChecksInv, TypeOK
<1>3. \A u \in Tabs : PasswordChecked(tab[u])' /\ EndedIsEnded(tab[u])'
  BY <1>1 DEF ChecksInv, PasswordChecked, EndedIsEnded
<1>4. LinkChecked' /\ (closed => slot = "none")'
  BY DEF ChecksInv, LinkChecked
<1> QED  BY <1>2, <1>3, <1>4 DEF ChecksInv

\* The refresh that the interceptor sends for a request.
LEMMA RefreshType ==
  ASSUME TypeOK, NEW t \in Tabs
  PROVE  LET q == [tab[t] EXCEPT !.pc = "verify", !.token = jar[jarOf[t]],
                                 !.kind = IF @ = "login" THEN "relogin" ELSE @]
         IN  /\ q \in Request /\ q.pc = "verify" /\ q.token = jar[jarOf[t]]
             /\ PasswordChecked(q) /\ EndedIsEnded(q)
<1>1. tab[t] \in Request /\ jar[jarOf[t]] \in Tokens
  BY DEF TypeOK
<1> DEFINE kind == IF tab[t].kind = "login" THEN "relogin" ELSE tab[t].kind
           q    == [tab[t] EXCEPT !.pc = "verify", !.token = jar[jarOf[t]], !.kind = kind]
<1>2. kind \in Kinds \cup {"none"} /\ kind # "login"
  BY <1>1 DEF Request, Kinds
<1> HIDE DEF kind
<1>3. /\ q \in Request /\ q.pc = "verify" /\ q.token = jar[jarOf[t]] /\ q.kind = kind
  BY <1>1, <1>2 DEF Request
<1> HIDE DEF q
<1>4. PasswordChecked(q) /\ EndedIsEnded(q)
  BY <1>2, <1>3 DEF PasswordChecked, EndedIsEnded
<1>5. q = [tab[t] EXCEPT !.pc = "verify", !.token = jar[jarOf[t]],
                         !.kind = IF @ = "login" THEN "relogin" ELSE @]
  BY DEF q, kind
<1> QED  BY <1>3, <1>4, <1>5

\* What the interceptor sends again.
LEMMA ResentType ==
  ASSUME NEW q \in Request
  PROVE  /\ Resent(q) \in Request /\ Resent(q).token = "none"
         /\ Resent(q).pc \notin {"clear", "answer", "save", "logout_clear"}
         /\ PasswordChecked(Resent(q)) /\ EndedIsEnded(Resent(q))
<1>1. q.kind \in Kinds \cup {"none"} /\ q.typed \in Nat
  BY DEF Request
<1>2. CASE q.kind \in {"call", "logout"}
  BY <1>1, <1>2 DEF Resent, Idle, Request, Kinds, Tokens, PasswordChecked, EndedIsEnded
<1>3. CASE q.kind = "relogin"
  BY <1>1, <1>3 DEF Resent, Idle, Request, Kinds, Tokens, PasswordChecked, EndedIsEnded
<1>4. CASE q.kind \notin {"call", "logout", "relogin"}
  <2>1. Resent(q) = Idle
    BY <1>4 DEF Resent
  <2> QED  BY <2>1, IdleType DEF Idle, PasswordChecked, EndedIsEnded
<1> QED  BY <1>2, <1>3, <1>4

LEMMA BrowserSteps ==
  ASSUME ChecksInv, NEW t \in Tabs,
         \/ OpenRoute(t) \/ Expire(t) \/ Fail(t)
         \/ \E typed \in 0 .. MaxLinks : Login(t, typed)
         \/ \E kind \in {"call", "logout"} : Call(t, kind)
  PROVE  ChecksInv'
<1> USE DEF histVars
<1>1. tab[t] \in Request /\ jar[jarOf[t]] \in Tokens /\ password \in Nat
  BY DEF ChecksInv, TypeOK
<1>2. /\ jar \in [Jars -> Tokens] /\ mem \in [Tabs -> {"none", "valid", "useless"}]
      /\ spoilt \subseteq Jars /\ jarOf[t] \in Jars /\ tab \in [Tabs -> Request]
  BY DEF ChecksInv, TypeOK
<1>3. CASE OpenRoute(t)
  <2> DEFINE q == [Idle EXCEPT !.pc = "verify", !.kind = "guard", !.token = jar[jarOf[t]]]
  <2>1. q \in Request /\ PasswordChecked(q) /\ EndedIsEnded(q)
    BY <1>1 DEF Idle, Request, Kinds, PasswordChecked, EndedIsEnded
  <2> HIDE DEF q
  <2>2. tab' = [tab EXCEPT ![t] = q] /\ UNCHANGED <<userVars, jar, mem, reset, histVars>>
    BY <1>3 DEF OpenRoute, q
  <2> QED  BY <1>2, <2>1, <2>2, OwnStep
<1>4. ASSUME NEW typed \in 0 .. MaxLinks, Login(t, typed)  PROVE ChecksInv'
  <2> DEFINE q == [Idle EXCEPT !.pc = "check", !.kind = "login", !.typed = typed]
  <2>0. typed \in Nat
    BY SessionConstants
  <2>1. q \in Request /\ PasswordChecked(q) /\ EndedIsEnded(q)
    BY <2>0 DEF Idle, Request, Kinds, Tokens, PasswordChecked, EndedIsEnded
  <2> HIDE DEF q
  <2>2. tab' = [tab EXCEPT ![t] = q] /\ UNCHANGED <<userVars, jar, mem, reset, histVars>>
    BY <1>4 DEF Login, q
  <2> QED  BY <1>2, <2>1, <2>2, OwnStep
<1>5. ASSUME NEW kind \in {"call", "logout"}, Call(t, kind)  PROVE ChecksInv'
  <2> DEFINE q == [Idle EXCEPT !.pc = "sent", !.kind = kind]
  <2>1. q \in Request /\ PasswordChecked(q) /\ EndedIsEnded(q)
    BY <1>1 DEF Idle, Request, Kinds, Tokens, PasswordChecked, EndedIsEnded
  <2> HIDE DEF q
  <2>2. tab' = [tab EXCEPT ![t] = q] /\ UNCHANGED <<userVars, jar, mem, reset, histVars>>
    BY <1>5 DEF Call, q
  <2> QED  BY <1>2, <2>1, <2>2, OwnStep
<1>6. CASE Expire(t)
  <2>1. mem' \in [Tabs -> {"none", "valid", "useless"}]
    BY <1>2, <1>6 DEF Expire
  <2>2. tab' = [tab EXCEPT ![t] = tab[t]]
    BY <1>2, <1>6 DEF Expire
  <2>3. PasswordChecked(tab[t]) /\ EndedIsEnded(tab[t])
    BY DEF ChecksInv
  <2> QED  BY <1>1, <1>2, <1>6, <2>1, <2>2, <2>3, OwnStep DEF Expire
<1>7. CASE Fail(t)
  <2>1. Idle \in Request /\ PasswordChecked(Idle) /\ EndedIsEnded(Idle)
    BY IdleType DEF Idle, PasswordChecked, EndedIsEnded
  <2>2. spoilt' \subseteq Jars
    BY <1>2, <1>7 DEF Fail
  <2> QED  BY <1>2, <1>7, <2>1, <2>2, OwnStep DEF Fail, End
<1> QED  BY <1>3, <1>4, <1>5, <1>6, <1>7

\* The server's steps that leave the row alone.
LEMMA CheckSteps ==
  ASSUME ChecksInv, NEW t \in Tabs,
         Serve(t) \/ Verify(t) \/ CheckPassword(t) \/ Answer(t)
  PROVE  ChecksInv'
<1> USE DEF histVars
<1>1. /\ tab[t] \in Request /\ jar[jarOf[t]] \in Tokens
      /\ PasswordChecked(tab[t]) /\ EndedIsEnded(tab[t])
  BY DEF ChecksInv, TypeOK
<1>2. /\ jar \in [Jars -> Tokens] /\ mem \in [Tabs -> {"none", "valid", "useless"}]
      /\ spoilt \subseteq Jars /\ jarOf[t] \in Jars /\ tab \in [Tabs -> Request] /\ TypeOK
  BY DEF ChecksInv, TypeOK
<1>3. Idle \in Request /\ PasswordChecked(Idle) /\ EndedIsEnded(Idle)
  BY IdleType DEF Idle, PasswordChecked, EndedIsEnded
<1>4. CASE Serve(t)
  <2> DEFINE refresh == [tab[t] EXCEPT !.pc = "verify", !.token = jar[jarOf[t]],
                                       !.kind = IF @ = "login" THEN "relogin" ELSE @]
             logout  == [tab[t] EXCEPT !.pc = "logout_clear"]
  <2>1. PICK q \in {Idle, refresh, logout} : tab' = [tab EXCEPT ![t] = q]
    BY <1>2, <1>4 DEF Serve, Retry, SendRefresh, Goto, End
  <2>2. refresh \in Request /\ PasswordChecked(refresh) /\ EndedIsEnded(refresh)
    BY <1>2, RefreshType
  <2>3. logout \in Request /\ PasswordChecked(logout) /\ EndedIsEnded(logout)
    BY <1>1, <1>4 DEF Serve, Request, PasswordChecked, EndedIsEnded
  <2>4. mem' \in [Tabs -> {"none", "valid", "useless"}]
    BY <1>2, <1>4 DEF Serve
  <2> HIDE DEF refresh, logout
  <2> QED  BY <1>2, <1>3, <1>4, <2>1, <2>2, <2>3, <2>4, OwnStep DEF Serve
<1>5. CASE Verify(t)
  <2> DEFINE q == [tab[t] EXCEPT !.pc = "clear"]
  <2>1. CASE Verified(t)
    <3>1. ~closed
      BY <2>1 DEF ChecksInv, Verified
    <3>2. q \in Request /\ PasswordChecked(q) /\ EndedIsEnded(q)
      BY <1>1, <1>5, <3>1 DEF Verify, Request, PasswordChecked, EndedIsEnded
    <3>3. tab' = [tab EXCEPT ![t] = q]
      BY <1>2, <1>5, <2>1 DEF Verify, Goto
    <3> HIDE DEF q
    <3> QED  BY <1>2, <1>5, <3>2, <3>3, OwnStep DEF Verify
  <2>2. CASE ~Verified(t)
    BY <1>2, <1>3, <1>5, <2>2, OwnStep DEF Verify, End
  <2> QED  BY <2>1, <2>2
<1>6. CASE CheckPassword(t)
  <2> DEFINE q == [tab[t] EXCEPT !.pc = "save"]
  <2>1. CASE tab[t].typed = password
    <3>1. q \in Request /\ PasswordChecked(q) /\ EndedIsEnded(q)
      BY <1>1, <1>6, <2>1 DEF CheckPassword, Request, PasswordChecked, EndedIsEnded
    <3>2. tab' = [tab EXCEPT ![t] = q]
      BY <1>2, <1>6, <2>1 DEF CheckPassword, Goto
    <3> HIDE DEF q
    <3> QED  BY <1>2, <1>6, <3>1, <3>2, OwnStep DEF CheckPassword
  <2>2. CASE tab[t].typed # password
    <3> DEFINE refresh == [tab[t] EXCEPT !.pc = "verify", !.token = jar[jarOf[t]],
                                         !.kind = IF @ = "login" THEN "relogin" ELSE @]
    <3>1. PICK r \in {Idle, refresh} : tab' = [tab EXCEPT ![t] = r]
      BY <1>2, <1>6, <2>2 DEF CheckPassword, Retry, SendRefresh, End
    <3>2. refresh \in Request /\ PasswordChecked(refresh) /\ EndedIsEnded(refresh)
      BY <1>2, RefreshType
    <3> HIDE DEF refresh
    <3> QED  BY <1>2, <1>3, <1>6, <3>1, <3>2, OwnStep DEF CheckPassword
  <2> QED  BY <2>1, <2>2
<1>7. CASE Answer(t)
  <2> DEFINE q == Resent(tab[t])
  <2>1. q \in Request /\ PasswordChecked(q) /\ EndedIsEnded(q)
    BY <1>1, ResentType
  <2>2. tab' = [tab EXCEPT ![t] = q]
    BY <1>7 DEF Answer
  <2>3. jar' \in [Jars -> Tokens] /\ mem' \in [Tabs -> {"none", "valid", "useless"}]
    BY <1>1, <1>2, <1>7 DEF Answer, Stored, Request
  <2>4. spoilt' \subseteq Jars
    BY <1>2, <1>7 DEF Answer
  <2> HIDE DEF q
  <2> QED  BY <1>7, <2>1, <2>2, <2>3, <2>4, OwnStep DEF Answer
<1> QED  BY <1>4, <1>5, <1>6, <1>7

-----------------------------------------------------------------------------
\* What Overtake leaves of a tab, and what it marks.
LEMMA OvertakeType ==
  ASSUME TypeOK, NEW except \in SUBSET Tabs
  PROVE  /\ Overtake(except) \in [Tabs -> Request]
         /\ \A u \in Tabs :
              LET q == Overtake(except)[u] IN
              /\ q.pc = tab[u].pc /\ q.kind = tab[u].kind
              /\ u \notin except /\ q.pc \in {"clear", "save"} => q.overtaken
<1> DEFINE marked(u) == [StaleTabs[u] EXCEPT !.overtaken = TRUE]
<1>1. \A u \in Tabs : StaleTabs[u] \in Request /\ tab[u] \in Request
  BY StaleTabsType DEF TypeOK
<1>2. \A u \in Tabs : StaleTabs[u].pc = tab[u].pc /\ StaleTabs[u].kind = tab[u].kind
  BY <1>1, StaleTabsType DEF Request
<1>3. \A u \in Tabs : /\ marked(u) \in Request /\ marked(u).overtaken
                      /\ marked(u).pc = tab[u].pc /\ marked(u).kind = tab[u].kind
  BY <1>1, <1>2 DEF Request
<1> HIDE DEF marked
<1>4. Overtake(except) =
        [u \in Tabs |-> IF u \notin except /\ tab[u].pc \in {"clear", "save"}
                          THEN marked(u) ELSE StaleTabs[u]]
  BY DEF Overtake, marked
<1> QED  BY <1>1, <1>2, <1>3, <1>4

\* A refresh clears the row: no session is open, and no check is undone.
LEMMA ClearStep == ASSUME ChecksInv, NEW t \in Tabs, ClearRefreshToken(t)  PROVE ChecksInv'
<1> USE DEF ClearRefreshToken, histVars
<1>1. TypeOK /\ tab[t] \in Request
  BY DEF ChecksInv, TypeOK
<1>2. /\ StaleTabs \in [Tabs -> Request] /\ StaleJars \in [Jars -> Tokens]
      /\ \A u \in Tabs : /\ StaleTabs[u] \in Request
                         /\ StaleTabs[u] = [tab[u] EXCEPT !.token = StaleTabs[u].token]
  BY <1>1, StaleTabsType
<1>3. \A u \in Tabs : /\ StaleTabs[u].pc = tab[u].pc /\ StaleTabs[u].kind = tab[u].kind
                      /\ StaleTabs[u].typed = tab[u].typed
                      /\ StaleTabs[u].overtaken = tab[u].overtaken
  BY <1>1, <1>2 DEF TypeOK, Request
<1> DEFINE q == [StaleTabs[t] EXCEPT !.pc = "save"]
<1>4. /\ q \in Request /\ q.pc = "save" /\ q.kind = tab[t].kind
      /\ q.overtaken = tab[t].overtaken
  BY <1>2, <1>3 DEF Request
<1>5. tab' = [StaleTabs EXCEPT ![t] = q]
  BY <1>2
<1> HIDE DEF q
<1>6. /\ tab' \in [Tabs -> Request]
      /\ \A u \in Tabs : tab'[u] = IF u = t THEN q ELSE StaleTabs[u]
  BY <1>2, <1>4, <1>5
<1>7. TypeOK'
  BY <1>1, <1>2, <1>6 DEF TypeOK
<1>8. PasswordChecked(tab[t])' /\ EndedIsEnded(tab[t])'
  BY <1>4, <1>6 DEF ChecksInv, PasswordChecked, EndedIsEnded
<1>9. ASSUME NEW u \in Tabs \ {t}  PROVE PasswordChecked(tab[u])' /\ EndedIsEnded(tab[u])'
  BY <1>3, <1>6 DEF ChecksInv, PasswordChecked, EndedIsEnded
<1>10. LinkChecked' /\ (closed => slot = "none")'
  BY DEF ChecksInv, LinkChecked
<1> QED  BY <1>7, <1>8, <1>9, <1>10 DEF ChecksInv

\* What the end of the refresh token's time leaves of the tabs.
LEMMA ExpiryType ==
  ASSUME TypeOK, RefreshTokenExpires
  PROVE  /\ tab' \in [Tabs -> Request] /\ jar' \in [Jars -> Tokens] /\ spoilt' \subseteq Jars
         /\ \A u \in Tabs : /\ tab'[u].pc = tab[u].pc /\ tab'[u].kind = tab[u].kind
                            /\ tab'[u].typed = tab[u].typed
                            /\ tab'[u].overtaken = tab[u].overtaken
                            /\ tab[u].pc = "clear" => tab'[u] = tab[u]
                            /\ tab[u].pc # "clear" => tab'[u] = StaleTabs[u]
<1>1. /\ tab \in [Tabs -> Request] /\ StaleTabs \in [Tabs -> Request]
      /\ StaleJars \in [Jars -> Tokens] /\ spoilt \subseteq Jars
  BY StaleTabsType DEF TypeOK
<1>2. tab' = [u \in Tabs |-> IF tab[u].pc = "clear" THEN tab[u] ELSE StaleTabs[u]]
  BY DEF RefreshTokenExpires
<1>3. \A u \in Tabs : tab'[u] = IF tab[u].pc = "clear" THEN tab[u] ELSE StaleTabs[u]
  BY <1>2
<1>4. tab' \in [Tabs -> Request]
  BY <1>1, <1>2
<1>5. \A u \in Tabs : /\ StaleTabs[u] \in Request /\ tab[u] \in Request
                      /\ StaleTabs[u] = [tab[u] EXCEPT !.token = StaleTabs[u].token]
  BY <1>1, StaleTabsType
<1>6. \A u \in Tabs : /\ StaleTabs[u].pc = tab[u].pc /\ StaleTabs[u].kind = tab[u].kind
                      /\ StaleTabs[u].typed = tab[u].typed
                      /\ StaleTabs[u].overtaken = tab[u].overtaken
  BY <1>5 DEF Request
<1>7. jar' \in [Jars -> Tokens] /\ spoilt' \subseteq Jars
  BY <1>1 DEF RefreshTokenExpires
<1> QED  BY <1>3, <1>4, <1>6, <1>7

LEMMA ExpiryStep == ASSUME ChecksInv, RefreshTokenExpires  PROVE ChecksInv'
<1>1. TypeOK /\ UNCHANGED <<jarOf, slot, password, link, mailed, mem, reset, closed>>
  BY DEF ChecksInv, RefreshTokenExpires, userVars
<1>2. TypeOK'
  BY <1>1, ExpiryType DEF TypeOK
<1>3. \A u \in Tabs : PasswordChecked(tab[u])' /\ EndedIsEnded(tab[u])'
  BY <1>1, ExpiryType DEF ChecksInv, PasswordChecked, EndedIsEnded
<1>4. LinkChecked' /\ (closed => slot = "none")'
  BY <1>1 DEF ChecksInv, LinkChecked
<1> QED  BY <1>2, <1>3, <1>4 DEF ChecksInv

\* A login or a refresh opens a session.
LEMMA SaveStep == ASSUME ChecksInv, NEW t \in Tabs, SaveRefreshToken(t)  PROVE ChecksInv'
<1> USE DEF SaveRefreshToken
<1>1. TypeOK /\ tab[t] \in Request /\ spoilt \subseteq Jars /\ jarOf[t] \in Jars
  BY DEF ChecksInv, TypeOK
<1>2. /\ StaleTabs \in [Tabs -> Request] /\ StaleJars \in [Jars -> Tokens]
      /\ \A u \in Tabs : /\ StaleTabs[u] \in Request
                         /\ StaleTabs[u] = [tab[u] EXCEPT !.token = StaleTabs[u].token]
  BY <1>1, StaleTabsType
<1>3. \A u \in Tabs : /\ StaleTabs[u].pc = tab[u].pc /\ StaleTabs[u].kind = tab[u].kind
                      /\ StaleTabs[u].typed = tab[u].typed
                      /\ StaleTabs[u].overtaken = tab[u].overtaken
  BY <1>1, <1>2 DEF TypeOK, Request
<1> DEFINE q == [StaleTabs[t] EXCEPT !.pc = "answer", !.token = "current"]
<1>4. q \in Request /\ q.pc = "answer"
  <2> HIDE DEF SaveRefreshToken
  <2>1. StaleTabs[t] \in Request
    BY <1>2
  <2> QED  BY <2>1 DEF Request, Tokens
<1>5. tab' = [StaleTabs EXCEPT ![t] = q]
  BY <1>2
<1> HIDE DEF q
<1>6. /\ tab' \in [Tabs -> Request]
      /\ \A u \in Tabs : tab'[u] = IF u = t THEN q ELSE StaleTabs[u]
  BY <1>2, <1>4, <1>5
<1>7. closed' \in BOOLEAN
  BY Zenon
<1>8. spoilt' \subseteq Jars
  BY <1>1
<1>9. TypeOK'
  BY <1>1, <1>2, <1>6, <1>7, <1>8 DEF TypeOK
<1>10. ASSUME NEW u \in Tabs  PROVE PasswordChecked(tab[u])' /\ EndedIsEnded(tab[u])'
  BY <1>3, <1>4, <1>6 DEF ChecksInv, PasswordChecked, EndedIsEnded
<1>11. LinkChecked' /\ (closed => slot = "none")'
  BY DEF ChecksInv, LinkChecked
<1> QED  BY <1>9, <1>10, <1>11 DEF ChecksInv

\* A logout ends the session: who has passed a check is overtaken.
LEMMA LogoutStep == ASSUME ChecksInv, NEW t \in Tabs, LogoutClear(t)  PROVE ChecksInv'
<1> USE DEF LogoutClear
<1>1. /\ TypeOK /\ StaleJars \in [Jars -> Tokens]
      /\ \A u \in Tabs : PasswordChecked(tab[u])
  BY StaleTabsType DEF ChecksInv
<1> DEFINE f == Overtake({t})
<1>2. /\ f \in [Tabs -> Request]
      /\ \A u \in Tabs : /\ f[u].pc = tab[u].pc /\ f[u].kind = tab[u].kind
                         /\ u # t /\ f[u].pc \in {"clear", "save"} => f[u].overtaken
  BY <1>1, OvertakeType
<1>3. tab' = [f EXCEPT ![t] = Idle]
  OBVIOUS
<1> HIDE DEF f
<1>4. /\ tab' \in [Tabs -> Request]
      /\ \A u \in Tabs : tab'[u] = IF u = t THEN Idle ELSE f[u]
  BY <1>2, <1>3, IdleType
<1>5. closed' \in BOOLEAN
  BY Zenon
<1>6. TypeOK'
  BY <1>1, <1>4, <1>5 DEF TypeOK
<1>7. PasswordChecked(tab[t])' /\ EndedIsEnded(tab[t])'
  BY <1>4 DEF Idle, PasswordChecked, EndedIsEnded
<1>8. ASSUME NEW u \in Tabs \ {t}  PROVE PasswordChecked(tab[u])' /\ EndedIsEnded(tab[u])'
  BY <1>1, <1>2, <1>4 DEF PasswordChecked, EndedIsEnded
<1>9. LinkChecked' /\ (closed => slot = "none")'
  BY DEF ChecksInv, LinkChecked
<1> QED  BY <1>6, <1>7, <1>8, <1>9 DEF ChecksInv

-----------------------------------------------------------------------------
\* The resets that something overtakes: all that are in flight.
LEMMA OutdatedType ==
  ASSUME TypeOK
  PROVE  /\ Outdated \in [Resets -> [link: 0 .. mailed, overtaken: BOOLEAN]]
         /\ \A r \in Resets : Outdated[r] = NoReset \/ Outdated[r].overtaken
<1> DEFINE marked(r) == [reset[r] EXCEPT !.overtaken = TRUE]
<1>1. \A r \in Resets : marked(r) \in [link: 0 .. mailed, overtaken: BOOLEAN] /\ marked(r).overtaken
  BY DEF TypeOK
<1>2. NoReset \in [link: 0 .. mailed, overtaken: BOOLEAN]
  BY DEF TypeOK, NoReset
<1> HIDE DEF marked
<1>3. Outdated = [r \in Resets |-> IF reset[r] = NoReset THEN NoReset ELSE marked(r)]
  BY DEF Outdated, marked
<1> QED  BY <1>1, <1>2, <1>3

LEMMA LinkSteps ==
  ASSUME ChecksInv,
         \/ ForgotPassword \/ LinkExpires
         \/ \E r \in Resets, l \in 1 .. MaxLinks : ResetFind(r, l)
  PROVE  ChecksInv'
<1> USE DEF tabVars, histVars, userVars
<1>1. TypeOK
  BY DEF ChecksInv
<1>2. CASE ForgotPassword \/ LinkExpires
  <2>1. mailed' \in 0 .. MaxLinks /\ link' \in 0 .. mailed' /\ mailed <= mailed'
    BY <1>1, <1>2, SessionConstants DEF ForgotPassword, LinkExpires, TypeOK
  <2>2. /\ reset' \in [Resets -> [link: 0 .. mailed, overtaken: BOOLEAN]]
        /\ \A r \in Resets : reset'[r] = NoReset \/ reset'[r].overtaken
    BY <1>1, <1>2, OutdatedType DEF ForgotPassword, LinkExpires
  <2>3. reset' \in [Resets -> [link: 0 .. mailed, overtaken: BOOLEAN]']
    <3>1. 0 .. mailed \subseteq 0 .. mailed'
      BY <1>1, <2>1 DEF TypeOK
    <3>2. [link: 0 .. mailed, overtaken: BOOLEAN] \subseteq [link: 0 .. mailed', overtaken: BOOLEAN]
      BY <3>1
    <3> QED  BY <2>2, <3>2
  <2>4. UNCHANGED <<jarOf, slot, password, jar, mem, tab, closed, spoilt>>
    BY <1>2 DEF ForgotPassword, LinkExpires
  <2>5. TypeOK'
    BY <1>1, <2>1, <2>3, <2>4 DEF TypeOK
  <2>6. LinkChecked'
    BY <2>2 DEF LinkChecked
  <2>7. \A t \in Tabs : PasswordChecked(tab[t])' /\ EndedIsEnded(tab[t])'
    BY <2>4 DEF ChecksInv, PasswordChecked, EndedIsEnded
  <2> QED  BY <2>4, <2>5, <2>6, <2>7 DEF ChecksInv
<1>3. ASSUME NEW r \in Resets, NEW l \in 1 .. MaxLinks, ResetFind(r, l)  PROVE ChecksInv'
  <2> DEFINE q == [reset[r] EXCEPT !.link = l]
  <2>1. q \in [link: 0 .. mailed, overtaken: BOOLEAN] /\ q.link = link
    BY <1>1, <1>3 DEF ResetFind, LinkValid, TypeOK
  <2>2. /\ reset' = [reset EXCEPT ![r] = q]
        /\ UNCHANGED <<userVars, tabVars, histVars>>
    BY <1>1, <1>3 DEF ResetFind, TypeOK
  <2> HIDE DEF q
  <2>3. TypeOK'
    BY <1>1, <2>1, <2>2 DEF TypeOK
  <2>4. LinkChecked'
    BY <1>1, <2>1, <2>2 DEF ChecksInv, TypeOK, LinkChecked
  <2>5. \A t \in Tabs : PasswordChecked(tab[t])' /\ EndedIsEnded(tab[t])'
    BY <2>2 DEF ChecksInv, PasswordChecked, EndedIsEnded
  <2> QED  BY <2>2, <2>3, <2>4, <2>5 DEF ChecksInv
<1> QED  BY <1>2, <1>3

LEMMA ResetStep == ASSUME ChecksInv, NEW r \in Resets, ResetUpdate(r)  PROVE ChecksInv'
<1> USE DEF ResetUpdate
<1>1. /\ TypeOK /\ StaleJars \in [Jars -> Tokens]
      /\ \A u \in Tabs : PasswordChecked(tab[u])
  BY StaleTabsType DEF ChecksInv
<1>2. /\ tab' \in [Tabs -> Request]
      /\ \A u \in Tabs : /\ tab'[u].pc = tab[u].pc /\ tab'[u].kind = tab[u].kind
                         /\ tab'[u].pc \in {"clear", "save"} => tab'[u].overtaken
  BY <1>1, OvertakeType
<1>3. /\ reset' \in [Resets -> [link: 0 .. mailed, overtaken: BOOLEAN]]
      /\ \A s \in Resets : reset'[s] = NoReset \/ reset'[s].overtaken
  <2>1. NoReset \in [link: 0 .. mailed, overtaken: BOOLEAN]
    BY <1>1 DEF TypeOK, NoReset
  <2> QED  BY <1>1, <2>1, OutdatedType
<1>4. closed' \in BOOLEAN
  BY Zenon
<1>5. TypeOK'
  BY <1>1, <1>2, <1>3, <1>4 DEF TypeOK
<1>6. LinkChecked'
  BY <1>3 DEF LinkChecked
<1>7. \A u \in Tabs : PasswordChecked(tab[u])' /\ EndedIsEnded(tab[u])'
  BY <1>1, <1>2 DEF PasswordChecked, EndedIsEnded
<1> QED  BY <1>5, <1>6, <1>7 DEF ChecksInv

-----------------------------------------------------------------------------
LEMMA StepChecks == ChecksInv /\ [Next]_vars => ChecksInv'
<1> SUFFICES ASSUME ChecksInv, [Next]_vars  PROVE ChecksInv'
  OBVIOUS
<1>1. ASSUME NEW t \in Tabs, ServerStep(t)  PROVE ChecksInv'
  BY <1>1, CheckSteps, ClearStep, SaveStep, LogoutStep DEF ServerStep
<1>2. ASSUME NEW t \in Tabs, UserStep(t)  PROVE ChecksInv'
  BY <1>2, BrowserSteps DEF UserStep
<1>3. CASE UNCHANGED vars
  BY <1>3 DEF ChecksInv, TypeOK, LinkChecked, PasswordChecked, EndedIsEnded,
              vars, userVars, tabVars, histVars
<1> QED  BY <1>1, <1>2, <1>3, LinkSteps, ResetStep, ExpiryStep DEF Next

\* What a request checked still holds, or the request is marked as overtaken:
\* AuthService.login, refresh and resetPassword between their queries.
THEOREM ChecksInvariant == Spec => []ChecksInv
<1>1. Init => ChecksInv
  BY InitChecks
<1>2. ChecksInv /\ [Next]_vars => ChecksInv'
  BY StepChecks
<1> QED  BY <1>1, <1>2, PTL DEF Spec

\* Every step keeps closed, or sets it, except for the token saved.
LEMMA ReopenStep ==
  ASSUME ChecksInv, [Next]_vars, closed, ~closed'
  PROVE  \E t \in Tabs : SaveRefreshToken(t)
BY DEF Next, ServerStep, UserStep, Serve, Verify, ClearRefreshToken, CheckPassword, Answer,
       LogoutClear, OpenRoute, Login, Expire, Fail, Call, ForgotPassword, LinkExpires,
       RefreshTokenExpires, ResetUpdate, ResetFind, vars, histVars

\* A logout or a password reset lasts until somebody logs in, except for a
\* refresh that had already been verified (AuthService.refresh, logout).
THEOREM EndedSessionsStayEnded == Spec => EndedSessionReopensOnly
<1>1. ChecksInv /\ [Next]_vars =>
        [closed /\ ~closed' =>
           \E t \in Tabs : /\ tab[t].pc = "save"
                           /\ tab[t].kind = "login" \/ tab[t].overtaken]_vars
  <2> SUFFICES ASSUME ChecksInv, [Next]_vars, closed, ~closed'
               PROVE  \E t \in Tabs : /\ tab[t].pc = "save"
                                      /\ tab[t].kind = "login" \/ tab[t].overtaken
    OBVIOUS
  <2>1. PICK t \in Tabs : SaveRefreshToken(t)
    BY ReopenStep
  <2> QED  BY <2>1 DEF SaveRefreshToken, ChecksInv, EndedIsEnded
<1> QED  BY <1>1, ChecksInvariant, PTL DEF Spec, EndedSessionReopensOnly

\* A login does not open a session with a password that was replaced, nor a
\* reset use a link that is no longer the row's, unless the change came while
\* the request was between its check and its update.
THEOREM OnlyOvertakenChecksAreStale == Spec => StaleChecksOnlyOvertaken
<1>1. ChecksInv =>
        /\ \A t \in Tabs :
             tab[t].kind = "login" /\ tab[t].pc = "save" /\ tab'[t].pc = "answer"
               => tab[t].typed = password \/ tab[t].overtaken
        /\ \A r \in Resets :
             reset[r] # NoReset /\ reset'[r] = NoReset
               => reset[r].link = link \/ reset[r].overtaken
  BY DEF ChecksInv, PasswordChecked, LinkChecked
<1> QED  BY <1>1, ChecksInvariant, PTL DEF StaleChecksOnlyOvertaken

-----------------------------------------------------------------------------
(***************************************************************************)
(* The cookies.                                                            *)
(***************************************************************************)
LEMMA InitCookies == Init => CookieInv
BY DEF Init, Idle, CookieInv, HoldsCurrent, Reissuing, Answering

\* A row that changes leaves nobody with its token, and who had none keeps it.
LEMMA StaleTokens ==
  ASSUME TypeOK
  PROVE  /\ \A j \in Jars : /\ StaleJars[j] # "current"
                            /\ jar[j] = "none" => StaleJars[j] = "none"
         /\ \A u \in Tabs : /\ StaleTabs[u].token # "current"
                            /\ tab[u].token = "none" => StaleTabs[u].token = "none"
                            /\ StaleTabs[u].pc = tab[u].pc
                            /\ StaleTabs[u].kind = tab[u].kind
<1>1. \A token \in Tokens : Stale(token) # "current" /\ (token = "none" => Stale(token) = "none")
  BY DEF Stale, Tokens
<1>2. \A u \in Tabs : tab[u] \in Request
  BY DEF TypeOK
<1>3. \A u \in Tabs : StaleTabs[u] = [tab[u] EXCEPT !.token = Stale(tab[u].token)]
  BY DEF StaleTabs
<1>4. \A u \in Tabs : /\ StaleTabs[u].token = Stale(tab[u].token)
                      /\ StaleTabs[u].pc = tab[u].pc /\ StaleTabs[u].kind = tab[u].kind
  BY <1>2, <1>3 DEF Request
<1>5. \A u \in Tabs : tab[u].token \in Tokens
  BY <1>2 DEF Request
<1>6. \A j \in Jars : StaleJars[j] = Stale(jar[j]) /\ jar[j] \in Tokens
  BY DEF StaleJars, TypeOK
<1> QED  BY <1>1, <1>4, <1>5, <1>6

\* A step of tab t that leaves the row and the cookies alone: it may not end
\* a request on which an unspoilt cookie depends.
LEMMA CookiesKept ==
  ASSUME TypeOK, CookieInv, NEW t \in Tabs, NEW q \in Request,
         tab' = [tab EXCEPT ![t] = q], UNCHANGED <<jarOf, slot, jar>>,
         spoilt \subseteq spoilt', spoilt' \subseteq Jars,
         q.token = "current" => HoldsCurrent(jarOf[t]),
         q.pc = "clear" => q.token = "current",
         q.pc # "answer",
         tab[t].pc = "save" /\ tab[t].kind # "login" => jarOf[t] \in spoilt',
         tab[t].pc = "answer" => jarOf[t] \in spoilt'
  PROVE  CookieInv'
<1>1. \A u \in Tabs : tab'[u] = IF u = t THEN q ELSE tab[u]
  BY DEF TypeOK
<1>2. \A j \in Jars : HoldsCurrent(j)' => HoldsCurrent(j)
  BY <1>1 DEF HoldsCurrent
<1>3. \A j \in Jars : j \notin spoilt' /\ Reissuing(j) => Reissuing(j)'
  BY <1>1 DEF Reissuing
<1>4. \A j \in Jars : j \notin spoilt' /\ Answering(j) => Answering(j)'
  BY <1>1 DEF Answering
<1>5. \A i, j \in Jars : HoldsCurrent(i)' /\ HoldsCurrent(j)' => i = j
  BY <1>2 DEF CookieInv
<1>6. ASSUME NEW u \in Tabs, tab'[u].pc = "clear", tab'[u].token # "current", slot' = "current"
      PROVE  spoilt' = Jars
  BY <1>1, <1>6 DEF CookieInv
<1>7. \A j \in Jars \ spoilt' : jar'[j] = slot' \/ Reissuing(j)' \/ Answering(j)'
  BY <1>3, <1>4 DEF CookieInv
<1>8. ASSUME NEW u \in Tabs, tab'[u].pc = "answer", jarOf[u] \notin spoilt'
      PROVE  tab'[u].token = slot' \/ Reissuing(jarOf[u])'
  <2>1. u # t /\ tab'[u] = tab[u] /\ jarOf[u] \in Jars
    BY <1>1, <1>8 DEF TypeOK
  <2>2. tab[u].token = slot \/ Reissuing(jarOf[u])
    BY <1>8, <2>1 DEF CookieInv
  <2> QED  BY <1>3, <1>8, <2>1, <2>2
<1> QED  BY <1>5, <1>6, <1>7, <1>8 DEF CookieInv

\* The steps of a request between the changes of the row.
LEMMA CookieOwnSteps ==
  ASSUME ChecksInv, CookieInv, NEW t \in Tabs,
         \/ OpenRoute(t) \/ Expire(t) \/ Fail(t)
         \/ \E typed \in 0 .. MaxLinks : Login(t, typed)
         \/ Serve(t) \/ Verify(t) \/ CheckPassword(t)
         \/ \E kind \in {"call", "logout"} : Call(t, kind)
  PROVE  CookieInv'
<1> USE DEF histVars, userVars
<1>1. TypeOK /\ tab[t] \in Request /\ spoilt \subseteq Jars /\ jarOf[t] \in Jars
  BY DEF ChecksInv, TypeOK
<1>2. tab \in [Tabs -> Request] /\ jar[jarOf[t]] \in Tokens /\ password \in Nat
  BY <1>1 DEF TypeOK
<1>3. Idle \in Request /\ Idle.token = "none" /\ Idle.pc = "idle"
  BY IdleType DEF Idle
<1>4. jar[jarOf[t]] = "current" \/ tab[t].token = "current" => HoldsCurrent(jarOf[t])
  BY DEF HoldsCurrent
<1>5. CASE OpenRoute(t)
  <2> DEFINE q == [Idle EXCEPT !.pc = "verify", !.kind = "guard", !.token = jar[jarOf[t]]]
  <2>1. q \in Request /\ q.pc = "verify" /\ q.token = jar[jarOf[t]]
    BY <1>2 DEF Idle, Request, Kinds
  <2>2. tab' = [tab EXCEPT ![t] = q] /\ tab[t].pc = "idle"
    BY <1>5, <1>3 DEF OpenRoute
  <2> HIDE DEF q
  <2> QED  BY <1>1, <1>4, <1>5, <2>1, <2>2, CookiesKept DEF OpenRoute
<1>6. ASSUME NEW typed \in 0 .. MaxLinks, Login(t, typed)  PROVE CookieInv'
  <2> DEFINE q == [Idle EXCEPT !.pc = "check", !.kind = "login", !.typed = typed]
  <2>0. typed \in Nat
    BY SessionConstants
  <2>1. q \in Request /\ q.pc = "check" /\ q.token = "none"
    BY <2>0 DEF Idle, Request, Kinds, Tokens
  <2>2. tab' = [tab EXCEPT ![t] = q] /\ tab[t].pc = "idle"
    BY <1>6, <1>3 DEF Login
  <2> HIDE DEF q
  <2> QED  BY <1>1, <1>6, <2>1, <2>2, CookiesKept DEF Login
<1>7. ASSUME NEW kind \in {"call", "logout"}, Call(t, kind)  PROVE CookieInv'
  <2> DEFINE q == [Idle EXCEPT !.pc = "sent", !.kind = kind]
  <2>1. q \in Request /\ q.pc = "sent" /\ q.token = "none"
    BY DEF Idle, Request, Kinds, Tokens
  <2>2. tab' = [tab EXCEPT ![t] = q] /\ tab[t].pc = "idle"
    BY <1>7, <1>3 DEF Call
  <2> HIDE DEF q
  <2> QED  BY <1>1, <1>7, <2>1, <2>2, CookiesKept DEF Call
<1>8. CASE Expire(t)
  BY <1>8 DEF Expire, CookieInv, HoldsCurrent, Reissuing, Answering
<1>9. CASE Fail(t)
  <2>1. spoilt \subseteq spoilt' /\ spoilt' \subseteq Jars
    BY <1>1, <1>9 DEF Fail
  <2>2. tab[t].pc = "answer" => jarOf[t] \in spoilt'
    BY <1>1, <1>9 DEF Fail
  <2>3. tab[t].pc = "save" /\ tab[t].kind # "login" => jarOf[t] \in spoilt'
    BY <1>1, <1>9 DEF Fail
  <2> QED  BY <1>1, <1>3, <1>9, <2>1, <2>2, <2>3, CookiesKept DEF Fail, End
<1>10. CASE Serve(t)
  <2> DEFINE refresh == [tab[t] EXCEPT !.pc = "verify", !.token = jar[jarOf[t]],
                                       !.kind = IF @ = "login" THEN "relogin" ELSE @]
             logout  == [tab[t] EXCEPT !.pc = "logout_clear"]
  <2>1. PICK q \in {Idle, refresh, logout} : tab' = [tab EXCEPT ![t] = q]
    BY <1>2, <1>10 DEF Serve, Retry, SendRefresh, Goto, End
  <2>2. refresh \in Request /\ refresh.pc = "verify" /\ refresh.token = jar[jarOf[t]]
    BY <1>1, RefreshType
  <2>3. logout \in Request /\ logout.pc = "logout_clear" /\ logout.token = tab[t].token
    BY <1>1 DEF Request
  <2> HIDE DEF refresh, logout
  <2>4. /\ q \in Request /\ q.pc \notin {"clear", "answer"}
        /\ q.token = "current" => HoldsCurrent(jarOf[t])
    BY <1>3, <1>4, <2>1, <2>2, <2>3
  <2> QED  BY <1>1, <1>10, <2>1, <2>4, CookiesKept DEF Serve
<1>11. CASE Verify(t)
  <2> DEFINE q == IF Verified(t) THEN [tab[t] EXCEPT !.pc = "clear"] ELSE Idle
  <2>1. /\ q \in Request /\ q.pc # "answer"
        /\ q.token = "current" => tab[t].token = "current"
        /\ q.pc = "clear" => q.token = "current"
    BY <1>1, <1>3 DEF Request, Verified, TypeOK
  <2>2. tab' = [tab EXCEPT ![t] = q]
    BY <1>2, <1>11 DEF Verify, Goto, End
  <2> HIDE DEF q
  <2> QED  BY <1>1, <1>4, <1>11, <2>1, <2>2, CookiesKept DEF Verify
<1>12. CASE CheckPassword(t)
  <2> DEFINE refresh == [tab[t] EXCEPT !.pc = "verify", !.token = jar[jarOf[t]],
                                       !.kind = IF @ = "login" THEN "relogin" ELSE @]
             saving  == [tab[t] EXCEPT !.pc = "save"]
  <2>1. PICK q \in {Idle, refresh, saving} : tab' = [tab EXCEPT ![t] = q]
    BY <1>2, <1>12 DEF CheckPassword, Retry, SendRefresh, Goto, End
  <2>2. refresh \in Request /\ refresh.pc = "verify" /\ refresh.token = jar[jarOf[t]]
    BY <1>1, RefreshType
  <2>3. saving \in Request /\ saving.pc = "save" /\ saving.token = tab[t].token
    BY <1>1 DEF Request
  <2> HIDE DEF refresh, saving
  <2>4. /\ q \in Request /\ q.pc \notin {"clear", "answer"}
        /\ q.token = "current" => HoldsCurrent(jarOf[t])
    BY <1>3, <1>4, <2>1, <2>2, <2>3
  <2> QED  BY <1>1, <1>12, <2>1, <2>4, CookiesKept DEF CheckPassword
<1> QED  BY <1>5, <1>6, <1>7, <1>8, <1>9, <1>10, <1>11, <1>12

\* A refresh clears the row.  It was verified with the current token, which
\* one browser only holds, and is the one to write the next.
LEMMA CookieClear ==
  ASSUME ChecksInv, CookieInv, NEW t \in Tabs, ClearRefreshToken(t)
  PROVE  CookieInv'
<1> USE DEF histVars
<1>1. TypeOK /\ spoilt \subseteq Jars /\ jarOf[t] \in Jars
  BY DEF ChecksInv, TypeOK
<1>2. /\ slot' = "none" /\ spoilt' = spoilt /\ jarOf' = jarOf /\ jar' = StaleJars
      /\ slot \in {"none", "current"} /\ tab[t].pc = "clear" /\ tab[t].kind # "login"
  BY <1>1 DEF ClearRefreshToken, ChecksInv, PasswordChecked, TypeOK
<1>3. \A u \in Tabs : /\ tab'[u].token # "current"
                      /\ tab[u].token = "none" => tab'[u].token = "none"
                      /\ tab'[u].kind = tab[u].kind
                      /\ tab'[u].pc = IF u = t THEN "save" ELSE tab[u].pc
  <2>1. /\ StaleTabs \in [Tabs -> Request]
        /\ tab' = [StaleTabs EXCEPT ![t].pc = "save"]
    BY <1>1, StaleTabsType DEF ClearRefreshToken
  <2>2. tab'[t] = [StaleTabs[t] EXCEPT !.pc = "save"] /\ StaleTabs[t] \in Request
    BY <2>1
  <2>3. /\ tab'[t].token = StaleTabs[t].token /\ tab'[t].kind = StaleTabs[t].kind
        /\ tab'[t].pc = "save"
    BY <2>2 DEF Request
  <2>4. \A u \in Tabs \ {t} : tab'[u] = StaleTabs[u]
    BY <2>1
  <2> QED  BY <1>1, <2>3, <2>4, StaleTokens
<1>4. \A j \in Jars : jar'[j] # "current" /\ (jar[j] = "none" => jar'[j] = "none")
  BY <1>1, <1>2, StaleTokens
<1>5. \A j \in Jars : ~HoldsCurrent(j)'
  BY <1>2, <1>3, <1>4 DEF HoldsCurrent
<1>6. \A j \in Jars : Reissuing(j) => Reissuing(j)'
  BY <1>2, <1>3 DEF Reissuing
<1>7. ASSUME NEW j \in Jars \ spoilt, slot = "current", HoldsCurrent(j)
      PROVE  Reissuing(j)'
  <2>1. tab[t].token = "current"
    BY <1>2, <1>7 DEF CookieInv
  <2>2. jarOf[t] = j
    BY <1>1, <1>7, <2>1 DEF CookieInv, HoldsCurrent
  <2> QED  BY <1>2, <1>3, <2>2 DEF Reissuing
<1>8. ASSUME NEW j \in Jars \ spoilt
      PROVE  jar'[j] = slot' \/ Reissuing(j)' \/ Answering(j)'
  <2>1. CASE jar[j] = slot
    BY <1>2, <1>4, <1>7, <2>1 DEF HoldsCurrent
  <2>2. CASE Answering(j) /\ slot = "current"
    BY <1>7, <2>2 DEF Answering, HoldsCurrent
  <2>3. CASE Answering(j) /\ slot = "none"
    BY <1>2, <1>3, <2>3 DEF Answering
  <2> QED  BY <1>2, <1>6, <2>1, <2>2, <2>3 DEF CookieInv
<1>9. ASSUME NEW u \in Tabs, tab'[u].pc = "answer", jarOf[u] \notin spoilt
      PROVE  tab'[u].token = slot' \/ Reissuing(jarOf[u])'
  <2>1. tab[u].pc = "answer" /\ jarOf[u] \in Jars \ spoilt
    BY <1>1, <1>3, <1>9 DEF TypeOK
  <2>2. CASE tab[u].token = slot
    BY <1>2, <1>3, <1>7, <2>1, <2>2 DEF HoldsCurrent
  <2> QED  BY <1>2, <1>6, <2>1, <2>2 DEF CookieInv
<1> QED  BY <1>2, <1>5, <1>8, <1>9 DEF CookieInv

\* A login or a refresh writes the row: its tab alone holds the new token.
LEMMA CookieSave ==
  ASSUME ChecksInv, CookieInv, NEW t \in Tabs, SaveRefreshToken(t)
  PROVE  CookieInv'
<1>1. TypeOK /\ spoilt \subseteq Jars /\ jarOf[t] \in Jars
  BY DEF ChecksInv, TypeOK
<1>2. slot' = "current" /\ jarOf' = jarOf /\ jar' = StaleJars
  BY DEF SaveRefreshToken
<1>3. /\ spoilt' \subseteq Jars /\ Jars \ {jarOf[t]} \subseteq spoilt'
      /\ \A u \in Tabs \ {t} : Busy(u) => spoilt' = Jars
  BY <1>1 DEF SaveRefreshToken
<1>4. /\ tab'[t].pc = "answer" /\ tab'[t].token = "current"
      /\ \A u \in Tabs \ {t} : tab'[u].token # "current" /\ tab'[u].pc = tab[u].pc
  <2>1. /\ StaleTabs \in [Tabs -> Request]
        /\ tab' = [StaleTabs EXCEPT ![t].pc = "answer", ![t].token = "current"]
    BY <1>1, StaleTabsType DEF SaveRefreshToken
  <2>2. /\ tab'[t] = [StaleTabs[t] EXCEPT !.pc = "answer", !.token = "current"]
        /\ StaleTabs[t] \in Request
    BY <2>1
  <2>3. tab'[t].pc = "answer" /\ tab'[t].token = "current"
    BY <2>2 DEF Request
  <2>4. \A u \in Tabs \ {t} : tab'[u] = StaleTabs[u]
    BY <2>1
  <2> QED  BY <1>1, <2>3, <2>4, StaleTokens
<1>5. \A j \in Jars : HoldsCurrent(j)' => j = jarOf[t]
  BY <1>1, <1>2, <1>4, StaleTokens DEF HoldsCurrent
<1>6. \A u \in Tabs : tab'[u].pc \in {"clear", "answer"} => u = t \/ spoilt' = Jars
  BY <1>3, <1>4 DEF Busy
<1>7. Answering(jarOf[t])'
  BY <1>2, <1>4 DEF Answering
<1>8. \A j \in Jars \ spoilt' : Answering(j)'
  BY <1>2, <1>3, <1>7
<1>9. \A u \in Tabs : tab'[u].pc = "answer" /\ jarOf'[u] \notin spoilt' => tab'[u].token = slot'
  BY <1>1, <1>2, <1>4, <1>6 DEF TypeOK
<1>10. \A u \in Tabs : tab'[u].pc = "clear" => spoilt' = Jars
  BY <1>4, <1>6
<1> QED  BY <1>5, <1>8, <1>9, <1>10 DEF CookieInv

\* The answer stores its token.  With a sibling tab busy it promises nothing.
LEMMA CookieAnswer ==
  ASSUME ChecksInv, CookieInv, NEW t \in Tabs, Answer(t)
  PROVE  CookieInv'
<1>1. TypeOK /\ spoilt \subseteq Jars /\ jarOf[t] \in Jars /\ jar \in [Jars -> Tokens]
  BY DEF ChecksInv, TypeOK
<1>2. slot' = slot /\ jarOf' = jarOf /\ tab[t].pc = "answer"
  BY DEF Answer, userVars
<1>3. \A j \in Jars : jar'[j] = IF j = jarOf[t] THEN tab[t].token ELSE jar[j]
  BY <1>1 DEF Answer, Stored
<1>4. /\ tab'[t].token = "none" /\ tab'[t].pc \notin {"clear", "answer", "save"}
      /\ \A u \in Tabs \ {t} : tab'[u] = tab[u]
  <2>1. tab' = [tab EXCEPT ![t] = Resent(tab[t])] /\ tab \in [Tabs -> Request]
    BY <1>1 DEF Answer, TypeOK
  <2>2. /\ Resent(tab[t]).token = "none"
        /\ Resent(tab[t]).pc \notin {"clear", "answer", "save"}
    BY <2>1, ResentType
  <2> QED  BY <2>1, <2>2
<1>5. /\ spoilt' \subseteq spoilt /\ spoilt \subseteq spoilt' \cup {jarOf[t]}
      /\ \A u \in Tabs \ {t} : Busy(u) => spoilt' = spoilt
      /\ tab[t].token # slot => spoilt' = spoilt
  BY <1>1 DEF Answer
<1>6. \A j \in Jars : HoldsCurrent(j)' => HoldsCurrent(j)
  BY <1>2, <1>3, <1>4 DEF HoldsCurrent
<1>7. \A u \in Tabs : tab'[u].pc \in {"clear", "answer"} => tab'[u] = tab[u] /\ spoilt' = spoilt
  BY <1>4, <1>5 DEF Busy
<1>8. \A j \in Jars : Reissuing(j) => Reissuing(j)'
  BY <1>2, <1>4 DEF Reissuing
<1>9. \A j \in Jars \ {jarOf[t]} : Answering(j) => Answering(j)'
  BY <1>2, <1>4 DEF Answering
<1>10. ASSUME NEW j \in Jars \ spoilt'
       PROVE  jar'[j] = slot' \/ Reissuing(j)' \/ Answering(j)'
  <2>1. CASE j = jarOf[t] /\ tab[t].token = slot
    BY <1>2, <1>3, <2>1
  <2>2. CASE j = jarOf[t] /\ tab[t].token # slot
    BY <1>2, <1>5, <1>8, <1>10, <2>2 DEF CookieInv
  <2>3. CASE j # jarOf[t]
    <3>1. j \in Jars \ spoilt /\ jar'[j] = jar[j]
      BY <1>3, <1>5, <1>10, <2>3
    <3>2. jar[j] = slot \/ Reissuing(j) \/ Answering(j)
      BY <3>1 DEF CookieInv
    <3> QED  BY <1>2, <1>8, <1>9, <2>3, <3>1, <3>2
  <2> QED  BY <2>1, <2>2, <2>3
<1>11. ASSUME NEW u \in Tabs, tab'[u].pc = "answer", jarOf[u] \notin spoilt'
       PROVE  tab'[u].token = slot' \/ Reissuing(jarOf[u])'
  BY <1>1, <1>2, <1>7, <1>8, <1>11 DEF CookieInv, TypeOK
<1>12. \A i, j \in Jars : HoldsCurrent(i)' /\ HoldsCurrent(j)' => i = j
  BY <1>6 DEF CookieInv
<1>13. ASSUME NEW u \in Tabs, tab'[u].pc = "clear", tab'[u].token # "current", slot' = "current"
       PROVE  spoilt' = Jars
  BY <1>2, <1>7, <1>13 DEF CookieInv
<1> QED  BY <1>2, <1>10, <1>11, <1>12, <1>13 DEF CookieInv

\* A logout and a reset close every session.
LEMMA CookieEnds ==
  ASSUME TypeOK, spoilt' = Jars, jar' = StaleJars,
         UNCHANGED jarOf, slot' = "none",
         \A u \in Tabs : tab'[u].token # "current"
  PROVE  CookieInv'
BY StaleTokens DEF CookieInv, HoldsCurrent, TypeOK

LEMMA OvertakenTokens ==
  ASSUME TypeOK, NEW except \in SUBSET Tabs
  PROVE  /\ Overtake(except) \in [Tabs -> Request]
         /\ \A u \in Tabs : Overtake(except)[u].token # "current"
<1> DEFINE marked(u) == [StaleTabs[u] EXCEPT !.overtaken = TRUE]
<1>1. \A u \in Tabs : StaleTabs[u] \in Request
  BY StaleTabsType
<1>2. \A u \in Tabs : marked(u).token = StaleTabs[u].token
  BY <1>1 DEF Request
<1> HIDE DEF marked
<1>3. Overtake(except) =
        [u \in Tabs |-> IF u \notin except /\ tab[u].pc \in {"clear", "save"}
                          THEN marked(u) ELSE StaleTabs[u]]
  BY DEF Overtake, marked
<1>4. \A u \in Tabs : Overtake(except)[u].token = StaleTabs[u].token
  BY <1>2, <1>3
<1> QED  BY <1>4, OvertakeType, StaleTokens

\* The time of the token is up: the browser that held it is spoilt.
LEMMA CookieExpiry ==
  ASSUME ChecksInv, CookieInv, RefreshTokenExpires
  PROVE  CookieInv'
<1>1. TypeOK /\ jarOf' = jarOf /\ slot' = slot /\ slot = "current" /\ jar' = StaleJars
  BY DEF ChecksInv, RefreshTokenExpires, userVars
<1>2. spoilt' = spoilt \cup
       {j \in Jars : \/ jar[j] = "current"
                    \/ \E t \in Tabs : /\ jarOf[t] = j /\ tab[t].pc = "answer"
                                      /\ tab[t].token = "current"}
  BY DEF RefreshTokenExpires
<1>3. \A u \in Tabs : /\ tab'[u].pc = tab[u].pc /\ tab'[u].kind = tab[u].kind
                      /\ tab'[u].token = "current" => tab[u] = tab'[u] /\ tab[u].pc = "clear"
                      /\ tab[u].pc = "clear" => tab'[u] = tab[u]
  BY <1>1, ExpiryType, StaleTokens
<1>4. \A j \in Jars : HoldsCurrent(j)' => HoldsCurrent(j)
  BY <1>1, <1>3, StaleTokens DEF HoldsCurrent
<1>5. \A j \in Jars : Reissuing(j) => Reissuing(j)'
  BY <1>1, <1>3 DEF Reissuing
<1>6. ASSUME NEW j \in Jars \ spoilt'  PROVE Reissuing(j)'
  <2>1. jar[j] # slot /\ ~Answering(j)
    BY <1>1, <1>2, <1>6 DEF Answering
  <2>2. j \in Jars \ spoilt
    BY <1>2, <1>6
  <2> QED  BY <1>5, <2>1, <2>2 DEF CookieInv
<1>7. ASSUME NEW u \in Tabs, tab'[u].pc = "answer", jarOf[u] \notin spoilt'
      PROVE  Reissuing(jarOf[u])'
  BY <1>1, <1>6, <1>7 DEF TypeOK
<1>8. ASSUME NEW u \in Tabs, tab'[u].pc = "clear", tab'[u].token # "current"
      PROVE  spoilt' = Jars
  <2>1. spoilt = Jars
    BY <1>1, <1>3, <1>8 DEF CookieInv
  <2> QED  BY <1>2, <2>1
<1> QED  BY <1>1, <1>4, <1>6, <1>7, <1>8 DEF CookieInv

LEMMA StepCookies == ChecksInv /\ CookieInv /\ [Next]_vars => CookieInv'
<1> SUFFICES ASSUME ChecksInv, CookieInv, [Next]_vars  PROVE CookieInv'
  OBVIOUS
<1>1. TypeOK
  BY DEF ChecksInv
<1>2. ASSUME NEW t \in Tabs, LogoutClear(t)  PROVE CookieInv'
  <2>1. /\ tab' = [Overtake({t}) EXCEPT ![t] = Idle] /\ UNCHANGED jarOf
        /\ slot' = "none" /\ jar' = StaleJars /\ spoilt' = Jars
    BY <1>2 DEF LogoutClear
  <2>2. \A u \in Tabs : tab'[u].token # "current"
    BY <1>1, <2>1, OvertakenTokens DEF Idle
  <2> QED  BY <1>1, <2>1, <2>2, CookieEnds
<1>3. ASSUME NEW r \in Resets, ResetUpdate(r)  PROVE CookieInv'
  <2>1. /\ tab' = Overtake({}) /\ UNCHANGED jarOf
        /\ slot' = "none" /\ jar' = StaleJars /\ spoilt' = Jars
    BY <1>3 DEF ResetUpdate
  <2>2. \A u \in Tabs : tab'[u].token # "current"
    BY <1>1, <2>1, OvertakenTokens
  <2> QED  BY <1>1, <2>1, <2>2, CookieEnds
<1>4. ASSUME UNCHANGED <<jarOf, slot, jar, tab, spoilt>>  PROVE CookieInv'
  BY <1>4 DEF CookieInv, HoldsCurrent, Reissuing, Answering
<1>5. ASSUME \/ ForgotPassword \/ LinkExpires \/ UNCHANGED vars
             \/ \E r \in Resets, l \in 1 .. MaxLinks : ResetFind(r, l)
      PROVE  CookieInv'
  BY <1>4, <1>5 DEF ForgotPassword, LinkExpires, ResetFind, vars, userVars, tabVars, histVars
<1>6. ASSUME NEW t \in Tabs, ServerStep(t) \/ UserStep(t)  PROVE CookieInv'
  BY <1>2, <1>6, CookieOwnSteps, CookieClear, CookieSave, CookieAnswer
  DEF ServerStep, UserStep
<1> QED  BY <1>3, <1>5, <1>6, CookieExpiry DEF Next

\* With no tab between its check and its answer, the cookie of every browser
\* that nothing has spoilt is the token of the row and has time left:
\* AuthService.refresh takes it, whatever the tabs of that browser did one
\* after the other.
THEOREM UnspoiltCookiesWork == Spec => []SessionInv
<1>1. Init => ChecksInv /\ CookieInv
  BY InitChecks, InitCookies
<1>2. ChecksInv /\ CookieInv /\ [Next]_vars => (ChecksInv /\ CookieInv)'
  BY StepChecks, StepCookies
<1>3. ChecksInv /\ CookieInv => SessionInv
  <2> SUFFICES ASSUME ChecksInv, CookieInv, NEW j \in Jars \ spoilt, \A t \in Tabs : ~Busy(t)
               PROVE  jar[j] = slot
    BY DEF SessionInv, CookieWorks, ChecksInv
  <2>1. ~Reissuing(j) /\ ~Answering(j)
    BY DEF Reissuing, Answering, Busy
  <2> QED  BY <2>1 DEF CookieInv
<1> QED  BY <1>1, <1>2, <1>3, PTL DEF Spec
=============================================================================
