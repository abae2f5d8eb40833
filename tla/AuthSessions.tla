---------------------------- MODULE AuthSessions ----------------------------
(***************************************************************************)
(* The sessions of one user: AuthService and UsersService with the one     *)
(* refresh token they keep in the user's row, the access token guard, and  *)
(* the tabs of the browser with their interceptor, route guard and         *)
(* AuthService.  Tabs of one browser share its refresh_token cookie.       *)
(*                                                                         *)
(* Every query is a step.  A refresh token that has expired, or is no      *)
(* longer the one of the row, never is again, so what the row, a cookie or *)
(* a request holds is none, the current one or a stale one.                *)
(***************************************************************************)
EXTENDS Integers

CONSTANTS
  Tabs, Jars,          \* browser tabs, and the cookie jars of browsers
  Resets,              \* slots for password resets in flight
  MaxLinks             \* bound: password reset links ever mailed

VARIABLES
  jarOf,      \* the browser of each tab
  slot,       \* refresh_token_hash of the user
  jar,        \* the refresh_token cookie of each jar
  mem,        \* the access token each tab holds
  tab,        \* the request of each tab, between two awaits
  password,   \* which password is set: as many resets as it took
  link,       \* password_reset_token_hash, 0 when NULL or expired
  mailed,     \* reset links mailed
  reset,      \* each reset that is hashing its password: its link, or 0
  closed,     \* history: logout or a reset has ended the session
  spoilt      \* history: jars whose cookie something has cost its worth

userVars  == <<jarOf, slot, password, link, mailed>>
tabVars   == <<jar, mem, tab>>
histVars  == <<closed, spoilt>>
vars      == <<userVars, tabVars, reset, histVars>>

ASSUME SessionConstants == MaxLinks \in Nat

Tokens == {"none", "current", "stale"}

\* What a tab asks for: a page behind the route guard, an API call, a login
\* (or sign-up, or Google), a logout, or the refresh after a refused login.
Kinds == {"guard", "call", "login", "logout", "relogin"}

\* typed: the password of a login; overtaken: a logout or a reset came after
\* the check this request has passed.
Request ==
  [pc: {"idle", "sent", "verify", "clear", "save", "answer", "check", "logout_clear"},
   kind: Kinds \cup {"none"}, retried: BOOLEAN, token: Tokens,
   typed: Nat, overtaken: BOOLEAN]

Idle == [pc |-> "idle", kind |-> "none", retried |-> FALSE, token |-> "none", typed |-> 0,
         overtaken |-> FALSE]

NoReset == [link |-> 0, overtaken |-> FALSE]

TypeOK ==
  /\ jarOf \in [Tabs -> Jars]
  /\ slot \in {"none", "current"}
  /\ jar \in [Jars -> Tokens]
  /\ mem \in [Tabs -> {"none", "valid", "useless"}]
  /\ tab \in [Tabs -> Request]
  /\ password \in Nat /\ link \in 0 .. mailed /\ mailed \in 0 .. MaxLinks
  /\ reset \in [Resets -> [link: 0 .. mailed, overtaken: BOOLEAN]]
  /\ closed \in BOOLEAN /\ spoilt \subseteq Jars

Init ==
  /\ jarOf \in [Tabs -> Jars]
  /\ slot = "none" /\ jar = [j \in Jars |-> "none"]
  /\ mem = [t \in Tabs |-> "none"] /\ tab = [t \in Tabs |-> Idle]
  /\ password = 0 /\ link = 0 /\ mailed = 0 /\ reset = [r \in Resets |-> NoReset]
  /\ closed = FALSE /\ spoilt = {}

Goto(t, pc) == tab' = [tab EXCEPT ![t].pc = pc]
End(t)      == tab' = [tab EXCEPT ![t] = Idle]

\* Tabs whose request has changed the row, or is about to.
Busy(t) == tab[t].pc \in {"clear", "save", "answer", "logout_clear"}

-----------------------------------------------------------------------------
\* POST /auth/refresh with the cookie of the jar: the route guard of a tab
\* without a token, and the interceptor after a 401.  Without a cookie it is
\* refused at once.
SendRefresh(t) ==
  tab' = [tab EXCEPT ![t].pc = "verify", ![t].token = jar[jarOf[t]],
                     ![t].kind = IF @ = "login" THEN "relogin" ELSE @]

OpenRoute(t) ==
  /\ tab[t] = Idle /\ mem[t] = "none"
  /\ tab' = [tab EXCEPT ![t] = [Idle EXCEPT !.pc = "verify", !.kind = "guard",
                                            !.token = jar[jarOf[t]]]]
  /\ UNCHANGED <<userVars, jar, mem, reset, histVars>>

Call(t, kind) ==
  /\ tab[t] = Idle
  /\ tab' = [tab EXCEPT ![t] = [Idle EXCEPT !.pc = "sent", !.kind = kind]]
  /\ UNCHANGED <<userVars, jar, mem, reset, histVars>>

\* A login with the password that is set, or one that was.
Login(t, typed) ==
  /\ tab[t] = Idle /\ typed \in 0 .. password
  /\ tab' = [tab EXCEPT ![t] = [Idle EXCEPT !.pc = "check", !.kind = "login",
                                            !.typed = typed]]
  /\ UNCHANGED <<userVars, jar, mem, reset, histVars>>

\* The access token expires.
Expire(t) ==
  /\ mem[t] = "valid"
  /\ mem' = [mem EXCEPT ![t] = "useless"]
  /\ UNCHANGED <<userVars, jar, tab, reset, histVars>>

\* Mutant of Retry: refreshes on every 401.
RetryAlways(t) == SendRefresh(t)

\* refreshRetryInterceptor: one refresh for a request.
Retry(t) == IF tab[t].retried THEN End(t) ELSE SendRefresh(t)

\* JwtAccessGuard.  A logout goes on to blacklist the token of the tab.
Serve(t) ==
  /\ tab[t].pc = "sent"
  /\ IF mem[t] # "valid" THEN Retry(t)
     ELSE IF tab[t].kind = "logout" THEN Goto(t, "logout_clear")
     ELSE End(t)
  /\ mem' = IF mem[t] = "valid" /\ tab[t].kind = "logout"
              THEN [mem EXCEPT ![t] = "useless"] ELSE mem
  /\ UNCHANGED <<userVars, jar, reset, histVars>>

-----------------------------------------------------------------------------
\* Mutant of Verified: any token of the user that was ever signed.
VerifiedSigned(t) == tab[t].token # "none"

\* The signature, the expiry, and verifyRefreshToken against the row.
Verified(t) == slot # "none" /\ tab[t].token = slot

Verify(t) ==
  /\ tab[t].pc = "verify"
  /\ IF Verified(t) THEN Goto(t, "clear") ELSE End(t)
  /\ UNCHANGED <<userVars, jar, mem, reset, histVars>>

\* What becomes of the tokens when the row changes.
Stale(token) == IF token = "current" THEN "stale" ELSE token
StaleJars    == [j \in Jars |-> Stale(jar[j])]
StaleTabs    == [t \in Tabs |-> [tab[t] EXCEPT !.token = Stale(@)]]

ClearRefreshToken(t) ==
  /\ tab[t].pc = "clear"
  /\ slot' = "none" /\ jar' = StaleJars
  /\ tab' = [StaleTabs EXCEPT ![t].pc = "save"]
  /\ UNCHANGED <<jarOf, password, link, mailed, mem, reset, histVars>>

\* findByEmail and the comparison with the hash that was read.  A login that
\* is refused is a 401 like any other: the interceptor exempts the refresh only.
CheckPassword(t) ==
  /\ tab[t].pc = "check"
  /\ IF tab[t].typed = password THEN Goto(t, "save") ELSE Retry(t)
  /\ UNCHANGED <<userVars, jar, mem, reset, histVars>>

\* saveRefreshToken of a refresh or a login.  Other jars hold no current
\* token from here on, and this one may not if a sibling tab is busy.
SaveRefreshToken(t) ==
  /\ tab[t].pc = "save"
  /\ slot' = "current" /\ jar' = StaleJars
  /\ tab' = [StaleTabs EXCEPT ![t].pc = "answer", ![t].token = "current"]
  /\ closed' = FALSE
  /\ spoilt' = spoilt \cup (Jars \ {jarOf[t]})
                      \cup (IF \E u \in Tabs \ {t} : Busy(u) THEN {jarOf[t]} ELSE {})
  /\ UNCHANGED <<jarOf, password, link, mailed, mem, reset>>

\* Mutant of Stored: the tab keeps the cookie it had.
NotStored(t) == jar' = jar

\* Set-Cookie.
Stored(t) == jar' = [jar EXCEPT ![jarOf[t]] = tab[t].token]

\* buildRetryRequest: what the interceptor sends again after a refresh.
Resent(q) ==
  IF q.kind \in {"call", "logout"}
    THEN [Idle EXCEPT !.pc = "sent", !.kind = q.kind, !.retried = TRUE]
  ELSE IF q.kind = "relogin"
    THEN [Idle EXCEPT !.pc = "check", !.kind = "login", !.retried = TRUE, !.typed = q.typed]
  ELSE Idle

\* The answer reaches the tab: cookie and access token.
Answer(t) ==
  /\ tab[t].pc = "answer"
  /\ Stored(t)
  /\ mem' = [mem EXCEPT ![t] = "valid"]
  /\ tab' = [tab EXCEPT ![t] = Resent(tab[t])]
  /\ spoilt' = IF tab[t].token = slot /\ ~\E u \in Tabs \ {t} : Busy(u)
                 THEN spoilt \ {jarOf[t]} ELSE spoilt
  /\ UNCHANGED <<userVars, reset, closed>>

\* A query fails, the process stops or the answer is lost; what was written
\* stays.  The interceptor passes the 401 on.
Fail(t) ==
  /\ tab[t] # Idle
  /\ End(t)
  /\ spoilt' = IF \/ tab[t].pc = "answer"
                  \/ tab[t].pc = "save" /\ tab[t].kind # "login"
                 THEN spoilt \cup {jarOf[t]} ELSE spoilt
  /\ UNCHANGED <<userVars, jar, mem, reset, closed>>

\* The time of the refresh token is up: neither the cookie nor the token in a
\* request that is not verified yet, or in an answer, is of use any more.
\* The row keeps its hash.
RefreshTokenExpires ==
  /\ slot = "current"
  /\ jar' = StaleJars
  /\ tab' = [t \in Tabs |-> IF tab[t].pc = "clear" THEN tab[t] ELSE StaleTabs[t]]
  /\ spoilt' = spoilt \cup
       {j \in Jars : \/ jar[j] = "current"
                    \/ \E t \in Tabs : /\ jarOf[t] = j /\ tab[t].pc = "answer"
                                      /\ tab[t].token = "current"}
  /\ UNCHANGED <<userVars, mem, reset, closed>>

\* The requests that have passed their check are overtaken.
Overtake(except) ==
  [t \in Tabs |-> IF t \notin except /\ tab[t].pc \in {"clear", "save"}
                    THEN [StaleTabs[t] EXCEPT !.overtaken = TRUE] ELSE StaleTabs[t]]

\* logout clears the row; the tab forgets its token; the cookie stays.
LogoutClear(t) ==
  /\ tab[t].pc = "logout_clear"
  /\ slot' = "none" /\ jar' = StaleJars
  /\ closed' = TRUE /\ spoilt' = Jars
  /\ tab' = [Overtake({t}) EXCEPT ![t] = Idle]
  /\ mem' = [mem EXCEPT ![t] = "none"]
  /\ UNCHANGED <<jarOf, password, link, mailed, reset>>

-----------------------------------------------------------------------------
\* The resets in flight are overtaken by what happens to the link.
Outdated == [r \in Resets |-> IF reset[r] = NoReset THEN NoReset
                              ELSE [reset[r] EXCEPT !.overtaken = TRUE]]

\* forgotPassword: a new link replaces the one before.
ForgotPassword ==
  /\ mailed < MaxLinks
  /\ mailed' = mailed + 1 /\ link' = mailed + 1
  /\ reset' = Outdated
  /\ UNCHANGED <<jarOf, slot, password, tabVars, histVars>>

\* Mutant of LinkValid: any link that was mailed.
LinkMailed(l) == l <= mailed

LinkValid(l) == l = link

\* resetPassword up to the hashing: the row is found by the link's hash, and
\* the link has not expired.
ResetFind(r, l) ==
  /\ reset[r] = NoReset /\ l \in 1 .. mailed /\ LinkValid(l)
  /\ reset' = [reset EXCEPT ![r].link = l]
  /\ UNCHANGED <<userVars, tabVars, histVars>>

\* updatePasswordAndClearReset, by the id of the user.
ResetUpdate(r) ==
  /\ reset[r] # NoReset
  /\ password' = password + 1
  /\ link' = 0 /\ slot' = "none" /\ jar' = StaleJars
  /\ closed' = TRUE /\ spoilt' = Jars
  /\ reset' = [Outdated EXCEPT ![r] = NoReset]
  /\ tab' = Overtake({})
  /\ UNCHANGED <<jarOf, mailed, mem>>

LinkExpires ==
  /\ link # 0 /\ link' = 0
  /\ reset' = Outdated
  /\ UNCHANGED <<jarOf, slot, password, mailed, tabVars, histVars>>

ServerStep(t) ==
  \/ Serve(t) \/ Verify(t) \/ ClearRefreshToken(t) \/ CheckPassword(t)
  \/ SaveRefreshToken(t) \/ Answer(t) \/ LogoutClear(t)

UserStep(t) ==
  \/ OpenRoute(t) \/ Expire(t) \/ Fail(t)
  \/ \E typed \in 0 .. MaxLinks : Login(t, typed)
  \/ \E kind \in {"call", "logout"} : Call(t, kind)

Next ==
  \/ \E t \in Tabs : ServerStep(t) \/ UserStep(t)
  \/ ForgotPassword \/ LinkExpires \/ RefreshTokenExpires
  \/ \E r \in Resets : ResetUpdate(r) \/ \E l \in 1 .. MaxLinks : ResetFind(r, l)

\* The server answers what it was sent.
Spec == Init /\ [][Next]_vars /\ \A t \in Tabs : WF_vars(ServerStep(t))

-----------------------------------------------------------------------------
\* A cookie that nothing has spoilt works: at rest it is the token of the
\* row.  What spoils it: a login or a refresh in another browser, a logout,
\* a reset, a refresh that overlaps one of a sibling tab, one that fails after
\* it has cleared the row or whose answer is lost, and the end of its time.
CookieWorks ==
  \A j \in Jars \ spoilt : (\A t \in Tabs : ~Busy(t)) => jar[j] = slot

\* The types of the row, the tabs and the links, and the cookies.
SessionInv == TypeOK /\ CookieWorks

(***************************************************************************)
(* Why it works: the current token is held in one browser only; a cookie   *)
(* that is not the token of the row is about to be replaced, by a tab that *)
(* has the new one or will write it; and a refresh whose token has been    *)
(* overwritten since it was verified leaves every cookie spoilt.           *)
(***************************************************************************)
HoldsCurrent(j) ==
  jar[j] = "current" \/ \E t \in Tabs : jarOf[t] = j /\ tab[t].token = "current"

Reissuing(j) ==
  \E t \in Tabs : jarOf[t] = j /\ tab[t].pc = "save" /\ tab[t].kind # "login"

Answering(j) ==
  \E t \in Tabs : jarOf[t] = j /\ tab[t].pc = "answer" /\ tab[t].token = slot

CookieInv ==
  /\ \A i, j \in Jars : HoldsCurrent(i) /\ HoldsCurrent(j) => i = j
  /\ \A t \in Tabs :
       tab[t].pc = "clear" /\ tab[t].token # "current" /\ slot = "current" => spoilt = Jars
  /\ \A j \in Jars \ spoilt : jar[j] = slot \/ Reissuing(j) \/ Answering(j)
  /\ \A t \in Tabs :
       tab[t].pc = "answer" /\ jarOf[t] \notin spoilt
         => tab[t].token = slot \/ Reissuing(jarOf[t])

-----------------------------------------------------------------------------
(***************************************************************************)
(* What a request that has passed a check may rely on: the check still     *)
(* holds, or the request is marked as overtaken.                           *)
(***************************************************************************)
PasswordChecked(q) ==
  /\ q.pc = "check" => q.kind = "login"
  /\ q.kind = "login" => q.pc \in {"check", "save", "answer"}
  /\ q.pc = "save" /\ q.kind = "login" => q.typed = password \/ q.overtaken

EndedIsEnded(q) ==
  closed => /\ q.pc = "clear" => q.overtaken
            /\ q.pc = "save"  => q.kind = "login" \/ q.overtaken

LinkChecked ==
  \A r \in Resets : reset[r] # NoReset => reset[r].link = link \/ reset[r].overtaken

ChecksInv ==
  /\ TypeOK
  /\ \A t \in Tabs : PasswordChecked(tab[t]) /\ EndedIsEnded(tab[t])
  /\ LinkChecked
  /\ closed => slot = "none"

\* A session that a logout or a reset has ended is opened again by a login
\* only, or by a refresh that had passed its check before and saves its new
\* token afterwards (refresh does not look again).
EndedSessionReopensOnly ==
  [][closed /\ ~closed' =>
       \E t \in Tabs : /\ tab[t].pc = "save"
                       /\ tab[t].kind = "login" \/ tab[t].overtaken]_vars

\* What was checked still holds when it is acted upon, unless it changed
\* meanwhile: a login opens a session with the password that is set unless a
\* reset has come between the comparison and the new token, and a reset sets
\* a password with the link of the row unless the link was used, replaced or
\* expired while the new password was hashed.
StaleChecksOnlyOvertaken ==
  [][/\ \A t \in Tabs :
          tab[t].kind = "login" /\ tab[t].pc = "save" /\ tab'[t].pc = "answer"
            => tab[t].typed = password \/ tab[t].overtaken
     /\ \A r \in Resets :
          reset[r] # NoReset /\ reset'[r] = NoReset
            => reset[r].link = link \/ reset[r].overtaken]_vars

\* A request of a tab ends, whatever becomes of the tokens: the interceptor
\* refreshes and retries at most once.
CallsEnd == \A t \in Tabs : (tab[t].pc # "idle") ~> (tab[t].pc = "idle")
=============================================================================
