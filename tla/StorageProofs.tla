---------------------------- MODULE StorageProofs ----------------------------
(***************************************************************************)
(* Theorems about the usage of the accounts outside the vault's own        *)
(* requests: DirectUpload, for any number of uploads, requests, parts and  *)
(* bytes, and StorageRecalc, for any number of accounts, bytes and rows of *)
(* a page.                                                                 *)
(***************************************************************************)
EXTENDS DirectUpload, StorageRecalc, SelectorProofs

-----------------------------------------------------------------------------
LEMMA IdleOK == Idle \in Request /\ LocalsOK(Idle) /\ NoSession.next = 0
BY DEF Idle, Request, LocalsOK, NoSession

LEMMA LocalsType ==
  ASSUME SigningInv, NEW r \in Requests
  PROVE  req[r] \in Request /\ LocalsOK(req[r])
BY DEF SigningInv, TypeOK

\* NoSession is not a session: it is on no account.
LEMMA SessionOrNot == NoSession \notin Session
BY DirectConstants DEF NoSession, Session

LEMMA SessionSize == \A s \in Session : s.size \in Nat
<1>1. Sizes \subseteq Nat
  BY DirectConstants
<1> QED  BY <1>1 DEF Session

\* Steps that write nothing but the locals of r.
LEMMA LocalStep ==
  ASSUME SigningInv, NEW r \in Requests, NEW local \in Request, LocalsOK(local),
         req' = [req EXCEPT ![r] = local],
         UNCHANGED <<acct, stored, session, signed, held>>
  PROVE  SigningInv'
<1>1. req' \in [Requests -> Request] /\ \A q \in Requests : LocalsOK(req'[q])
  BY DEF SigningInv, TypeOK
<1>2. \A q \in Requests : LocalsOK(req[q])'
  BY <1>1 DEF LocalsOK, SignedBelow, Settled, Unused
<1> QED  BY <1>1, <1>2 DEF SigningInv, TypeOK, SequentialSigning, SignedBelow, Unused

\* A step that also writes the accounts and the reservations, but reopens no
\* settled reservation.
LEMMA SettlingStep ==
  ASSUME SigningInv, NEW r \in Requests, NEW local \in Request,
         req' = [req EXCEPT ![r] = local], LocalsOK(local)',
         acct' \in [Accounts -> Row],
         stored' \in [Uploads -> [rows: Nat, bytes: Nat]],
         held' \in [Uploads -> [account: Accounts \cup {None}, bytes: Nat]],
         \A u \in Uploads : /\ Settled(u) => Settled(u)'
                            /\ ~Unused(u) => ~Unused(u)',
         UNCHANGED <<session, signed>>
  PROVE  SigningInv'
<1>1. req' \in [Requests -> Request]
  BY DEF SigningInv, TypeOK
<1>2. \A q \in Requests : LocalsOK(req[q])'
  <2> SUFFICES ASSUME NEW q \in Requests PROVE LocalsOK(req[q])'
    OBVIOUS
  <2>1. CASE q = r
    BY <2>1 DEF LocalsOK, SigningInv, TypeOK
  <2>2. CASE q # r
    <3>1. req'[q] = req[q] /\ LocalsOK(req[q])
      BY <2>2 DEF SigningInv, TypeOK
    <3> QED  BY <3>1 DEF LocalsOK, SignedBelow
  <2> QED  BY <2>1, <2>2
<1>3. (\A u \in Uploads : SignedBelow(u, session[u].next))'
  BY DEF SigningInv, SignedBelow
<1>4. (\A u \in Uploads : session[u] # NoSession => ~Unused(u))'
  <2>1. \A u \in Uploads : session[u] # NoSession => ~Unused(u)
    BY DEF SigningInv
  <2> QED  BY <2>1 DEF Unused
<1> QED  BY <1>1, <1>2, <1>3, <1>4 DEF SigningInv, TypeOK, SequentialSigning

\* A step that ends r and writes its session and what is signed for it.
LEMMA SessionStep ==
  ASSUME SigningInv, NEW r \in Requests, NEW u \in Uploads,
         NEW s \in Session \cup {NoSession}, NEW sig \in SUBSET Nat,
         Finish(r), ~Unused(u),
         session' = [session EXCEPT ![u] = s],
         signed' = [signed EXCEPT ![u] = sig],
         signed[u] \subseteq sig,
         \A i \in sig : 0..i \subseteq sig,
         0..(s.next - 1) \subseteq sig,
         UNCHANGED <<acct, stored, held>>
  PROVE  SigningInv'
<1>1. /\ session' \in [Uploads -> Session \cup {NoSession}]
      /\ signed' \in [Uploads -> SUBSET Nat]
      /\ req' \in [Requests -> Request]
      /\ \A q \in Requests : LocalsOK(req'[q])
  BY IdleOK DEF SigningInv, TypeOK, Finish
<1>2. \A v \in Uploads : signed[v] \subseteq signed'[v]
  BY DEF SigningInv, TypeOK
<1>3. \A q \in Requests : LocalsOK(req[q])'
  <2> SUFFICES ASSUME NEW q \in Requests PROVE LocalsOK(req[q])'
    OBVIOUS
  <2>1. LocalsOK(req'[q])
    BY <1>1
  <2> QED  BY <1>2, <2>1 DEF LocalsOK, SignedBelow, Settled, Unused
<1>4. (\A v \in Uploads : SignedBelow(v, session[v].next))'
  <2>1. \A v \in Uploads : SignedBelow(v, session[v].next)
    BY DEF SigningInv
  <2> SUFFICES ASSUME NEW v \in Uploads PROVE 0..(session'[v].next - 1) \subseteq signed'[v]
    BY DEF SignedBelow
  <2> QED  BY <2>1 DEF SigningInv, TypeOK, SignedBelow
<1>6. (\A v \in Uploads : session[v] # NoSession => ~Unused(v))'
  <2>1. \A v \in Uploads : session[v] # NoSession => ~Unused(v)
    BY DEF SigningInv
  <2> QED  BY <2>1 DEF SigningInv, TypeOK, Unused
<1>5. SequentialSigning'
  <2> SUFFICES ASSUME NEW v \in Uploads PROVE \A i \in signed'[v] : 0..i \subseteq signed'[v]
    BY DEF SequentialSigning
  <2> QED  BY DEF SigningInv, TypeOK, SequentialSigning
<1> QED  BY <1>1, <1>3, <1>4, <1>5, <1>6 DEF SigningInv, TypeOK

-----------------------------------------------------------------------------
LEMMA AdjustedUsageType ==
  ASSUME NEW used \in Nat, NEW delta \in Int
  PROVE  AdjustedUsage(used, delta) \in Nat
BY DEF AdjustedUsage

\* The account that initUpload reserves on.
LEMMA SelectionType ==
  ASSUME SigningInv, NEW size \in Nat, SelectAccount(acct, size) # None
  PROVE  SelectAccount(acct, size) \in Accounts
<1>1. \A a \in ActiveAccounts(acct) : acct[a].slot \in 0..2
  BY DEF SigningInv, TypeOK, ActiveAccounts, Row
<1>2. SelectAccount(acct, size) \in Fitting(acct, size)
  BY <1>1, SelectionIsFirstFit
<1> QED  BY <1>2 DEF Fitting, ActiveAccounts, SigningInv, TypeOK

\* The save of adjustAccountUsage keeps the rows' types.
LEMMA SaveUsageType ==
  ASSUME SigningInv, NEW r \in Requests, NEW delta \in Int, req[r].pc # "idle",
         SaveUsage(r, delta)
  PROVE  acct' \in [Accounts -> Row]
<1>1. /\ req[r].used \in Nat /\ req[r].session.account \in Accounts
      /\ acct \in [Accounts -> Row]
  BY LocalsType DEF SigningInv, TypeOK, Request, LocalsOK, Session
<1>2. PICK used \in Nat : used = AdjustedUsage(req[r].used, delta)
  BY <1>1, AdjustedUsageType
<1>3. acct' = [acct EXCEPT ![req[r].session.account].used = used]
  BY <1>2 DEF SaveUsage
<1> QED  BY <1>1, <1>2, <1>3 DEF Row

(***************************************************************************)
(* initUpload.                                                             *)
(***************************************************************************)
LEMMA InitKeepsInv ==
  ASSUME SigningInv, NEW r \in Requests
  PROVE  /\ \A u \in Uploads, size \in Sizes : InitReserve(r, u, size) => SigningInv'
         /\ InitStore(r) => SigningInv'
<1> USE DirectConstants
<1>1. ASSUME NEW u \in Uploads, NEW size \in Sizes, InitReserve(r, u, size)
      PROVE  SigningInv'
  <2>1. SelectAccount(acct, size) # None /\ Unused(u)
    BY <1>1 DEF InitReserve
  <2>2. PICK a \in Accounts : a = SelectAccount(acct, size)
    BY <2>1, SelectionType
  <2> DEFINE first == [account |-> a, size |-> size, next |-> 1]
             local == [Idle EXCEPT !.pc = "init_store", !.u = u, !.session = first]
  <2>3. /\ req' = [req EXCEPT ![r] = local]
        /\ acct' = [acct EXCEPT ![a].used = AdjustedUsage(@, size)]
        /\ held' = [held EXCEPT ![u] = [account |-> a, bytes |-> size]]
        /\ UNCHANGED <<stored, session, signed>>
    BY <1>1, <2>2 DEF InitReserve, Start
  <2>4. local \in Request /\ LocalsOK(local)'
    <3>1. first \in Session /\ first.next = 1
      BY DEF Session
    <3> HIDE DEF first
    <3>2. /\ local \in Request /\ local.pc = "init_store" /\ local.u = u
          /\ local.session = first
      BY <3>1 DEF Idle, Request, DirectPcs
    <3> HIDE DEF local
    <3>3. ~Unused(u)'
      BY <2>3 DEF Unused, SigningInv, TypeOK
    <3> QED  BY <3>1, <3>2, <3>3 DEF LocalsOK
  <2>5. acct' \in [Accounts -> Row]
    <3>1. acct \in [Accounts -> Row] /\ acct[a].used \in Nat /\ size \in Int
      BY DEF SigningInv, TypeOK, Row
    <3>2. PICK used \in Nat : used = AdjustedUsage(acct[a].used, size)
      BY <3>1, AdjustedUsageType
    <3>3. acct' = [acct EXCEPT ![a].used = used]
      BY <2>3, <3>2
    <3> QED  BY <3>1, <3>2, <3>3 DEF Row
  <2>6. held' \in [Uploads -> [account: Accounts \cup {None}, bytes: Nat]]
    BY <2>3 DEF SigningInv, TypeOK
  <2>7. ASSUME NEW v \in Uploads, ~Unused(v)
        PROVE  held'[v] = held[v]
    BY <2>1, <2>3, <2>7 DEF SigningInv, TypeOK, Unused
  <2>9. \A v \in Uploads : /\ Settled(v) => Settled(v)'
                           /\ ~Unused(v) => ~Unused(v)'
    BY <2>7 DEF Settled, Unused
  <2>8. stored' \in [Uploads -> [rows: Nat, bytes: Nat]]
    BY <2>3 DEF SigningInv, TypeOK
  <2> HIDE DEF local
  <2> QED  BY <2>3, <2>4, <2>5, <2>6, <2>8, <2>9, SettlingStep
<1>2. ASSUME InitStore(r)  PROVE SigningInv'
  <2> DEFINE u == req[r].u
             s == req[r].session
             sig == signed[u] \cup {0}
  <2>1. u \in Uploads /\ ~Unused(u) /\ s \in Session /\ s.next = 1
    BY <1>2, LocalsType DEF InitStore, LocalsOK
  <2>2. /\ session' = [session EXCEPT ![u] = s] /\ Finish(r)
        /\ signed' = [signed EXCEPT ![u] = sig]
        /\ UNCHANGED <<acct, stored, held>>
    BY <1>2 DEF InitStore
  <2>3. signed[u] \in SUBSET Nat /\ \A i \in signed[u] : 0..i \subseteq signed[u]
    BY <2>1 DEF SigningInv, TypeOK, SequentialSigning
  <2>4. /\ sig \in SUBSET Nat /\ signed[u] \subseteq sig
        /\ \A i \in sig : 0..i \subseteq sig
        /\ 0..(s.next - 1) \subseteq sig
    BY <2>1, <2>3
  <2> HIDE DEF sig
  <2> QED  BY <2>1, <2>2, <2>4, SessionStep
<1> QED  BY <1>1, <1>2

(***************************************************************************)
(* signNextPart.                                                           *)
(***************************************************************************)
LEMMA SignKeepsInv ==
  ASSUME SigningInv, NEW r \in Requests
  PROVE  /\ \A u \in Uploads, part \in 0..(MaxParts - 1) : SignRead(r, u, part) => SigningInv'
         /\ SignStore(r) => SigningInv'
<1>1. ASSUME NEW u \in Uploads, NEW part \in 0..(MaxParts - 1), SignRead(r, u, part)
      PROVE  SigningInv'
  <2> DEFINE local == [Idle EXCEPT !.pc = "sign_store", !.u = u, !.session = session[u]]
  <2>1. session[u] \in Session /\ SignedBelow(u, session[u].next) /\ ~Unused(u)
    BY <1>1 DEF SignRead, SigningInv, TypeOK
  <2>2. local \in Request /\ LocalsOK(local)
    BY <2>1 DEF Idle, Request, DirectPcs, LocalsOK
  <2>3. req' = [req EXCEPT ![r] = local] /\ UNCHANGED <<acct, stored, session, signed, held>>
    BY <1>1 DEF SignRead, Start
  <2> QED  BY ONLY SigningInv, <2>2, <2>3, LocalStep
<1>2. ASSUME SignStore(r)  PROVE SigningInv'
  <2> DEFINE u   == req[r].u
             n   == req[r].session.next
             s   == [req[r].session EXCEPT !.next = n + 1]
             sig == signed[u] \cup {n}
  <2>1. u \in Uploads /\ ~Unused(u) /\ req[r].session \in Session /\ SignedBelow(u, n)
    BY <1>2, LocalsType DEF SignStore, LocalsOK
  <2>2. s \in Session /\ n \in Nat /\ s.next = n + 1
    BY <2>1 DEF Session
  <2>3. /\ session' = [session EXCEPT ![u] = s] /\ Finish(r)
        /\ signed' = [signed EXCEPT ![u] = sig]
        /\ UNCHANGED <<acct, stored, held>>
    BY <1>2 DEF SignStore
  <2>4. signed[u] \in SUBSET Nat /\ \A i \in signed[u] : 0..i \subseteq signed[u]
    BY <2>1 DEF SigningInv, TypeOK, SequentialSigning
  <2>5. 0..n \subseteq sig
    BY <2>1, <2>2 DEF SignedBelow
  <2>6. \A i \in sig : 0..i \subseteq sig
    BY <2>4, <2>5
  <2>7. sig \in SUBSET Nat /\ 0..(s.next - 1) \subseteq sig
    BY <2>2, <2>4, <2>5
  <2> HIDE DEF s, sig
  <2> QED  BY <2>1, <2>2, <2>3, <2>6, <2>7, SessionStep DEF sig
<1> QED  BY <1>1, <1>2

(***************************************************************************)
(* completeUpload and abortUpload.                                         *)
(***************************************************************************)
\* Steps of r that only change where it is and the usage it has loaded.
LEMMA SameSessionOK ==
  ASSUME SigningInv, NEW r \in Requests, req[r].pc # "idle",
         NEW pc \in {"complete_commit", "abort_commit"}, NEW used \in Nat
  PROVE  /\ [req[r] EXCEPT !.pc = pc, !.used = used] \in Request
         /\ LocalsOK([req[r] EXCEPT !.pc = pc, !.used = used])
<1> DEFINE local == [req[r] EXCEPT !.pc = pc, !.used = used]
<1>1. req[r] \in Request /\ LocalsOK(req[r])
  BY LocalsType
<1>2. local \in Request
  BY <1>1 DEF Request, DirectPcs
<1>3. local.pc = pc /\ local.u = req[r].u /\ local.session = req[r].session
  BY <1>1 DEF Request
<1> HIDE DEF local
<1>4. LocalsOK(local)
  BY <1>1, <1>3 DEF LocalsOK
<1> QED  BY <1>2, <1>4 DEF local

LEMMA LoadKeepsInv ==
  ASSUME SigningInv, NEW r \in Requests
  PROVE  CompleteLoad(r) \/ AbortLoad(r) => SigningInv'
<1> SUFFICES ASSUME NEW from \in {"complete_load", "abort_load"},
                    NEW to \in {"complete_commit", "abort_commit"},
                    LoadUsage(r, from, to)
             PROVE  SigningInv'
  BY DEF CompleteLoad, AbortLoad
<1> DEFINE used  == acct[req[r].session.account].used
           local == [req[r] EXCEPT !.pc = to, !.used = used]
<1>1. req[r].pc # "idle"
  BY DEF LoadUsage
<1>2. used \in Nat
  BY <1>1, LocalsType DEF LocalsOK, Session, SigningInv, TypeOK, Row
<1> HIDE DEF used
<1>3. local \in Request /\ LocalsOK(local)
  BY <1>1, <1>2, SameSessionOK
<1>4. req' = [req EXCEPT ![r] = local]
  BY DEF LoadUsage, used, SigningInv, TypeOK, Request
<1>5. UNCHANGED <<acct, stored, session, signed, held>>
  BY DEF LoadUsage
<1> HIDE DEF local
<1> QED  BY ONLY SigningInv, <1>3, <1>4, <1>5, LocalStep

LEMMA ReadKeepsInv ==
  ASSUME SigningInv, NEW r \in Requests, NEW u \in Uploads
  PROVE  /\ \A final \in FinalSizes : CompleteRead(r, u, final) => SigningInv'
         /\ AbortRead(r, u) => SigningInv'
<1> USE DirectConstants
<1>1. ASSUME NEW final \in FinalSizes, CompleteRead(r, u, final)  PROVE SigningInv'
  <2> DEFINE local == [Idle EXCEPT !.pc = "complete_load", !.u = u, !.session = session[u],
                         !.final = final]
  <2>1. session[u] \in Session /\ ~Unused(u)
    BY <1>1 DEF CompleteRead, SigningInv, TypeOK
  <2>2. local \in Request /\ LocalsOK(local)
    BY <2>1 DEF Idle, Request, DirectPcs, LocalsOK
  <2>3. req' = [req EXCEPT ![r] = local] /\ UNCHANGED <<acct, stored, session, signed, held>>
    BY <1>1 DEF CompleteRead, Start
  <2> QED  BY ONLY SigningInv, <2>2, <2>3, LocalStep
<1>2. ASSUME AbortRead(r, u)  PROVE SigningInv'
  <2> DEFINE local == [Idle EXCEPT !.pc = "abort_load", !.u = u, !.session = session[u]]
  <2>1. session[u] \in Session /\ ~Unused(u)
    BY <1>2 DEF AbortRead, SigningInv, TypeOK
  <2>2. local \in Request /\ LocalsOK(local)
    BY <2>1 DEF Idle, Request, DirectPcs, LocalsOK
  <2>3. req' = [req EXCEPT ![r] = local] /\ UNCHANGED <<acct, stored, session, signed, held>>
    BY <1>2 DEF AbortRead, Start
  <2> QED  BY ONLY SigningInv, <2>2, <2>3, LocalStep
<1> QED  BY <1>1, <1>2

\* The commit of complete or abort: r goes on to delete the session.
LEMMA SettlementKeepsInv ==
  ASSUME SigningInv, NEW r \in Requests, NEW pc \in {"complete_del", "abort_del"},
         NEW delta \in Int, req[r].pc # "idle",
         Goto(r, pc), SaveUsage(r, delta),
         held' = [held EXCEPT ![req[r].u].bytes = 0],
         stored' \in [Uploads -> [rows: Nat, bytes: Nat]],
         UNCHANGED <<session, signed>>
  PROVE  SigningInv'
<1> DEFINE u == req[r].u
<1>1. req[r] \in Request /\ u \in Uploads /\ req[r].session \in Session /\ ~Unused(u)
  BY LocalsType DEF LocalsOK
<1>2. /\ held' \in [Uploads -> [account: Accounts \cup {None}, bytes: Nat]]
      /\ held'[u].bytes = 0
      /\ \A v \in Uploads : held'[v].account = held[v].account
      /\ \A v \in Uploads : held[v].bytes = 0 => held'[v].bytes = 0
  BY <1>1 DEF SigningInv, TypeOK
<1>3. \A v \in Uploads : /\ Settled(v) => Settled(v)'
                         /\ ~Unused(v) => ~Unused(v)'
  BY <1>2 DEF Settled, Unused
<1>4. PICK v \in Uploads : v = u
  BY <1>1
<1>5. ~Unused(v)' /\ Settled(v)'
  BY <1>1, <1>2, <1>4 DEF Settled, Unused
<1> DEFINE local == [req[r] EXCEPT !.pc = pc]
<1>6. PICK after \in Request : /\ after = local /\ after.pc = pc
                               /\ after.u = v /\ after.session \in Session
  <2>1. local \in Request
    BY <1>1 DEF Request, DirectPcs
  <2>2. local.pc = pc /\ local.u = v /\ local.session \in Session
    BY <1>1, <1>4 DEF Request
  <2> QED  BY <2>1, <2>2
<1>7. LocalsOK(after)'
  BY <1>5, <1>6 DEF LocalsOK
<1>8. req' = [req EXCEPT ![r] = after]
  BY <1>6 DEF Goto, SigningInv, TypeOK
<1>9. acct' \in [Accounts -> Row]
  BY SaveUsageType
<1> QED  BY <1>2, <1>3, <1>7, <1>8, <1>9, SettlingStep

LEMMA CommitKeepsInv ==
  ASSUME SigningInv, NEW r \in Requests
  PROVE  /\ CompleteCommit(r) => SigningInv'
         /\ AbortCommit(r) => SigningInv'
<1>1. req[r] \in Request
  BY LocalsType
<1>2. ASSUME CompleteCommit(r)  PROVE SigningInv'
  <2>1. req[r].pc # "idle" /\ req[r].u \in Uploads /\ req[r].session \in Session
    BY <1>2, LocalsType DEF CompleteCommit, LocalsOK
  <2>2. req[r].final - req[r].session.size \in Int /\ req[r].final \in Nat
    BY <1>1, <2>1, SessionSize DEF Request
  <2>3. stored' \in [Uploads -> [rows: Nat, bytes: Nat]]
    BY <1>2, <2>1, <2>2 DEF CompleteCommit, SigningInv, TypeOK
  <2> QED  BY <1>2, <2>1, <2>2, <2>3, SettlementKeepsInv DEF CompleteCommit
<1>3. ASSUME AbortCommit(r)  PROVE SigningInv'
  <2>1. req[r].pc # "idle" /\ req[r].session \in Session
    BY <1>3, LocalsType DEF AbortCommit, LocalsOK
  <2>2. -req[r].session.size \in Int
    BY <2>1, SessionSize
  <2>3. stored' \in [Uploads -> [rows: Nat, bytes: Nat]]
    BY <1>3 DEF AbortCommit, SigningInv, TypeOK
  <2> QED  BY <1>3, <2>1, <2>2, <2>3, SettlementKeepsInv DEF AbortCommit
<1> QED  BY <1>2, <1>3

LEMMA DelKeepsInv ==
  ASSUME SigningInv, NEW r \in Requests
  PROVE  CompleteDel(r) \/ AbortDel(r) => SigningInv'
<1> SUFFICES ASSUME NEW from \in {"complete_del", "abort_del"}, ClearSession(r, from)
             PROVE  SigningInv'
  BY DEF CompleteDel, AbortDel
<1> DEFINE u == req[r].u
<1>1. u \in Uploads /\ ~Unused(u)
  BY LocalsType DEF ClearSession, LocalsOK
<1>2. signed[u] \in SUBSET Nat /\ \A i \in signed[u] : 0..i \subseteq signed[u]
  BY <1>1 DEF SigningInv, TypeOK, SequentialSigning
<1>3. /\ session' = [session EXCEPT ![u] = NoSession] /\ Finish(r)
      /\ UNCHANGED <<acct, stored, signed, held>>
  BY DEF ClearSession
<1>4. signed' = [signed EXCEPT ![u] = signed[u]]
  BY <1>3 DEF SigningInv, TypeOK
<1>5. 0..(NoSession.next - 1) \subseteq signed[u]
  BY DEF NoSession
<1> QED  BY <1>1, <1>2, <1>3, <1>4, <1>5, SessionStep

LEMMA ExpireKeepsInv ==
  ASSUME SigningInv, NEW u \in Uploads, Expire(u)
  PROVE  SigningInv'
<1>1. session' = [session EXCEPT ![u] = NoSession] /\ UNCHANGED <<acct, stored, req, signed, held>>
  BY DEF Expire
<1>2. session' \in [Uploads -> Session \cup {NoSession}]
  BY <1>1 DEF SigningInv, TypeOK
<1>3. (\A v \in Uploads : SignedBelow(v, session[v].next))'
  BY <1>1, IdleOK DEF SigningInv, TypeOK, SignedBelow
<1>4. (\A v \in Uploads : session[v] # NoSession => ~Unused(v))'
  <2>1. \A v \in Uploads : session[v] # NoSession => ~Unused(v)
    BY DEF SigningInv
  <2> QED  BY <1>1, <2>1 DEF SigningInv, TypeOK, Unused
<1>5. (\A r \in Requests : LocalsOK(req[r]))'
  <2>1. \A r \in Requests : LocalsOK(req[r])
    BY DEF SigningInv
  <2> QED  BY <1>1, <2>1 DEF LocalsOK, SignedBelow, Settled, Unused
<1> QED  BY <1>1, <1>2, <1>3, <1>4, <1>5 DEF SigningInv, TypeOK, SequentialSigning

-----------------------------------------------------------------------------
LEMMA FailKeepsInv ==
  ASSUME SigningInv, NEW r \in Requests, Fail(r)
  PROVE  SigningInv'
BY IdleOK, LocalStep DEF Fail, Finish

LEMMA InitInv == DirectInit => SigningInv
<1> SUFFICES ASSUME DirectInit PROVE SigningInv
  OBVIOUS
<1>1. TypeOK
  <2>1. acct \in [Accounts -> Row]
    BY DirectConstants DEF DirectInit
  <2> QED  BY <2>1, IdleOK DEF DirectInit, TypeOK
<1>2. SequentialSigning /\ \A u \in Uploads : SignedBelow(u, session[u].next)
  BY IdleOK DEF DirectInit, SequentialSigning, SignedBelow
<1>3. \A u \in Uploads : session[u] # NoSession => ~Unused(u)
  BY DEF DirectInit
<1>4. \A r \in Requests : LocalsOK(req[r])
  BY IdleOK DEF DirectInit
<1> QED  BY <1>1, <1>2, <1>3, <1>4 DEF SigningInv

LEMMA NextKeepsInv == SigningInv /\ [DirectNext]_directVars => SigningInv'
<1> SUFFICES ASSUME SigningInv, [DirectNext]_directVars PROVE SigningInv'
  OBVIOUS
<1>1. ASSUME DirectNext  PROVE SigningInv'
  BY <1>1, InitKeepsInv, SignKeepsInv, LoadKeepsInv, ReadKeepsInv, CommitKeepsInv,
     DelKeepsInv, FailKeepsInv, ExpireKeepsInv
  DEF DirectNext
<1>2. CASE UNCHANGED directVars
  BY <1>2 DEF directVars, SigningInv, TypeOK, SequentialSigning, SignedBelow, LocalsOK,
              Settled, Unused
<1> QED  BY <1>1, <1>2

\* Every part below the counter of a session, and of the copies that requests
\* hold of it, has been signed (signPart).
THEOREM SigningInvariant == DirectSpec => []SigningInv
BY InitInv, NextKeepsInv, PTL DEF DirectSpec

\* The rows, the sessions and the locals of the requests keep their types.
THEOREM DirectTypeOK == DirectSpec => []TypeOK
<1>1. SigningInv => TypeOK
  BY DEF SigningInv
<1> QED  BY <1>1, SigningInvariant, PTL

\* The parts of an upload are signed in order, for any number of parts and of
\* requests that rewrite its session from stale copies.
THEOREM PartsSignedInOrder == DirectSpec => []SequentialSigning
<1>1. SigningInv => SequentialSigning
  BY DEF SigningInv
<1> QED  BY <1>1, SigningInvariant, PTL

-----------------------------------------------------------------------------
(***************************************************************************)
(* StrandedOnlyByExpiryOrFailure.                                          *)
(***************************************************************************)
\* A step after which r is still busy with its upload.
LEMMA BusyStrandsNothing ==
  ASSUME SigningInv, NEW r \in Requests, NEW u \in Uploads, CanSettle(u),
         req'[r] # Idle, req[r] = Idle \/ req'[r].u = req[r].u,
         \A q \in Requests \ {r} : req'[q] = req[q],
         UNCHANGED session,
         held'[u].bytes = held[u].bytes \/ held'[u].bytes = 0 \/ req'[r].u = u
  PROVE  CanSettle(u)'
<1>1. CASE req'[r].u = u
  BY <1>1 DEF CanSettle
<1>2. CASE req'[r].u # u
  BY <1>2 DEF CanSettle
<1> QED  BY <1>1, <1>2

\* A step that ends r, its upload settled or its session stored.
LEMMA FinishStrandsNothing ==
  ASSUME SigningInv, NEW r \in Requests, NEW u \in Uploads, CanSettle(u),
         Finish(r), UNCHANGED held, req[r].u \in Uploads,
         \A v \in Uploads \ {req[r].u} : session'[v] = session[v],
         held[req[r].u].bytes = 0 \/ session'[req[r].u] # NoSession
  PROVE  CanSettle(u)'
<1>1. CASE req[r].u = u
  BY <1>1 DEF CanSettle
<1>2. CASE req[r].u # u
  <2>1. \A q \in Requests \ {r} : req'[q] = req[q]
    BY DEF Finish, SigningInv, TypeOK
  <2>2. CASE \E q \in Requests : req[q].u = u /\ req[q] # Idle
    BY <1>2, <2>1, <2>2 DEF CanSettle
  <2>3. CASE ~\E q \in Requests : req[q].u = u /\ req[q] # Idle
    BY <1>2, <2>3 DEF CanSettle
  <2> QED  BY <2>2, <2>3
<1> QED  BY <1>1, <1>2

LEMMA StartStrandsNothing ==
  ASSUME SigningInv, NEW r \in Requests, NEW u \in Uploads, CanSettle(u)
  PROVE  /\ \A v \in Uploads, size \in Sizes : InitReserve(r, v, size) => CanSettle(u)'
         /\ \A v \in Uploads, part \in 0..(MaxParts - 1) : SignRead(r, v, part) => CanSettle(u)'
         /\ \A v \in Uploads, final \in FinalSizes : CompleteRead(r, v, final) => CanSettle(u)'
         /\ \A v \in Uploads : AbortRead(r, v) => CanSettle(u)'
<1>1. ASSUME NEW v \in Uploads, NEW local, Start(r, local), local # Idle, local.u = v,
             UNCHANGED session,
             held' = held \/ \E h : held' = [held EXCEPT ![v] = h]
      PROVE  CanSettle(u)'
  <2>1. /\ req'[r] = local /\ req[r] = Idle
        /\ \A q \in Requests \ {r} : req'[q] = req[q]
    BY <1>1 DEF Start, SigningInv, TypeOK
  <2>2. held'[u] = held[u] \/ v = u
    BY <1>1 DEF SigningInv, TypeOK
  <2> QED  BY <1>1, <2>1, <2>2, BusyStrandsNothing
<1>2. ASSUME NEW v \in Uploads, NEW size \in Sizes, InitReserve(r, v, size)
      PROVE  CanSettle(u)'
  <2> DEFINE first == [account |-> SelectAccount(acct, size), size |-> size, next |-> 1]
             local == [Idle EXCEPT !.pc = "init_store", !.u = v, !.session = first]
  <2>1. /\ Start(r, local) /\ UNCHANGED session
        /\ held' = [held EXCEPT ![v] = [account |-> SelectAccount(acct, size), bytes |-> size]]
    BY <1>2 DEF InitReserve
  <2> HIDE DEF first
  <2>2. local.pc = "init_store" /\ local.u = v
    BY DEF Idle
  <2>3. local # Idle
    BY <2>2 DEF Idle
  <2> HIDE DEF local
  <2> QED  BY <1>1, <2>1, <2>2, <2>3
<1>3. ASSUME NEW v \in Uploads, NEW part \in 0..(MaxParts - 1), SignRead(r, v, part)
      PROVE  CanSettle(u)'
  <2> DEFINE local == [Idle EXCEPT !.pc = "sign_store", !.u = v, !.session = session[v]]
  <2>1. Start(r, local) /\ UNCHANGED <<session, held>>
    BY <1>3 DEF SignRead
  <2>2. local.pc = "sign_store" /\ local.u = v
    BY DEF Idle
  <2>3. local # Idle
    BY <2>2 DEF Idle
  <2> HIDE DEF local
  <2> QED  BY <1>1, <2>1, <2>2, <2>3
<1>4. ASSUME NEW v \in Uploads, NEW final \in FinalSizes, CompleteRead(r, v, final)
      PROVE  CanSettle(u)'
  <2> DEFINE local == [Idle EXCEPT !.pc = "complete_load", !.u = v, !.session = session[v],
                         !.final = final]
  <2>1. Start(r, local) /\ UNCHANGED <<session, held>>
    BY <1>4 DEF CompleteRead
  <2>2. local.pc = "complete_load" /\ local.u = v
    BY DEF Idle
  <2>3. local # Idle
    BY <2>2 DEF Idle
  <2> HIDE DEF local
  <2> QED  BY <1>1, <2>1, <2>2, <2>3
<1>5. ASSUME NEW v \in Uploads, AbortRead(r, v)  PROVE CanSettle(u)'
  <2> DEFINE local == [Idle EXCEPT !.pc = "abort_load", !.u = v, !.session = session[v]]
  <2>1. Start(r, local) /\ UNCHANGED <<session, held>>
    BY <1>5 DEF AbortRead
  <2>2. local.pc = "abort_load" /\ local.u = v
    BY DEF Idle
  <2>3. local # Idle
    BY <2>2 DEF Idle
  <2> HIDE DEF local
  <2> QED  BY <1>1, <2>1, <2>2, <2>3
<1> QED  BY <1>2, <1>3, <1>4, <1>5

LEMMA MiddleStrandsNothing ==
  ASSUME SigningInv, NEW r \in Requests, NEW u \in Uploads, CanSettle(u)
  PROVE  /\ CompleteLoad(r) \/ AbortLoad(r) => CanSettle(u)'
         /\ CompleteCommit(r) \/ AbortCommit(r) => CanSettle(u)'
<1>1. ASSUME NEW pc \in DirectPcs, NEW used,
             req' = [req EXCEPT ![r].pc = pc, ![r].used = used] \/ Goto(r, pc),
             UNCHANGED session,
             held' = held \/ held' = [held EXCEPT ![req[r].u].bytes = 0]
      PROVE  CanSettle(u)'
  <2>1. req \in [Requests -> Request] /\ held \in [Uploads -> [account: Accounts \cup {None}, bytes: Nat]]
    BY DEF SigningInv, TypeOK
  <2>2. req'[r].pc = pc /\ req'[r].u = req[r].u
    BY <1>1, <2>1 DEF Goto, Request
  <2>3. req'[r] # Idle
    BY <2>2 DEF Idle, DirectPcs
  <2>4. \A q \in Requests \ {r} : req'[q] = req[q]
    BY <1>1, <2>1 DEF Goto
  <2>5. held'[u].bytes = held[u].bytes \/ held'[u].bytes = 0
    BY <1>1, <2>1
  <2> QED  BY <1>1, <2>2, <2>3, <2>4, <2>5, BusyStrandsNothing
<1>2. ASSUME CompleteLoad(r) \/ AbortLoad(r)  PROVE CanSettle(u)'
  BY <1>1, <1>2 DEF CompleteLoad, AbortLoad, LoadUsage, DirectPcs
<1>3. ASSUME CompleteCommit(r) \/ AbortCommit(r)  PROVE CanSettle(u)'
  BY <1>1, <1>3 DEF CompleteCommit, AbortCommit, DirectPcs
<1> QED  BY <1>2, <1>3

LEMMA EndStrandsNothing ==
  ASSUME SigningInv, NEW r \in Requests, NEW u \in Uploads, CanSettle(u)
  PROVE  InitStore(r) \/ SignStore(r) \/ CompleteDel(r) \/ AbortDel(r) => CanSettle(u)'
<1>1. req[r] \in Request /\ LocalsOK(req[r]) /\ session \in [Uploads -> Session \cup {NoSession}]
  BY LocalsType DEF SigningInv, TypeOK
<1>2. ASSUME NEW s \in Session, req[r].pc # "idle", Finish(r), UNCHANGED held,
             session' = [session EXCEPT ![req[r].u] = s]
      PROVE  CanSettle(u)'
  <2>1. req[r].u \in Uploads
    BY <1>1, <1>2 DEF LocalsOK
  <2>2. session'[req[r].u] # NoSession
    BY <1>1, <1>2, <2>1, SessionOrNot
  <2>3. \A v \in Uploads \ {req[r].u} : session'[v] = session[v]
    BY <1>1, <1>2
  <2> QED  BY <1>2, <2>1, <2>2, <2>3, FinishStrandsNothing
<1>3. CASE InitStore(r)
  BY <1>1, <1>2, <1>3 DEF InitStore, LocalsOK
<1>4. CASE SignStore(r)
  <2>1. req[r].session \in Session
    BY <1>1, <1>4 DEF SignStore, LocalsOK
  <2>2. [req[r].session EXCEPT !.next = @ + 1] \in Session
    BY <2>1 DEF Session
  <2> QED  BY <1>2, <1>4, <2>2 DEF SignStore
<1>5. ASSUME NEW pc \in {"complete_del", "abort_del"}, ClearSession(r, pc)
      PROVE  CanSettle(u)'
  <2>1. req[r].u \in Uploads /\ held[req[r].u].bytes = 0
    BY <1>1, <1>5 DEF ClearSession, LocalsOK, Settled
  <2>2. \A v \in Uploads \ {req[r].u} : session'[v] = session[v]
    BY <1>1, <1>5 DEF ClearSession
  <2> QED  BY <1>5, <2>1, <2>2, FinishStrandsNothing DEF ClearSession
<1> QED  BY <1>3, <1>4, <1>5 DEF CompleteDel, AbortDel

\* No order of init, sign, complete and abort requests loses a reservation:
\* only a lapsed session or a failed request leaves one that nothing can settle.
THEOREM OnlyExpiryOrFailureStrands == DirectSpec => StrandedOnlyByExpiryOrFailure
<1> DEFINE Strands == \A u \in Uploads : CanSettle(u) /\ ~CanSettle(u)' =>
                         Expire(u) \/ \E r \in Requests : Fail(r)
<1>1. SigningInv /\ [DirectNext]_directVars => [Strands]_directVars
  <2> SUFFICES ASSUME SigningInv, DirectNext, NEW u \in Uploads,
                      CanSettle(u), ~CanSettle(u)'
               PROVE  Expire(u) \/ \E r \in Requests : Fail(r)
    OBVIOUS
  <2>1. ASSUME NEW v \in Uploads, Expire(v)  PROVE Expire(u)
    <3>1. CASE v = u
      BY <2>1, <3>1
    <3>2. CASE v # u
      BY <2>1, <3>2 DEF Expire, CanSettle, SigningInv, TypeOK
    <3> QED  BY <3>1, <3>2
  <2> QED
    BY <2>1, StartStrandsNothing, MiddleStrandsNothing, EndStrandsNothing DEF DirectNext
<1> QED
  BY <1>1, SigningInvariant, PTL DEF DirectSpec, StrandedOnlyByExpiryOrFailure

-----------------------------------------------------------------------------
(***************************************************************************)
(* Every session and every copy of one names the account of its upload.    *)
(***************************************************************************)
LEMMA KnownStep ==
  ASSUME SigningInv, ReservationsKnown,
         \A v \in Uploads :
           /\ ~Unused(v) => held'[v].account = held[v].account
           /\ Unused(v) => stored'[v].bytes = stored[v].bytes
           /\ \/ session'[v] = session[v] \/ session'[v] = NoSession
              \/ ~Unused(v) /\ session'[v].account = held[v].account,
         \A q \in Requests :
           \/ req'[q] = req[q] \/ req'[q].pc = "idle"
           \/ /\ req'[q].u \in Uploads
              /\ req'[q].session.account = held'[req'[q].u].account
  PROVE  ReservationsKnown'
<1>1. ASSUME NEW v \in Uploads, Unused(v)'  PROVE stored'[v].bytes = 0
  <2>1. Unused(v)
    BY <1>1 DEF Unused
  <2> QED  BY <2>1 DEF ReservationsKnown
<1>2. ASSUME NEW v \in Uploads, session'[v] # NoSession
      PROVE  session'[v].account = held'[v].account
  <2>1. session'[v] = session[v] => ~Unused(v) /\ session[v].account = held[v].account
    BY <1>2 DEF SigningInv, ReservationsKnown
  <2> QED  BY <1>2, <2>1
<1>3. ASSUME NEW q \in Requests, req'[q].pc # "idle"
      PROVE  req'[q].session.account = held'[req'[q].u].account
  <2>1. CASE req'[q] = req[q]
    <3>1. req[q].u \in Uploads /\ ~Unused(req[q].u)
      BY <1>3, <2>1, LocalsType DEF LocalsOK
    <3>2. req[q].session.account = held[req[q].u].account
      BY <1>3, <2>1 DEF ReservationsKnown
    <3> QED  BY <2>1, <3>1, <3>2
  <2>2. CASE req'[q] # req[q]
    BY <1>3, <2>2
  <2> QED  BY <2>1, <2>2
<1>4. /\ \A v \in Uploads : Unused(v)' => stored'[v].bytes = 0
      /\ \A v \in Uploads : session'[v] # NoSession => session'[v].account = held'[v].account
      /\ \A q \in Requests : req'[q].pc # "idle" =>
            req'[q].session.account = held'[req'[q].u].account
  BY <1>1, <1>2, <1>3
<1> QED  BY <1>4 DEF ReservationsKnown

\* What KnownStep asks of the request that moves.
LEMMA ActorKnown ==
  ASSUME SigningInv, ReservationsKnown, NEW r \in Requests, req[r].pc # "idle"
  PROVE  /\ req[r] \in Request /\ req[r].u \in Uploads /\ ~Unused(req[r].u)
         /\ req[r].session \in Session
         /\ req[r].session.account = held[req[r].u].account
BY LocalsType DEF LocalsOK, ReservationsKnown

LEMMA StartKnown ==
  ASSUME SigningInv, ReservationsKnown, NEW r \in Requests, NEW u \in Uploads
  PROVE  /\ \A size \in Sizes : InitReserve(r, u, size) => ReservationsKnown'
         /\ \A part \in 0..(MaxParts - 1) : SignRead(r, u, part) => ReservationsKnown'
         /\ \A final \in FinalSizes : CompleteRead(r, u, final) => ReservationsKnown'
         /\ AbortRead(r, u) => ReservationsKnown'
<1>1. /\ req \in [Requests -> Request] /\ held \in [Uploads -> [account: Accounts \cup {None}, bytes: Nat]]
      /\ session[u] # NoSession => session[u].account = held[u].account
  BY DEF SigningInv, TypeOK, ReservationsKnown
<1>2. ASSUME NEW local, Start(r, local), local.u = u, local.session = session[u],
             session[u] # NoSession, UNCHANGED <<stored, session, held>>
      PROVE  ReservationsKnown'
  <2>1. req'[r] = local /\ \A q \in Requests \ {r} : req'[q] = req[q]
    BY <1>1, <1>2 DEF Start
  <2>2. \A q \in Requests :
           \/ req'[q] = req[q] \/ req'[q].pc = "idle"
           \/ /\ req'[q].u \in Uploads
              /\ req'[q].session.account = held'[req'[q].u].account
    BY <1>1, <1>2, <2>1
  <2> QED  BY <1>2, <2>2, KnownStep
<1>3. ASSUME NEW size \in Sizes, InitReserve(r, u, size)  PROVE ReservationsKnown'
  <2> DEFINE a     == SelectAccount(acct, size)
             first == [account |-> a, size |-> size, next |-> 1]
             local == [Idle EXCEPT !.pc = "init_store", !.u = u, !.session = first]
  <2>1. /\ Start(r, local) /\ Unused(u) /\ UNCHANGED <<stored, session>>
        /\ held' = [held EXCEPT ![u] = [account |-> a, bytes |-> size]]
    BY <1>3 DEF InitReserve
  <2>2. local.u = u /\ local.session.account = a
    BY DEF Idle
  <2> HIDE DEF a, local
  <2>3. req'[r] = local /\ \A q \in Requests \ {r} : req'[q] = req[q]
    BY <1>1, <2>1 DEF Start
  <2>4. held'[u].account = a /\ \A v \in Uploads \ {u} : held'[v] = held[v]
    BY <1>1, <2>1
  <2> QED  BY <2>1, <2>2, <2>3, <2>4, KnownStep
<1>4. ASSUME NEW part \in 0..(MaxParts - 1), SignRead(r, u, part)  PROVE ReservationsKnown'
  <2> DEFINE local == [Idle EXCEPT !.pc = "sign_store", !.u = u, !.session = session[u]]
  <2>1. Start(r, local) /\ session[u] # NoSession /\ UNCHANGED <<stored, session, held>>
    BY <1>4 DEF SignRead
  <2>2. local.u = u /\ local.session = session[u]
    BY DEF Idle
  <2> HIDE DEF local
  <2> QED  BY <1>2, <2>1, <2>2
<1>5. ASSUME NEW final \in FinalSizes, CompleteRead(r, u, final)  PROVE ReservationsKnown'
  <2> DEFINE local == [Idle EXCEPT !.pc = "complete_load", !.u = u, !.session = session[u],
                         !.final = final]
  <2>1. Start(r, local) /\ session[u] # NoSession /\ UNCHANGED <<stored, session, held>>
    BY <1>5 DEF CompleteRead
  <2>2. local.u = u /\ local.session = session[u]
    BY DEF Idle
  <2> HIDE DEF local
  <2> QED  BY <1>2, <2>1, <2>2
<1>6. ASSUME AbortRead(r, u)  PROVE ReservationsKnown'
  <2> DEFINE local == [Idle EXCEPT !.pc = "abort_load", !.u = u, !.session = session[u]]
  <2>1. Start(r, local) /\ session[u] # NoSession /\ UNCHANGED <<stored, session, held>>
    BY <1>6 DEF AbortRead
  <2>2. local.u = u /\ local.session = session[u]
    BY DEF Idle
  <2> HIDE DEF local
  <2> QED  BY <1>2, <2>1, <2>2
<1> QED  BY <1>3, <1>4, <1>5, <1>6

LEMMA SettleKnown ==
  ASSUME SigningInv, ReservationsKnown, NEW r \in Requests
  PROVE  /\ CompleteLoad(r) \/ AbortLoad(r) => ReservationsKnown'
         /\ CompleteCommit(r) \/ AbortCommit(r) => ReservationsKnown'
<1>1. ASSUME NEW pc, NEW used, req[r].pc # "idle",
             req' = [req EXCEPT ![r].pc = pc, ![r].used = used] \/ Goto(r, pc),
             UNCHANGED session,
             held' = held \/ held' = [held EXCEPT ![req[r].u].bytes = 0],
             \A v \in Uploads \ {req[r].u} : stored'[v] = stored[v]
      PROVE  ReservationsKnown'
  <2>1. req \in [Requests -> Request] /\ held \in [Uploads -> [account: Accounts \cup {None}, bytes: Nat]]
    BY DEF SigningInv, TypeOK
  <2>2. \A v \in Uploads : held'[v].account = held[v].account
    BY <1>1, <2>1
  <2>3. req'[r].u = req[r].u /\ req'[r].session = req[r].session
    BY <1>1, <2>1 DEF Goto, Request
  <2>4. \A q \in Requests \ {r} : req'[q] = req[q]
    BY <1>1, <2>1 DEF Goto
  <2> QED  BY <1>1, <2>2, <2>3, <2>4, ActorKnown, KnownStep
<1>2. ASSUME CompleteLoad(r) \/ AbortLoad(r)  PROVE ReservationsKnown'
  BY <1>1, <1>2 DEF CompleteLoad, AbortLoad, LoadUsage
<1>3. ASSUME CompleteCommit(r)  PROVE ReservationsKnown'
  <2>1. /\ req[r].pc # "idle" /\ Goto(r, "complete_del") /\ UNCHANGED session
        /\ held' = [held EXCEPT ![req[r].u].bytes = 0]
    BY <1>3 DEF CompleteCommit
  <2>2. \A v \in Uploads \ {req[r].u} : stored'[v] = stored[v]
    BY <1>3 DEF CompleteCommit, SigningInv, TypeOK
  <2> QED  BY <1>1, <2>1, <2>2
<1>4. ASSUME AbortCommit(r)  PROVE ReservationsKnown'
  <2>1. /\ req[r].pc # "idle" /\ Goto(r, "abort_del") /\ UNCHANGED <<session, stored>>
        /\ held' = [held EXCEPT ![req[r].u].bytes = 0]
    BY <1>4 DEF AbortCommit
  <2> QED  BY <1>1, <2>1
<1> QED  BY <1>2, <1>3, <1>4

LEMMA EndKnown ==
  ASSUME SigningInv, ReservationsKnown
  PROVE  /\ \A r \in Requests :
              InitStore(r) \/ SignStore(r) \/ CompleteDel(r) \/ AbortDel(r) \/ Fail(r) =>
                ReservationsKnown'
         /\ \A u \in Uploads : Expire(u) => ReservationsKnown'
<1>1. /\ req \in [Requests -> Request] /\ session \in [Uploads -> Session \cup {NoSession}]
  BY DEF SigningInv, TypeOK
<1>2. ASSUME NEW r \in Requests, req[r] # Idle, Finish(r), UNCHANGED <<held, stored>>,
             \A v \in Uploads :
               \/ session'[v] = session[v] \/ session'[v] = NoSession
               \/ ~Unused(v) /\ session'[v].account = held[v].account
      PROVE  ReservationsKnown'
  <2>1. \A q \in Requests : req'[q] = req[q] \/ req'[q].pc = "idle"
    BY <1>1, <1>2 DEF Finish, Idle
  <2> QED  BY <1>2, <2>1, KnownStep
<1>3. ASSUME NEW r \in Requests, req[r].pc # "idle", NEW s,
             Finish(r), UNCHANGED <<held, stored>>, session' = [session EXCEPT ![req[r].u] = s],
             s = NoSession \/ s.account = req[r].session.account
      PROVE  ReservationsKnown'
  <2>1. req[r] # Idle
    BY <1>3 DEF Idle
  <2>2. \A v \in Uploads :
               \/ session'[v] = session[v] \/ session'[v] = NoSession
               \/ ~Unused(v) /\ session'[v].account = held[v].account
    BY <1>1, <1>3, ActorKnown
  <2> QED  BY <1>2, <1>3, <2>1, <2>2
<1>4. ASSUME NEW r \in Requests, InitStore(r)  PROVE ReservationsKnown'
  BY <1>3, <1>4 DEF InitStore
<1>5. ASSUME NEW r \in Requests, SignStore(r)  PROVE ReservationsKnown'
  <2> DEFINE s == [req[r].session EXCEPT !.next = @ + 1]
  <2>1. req[r].pc # "idle" /\ Finish(r) /\ UNCHANGED <<held, stored>>
        /\ session' = [session EXCEPT ![req[r].u] = s]
    BY <1>5 DEF SignStore
  <2>2. s.account = req[r].session.account
    BY <2>1, ActorKnown DEF Session
  <2> HIDE DEF s
  <2> QED  BY <1>3, <2>1, <2>2
<1>6. ASSUME NEW r \in Requests, NEW from \in {"complete_del", "abort_del"}, ClearSession(r, from)
      PROVE  ReservationsKnown'
  BY <1>3, <1>6 DEF ClearSession
<1>7. ASSUME NEW r \in Requests, Fail(r)  PROVE ReservationsKnown'
  BY <1>2, <1>7 DEF Fail
<1>8. ASSUME NEW u \in Uploads, Expire(u)  PROVE ReservationsKnown'
  <2>1. \A v \in Uploads : session'[v] = session[v] \/ session'[v] = NoSession
    BY <1>1, <1>8 DEF Expire
  <2> QED  BY <1>8, <2>1, KnownStep DEF Expire
<1> QED  BY <1>4, <1>5, <1>6, <1>7, <1>8 DEF CompleteDel, AbortDel

\* The inductive invariant of the flow, for any number of uploads and of
\* overlapping requests, expiries and failures.
THEOREM DirectInvariant == DirectSpec => []DirectInv
<1>1. DirectInit => ReservationsKnown
  BY DEF DirectInit, ReservationsKnown, Idle
<1>2. SigningInv /\ ReservationsKnown /\ [DirectNext]_directVars => ReservationsKnown'
  <2> SUFFICES ASSUME SigningInv, ReservationsKnown, [DirectNext]_directVars
               PROVE  ReservationsKnown'
    OBVIOUS
  <2>1. CASE DirectNext
    BY <2>1, StartKnown, SettleKnown, EndKnown DEF DirectNext
  <2>2. CASE UNCHANGED directVars
    BY <2>2 DEF directVars, ReservationsKnown, Unused
  <2> QED  BY <2>1, <2>2
<1> QED  BY <1>1, <1>2, SigningInvariant, PTL DEF DirectSpec, DirectInv

-----------------------------------------------------------------------------
(***************************************************************************)
(* FreshSettlementsKeepBooks: the charges of an account as the sum, over   *)
(* all uploads, of what each has reserved or stored on it.                 *)
(***************************************************************************)
ChargeOf(reserved, kept, a) == IF reserved.account = a THEN reserved.bytes + kept.bytes ELSE 0

ChargedOn(reserved, kept, a) ==
  Total([u \in Uploads |-> ChargeOf(reserved[u], kept[u], a)], Uploads)

ChargesIn(reserved, kept, a) ==
  MapThenSumSet(LAMBDA u : reserved[u].bytes + kept[u].bytes,
                {u \in Uploads : reserved[u].account = a})

Reservations == [Uploads -> [account: Accounts \cup {None}, bytes: Nat]]
Stores       == [Uploads -> [rows: Nat, bytes: Nat]]

LEMMA ChargesInIsTotal ==
  ASSUME NEW reserved \in Reservations, NEW kept \in Stores, NEW a
  PROVE  ChargesIn(reserved, kept, a) = ChargedOn(reserved, kept, a)
<1> DEFINE S == {u \in Uploads : reserved[u].account = a}
           v == [u \in Uploads |-> reserved[u].bytes + kept[u].bytes]
           w == [u \in Uploads |-> ChargeOf(reserved[u], kept[u], a)]
           Sums(g) == g = [s \in SUBSET S |-> IF s = {} THEN 0
                             ELSE reserved[First(s)].bytes + kept[First(s)].bytes
                                    + g[s \ {First(s)}]]
<1>1. ChargesIn(reserved, kept, a) = (CHOOSE g : Sums(g))[S]
  BY DEF ChargesIn, MapThenSumSet, MapThenFoldSet, First
<1>2. IsFiniteSet(S) /\ S \subseteq Uploads
  BY FiniteUploads, FS_Subset
<1>3. /\ \A u \in S : v[u] = w[u]
      /\ \A u \in Uploads \ S : w[u] = 0
  BY DEF ChargeOf
<1>4. \A u \in Uploads : w[u] \in Nat
  BY DEF ChargeOf, Reservations, Stores
<1> HIDE DEF S
<1>5. \A s \in SUBSET S : s # {} =>
         v[First(s)] = reserved[First(s)].bytes + kept[First(s)].bytes
  BY <1>2, FirstIn
<1>6. \A g : Sums(g) <=> Adds(g, v, S)
  BY <1>5 DEF Adds
<1> HIDE DEF Sums, v
<1>7. Adds(Adder(v, S), v, S) /\ Adds(CHOOSE g : Sums(g), v, S)
  BY <1>2, <1>6, AdderAdds
<1>8. \A s \in SUBSET S : s \subseteq S => (CHOOSE g : Sums(g))[s] = Adder(v, S)[s]
  BY ONLY <1>2, <1>7, AddersAgree
<1>9. ChargesIn(reserved, kept, a) = Total(v, S)
  BY <1>1, <1>8, TotalIsAdder
<1> HIDE DEF w
<1>10. Total(v, S) = Total(w, S)
  BY <1>2, <1>3, TotalSame
<1>11. Total(w, Uploads) = Total(w, S)
  BY <1>2, <1>3, <1>4, FiniteUploads, TotalSupport
<1> QED  BY <1>9, <1>10, <1>11 DEF ChargedOn, w

\* One upload reserves, settles or stores.
LEMMA ChargedOnChange ==
  ASSUME NEW reserved \in Reservations, NEW kept \in Stores,
         NEW reserved2 \in Reservations, NEW kept2 \in Stores,
         NEW u \in Uploads, NEW a,
         \A v \in Uploads \ {u} : reserved2[v] = reserved[v] /\ kept2[v] = kept[v]
  PROVE  /\ ChargedOn(reserved, kept, a) \in Nat
         /\ ChargeOf(reserved[u], kept[u], a) <= ChargedOn(reserved, kept, a)
         /\ ChargedOn(reserved2, kept2, a) =
              (ChargedOn(reserved, kept, a) - ChargeOf(reserved[u], kept[u], a))
                + ChargeOf(reserved2[u], kept2[u], a)
<1> DEFINE f == [v \in Uploads |-> ChargeOf(reserved[v], kept[v], a)]
           g == [v \in Uploads |-> ChargeOf(reserved2[v], kept2[v], a)]
<1>1. /\ \A v \in Uploads : f[v] \in Nat /\ g[v] \in Nat
      /\ \A v \in Uploads \ {u} : g[v] = f[v]
      /\ f[u] = ChargeOf(reserved[u], kept[u], a) /\ g[u] = ChargeOf(reserved2[u], kept2[u], a)
  BY DEF ChargeOf, Reservations, Stores
<1> HIDE DEF f, g
<1>2. ChargedOn(reserved, kept, a) = Total(f, Uploads) /\ ChargedOn(reserved2, kept2, a) = Total(g, Uploads)
  BY DEF ChargedOn, f, g
<1> QED  BY <1>1, <1>2, FiniteUploads, TotalChange

DirectBalanced(rows, reserved, kept) ==
  \A a \in Accounts : rows[a].used = ChargedOn(reserved, kept, a)

LEMMA DirectBooksMean ==
  ASSUME TypeOK
  PROVE  DirectBooksBalance <=> DirectBalanced(acct, held, stored)
<1>1. \A a : Charges(a) = ChargesIn(held, stored, a)
  BY DEF Charges, ChargesIn
<1>2. \A a : ChargesIn(held, stored, a) = ChargedOn(held, stored, a)
  BY ChargesInIsTotal DEF TypeOK, Reservations, Stores
<1> QED  BY <1>1, <1>2 DEF DirectBooksBalance, DirectBalanced

LEMMA DirectBooksMeanNext ==
  ASSUME TypeOK'
  PROVE  DirectBooksBalance' <=> DirectBalanced(acct', held', stored')
<1>1. ASSUME NEW a  PROVE Charges(a)' = ChargesIn(held', stored', a)
  BY DEF Charges, ChargesIn, MapThenSumSet, MapThenFoldSet
<1>2. \A a : ChargesIn(held', stored', a) = ChargedOn(held', stored', a)
  BY ChargesInIsTotal DEF TypeOK, Reservations, Stores
<1> QED  BY <1>1, <1>2 DEF DirectBooksBalance, DirectBalanced

\* A step that changes the charges of upload u on account a by as much as the
\* usage of a.
LEMMA BalancedStep ==
  ASSUME SigningInv, SigningInv', DirectBooksBalance, NEW u \in Uploads, NEW a \in Accounts,
         NEW used, acct' = [acct EXCEPT ![a].used = used],
         \A v \in Uploads \ {u} : held'[v] = held[v] /\ stored'[v] = stored[v],
         held'[u].account = a, Unused(u) => stored[u].bytes = 0,
         Unused(u) \/ held[u].account = a,
         used = (acct[a].used - ChargeOf(held[u], stored[u], a))
                  + ChargeOf(held'[u], stored'[u], a)
  PROVE  DirectBooksBalance'
<1>1. /\ held \in Reservations /\ stored \in Stores /\ acct \in [Accounts -> Row]
      /\ held' \in Reservations /\ stored' \in Stores
  BY DEF SigningInv, TypeOK, Reservations, Stores
<1>2. DirectBalanced(acct, held, stored)
  BY DirectBooksMean DEF SigningInv
<1>3. SUFFICES ASSUME NEW b \in Accounts  PROVE acct'[b].used = ChargedOn(held', stored', b)
  BY DirectBooksMeanNext DEF SigningInv, DirectBalanced
<1>4. ChargedOn(held', stored', b) =
        (ChargedOn(held, stored, b) - ChargeOf(held[u], stored[u], b))
          + ChargeOf(held'[u], stored'[u], b)
  BY <1>1, ChargedOnChange
<1>5. acct[b].used = ChargedOn(held, stored, b) /\ ChargedOn(held, stored, b) \in Nat
  <2>1. ChargedOn(held, stored, b) \in Nat
    BY <1>1, ChargedOnChange
  <2> QED  BY <1>2, <2>1 DEF DirectBalanced
<1>6. CASE b = a
  <2>1. acct'[a].used = used
    BY <1>1 DEF Row
  <2> QED  BY <1>4, <1>5, <1>6, <2>1
<1>7. CASE b # a
  <2>1. acct'[b] = acct[b]
    BY <1>1, <1>7
  <2>2. ChargeOf(held[u], stored[u], b) = 0 /\ ChargeOf(held'[u], stored'[u], b) = 0
    BY <1>7, DirectConstants DEF ChargeOf, Unused
  <2> QED  BY <1>4, <1>5, <2>1, <2>2
<1> QED  BY <1>6, <1>7

LEMMA ReserveKeepsBooks ==
  ASSUME DirectInv, SigningInv', DirectBooksBalance, NEW r \in Requests, NEW u \in Uploads,
         NEW size \in Sizes, InitReserve(r, u, size)
  PROVE  DirectBooksBalance'
<1> DEFINE a == SelectAccount(acct, size)
<1>1. /\ SigningInv /\ stored \in Stores /\ held \in Reservations /\ acct \in [Accounts -> Row]
      /\ Unused(u) => stored[u].bytes = 0
  BY DEF DirectInv, SigningInv, TypeOK, Stores, Reservations, ReservationsKnown
<1>2. Unused(u) /\ a # None /\ size \in Nat /\ size > 0
  BY DirectConstants DEF InitReserve
<1>3. a \in Accounts
  BY <1>1, <1>2, SelectionType
<1>4. acct[a].used \in Nat
  BY <1>1, <1>3 DEF Row
<1>5. /\ acct' = [acct EXCEPT ![a].used = AdjustedUsage(acct[a].used, size)]
      /\ held' = [held EXCEPT ![u] = [account |-> a, bytes |-> size]]
      /\ stored' = stored
  BY DEF InitReserve
<1> HIDE DEF a
<1>6. AdjustedUsage(acct[a].used, size) = acct[a].used + size
  BY <1>2, <1>4 DEF AdjustedUsage
<1>7. held'[u] = [account |-> a, bytes |-> size] /\ stored'[u].bytes = 0
  BY <1>1, <1>2, <1>5 DEF Reservations
<1>8. ChargeOf(held[u], stored[u], a) = 0 /\ ChargeOf(held'[u], stored'[u], a) = size
  BY <1>2, <1>3, <1>7, DirectConstants DEF ChargeOf, Unused
<1>9. AdjustedUsage(acct[a].used, size) =
        (acct[a].used - ChargeOf(held[u], stored[u], a)) + ChargeOf(held'[u], stored'[u], a)
  BY <1>2, <1>4, <1>6, <1>8
<1>10. \A v \in Uploads \ {u} : held'[v] = held[v] /\ stored'[v] = stored[v]
  BY <1>1, <1>5 DEF Reservations
<1> DEFINE used == AdjustedUsage(acct[a].used, size)
<1>11. /\ acct' = [acct EXCEPT ![a].used = used]
       /\ used = (acct[a].used - ChargeOf(held[u], stored[u], a))
                   + ChargeOf(held'[u], stored'[u], a)
       /\ held'[u].account = a
  BY <1>5, <1>7, <1>9
<1> HIDE DEF used
<1> QED  BY ONLY SigningInv', DirectBooksBalance, <1>1, <1>2, <1>3, <1>10, <1>11,
                 BalancedStep

\* A reservation settled once, on the usage that was loaded.
LEMMA SettlementKeepsBooks ==
  ASSUME DirectInv, SigningInv', DirectBooksBalance, NEW r \in Requests,
         SettlesAsRead(r), CompleteCommit(r) \/ AbortCommit(r)
  PROVE  DirectBooksBalance'
<1> DEFINE u    == req[r].u
           a    == req[r].session.account
           size == req[r].session.size
           add  == IF CompleteCommit(r) THEN req[r].final ELSE 0
<1>1. /\ SigningInv /\ stored \in Stores /\ held \in Reservations /\ acct \in [Accounts -> Row]
      /\ ReservationsKnown
  BY DEF DirectInv, SigningInv, TypeOK, Stores, Reservations
<1>2. req[r].pc \in {"complete_commit", "abort_commit"}
  BY DEF CompleteCommit, AbortCommit
<1>3. /\ u \in Uploads /\ a \in Accounts /\ size \in Nat /\ req[r].final \in Nat
      /\ held[u].account = a /\ ~Unused(u)
  <2>1. req[r].pc # "idle"
    BY <1>2
  <2>2. req[r] \in Request /\ req[r].session \in Session
    BY <1>1, <2>1, ActorKnown
  <2>3. req[r].final \in Nat
    BY <2>2 DEF Request
  <2>4. size \in Nat
    BY <2>2, SessionSize
  <2>5. a \in Accounts
    BY <2>2 DEF Session
  <2> QED  BY <1>1, <2>1, <2>3, <2>4, <2>5, ActorKnown
<1>4. held[u].bytes = size /\ acct[a].used = req[r].used
  BY <1>2 DEF SettlesAsRead
<1>5. acct[a].used \in Nat /\ stored[u].bytes \in Nat /\ add \in Nat
  BY <1>1, <1>3 DEF Row, Stores
<1>6. ChargeOf(held[u], stored[u], a) = size + stored[u].bytes
  BY <1>3, <1>4 DEF ChargeOf
<1>7. size + stored[u].bytes <= acct[a].used
  <2>1. DirectBalanced(acct, held, stored)
    BY <1>1, DirectBooksMean DEF SigningInv
  <2>2. ChargeOf(held[u], stored[u], a) <= ChargedOn(held, stored, a)
    BY <1>1, <1>3, ChargedOnChange
  <2> QED  BY <1>3, <1>6, <2>1, <2>2 DEF DirectBalanced
<1>8. /\ acct' = [acct EXCEPT ![a].used = AdjustedUsage(req[r].used, add - size)]
      /\ held' = [held EXCEPT ![u].bytes = 0]
      /\ \A v \in Uploads \ {u} : stored'[v] = stored[v]
      /\ stored'[u].bytes = stored[u].bytes + add
  <2>1. CASE CompleteCommit(r)
    <3>1. /\ acct' = [acct EXCEPT ![a].used = AdjustedUsage(req[r].used, req[r].final - size)]
          /\ held' = [held EXCEPT ![u].bytes = 0]
          /\ stored' = [stored EXCEPT ![u].rows = @ + 1, ![u].bytes = @ + req[r].final]
      BY <2>1 DEF CompleteCommit, SaveUsage
    <3>2. stored'[u].bytes = stored[u].bytes + req[r].final
      BY <1>1, <1>3, <3>1 DEF Stores
    <3> QED  BY <1>1, <2>1, <3>1, <3>2 DEF Stores
  <2>2. CASE AbortCommit(r) /\ ~CompleteCommit(r)
    <3>1. /\ acct' = [acct EXCEPT ![a].used = AdjustedUsage(req[r].used, -size)]
          /\ held' = [held EXCEPT ![u].bytes = 0] /\ stored' = stored
      BY <2>2 DEF AbortCommit, SaveUsage
    <3>2. add = 0 /\ 0 - size = -size
      BY <1>3, <2>2
    <3>3. add - size = -size /\ stored[u].bytes + add = stored[u].bytes
      BY <1>5, <3>2
    <3> HIDE DEF add, size, u, a
    <3> QED  BY <3>1, <3>3
  <2> QED  BY <2>1, <2>2
<1> HIDE DEF add, size, a, u
<1>9. held'[u].bytes = 0 /\ held'[u].account = a /\ \A v \in Uploads \ {u} : held'[v] = held[v]
  BY <1>1, <1>3, <1>8 DEF Reservations
<1>10. ChargeOf(held'[u], stored'[u], a) = stored[u].bytes + add
  BY <1>5, <1>8, <1>9 DEF ChargeOf
<1> DEFINE used == AdjustedUsage(req[r].used, add - size)
<1>11. used = (acct[a].used - (size + stored[u].bytes)) + (stored[u].bytes + add)
  BY <1>3, <1>4, <1>5, <1>7 DEF AdjustedUsage
<1>12. /\ acct' = [acct EXCEPT ![a].used = used]
       /\ used = (acct[a].used - ChargeOf(held[u], stored[u], a))
                   + ChargeOf(held'[u], stored'[u], a)
       /\ \A v \in Uploads \ {u} : held'[v] = held[v] /\ stored'[v] = stored[v]
  BY <1>6, <1>8, <1>9, <1>10, <1>11
<1> HIDE DEF used
<1> QED  BY ONLY SigningInv', DirectBooksBalance, <1>1, <1>3, <1>9, <1>12, BalancedStep

LEMMA UntouchedBooks ==
  ASSUME DirectBooksBalance, TypeOK, TypeOK', UNCHANGED <<acct, held, stored>>
  PROVE  DirectBooksBalance'
BY DirectBooksMean, DirectBooksMeanNext

\* The usage of every account is what is reserved and stored on it, unless a
\* reservation is settled twice or on a usage that changed since it was loaded:
\* for any number of uploads and accounts, expiries and failures.
THEOREM OnlyStaleSettlementsUnbalance == DirectSpec => FreshSettlementsKeepBooks
<1> DEFINE Fresh == \A r \in Requests : SettlesAsRead(r) \/ req'[r] = req[r]
           Kept  == DirectBooksBalance /\ Fresh => DirectBooksBalance'
<1>1. DirectInv /\ [DirectNext]_directVars => Kept
  <2> SUFFICES ASSUME DirectInv, [DirectNext]_directVars, DirectBooksBalance, Fresh
               PROVE  DirectBooksBalance'
    OBVIOUS
  <2>1. SigningInv /\ SigningInv' /\ TypeOK /\ TypeOK'
    BY NextKeepsInv DEF DirectInv, SigningInv
  <2>2. ASSUME UNCHANGED <<acct, held, stored>>  PROVE DirectBooksBalance'
    BY ONLY <2>1, <2>2, DirectBooksBalance, UntouchedBooks
  <2>3. ASSUME NEW r \in Requests, CompleteCommit(r) \/ AbortCommit(r)
        PROVE  DirectBooksBalance'
    <3>1. req'[r] # req[r]
      <4>1. req[r] \in Request /\ req \in [Requests -> Request]
        BY <2>1 DEF TypeOK
      <4>2. \E pc : /\ pc # req[r].pc /\ req' = [req EXCEPT ![r].pc = pc]
        BY <2>3 DEF CompleteCommit, AbortCommit, Goto
      <4>3. PICK pc : pc # req[r].pc /\ req'[r] = [req[r] EXCEPT !.pc = pc]
        BY <4>1, <4>2
      <4>4. req'[r].pc = pc
        BY <4>1, <4>3 DEF Request
      <4> QED  BY <4>3, <4>4
    <3> QED  BY <2>1, <2>3, <3>1, SettlementKeepsBooks
  <2>4. CASE UNCHANGED directVars
    BY <2>2, <2>4 DEF directVars
  <2>5. ASSUME NEW r \in Requests,
               \/ InitStore(r) \/ SignStore(r) \/ CompleteLoad(r) \/ CompleteDel(r)
               \/ AbortLoad(r) \/ AbortDel(r) \/ Fail(r)
        PROVE  DirectBooksBalance'
    BY <2>2, <2>5
    DEF InitStore, SignStore, CompleteLoad, CompleteDel, AbortLoad, AbortDel, Fail,
        LoadUsage, ClearSession
  <2>6. ASSUME NEW r \in Requests, NEW u \in Uploads,
               \/ \E part \in 0..(MaxParts - 1) : SignRead(r, u, part)
               \/ \E final \in FinalSizes : CompleteRead(r, u, final)
               \/ AbortRead(r, u) \/ Expire(u)
        PROVE  DirectBooksBalance'
    BY <2>2, <2>6 DEF SignRead, CompleteRead, AbortRead, Expire
  <2>7. ASSUME NEW u \in Uploads, Expire(u)  PROVE DirectBooksBalance'
    BY <2>2, <2>7 DEF Expire
  <2>8. ASSUME NEW r \in Requests, NEW u \in Uploads, NEW size \in Sizes, InitReserve(r, u, size)
        PROVE  DirectBooksBalance'
    BY <2>1, <2>8, ReserveKeepsBooks
  <2> HIDE DEF Fresh
  <2> QED  BY <2>3, <2>4, <2>5, <2>6, <2>7, <2>8 DEF DirectNext
<1>2. DirectSpec => [][Kept]_directVars
  BY <1>1, DirectInvariant, PTL DEF DirectSpec
<1> QED  BY <1>2 DEF FreshSettlementsKeepBooks


-----------------------------------------------------------------------------
(***************************************************************************)
(* The places of the active accounts among the pages.                      *)
(***************************************************************************)
LEMMA LeastOf ==
  ASSUME NEW S, S \subseteq Nat, S # {}
  PROVE  \E m \in S : \A n \in S : m <= n
<1>1. PICK m \in S : \A n \in S : ~(<<n, m>> \in OpToRel(<, Nat))
  BY NatLessThanWellFounded, WFMin, Zenon
<1>2. \A n \in S : ~(n < m)
  BY <1>1 DEF OpToRel
<1> QED  BY <1>2

LEMMA CurrentIs ==
  ASSUME RecalcTypeOK, run.page # {}
  PROVE  Current \in run.page /\ Current \in Ids
<1>1. run.page \subseteq Ids /\ Ids \subseteq Nat
  BY DEF RecalcTypeOK, Ids
<1>2. \E a \in run.page : \A b \in run.page : a <= b
  BY <1>1, LeastOf
<1>3. Current \in run.page
  BY <1>2 DEF Current
<1> QED  BY <1>1, <1>3

\* The rows before a.
Ahead(a) == {x \in active : x < a}

LEMMA BeforeType ==
  ASSUME RecalcTypeOK, NEW a
  PROVE  /\ IsFiniteSet(active) /\ active \subseteq Ids /\ active \subseteq Nat
         /\ IsFiniteSet(Ahead(a))
         /\ Before(a) = Cardinality(Ahead(a)) /\ Before(a) \in Nat
<1>1. MaxAccounts \in Nat /\ active \in SUBSET Ids
  BY RecalcConstants DEF RecalcTypeOK
<1>2. IsFiniteSet(active)
  <2>1. IsFiniteSet(Ids)
    BY <1>1, FS_Interval DEF Ids
  <2> QED  BY <1>1, <2>1, FS_Subset
<1>3. IsFiniteSet(Ahead(a))
  <2>1. Ahead(a) \in SUBSET active
    BY DEF Ahead
  <2> QED  BY <1>2, <2>1, FS_Subset
<1> QED  BY <1>1, <1>2, <1>3, FS_CardinalityType DEF Before, Ahead, Ids

\* An account that comes later has more rows before it.
LEMMA BeforeOrders ==
  ASSUME RecalcTypeOK, NEW a \in active, NEW b \in active, a < b
  PROVE  Before(a) < Before(b)
<1>1. active \subseteq Nat /\ IsFiniteSet(Ahead(b)) /\ Before(a) \in Nat /\ Before(b) \in Nat
      /\ Before(a) = Cardinality(Ahead(a)) /\ Before(b) = Cardinality(Ahead(b))
  BY BeforeType
<1>2. Ahead(a) \in SUBSET Ahead(b) /\ a \in Ahead(b) /\ a \notin Ahead(a)
  <2>1. a \in Nat /\ b \in Nat /\ \A c \in active : c \in Nat /\ (c < a => c < b)
    BY <1>1
  <2>2. \A n, x : x \in Ahead(n) <=> x \in active /\ x < n
    BY DEF Ahead
  <2>3. ~(a < a)
    BY <2>1
  <2>4. Ahead(a) \subseteq Ahead(b)
    BY <2>1, <2>2
  <2> QED  BY <2>2, <2>3, <2>4
<1>3. Cardinality(Ahead(a)) <= Cardinality(Ahead(b))
      /\ Cardinality(Ahead(a)) # Cardinality(Ahead(b))
  BY <1>1, <1>2, FS_Subset
<1> QED  BY <1>1, <1>3

\* The account right behind another has one row more before it.
LEMMA BeforeNext ==
  ASSUME RecalcTypeOK, NEW a \in active, NEW b \in active, b < a,
         \A c \in active : c < a => c <= b
  PROVE  Before(a) = Before(b) + 1
<1>1. active \subseteq Nat /\ IsFiniteSet(Ahead(b))
      /\ Before(a) = Cardinality(Ahead(a)) /\ Before(b) = Cardinality(Ahead(b))
  BY BeforeType
<1>2. Ahead(a) = Ahead(b) \cup {b} /\ b \notin Ahead(b)
  <2>1. ASSUME NEW c \in active  PROVE c < a <=> c < b \/ c = b
    <3>1. a \in Nat /\ b \in Nat /\ c \in Nat
      BY <1>1
    <3> QED  BY <3>1
  <2>2. \A n, x : x \in Ahead(n) <=> x \in active /\ x < n
    BY DEF Ahead
  <2>3. ~(b < b)
    BY <1>1
  <2> QED  BY <2>1, <2>2, <2>3
<1> QED  BY <1>1, <1>2, FS_AddElement

\* There is an account at every place up to the last one taken.
LEMMA NoGaps ==
  ASSUME RecalcTypeOK, NEW n \in Nat, NEW x \in active, Before(x) >= n
  PROVE  \E a \in active : Before(a) = n
<1> DEFINE High == {a \in active : Before(a) >= n}
<1>1. active \subseteq Nat /\ \A a \in active : Before(a) \in Nat
  BY BeforeType
<1>2. PICK a \in High : \A c \in High : a <= c
  <2>1. High \subseteq Nat /\ x \in High
    BY <1>1
  <2> QED  BY <2>1, LeastOf
<1>3. CASE Ahead(a) = {}
  <2>1. Before(a) = 0
    BY <1>3, FS_EmptySet DEF Before, Ahead
  <2> QED  BY <1>2, <2>1
<1>4. CASE Ahead(a) # {}
  <2> DEFINE Gaps == {a - b : b \in Ahead(a)}
  <2>1. Gaps \subseteq Nat /\ Gaps # {}
    <3>1. \A b \in Ahead(a) : a \in Nat /\ b \in Nat /\ b < a
      BY <1>1, <1>2 DEF Ahead
    <3>2. \A b \in Ahead(a) : a - b \in Nat
      BY <3>1
    <3> QED  BY <1>4, <3>2
  <2>2. \E g \in Gaps : \A h \in Gaps : g <= h
    <3> HIDE DEF Gaps
    <3> QED  BY <2>1, LeastOf
  <2>3. PICK b \in Ahead(a) : \A c \in Ahead(a) : a - b <= a - c
    BY <2>2
  <2>4. b \in active /\ b < a /\ \A c \in active : c < a => c <= b
    <3>1. b \in active /\ b < a
      BY DEF Ahead
    <3>2. ASSUME NEW c \in active, c < a  PROVE c <= b
      <4>1. a - b <= a - c
        BY <2>3, <3>2 DEF Ahead
      <4>2. a \in Nat /\ b \in Nat /\ c \in Nat
        BY <1>1, <1>2, <3>1
      <4> QED  BY <4>1, <4>2
    <3> QED  BY <3>1, <3>2
  <2>5. Before(a) = Before(b) + 1
    BY <1>2, <2>4, BeforeNext
  <2>6. b \notin High
    BY <1>1, <1>2, <2>4
  <2> QED  BY <1>1, <1>2, <2>4, <2>5, <2>6
<1> QED  BY <1>3, <1>4

\* A page holds no more rows than it may take.
LEMMA PageFits ==
  ASSUME RecalcTypeOK, NEW n \in Nat
  PROVE  /\ Page(n) \subseteq active
         /\ Cardinality(Page(n)) \in 0 .. BatchSize
<1> DEFINE T == n .. n + BatchSize - 1
           f == [a \in Page(n) |-> Before(a)]
<1>1. BatchSize \in Nat /\ IsFiniteSet(T) /\ Cardinality(T) <= BatchSize
  BY RecalcConstants, FS_Interval
<1>2. active \subseteq Nat /\ \A a \in active : Before(a) \in Nat
  BY BeforeType
<1>3. \A a, b \in Page(n) : Before(a) = Before(b) => a = b
  BY <1>2, BeforeOrders DEF Page
<1>4. f \in Injection(Page(n), T)
  BY <1>3 DEF Page, Injection, IsInjective
<1> HIDE DEF T, f
<1>5. IsFiniteSet(Page(n)) /\ Cardinality(Page(n)) <= Cardinality(T)
  BY <1>1, <1>4, FS_Injection
<1>6. Cardinality(Page(n)) \in Nat /\ Cardinality(T) \in Nat
  BY <1>1, <1>5, FS_CardinalityType
<1> QED  BY <1>1, <1>5, <1>6 DEF Page

-----------------------------------------------------------------------------
(***************************************************************************)
(* Each step keeps the invariant.                                          *)
(***************************************************************************)
LEMMA RecalcStart == RecalcInit => RecalcInv
<1> SUFFICES ASSUME RecalcInit  PROVE RecalcInv
  OBVIOUS
<1>1. InitialAccounts \in 0 .. MaxAccounts /\ MaxAccounts \in Nat
  BY RecalcConstants
<1>2. RecalcTypeOK
  BY <1>1 DEF RecalcInit, RecalcTypeOK, IdleRun, NoRun, NoJob, Ids
<1>3. created = 1 .. InitialAccounts /\ run.pc = "idle" /\ run.page = {}
  BY DEF RecalcInit, IdleRun
<1> QED  BY <1>1, <1>2, <1>3 DEF RecalcInv, RunOfJob, PagesInPlace

LEMMA IsJob ==
  ASSUME NEW state \in {"absent", "waiting", "active", "failed", "completed"},
         NEW stalled \in BOOLEAN
  PROVE  [state |-> state, stalled |-> stalled]
           \in [state: {"absent", "waiting", "active", "failed", "completed"},
                stalled: BOOLEAN]
OBVIOUS

LEMMA IsRun ==
  ASSUME NEW pc \in {"idle", "list", "fetch", "find", "save"}, NEW offset \in Nat,
         NEW page \in SUBSET Ids, NEW usage \in Nat, NEW found \in BOOLEAN
  PROVE  [pc |-> pc, offset |-> offset, page |-> page, usage |-> usage, found |-> found]
           \in [pc: {"idle", "list", "fetch", "find", "save"}, offset: Nat,
                page: SUBSET Ids, usage: Nat, found: BOOLEAN]
OBVIOUS

\* Steps that leave the accounts and the run alone.
LEMMA BesideTheRun ==
  ASSUME RecalcInv, RecalcTypeOK', UNCHANGED <<created, active, run, history>>,
         run.pc # "idle" => job'.state = "active"
  PROVE  RecalcInv'
<1>1. \A a : Before(a)' = Before(a)
  BY DEF Before
<1>2. Current' = Current
  BY DEF Current
<1> QED  BY <1>1, <1>2 DEF RecalcInv, RunOfJob, PagesInPlace

\* What a run and its history are made of.
LEMMA RunType ==
  ASSUME RecalcTypeOK
  PROVE  /\ run.pc \in {"idle", "list", "fetch", "find", "save"}
         /\ run.offset \in Nat /\ run.page \subseteq Ids /\ run.usage \in Nat
         /\ run.found \in BOOLEAN
         /\ history.visited \subseteq Ids /\ history.throughout \subseteq Ids
         /\ history.shifted \in BOOLEAN
BY DEF RecalcTypeOK

LEMMA GivingType ==
  ASSUME NEW a
  PROVE  IsFiniteSet(Giving(a)) /\ Cardinality(Giving(a)) \in Nat
<1>1. Giving(a) \in SUBSET Givers
  BY DEF Giving
<1> QED  BY <1>1, RecalcConstants, FS_Subset, FS_CardinalityType

\* The reader and the failure of a give-back leave everything else alone.
LEMMA GiveReadStep ==
  ASSUME RecalcInv, NEW g \in Givers,
         GiveBackFails(g) \/ \E a \in Ids : GiveBackRead(g, a)
  PROVE  RecalcInv'
<1>1. UNCHANGED <<created, active, usedBytes, remote, claims, job, tick, run, history>>
  BY DEF GiveBackFails, GiveBackRead, rowVars, jobVars
<1>2. give' \in [Givers -> [account: Ids, usage: Nat, found: BOOLEAN] \cup {NoGive}]
  <2>1. give \in [Givers -> [account: Ids, usage: Nat, found: BOOLEAN] \cup {NoGive}]
        /\ usedBytes \in [Ids -> Nat]
    BY DEF RecalcInv, RecalcTypeOK
  <2>2. CASE GiveBackFails(g)
    BY <2>1, <2>2 DEF GiveBackFails
  <2>3. ASSUME NEW a \in Ids, GiveBackRead(g, a)
        PROVE  give' \in [Givers -> [account: Ids, usage: Nat, found: BOOLEAN] \cup {NoGive}]
    <3> DEFINE new == [account |-> a, usage |-> usedBytes[a], found |-> a \in active]
    <3>1. new \in [account: Ids, usage: Nat, found: BOOLEAN]
      BY <2>1
    <3>2. give' = [give EXCEPT ![g] = new]
      BY <2>3 DEF GiveBackRead
    <3> HIDE DEF new
    <3> QED  BY <2>1, <3>1, <3>2
  <2> QED  BY <2>2, <2>3
<1>3. RecalcTypeOK'
  BY <1>1, <1>2 DEF RecalcInv, RecalcTypeOK
<1> QED  BY <1>1, <1>3, BesideTheRun DEF RecalcInv, RunOfJob

\* More active accounts are before each, or as many.
LEMMA BeforeGrows ==
  ASSUME RecalcTypeOK, RecalcTypeOK', active \subseteq active', NEW b
  PROVE  Before(b) <= Before(b)'
<1> DEFINE S == {x \in active : x < b}
           T == {x \in active' : x < b}
<1>1. S \in SUBSET T
  OBVIOUS
<1>2. IsFiniteSet(T)
  <2>1. MaxAccounts \in Nat /\ active' \in SUBSET Ids
    BY RecalcConstants DEF RecalcTypeOK, Ids
  <2>2. IsFiniteSet(Ids)
    BY <2>1, FS_Interval DEF Ids
  <2>3. T \in SUBSET Ids
    BY <2>1
  <2> QED  BY <2>2, <2>3, FS_Subset
<1> HIDE DEF S, T
<1>3. Cardinality(S) <= Cardinality(T)
  BY <1>1, <1>2, FS_Subset
<1> QED  BY <1>3 DEF Before, S, T

LEMMA GiveSaveStep ==
  ASSUME RecalcInv, GivesInv, NEW g \in Givers, GiveBackSave(g)
  PROVE  RecalcInv'
<1> DEFINE a == give[g].account
<1>1. UNCHANGED <<created, remote, job, tick, run>>
  BY DEF GiveBackSave
<1>2. give[g] \in [account: Ids, usage: Nat, found: BOOLEAN] /\ a \in Ids
  BY DEF GiveBackSave, RecalcInv, RecalcTypeOK
<1>3. claims[a] - 1 \in Nat
  <2>1. g \in Giving(a)
    BY DEF Giving
  <2>2. Cardinality(Giving(a)) # 0
    BY <2>1, GivingType, FS_EmptySet
  <2>3. claims[a] \in Nat /\ Cardinality(Giving(a)) <= claims[a]
    BY <1>2 DEF GivesInv, RecalcInv, RecalcTypeOK
  <2> QED  BY <2>2, <2>3, GivingType
<1>4. usedBytes' \in [Ids -> Nat] /\ claims' \in [Ids -> Nat]
  <2>1. PICK n \in Nat : n = IF give[g].usage > 0 THEN give[g].usage - 1 ELSE 0
    <3>1. give[g].usage \in Nat
      BY <1>2
    <3> QED  BY <3>1
  <2>2. usedBytes' = [usedBytes EXCEPT ![a] = n] /\ claims' = [claims EXCEPT ![a] = claims[a] - 1]
    BY <2>1 DEF GiveBackSave
  <2> QED  BY <1>2, <1>3, <2>2 DEF RecalcInv, RecalcTypeOK
<1>5. give' \in [Givers -> [account: Ids, usage: Nat, found: BOOLEAN] \cup {NoGive}]
  BY DEF GiveBackSave, RecalcInv, RecalcTypeOK
<1>6. /\ active' = active \cup {a} \/ active' = active \ {a}
      /\ active' = active \cup {a} => a \in created
      /\ history' = history \/ Leaves(a)
      /\ a \in active /\ a \notin active' => Leaves(a)
  BY <1>2 DEF GiveBackSave, GivesInv
<1>7. /\ history'.throughout \subseteq Ids /\ history'.visited = history.visited
      /\ history' \in [visited: SUBSET Ids, throughout: SUBSET Ids, shifted: BOOLEAN]
      /\ ~history'.shifted => history' = history
      /\ history.shifted => history'.shifted
      /\ a \in active /\ a \notin active' => history'.shifted
  <2>1. history \in [visited: SUBSET Ids, throughout: SUBSET Ids, shifted: BOOLEAN]
    BY DEF RecalcInv, RecalcTypeOK
  <2>2. CASE history' = history
    BY <1>6, <2>1, <2>2 DEF Leaves
  <2>3. CASE Leaves(a)
    <3>1. history' = [visited |-> history.visited, throughout |-> history.throughout \ {a},
                      shifted |-> TRUE]
      BY <2>1, <2>3 DEF Leaves
    <3> QED  BY <2>1, <3>1
  <2> QED  BY <1>6, <2>2, <2>3
<1>8. active' \subseteq created'
  BY <1>1, <1>6 DEF RecalcInv, RecalcTypeOK
<1> HIDE DEF a
<1>9. RecalcTypeOK'
  BY <1>1, <1>4, <1>5, <1>7, <1>8 DEF RecalcInv, RecalcTypeOK
<1>10. RunOfJob'
  <2>1. Current' = Current
    BY <1>1 DEF Current
  <2> QED  BY <1>1, <1>6, <1>7, <2>1 DEF RecalcInv, RunOfJob
<1>11. PagesInPlace'
  <2> SUFFICES ASSUME run.pc # "idle", ~history'.shifted
               PROVE  /\ history'.throughout \subseteq active'
                      /\ \A b \in history'.throughout : Before(b)' < run.offset =>
                           b \in history'.visited \cup run.page
    BY <1>1 DEF PagesInPlace
  <2>1. history' = history /\ active \subseteq active'
    BY <1>6, <1>7
  <2>2. /\ history.throughout \subseteq active
        /\ \A b \in history.throughout : Before(b) < run.offset =>
             b \in history.visited \cup run.page
    BY <1>7 DEF RecalcInv, PagesInPlace
  <2>3. \A b : /\ Before(b) <= Before(b)' /\ Before(b) \in Nat /\ Before(b)' \in Nat
    <3> SUFFICES ASSUME NEW b
                 PROVE  Before(b) <= Before(b)' /\ Before(b) \in Nat /\ Before(b)' \in Nat
      OBVIOUS
    <3>1. Before(b) <= Before(b)' /\ Before(b) \in Nat
      BY <1>9, <2>1, BeforeGrows, BeforeType DEF RecalcInv
    <3>2. Before(b)' \in Nat
      <4>1. IsFiniteSet({x \in active' : x < b})
        <5>1. MaxAccounts \in Nat /\ {x \in active' : x < b} \in SUBSET Ids
          BY <1>9, RecalcConstants DEF RecalcTypeOK, Ids
        <5>2. IsFiniteSet(Ids)
          BY <5>1, FS_Interval DEF Ids
        <5> QED  BY <5>1, <5>2, FS_Subset
      <4> QED  BY <4>1, FS_CardinalityType DEF Before
    <3> QED  BY <3>1, <3>2
  <2>4. run.offset \in Nat
    BY RunType DEF RecalcInv
  <2> QED  BY <2>1, <2>2, <2>3, <2>4
<1> QED  BY <1>1, <1>9, <1>10, <1>11 DEF RecalcInv

LEMMA BytesStep ==
  ASSUME RecalcInv, NEW a \in Ids, Reserve(a) \/ Arrive(a) \/ Destroy(a)
  PROVE  RecalcInv'
<1>1. UNCHANGED <<created, active, give, job, tick, run, history>>
  BY DEF Reserve, Arrive, Destroy, rowVars, jobVars
<1>2. usedBytes' \in [Ids -> Nat] /\ remote' \in [Ids -> Nat] /\ claims' \in [Ids -> Nat]
  <2>1. usedBytes \in [Ids -> Nat] /\ remote \in [Ids -> Nat] /\ claims \in [Ids -> Nat]
    BY DEF RecalcInv, RecalcTypeOK
  <2>2. CASE Reserve(a)
    BY <2>1, <2>2 DEF Reserve
  <2>3. CASE Arrive(a)
    <3>1. claims[a] - 1 \in Nat
      BY <2>1, <2>3, GivingType DEF Arrive, Claimed
    <3> QED  BY <2>1, <2>3, <3>1 DEF Arrive, rowVars
  <2>4. CASE Destroy(a)
    BY <2>1, <2>4 DEF Destroy, rowVars
  <2> QED  BY <2>2, <2>3, <2>4
<1>3. RecalcTypeOK'
  BY <1>1, <1>2 DEF RecalcInv, RecalcTypeOK
<1> QED  BY <1>1, <1>3, BesideTheRun DEF RecalcInv, RunOfJob

LEMMA AddStep ==
  ASSUME RecalcInv, NEW a \in Ids, AddAccount(a)
  PROVE  RecalcInv'
<1>1. PICK n \in 0 .. MaxAccounts : created = 1 .. n
  BY DEF RecalcInv
<1>2. Cardinality(created) = n /\ MaxAccounts \in Nat /\ n \in Nat
  BY <1>1, FS_Interval, RecalcConstants
<1>3. a = n + 1 /\ a \in 0 .. MaxAccounts /\ created' = 1 .. a
  BY <1>1, <1>2 DEF AddAccount, Ids
<1>4. UNCHANGED <<usedBytes, remote, claims, give, job, tick, run, history>>
      /\ active' = active \cup {a} /\ created' = created \cup {a}
  BY DEF AddAccount, byteVars, jobVars
<1>5. RecalcTypeOK'
  BY <1>4 DEF RecalcInv, RecalcTypeOK
<1>6. \A b \in active : Before(b)' = Before(b)
  <2> SUFFICES ASSUME NEW b \in active  PROVE Before(b)' = Before(b)
    OBVIOUS
  <2>1. \A c \in active : c \in 1 .. n
    BY <1>1 DEF RecalcInv, RecalcTypeOK
  <2>2. ~(a < b)
    BY <1>2, <1>3, <2>1
  <2>3. {c \in active \cup {a} : c < b} = {c \in active : c < b}
    BY <2>2
  <2> QED  BY <1>4, <2>3 DEF Before
<1>7. RunOfJob'
  <2>1. Current' = Current
    BY <1>4 DEF Current
  <2> QED  BY <1>4, <2>1 DEF RecalcInv, RunOfJob
<1>8. PagesInPlace'
  BY <1>4, <1>6 DEF RecalcInv, PagesInPlace
<1> QED  BY <1>3, <1>5, <1>7, <1>8 DEF RecalcInv

LEMMA DeactivateStep ==
  ASSUME RecalcInv, NEW a \in Ids, Deactivate(a)
  PROVE  RecalcInv'
<1>1. UNCHANGED <<created, usedBytes, remote, claims, give, job, tick, run>>
      /\ active' = active \ {a}
      /\ history' = [history EXCEPT !.throughout = @ \ {a}, !.shifted = TRUE]
  BY DEF Deactivate, byteVars, Leaves
<1>2. /\ history'.throughout \subseteq Ids /\ history'.shifted
      /\ history'.visited = history.visited /\ RecalcTypeOK'
  BY <1>1 DEF RecalcInv, RecalcTypeOK
<1>3. Current' = Current
  BY <1>1 DEF Current
<1> QED  BY <1>1, <1>2, <1>3 DEF RecalcInv, RunOfJob, PagesInPlace

LEMMA TickStep ==
  ASSUME RecalcInv, TickGetJob \/ TickAdd
  PROVE  RecalcInv'
<1>1. UNCHANGED <<created, active, usedBytes, remote, claims, give, run, history>>
  BY DEF TickGetJob, TickAdd, rowVars, byteVars
<1>2. job' = job \/ (job = NoJob /\ job' = [NoJob EXCEPT !.state = "waiting"])
  BY DEF TickGetJob, TickAdd
<1>3. RecalcTypeOK' /\ (run.pc # "idle" => job'.state = "active")
  <2>1. tick' \in {"idle", "add"}
    BY DEF TickGetJob, TickAdd
  <2>2. CASE job' = job
    BY <1>1, <2>1, <2>2 DEF RecalcInv, RecalcTypeOK, RunOfJob
  <2>3. CASE job = NoJob /\ job' = [NoJob EXCEPT !.state = "waiting"]
    <3>1. job' = [state |-> "waiting", stalled |-> FALSE] /\ run.pc = "idle"
      BY <2>3 DEF NoJob, RecalcInv, RunOfJob
    <3> QED  BY <1>1, <2>1, <3>1 DEF RecalcInv, RecalcTypeOK
  <2> QED  BY <1>2, <2>2, <2>3
<1> QED  BY <1>1, <1>3, BesideTheRun

LEMMA ProcessStep ==
  ASSUME RecalcInv, Process
  PROVE  RecalcInv'
<1>1. UNCHANGED <<created, active, usedBytes, remote, claims, give, tick>>
      /\ job' = [job EXCEPT !.state = "active"]
      /\ run' = [IdleRun EXCEPT !.pc = "list"]
      /\ history' = [NoRun EXCEPT !.throughout = active]
  BY DEF Process, rowVars, byteVars
<1>2. /\ run'.pc = "list" /\ run'.offset = 0 /\ run'.page = {}
      /\ history'.throughout = active /\ job'.state = "active"
  BY <1>1 DEF IdleRun, NoRun, RecalcInv, RecalcTypeOK
<1>3. RecalcTypeOK'
  BY <1>1 DEF RecalcInv, RecalcTypeOK, IdleRun, NoRun
<1>4. \A a \in active : ~(Before(a)' < 0)
  <2>1. \A a : Before(a)' = Before(a)
    BY <1>1 DEF Before
  <2> QED  BY <2>1, BeforeType DEF RecalcInv
<1> QED  BY <1>1, <1>2, <1>3, <1>4 DEF RecalcInv, RunOfJob, PagesInPlace

\* Throw and Restart end the run.
LEMMA EndStep ==
  ASSUME RecalcInv, Throw \/ Restart
  PROVE  RecalcInv'
<1>1. UNCHANGED <<created, active, usedBytes, remote, claims, give, tick, history>> /\ run' = IdleRun
  BY DEF Throw, Restart, rowVars, byteVars
<1>2. job' \in [state: {"absent", "waiting", "active", "failed", "completed"},
                stalled: BOOLEAN]
  <2>1. job.state \in {"absent", "waiting", "active", "failed", "completed"}
        /\ job.stalled \in BOOLEAN
    BY DEF RecalcInv, RecalcTypeOK
  <2>2. \/ job' = [state |-> "failed", stalled |-> job.stalled]
        \/ job' = [state |-> "failed", stalled |-> TRUE]
        \/ job' = [state |-> "waiting", stalled |-> TRUE]
    BY DEF Throw, Restart, RecalcInv, RecalcTypeOK
  <2> QED  BY <2>1, <2>2, IsJob
<1>3. RecalcTypeOK' /\ run'.pc = "idle" /\ run'.page = {}
  BY <1>1, <1>2 DEF RecalcInv, RecalcTypeOK, IdleRun
<1> QED  BY <1>1, <1>3 DEF RecalcInv, RunOfJob, PagesInPlace

\* A page is taken, and the run goes on with its first account; or there is
\* none and the run has completed.
LEMMA ListStep ==
  ASSUME RecalcInv, List
  PROVE  RecalcInv'
<1> DEFINE page == Page(run.offset)
           n    == Cardinality(page)
<1>1. UNCHANGED <<created, active, usedBytes, remote, claims, give, tick, history>>
      /\ run.pc = "list" /\ run.page = {}
  BY DEF List, rowVars, byteVars, RecalcInv, RunOfJob
<1>2. run.offset \in Nat /\ n \in 0 .. BatchSize /\ BatchSize \in Nat
      /\ page \subseteq Ids /\ page \subseteq created
  BY RunType, PageFits, BeforeType, RecalcConstants DEF RecalcInv, RecalcTypeOK
<1>3. \A a : Before(a)' = Before(a)
  BY <1>1 DEF Before
<1>4. CASE page = {}
  <2>1. run' = IdleRun /\ job' = NoJob
    BY <1>4 DEF List, Completed
  <2>2. RecalcTypeOK' /\ run'.pc = "idle" /\ run'.page = {}
    BY <1>1, <2>1 DEF RecalcInv, RecalcTypeOK, IdleRun, NoJob
  <2> QED  BY <1>1, <2>2 DEF RecalcInv, RunOfJob, PagesInPlace
<1>5. CASE page # {}
  <2>1. job' = job
        /\ run' = [run EXCEPT !.pc = "fetch", !.page = page, !.offset = @ + n]
    BY <1>5 DEF List
  <2> HIDE DEF page, n
  <2>2. /\ run'.pc = "fetch" /\ run'.page = page /\ run'.offset = run.offset + n
        /\ RecalcTypeOK'
    <3>1. run' = [pc |-> "fetch", offset |-> run.offset + n, page |-> page,
                  usage |-> run.usage, found |-> run.found]
      BY <2>1 DEF RecalcInv, RecalcTypeOK
    <3>2. run.offset + n \in Nat /\ run.usage \in Nat /\ run.found \in BOOLEAN
      BY <1>2, RunType DEF RecalcInv
    <3>3. run' \in [pc: {"idle", "list", "fetch", "find", "save"}, offset: Nat,
                    page: SUBSET Ids, usage: Nat, found: BOOLEAN]
      BY <1>2, <3>1, <3>2, IsRun
    <3>4. RecalcTypeOK'
      BY <1>1, <2>1, <3>3 DEF RecalcInv, RecalcTypeOK
    <3> QED  BY <3>1, <3>4
  <2>3. RunOfJob'
    BY <1>1, <1>2, <1>5, <2>1, <2>2 DEF RecalcInv, RunOfJob
  <2>4. ASSUME ~history.shifted, NEW a \in history.throughout, Before(a) < run.offset + n
        PROVE  a \in history.visited \cup page
    <3>1. a \in active /\ (Before(a) < run.offset => a \in history.visited)
      BY <1>1, <2>4 DEF RecalcInv, PagesInPlace
    <3>2. Before(a) \in Nat
      BY BeforeType DEF RecalcInv
    <3>3. Before(a) >= run.offset => Before(a) \in run.offset .. run.offset + BatchSize - 1
      BY <1>2, <2>4, <3>2
    <3> QED  BY <1>2, <3>1, <3>2, <3>3 DEF Page, page
  <2>5. PagesInPlace'
    BY <1>1, <1>3, <2>2, <2>4 DEF RecalcInv, PagesInPlace
  <2> QED  BY <1>1, <2>2, <2>3, <2>5 DEF RecalcInv
<1> QED  BY <1>4, <1>5

LEMMA FetchStep ==
  ASSUME RecalcInv, FetchUsage
  PROVE  RecalcInv'
<1>1. UNCHANGED <<created, active, usedBytes, remote, claims, give, job, tick, history>>
      /\ run.pc = "fetch"
      /\ run' = [run EXCEPT !.pc = "find", !.usage = remote[Current]]
  BY DEF FetchUsage, rowVars, byteVars
<1>2. run.page # {}
  BY <1>1 DEF RecalcInv, RunOfJob
<1>3. remote[Current] \in Nat
  BY <1>2, CurrentIs DEF RecalcInv, RecalcTypeOK
<1>4. /\ run'.pc = "find" /\ run'.page = run.page /\ run'.offset = run.offset
      /\ RecalcTypeOK'
  BY <1>1, <1>3 DEF RecalcInv, RecalcTypeOK
<1>5. \A a : Before(a)' = Before(a)
  BY <1>1 DEF Before
<1> QED  BY <1>1, <1>2, <1>4, <1>5 DEF RecalcInv, RunOfJob, PagesInPlace

\* The account that is done leaves the page, once it has been visited.
LEMMA Advances ==
  ASSUME RecalcInv, run.page # {}, run.pc # "idle",
         run' = AfterAccount,
         UNCHANGED <<created, job, tick, remote, claims, give>>,
         usedBytes' \in [Ids -> Nat], active' \subseteq created,
         ~history.shifted => active' = active,
         history' = [history EXCEPT !.visited = @ \cup {Current}]
  PROVE  RecalcInv'
<1> DEFINE rest == run.page \ {Current}
           next == IF rest # {} THEN "fetch" ELSE "list"
<1>1. Current \in run.page /\ Current \in Ids
  BY CurrentIs DEF RecalcInv
<1>2. next \in {"idle", "list", "fetch", "find", "save"} /\ next # "idle" /\ next # "save"
      /\ (rest = {} <=> next \in {"idle", "list"})
  OBVIOUS
<1>3. run' = [pc |-> next, offset |-> run.offset, page |-> rest, usage |-> 0,
              found |-> FALSE]
  BY DEF AfterAccount, RecalcInv, RecalcTypeOK
<1> HIDE DEF rest, next
<1>4. history' = [visited |-> history.visited \cup {Current},
                  throughout |-> history.throughout, shifted |-> history.shifted]
  BY DEF RecalcInv, RecalcTypeOK
<1>5. RecalcTypeOK'
  <2>1. rest \subseteq Ids /\ history.visited \cup {Current} \subseteq Ids
    BY <1>1, RunType DEF rest, RecalcInv
  <2>2. history' \in [visited: SUBSET Ids, throughout: SUBSET Ids, shifted: BOOLEAN]
    BY <1>4, <2>1, RunType DEF RecalcInv
  <2>3. run' \in [pc: {"idle", "list", "fetch", "find", "save"}, offset: Nat,
                  page: SUBSET Ids, usage: Nat, found: BOOLEAN]
    <3>1. run.offset \in Nat /\ 0 \in Nat /\ FALSE \in BOOLEAN
      BY RunType DEF RecalcInv
    <3>2. rest \in SUBSET Ids
      BY <2>1
    <3>3. [pc |-> next, offset |-> run.offset, page |-> rest, usage |-> 0,
           found |-> FALSE]
            \in [pc: {"idle", "list", "fetch", "find", "save"}, offset: Nat,
                 page: SUBSET Ids, usage: Nat, found: BOOLEAN]
      BY <1>2, <3>1, <3>2, IsRun
    <3> QED  BY <1>3, <3>3
  <2> QED  BY <2>2, <2>3 DEF RecalcInv, RecalcTypeOK
<1>6. RunOfJob'
  <2>1. rest \subseteq run.page
    BY DEF rest
  <2>2. run'.pc = next /\ run'.page = rest
    BY <1>3
  <2> QED  BY <1>2, <2>1, <2>2 DEF RecalcInv, RunOfJob
<1>7. PagesInPlace'
  <2> SUFFICES ASSUME ~history.shifted  PROVE PagesInPlace'
    BY <1>4 DEF PagesInPlace
  <2>1. \A a : Before(a)' = Before(a)
    BY DEF Before
  <2>2. run.page \subseteq rest \cup {Current}
    BY DEF rest
  <2> QED  BY <1>3, <1>4, <2>1, <2>2 DEF RecalcInv, PagesInPlace
<1> QED  BY <1>5, <1>6, <1>7 DEF RecalcInv

LEMMA FindStep ==
  ASSUME RecalcInv, FindAccount
  PROVE  RecalcInv'
<1>1. UNCHANGED <<created, active, usedBytes, remote, claims, give, job, tick>>
      /\ run.pc = "find" /\ history' = [history EXCEPT !.visited = @ \cup {Current}]
  BY DEF FindAccount, rowVars, byteVars
<1>2. run.page # {} /\ Current \in run.page /\ Current \in Ids
  BY <1>1, CurrentIs DEF RecalcInv, RunOfJob
<1>3. CASE Current \in active
  <2>1. run' = [run EXCEPT !.pc = "save", !.found = TRUE]
    BY <1>3 DEF FindAccount, StillActive
  <2>2. /\ run'.pc = "save" /\ run'.found /\ run'.page = run.page
        /\ run'.offset = run.offset
        /\ history'.visited = history.visited \cup {Current}
        /\ history'.throughout = history.throughout /\ history'.shifted = history.shifted
    BY <1>1, <2>1 DEF RecalcInv, RecalcTypeOK
  <2>3. Current' = Current
    BY <2>2 DEF Current
  <2>4. RecalcTypeOK'
    BY <1>1, <1>2, <2>1 DEF RecalcInv, RecalcTypeOK
  <2>5. \A a : Before(a)' = Before(a)
    BY <1>1 DEF Before
  <2>6. RunOfJob'
    BY <1>1, <1>2, <1>3, <2>2, <2>3 DEF RecalcInv, RunOfJob
  <2>7. PagesInPlace'
    BY <1>1, <2>2, <2>5 DEF RecalcInv, PagesInPlace
  <2> QED  BY <1>1, <2>4, <2>6, <2>7 DEF RecalcInv
<1>4. CASE Current \notin active
  <2>1. run' = AfterAccount
    BY <1>4 DEF FindAccount, StillActive
  <2> QED  BY <1>1, <1>2, <2>1, Advances DEF RecalcInv, RecalcTypeOK
<1> QED  BY <1>3, <1>4

LEMMA SaveStep ==
  ASSUME RecalcInv, SaveAccount
  PROVE  RecalcInv'
<1>1. UNCHANGED <<created, remote, claims, give, job, tick, history>>
      /\ run.pc = "save" /\ run' = AfterAccount
  BY DEF SaveAccount, byteVars
<1>2. run.page # {} /\ Current \in Ids /\ run.found /\ Current \in history.visited
      /\ (Current \in active \/ history.shifted)
  BY <1>1, CurrentIs DEF RecalcInv, RunOfJob
<1>3. active' = active \cup {Current} /\ usedBytes' = [usedBytes EXCEPT ![Current] = run.usage]
  BY <1>2 DEF SaveAccount, Saved
<1>4. usedBytes' \in [Ids -> Nat]
  BY <1>2, <1>3, RunType DEF RecalcInv, RecalcTypeOK
<1>5. Current \in created /\ created \subseteq Ids
  BY <1>2, CurrentIs DEF RecalcInv, RecalcTypeOK, RunOfJob
<1>6. history' = [history EXCEPT !.visited = @ \cup {Current}]
  BY <1>1, <1>2 DEF RecalcInv, RecalcTypeOK
<1>7. active' \subseteq created /\ (~history.shifted => active' = active)
  BY <1>2, <1>3, <1>5 DEF RecalcInv, RecalcTypeOK
<1> QED  BY <1>1, <1>2, <1>4, <1>6, <1>7, Advances

LEMMA RecalcStep == RecalcInv /\ GivesInv /\ [RecalcNext]_recalcVars => RecalcInv'
<1> SUFFICES ASSUME RecalcInv, GivesInv, [RecalcNext]_recalcVars  PROVE RecalcInv'
  OBVIOUS
<1>1. CASE Api
  BY <1>1, BytesStep, AddStep, DeactivateStep, GiveReadStep, GiveSaveStep DEF Api
<1>2. CASE TickGetJob \/ TickAdd
  BY <1>2, TickStep
<1>3. CASE Worker
  BY <1>3, ProcessStep, ListStep, FetchStep, FindStep, SaveStep DEF Worker
<1>4. CASE Throw \/ Restart
  BY <1>4, EndStep
<1>5. CASE UNCHANGED recalcVars
  <2>1. UNCHANGED <<created, active, usedBytes, remote, claims, give, job, tick, run, history>>
    BY <1>5 DEF recalcVars, rowVars, byteVars, jobVars
  <2> QED  BY <2>1, BesideTheRun DEF RecalcInv, RecalcTypeOK, RunOfJob
<1> QED  BY <1>1, <1>2, <1>3, <1>4, <1>5 DEF RecalcNext

\* The givers of an account are those there were, but for the one that reads
\* or ends.
LEMMA GivesStep ==
  ASSUME RecalcInv, GivesInv, [RecalcNext]_recalcVars
  PROVE  GivesInv'
<1>1. /\ claims \in [Ids -> Nat] /\ 0 \notin Ids
      /\ give \in [Givers -> [account: Ids, usage: Nat, found: BOOLEAN] \cup {NoGive}]
  BY DEF RecalcInv, RecalcTypeOK, Ids
<1>2. ASSUME UNCHANGED give, created \subseteq created', claims' \in [Ids -> Nat],
             \A a \in Ids : claims'[a] >= claims[a] \/ claims'[a] >= Cardinality(Giving(a))
      PROVE  GivesInv'
  <2>1. \A a : Giving(a)' = Giving(a)
    BY <1>2 DEF Giving
  <2>2. \A a \in Ids : Cardinality(Giving(a)) <= claims'[a]
    <3> TAKE a \in Ids
    <3>1. Cardinality(Giving(a)) <= claims[a] /\ claims[a] \in Nat /\ claims'[a] \in Nat
      BY <1>1, <1>2 DEF GivesInv
    <3> QED  BY <1>2, <3>1, GivingType
  <2> QED  BY <1>2, <2>1, <2>2 DEF GivesInv
<1>3. ASSUME NEW b \in Ids, Reserve(b) \/ Arrive(b) \/ Destroy(b)  PROVE GivesInv'
  <2>1. UNCHANGED <<give, created>>
    BY <1>3 DEF Reserve, Arrive, Destroy, rowVars
  <2>2. CASE Arrive(b)
    <3>1. claims[b] - 1 \in Nat /\ claims[b] - 1 >= Cardinality(Giving(b))
      BY <1>1, <2>2, GivingType DEF Arrive, Claimed
    <3>2. claims' = [claims EXCEPT ![b] = claims[b] - 1]
      BY <2>2 DEF Arrive
    <3> QED  BY <1>1, <1>2, <2>1, <3>1, <3>2
  <2>3. CASE Reserve(b) \/ Destroy(b)
    <3>1. claims' = [claims EXCEPT ![b] = claims[b] + 1]
      BY <2>3 DEF Reserve, Destroy
    <3> QED  BY <1>1, <1>2, <2>1, <3>1
  <2> QED  BY <1>3, <2>2, <2>3
<1>4. ASSUME NEW b \in Ids, NEW g \in Givers, GiveBackRead(g, b)  PROVE GivesInv'
  <2> DEFINE new == [account |-> b, usage |-> usedBytes[b], found |-> b \in active]
  <2>1. new.account = b /\ (new.found => b \in created)
    BY DEF RecalcInv, RecalcTypeOK
  <2>2. /\ give' = [give EXCEPT ![g] = new] /\ give[g] = NoGive /\ UNCHANGED <<claims, created>>
        /\ claims[b] > Cardinality(Giving(b))
    BY <1>4 DEF GiveBackRead, Claimed, rowVars
  <2> HIDE DEF new
  <2>3. \A h \in Givers : give'[h] = IF h = g THEN new ELSE give[h]
    BY <1>1, <2>2
  <2>4. /\ Giving(b)' = Giving(b) \cup {g} /\ g \notin Giving(b)
        /\ \A a \in Ids \ {b} : Giving(a)' = Giving(a)
    BY <1>1, <2>1, <2>2, <2>3 DEF Giving, NoGive
  <2>5. Cardinality(Giving(b)') = Cardinality(Giving(b)) + 1
    BY <2>4, GivingType, FS_AddElement
  <2>6. Cardinality(Giving(b)') <= claims[b]
    <3>1. claims[b] \in Nat
      BY <1>1
    <3> QED  BY <2>2, <2>5, <3>1, GivingType
  <2>7. \A a \in Ids : Cardinality(Giving(a)') <= claims[a]
    BY <2>4, <2>6 DEF GivesInv
  <2> QED  BY <2>1, <2>2, <2>3, <2>7 DEF GivesInv
<1>5. ASSUME NEW g \in Givers, GiveBackSave(g) \/ GiveBackFails(g)  PROVE GivesInv'
  <2>0. PICK b \in Ids : b = give[g].account
    BY <1>1, <1>5 DEF GiveBackSave, GiveBackFails
  <2>1. /\ give' = [give EXCEPT ![g] = NoGive] /\ UNCHANGED created /\ b \in Ids
        /\ claims' = claims \/ claims' = [claims EXCEPT ![b] = claims[b] - 1]
    BY <1>1, <1>5, <2>0 DEF GiveBackSave, GiveBackFails, rowVars
  <2>2. \A h \in Givers : give'[h] = IF h = g THEN NoGive ELSE give[h]
    BY <1>1, <2>1
  <2>3. /\ Giving(b)' = Giving(b) \ {g} /\ g \in Giving(b)
        /\ \A a \in Ids \ {b} : Giving(a)' = Giving(a)
    BY <1>1, <2>0, <2>1, <2>2 DEF Giving, NoGive
  <2>4. Cardinality(Giving(b)') = Cardinality(Giving(b)) - 1
    BY <2>3, GivingType, FS_RemoveElement
  <2>5. Cardinality(Giving(b)') <= claims'[b]
    <3>1. claims[b] \in Nat /\ Cardinality(Giving(b)) <= claims[b]
      BY <1>1, <2>1 DEF GivesInv
    <3>2. claims'[b] >= claims[b] - 1
      BY <1>1, <2>1, <3>1
    <3>3. claims'[b] \in Int
      BY <1>1, <2>1, <3>1
    <3> QED  BY <2>4, <3>1, <3>2, <3>3, GivingType
  <2>6. \A a \in Ids \ {b} : claims'[a] = claims[a]
    BY <1>1, <2>1
  <2>7. \A a \in Ids : Cardinality(Giving(a)') <= claims'[a]
    <3> TAKE a \in Ids
    <3>1. CASE a = b
      BY <2>5, <3>1
    <3>2. CASE a # b
      BY <2>3, <2>6, <3>2 DEF GivesInv
    <3> QED  BY <3>1, <3>2
  <2> QED  BY <2>1, <2>2, <2>7 DEF GivesInv, NoGive
<1>6. ASSUME UNCHANGED <<give, claims>>, created \subseteq created'  PROVE GivesInv'
  <2>1. \A a \in Ids : claims'[a] >= claims[a]
    BY <1>1, <1>6
  <2> QED  BY <1>1, <1>2, <1>6, <2>1
<1>7. ASSUME NEW b \in Ids, AddAccount(b) \/ Deactivate(b)  PROVE GivesInv'
  BY <1>6, <1>7 DEF AddAccount, Deactivate, byteVars
<1>8. CASE TickGetJob \/ TickAdd \/ Worker \/ Throw \/ Restart \/ UNCHANGED recalcVars
  BY <1>6, <1>8 DEF TickGetJob, TickAdd, Worker, Process, List, FetchUsage, FindAccount,
                    SaveAccount, Throw, Restart, recalcVars, rowVars, byteVars
<1> QED  BY <1>3, <1>4, <1>5, <1>7, <1>8 DEF RecalcNext, Api

\* For any number of accounts, additions, deactivations and requests that give
\* bytes back, and pages of any size: the worker's job is active while it
\* runs, what it saves it has found, and, unless a deactivation has shifted
\* the pages, whichever of the accounts active from the start lie before the
\* offset are visited or on the page.  No byte is given back twice.
THEOREM RecalcInvariant == RecalcSpec => [](RecalcInv /\ GivesInv)
<1>1. RecalcInit => GivesInv
  <2> SUFFICES ASSUME RecalcInit  PROVE GivesInv
    OBVIOUS
  <2>1. give = [g \in Givers |-> NoGive] /\ claims = [a \in Ids |-> 0]
    BY DEF RecalcInit
  <2>2. ASSUME NEW a \in Ids  PROVE Giving(a) = {} /\ claims[a] = 0
    BY <2>1, RecalcConstants DEF Giving, NoGive, Ids
  <2>3. Cardinality({}) = 0
    BY FS_EmptySet
  <2>4. \A a \in Ids : Cardinality(Giving(a)) <= claims[a]
    BY <2>2, <2>3
  <2>5. \A g \in Givers : ~give[g].found
    BY <2>1 DEF NoGive
  <2> QED  BY <2>4, <2>5 DEF GivesInv
<1>2. RecalcInv /\ GivesInv /\ [RecalcNext]_recalcVars => (RecalcInv /\ GivesInv)'
  BY RecalcStep, GivesStep
<1> QED  BY <1>1, <1>2, RecalcStart, PTL DEF RecalcSpec

\* Books that balanced are spoilt only by a save of the recalculation that is
\* late or comes while bytes are claimed, or by a give-back that saves an
\* older row; and a deactivated account is touched only by such saves.
THEOREM OnlyLateSaves == RecalcSpec => OnlyLateSavesDoHarm
<1> DEFINE Harmless ==
      /\ \A a \in Ids : Balanced(a) /\ ~Balanced(a)' =>
            \/ Recalculates(a) /\ (claims[a] > 0 \/ remote[a] # run.usage)
            \/ LateGiver(a)
      /\ \A a \in created \ active : (a \in active' \/ usedBytes'[a] > usedBytes[a]) =>
            (Recalculates(a) /\ run.found) \/ LateGiver(a)
<1>1. RecalcInv /\ GivesInv /\ [RecalcNext]_recalcVars => Harmless
  <2> SUFFICES ASSUME RecalcInv, GivesInv, [RecalcNext]_recalcVars  PROVE Harmless
    OBVIOUS
  <2>1. /\ usedBytes \in [Ids -> Nat] /\ remote \in [Ids -> Nat] /\ claims \in [Ids -> Nat]
        /\ created \subseteq Ids
    BY DEF RecalcInv, RecalcTypeOK
  <2>2. CASE UNCHANGED <<usedBytes, remote, claims>> /\ active' \subseteq active
    BY <2>1, <2>2 DEF Balanced
  <2>3. ASSUME NEW b \in Ids, Reserve(b)  PROVE Harmless
    <3>1. /\ usedBytes' = [usedBytes EXCEPT ![b] = @ + 1] /\ claims' = [claims EXCEPT ![b] = @ + 1]
          /\ remote' = remote /\ active' = active /\ b \in active
      BY <2>3 DEF Reserve
    <3> QED  BY <2>1, <3>1 DEF Balanced
  <2>4. ASSUME NEW b \in Ids, Arrive(b)  PROVE Harmless
    <3>1. /\ claims' = [claims EXCEPT ![b] = @ - 1] /\ remote' = [remote EXCEPT ![b] = @ + 1]
          /\ usedBytes' = usedBytes /\ active' = active
      BY <2>4 DEF Arrive, rowVars
    <3> QED  BY <2>1, <3>1 DEF Balanced
  <2>5. ASSUME NEW b \in Ids, Destroy(b)  PROVE Harmless
    <3>1. /\ claims' = [claims EXCEPT ![b] = @ + 1] /\ remote' = [remote EXCEPT ![b] = @ - 1]
          /\ usedBytes' = usedBytes /\ active' = active
      BY <2>5 DEF Destroy, rowVars
    <3> QED  BY <2>1, <3>1 DEF Balanced
  <2>6. ASSUME NEW g \in Givers, GiveBackSave(g)  PROVE Harmless
    <3>0. PICK b \in Ids : b = give[g].account
      BY <2>6 DEF GiveBackSave, RecalcInv, RecalcTypeOK
    <3>1. /\ give[g] \in [account: Ids, usage: Nat, found: BOOLEAN] /\ b \in Ids
          /\ give' = [give EXCEPT ![g] = NoGive] /\ give'[g] = NoGive
      BY <2>6 DEF GiveBackSave, RecalcInv, RecalcTypeOK
    <3>2. /\ usedBytes' = [usedBytes EXCEPT ![b] = IF give[g].usage > 0 THEN give[g].usage - 1 ELSE 0]
          /\ claims' = [claims EXCEPT ![b] = @ - 1] /\ remote' = remote
          /\ active' = IF give[g].found THEN active \cup {b} ELSE active \ {b}
      BY <2>6, <3>0 DEF GiveBackSave
    <3>3. claims[b] > 0
      <4>1. g \in Giving(b)
        BY <3>0 DEF Giving
      <4>2. Cardinality(Giving(b)) # 0
        BY <4>1, GivingType, FS_EmptySet
      <4>3. claims[b] \in Nat /\ Cardinality(Giving(b)) <= claims[b]
        BY <2>1, <3>1 DEF GivesInv
      <4> QED  BY <4>2, <4>3, GivingType
    <3>4. CASE give[g].usage # usedBytes[b] \/ give[g].found # (b \in active)
      <4>1. LateGiver(b)
        BY <3>0, <3>1, <3>4 DEF LateGiver
      <4>2. \A a \in Ids \ {b} : Balanced(a)' = Balanced(a) /\ usedBytes'[a] = usedBytes[a]
                                /\ (a \in active' <=> a \in active)
        BY <2>1, <3>1, <3>2 DEF Balanced
      <4> QED  BY <2>1, <4>1, <4>2
    <3>5. CASE give[g].usage = usedBytes[b] /\ give[g].found = (b \in active)
      <4>1. active' = active
        BY <3>2, <3>5
      <4>2. ASSUME Balanced(b)  PROVE Balanced(b)'
        <5>1. usedBytes[b] = remote[b] + claims[b] /\ usedBytes[b] > 0
          BY <2>1, <3>1, <3>3, <4>2 DEF Balanced
        <5>2. usedBytes'[b] = usedBytes[b] - 1 /\ claims'[b] = claims[b] - 1 /\ remote'[b] = remote[b]
          BY <2>1, <3>1, <3>2, <3>5, <5>1
        <5> QED  BY <2>1, <3>1, <5>1, <5>2 DEF Balanced
      <4>3. \A a \in Ids : usedBytes'[a] <= usedBytes[a]
        BY <2>1, <3>1, <3>2, <3>5
      <4>4. \A a \in Ids \ {b} : Balanced(a)' = Balanced(a)
        BY <2>1, <3>1, <3>2 DEF Balanced
      <4>5. \A a \in Ids : usedBytes'[a] \in Nat /\ usedBytes[a] \in Nat
        BY <2>1, <3>1, <3>2, <3>5
      <4> QED  BY <2>1, <4>1, <4>2, <4>3, <4>4, <4>5
    <3> QED  BY <3>1, <3>4, <3>5
  <2>7. ASSUME NEW b \in Ids, AddAccount(b)  PROVE Harmless
    <3>1. UNCHANGED <<usedBytes, remote, claims>> /\ active' = active \cup {b} /\ b \notin created
      BY <2>7 DEF AddAccount, byteVars
    <3> QED  BY <2>1, <3>1 DEF Balanced
  <2>8. CASE SaveAccount
    <3>1. run.pc = "save" /\ run.found /\ Current \in Ids
      BY <2>8, CurrentIs DEF SaveAccount, RecalcInv, RunOfJob
    <3>2. /\ usedBytes' = [usedBytes EXCEPT ![Current] = run.usage] /\ UNCHANGED <<remote, claims>>
          /\ active' = active \cup {Current}
      BY <2>8, <3>1 DEF SaveAccount, Saved, byteVars
    <3>3. run.usage \in Nat
      BY RunType DEF RecalcInv
    <3> QED  BY <2>1, <3>1, <3>2, <3>3 DEF Balanced, Recalculates
  <2>9. ASSUME NEW b \in Ids, Deactivate(b)  PROVE Harmless
    BY <2>2, <2>9 DEF Deactivate, byteVars
  <2>11. ASSUME NEW g \in Givers, GiveBackFails(g) \/ \E b \in Ids : GiveBackRead(g, b)
         PROVE  Harmless
    BY <2>2, <2>11 DEF GiveBackFails, GiveBackRead, rowVars
  <2>10. CASE TickGetJob \/ TickAdd \/ Process \/ List \/ FetchUsage \/ FindAccount
              \/ Throw \/ Restart \/ UNCHANGED recalcVars
    BY <2>2, <2>10 DEF TickGetJob, TickAdd, Process, List, FetchUsage, FindAccount, Throw,
                       Restart, recalcVars, rowVars, byteVars
  <2> QED  BY <2>3, <2>4, <2>5, <2>6, <2>7, <2>8, <2>9, <2>10, <2>11 DEF RecalcNext, Api, Worker
<1>2. RecalcSpec => [][Harmless]_recalcVars
  BY <1>1, RecalcInvariant, PTL DEF RecalcSpec
<1> QED  BY <1>2 DEF OnlyLateSavesDoHarm

\* A run that completes has visited every account active from its start to
\* its end, unless a deactivation has shifted the pages, for any page size and
\* however many accounts are added meanwhile.
THEOREM RunsVisitAll == RecalcSpec => CompletedRunVisitsAll
<1> DEFINE Complete ==
      run.pc = "list" /\ job' = NoJob =>
        history.shifted \/ history.throughout \subseteq history.visited
<1>1. RecalcInv /\ [RecalcNext]_recalcVars => Complete
  <2> SUFFICES ASSUME RecalcInv, [RecalcNext]_recalcVars, run.pc = "list", job' = NoJob,
                      ~history.shifted, NEW a \in history.throughout
               PROVE  a \in history.visited
    OBVIOUS
  <2>1. job.state = "active" /\ run.page = {}
    BY DEF RecalcInv, RunOfJob
  <2>2. job' # job /\ job' # [job EXCEPT !.state = "failed"]
    BY <2>1 DEF NoJob, RecalcInv, RecalcTypeOK
  <2>3. List
    <3>1. ~Api /\ ~TickGetJob /\ ~UNCHANGED recalcVars
      BY <2>2 DEF Api, Reserve, Arrive, Destroy, GiveBackRead, GiveBackSave, GiveBackFails,
                  AddAccount, Deactivate, TickGetJob, recalcVars, jobVars
    <3>2. ~TickAdd /\ ~Process /\ ~FetchUsage /\ ~FindAccount /\ ~SaveAccount
      BY <2>1, <2>2 DEF TickAdd, Process, FetchUsage, FindAccount, SaveAccount, NoJob
    <3>3. ~Throw /\ ~Restart
      BY <2>2 DEF Throw, Restart, NoJob
    <3> QED  BY <3>1, <3>2, <3>3 DEF RecalcNext, Worker
  <2>4. Page(run.offset) = {}
    BY <2>2, <2>3 DEF List
  <2>5. run.offset \in Nat /\ BatchSize \in Nat \ {0}
    BY RunType, RecalcConstants DEF RecalcInv
  <2>6. a \in active /\ (Before(a) < run.offset => a \in history.visited)
    BY <2>1 DEF RecalcInv, PagesInPlace
  <2>7. ASSUME Before(a) >= run.offset  PROVE FALSE
    <3>1. PICK b \in active : Before(b) = run.offset
      BY <2>5, <2>6, <2>7, NoGaps DEF RecalcInv
    <3>2. b \in Page(run.offset)
      BY <2>5, <3>1 DEF Page
    <3> QED  BY <2>4, <3>2
  <2>8. Before(a) \in Nat
    BY BeforeType DEF RecalcInv
  <2> QED  BY <2>5, <2>6, <2>7, <2>8
<1>2. RecalcSpec => [][Complete]_recalcVars
  BY <1>1, RecalcInvariant, PTL DEF RecalcSpec
<1> QED  BY <1>2 DEF CompletedRunVisitsAll
==============================================================================
