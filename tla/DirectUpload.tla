---------------------------- MODULE DirectUpload ----------------------------
(***************************************************************************)
(* DirectUploadService: the upload flow whose state is a session in Redis  *)
(* with a time to live.  Postgres and Redis are written one after the      *)
(* other, and Redis is read and written with plain GET, SET and DEL.       *)
(*                                                                         *)
(* The account rows change only in `used` here; the requests that change   *)
(* their other columns are in Vault.                                       *)
(***************************************************************************)
EXTENDS VaultSelector

CONSTANTS
  Accounts,
  Uploads,        \* upload ids, one for each session ever started
  Requests,       \* slots for requests in flight
  Sizes,          \* sizes announced by inits
  FinalSizes,     \* sizes reported by completes
  MaxParts,       \* bound on the parts signed for an upload
  MaxRows,        \* bound on the media rows written for an upload
  InitialRows     \* the active accounts at the start

VARIABLES
  acct,           \* cloudinary_accounts
  stored,         \* the media rows written for an upload: how many, how large
  session,        \* the sessions in Redis
  req,            \* the local variables of the requests in flight
  signed,         \* the part indices signed for an upload
  held            \* history: the account of an upload, and the bytes reserved on
                  \* it that no completion or abort has settled

directVars == <<acct, stored, session, req, signed, held>>

Session == [account: Accounts, size: Sizes, next: Nat]

NoSession == [account |-> None, size |-> 0, next |-> 0]

Row == [active: BOOLEAN, role: {Primary, Secondary}, slot: 0..2, used: Nat, limit: Nat]

DirectPcs ==
  {"init_store", "sign_store", "complete_load", "complete_commit", "complete_del",
   "abort_load", "abort_commit", "abort_del"}

Request ==
  [pc: DirectPcs \cup {"idle"}, u: Uploads \cup {None},
   session: Session \cup {NoSession}, final: Nat, used: Nat]

Idle == [pc |-> "idle", u |-> None, session |-> NoSession, final |-> 0, used |-> 0]

ASSUME DirectConstants ==
  /\ None \notin Accounts /\ None \notin Uploads
  /\ Sizes \subseteq Nat \ {0} /\ FinalSizes \subseteq Nat \ {0}
  /\ MaxParts \in Nat /\ MaxRows \in Nat
  /\ InitialRows \in [Accounts -> Row]
  /\ \A a \in Accounts : InitialRows[a].active

\* An upload id is a UUID.
ASSUME FiniteUploads == IsFiniteSet(Uploads)

Start(r, local) == req[r] = Idle /\ req' = [req EXCEPT ![r] = local]
Goto(r, pc)     == req' = [req EXCEPT ![r].pc = pc]
Finish(r)       == req' = [req EXCEPT ![r] = Idle]

AdjustedUsage(used, delta) == IF used + delta > 0 THEN used + delta ELSE 0

DirectInit ==
  /\ acct = InitialRows
  /\ stored = [u \in Uploads |-> [rows |-> 0, bytes |-> 0]]
  /\ session = [u \in Uploads |-> NoSession]
  /\ req = [r \in Requests |-> Idle]
  /\ signed = [u \in Uploads |-> {}]
  /\ held = [u \in Uploads |-> [account |-> None, bytes |-> 0]]

(***************************************************************************)
(* initUpload: select and reserve in one transaction under the row locks,  *)
(* then store the session.  The upload id is new.                          *)
(***************************************************************************)
Unused(u) == held[u].account = None

InitReserve(r, u, size) ==
  /\ Unused(u)
  /\ LET a == SelectAccount(acct, size)
     IN  /\ a # None
         /\ Start(r, [Idle EXCEPT !.pc = "init_store", !.u = u,
                        !.session = [account |-> a, size |-> size, next |-> 1]])
         /\ acct' = [acct EXCEPT ![a].used = AdjustedUsage(@, size)]
         /\ held' = [held EXCEPT ![u] = [account |-> a, bytes |-> size]]
  /\ UNCHANGED <<stored, session, signed>>

\* Mutant of InitStore: answers without storing the session.
InitStoreNothing(r) ==
  /\ req[r].pc = "init_store"
  /\ signed' = [signed EXCEPT ![req[r].u] = @ \cup {0}]
  /\ Finish(r)
  /\ UNCHANGED <<acct, stored, session, held>>

InitStore(r) ==
  /\ req[r].pc = "init_store"
  /\ session' = [session EXCEPT ![req[r].u] = req[r].session]
  /\ signed' = [signed EXCEPT ![req[r].u] = @ \cup {0}]
  /\ Finish(r)
  /\ UNCHANGED <<acct, stored, held>>

(***************************************************************************)
(* signNextPart: GET, compare the index, sign, SET the session it read     *)
(* with the counter advanced.  A session deleted in between comes back.    *)
(***************************************************************************)
\* Mutant of SignRead: signs the part the client names.
SignReadAnyPart(r, u, part) ==
  /\ session[u] # NoSession
  /\ Start(r, [Idle EXCEPT !.pc = "sign_store", !.u = u,
                 !.session = [session[u] EXCEPT !.next = part]])
  /\ UNCHANGED <<acct, stored, session, signed, held>>

SignRead(r, u, part) ==
  /\ session[u] # NoSession
  /\ part = session[u].next
  /\ Start(r, [Idle EXCEPT !.pc = "sign_store", !.u = u, !.session = session[u]])
  /\ UNCHANGED <<acct, stored, session, signed, held>>

SignStore(r) ==
  /\ req[r].pc = "sign_store"
  /\ session' = [session EXCEPT ![req[r].u] = [req[r].session EXCEPT !.next = @ + 1]]
  /\ signed' = [signed EXCEPT ![req[r].u] = @ \cup {req[r].session.next}]
  /\ Finish(r)
  /\ UNCHANGED <<acct, stored, held>>

\* The account read of adjustAccountUsage, without a lock.
LoadUsage(r, from, to) ==
  /\ req[r].pc = from
  /\ req' = [req EXCEPT ![r].pc = to, ![r].used = acct[req[r].session.account].used]
  /\ UNCHANGED <<acct, stored, session, signed, held>>

\* The save of adjustAccountUsage.
SaveUsage(r, delta) ==
  acct' = [acct EXCEPT ![req[r].session.account].used = AdjustedUsage(req[r].used, delta)]

ClearSession(r, from) ==
  /\ req[r].pc = from
  /\ session' = [session EXCEPT ![req[r].u] = NoSession]
  /\ Finish(r)
  /\ UNCHANGED <<acct, stored, signed, held>>

(***************************************************************************)
(* completeUpload: the media row and the usage in one transaction, then    *)
(* DEL.  The final size is the client's and may exceed what was reserved.  *)
(***************************************************************************)
CompleteRead(r, u, final) ==
  /\ session[u] # NoSession
  /\ stored[u].rows < MaxRows
  /\ Start(r, [Idle EXCEPT !.pc = "complete_load", !.u = u, !.session = session[u],
                 !.final = final])
  /\ UNCHANGED <<acct, stored, session, signed, held>>

CompleteLoad(r) == LoadUsage(r, "complete_load", "complete_commit")

\* Mutant of CompleteCommit: charges the final size on top of the reservation.
CompleteCommitChargingTwice(r) ==
  /\ req[r].pc = "complete_commit"
  /\ SaveUsage(r, req[r].final)
  /\ stored' = [stored EXCEPT ![req[r].u].rows = @ + 1, ![req[r].u].bytes = @ + req[r].final]
  /\ held' = [held EXCEPT ![req[r].u].bytes = 0]
  /\ Goto(r, "complete_del")
  /\ UNCHANGED <<session, signed>>

CompleteCommit(r) ==
  /\ req[r].pc = "complete_commit"
  /\ SaveUsage(r, req[r].final - req[r].session.size)
  /\ stored' = [stored EXCEPT ![req[r].u].rows = @ + 1, ![req[r].u].bytes = @ + req[r].final]
  /\ held' = [held EXCEPT ![req[r].u].bytes = 0]
  /\ Goto(r, "complete_del")
  /\ UNCHANGED <<session, signed>>

CompleteDel(r) == ClearSession(r, "complete_del")

(***************************************************************************)
(* abortUpload: release in a transaction, then DEL.  The clean-up of       *)
(* Cloudinary in between cannot fail the request.                          *)
(***************************************************************************)
AbortRead(r, u) ==
  /\ session[u] # NoSession
  /\ Start(r, [Idle EXCEPT !.pc = "abort_load", !.u = u, !.session = session[u]])
  /\ UNCHANGED <<acct, stored, session, signed, held>>

AbortLoad(r) == LoadUsage(r, "abort_load", "abort_commit")

AbortCommit(r) ==
  /\ req[r].pc = "abort_commit"
  /\ SaveUsage(r, -req[r].session.size)
  /\ held' = [held EXCEPT ![req[r].u].bytes = 0]
  /\ Goto(r, "abort_del")
  /\ UNCHANGED <<stored, session, signed>>

AbortDel(r) == ClearSession(r, "abort_del")

\* A request may end with an error at any await: Postgres or Redis does not
\* answer, or the process stops.
Fail(r) ==
  /\ req[r] # Idle
  /\ Finish(r)
  /\ UNCHANGED <<acct, stored, session, signed, held>>

\* SESSION_TTL_SECONDS after the last SET, Redis drops the key.
Expire(u) ==
  /\ session[u] # NoSession
  /\ session' = [session EXCEPT ![u] = NoSession]
  /\ UNCHANGED <<acct, stored, req, signed, held>>

DirectNext ==
  \/ \E r \in Requests :
       \/ \E u \in Uploads, size \in Sizes : InitReserve(r, u, size)
       \/ InitStore(r)
       \/ \E u \in Uploads, part \in 0..(MaxParts - 1) : SignRead(r, u, part)
       \/ SignStore(r)
       \/ \E u \in Uploads, final \in FinalSizes : CompleteRead(r, u, final)
       \/ CompleteLoad(r)
       \/ CompleteCommit(r)
       \/ CompleteDel(r)
       \/ \E u \in Uploads : AbortRead(r, u)
       \/ AbortLoad(r)
       \/ AbortCommit(r)
       \/ AbortDel(r)
       \/ Fail(r)
  \/ \E u \in Uploads : Expire(u)

DirectSpec == DirectInit /\ [][DirectNext]_directVars

-----------------------------------------------------------------------------
\* The rows, the sessions and the locals of the requests keep the shape of
\* CloudinaryAccount, DirectUploadSession and the handlers' variables.
TypeOK ==
  /\ acct \in [Accounts -> Row]
  /\ stored \in [Uploads -> [rows: Nat, bytes: Nat]]
  /\ session \in [Uploads -> Session \cup {NoSession}]
  /\ req \in [Requests -> Request]
  /\ signed \in [Uploads -> SUBSET Nat]
  /\ held \in [Uploads -> [account: Accounts \cup {None}, bytes: Nat]]

\* "Enforces strict part ordering": a part is signed only after every part
\* before it, although the session is rewritten from stale copies, expires,
\* and comes back after a completion.
SequentialSigning ==
  \A u \in Uploads : \A i \in signed[u] : 0..i \subseteq signed[u]

(***************************************************************************)
(* The inductive invariant.  A session, in Redis or in the hands of a      *)
(* request that will write it back, never counts further than the parts    *)
(* that are signed, and names the account its bytes were reserved on; a    *)
(* request about to delete a session has settled its reservation; nothing  *)
(* is stored for an upload that was never started.                         *)
(***************************************************************************)
SignedBelow(u, n) == 0..(n - 1) \subseteq signed[u]

Settled(u) == held[u].bytes = 0 /\ ~Unused(u)

LocalsOK(q) ==
  /\ q.pc # "idle" => q.u \in Uploads /\ q.session \in Session /\ ~Unused(q.u)
  /\ q.pc = "init_store" => q.session.next = 1
  /\ q.pc = "sign_store" => SignedBelow(q.u, q.session.next)
  /\ q.pc \in {"complete_del", "abort_del"} => Settled(q.u)

SigningInv ==
  /\ TypeOK
  /\ SequentialSigning
  /\ \A u \in Uploads : SignedBelow(u, session[u].next)
  /\ \A u \in Uploads : session[u] # NoSession => ~Unused(u)
  /\ \A r \in Requests : LocalsOK(req[r])

ReservationsKnown ==
  /\ \A u \in Uploads : Unused(u) => stored[u].bytes = 0
  /\ \A u \in Uploads : session[u] # NoSession => session[u].account = held[u].account
  /\ \A r \in Requests : req[r].pc # "idle" => req[r].session.account = held[req[r].u].account

DirectInv == SigningInv /\ ReservationsKnown

-----------------------------------------------------------------------------
\* What is reserved or stored on account a.
Charges(a) ==
  MapThenSumSet(LAMBDA u : held[u].bytes + stored[u].bytes,
                {u \in Uploads : held[u].account = a})

DirectBooksBalance == \A a \in Accounts : acct[a].used = Charges(a)

\* Request r settles a reservation nobody has settled, on the usage it loaded.
SettlesAsRead(r) ==
  req[r].pc \in {"complete_commit", "abort_commit"} =>
    /\ held[req[r].u].bytes = req[r].session.size
    /\ acct[req[r].session.account].used = req[r].used

\* The books of the flow go wrong only when a reservation is settled a second
\* time or the usage changed after it was loaded: neither expiry nor failures
\* nor requests on other uploads unbalance used = reserved + stored.
FreshSettlementsKeepBooks ==
  [][DirectBooksBalance /\ (\A r \in Requests : SettlesAsRead(r) \/ req'[r] = req[r])
       => DirectBooksBalance']_directVars

-----------------------------------------------------------------------------
\* Something can still settle the reservation of u.
CanSettle(u) ==
  \/ held[u].bytes = 0
  \/ session[u] # NoSession
  \/ \E r \in Requests : req[r].u = u /\ req[r] # Idle

\* A reservation becomes unreachable, its bytes charged for good, only because
\* the session expired or a request failed: no order of init, sign, complete
\* and abort loses one.
StrandedOnlyByExpiryOrFailure ==
  [][\A u \in Uploads : CanSettle(u) /\ ~CanSettle(u)' =>
        Expire(u) \/ \E r \in Requests : Fail(r)]_directVars

=============================================================================
