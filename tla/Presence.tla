------------------------------ MODULE Presence ------------------------------
(***************************************************************************)
(* Who is online: ChatGateway's connect and disconnect handlers for the    *)
(* sockets of one user, the keys ChatPresenceService keeps in Redis, and   *)
(* what the other clients have been told.                                  *)
(*                                                                         *)
(* A Redis command (or pipeline) is a step: the process has one connection *)
(* and Redis runs its commands in the order they were sent.  Keys expire   *)
(* by themselves.  A command may fail; the service logs that and goes on.  *)
(***************************************************************************)
EXTENDS Integers, FiniteSets

CONSTANTS
  Sockets,      \* the sockets of the user; a reconnect is a new one
  MaxFailures   \* bound: Redis commands that fail

VARIABLES
  up,         \* the sockets whose connection is open
  authed,     \* the sockets with data.user
  conn,       \* handleConnection of each socket
  disc,       \* handleDisconnect of each socket
  members,    \* presence:sockets:{user}
  key,        \* presence:user:{user} exists
  refreshed,  \* the key has had its 60 s renewed since a connect set it
  shown,      \* what the clients show: none, online or offline
  failures,
  uncounted,  \* history: open sockets the set has lost, or never got
  late,       \* history: sockets added after a count that found none
  silent      \* history: the key has expired since the clients were told

redisVars  == <<members, key, refreshed>>
histVars   == <<uncounted, late, silent>>
presenceVars == <<up, authed, conn, disc, redisVars, shown, failures, histVars>>

ASSUME PresenceConstants == MaxFailures \in Nat

PresenceTypeOK ==
  /\ up \subseteq Sockets /\ authed \subseteq Sockets
  /\ conn \in [Sockets -> {"none", "token", "read", "done"}]
  /\ disc \in [Sockets -> {"none", "skipped", "count", "delete", "read", "done"}]
  /\ members \subseteq Sockets /\ key \in BOOLEAN /\ refreshed \in BOOLEAN
  /\ shown \in {"none", "online", "offline"}
  /\ failures \in 0 .. MaxFailures
  /\ uncounted \subseteq Sockets /\ late \subseteq Sockets /\ silent \in BOOLEAN

PresenceInit ==
  /\ up = {} /\ authed = {}
  /\ conn = [s \in Sockets |-> "none"] /\ disc = [s \in Sockets |-> "none"]
  /\ members = {} /\ key = FALSE /\ refreshed = FALSE
  /\ shown = "none" /\ failures = 0
  /\ uncounted = {} /\ late = {} /\ silent = FALSE

Online(s) == s \in up \cap authed /\ conn[s] \in {"read", "done"}

-----------------------------------------------------------------------------
\* handleConnection with a token that verifies: it asks for the blacklist.
Connect(s) ==
  /\ conn[s] = "none"
  /\ up' = up \cup {s} /\ conn' = [conn EXCEPT ![s] = "token"]
  /\ UNCHANGED <<authed, disc, redisVars, shown, failures, histVars>>

\* The token is on the blacklist: the socket is closed.
RejectSocket(s) ==
  /\ conn[s] = "token"
  /\ up' = up \ {s} /\ conn' = [conn EXCEPT ![s] = "done"]
  /\ disc' = [disc EXCEPT ![s] = "skipped"]
  /\ UNCHANGED <<authed, redisVars, shown, failures, histVars>>

\* The token stands: the user is attached, and markSocketConnected sends SADD,
\* EXPIRE and SET ... EX in one pipeline before anything else can run.  If the
\* connection has ended meanwhile, the handler goes on all the same.
MarkConnected(s) ==
  /\ conn[s] = "token"
  /\ authed' = authed \cup {s}
  /\ members' = members \cup {s} /\ key' = TRUE /\ refreshed' = FALSE
  /\ conn' = [conn EXCEPT ![s] = "read"]
  /\ late' = IF \E u \in Sockets : disc[u] = "delete" THEN late \cup {s} ELSE late
  /\ silent' = FALSE
  /\ UNCHANGED <<up, disc, shown, failures, uncounted>>

\* getUsersPresence and the broadcast; offline when Redis cannot say.
Told == shown' = IF key THEN "online" ELSE "offline"

ConnectTold(s) ==
  /\ conn[s] = "read"
  /\ Told /\ silent' = FALSE
  /\ conn' = [conn EXCEPT ![s] = "done"]
  /\ UNCHANGED <<up, authed, disc, redisVars, failures, uncounted, late>>

-----------------------------------------------------------------------------
\* Mutant of RemoveSocket: the socket stays a member.
KeepSocket(s) == UNCHANGED members

\* SREM of markSocketDisconnected.
RemoveSocket(s) == members' = members \ {s}

\* The connection ends: handleDisconnect returns at once when the connect
\* handler has not got as far as data.user.
Disconnect(s) ==
  /\ s \in up /\ up' = up \ {s}
  /\ IF s \in authed
       THEN RemoveSocket(s) /\ disc' = [disc EXCEPT ![s] = "count"]
       ELSE UNCHANGED members /\ disc' = [disc EXCEPT ![s] = "skipped"]
  /\ uncounted' = uncounted \ {s} /\ late' = late \ {s}
  /\ UNCHANGED <<authed, conn, key, refreshed, shown, failures, silent>>

\* Mutant of NoneRemain: takes one socket for none.
OneRemains == Cardinality(members) <= 1

NoneRemain == members = {}

\* SCARD.
CountRemaining(s) ==
  /\ disc[s] = "count"
  /\ disc' = [disc EXCEPT ![s] = IF NoneRemain THEN "delete" ELSE "read"]
  /\ UNCHANGED <<up, authed, conn, redisVars, shown, failures, histVars>>

\* The last-seen time is written and the key deleted, in one pipeline.
DeletePresence(s) ==
  /\ disc[s] = "delete"
  /\ key' = FALSE
  /\ disc' = [disc EXCEPT ![s] = "read"]
  /\ late' = IF \E u \in Sockets \ {s} : disc[u] = "delete" THEN late ELSE {}
  /\ UNCHANGED <<up, authed, conn, members, refreshed, shown, failures, uncounted, silent>>

DisconnectTold(s) ==
  /\ disc[s] = "read"
  /\ Told /\ silent' = FALSE
  /\ disc' = [disc EXCEPT ![s] = "done"]
  /\ UNCHANGED <<up, authed, conn, redisVars, failures, uncounted, late>>

-----------------------------------------------------------------------------
\* WsJwtGuard on an event: a socket whose connect handler failed is given its
\* user after all, and no presence.
GuardAttaches(s) ==
  /\ s \in up \ authed /\ conn[s] = "done"
  /\ authed' = authed \cup {s} /\ uncounted' = uncounted \cup {s}
  /\ UNCHANGED <<up, conn, disc, redisVars, shown, failures, late, silent>>

\* handleSendMessage's refreshPresence: EXPIRE, which revives no key.
RefreshPresence(s) ==
  /\ s \in up \cap authed /\ key /\ ~refreshed
  /\ refreshed' = TRUE
  /\ UNCHANGED <<up, authed, conn, disc, members, key, shown, failures, histVars>>

\* handleGetPresence of a client.
GetPresence ==
  /\ shown # "none"
  /\ Told /\ silent' = FALSE
  /\ UNCHANGED <<up, authed, conn, disc, redisVars, failures, uncounted, late>>

\* Mutant of Expires: the key is set without EX.
NeverExpires == FALSE

Expires == key

\* Nobody is told when the key expires.
ExpirePresence ==
  /\ Expires
  /\ key' = FALSE /\ silent' = TRUE
  /\ UNCHANGED <<up, authed, conn, disc, members, refreshed, shown, failures,
                 uncounted, late>>

\* The set's 120 s run from the last connect, the key's 60 s from the last
\* message: the set goes first only when a message has renewed the key.
ExpireSocketSet ==
  /\ members # {} /\ (~key \/ refreshed)
  /\ members' = {} /\ uncounted' = uncounted \cup {s \in Sockets : Online(s)}
  /\ UNCHANGED <<up, authed, conn, disc, key, refreshed, shown, failures, late, silent>>

\* A command fails.  The blacklist check throws out of handleConnection, the
\* pipelines and the count of ChatPresenceService are logged, and a presence
\* that cannot be read is broadcast as offline.
RedisFails(s) ==
  /\ failures < MaxFailures /\ failures' = failures + 1
  /\ \/ /\ conn[s] = "token" /\ conn' = [conn EXCEPT ![s] = "done"]
        /\ UNCHANGED <<authed, disc, shown, uncounted>>
     \/ /\ conn[s] = "token" /\ conn' = [conn EXCEPT ![s] = "read"]
        /\ authed' = authed \cup {s}
        /\ uncounted' = uncounted \cup ({s} \cap up)
        /\ UNCHANGED <<disc, shown>>
     \/ /\ conn[s] = "read" /\ conn' = [conn EXCEPT ![s] = "done"]
        /\ shown' = "offline"
        /\ UNCHANGED <<authed, disc, uncounted>>
     \/ /\ disc[s] \in {"count", "delete"} /\ disc' = [disc EXCEPT ![s] = "read"]
        /\ UNCHANGED <<authed, conn, shown, uncounted>>
     \/ /\ disc[s] = "read" /\ disc' = [disc EXCEPT ![s] = "done"]
        /\ shown' = "offline"
        /\ UNCHANGED <<authed, conn, uncounted>>
  /\ UNCHANGED <<up, redisVars, late, silent>>

Handler(s) ==
  \/ RejectSocket(s) \/ MarkConnected(s) \/ ConnectTold(s)
  \/ CountRemaining(s) \/ DeletePresence(s) \/ DisconnectTold(s)

PresenceNext ==
  \/ \E s \in Sockets : \/ Connect(s) \/ Disconnect(s)
                        \/ GuardAttaches(s) \/ RefreshPresence(s)
                        \/ Handler(s) \/ RedisFails(s)
  \/ GetPresence \/ ExpirePresence \/ ExpireSocketSet

\* Handlers run to their end, and a key that no open socket can refresh
\* expires.
PresenceSpec ==
  /\ PresenceInit /\ [][PresenceNext]_presenceVars
  /\ \A s \in Sockets : WF_presenceVars(Handler(s))
  /\ WF_presenceVars(up = {} /\ ExpirePresence)

-----------------------------------------------------------------------------
AtRest == \A s \in Sockets : /\ conn[s] \in {"none", "done"}
                             /\ disc[s] \in {"none", "skipped", "done"}

\* The presence of a user with an open socket is deleted only if every such
\* socket has joined the set after it was counted, or was lost from it: its
\* pipeline failed, or the set expired.
DeletesLiveOnlyIfMiscounted ==
  [][\A s \in Sockets : disc[s] = "delete" /\ disc'[s] # "delete" /\ key /\ ~key'
       => \A u \in Sockets : Online(u) => u \in uncounted \cup late]_presenceVars

\* The clients show what Redis holds, however the handlers of the sockets
\* overlap, unless the key has expired since they were told or Redis failed.
ShownAsStored ==
  AtRest /\ shown # "none" /\ failures = 0 /\ ~silent => (shown = "online" <=> key)

\* A user whose last socket has gone stays online only by a socket that was
\* added to the set after its connection had ended.
OnlyGhostsStayOnline ==
  AtRest /\ up = {} /\ key /\ failures = 0
    => \E s \in authed : disc[s] = "skipped"

\* The types of the sockets and of Redis, what is shown and what is left.
PresenceInv == PresenceTypeOK /\ ShownAsStored /\ OnlyGhostsStayOnline

-----------------------------------------------------------------------------
(***************************************************************************)
(* What makes these inductive: how far each socket is, whom the set counts *)
(* and who is about to tell the clients.                                   *)
(***************************************************************************)
Ghosts == {s \in Sockets : disc[s] = "skipped"}

SocketsInStep ==
  /\ \A s \in Sockets : /\ conn[s] \in {"none", "token"} => s \notin authed
                        /\ conn[s] = "token" => s \in up \cup Ghosts
                        /\ s \in up => conn[s] # "none" /\ disc[s] = "none"
                        /\ conn[s] = "none" => disc[s] = "none"
                        /\ disc[s] \in {"none", "skipped"} \/ s \in authed
  /\ members \subseteq authed \cap (up \cup Ghosts)

\* Every online socket is in the set or has been lost from it, and whoever is
\* about to delete the key has missed them all.
AllCounted ==
  /\ \A s \in Sockets : Online(s) => s \in members \cup uncounted
  /\ (\E s \in Sockets : disc[s] = "delete") =>
       \A u \in Sockets : Online(u) => u \in uncounted \cup late

Telling == \E s \in Sockets : conn[s] = "read" \/ disc[s] = "read"

ShownOrTelling ==
  Telling \/ shown = "none" \/ failures # 0 \/ silent \/ (shown = "online" <=> key)

KeyIsOwned ==
  key /\ failures = 0 =>
    \E s \in authed : s \in up \cup Ghosts \/ disc[s] \in {"count", "delete"}

CountingInv == PresenceTypeOK /\ SocketsInStep /\ AllCounted /\ ShownOrTelling /\ KeyIsOwned

\* In the end Redis has the user offline whatever is left in the set.
GoneGoesOffline == <>[](up = {}) => <>[](~key)
=============================================================================
