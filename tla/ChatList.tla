------------------------------ MODULE ChatList ------------------------------
(***************************************************************************)
(* Conversations and the list of them: createConversation and              *)
(* listConversations of ChatService, and the sidebar of                    *)
(* ChatShellPageComponent, which loads the list once and then follows the  *)
(* events of the rooms its socket is in.  How a thread is loaded and       *)
(* marked as read is in ChatThread; here any message may be marked.        *)
(***************************************************************************)
EXTENDS ChatSocket, FiniteSetsExt

CONSTANTS
  Me, Peer,      \* the user of the page, and the other members
  MaxMessages    \* bound: messages ever sent

VARIABLES
  kind,          \* conversations: "absent", "pair" or "group"
  creating,      \* createConversation of each user, between lookup and insert
  msgs,          \* messages: the conversation of each, by created_at
  marker,        \* last_read_message_id of Me, 0 for NULL
  posted,        \* messages stored and not yet emitted
  page,          \* whether the page is open
  listed,        \* conversations(): ids
  badge,         \* those of them with an unread count above zero
  preview,       \* lastMessage, 0 for null
  visited,       \* history: conversations selected since the page is open
  heard          \* history: those whose preview is from an event, not the list

dbVars      == <<kind, creating, msgs, marker>>
wireVars    == <<posted, rooms, joins, events>>
sidebarVars == <<page, listed, badge, preview, active, visited, heard>>
listVars    == <<dbVars, wireVars, sidebarVars>>

Users == {Me, Peer}
Ids   == 1 .. Len(msgs)
Pairs == {c \in Convs : kind[c] = "pair"}
Known == {c \in Convs : kind[c] # "absent"}
Of(c) == {i \in Ids : msgs[i] = c}

ASSUME ListConstants ==
  /\ None \notin Convs /\ Me # Peer
  /\ MaxMessages \in Nat \ {0} /\ MaxEvents \in Nat \ {0}

NotCreating == [kind |-> "absent", missed |-> FALSE]

Creation     == [kind: {"absent", "pair", "group"}, missed: BOOLEAN]
MessageEvent == [type: {"message"}, id: Ids, late: BOOLEAN]
ReadEvent    == [type: {"read"}, conv: Convs]

ListTypeOK ==
  /\ kind \in [Convs -> {"absent", "pair", "group"}]
  /\ creating \in [Users -> Creation]
  /\ msgs \in Seq(Convs) /\ marker \in [Convs -> {0} \cup Ids]
  /\ posted \subseteq Ids /\ rooms \subseteq Known /\ joins \subseteq Known
  /\ events \in Seq(MessageEvent \cup ReadEvent)
  /\ page \in BOOLEAN /\ listed \subseteq Known /\ badge \subseteq listed
  /\ preview \in [Convs -> {0} \cup Ids]
  /\ active \in listed \cup {None} /\ visited \subseteq listed /\ heard \subseteq listed

ListInit ==
  /\ kind = [c \in Convs |-> "absent"]
  /\ creating = [u \in Users |-> NotCreating]
  /\ msgs = <<>> /\ marker = [c \in Convs |-> 0]
  /\ posted = {} /\ rooms = {} /\ joins = {} /\ events = <<>>
  /\ page = FALSE /\ listed = {} /\ badge = {} /\ preview = [c \in Convs |-> 0]
  /\ active = None /\ visited = {} /\ heard = {}

-----------------------------------------------------------------------------
\* Mutant of FindExistingOneToOne: no lookup.
FindNothing(k) == FALSE

\* findExistingOneToOne; a group is never looked up.
FindExistingOneToOne(k) == k = "pair" /\ Pairs # {}

\* createConversation up to its transaction; an existing pair is returned.
CreateLookup(u, k) ==
  /\ creating[u] = NotCreating /\ ~FindExistingOneToOne(k)
  /\ creating' = [creating EXCEPT ![u].kind = k]
  /\ UNCHANGED <<kind, msgs, marker, wireVars, sidebarVars>>

\* The conversation and its members, in one transaction; no constraint is on
\* the pair of users.  The history notes a lookup that has missed a pair.
CreateInsert(u, c) ==
  /\ creating[u].kind # "absent" /\ kind[c] = "absent"
  /\ kind' = [kind EXCEPT ![c] = creating[u].kind]
  /\ creating' = [v \in Users |->
       IF v = u THEN NotCreating
       ELSE [creating[v] EXCEPT !.missed =
               @ \/ (creating[v].kind = "pair" /\ creating[u].kind = "pair")]]
  /\ UNCHANGED <<msgs, marker, wireVars, sidebarVars>>

SendMessage(c) ==
  /\ c \in Known /\ Len(msgs) < MaxMessages
  /\ msgs' = Append(msgs, c)
  /\ posted' = posted \cup {Len(msgs) + 1}
  /\ UNCHANGED <<kind, creating, marker, rooms, joins, events, sidebarVars>>

\* Mutant of EmitMessage: a message may be emitted again.
EmitMessageAgain(id) ==
  /\ id \in posted /\ Len(events) < MaxEvents
  /\ EmitTo(msgs[id], [type |-> "message", id |-> id, late |-> FALSE])
  /\ UNCHANGED <<dbVars, posted, rooms, joins, sidebarVars>>

EmitMessage(id) ==
  /\ id \in posted /\ Len(events) < MaxEvents
  /\ EmitTo(msgs[id], [type |-> "message", id |-> id,
                       late |-> \E j \in Of(msgs[id]) \ posted : j > id])
  /\ posted' = posted \ {id}
  /\ UNCHANGED <<dbVars, rooms, joins, sidebarVars>>

\* handleMarkRead of any member; the room is told who has read.
MarkRead(u, id) ==
  /\ Len(events) < MaxEvents
  /\ marker' = IF u = Me THEN [marker EXCEPT ![msgs[id]] = id] ELSE marker
  /\ EmitTo(msgs[id], [type |-> "read", conv |-> msgs[id]])
  /\ UNCHANGED <<kind, creating, msgs, posted, rooms, joins, sidebarVars>>

\* Mutant of Joined: every room of the user.
JoinedAll(c) == Known

Joined(c) == {c}

\* handleJoinConversation after assertMember.
JoinRoom(c) ==
  /\ c \in joins
  /\ joins' = joins \ {c} /\ rooms' = rooms \cup Joined(c)
  /\ UNCHANGED <<dbVars, posted, events, sidebarVars>>

-----------------------------------------------------------------------------
\* computeUnreadCounts: the messages after the marker, or all of them when
\* it is NULL; the user's own count as well.
Unread(c) == {i \in Of(c) : i > marker[c]}

\* ngOnInit: the first page of listConversations.
OpenPage ==
  /\ ~page /\ page' = TRUE
  /\ listed' = Known
  /\ badge' = {c \in Known : Unread(c) # {}}
  /\ preview' = [c \in Convs |-> IF Of(c) = {} THEN 0 ELSE Max(Of(c))]
  /\ UNCHANGED <<dbVars, wireVars, active, visited, heard>>

\* ngOnDestroy, a reload or logout.
ClosePage ==
  /\ page /\ page' = FALSE
  /\ rooms' = {} /\ joins' = {} /\ events' = <<>>
  /\ listed' = {} /\ badge' = {} /\ preview' = [c \in Convs |-> 0]
  /\ active' = None /\ visited' = {} /\ heard' = {}
  /\ UNCHANGED <<dbVars, posted>>

OpenConversation(c) ==
  /\ c \in listed \ joins
  /\ rooms' = rooms \ {active} /\ joins' = joins \cup {c}
  /\ active' = c /\ visited' = visited \cup {c}
  /\ badge' = badge \ {c}
  /\ UNCHANGED <<dbVars, posted, events, page, listed, preview, heard>>

\* message$, as far as the list goes: the preview becomes the message of the
\* event, whatever it was.
ReceiveMessage ==
  /\ events # <<>> /\ Head(events).type = "message"
  /\ LET id == Head(events).id
         c  == msgs[id]
     IN  IF c \in listed
           THEN /\ badge' = IF c = active THEN badge \ {c} ELSE badge \cup {c}
                /\ preview' = [preview EXCEPT ![c] = id]
                /\ heard' = heard \cup {c}
           ELSE UNCHANGED <<badge, preview, heard>>
  /\ events' = Tail(events)
  /\ UNCHANGED <<dbVars, posted, rooms, joins, page, listed, active, visited>>

\* readUpdated$: whoever has read, the count of the page goes to zero.
ReceiveRead ==
  /\ events # <<>> /\ Head(events).type = "read"
  /\ badge' = IF Head(events).conv = active THEN badge ELSE badge \ {Head(events).conv}
  /\ events' = Tail(events)
  /\ UNCHANGED <<dbVars, posted, rooms, joins, page, listed, preview, active, visited, heard>>

ListNext ==
  \/ \E u \in Users, k \in {"pair", "group"} : CreateLookup(u, k)
  \/ \E u \in Users, c \in Convs : CreateInsert(u, c)
  \/ \E c \in Convs : SendMessage(c) \/ JoinRoom(c) \/ OpenConversation(c)
  \/ \E id \in Ids : EmitMessage(id)
  \/ \E u \in Users, id \in Ids : MarkRead(u, id)
  \/ OpenPage \/ ClosePage \/ ReceiveMessage \/ ReceiveRead

ListSpec == ListInit /\ [][ListNext]_listVars

-----------------------------------------------------------------------------
\* Two pair conversations of the same two users come only of two creations
\* that overlap: the later insert is of a request whose lookup came before
\* the other insert (createConversation).
SecondPairOnlyByOverlap ==
  [][Pairs # {} /\ ~(Pairs' \subseteq Pairs) =>
       \E u \in Users : creating[u].missed /\ creating'[u] = NotCreating]_listVars

\* The badge of a conversation that was not selected since the page is open
\* never comes up, however many messages arrive: the page hears only the
\* rooms it has joined.
BadgeRisesOnlyIfVisited ==
  [][page => badge' \ badge \subseteq visited]_listVars

\* A preview that shows a message of the socket goes back to an older one
\* only when the gateway has emitted the two out of order.
PreviewGoesBackOnlyIfLate ==
  [][\A c \in heard \cap heard' : preview'[c] < preview[c] =>
       events # <<>> /\ Head(events).type = "message" /\ Head(events).late]_listVars

-----------------------------------------------------------------------------
(***************************************************************************)
(* What makes these inductive.  The page hears of what it has visited, and *)
(* a message that was not emitted late comes after all that the page shows *)
(* or is about to be shown of its conversation.                            *)
(***************************************************************************)
CreationsKnow ==
  Pairs # {} => \A u \in Users : creating[u].kind = "pair" => creating[u].missed

IsMessage(p) == p \in DOMAIN events /\ events[p].type = "message"
ConvAt(p)    == msgs[events[p].id]

HearsVisited ==
  /\ rooms \cup joins \subseteq visited
  /\ \A p \in DOMAIN events : IsMessage(p) => ConvAt(p) \in visited
  /\ ~page => listed = {}

EmittedInOrder ==
  /\ \A c \in heard : preview[c] \in Of(c) \ posted
  /\ \A p \in DOMAIN events : IsMessage(p) => events[p].id \notin posted
  /\ \A q \in DOMAIN events : IsMessage(q) /\ ~events[q].late =>
       /\ ConvAt(q) \in heard => preview[ConvAt(q)] <= events[q].id
       /\ \A p \in 1 .. q - 1 :
            IsMessage(p) /\ ConvAt(p) = ConvAt(q) => events[p].id <= events[q].id

ListInv == ListTypeOK /\ CreationsKnow /\ HearsVisited /\ EmittedInOrder
=============================================================================
