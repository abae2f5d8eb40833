----------------------------- MODULE ChatThread -----------------------------
(***************************************************************************)
(* The messages of a conversation on their way to one user: ChatService    *)
(* and the handlers of ChatGateway, cut at their awaits, ChatSocketService *)
(* and the thread of ChatShellPageComponent.                               *)
(*                                                                         *)
(* A message is its position in msgs, the order of created_at.  What the   *)
(* page emits starts its handler in the same step: the socket keeps the    *)
(* order, and until its first await a handler sees nothing else change.    *)
(***************************************************************************)
EXTENDS ChatSocket, FiniteSets, SequencesExt

CONSTANTS
  MaxMessages,   \* bound: messages ever sent
  PageSize       \* messages of a page, 50

VARIABLES
  msgs,          \* messages: the conversation of each
  marker,        \* last_read_message_id of the user, 0 for NULL
  posted,        \* messages stored and not yet emitted
  marks,         \* mark-read handlers awaiting the database
  connected,     \* the socket
  thread,        \* messages()
  gets,          \* listMessages requests, and of how many messages
  whole,         \* history: nothing has cost the thread a message yet
  behind         \* history: messages that a later one has overtaken on the way

serverVars == <<msgs, marker, rooms, joins, posted, marks>>
wireVars   == <<connected, events>>
pageVars   == <<active, thread, gets, whole>>
vars       == <<serverVars, wireVars, pageVars, behind>>

Ids == 1 .. Len(msgs)

ASSUME ChatConstants ==
  /\ None \notin Convs
  /\ {MaxMessages, MaxEvents, PageSize} \subseteq Nat \ {0}

\* Why a mark-read handler was started, or that another one of the same
\* conversation has overtaken it.
Mark == [id: Ids, why: {"event", "late", "page", "overtaken"}]

TypeOK ==
  /\ msgs \in Seq(Convs)
  /\ marker \in [Convs -> 0 .. Len(msgs)]
  /\ rooms \subseteq Convs /\ joins \subseteq Convs
  /\ posted \subseteq Ids /\ marks \subseteq Mark
  /\ connected \in BOOLEAN /\ events \in Seq(Ids)
  /\ active \in Convs \cup {None} /\ thread \in Seq(Ids)
  /\ gets \subseteq [conv: Convs, upto: {None} \cup 0 .. Len(msgs)]
  /\ whole \in BOOLEAN /\ behind \subseteq Ids

Init ==
  /\ msgs = <<>> /\ marker = [c \in Convs |-> 0]
  /\ rooms = {} /\ joins = {}
  /\ posted = {} /\ marks = {} /\ connected = TRUE /\ events = <<>>
  /\ active = None /\ thread = <<>> /\ gets = {} /\ whole = TRUE
  /\ behind = {}

Get(c) == [conv |-> c, upto |-> None]

\* Messages of a conversation among the first n, oldest first.
MessagesOf(c, n) ==
  LET Upto[i \in 0 .. n] ==
        IF i = 0 THEN <<>>
        ELSE IF msgs[i] = c THEN Append(Upto[i - 1], i)
        ELSE Upto[i - 1]
  IN  Upto[n]

\* The oldest of them, as many as a page takes.
PageOf(all) == SubSeq(all, 1, IF Len(all) < PageSize THEN Len(all) ELSE PageSize)

\* The messages stored that the page has not received yet.
UnderWay == posted \cup ToSet(events)

-----------------------------------------------------------------------------
\* sendMessage of any member, the user's own included: the transaction.
SendMessage(c) ==
  /\ Len(msgs) < MaxMessages
  /\ msgs' = Append(msgs, c) /\ posted' = posted \cup {Len(msgs) + 1}
  /\ UNCHANGED <<marker, rooms, joins, marks, wireVars, pageVars, behind>>

\* A thread misses what is emitted before its socket is in the room, unless
\* the list of its messages is still to be read.
Unheard(c) ==
  active = c /\ c \notin rooms /\ Get(c) \notin gets

\* The messages of the conversation under way that those shown overtake.
OvertakenBy(shown, c) == {i \in UnderWay : msgs[i] = c /\ \E j \in shown : j > i}

\* chat:message-created.  Nothing orders the emits of two handlers.
EmitMessage(id) ==
  /\ id \in posted /\ Len(events) < MaxEvents
  /\ EmitTo(msgs[id], id)
  /\ posted' = posted \ {id}
  /\ whole' = (whole /\ ~Unheard(msgs[id]))
  /\ behind' = behind \cup
       IF msgs[id] \in rooms THEN posted \cap OvertakenBy({id}, msgs[id]) ELSE {}
  /\ UNCHANGED <<msgs, marker, rooms, joins, marks, connected, active, thread, gets>>

\* The UPDATE of markRead writes the marker whatever it was.
MarkRead(m) ==
  /\ m \in marks
  /\ marker' = [marker EXCEPT ![msgs[m.id]] = m.id]
  /\ marks' = {[id  |-> n.id,
                 why |-> IF msgs[n.id] = msgs[m.id] THEN "overtaken" ELSE n.why]
                 : n \in marks \ {m}}
  /\ UNCHANGED <<msgs, rooms, joins, posted, wireVars, pageVars, behind>>

\* handleJoinConversation after assertMember, for the socket there is now.
JoinDone(c) ==
  /\ connected /\ c \in joins
  /\ joins' = joins \ {c}
  /\ rooms' = rooms \cup {c}
  /\ UNCHANGED <<msgs, marker, posted, marks, wireVars, pageVars, behind>>

\* listMessages reads its page for a request.
ReadPage(g) ==
  /\ g.upto = None
  /\ gets' = (gets \ {g}) \cup {[conv |-> g.conv, upto |-> Len(msgs)]}
  /\ behind' = behind \cup OvertakenBy(ToSet(PageOf(MessagesOf(g.conv, Len(msgs)))), g.conv)
  /\ UNCHANGED <<serverVars, wireVars, active, thread, whole>>

-----------------------------------------------------------------------------
\* chat:leave-conversation, then chat:join-conversation.
LeaveAndJoin(c) ==
  /\ rooms' = rooms \ {active}
  /\ joins' = joins \cup ({c} \ {None})

\* selectConversation, of the active conversation too.  Bound: one join and
\* one listMessages of a conversation in flight.
SelectConversation(c) ==
  /\ c \notin joins /\ \A g \in gets : g.conv # c
  /\ LeaveAndJoin(c)
  /\ active' = c /\ thread' = <<>> /\ whole' = connected
  /\ gets' = gets \cup {Get(c)}
  /\ UNCHANGED <<msgs, marker, posted, marks, wireVars, behind>>

\* clearConversation leaves the messages where they are.
ClearConversation ==
  /\ active # None
  /\ LeaveAndJoin(None)
  /\ active' = None /\ whole' = TRUE
  /\ UNCHANGED <<msgs, marker, posted, marks, wireVars, thread, gets, behind>>

NewMark(id, why) == marks \cup {[id |-> id, why |-> why]}

\* The answer to listMessages is shown, and its last message marked as read,
\* whichever conversation is active by now.
AnswerArrives(g) ==
  /\ g.upto # None
  /\ LET c    == g.conv
         all  == MessagesOf(c, g.upto)
         rows == PageOf(all)
     IN  /\ thread' = rows
         /\ marks' = IF rows = <<>> THEN marks ELSE NewMark(Last(rows), "page")
         /\ whole' = (whole /\ active = c /\ Len(all) <= PageSize
                            /\ ToSet(thread) \subseteq ToSet(rows))
  /\ gets' = gets \ {g}
  /\ UNCHANGED <<msgs, marker, rooms, joins, posted, wireVars, active, behind>>

AnswerFails(g) ==
  /\ gets' = gets \ {g} /\ whole' = FALSE
  /\ UNCHANGED <<serverVars, wireVars, active, thread, behind>>

\* Mutant of InThread: every message is shown.
AnyThread(c) == TRUE

InThread(c) == c = active

\* Mutant of MarkReceived: marks the first message of the thread.
MarkReceivedFirst(id) == NewMark(Head(Append(thread, id)), "event")

MarkReceived(id) == NewMark(id, IF id \in behind THEN "late" ELSE "event")

\* message$: shown and marked when its conversation is active.
ReceiveMessage ==
  /\ events # <<>>
  /\ LET id == Head(events)
     IN  IF InThread(msgs[id])
           THEN /\ thread' = Append(thread, id)
                /\ marks' = MarkReceived(id)
           ELSE UNCHANGED <<thread, marks>>
  /\ events' = Tail(events)
  /\ UNCHANGED <<msgs, marker, rooms, joins, posted, connected, active, gets, whole, behind>>

\* The connection breaks: the rooms of the socket are gone, and so is what
\* the gateway had started or sent for it alone.
Disconnected ==
  /\ connected
  /\ connected' = FALSE /\ events' = <<>>
  /\ rooms' = {} /\ joins' = {}
  /\ whole' = (whole /\ active = None)
  /\ UNCHANGED <<msgs, marker, posted, marks, active, thread, gets, behind>>

\* socket.io reconnects, unless the token the socket was made with has
\* expired, and sends what the page emitted meanwhile; the page itself joins
\* nothing again.
Connected ==
  /\ ~connected /\ connected' = TRUE
  /\ UNCHANGED <<serverVars, events, pageVars, behind>>

ServerStep ==
  \/ \E id \in Ids : EmitMessage(id)
  \/ \E m \in marks : MarkRead(m)
  \/ \E c \in Convs : JoinDone(c)
  \/ \E g \in gets : ReadPage(g)

PageStep ==
  \/ \E g \in gets : AnswerArrives(g) \/ AnswerFails(g)
  \/ ReceiveMessage

Input ==
  \/ \E c \in Convs : SendMessage(c) \/ SelectConversation(c)
  \/ ClearConversation \/ Disconnected \/ Connected

Next == ServerStep \/ PageStep \/ Input

Spec == Init /\ [][Next]_vars

-----------------------------------------------------------------------------
\* The read marker goes back only when a handler is overtaken by another one
\* of the same conversation, when it marks a message that a later one has
\* overtaken on its way to the page (emitted before it, or in a list read
\* before it was received), or when it marks the last message of a page of
\* the oldest messages (markRead writes whatever it is told).
MarkerMovesBackOnly ==
  [][\A c \in Convs : marker'[c] < marker[c] =>
       \E m \in marks : m.id = marker'[c] /\ m.why # "event"]_vars

Foreign(t, c) == \E i \in DOMAIN t : msgs[t[i]] # c

\* A thread comes to show a message of another conversation only by a late
\* answer: nothing but the arrival of a list that was asked for before the
\* user moved on can do it (selectConversation, message$).
OnlyLateAnswersMix ==
  [][active' # None /\ Foreign(thread', active') /\ ~Foreign(thread, active) =>
       \E g \in gets : g.conv # active /\ gets' = gets \ {g}]_vars

Settled == connected /\ gets = {} /\ posted = {} /\ events = <<>>

\* When nothing is under way, the thread of the active conversation holds
\* every message of it, unless one of six things happened since it was
\* selected: its list was longer than a page, arrived after a message it
\* did not yet hold, was another conversation's, or failed; a message was
\* emitted before the join was done; the socket was down.
GapsHaveACause ==
  Settled /\ active # None /\ whole =>
    ToSet(MessagesOf(active, Len(msgs))) \subseteq ToSet(thread)

\* The types of rows, socket and page, and the gaps.
ThreadInv == TypeOK /\ GapsHaveACause

-----------------------------------------------------------------------------
(***************************************************************************)
(* What makes these inductive.  A message that a thread does not show yet  *)
(* is under way to it or in a list to come.  What reaches the page, or the *)
(* marker, before a message that nothing has overtaken is older than it.   *)
(***************************************************************************)
NothingMissed ==
  whole /\ active # None =>
    \A i \in Ids : msgs[i] = active =>
      \/ i \in ToSet(thread) \cup UnderWay
      \/ \E g \in gets : g.conv = active /\ (g.upto = None \/ i <= g.upto)

EventsInOrder ==
  /\ \A p, q \in DOMAIN events :
       p < q /\ events[q] \notin behind /\ msgs[events[p]] = msgs[events[q]]
         => events[p] <= events[q]
  /\ \A p \in DOMAIN events, i \in posted \ behind :
       msgs[events[p]] = msgs[i] => events[p] <= i

MarksInOrder ==
  /\ \A i \in UnderWay \ behind :
       /\ marker[msgs[i]] <= i
       /\ \A m \in marks : msgs[m.id] = msgs[i] => m.id <= i
       /\ \A g \in gets : g.conv = msgs[i] /\ g.upto # None =>
            \A j \in ToSet(PageOf(MessagesOf(g.conv, g.upto))) : j <= i
  /\ \A m \in marks : m.why = "event" => marker[msgs[m.id]] <= m.id

ChatInv == TypeOK /\ NothingMissed /\ EventsInOrder /\ MarksInOrder
=============================================================================
