----------------------------- MODULE ChatProofs -----------------------------
(***************************************************************************)
(* Theorems about what the members of a chat see of each other, on any     *)
(* number of members, conversations, messages and events under way:        *)
(* Typing, Presence (any number of sockets of a user and of failing Redis  *)
(* commands) and ChatList.                                                 *)
(***************************************************************************)
EXTENDS Typing, ChatList, Presence, SequenceTheorems, WellFoundedInduction, TLAPS

-----------------------------------------------------------------------------
LEMMA InitTyping == Init => TypingInv
BY TypingConstants DEF Init, TypingInv, TypeOK, LabelIsTimed

\* Relay queues an event of the right shape, or none, and is noted.
LEMMA RelayType ==
  ASSUME TypeOK, NEW m \in Members, NEW conv \in Convs \cup {None}, NEW typing \in BOOLEAN,
         typing => conv \in Convs, Relay(m, conv, typing)
  PROVE  events' \in Seq(Event) /\ told' \in [Members -> SUBSET Convs]
<1>1. conv \in Convs => [member |-> m, conv |-> conv, isTyping |-> typing] \in Event
  BY Zenon DEF Event
<1>2. events' \in Seq(Event)
  <2>1. CASE conv \in rooms
    BY <1>1, <2>1, AppendProperties DEF Relay, EmitTo, TypeOK
  <2>2. CASE conv \notin rooms
    BY <2>2 DEF Relay, EmitTo, TypeOK
  <2> QED  BY <2>1, <2>2
<1>3. told' \in [Members -> SUBSET Convs]
  BY DEF Relay, TypeOK
<1> QED  BY <1>2, <1>3

\* The member's own variables, whatever the member does.
LEMMA MemberType ==
  ASSUME TypeOK, NEW m \in Members, NEW t \in BOOLEAN,
         isTyping' = [isTyping EXCEPT ![m] = t]
  PROVE  isTyping' \in [Members -> BOOLEAN]
BY Zenon DEF TypeOK

\* What a member does leaves the page of the user alone.
LEMMA MemberSteps ==
  ASSUME TypingInv, NEW m \in Members,
         \/ TypingStart(m) \/ TypingStop(m)
         \/ \E conv \in Convs \cup {None} : Switch(m, conv)
  PROVE  TypingInv'
<1>1. CASE TypingStart(m)
  <2>1. composing[m] \in Convs
    BY <1>1 DEF TypingInv, TypeOK, TypingStart
  <2>2. events' \in Seq(Event) /\ told' \in [Members -> SUBSET Convs]
    BY <1>1, <2>1, RelayType DEF TypingInv, TypingStart
  <2>3. isTyping' \in [Members -> BOOLEAN]
    BY <1>1, MemberType DEF TypingInv, TypingStart
  <2>4. UNCHANGED <<composing, joins, rooms, active, label, timer>> /\ starts' \in Nat
    BY <1>1 DEF TypingInv, TypeOK, TypingStart, pageVars
  <2> QED  BY <2>2, <2>3, <2>4 DEF TypingInv, TypeOK, LabelIsTimed
<1>2. CASE TypingStop(m)
  <2>1. composing[m] \in Convs \cup {None}
    BY DEF TypingInv, TypeOK
  <2>2. events' \in Seq(Event) /\ told' \in [Members -> SUBSET Convs]
    BY <1>2, <2>1, RelayType DEF TypingInv, TypingStop
  <2>3. isTyping' \in [Members -> BOOLEAN]
    BY <1>2, MemberType DEF TypingInv, TypingStop
  <2>4. UNCHANGED <<composing, starts, joins, rooms, active, label, timer>>
    BY <1>2 DEF TypingStop, pageVars
  <2> QED  BY <2>2, <2>3, <2>4 DEF TypingInv, TypeOK, LabelIsTimed
<1>3. ASSUME NEW conv \in Convs \cup {None}, Switch(m, conv)  PROVE TypingInv'
  <2>1. composing' \in [Members -> Convs \cup {None}]
    BY <1>3 DEF TypingInv, TypeOK, Switch
  <2>2. isTyping' \in [Members -> BOOLEAN]
    BY <1>3, Zenon DEF TypingInv, TypeOK, Switch
  <2>3. UNCHANGED <<told, starts, joins, rooms, events, active, label, timer>>
    BY <1>3 DEF Switch, pageVars
  <2> QED  BY <2>1, <2>2, <2>3 DEF TypingInv, TypeOK, LabelIsTimed
<1> QED  BY <1>1, <1>2, <1>3

\* A selection drops the label; the socket only joins, leaves or breaks.
LEMMA SelectionSteps ==
  ASSUME TypingInv,
         \/ \E conv \in Convs : SelectConversation(conv) \/ JoinDone(conv)
         \/ ClearConversation \/ Reconnect
  PROVE  TypingInv'
<1> USE DEF TypingInv, TypeOK, LabelIsTimed, memberVars
<1>1. ASSUME NEW conv \in Convs, SelectConversation(conv)  PROVE TypingInv'
  BY <1>1 DEF SelectConversation
<1>2. ASSUME NEW conv \in Convs, JoinDone(conv)  PROVE TypingInv'
  BY <1>2 DEF JoinDone, pageVars
<1>3. CASE ClearConversation
  BY <1>3 DEF ClearConversation
<1>4. CASE Reconnect
  BY <1>4 DEF Reconnect, pageVars
<1> QED  BY <1>1, <1>2, <1>3, <1>4

\* An event that names a member starts the timer of that member, and a timer
\* or a stop that takes a timer away takes the label with it.
LEMMA LabelSteps ==
  ASSUME TypingInv, ReceiveTyping \/ \E m \in Members : TimeoutFires(m)
  PROVE  TypingInv'
<1>1. CASE ReceiveTyping
  <2> DEFINE e == Head(events)
  <2>1. e \in Event /\ events' \in Seq(Event)
    BY <1>1, HeadTailProperties DEF ReceiveTyping, TypingInv, TypeOK
  <2>2. e.member \in Members /\ e.conv \in Convs /\ e.isTyping \in BOOLEAN
    BY <2>1, Zenon DEF Event
  <2>3. UNCHANGED <<composing, isTyping, told, starts, joins, rooms, active>>
    BY <1>1 DEF ReceiveTyping, memberVars
  <2>4. CASE e.conv # active
    <3>1. UNCHANGED <<label, timer>>
      BY <1>1, <2>4 DEF ReceiveTyping
    <3> QED  BY <2>1, <2>3, <3>1 DEF TypingInv, TypeOK, LabelIsTimed
  <2>5. CASE e.conv = active
    <3>1. label' = (IF e.isTyping THEN e.member ELSE None)
          /\ timer' = [timer EXCEPT ![e.member] = IF e.isTyping THEN e.conv ELSE None]
      BY <1>1, <2>5 DEF ReceiveTyping
    <3>2. label' \in Members \cup {None} /\ timer' \in [Members -> Convs \cup {None}]
      BY <2>2, <3>1 DEF TypingInv, TypeOK
    <3>3. LabelIsTimed'
      BY <2>2, <2>3, <2>5, <3>1, TypingConstants DEF TypingInv, TypeOK, LabelIsTimed
    <3> QED  BY <2>1, <2>3, <3>2, <3>3 DEF TypingInv, TypeOK
  <2> QED  BY <2>4, <2>5
<1>2. ASSUME NEW m \in Members, TimeoutFires(m)  PROVE TypingInv'
  BY <1>2 DEF TypingInv, TypeOK, LabelIsTimed, TimeoutFires, memberVars
<1> QED  BY <1>1, <1>2

-----------------------------------------------------------------------------
\* A name on show always has its timer running and belongs to the thread it is
\* shown in, whatever events are lost and however the user moves about.
THEOREM TypingInvariant == Spec => []TypingInv
<1>1. ASSUME TypingInv, [Next]_vars  PROVE TypingInv'
  <2>1. CASE Next
    BY <1>1, <2>1, MemberSteps, SelectionSteps, LabelSteps DEF Next
  <2>2. CASE UNCHANGED vars
    BY <1>1, <2>2 DEF TypingInv, TypeOK, LabelIsTimed, vars, memberVars, pageVars
  <2> QED  BY <1>1, <2>1, <2>2
<1> QED  BY <1>1, InitTyping, PTL DEF Spec

-----------------------------------------------------------------------------
\* What member k does changes what the others were told by k alone.
LEMMA OthersAreNotMisled ==
  ASSUME TypeOK, NEW k \in Members, NEW m \in Members \ {k},
         \/ TypingStart(k) \/ TypingStop(k)
         \/ \E conv \in Convs \cup {None} : Switch(k, conv)
  PROVE  Misled(m)' = Misled(m)
<1>1. told'[m] = told[m] /\ composing'[m] = composing[m]
  BY DEF TypeOK, TypingStart, TypingStop, Switch, Relay
<1>2. isTyping'[m] = isTyping[m]
  BY Zenon DEF TypeOK, TypingStart, TypingStop, Switch
<1> QED  BY <1>1, <1>2 DEF Misled

\* A start says "typing" only to the conversation that is open, and a stop
\* takes it back from that one.
LEMMA ComposerMisleadsNobody ==
  ASSUME TypeOK, NEW m \in Members, TypingStart(m) \/ TypingStop(m)
  PROVE  Misled(m)' \subseteq Misled(m)
<1> SUFFICES ASSUME NEW c \in Misled(m)'  PROVE c \in Misled(m)
  OBVIOUS
<1>1. composing' = composing
  BY DEF TypingStart, TypingStop
<1>2. CASE TypingStart(m)
  <2>1. isTyping'[m] /\ ~isTyping[m]
    BY <1>2, Zenon DEF TypingStart, TypeOK
  <2>2. told'[m] = told[m] \cup {composing[m]}
    BY <1>2 DEF TypingStart, Relay, TypeOK
  <2> QED  BY <1>1, <2>1, <2>2 DEF Misled
<1>3. CASE TypingStop(m)
  <2>1. told'[m] = told[m] \ {composing[m]}
    BY <1>3 DEF TypingStop, Relay, TypeOK
  <2> QED  BY <2>1 DEF Misled
<1> QED  BY <1>2, <1>3

\* However the other members, the user and the network behave, a conversation
\* waits in vain for a stop only because its member has gone elsewhere.
THEOREM OnlySwitchingMisleads == Spec => MisledOnlyBySwitching
<1> DEFINE Kept == \A m \in Members :
                      Misled(m)' \subseteq Misled(m) \/ composing'[m] # composing[m]
<1>1. TypingInv /\ [Next]_vars => [Kept]_vars
  <2> SUFFICES ASSUME TypingInv, Next, NEW m \in Members
               PROVE  Misled(m)' \subseteq Misled(m) \/ composing'[m] # composing[m]
    OBVIOUS
  <2> USE DEF TypingInv
  <2>1. ASSUME NEW k \in Members,
               \/ TypingStart(k) \/ TypingStop(k)
               \/ \E conv \in Convs \cup {None} : Switch(k, conv)
        PROVE  Misled(m)' \subseteq Misled(m) \/ composing'[m] # composing[m]
    <3>1. CASE k # m
      BY <2>1, <3>1, OthersAreNotMisled
    <3>2. CASE k = m /\ (TypingStart(m) \/ TypingStop(m))
      BY <3>2, ComposerMisleadsNobody
    <3>3. ASSUME NEW conv \in Convs \cup {None}, Switch(m, conv)
          PROVE  composing'[m] # composing[m]
      BY <3>3 DEF Switch, TypeOK
    <3> QED  BY <2>1, <3>1, <3>2, <3>3
  <2>2. CASE UNCHANGED memberVars
    BY <2>2 DEF memberVars, Misled
  <2>3. ASSUME \/ \E k \in Members : TimeoutFires(k)
               \/ \E conv \in Convs : SelectConversation(conv) \/ JoinDone(conv)
               \/ ClearConversation \/ ReceiveTyping \/ Reconnect
        PROVE  UNCHANGED memberVars
    BY <2>3 DEF TimeoutFires, SelectConversation, JoinDone, ClearConversation,
                ReceiveTyping, Reconnect
  <2> QED  BY <2>1, <2>2, <2>3 DEF Next
<1> QED
  BY <1>1, TypingInvariant, PTL DEF Spec, MisledOnlyBySwitching

-----------------------------------------------------------------------------
LEMMA InitCounting == PresenceInit => CountingInv
<1> SUFFICES ASSUME PresenceInit  PROVE CountingInv
  OBVIOUS
<1>1. PresenceTypeOK
  <2>1. key \in BOOLEAN /\ refreshed \in BOOLEAN /\ silent \in BOOLEAN
    BY Zenon DEF PresenceInit
  <2>2. failures \in 0 .. MaxFailures
    BY PresenceConstants DEF PresenceInit
  <2> QED  BY <2>1, <2>2 DEF PresenceInit, PresenceTypeOK
<1>2. SocketsInStep /\ AllCounted
  BY DEF PresenceInit, SocketsInStep, Ghosts, AllCounted, Online
<1>3. ShownOrTelling /\ KeyIsOwned
  BY DEF PresenceInit, ShownOrTelling, KeyIsOwned
<1> QED  BY <1>1, <1>2, <1>3 DEF CountingInv

\* The connect handler of a socket and the guard that attaches it.
LEMMA ConnectSteps ==
  ASSUME CountingInv, NEW s \in Sockets,
         \/ Connect(s) \/ RejectSocket(s) \/ MarkConnected(s) \/ ConnectTold(s)
         \/ GuardAttaches(s)
  PROVE  CountingInv'
<1> USE DEF CountingInv, PresenceTypeOK, SocketsInStep, Ghosts, AllCounted, Online,
            ShownOrTelling, Telling, KeyIsOwned, redisVars, histVars
<1>1. CASE Connect(s)
  BY <1>1 DEF Connect
<1>2. CASE RejectSocket(s)
  BY <1>2 DEF RejectSocket
<1>3. CASE MarkConnected(s)
  BY <1>3 DEF MarkConnected
<1>4. CASE ConnectTold(s)
  BY <1>4 DEF ConnectTold, Told
<1>5. CASE GuardAttaches(s)
  BY <1>5 DEF GuardAttaches
<1> QED  BY <1>1, <1>2, <1>3, <1>4, <1>5

\* The disconnect handler.
LEMMA DisconnectSteps ==
  ASSUME CountingInv, NEW s \in Sockets,
         Disconnect(s) \/ CountRemaining(s) \/ DeletePresence(s) \/ DisconnectTold(s)
  PROVE  CountingInv'
<1> USE DEF CountingInv, PresenceTypeOK, SocketsInStep, Ghosts, AllCounted, Online,
            ShownOrTelling, Telling, KeyIsOwned, redisVars, histVars
<1>1. CASE Disconnect(s)
  BY <1>1 DEF Disconnect, RemoveSocket
<1>2. CASE CountRemaining(s)
  BY <1>2 DEF CountRemaining, NoneRemain
<1>3. CASE DeletePresence(s)
  BY <1>3 DEF DeletePresence
<1>4. CASE DisconnectTold(s)
  BY <1>4 DEF DisconnectTold, Told
<1> QED  BY <1>1, <1>2, <1>3, <1>4

\* What clients ask and what Redis does by itself.
LEMMA OtherSteps ==
  ASSUME CountingInv,
         \/ \E s \in Sockets : RefreshPresence(s) \/ RedisFails(s)
         \/ GetPresence \/ ExpirePresence \/ ExpireSocketSet
  PROVE  CountingInv'
<1> USE DEF CountingInv, PresenceTypeOK, SocketsInStep, Ghosts, AllCounted, Online,
            ShownOrTelling, Telling, KeyIsOwned, redisVars, histVars
<1>1. ASSUME NEW s \in Sockets, RefreshPresence(s)  PROVE CountingInv'
  BY <1>1 DEF RefreshPresence
<1>2. ASSUME NEW s \in Sockets, RedisFails(s)  PROVE CountingInv'
  BY <1>2, PresenceConstants DEF RedisFails
<1>3. CASE GetPresence
  BY <1>3 DEF GetPresence, Told
<1>4. CASE ExpirePresence
  BY <1>4 DEF ExpirePresence, Expires
<1>5. CASE ExpireSocketSet
  BY <1>5 DEF ExpireSocketSet
<1> QED  BY <1>1, <1>2, <1>3, <1>4, <1>5

\* However the handlers of the sockets overlap, the socket set counts every
\* online socket that it has not lost, and who deletes the key has missed
\* only those that came later.
THEOREM CountingInvariant == PresenceSpec => []CountingInv
<1>1. ASSUME CountingInv, [PresenceNext]_presenceVars  PROVE CountingInv'
  <2>1. CASE PresenceNext
    BY <1>1, <2>1, ConnectSteps, DisconnectSteps, OtherSteps DEF PresenceNext, Handler
  <2>2. CASE UNCHANGED presenceVars
    BY <1>1, <2>2 DEF CountingInv, PresenceTypeOK, SocketsInStep, Ghosts, AllCounted, Online,
                      ShownOrTelling, Telling, KeyIsOwned, presenceVars, redisVars, histVars
  <2> QED  BY <1>1, <2>1, <2>2
<1> QED  BY <1>1, InitCounting, PTL DEF PresenceSpec

-----------------------------------------------------------------------------
\* For any number of sockets the clients show what Redis holds once the
\* handlers are through, and a user whose sockets have gone stays online only
\* by one that was added to the set after it had ended.
THEOREM PresenceInvariant == PresenceSpec => []PresenceInv
<1>1. CountingInv => PresenceInv
  <2> SUFFICES ASSUME CountingInv  PROVE PresenceInv
    OBVIOUS
  <2>1. ShownAsStored
    BY DEF CountingInv, ShownOrTelling, Telling, ShownAsStored, AtRest
  <2>2. OnlyGhostsStayOnline
    <3> SUFFICES ASSUME AtRest, up = {}, key, failures = 0
                 PROVE  \E s \in authed : disc[s] = "skipped"
      BY DEF OnlyGhostsStayOnline
    <3>1. PICK s \in authed : s \in Ghosts
      BY DEF CountingInv, PresenceTypeOK, KeyIsOwned, AtRest
    <3> QED  BY <3>1 DEF Ghosts
  <2> QED  BY <2>1, <2>2 DEF PresenceInv, CountingInv
<1> QED  BY <1>1, CountingInvariant, PTL

\* Whichever handlers overlap, an online user is shown offline by a disconnect
\* only when the set had lost, or did not yet have, every open socket.
THEOREM LiveUsersAreMiscounted == PresenceSpec => DeletesLiveOnlyIfMiscounted
<1> DEFINE Miscounted ==
      \A s \in Sockets : disc[s] = "delete" /\ disc'[s] # "delete" /\ key /\ ~key'
        => \A u \in Sockets : Online(u) => u \in uncounted \cup late
<1>1. CountingInv /\ [PresenceNext]_presenceVars => [Miscounted]_presenceVars
  BY DEF CountingInv, AllCounted
<1> QED
  BY <1>1, CountingInvariant, PTL DEF PresenceSpec, DeletesLiveOnlyIfMiscounted

-----------------------------------------------------------------------------
(***************************************************************************)
(* The list of conversations.                                              *)
(***************************************************************************)
LEMMA GreatestId ==
  ASSUME NEW n \in Nat, NEW S, S \subseteq 1 .. n, S # {}
  PROVE  Max(S) \in S
<1> DEFINE Gaps == {n - i : i \in S}
<1>1. Gaps \subseteq Nat /\ Gaps # {}
  <2>1. \A i \in S : n - i \in Nat
    OBVIOUS
  <2> QED  BY <2>1
<1>2. \E g \in Gaps : \A h \in Gaps : ~ (<<h, g>> \in OpToRel(<, Nat))
  <2> HIDE DEF Gaps
  <2> QED  BY <1>1, NatLessThanWellFounded, WFMin, Zenon
<1>3. \E g \in Gaps : \A h \in Gaps : g <= h
  <2>1. \A k, m \in Nat : ~ (<<k, m>> \in OpToRel(<, Nat)) => m <= k
    BY DEF OpToRel
  <2> HIDE DEF Gaps
  <2> QED  BY <1>1, <1>2, <2>1
<1>4. PICK i \in S : \A j \in S : n - i <= n - j
  BY <1>3
<1>5. \A j \in S : i >= j
  BY <1>4
<1> QED  BY <1>5 DEF Max

\* The messages of the database, and what is in it of a conversation.
LEMMA ListIds ==
  ASSUME ListTypeOK
  PROVE  /\ Len(msgs) \in Nat /\ Ids \subseteq Nat
         /\ \A i \in Ids : msgs[i] \in Convs
         /\ \A c : Of(c) \subseteq Ids
BY DEF ListTypeOK, Ids, Of

\* An event that is a message names one, and where it is.
LEMMA EventIds ==
  ASSUME ListTypeOK, NEW p, IsMessage(p)
  PROVE  /\ p \in 1 .. Len(events) /\ Len(events) \in Nat
         /\ events[p].id \in Ids /\ events[p].late \in BOOLEAN
         /\ ConvAt(p) \in Convs
<1>1. events[p] \in MessageEvent \cup ReadEvent /\ p \in 1 .. Len(events)
      /\ Len(events) \in Nat
  BY DEF ListTypeOK, IsMessage
<1>2. events[p] \in MessageEvent
  BY <1>1 DEF IsMessage, ReadEvent
<1>3. events[p].id \in Ids /\ events[p].late \in BOOLEAN
  BY <1>2 DEF MessageEvent
<1> QED  BY <1>1, <1>3, ListIds DEF ConvAt

LEMMA IsCreation ==
  ASSUME NEW k \in {"absent", "pair", "group"}, NEW missed \in BOOLEAN
  PROVE  [kind |-> k, missed |-> missed] \in Creation
BY DEF Creation

LEMMA ListStart == ListInit => ListInv
<1> SUFFICES ASSUME ListInit  PROVE ListInv
  OBVIOUS
<1>1. Pairs = {} /\ Ids = {} /\ events = <<>>
  BY DEF ListInit, Pairs, Ids
<1>2. ListTypeOK
  <2>1. NotCreating \in Creation
    BY DEF NotCreating, Creation
  <2>2. msgs \in Seq(Convs) /\ events \in Seq(MessageEvent \cup ReadEvent)
    BY DEF ListInit
  <2> QED  BY <1>1, <2>1, <2>2 DEF ListInit, ListTypeOK
<1>3. CreationsKnow /\ HearsVisited /\ EmittedInOrder
  BY <1>1 DEF ListInit, CreationsKnow, HearsVisited, EmittedInOrder, IsMessage
<1> QED  BY <1>2, <1>3 DEF ListInv

\* What a step that leaves the variables of a part alone does to it.
LEMMA SameCreations ==
  ASSUME CreationsKnow, UNCHANGED <<kind, creating>>
  PROVE  CreationsKnow'
BY DEF CreationsKnow, Pairs

LEMMA SameVisits ==
  ASSUME HearsVisited, ListTypeOK, UNCHANGED <<rooms, joins, events, page, listed, visited>>,
         \A i \in Ids : msgs'[i] = msgs[i]
  PROVE  HearsVisited'
<1>1. \A p : IsMessage(p)' = IsMessage(p) /\ (IsMessage(p) => ConvAt(p)' = ConvAt(p))
  BY EventIds DEF IsMessage, ConvAt
<1> QED  BY <1>1 DEF HearsVisited

LEMMA SameOrder ==
  ASSUME EmittedInOrder, ListTypeOK, UNCHANGED <<events, preview, heard>>,
         Ids \subseteq Ids', \A i \in Ids : msgs'[i] = msgs[i],
         posted' \cap Ids \subseteq posted
  PROVE  EmittedInOrder'
<1>1. \A p : /\ IsMessage(p)' = IsMessage(p)
             /\ IsMessage(p) => ConvAt(p)' = ConvAt(p) /\ events[p].id \in Ids
  BY EventIds DEF IsMessage, ConvAt
<1>2. \A c \in heard' : preview'[c] \in Of(c)' \ posted'
  BY DEF EmittedInOrder, Of
<1> QED  BY <1>1, <1>2 DEF EmittedInOrder

\* A user creates a conversation.
LEMMA LookupStep ==
  ASSUME ListInv, NEW u \in Users, NEW k \in {"pair", "group"}, CreateLookup(u, k)
  PROVE  ListInv'
<1>1. UNCHANGED <<kind, msgs, marker, posted, rooms, joins, events, page, listed, badge,
                  preview, active, visited, heard>>
      /\ creating' = [creating EXCEPT ![u].kind = k]
      /\ ~(k = "pair" /\ Pairs # {})
  BY DEF CreateLookup, wireVars, sidebarVars, FindExistingOneToOne
<1>2. \A v \in Users : creating'[v] = [kind   |-> IF v = u THEN k ELSE creating[v].kind,
                                       missed |-> creating[v].missed]
  BY <1>1 DEF ListInv, ListTypeOK, Creation
<1>3. creating' \in [Users -> Creation]
  <2>1. \A v \in Users : creating[v].kind \in {"absent", "pair", "group"}
                         /\ creating[v].missed \in BOOLEAN
    BY DEF ListInv, ListTypeOK, Creation
  <2>2. k \in {"absent", "pair", "group"}
    OBVIOUS
  <2>3. ASSUME NEW v \in Users  PROVE creating'[v] \in Creation
    <3>1. CASE v = u
      BY <1>2, <2>1, <2>2, <3>1, IsCreation
    <3>2. CASE v # u
      BY <1>2, <2>1, <3>2, IsCreation
    <3> QED  BY <3>1, <3>2
  <2>4. DOMAIN creating' = Users /\ creating' = [v \in Users |-> creating'[v]]
    BY <1>1 DEF ListInv, ListTypeOK
  <2> QED  BY <2>3, <2>4
<1>4. ListTypeOK'
  BY <1>1, <1>3 DEF ListInv, ListTypeOK, Ids, Known, MessageEvent
<1>5. CreationsKnow'
  BY <1>1, <1>2 DEF ListInv, CreationsKnow, Pairs
<1>6. HearsVisited' /\ EmittedInOrder'
  BY <1>1, SameVisits, SameOrder DEF ListInv, Ids
<1> QED  BY <1>4, <1>5, <1>6 DEF ListInv

LEMMA InsertStep ==
  ASSUME ListInv, NEW u \in Users, NEW c \in Convs, CreateInsert(u, c)
  PROVE  ListInv'
<1>1. UNCHANGED <<msgs, marker, posted, rooms, joins, events, page, listed, badge,
                  preview, active, visited, heard>>
      /\ kind' = [kind EXCEPT ![c] = creating[u].kind]
      /\ creating[u].kind # "absent" /\ kind[c] = "absent"
  BY DEF CreateInsert, wireVars, sidebarVars
<1>2. \A v \in Users : creating[v] \in Creation /\ creating[v].missed \in BOOLEAN
                       /\ creating[v].kind \in {"absent", "pair", "group"}
  BY DEF ListInv, ListTypeOK, Creation
<1>3. /\ DOMAIN creating' = Users /\ creating' = [v \in Users |-> creating'[v]]
      /\ creating'[u] = NotCreating
      /\ \A v \in Users \ {u} :
           creating'[v] = [kind   |-> creating[v].kind,
                           missed |-> creating[v].missed
                                      \/ (creating[v].kind = "pair"
                                          /\ creating[u].kind = "pair")]
  BY <1>2 DEF CreateInsert, Creation
<1>4. creating' \in [Users -> Creation]
  <2>1. NotCreating \in Creation
    BY DEF NotCreating, Creation
  <2>2. ASSUME NEW v \in Users \ {u}  PROVE creating'[v] \in Creation
    <3> DEFINE missed == creating[v].missed
                         \/ (creating[v].kind = "pair" /\ creating[u].kind = "pair")
    <3>1. missed \in BOOLEAN /\ creating[v].kind \in {"absent", "pair", "group"}
      BY <1>2
    <3>2. creating'[v] = [kind |-> creating[v].kind, missed |-> missed]
      BY <1>3
    <3> HIDE DEF missed
    <3> QED  BY <3>1, <3>2, IsCreation
  <2> QED  BY <1>3, <2>1, <2>2
<1>5. kind' \in [Convs -> {"absent", "pair", "group"}] /\ Known \subseteq Known'
  BY <1>1, <1>2 DEF ListInv, ListTypeOK, Known
<1>6. ListTypeOK'
  BY <1>1, <1>4, <1>5 DEF ListInv, ListTypeOK, Ids, MessageEvent
<1>7. CreationsKnow'
  <2>1. creating[u].kind # "pair" => Pairs' \subseteq Pairs
    BY <1>1 DEF Pairs, ListInv, ListTypeOK
  <2>2. NotCreating.kind = "absent"
    BY DEF NotCreating
  <2>3. SUFFICES ASSUME Pairs' # {}, NEW v \in Users, creating'[v].kind = "pair"
                 PROVE  creating'[v].missed
    BY DEF CreationsKnow
  <2>4. v # u
    BY <1>3, <2>2, <2>3
  <2>5. /\ creating'[v].kind = creating[v].kind
        /\ creating'[v].missed = (creating[v].missed \/ (creating[v].kind = "pair"
                                                        /\ creating[u].kind = "pair"))
    BY <1>3, <2>4
  <2>6. CASE creating[u].kind = "pair"
    BY <2>3, <2>5, <2>6
  <2>7. CASE creating[u].kind # "pair"
    BY <2>1, <2>3, <2>5, <2>7 DEF ListInv, CreationsKnow
  <2> QED  BY <2>6, <2>7
<1>8. HearsVisited' /\ EmittedInOrder'
  BY <1>1, SameVisits, SameOrder DEF ListInv, Ids
<1> QED  BY <1>6, <1>7, <1>8 DEF ListInv

\* A message is stored.
LEMMA StoreStep ==
  ASSUME ListInv, NEW c \in Convs, SendMessage(c)
  PROVE  ListInv'
<1>1. UNCHANGED <<kind, creating, marker, rooms, joins, events, page, listed, badge,
                  preview, active, visited, heard>>
      /\ msgs' = Append(msgs, c) /\ posted' = posted \cup {Len(msgs) + 1}
  BY DEF SendMessage, sidebarVars
<1>2. /\ msgs' \in Seq(Convs) /\ Len(msgs') = Len(msgs) + 1 /\ Len(msgs) \in Nat
      /\ \A i \in Ids : msgs'[i] = msgs[i]
  BY <1>1, AppendProperties, ListIds DEF ListInv, ListTypeOK, Ids
<1>3. Ids \subseteq Ids' /\ Len(msgs) + 1 \in Ids' /\ Len(msgs) + 1 \notin Ids
  BY <1>2 DEF Ids
<1>4. events' \in Seq((MessageEvent \cup ReadEvent)')
  <2>1. MessageEvent \cup ReadEvent \subseteq (MessageEvent \cup ReadEvent)'
    BY <1>3 DEF MessageEvent, ReadEvent
  <2> QED  BY <1>1, <2>1, SeqMonotonic DEF ListInv, ListTypeOK
<1>5. marker' \in [Convs -> {0} \cup Ids'] /\ preview' \in [Convs -> {0} \cup Ids']
  BY <1>1, <1>3 DEF ListInv, ListTypeOK
<1>6. ListTypeOK'
  BY <1>1, <1>2, <1>3, <1>4, <1>5 DEF ListInv, ListTypeOK, Known
<1>7. CreationsKnow' /\ HearsVisited'
  BY <1>1, <1>2, SameCreations, SameVisits DEF ListInv
<1>8. EmittedInOrder'
  BY <1>1, <1>2, <1>3, SameOrder DEF ListInv
<1> QED  BY <1>6, <1>7, <1>8 DEF ListInv

\* Nothing is queued, or e at the end.
LEMMA EmitQueues ==
  ASSUME ListTypeOK, NEW c, NEW e \in MessageEvent \cup ReadEvent, EmitTo(c, e)
  PROVE  /\ events' \in Seq(MessageEvent \cup ReadEvent) /\ Len(events) \in Nat
         /\ \/ events' = events
            \/ /\ c \in rooms /\ Len(events') = Len(events) + 1
               /\ DOMAIN events = 1 .. Len(events) /\ DOMAIN events' = 1 .. Len(events) + 1
               /\ \A p \in 1 .. Len(events) : events'[p] = events[p]
               /\ events'[Len(events) + 1] = e
<1>1. events \in Seq(MessageEvent \cup ReadEvent) /\ Len(events) \in Nat
  BY DEF ListTypeOK
<1>2. CASE c \in rooms
  BY <1>1, <1>2, AppendProperties, LenProperties DEF EmitTo
<1>3. CASE c \notin rooms
  BY <1>1, <1>3 DEF EmitTo
<1> QED  BY <1>2, <1>3

\* What is queued is heard by a page that has visited the conversation.
LEMMA QueueVisits ==
  ASSUME ListTypeOK, HearsVisited, UNCHANGED <<msgs, rooms, joins, page, listed, visited>>,
         NEW c, NEW e \in MessageEvent \cup ReadEvent, EmitTo(c, e),
         e.type = "message" => msgs[e.id] = c
  PROVE  HearsVisited'
<1> DEFINE n == Len(events)
<1>1. CASE events' = events
  BY <1>1, SameVisits
<1>2. CASE events' # events
  <2>1. /\ c \in rooms /\ n \in Nat
        /\ DOMAIN events = 1 .. n /\ DOMAIN events' = 1 .. n + 1
        /\ \A p \in 1 .. n : events'[p] = events[p]
        /\ events'[n + 1] = e
    BY <1>2, EmitQueues
  <2> HIDE DEF n
  <2>2. ASSUME NEW p \in 1 .. n + 1, IsMessage(p)'  PROVE ConvAt(p)' \in visited
    <3>1. CASE p \in 1 .. n
      BY <2>1, <2>2, <3>1 DEF HearsVisited, IsMessage, ConvAt
    <3>2. CASE p = n + 1
      BY <2>1, <2>2, <3>2 DEF HearsVisited, IsMessage, ConvAt
    <3> QED  BY <2>1, <3>1, <3>2
  <2> QED  BY <2>1, <2>2 DEF HearsVisited
<1> QED  BY <1>1, <1>2

\* A message that is queued, and not late, comes last of its conversation.
LEMMA QueueOrders ==
  ASSUME ListTypeOK, EmittedInOrder, UNCHANGED <<msgs, preview, heard>>, posted' \subseteq posted,
         NEW c, NEW e \in MessageEvent \cup ReadEvent, EmitTo(c, e),
         e.type = "message" =>
           /\ e.id \in Ids /\ e.id \notin posted' /\ msgs[e.id] = c
           /\ ~e.late => \A j \in Of(c) \ posted : j <= e.id
  PROVE  EmittedInOrder'
<1>0. msgs' = msgs /\ preview' = preview /\ heard' = heard
  OBVIOUS
<1>1. CASE events' = events
  <2>1. Ids' = Ids /\ posted' \cap Ids \subseteq posted
    BY <1>0 DEF Ids
  <2> QED  BY <1>0, <1>1, <2>1, SameOrder
<1>2. CASE events' # events
  <2>1. PICK n \in Nat :
          /\ DOMAIN events = 1 .. n /\ DOMAIN events' = 1 .. n + 1
          /\ \A p \in 1 .. n : events'[p] = events[p]
          /\ events'[n + 1] = e
    BY <1>2, EmitQueues
  <2>2. /\ \A p \in 1 .. n : /\ IsMessage(p)' = IsMessage(p)
                             /\ IsMessage(p) => ConvAt(p)' = ConvAt(p)
        /\ IsMessage(n + 1)' = (e.type = "message")
        /\ IsMessage(n + 1)' => ConvAt(n + 1)' = c
    BY <2>1 DEF IsMessage, ConvAt
  <2>3. \A p \in 1 .. n + 1 : p \in 1 .. n \/ p = n + 1
    BY <2>1
  <2>4. \A d \in heard' : preview'[d] \in Of(d)' \ posted'
    <3>1. \A d : Of(d)' = Of(d)
      BY <1>0 DEF Of, Ids
    <3>2. \A d \in heard : preview[d] \in Of(d) \ posted
      BY DEF EmittedInOrder
    <3> QED  BY <1>0, <3>1, <3>2
  <2>5. \A p \in 1 .. n + 1 : IsMessage(p)' => events'[p].id \notin posted'
    <3>1. ASSUME NEW p \in 1 .. n, IsMessage(p)'  PROVE events'[p].id \notin posted'
      <4>1. IsMessage(p) /\ events'[p] = events[p]
        BY <2>1, <2>2, <3>1
      <4> QED  BY <2>1, <4>1 DEF EmittedInOrder
    <3>2. IsMessage(n + 1)' => events'[n + 1].id \notin posted'
      BY <2>1, <2>2
    <3> QED  BY <2>3, <3>1, <3>2
  <2>6. ASSUME NEW q \in 1 .. n + 1, IsMessage(q)', ~events'[q].late
        PROVE  /\ ConvAt(q)' \in heard => preview[ConvAt(q)'] <= events'[q].id
               /\ \A p \in 1 .. q - 1 :
                    IsMessage(p)' /\ ConvAt(p)' = ConvAt(q)' => events'[p].id <= events'[q].id
    <3>1. CASE q \in 1 .. n
      <4>1. \A p \in 1 .. q - 1 : p \in 1 .. n
        BY <2>1, <3>1
      <4>2. /\ IsMessage(q) /\ ConvAt(q)' = ConvAt(q) /\ events'[q] = events[q]
            /\ q \in DOMAIN events
        BY <2>1, <2>2, <2>6, <3>1
      <4>3. /\ ConvAt(q) \in heard => preview[ConvAt(q)] <= events[q].id
            /\ \A p \in 1 .. q - 1 :
                 IsMessage(p) /\ ConvAt(p) = ConvAt(q) => events[p].id <= events[q].id
        BY <2>6, <4>2 DEF EmittedInOrder
      <4>4. ASSUME NEW p \in 1 .. q - 1, IsMessage(p)', ConvAt(p)' = ConvAt(q)'
            PROVE  events'[p].id <= events'[q].id
        <5>1. IsMessage(p) /\ ConvAt(p) = ConvAt(q) /\ events'[p] = events[p]
          BY <2>1, <2>2, <4>1, <4>2, <4>4
        <5> QED  BY <4>2, <4>3, <5>1
      <4> QED  BY <4>2, <4>3, <4>4
    <3>2. CASE q = n + 1
      <4>1. /\ ConvAt(q)' = c /\ events'[q] = e
            /\ \A j \in Of(c) \ posted : j <= e.id
        BY <2>1, <2>2, <2>6, <3>2
      <4>2. c \in heard => preview[c] \in Of(c) \ posted
        BY DEF EmittedInOrder
      <4>3. ASSUME NEW p \in 1 .. q - 1, IsMessage(p)', ConvAt(p)' = c
            PROVE  events'[p].id <= e.id
        <5>1. p \in 1 .. n
          BY <2>1, <3>2
        <5>2. IsMessage(p) /\ ConvAt(p) = c /\ events'[p] = events[p]
          BY <2>1, <2>2, <4>3, <5>1
        <5>3. events[p].id \in Of(c) \ posted
          BY <2>1, <5>1, <5>2, EventIds DEF EmittedInOrder, Of, ConvAt
        <5> QED  BY <4>1, <5>2, <5>3
      <4> QED  BY <4>1, <4>2, <4>3
    <3> QED  BY <2>3, <3>1, <3>2
  <2> QED  BY <2>1, <2>4, <2>5, <2>6 DEF EmittedInOrder
<1> QED  BY <1>1, <1>2

LEMMA EmitStep ==
  ASSUME ListInv, NEW id \in Ids, EmitMessage(id)
  PROVE  ListInv'
<1> DEFINE isLate == \E j \in Of(msgs[id]) \ posted : j > id
           e    == [type |-> "message", id |-> id, late |-> isLate]
<1>1. UNCHANGED <<kind, creating, msgs, marker, rooms, joins, page, listed, badge,
                  preview, active, visited, heard>>
      /\ posted' = posted \ {id} /\ EmitTo(msgs[id], e)
  BY DEF EmitMessage, dbVars, sidebarVars
<1>2. isLate \in BOOLEAN /\ (~isLate => \A j \in Of(msgs[id]) \ posted : j <= id)
  BY ListIds DEF ListInv
<1> HIDE DEF isLate
<1>3. e \in MessageEvent /\ e.id = id /\ e.late = isLate
  BY <1>2 DEF MessageEvent
<1> HIDE DEF e
<1>4. ListTypeOK'
  <2>1. events' \in Seq(MessageEvent \cup ReadEvent)
    BY <1>1, <1>3, EmitQueues DEF ListInv
  <2> QED  BY <1>1, <2>1 DEF ListInv, ListTypeOK, Ids, Known, MessageEvent, ReadEvent
<1>5. CreationsKnow' /\ HearsVisited'
  BY <1>1, <1>3, SameCreations, QueueVisits DEF ListInv
<1>6. EmittedInOrder'
  BY <1>1, <1>2, <1>3, QueueOrders DEF ListInv
<1> QED  BY <1>4, <1>5, <1>6 DEF ListInv

\* A member marks a message as read.
LEMMA ReadStep ==
  ASSUME ListInv, NEW u \in Users, NEW id \in Ids, MarkRead(u, id)
  PROVE  ListInv'
<1> DEFINE e == [type |-> "read", conv |-> msgs[id]]
<1>1. UNCHANGED <<kind, creating, msgs, posted, rooms, joins, page, listed, badge,
                  preview, active, visited, heard>>
      /\ EmitTo(msgs[id], e)
      /\ marker' = IF u = Me THEN [marker EXCEPT ![msgs[id]] = id] ELSE marker
  BY DEF MarkRead, sidebarVars
<1>2. e \in ReadEvent /\ e.type # "message"
  BY ListIds DEF ListInv, ReadEvent
<1> HIDE DEF e
<1>3. ListTypeOK'
  <2>1. events' \in Seq(MessageEvent \cup ReadEvent)
    BY <1>1, <1>2, EmitQueues DEF ListInv
  <2>2. marker' \in [Convs -> {0} \cup Ids]
    BY <1>1 DEF ListInv, ListTypeOK
  <2> QED  BY <1>1, <2>1, <2>2 DEF ListInv, ListTypeOK, Ids, Known, MessageEvent, ReadEvent
<1>4. CreationsKnow' /\ HearsVisited' /\ EmittedInOrder'
  BY <1>1, <1>2, SameCreations, QueueVisits, QueueOrders DEF ListInv
<1> QED  BY <1>3, <1>4 DEF ListInv

LEMMA JoinStep ==
  ASSUME ListInv, NEW c \in Convs, JoinRoom(c)
  PROVE  ListInv'
<1>1. UNCHANGED <<kind, creating, msgs, marker, posted, events, page, listed, badge,
                  preview, active, visited, heard>>
      /\ c \in joins /\ joins' = joins \ {c} /\ rooms' = rooms \cup {c}
  BY DEF JoinRoom, Joined, dbVars, sidebarVars
<1>2. ListTypeOK'
  BY <1>1 DEF ListInv, ListTypeOK, Ids, Known, MessageEvent
<1>3. HearsVisited'
  BY <1>1 DEF ListInv, HearsVisited, IsMessage, ConvAt
<1>4. CreationsKnow' /\ EmittedInOrder'
  BY <1>1, SameCreations, SameOrder DEF ListInv, Ids
<1> QED  BY <1>2, <1>3, <1>4 DEF ListInv

\* The page comes up with the list.
LEMMA OpenStep ==
  ASSUME ListInv, OpenPage
  PROVE  ListInv'
<1>1. UNCHANGED <<kind, creating, msgs, marker, posted, rooms, joins, events, active,
                  visited, heard>>
      /\ ~page /\ page' = TRUE /\ listed' = Known /\ badge' \subseteq Known
      /\ preview' = [c \in Convs |-> IF Of(c) = {} THEN 0 ELSE Max(Of(c))]
  BY DEF OpenPage, dbVars, wireVars
<1>2. listed = {} /\ heard = {} /\ heard' = {} /\ visited = {} /\ active = None
  BY <1>1 DEF ListInv, ListTypeOK, HearsVisited
<1>3. preview' \in [Convs -> {0} \cup Ids]
  <2>1. ASSUME NEW c \in Convs, Of(c) # {}  PROVE Max(Of(c)) \in Ids
    BY <2>1, ListIds, GreatestId DEF ListInv, Ids
  <2> QED  BY <1>1, <2>1
<1>4. ListTypeOK'
  BY <1>1, <1>2, <1>3 DEF ListInv, ListTypeOK, Ids, Known, MessageEvent
<1>5. HearsVisited'
  BY <1>1 DEF ListInv, HearsVisited, IsMessage, ConvAt
<1>6. EmittedInOrder'
  BY <1>1, <1>2 DEF ListInv, EmittedInOrder, IsMessage, ConvAt
<1>7. CreationsKnow'
  BY <1>1, SameCreations DEF ListInv
<1> QED  BY <1>4, <1>5, <1>6, <1>7 DEF ListInv

LEMMA CloseStep ==
  ASSUME ListInv, ClosePage
  PROVE  ListInv'
<1>1. UNCHANGED <<kind, creating, msgs, marker, posted>>
      /\ page' = FALSE /\ rooms' = {} /\ joins' = {} /\ events' = <<>>
      /\ listed' = {} /\ badge' = {} /\ preview' = [c \in Convs |-> 0]
      /\ active' = None /\ visited' = {} /\ heard' = {}
  BY DEF ClosePage, dbVars
<1>2. ListTypeOK'
  <2>1. events' \in Seq((MessageEvent \cup ReadEvent)')
    BY <1>1
  <2>2. preview' \in [Convs -> {0} \cup Ids']
    BY <1>1
  <2> QED  BY <1>1, <2>1, <2>2 DEF ListInv, ListTypeOK, Ids, Known
<1>3. HearsVisited' /\ EmittedInOrder'
  BY <1>1 DEF HearsVisited, EmittedInOrder, IsMessage
<1>4. CreationsKnow'
  BY <1>1, SameCreations DEF ListInv
<1> QED  BY <1>2, <1>3, <1>4 DEF ListInv

LEMMA VisitStep ==
  ASSUME ListInv, NEW c \in Convs, OpenConversation(c)
  PROVE  ListInv'
<1>1. UNCHANGED <<kind, creating, msgs, marker, posted, events, page, listed, preview, heard>>
      /\ c \in listed /\ active' = c /\ visited' = visited \cup {c}
      /\ rooms' = rooms \ {active} /\ joins' = joins \cup {c} /\ badge' = badge \ {c}
  BY DEF OpenConversation, dbVars
<1>2. ListTypeOK'
  BY <1>1 DEF ListInv, ListTypeOK, Ids, Known, MessageEvent
<1>3. HearsVisited'
  BY <1>1 DEF ListInv, HearsVisited, IsMessage, ConvAt
<1>4. CreationsKnow' /\ EmittedInOrder'
  BY <1>1, SameCreations, SameOrder DEF ListInv, Ids
<1> QED  BY <1>2, <1>3, <1>4 DEF ListInv

\* The page has received the first of the queue.
LEMMA QueueShifts ==
  ASSUME ListTypeOK, events # <<>>, events' = Tail(events), msgs' = msgs
  PROVE  /\ events' \in Seq(MessageEvent \cup ReadEvent) /\ Head(events) = events[1]
         /\ \E n \in Nat :
              /\ DOMAIN events = 1 .. n + 1 /\ DOMAIN events' = 1 .. n
              /\ \A p \in 1 .. n : /\ events'[p] = events[p + 1]
                                   /\ IsMessage(p)' = IsMessage(p + 1)
                                   /\ ConvAt(p)' = ConvAt(p + 1)
<1>1. /\ events' \in Seq(MessageEvent \cup ReadEvent) /\ Head(events) = events[1]
      /\ Len(events) \in Nat \ {0} /\ DOMAIN events = 1 .. Len(events)
      /\ Len(events') = Len(events) - 1 /\ DOMAIN events' = 1 .. Len(events')
      /\ \A p \in 1 .. Len(events') : events'[p] = events[p + 1]
  <2> DEFINE E == MessageEvent \cup ReadEvent
  <2>1. events \in Seq(E)
    BY DEF ListTypeOK
  <2> HIDE DEF E
  <2>2. Len(events) \in Nat /\ DOMAIN events = 1 .. Len(events) /\ Head(events) = events[1]
    BY <2>1
  <2>3. Len(events) # 0
    BY <2>1, EmptySeq
  <2>4. /\ events' \in Seq(E) /\ Len(events') = Len(events) - 1
        /\ \A p \in 1 .. Len(events') : events'[p] = events[p + 1]
    BY <2>1, HeadTailProperties
  <2>5. DOMAIN events' = 1 .. Len(events')
    BY <2>4
  <2> QED  BY <2>2, <2>3, <2>4, <2>5 DEF E
<1>2. PICK n \in Nat : n = Len(events')
  <2>1. Len(events') \in Nat
    BY <1>1
  <2> QED  BY <2>1, Zenon
<1>3. DOMAIN events = 1 .. n + 1 /\ DOMAIN events' = 1 .. n
      /\ \A p \in 1 .. n : p + 1 \in 1 .. n + 1 /\ events'[p] = events[p + 1]
  BY <1>1, <1>2
<1>4. ASSUME NEW p \in 1 .. n
      PROVE  IsMessage(p)' = IsMessage(p + 1) /\ ConvAt(p)' = ConvAt(p + 1)
  BY <1>3 DEF IsMessage, ConvAt
<1> QED  BY <1>1, <1>3, <1>4

LEMMA ShiftVisits ==
  ASSUME ListTypeOK, HearsVisited, events # <<>>, events' = Tail(events),
         UNCHANGED <<msgs, rooms, joins, page, listed, visited>>
  PROVE  HearsVisited'
<1>1. PICK n \in Nat :
        /\ DOMAIN events = 1 .. n + 1 /\ DOMAIN events' = 1 .. n
        /\ \A p \in 1 .. n : IsMessage(p)' = IsMessage(p + 1) /\ ConvAt(p)' = ConvAt(p + 1)
  BY QueueShifts
<1>2. ASSUME NEW p \in 1 .. n, IsMessage(p)'  PROVE ConvAt(p)' \in visited
  <2>1. p + 1 \in DOMAIN events
    BY <1>1
  <2> QED  BY <1>1, <1>2, <2>1 DEF HearsVisited
<1> QED  BY <1>1, <1>2 DEF HearsVisited

\* What the page then shows is what it showed, or the message received.
LEMMA ShiftOrders ==
  ASSUME ListTypeOK, EmittedInOrder, events # <<>>, events' = Tail(events),
         msgs' = msgs, posted' = posted,
         \/ heard' = heard /\ preview' = preview
         \/ /\ IsMessage(1) /\ heard' = heard \cup {ConvAt(1)}
            /\ preview' = [preview EXCEPT ![ConvAt(1)] = events[1].id]
  PROVE  EmittedInOrder'
<1>1. PICK n \in Nat :
        /\ DOMAIN events = 1 .. n + 1 /\ DOMAIN events' = 1 .. n
        /\ \A p \in 1 .. n : /\ events'[p] = events[p + 1]
                             /\ IsMessage(p)' = IsMessage(p + 1)
                             /\ ConvAt(p)' = ConvAt(p + 1)
  BY QueueShifts
<1>2. \A p \in 1 .. n : p + 1 \in DOMAIN events
  BY <1>1
<1>3. DOMAIN preview = Convs /\ \A c : Of(c)' = Of(c)
  BY DEF ListTypeOK, Of, Ids
<1>4. IsMessage(1) => /\ ConvAt(1) \in Convs /\ 1 \in DOMAIN events
                      /\ events[1].id \in Of(ConvAt(1)) \ posted
  BY EventIds DEF EmittedInOrder, Of, IsMessage, ConvAt
<1>5. ASSUME NEW c \in heard'  PROVE preview'[c] \in Of(c)' \ posted'
  <2>1. \A d \in heard : preview[d] \in Of(d) \ posted
    BY DEF EmittedInOrder
  <2>2. CASE heard' = heard /\ preview' = preview
    BY <1>3, <1>5, <2>1, <2>2
  <2>3. CASE /\ IsMessage(1) /\ heard' = heard \cup {ConvAt(1)}
             /\ preview' = [preview EXCEPT ![ConvAt(1)] = events[1].id]
    BY <1>3, <1>4, <1>5, <2>1, <2>3
  <2> QED  BY <2>2, <2>3
<1>6. ASSUME NEW p \in 1 .. n, IsMessage(p)'  PROVE events'[p].id \notin posted'
  BY <1>1, <1>2, <1>6 DEF EmittedInOrder
<1>7. ASSUME NEW q \in 1 .. n, IsMessage(q)', ~events'[q].late
      PROVE  /\ ConvAt(q)' \in heard' => preview'[ConvAt(q)'] <= events'[q].id
             /\ \A p \in 1 .. q - 1 :
                  IsMessage(p)' /\ ConvAt(p)' = ConvAt(q)' => events'[p].id <= events'[q].id
  <2>1. /\ IsMessage(q + 1) /\ ~events[q + 1].late /\ events'[q] = events[q + 1]
        /\ ConvAt(q)' = ConvAt(q + 1) /\ q + 1 \in DOMAIN events
    BY <1>1, <1>2, <1>7
  <2>2. /\ ConvAt(q + 1) \in heard => preview[ConvAt(q + 1)] <= events[q + 1].id
        /\ \A p \in 1 .. q + 1 - 1 :
             IsMessage(p) /\ ConvAt(p) = ConvAt(q + 1) => events[p].id <= events[q + 1].id
    BY <2>1 DEF EmittedInOrder
  <2>3. ASSUME NEW p \in 1 .. q - 1, IsMessage(p)', ConvAt(p)' = ConvAt(q)'
        PROVE  events'[p].id <= events'[q].id
    <3>1. p \in 1 .. n /\ p + 1 \in 1 .. q + 1 - 1
      BY <1>7
    <3>2. IsMessage(p + 1) /\ ConvAt(p + 1) = ConvAt(q + 1) /\ events'[p] = events[p + 1]
      BY <1>1, <2>1, <2>3, <3>1
    <3> QED  BY <2>1, <2>2, <3>1, <3>2
  <2>4. ASSUME ConvAt(q + 1) \in heard'
        PROVE  preview'[ConvAt(q + 1)] <= events[q + 1].id
    <3>1. CASE heard' = heard /\ preview' = preview
      BY <2>2, <2>4, <3>1
    <3>2. CASE /\ IsMessage(1) /\ heard' = heard \cup {ConvAt(1)}
               /\ preview' = [preview EXCEPT ![ConvAt(1)] = events[1].id]
      <4>1. CASE ConvAt(q + 1) = ConvAt(1)
        <5>1. 1 \in 1 .. q + 1 - 1
          BY <1>7
        <5> QED  BY <1>3, <1>4, <2>2, <3>2, <4>1, <5>1
      <4>2. CASE ConvAt(q + 1) # ConvAt(1)
        BY <1>3, <2>2, <2>4, <3>2, <4>2
      <4> QED  BY <4>1, <4>2
    <3> QED  BY <3>1, <3>2
  <2> QED  BY <2>1, <2>3, <2>4
<1> QED  BY <1>1, <1>5, <1>6, <1>7 DEF EmittedInOrder

LEMMA ReceiveReadStep ==
  ASSUME ListInv, ReceiveRead
  PROVE  ListInv'
<1>1. UNCHANGED <<kind, creating, msgs, marker, posted, rooms, joins, page, listed,
                  preview, active, visited, heard>>
      /\ events # <<>> /\ events' = Tail(events) /\ badge' \subseteq badge
  BY DEF ReceiveRead, dbVars
<1>2. ListTypeOK'
  <2>1. events' \in Seq(MessageEvent \cup ReadEvent)
    BY <1>1, QueueShifts DEF ListInv
  <2> QED  BY <1>1, <2>1 DEF ListInv, ListTypeOK, Ids, Known, MessageEvent, ReadEvent
<1>3. EmittedInOrder'
  BY <1>1, ShiftOrders DEF ListInv
<1>4. CreationsKnow' /\ HearsVisited'
  BY <1>1, SameCreations, ShiftVisits DEF ListInv
<1> QED  BY <1>2, <1>3, <1>4 DEF ListInv

LEMMA ReceiveMessageStep ==
  ASSUME ListInv, ReceiveMessage
  PROVE  ListInv'
<1>1. UNCHANGED <<kind, creating, msgs, marker, posted, rooms, joins, page, listed,
                  active, visited>>
      /\ events # <<>> /\ events' = Tail(events) /\ Head(events).type = "message"
  BY DEF ReceiveMessage, dbVars
<1>2. /\ IsMessage(1) /\ 1 \in DOMAIN events /\ Head(events) = events[1]
      /\ events[1].id \in Ids /\ ConvAt(1) \in Convs /\ ConvAt(1) \in visited
  <2>1. IsMessage(1) /\ Head(events) = events[1]
    BY <1>1, QueueShifts, EmptySeq DEF ListInv, IsMessage
  <2> QED  BY <2>1, EventIds DEF ListInv, IsMessage, HearsVisited
<1>3. ConvAt(1) \in listed
  BY <1>2 DEF ListInv, ListTypeOK
<1>4. /\ badge' \subseteq badge \cup {ConvAt(1)} /\ heard' = heard \cup {ConvAt(1)}
      /\ preview' = [preview EXCEPT ![ConvAt(1)] = events[1].id]
  BY <1>2, <1>3 DEF ReceiveMessage, ConvAt
<1>5. ListTypeOK'
  <2>1. events' \in Seq(MessageEvent \cup ReadEvent)
    BY <1>1, QueueShifts DEF ListInv
  <2>2. preview' \in [Convs -> {0} \cup Ids]
    BY <1>2, <1>4 DEF ListInv, ListTypeOK
  <2> QED  BY <1>1, <1>3, <1>4, <2>1, <2>2
             DEF ListInv, ListTypeOK, Ids, Known, MessageEvent, ReadEvent
<1>6. EmittedInOrder'
  BY <1>1, <1>2, <1>4, ShiftOrders DEF ListInv
<1>7. CreationsKnow' /\ HearsVisited'
  BY <1>1, SameCreations, ShiftVisits DEF ListInv
<1> QED  BY <1>5, <1>6, <1>7 DEF ListInv

LEMMA QueueFront ==
  ASSUME ListTypeOK, events # <<>>
  PROVE  Head(events) = events[1] /\ 1 \in DOMAIN events
<1>1. events \in Seq(MessageEvent \cup ReadEvent)
  BY DEF ListTypeOK
<1>2. Head(events) = events[1] /\ Len(events) \in Nat /\ DOMAIN events = 1 .. Len(events)
  BY <1>1
<1>3. Len(events) # 0
  BY <1>1, EmptySeq
<1> QED  BY <1>2, <1>3

LEMMA ListStep == ListInv /\ [ListNext]_listVars => ListInv'
<1> SUFFICES ASSUME ListInv, [ListNext]_listVars  PROVE ListInv'
  OBVIOUS
<1>1. ASSUME NEW u \in Users, NEW k \in {"pair", "group"}, CreateLookup(u, k)  PROVE ListInv'
  BY <1>1, LookupStep
<1>2. ASSUME NEW u \in Users, NEW c \in Convs, CreateInsert(u, c)  PROVE ListInv'
  BY <1>2, InsertStep
<1>3. ASSUME NEW c \in Convs, SendMessage(c) \/ JoinRoom(c) \/ OpenConversation(c)
      PROVE  ListInv'
  BY <1>3, StoreStep, JoinStep, VisitStep
<1>4. ASSUME NEW id \in Ids, EmitMessage(id)  PROVE ListInv'
  BY <1>4, EmitStep
<1>5. ASSUME NEW u \in Users, NEW id \in Ids, MarkRead(u, id)  PROVE ListInv'
  BY <1>5, ReadStep
<1>6. CASE OpenPage \/ ClosePage
  BY <1>6, OpenStep, CloseStep
<1>7. CASE ReceiveMessage \/ ReceiveRead
  BY <1>7, ReceiveMessageStep, ReceiveReadStep
<1>8. CASE UNCHANGED listVars
  <2>1. UNCHANGED <<kind, creating, msgs, marker, posted, rooms, joins, events, page, listed,
                    badge, preview, active, visited, heard>>
    BY <1>8 DEF listVars, dbVars, wireVars, sidebarVars
  <2>2. ListTypeOK'
    BY <2>1 DEF ListInv, ListTypeOK, Ids, Known, MessageEvent
  <2>3. CreationsKnow' /\ HearsVisited' /\ EmittedInOrder'
    BY <2>1, SameCreations, SameVisits, SameOrder DEF ListInv, Ids
  <2> QED  BY <2>2, <2>3 DEF ListInv
<1> QED  BY <1>1, <1>2, <1>3, <1>4, <1>5, <1>6, <1>7, <1>8 DEF ListNext

\* The list of conversations keeps its invariant: the page hears only of what
\* it has visited, and of each conversation in the order of its messages but
\* for those the gateway has emitted late (ChatShellPageComponent).
THEOREM ListInvariant == ListSpec => []ListInv
<1> QED  BY ListStart, ListStep, PTL DEF ListSpec

\* A second conversation of the same two users takes two creations of which
\* one has looked for a pair before the other was inserted
\* (createConversation, findExistingOneToOne).
THEOREM SecondPairs == ListSpec => SecondPairOnlyByOverlap
<1> DEFINE Body == Pairs # {} /\ ~(Pairs' \subseteq Pairs) =>
                     \E u \in Users : creating[u].missed /\ creating'[u] = NotCreating
<1>1. ListInv /\ [ListNext]_listVars => Body
  <2> SUFFICES ASSUME ListInv, [ListNext]_listVars, Pairs # {}, ~(Pairs' \subseteq Pairs)
               PROVE  \E u \in Users : creating[u].missed /\ creating'[u] = NotCreating
    OBVIOUS
  <2>1. kind' # kind
    BY DEF Pairs
  <2>2. PICK u \in Users, c \in Convs : CreateInsert(u, c)
    BY <2>1 DEF ListNext, listVars, dbVars, wireVars, sidebarVars, CreateLookup, SendMessage,
                EmitMessage, MarkRead, JoinRoom, OpenPage, ClosePage, OpenConversation,
                ReceiveMessage, ReceiveRead
  <2>3. creating[u].kind = "pair"
    BY <2>2 DEF CreateInsert, Pairs, ListInv, ListTypeOK
  <2>4. creating[u].missed
    BY <2>3 DEF ListInv, CreationsKnow
  <2>5. creating'[u] = NotCreating
    BY <2>2 DEF CreateInsert
  <2> QED  BY <2>4, <2>5
<1> QED  BY <1>1, ListInvariant, PTL DEF ListSpec, SecondPairOnlyByOverlap

\* Only a conversation selected since the page is open gets a badge after the
\* list was loaded (ChatShellPageComponent).
THEOREM BadgesOfVisited == ListSpec => BadgeRisesOnlyIfVisited
<1> DEFINE Body == page => badge' \ badge \subseteq visited
<1>1. ListInv /\ [ListNext]_listVars => Body
  <2> SUFFICES ASSUME ListInv, [ListNext]_listVars, page  PROVE badge' \ badge \subseteq visited
    OBVIOUS
  <2>1. CASE ReceiveMessage
    <3>1. IsMessage(1) /\ Head(events) = events[1]
      BY <2>1, QueueFront DEF ListInv, ReceiveMessage, IsMessage
    <3>2. ConvAt(1) \in visited
      BY <3>1 DEF ListInv, HearsVisited, IsMessage
    <3>3. badge' \subseteq badge \cup {ConvAt(1)}
      BY <2>1, <3>1 DEF ReceiveMessage, ConvAt
    <3> QED  BY <3>2, <3>3
  <2>2. CASE ~ReceiveMessage
    BY <2>2 DEF ListNext, listVars, dbVars, wireVars, sidebarVars, CreateLookup, CreateInsert,
                SendMessage, EmitMessage, MarkRead, JoinRoom, OpenPage, ClosePage,
                OpenConversation, ReceiveRead
  <2> QED  BY <2>1, <2>2
<1> QED  BY <1>1, ListInvariant, PTL DEF ListSpec, BadgeRisesOnlyIfVisited

\* The preview of a conversation goes back to an older message only with one
\* that the gateway has emitted after a newer one (handleSendMessage).
THEOREM PreviewsGoBack == ListSpec => PreviewGoesBackOnlyIfLate
<1> DEFINE Body == \A c \in heard \cap heard' : preview'[c] < preview[c] =>
                     events # <<>> /\ Head(events).type = "message" /\ Head(events).late
<1>1. ListInv /\ [ListNext]_listVars => Body
  <2> SUFFICES ASSUME ListInv, [ListNext]_listVars, NEW c \in heard \cap heard',
                      preview'[c] < preview[c]
               PROVE  events # <<>> /\ Head(events).type = "message" /\ Head(events).late
    OBVIOUS
  <2>1. preview[c] \in Nat /\ c \in Convs /\ c \in listed /\ page
    BY ListIds DEF ListInv, ListTypeOK, EmittedInOrder, HearsVisited, Of, Known
  <2>2. preview' # preview
    BY <2>1
  <2>3. ReceiveMessage
    BY <2>1, <2>2 DEF ListNext, listVars, dbVars, wireVars, sidebarVars, CreateLookup,
                CreateInsert, SendMessage, EmitMessage, MarkRead, JoinRoom, OpenPage, ClosePage,
                OpenConversation, ReceiveRead
  <2>4. IsMessage(1) /\ Head(events) = events[1] /\ 1 \in DOMAIN events
    BY <2>3, QueueFront DEF ListInv, ReceiveMessage, IsMessage
  <2>5. ConvAt(1) = c /\ preview'[c] = events[1].id
    BY <2>1, <2>2, <2>3, <2>4 DEF ReceiveMessage, ConvAt, ListInv, ListTypeOK
  <2>6. events[1].late
    <3>1. events[1].id \in Nat
      BY <2>4, EventIds, ListIds DEF ListInv
    <3>2. ~events[1].late => preview[c] <= events[1].id
      BY <2>4, <2>5 DEF ListInv, EmittedInOrder
    <3> QED  BY <2>1, <2>5, <3>1, <3>2
  <2> QED  BY <2>3, <2>4, <2>6 DEF ReceiveMessage
<1> QED  BY <1>1, ListInvariant, PTL DEF ListSpec, PreviewGoesBackOnlyIfLate
=============================================================================
