------------------------------- MODULE Typing -------------------------------
(***************************************************************************)
(* "X is typing": the composers of the other members, the typing handlers  *)
(* of ChatGateway, and the label that ChatShellPageComponent shows one     *)
(* user.  A handler has no await once its socket is authenticated, so what *)
(* a composer emits is relayed in the same step and in order.              *)
(***************************************************************************)
EXTENDS ChatSocket

CONSTANTS
  Members,       \* the other members of the conversations
  MaxStarts      \* bound: typing-start events ever emitted

VARIABLES
  composing,     \* activeConvId() of each member's page
  isTyping,      \* isTyping of each composer; its typingTimer runs meanwhile
  told,          \* history: conversations a member's last event said "typing" to
  starts,        \* typing-start events emitted so far
  label,         \* typingLabel(): whose name it shows
  timer          \* typingTimeouts: the running ones, with their conversation

memberVars == <<composing, isTyping, told, starts>>
pageVars   == <<active, label, timer>>
vars       == <<memberVars, joins, rooms, events, pageVars>>

ASSUME TypingConstants == None \notin Convs /\ None \notin Members

Event == [member: Members, conv: Convs, isTyping: BOOLEAN]

Init ==
  /\ composing = [m \in Members |-> None] /\ isTyping = [m \in Members |-> FALSE]
  /\ told = [m \in Members |-> {}] /\ starts = 0
  /\ joins = {} /\ rooms = {} /\ events = <<>>
  /\ active = None /\ label = None /\ timer = [m \in Members |-> None]

-----------------------------------------------------------------------------
\* client.to(room).emit, as far as the user's socket is concerned.
Relay(m, conv, typing) ==
  /\ Len(events) < MaxEvents
  /\ EmitTo(conv, [member |-> m, conv |-> conv, isTyping |-> typing])
  /\ told' = [told EXCEPT ![m] = IF typing THEN @ \cup {conv} ELSE @ \ {conv}]

\* onBodyChange: only the first keystroke is told to the others.
TypingStart(m) ==
  /\ composing[m] # None /\ ~isTyping[m] /\ starts < MaxStarts
  /\ isTyping' = [isTyping EXCEPT ![m] = TRUE]
  /\ starts' = starts + 1
  /\ Relay(m, composing[m], TRUE)
  /\ UNCHANGED <<composing, joins, rooms, pageVars>>

\* Mutant of TypingStop: a sent message does not end the indicator.
TypingStopUntold(m) ==
  /\ isTyping[m]
  /\ isTyping' = [isTyping EXCEPT ![m] = FALSE]
  /\ UNCHANGED <<composing, told, starts, joins, rooms, events, pageVars>>

\* Two seconds without a keystroke, or onSend: told to whichever conversation
\* is open by now.
TypingStop(m) ==
  /\ isTyping[m]
  /\ isTyping' = [isTyping EXCEPT ![m] = FALSE]
  /\ Relay(m, composing[m], FALSE)
  /\ UNCHANGED <<composing, starts, joins, rooms, pageVars>>

\* The member's page opens a conversation, and the composer lives on; or
\* closes it, and ngOnDestroy of the composer clears its timer without a word.
Switch(m, conv) ==
  /\ conv # composing[m]
  /\ composing' = [composing EXCEPT ![m] = conv]
  /\ isTyping' = [isTyping EXCEPT ![m] = @ /\ conv # None]
  /\ UNCHANGED <<told, starts, joins, rooms, events, pageVars>>

-----------------------------------------------------------------------------
\* Mutant of SelectConversation: the label of the last thread stays.
SelectWithLabel(conv) ==
  /\ active' = conv
  /\ rooms' = rooms \ {active} /\ joins' = joins \cup {conv}
  /\ UNCHANGED <<memberVars, events, label, timer>>

\* selectConversation leaves, joins and drops the label, not the timers.
SelectConversation(conv) ==
  /\ active' = conv /\ label' = None
  /\ rooms' = rooms \ {active} /\ joins' = joins \cup {conv}
  /\ UNCHANGED <<memberVars, events, timer>>

ClearConversation ==
  /\ active # None /\ active' = None
  /\ rooms' = rooms \ {active}
  /\ UNCHANGED <<memberVars, joins, events, label, timer>>

\* handleJoinConversation, after its membership query.
JoinDone(conv) ==
  /\ conv \in joins
  /\ joins' = joins \ {conv} /\ rooms' = rooms \cup {conv}
  /\ UNCHANGED <<memberVars, events, pageVars>>

\* The typing$ subscription: one label for all members, a timer for each.
ReceiveTyping ==
  /\ events # <<>> /\ events' = Tail(events)
  /\ LET e == Head(events)
     IN  IF e.conv # active THEN UNCHANGED <<label, timer>>
         ELSE /\ label' = IF e.isTyping THEN e.member ELSE None
              /\ timer' = [timer EXCEPT ![e.member] = IF e.isTyping THEN e.conv ELSE None]
  /\ UNCHANGED <<memberVars, joins, rooms, active>>

\* Mutant of TimeoutFires: forgets the timer, keeps the label.
TimeoutForgotten(m) ==
  /\ timer[m] # None
  /\ timer' = [timer EXCEPT ![m] = None]
  /\ UNCHANGED <<memberVars, joins, rooms, events, active, label>>

\* Four seconds after the start of a member: the label goes, whoever it names.
TimeoutFires(m) ==
  /\ timer[m] # None
  /\ timer' = [timer EXCEPT ![m] = None] /\ label' = None
  /\ UNCHANGED <<memberVars, joins, rooms, events, active>>

\* The connection drops and comes back: what was under way is lost, and the
\* new socket is in no room.
Reconnect ==
  /\ events' = <<>> /\ joins' = {} /\ rooms' = {}
  /\ UNCHANGED <<memberVars, pageVars>>

Next ==
  \/ \E m \in Members :
       \/ TypingStart(m)
       \/ TypingStop(m)
       \/ \E conv \in Convs \cup {None} : Switch(m, conv)
       \/ TimeoutFires(m)
  \/ \E conv \in Convs : SelectConversation(conv)
  \/ \E conv \in Convs : JoinDone(conv)
  \/ ClearConversation
  \/ ReceiveTyping
  \/ Reconnect

\* Only the browser's timers are fair: members may type for ever, and events
\* may never arrive.
Spec == Init /\ [][Next]_vars /\ \A m \in Members : WF_vars(TimeoutFires(m))

-----------------------------------------------------------------------------
TypeOK ==
  /\ composing \in [Members -> Convs \cup {None}] /\ isTyping \in [Members -> BOOLEAN]
  /\ told \in [Members -> SUBSET Convs] /\ starts \in Nat
  /\ joins \subseteq Convs /\ rooms \subseteq Convs /\ events \in Seq(Event)
  /\ active \in Convs \cup {None} /\ label \in Members \cup {None}
  /\ timer \in [Members -> Convs \cup {None}]

\* Whom the label names has a timer running that will take it away, and typed
\* in the thread it is shown in: no event, timer or selection that comes late,
\* or for another member, leaves a name behind.
LabelIsTimed ==
  label # None => timer[label] # None /\ active \in {None, timer[label]}

TypingInv == TypeOK /\ LabelIsTimed

\* "Auto-clear after 4 s in case stop event is missed": a name does not stay,
\* whatever is lost and however long its owner goes on typing.
LabelGoesAway == \A m \in Members : (label = m) ~> (label # m)

\* Conversations that were told of typing that is over, or is elsewhere.
Misled(m) == {c \in told[m] : ~(isTyping[m] /\ composing[m] = c)}

\* The others are left waiting for a stop only because the member went to
\* another conversation, or to none, in the middle of typing.
MisledOnlyBySwitching ==
  [][\A m \in Members :
       Misled(m)' \subseteq Misled(m) \/ composing'[m] # composing[m]]_vars

=============================================================================
