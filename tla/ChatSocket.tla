----------------------------- MODULE ChatSocket -----------------------------
(***************************************************************************)
(* The socket of one user's chat page, as ChatThread, ChatList and Typing  *)
(* see it: the rooms the gateway has put it in, the joins that are still   *)
(* waiting for their membership query, what has been emitted to it and not *)
(* been received, and the conversation the page has open.                  *)
(***************************************************************************)
EXTENDS Integers, Sequences

CONSTANTS
  None,
  Convs,         \* the conversations
  MaxEvents      \* bound: events under way to the page

VARIABLES
  rooms,         \* the rooms the user's socket is in
  joins,         \* conversations with a join handler awaiting the membership
  events,        \* emitted to the socket and not yet received
  active         \* activeConvId()

\* Mutant of EmitTo: emits nothing.
EmitToNobody(c, event) == events' = events

\* server.to(room).emit, as far as the user's socket is concerned.
EmitTo(c, event) == events' = IF c \in rooms THEN Append(events, event) ELSE events
=============================================================================
