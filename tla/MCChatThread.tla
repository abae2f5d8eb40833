---------------------------- MODULE MCChatThread ----------------------------
(***************************************************************************)
(* ChatThread on two conversations.  The first message was there before    *)
(* the page was opened, and only the last one may be of the second         *)
(* conversation: the user turns to it and back.                            *)
(***************************************************************************)
EXTENDS ChatThread

CONSTANTS c1, c2

MCInit ==
  /\ msgs = <<c1>> /\ marker = [c \in Convs |-> 0]
  /\ rooms = {} /\ joins = {}
  /\ posted = {} /\ marks = {} /\ connected = TRUE /\ events = <<>>
  /\ active = None /\ thread = <<>> /\ gets = {} /\ whole = TRUE
  /\ behind = {}

MCSpec == MCInit /\ [][Next /\ (c2 \in ToSet(msgs') => Len(msgs') = MaxMessages)]_vars
=============================================================================
