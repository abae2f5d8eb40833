---------------------------- MODULE StorageSpaces ---------------------------
(***************************************************************************)
(* StorageSpacesService and SpaceRoleGuard on one space, under the same    *)
(* conventions as Albums: save() inserts the row it does not find, and a   *)
(* row that refers to a space that is gone is refused by its foreign key.  *)
(***************************************************************************)
EXTENDS LibraryState

spaceOnly == <<media, albumVars, pageVars, playerVars>>

Roles == {"editor", "viewer"}

CreateSpace ==
  /\ ~space /\ "space" \notin gone
  /\ space' = TRUE
  /\ UNCHANGED <<spaceOnly, role, assigned, gone, req>>

\* update: the row is read and saved as a whole.
ReadForRename(r) ==
  /\ space /\ Begin(r, NewRequest("name"))
  /\ UNCHANGED <<spaceOnly, spaceVars, gone>>

SaveSpace(r) ==
  /\ At(r, "name")
  /\ space' = TRUE /\ End(r)
  /\ UNCHANGED <<spaceOnly, role, assigned, gone>>

\* addMember by the owner, of a user who is not one.
ReadForMember(r, u, as) ==
  /\ space /\ u # owner /\ role[u] = "none"
  /\ Begin(r, [NewRequest("member") EXCEPT !.who = u, !.as = as])
  /\ UNCHANGED <<spaceOnly, spaceVars, gone>>

FindMember(u) == u # owner /\ role[u] # "none"

\* updateMemberRole: the member is read ...
ReadForRole(r, u, as) ==
  /\ space /\ FindMember(u)
  /\ Begin(r, [NewRequest("role") EXCEPT !.who = u, !.as = as])
  /\ UNCHANGED <<spaceOnly, spaceVars, gone>>

\* Requests that have read the role of a user.
HoldRole == {"role", "find", "assign"}

\* ... and both are saved.
SaveMember(r) ==
  /\ req[r].pc \in {"member", "role"}
  /\ role' = IF space THEN [role EXCEPT ![req[r].who] = req[r].as] ELSE role
  /\ gone' = IF space /\ At(r, "member") THEN gone \ {req[r].who} ELSE gone
  /\ req' = [Overtaking(r, HoldRole) EXCEPT ![r] = NoRequest]
  /\ UNCHANGED <<spaceOnly, space, assigned>>

\* removeMember: the media the user assigned stay.
RemoveMember(r, u) ==
  /\ Idle(r) /\ space /\ FindMember(u)
  /\ role' = [role EXCEPT ![u] = "none"] /\ gone' = gone \cup {u}
  /\ req' = Overtaking(r, HoldRole)
  /\ UNCHANGED <<spaceOnly, space, assigned>>

\* remove: three statements without a transaction.
ReadForRemoval(r) ==
  /\ space /\ Begin(r, NewRequest("unassign"))
  /\ UNCHANGED <<spaceOnly, spaceVars, gone>>

UnassignAll(r) ==
  /\ At(r, "unassign")
  /\ assigned' = {} /\ Goto(r, "unmember")
  /\ UNCHANGED <<spaceOnly, space, role, gone>>

DeleteMembers(r) ==
  /\ At(r, "unmember")
  /\ role' = [u \in Users |-> "none"]
  /\ gone' = gone \cup {u \in Users : role[u] # "none"}
  /\ req' = [Overtaking(r, HoldRole) EXCEPT ![r].pc = "drop"]
  /\ UNCHANGED <<spaceOnly, space, assigned>>

\* Members added meanwhile go with the row, media are unassigned.
DropSpace(r) ==
  /\ At(r, "drop")
  /\ space' = FALSE /\ role' = [u \in Users |-> "none"] /\ assigned' = {}
  /\ gone' = gone \cup {"space"} \cup {u \in Users : role[u] # "none"}
  /\ req' = [Overtaking(r, HoldRole \cup {"name"}) EXCEPT ![r] = NoRequest]
  /\ UNCHANGED spaceOnly

\* Mutant of MayAssign: any member.
AnyRole(u) == u = owner \/ role[u] # "none"

\* SpaceRoleGuard with RequireSpaceRole(EDITOR), and assignMedia's own check.
MayAssign(u) == u = owner \/ role[u] = "editor"

ReadForAssign(r, u, ms) ==
  /\ space /\ MayAssign(u)
  /\ Begin(r, [NewRequest("find") EXCEPT !.who = u, !.what = ms])
  /\ UNCHANGED <<spaceOnly, spaceVars, gone>>

\* The media of the user among those asked for.
FindOwnMedia(r) ==
  LET own == {m \in req[r].what \cap media : MediaOwner[m] = req[r].who}
  IN  /\ At(r, "find")
      /\ IF own = {} THEN End(r)
         ELSE req' = [req EXCEPT ![r].pc = "assign", ![r].what = own]
      /\ UNCHANGED <<spaceOnly, spaceVars, gone>>

AssignMedia(r) ==
  /\ At(r, "assign")
  /\ assigned' = IF space THEN assigned \cup (req[r].what \cap media) ELSE assigned
  /\ End(r)
  /\ UNCHANGED <<spaceOnly, space, role, gone>>

SpaceStep(r) ==
  \/ ReadForRename(r) \/ SaveSpace(r) \/ SaveMember(r)
  \/ \E u \in Users, as \in Roles : ReadForMember(r, u, as) \/ ReadForRole(r, u, as)
  \/ \E u \in Users : RemoveMember(r, u) \/ \E ms \in SUBSET Media : ReadForAssign(r, u, ms)
  \/ ReadForRemoval(r) \/ UnassignAll(r) \/ DeleteMembers(r) \/ DropSpace(r)
  \/ FindOwnMedia(r) \/ AssignMedia(r)
=============================================================================
