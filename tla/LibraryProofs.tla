--------------------------- MODULE LibraryProofs ----------------------------
(***************************************************************************)
(* Theorems about Library, for any media, users, names, requests in flight *)
(* and openings of the player.                                             *)
(***************************************************************************)
EXTENDS Library, TLAPS

\* The rows, without the requests.
RowsOK ==
  /\ media \subseteq Media
  /\ album \in Album \cup {NoAlbum} /\ inAlbum \subseteq Media
  /\ space \in BOOLEAN /\ role \in [Users -> {"none", "editor", "viewer"}]
  /\ assigned \subseteq Media
  /\ gone \subseteq {"album", "space"} \cup Users

Reading == HoldAlbum \cup HoldRole \cup {"name"}

-----------------------------------------------------------------------------
LEMMA TypeSplit == TypeOK <=> RowsOK /\ req \in [Requests -> Request \cup {NoRequest}]
BY DEF TypeOK, RowsOK

LEMMA BusyType ==
  ASSUME TypeOK, NEW r \in Requests, req[r].pc # "idle"
  PROVE  req[r] \in Request
BY DEF TypeOK, NoRequest

LEMMA BusyIsNotIdle == \A q \in Request : q # NoRequest /\ q.pc # "idle"
BY DEF Request, NoRequest

LEMMA IdleIsAsRead == \A row, there, roles : AsRead(NoRequest, row, there, roles)
BY DEF AsRead, AlbumAsRead, SpaceAsRead, RoleAsRead, NoRequest, HoldAlbum

LEMMA NewType ==
  ASSUME NEW pc \in {"cover", "save", "join", "look", "unjoin", "uncover", "name", "member",
                     "role", "unassign", "unmember", "drop", "find", "assign"}
  PROVE  NewRequest(pc) \in Request /\ NewRequest(pc).pc = pc
BY LibraryConstants DEF NewRequest, Request

\* What overtaking leaves of a request, and what it marks.
LEMMA OvertakingType ==
  ASSUME TypeOK, NEW r \in Requests, NEW pcs, pcs \subseteq Reading
  PROVE  /\ Overtaking(r, pcs) \in [Requests -> Request \cup {NoRequest}]
         /\ Overtaking(r, pcs)[r] = req[r]
         /\ \A s \in Requests : req[s] # NoRequest => Overtaking(r, pcs)[s] # NoRequest
         /\ \A s \in Requests \ {r} : req[s].pc \in pcs =>
              /\ req[s] \in Request
              /\ Overtaking(r, pcs)[s] = [req[s] EXCEPT !.overtaken = TRUE]
         /\ \A s \in Requests : req[s].pc \notin pcs => Overtaking(r, pcs)[s] = req[s]
<1> DEFINE marked(s) == [req[s] EXCEPT !.overtaken = TRUE]
<1>1. \A s \in Requests : req[s].pc \in pcs => req[s] \in Request
  BY BusyType DEF Reading, HoldAlbum, HoldRole
<1>2. \A s \in Requests : req[s] \in Request => marked(s) \in Request
  BY DEF Request
<1>3. \A s \in Requests : req[s] \in Request \cup {NoRequest}
  BY DEF TypeOK
<1> HIDE DEF marked
<1>4. Overtaking(r, pcs) =
        [s \in Requests |-> IF s # r /\ req[s].pc \in pcs THEN marked(s) ELSE req[s]]
  BY DEF Overtaking, marked
<1>5. \A s \in Requests : Overtaking(r, pcs)[s] =
        IF s # r /\ req[s].pc \in pcs THEN marked(s) ELSE req[s]
  BY <1>4
<1>6. Overtaking(r, pcs) \in [Requests -> Request \cup {NoRequest}]
  BY <1>1, <1>2, <1>3, <1>4
<1>7. \A s \in Requests : req[s] # NoRequest => Overtaking(r, pcs)[s] # NoRequest
  BY <1>1, <1>2, <1>5, BusyIsNotIdle
<1> QED  BY <1>1, <1>5, <1>6, <1>7 DEF marked

LEMMA OvertakingNobody ==
  ASSUME TypeOK, NEW r \in Requests  PROVE Overtaking(r, {}) = req
BY DEF TypeOK, Overtaking

-----------------------------------------------------------------------------
\* A step of request r that goes on as q, and overtakes those at pcs.
LEMMA RequestStep ==
  ASSUME ReadsInv, NEW r \in Requests, NEW pcs, pcs \subseteq Reading,
         NEW q \in Request \cup {NoRequest}, AsRead(q, album', space', role'),
         req' = [Overtaking(r, pcs) EXCEPT ![r] = q], RowsOK',
         album' = album \/ HoldAlbum \subseteq pcs,
         (space => space') \/ "name" \in pcs,
         role' = role \/ HoldRole \subseteq pcs
  PROVE  ReadsInv'
<1>1. TypeOK
  BY DEF ReadsInv
<1> DEFINE f == Overtaking(r, pcs)
<1>2. /\ f \in [Requests -> Request \cup {NoRequest}]
      /\ \A s \in Requests \ {r} : req[s].pc \in pcs =>
           req[s] \in Request /\ f[s] = [req[s] EXCEPT !.overtaken = TRUE]
      /\ \A s \in Requests : req[s].pc \notin pcs => f[s] = req[s]
  BY <1>1, OvertakingType
<1>3. req' = [f EXCEPT ![r] = q]
  OBVIOUS
<1> HIDE DEF f
<1>4. req' \in [Requests -> Request \cup {NoRequest}] /\ req'[r] = q
  BY <1>2, <1>3
<1>5. TypeOK'
  BY <1>4, TypeSplit DEF TypeOK, RowsOK
<1>6. ASSUME NEW s \in Requests \ {r}  PROVE AsRead(req'[s], album', space', role')
  <2>1. req'[s] = f[s]
    BY <1>2, <1>3
  <2>2. AsRead(req[s], album, space, role)
    BY DEF ReadsInv
  <2>3. CASE req[s].pc \in pcs
    <3>1. req[s] \in Request /\ req'[s] = [req[s] EXCEPT !.overtaken = TRUE]
      BY <1>2, <2>1, <2>3
    <3>2. /\ req'[s].pc = req[s].pc /\ req'[s].seen = req[s].seen /\ req'[s].who = req[s].who
          /\ req'[s].what = req[s].what /\ req'[s].overtaken
          /\ req'[s].fields = req[s].fields /\ req'[s].name = req[s].name
      BY <3>1 DEF Request
    <3> QED  BY <2>2, <3>2 DEF AsRead, AlbumAsRead, SpaceAsRead, RoleAsRead
  <2>4. CASE req[s].pc \notin pcs
    <3>1. req'[s] = req[s]
      BY <1>2, <2>1, <2>4
    <3>2. AlbumAsRead(req[s], album')
      BY <2>2, <2>4 DEF AsRead, AlbumAsRead
    <3>3. SpaceAsRead(req[s], space')
      <4>1. req[s].pc = "name" => space \/ req[s].overtaken
        BY <2>2 DEF AsRead, SpaceAsRead
      <4>2. req[s].pc = "name" => (space => space')
        BY <2>4
      <4> QED  BY <4>1, <4>2, Zenon DEF SpaceAsRead
    <3>4. RoleAsRead(req[s], role')
      BY <2>2, <2>4 DEF AsRead, RoleAsRead, HoldRole
    <3> QED  BY <3>1, <3>2, <3>3, <3>4 DEF AsRead
  <2> QED  BY <2>3, <2>4
<1> QED  BY <1>4, <1>5, <1>6 DEF ReadsInv

\* A step of request r that writes none of the rows requests have read.
LEMMA QuietStep ==
  ASSUME ReadsInv, NEW r \in Requests, NEW q \in Request \cup {NoRequest},
         AsRead(q, album, space, role), req' = [req EXCEPT ![r] = q],
         UNCHANGED <<album, space, role, media, gone>>,
         inAlbum' \subseteq Media, assigned' \subseteq Media
  PROVE  ReadsInv'
<1>1. req' = [Overtaking(r, {}) EXCEPT ![r] = q]
  BY OvertakingNobody DEF ReadsInv
<1>2. RowsOK'
  BY DEF ReadsInv, TypeOK, RowsOK
<1> QED  BY <1>1, <1>2, RequestStep DEF Reading

-----------------------------------------------------------------------------
\* What a step of an album request leaves alone.
LEMMA AlbumSteps ==
  ASSUME ReadsInv, NEW r \in Requests, AlbumStep(r)  PROVE ReadsInv'
<1> USE DEF albumOnly, albumVars, spaceVars
<1>1. /\ TypeOK /\ AsRead(req[r], album, space, role)
      /\ req[r].pc # "idle" => req[r] \in Request
  BY BusyType DEF ReadsInv
<1>2. /\ media \subseteq Media /\ inAlbum \subseteq Media /\ assigned \subseteq Media
      /\ RowsOK /\ album \in Album \cup {NoAlbum}
  BY <1>1, TypeSplit DEF TypeOK
<1>3. NoRequest \in Request \cup {NoRequest} /\ AsRead(NoRequest, album', space', role')
      /\ AsRead(NoRequest, album, space, role)
  BY IdleIsAsRead
<1>4. ASSUME NEW m \in Media, ReadForAdd(r, m)  PROVE ReadsInv'
  <2> DEFINE q == [NewRequest("join") EXCEPT !.what = {m}]
  <2>1. q \in Request /\ q.pc = "join"
    BY NewType DEF Request
  <2>2. AsRead(q, album, space, role)
    BY <2>1 DEF AsRead, AlbumAsRead, SpaceAsRead, RoleAsRead, HoldAlbum
  <2>3. req' = [req EXCEPT ![r] = q]
    BY <1>4 DEF ReadForAdd, Begin
  <2> HIDE DEF q
  <2> QED  BY <1>2, <1>4, <2>1, <2>2, <2>3, QuietStep DEF ReadForAdd
<1>5. ASSUME NEW m \in Media, ReadForRemove(r, m)  PROVE ReadsInv'
  <2> DEFINE q == [NewRequest("look") EXCEPT !.seen = album, !.what = {m}]
  <2>1. q \in Request /\ q.pc = "look" /\ q.seen = album /\ q.what = {m}
    <3>1. NewRequest("look") \in Request /\ NewRequest("look").pc = "look"
      BY NewType
    <3> QED  BY <1>2, <3>1 DEF Request
  <2>2. AsRead(q, album, space, role)
    BY <1>5, <2>1 DEF AsRead, AlbumAsRead, SpaceAsRead, RoleAsRead, HoldAlbum,
                      ReadForRemove, GetOwnedAlbum
  <2>3. req' = [req EXCEPT ![r] = q]
    BY <1>5 DEF ReadForRemove, Begin
  <2> HIDE DEF q
  <2> QED  BY <1>2, <1>5, <2>1, <2>2, <2>3, QuietStep DEF ReadForRemove
<1>6. ASSUME NEW fields \in SUBSET Fields, NEW name \in Names \cup {none},
             NEW cover \in Media \cup {none}, ReadForUpdate(r, fields, name, cover)
      PROVE  ReadsInv'
  <2> DEFINE pc == IF "cover" \in fields /\ cover # none THEN "cover" ELSE "save"
             q  == [NewRequest(pc) EXCEPT !.seen = album, !.fields = fields,
                                          !.name = name, !.cover = cover]
  <2>1. pc \in {"cover", "save"} /\ NewRequest(pc) \in Request /\ NewRequest(pc).pc = pc
    BY NewType
  <2>2. q \in Request /\ q.pc = pc /\ q.seen = album /\ q.fields = fields /\ q.name = name
    BY <1>2, <2>1 DEF Request
  <2>3. req' = [req EXCEPT ![r] = q]
    BY <1>6 DEF ReadForUpdate, Begin
  <2> HIDE DEF q, pc
  <2>4. AsRead(q, album, space, role)
    BY <1>6, <2>1, <2>2 DEF AsRead, AlbumAsRead, SpaceAsRead, RoleAsRead, HoldAlbum,
                            ReadForUpdate, GetOwnedAlbum
  <2> QED  BY <1>2, <1>6, <2>2, <2>3, <2>4, QuietStep DEF ReadForUpdate
<1>7. CASE AssertOwnedMedia(r)
  <2> DEFINE q == [req[r] EXCEPT !.pc = "save"]
  <2>1. req[r] \in Request /\ req[r].pc = "cover"
    BY <1>1, <1>7 DEF AssertOwnedMedia, At
  <2>2. q \in Request /\ q.pc = "save" /\ q.seen = req[r].seen /\ q.overtaken = req[r].overtaken
        /\ q.fields = req[r].fields /\ q.name = req[r].name
    BY <2>1 DEF Request
  <2>3. req' = [req EXCEPT ![r] = q] \/ req' = [req EXCEPT ![r] = NoRequest]
    BY <1>1, <1>7 DEF AssertOwnedMedia, Goto, End, TypeOK
  <2> HIDE DEF q
  <2>4. AsRead(q, album, space, role)
    BY <1>1, <2>1, <2>2 DEF AsRead, AlbumAsRead, SpaceAsRead, RoleAsRead, HoldAlbum
  <2> QED  BY <1>2, <1>3, <1>7, <2>2, <2>3, <2>4, QuietStep DEF AssertOwnedMedia
<1>8. CASE SaveAlbum(r)
  <2>1. req[r] \in Request /\ req[r].pc = "save"
    BY <1>1, <1>8 DEF SaveAlbum, At
  <2>2. req[r].seen \in Album
    BY <1>1, <2>1 DEF AsRead, AlbumAsRead, HoldAlbum, Request
  <2>3. Updated(req[r]) \in Album
    <3>1. "name" \in req[r].fields => req[r].name \in Names
      BY <1>1, <2>1 DEF AsRead, AlbumAsRead, Request
    <3>2. req[r].cover \in Media \cup {none}
      BY <2>1 DEF Request
    <3> QED  BY <2>2, <3>1, <3>2 DEF Updated, Album
  <2>4. RowsOK'
    BY <1>2, <1>8, <2>3 DEF SaveAlbum, Record, RowsOK
  <2> QED  BY <1>3, <1>8, <2>4, RequestStep DEF SaveAlbum, Reading
<1>9. CASE RemoveAlbum(r)
  <2>1. req' = [Overtaking(r, HoldAlbum) EXCEPT ![r] = NoRequest]
    <3>1. Overtaking(r, HoldAlbum) \in [Requests -> Request \cup {NoRequest}]
      BY <1>1, OvertakingType DEF Reading
    <3>2. Overtaking(r, HoldAlbum)[r] = NoRequest
      BY <1>1, <1>9, OvertakingType DEF Reading, RemoveAlbum, Idle
    <3> QED  BY <1>9, <3>1, <3>2 DEF RemoveAlbum
  <2>2. RowsOK'
    BY <1>2, <1>9 DEF RemoveAlbum, Record, RowsOK
  <2> QED  BY <1>3, <1>9, <2>1, <2>2, RequestStep DEF RemoveAlbum, Reading
<1>10. CASE SaveJoin(r)
  BY <1>2, <1>3, <1>10, QuietStep DEF SaveJoin, End
<1>11. CASE FindJoin(r) \/ DeleteJoin(r)
  <2> DEFINE pc == IF FindJoin(r) THEN "unjoin" ELSE "uncover"
             q  == [req[r] EXCEPT !.pc = pc]
  <2>1. /\ req[r] \in Request /\ pc \in {"unjoin", "uncover"}
        /\ req[r].pc = IF FindJoin(r) THEN "look" ELSE "unjoin"
    BY <1>1, <1>11 DEF FindJoin, DeleteJoin, At
  <2>2. /\ q \in Request /\ q.pc = pc /\ q.seen = req[r].seen /\ q.what = req[r].what
        /\ q.overtaken = req[r].overtaken
    BY <2>1 DEF Request
  <2>3. req' = [req EXCEPT ![r] = q] \/ req' = [req EXCEPT ![r] = NoRequest]
    BY <1>1, <1>11 DEF FindJoin, DeleteJoin, Goto, End, TypeOK
  <2>4. UNCHANGED <<album, space, role, media, gone, assigned>> /\ inAlbum' \subseteq Media
    BY <1>2, <1>11 DEF FindJoin, DeleteJoin, Record
  <2> HIDE DEF q
  <2>5. AsRead(q, album, space, role)
    BY <1>1, <2>1, <2>2 DEF AsRead, AlbumAsRead, SpaceAsRead, RoleAsRead, HoldAlbum
  <2> QED  BY <1>2, <1>3, <2>2, <2>3, <2>4, <2>5, QuietStep
<1>12. CASE ClearCover(r)
  <2>1. RowsOK'
    <3>1. album # NoAlbum => [album EXCEPT !.cover = none] \in Album
      BY <1>2 DEF Album
    <3> QED  BY <1>2, <1>12, <3>1 DEF ClearCover, Record, RowsOK
  <2> QED  BY <1>3, <1>12, <2>1, RequestStep DEF ClearCover, Reading
<1> QED  BY <1>4, <1>5, <1>6, <1>7, <1>8, <1>9, <1>10, <1>11, <1>12 DEF AlbumStep


-----------------------------------------------------------------------------
\* The requests of the space that write a row: space or role.
LEMMA SpaceWrites ==
  ASSUME ReadsInv, NEW r \in Requests,
         \/ SaveSpace(r) \/ SaveMember(r) \/ DeleteMembers(r) \/ DropSpace(r)
         \/ \E u \in Users : RemoveMember(r, u)
  PROVE  ReadsInv'
<1> USE DEF spaceOnly, albumVars
<1>1. /\ TypeOK /\ AsRead(req[r], album, space, role) /\ RowsOK
      /\ req[r].pc # "idle" => req[r] \in Request
  BY BusyType, TypeSplit DEF ReadsInv
<1>2. NoRequest \in Request \cup {NoRequest} /\ AsRead(NoRequest, album', space', role')
      /\ AsRead(NoRequest, album, space, role)
  BY IdleIsAsRead
<1>3. CASE SaveSpace(r)
  <2>1. space' \in BOOLEAN /\ (space => space')
    BY <1>3, Zenon DEF SaveSpace
  <2>2. RowsOK'
    BY <1>1, <1>3, <2>1 DEF SaveSpace, RowsOK
  <2>3. req' = [Overtaking(r, {}) EXCEPT ![r] = NoRequest]
    BY <1>1, <1>3, OvertakingNobody DEF SaveSpace, End
  <2> QED  BY <1>2, <1>3, <2>1, <2>2, <2>3, RequestStep DEF SaveSpace, Reading
<1>4. CASE SaveMember(r)
  <2>1. req[r].who \in Users /\ req[r].as \in {"none", "editor", "viewer"}
    BY <1>1, <1>4 DEF SaveMember, Request
  <2>2. RowsOK'
    BY <1>1, <1>4, <2>1 DEF SaveMember, RowsOK
  <2> QED  BY <1>2, <1>4, <2>2, RequestStep DEF SaveMember, Reading
<1>5. CASE DeleteMembers(r)
  <2> DEFINE q == [req[r] EXCEPT !.pc = "drop"]
  <2>1. req[r] \in Request /\ req[r].pc = "unmember"
    BY <1>1, <1>5 DEF DeleteMembers, At
  <2>2. q \in Request /\ q.pc = "drop"
    BY <2>1 DEF Request
  <2>3. req' = [Overtaking(r, HoldRole) EXCEPT ![r] = q]
    <3>1. Overtaking(r, HoldRole)[r] = req[r]
      BY <1>1, OvertakingType DEF Reading
    <3>2. Overtaking(r, HoldRole) \in [Requests -> Request \cup {NoRequest}]
      BY <1>1, OvertakingType DEF Reading
    <3> QED  BY <1>5, <3>1, <3>2 DEF DeleteMembers
  <2> HIDE DEF q
  <2>4. AsRead(q, album', space', role')
    BY <2>2 DEF AsRead, AlbumAsRead, SpaceAsRead, RoleAsRead, HoldAlbum
  <2>5. RowsOK'
    BY <1>1, <1>5 DEF DeleteMembers, RowsOK
  <2> QED  BY <1>5, <2>2, <2>3, <2>4, <2>5, RequestStep DEF DeleteMembers, Reading
<1>6. CASE DropSpace(r)
  <2>1. space' \in BOOLEAN
    BY <1>6, Zenon DEF DropSpace
  <2>2. RowsOK'
    BY <1>1, <1>6, <2>1 DEF DropSpace, RowsOK
  <2> QED  BY <1>2, <1>6, <2>2, RequestStep DEF DropSpace, Reading
<1>7. ASSUME NEW u \in Users, RemoveMember(r, u)  PROVE ReadsInv'
  <2>1. req' = [Overtaking(r, HoldRole) EXCEPT ![r] = NoRequest]
    <3>1. Overtaking(r, HoldRole) \in [Requests -> Request \cup {NoRequest}]
      BY <1>1, OvertakingType DEF Reading
    <3>2. Overtaking(r, HoldRole)[r] = NoRequest
      BY <1>1, <1>7, OvertakingType DEF Reading, RemoveMember, Idle
    <3> QED  BY <1>7, <3>1, <3>2 DEF RemoveMember
  <2>2. RowsOK'
    BY <1>1, <1>7 DEF RemoveMember, RowsOK
  <2> QED  BY <1>2, <1>7, <2>1, <2>2, RequestStep DEF RemoveMember, Reading
<1> QED  BY <1>3, <1>4, <1>5, <1>6, <1>7

\* The other steps of the space's requests.
LEMMA SpaceReads ==
  ASSUME ReadsInv, NEW r \in Requests,
         \/ ReadForRename(r) \/ ReadForRemoval(r) \/ UnassignAll(r)
         \/ FindOwnMedia(r) \/ AssignMedia(r) \/ Fail(r)
         \/ \E u \in Users, as \in Roles : ReadForMember(r, u, as) \/ ReadForRole(r, u, as)
         \/ \E u \in Users, ms \in SUBSET Media : ReadForAssign(r, u, ms)
  PROVE  ReadsInv'
<1> USE DEF spaceOnly, spaceVars, albumVars
<1>1. /\ TypeOK /\ AsRead(req[r], album, space, role)
      /\ req[r].pc # "idle" => req[r] \in Request
  BY BusyType DEF ReadsInv
<1>2. media \subseteq Media /\ inAlbum \subseteq Media /\ assigned \subseteq Media
  BY <1>1 DEF TypeOK
<1>3. AsRead(NoRequest, album, space, role)
  BY IdleIsAsRead
<1>4. CASE ReadForRename(r) \/ ReadForRemoval(r)
  <2>1. PICK pc \in {"name", "unassign"} : /\ space /\ req' = [req EXCEPT ![r] = NewRequest(pc)]
                                           /\ UNCHANGED <<spaceOnly, spaceVars, gone>>
    BY <1>4 DEF ReadForRename, ReadForRemoval, Begin
  <2>2. NewRequest(pc) \in Request /\ NewRequest(pc).pc = pc
    BY NewType
  <2>3. AsRead(NewRequest(pc), album, space, role)
    BY <2>1, <2>2 DEF AsRead, AlbumAsRead, SpaceAsRead, RoleAsRead, HoldAlbum
  <2> QED  BY <1>2, <2>1, <2>2, <2>3, QuietStep
<1>5. ASSUME NEW u \in Users, NEW as \in Roles, ReadForMember(r, u, as) \/ ReadForRole(r, u, as)
      PROVE  ReadsInv'
  <2>1. PICK pc \in {"member", "role"} :
          /\ req' = [req EXCEPT ![r] = [NewRequest(pc) EXCEPT !.who = u, !.as = as]]
          /\ pc = "role" => role[u] # "none"
          /\ UNCHANGED <<spaceOnly, spaceVars, gone>>
    BY <1>5 DEF ReadForMember, ReadForRole, Begin, FindMember
  <2> DEFINE q == [NewRequest(pc) EXCEPT !.who = u, !.as = as]
  <2>2. NewRequest(pc) \in Request /\ NewRequest(pc).pc = pc
    BY NewType
  <2>3. q \in Request /\ q.pc = pc /\ q.who = u
    BY <2>2 DEF Request, Roles
  <2> HIDE DEF q
  <2>4. AsRead(q, album, space, role)
    BY <2>1, <2>3 DEF AsRead, AlbumAsRead, SpaceAsRead, RoleAsRead, HoldAlbum
  <2>5. req' = [req EXCEPT ![r] = q]
    BY <2>1 DEF q
  <2> QED  BY <1>2, <2>1, <2>3, <2>4, <2>5, QuietStep
<1>6. ASSUME NEW u \in Users, NEW ms \in SUBSET Media, ReadForAssign(r, u, ms)
      PROVE  ReadsInv'
  <2> DEFINE q == [NewRequest("find") EXCEPT !.who = u, !.what = ms]
  <2>1. NewRequest("find") \in Request /\ NewRequest("find").pc = "find"
    BY NewType
  <2>2. q \in Request /\ q.pc = "find" /\ q.who = u
    BY <2>1 DEF Request
  <2>3. req' = [req EXCEPT ![r] = q]
    BY <1>6 DEF ReadForAssign, Begin
  <2> HIDE DEF q
  <2>4. AsRead(q, album, space, role)
    BY <1>6, <2>2 DEF AsRead, AlbumAsRead, SpaceAsRead, RoleAsRead, HoldAlbum,
                      ReadForAssign, MayAssign
  <2> QED  BY <1>2, <1>6, <2>2, <2>3, <2>4, QuietStep DEF ReadForAssign
<1>7. CASE FindOwnMedia(r)
  <2> DEFINE own == {m \in req[r].what \cap media : MediaOwner[m] = req[r].who}
             q   == [req[r] EXCEPT !.pc = "assign", !.what = own]
  <2>1. req[r] \in Request /\ req[r].pc = "find"
    BY <1>1, <1>7 DEF FindOwnMedia, At
  <2>2. own \subseteq Media /\ \A m \in own : MediaOwner[m] = req[r].who
    BY <1>2
  <2>3. req' = [req EXCEPT ![r] = q] \/ req' = [req EXCEPT ![r] = NoRequest]
    BY <1>1, <1>7 DEF FindOwnMedia, End, TypeOK
  <2> HIDE DEF own
  <2>4. /\ q \in Request /\ q.pc = "assign" /\ q.what = own /\ q.who = req[r].who
        /\ q.overtaken = req[r].overtaken
    BY <2>1, <2>2 DEF Request
  <2> HIDE DEF q
  <2>5. AsRead(q, album, space, role)
    BY <1>1, <2>1, <2>2, <2>4 DEF AsRead, AlbumAsRead, SpaceAsRead, RoleAsRead, HoldAlbum
  <2> QED  BY <1>2, <1>3, <1>7, <2>3, <2>4, <2>5, QuietStep DEF FindOwnMedia
<1>8. CASE UnassignAll(r)
  <2> DEFINE q == [req[r] EXCEPT !.pc = "unmember"]
  <2>1. req[r] \in Request
    BY <1>1, <1>8 DEF UnassignAll, At
  <2>2. q \in Request /\ q.pc = "unmember"
    BY <2>1 DEF Request
  <2>3. req' = [req EXCEPT ![r] = q]
    BY <1>1, <1>8 DEF UnassignAll, Goto, TypeOK
  <2> HIDE DEF q
  <2>4. AsRead(q, album, space, role)
    BY <2>2 DEF AsRead, AlbumAsRead, SpaceAsRead, RoleAsRead, HoldAlbum
  <2> QED  BY <1>2, <1>8, <2>2, <2>3, <2>4, QuietStep DEF UnassignAll
<1>9. CASE AssignMedia(r)
  <2>1. assigned' \subseteq Media
    BY <1>2, <1>9 DEF AssignMedia
  <2> QED  BY <1>2, <1>3, <1>9, <2>1, QuietStep DEF AssignMedia, End
<1>10. CASE Fail(r)
  BY <1>2, <1>3, <1>10, QuietStep DEF Fail, End
<1> QED  BY <1>4, <1>5, <1>6, <1>7, <1>8, <1>9, <1>10

-----------------------------------------------------------------------------
\* The page only reads, deletes media and leaves the requests alone.
LEMMA PageStepsRows ==
  ASSUME TypeOK, PageStep \/ PlayerStep
  PROVE  UNCHANGED <<album, given, lost, space, role, gone, req>> /\ media' \subseteq media
         /\ inAlbum' \subseteq inAlbum /\ assigned' \subseteq assigned
BY DEF PageStep, PlayerStep, Load, LoadAnswers, EnterSelectionMode, ExitSelectionMode, Toggle,
       ToggleAll, RequestBulkDelete, CancelBulkDelete, ConfirmBulkDelete, ServerDeletes,
       DeleteMedia, DeleteSucceeds, DeleteFails, RemoveRow, ClosePlayer, OpenPlayer, Attach,
       ImportAnswers, pageOnly, playerOnly, albumVars, spaceVars

LEMMA StepReads == ReadsInv /\ [Next]_vars => ReadsInv'
<1> SUFFICES ASSUME ReadsInv, [Next]_vars  PROVE ReadsInv'
  OBVIOUS
<1>1. ASSUME NEW name \in Names, NEW cover \in Media \cup {none}, CreateAlbum(name, cover)
      PROVE  ReadsInv'
  <2>1. UNCHANGED <<space, role, media, assigned, gone, req>> /\ album = NoAlbum
    BY <1>1 DEF CreateAlbum, albumOnly, spaceVars
  <2>2. album' \in Album /\ inAlbum' \subseteq Media
    BY <1>1 DEF CreateAlbum, Record, Album
  <2>3. TypeOK'
    BY <2>1, <2>2 DEF ReadsInv, TypeOK
  <2>4. \A r \in Requests : AsRead(req[r], album', space, role)
    BY <2>1 DEF ReadsInv, AsRead, AlbumAsRead
  <2> QED  BY <2>1, <2>3, <2>4 DEF ReadsInv
<1>2. CASE CreateSpace
  <2>1. UNCHANGED <<album, inAlbum, role, media, assigned, gone, req>>
    BY <1>2 DEF CreateSpace, spaceOnly, albumVars
  <2>2. space' \in BOOLEAN /\ space'
    BY <1>2, Zenon DEF CreateSpace
  <2>3. TypeOK'
    BY <2>1, <2>2 DEF ReadsInv, TypeOK
  <2>4. \A r \in Requests : AsRead(req[r], album, space', role)
    BY <2>2 DEF ReadsInv, AsRead, SpaceAsRead
  <2> QED  BY <2>1, <2>3, <2>4 DEF ReadsInv
<1>3. CASE PageStep \/ PlayerStep
  <2>1. TypeOK
    BY DEF ReadsInv
  <2>2. TypeOK'
    BY <1>3, <2>1, PageStepsRows DEF TypeOK
  <2> QED  BY <1>3, <2>1, <2>2, PageStepsRows DEF ReadsInv
<1>4. CASE UNCHANGED vars
  BY <1>4 DEF ReadsInv, TypeOK, vars, albumVars, spaceVars
<1>5. ASSUME NEW r \in Requests, SpaceStep(r) \/ Fail(r)  PROVE ReadsInv'
  BY <1>5, SpaceWrites, SpaceReads DEF SpaceStep
<1> QED  BY <1>1, <1>2, <1>3, <1>4, <1>5, AlbumSteps DEF Next


-----------------------------------------------------------------------------
\* The page and its player keep their types.
LEMMA PageTypes ==
  ASSUME TypeOK, PageTypeOK, [Next]_vars  PROVE PageTypeOK'
<1> USE DEF PageTypeOK, Modes
<1>1. CASE UNCHANGED <<pageVars, playerVars>>
  BY <1>1 DEF pageVars, playerVars
<1>2. CASE Load \/ LoadAnswers \/ EnterSelectionMode \/ ExitSelectionMode \/ ToggleAll
           \/ RequestBulkDelete \/ CancelBulkDelete \/ \E m \in Media : Toggle(m)
  BY <1>2 DEF TypeOK, Load, LoadAnswers, EnterSelectionMode, ExitSelectionMode, Toggle, ToggleAll,
              RequestBulkDelete, CancelBulkDelete, pageOnly, playerVars
<1>3. ASSUME NEW m \in Media, ConfirmBulkDelete(m)  PROVE PageTypeOK'
  BY <1>3 DEF ConfirmBulkDelete, pageOnly, playerVars
<1>4. CASE ServerDeletes
  <2>1. deleting' \in [ids : SUBSET Media, left : SUBSET Media, now : Media \cup {none},
                       done : BOOLEAN]
    BY <1>4 DEF ServerDeletes
  <2> QED  BY <1>4, <2>1 DEF ServerDeletes, pageOnly, playerVars
<1>5. CASE DeleteSucceeds \/ DeleteFails
  <2>1. PICK fails \in SUBSET Media : Continue(fails) /\ UNCHANGED playerVars
    BY <1>5 DEF DeleteSucceeds, DeleteFails, pageOnly
  <2>2. ASSUME NEW m \in deleting.left,
               deleting' = [deleting EXCEPT !.left = @ \ {m}, !.now = m, !.done = FALSE],
               failed' = fails, UNCHANGED <<items, selected, mode>>
        PROVE  PageTypeOK'
    <3>1. deleting' \in [ids : SUBSET Media, left : SUBSET Media, now : Media \cup {none},
                         done : BOOLEAN]
      BY <2>2
    <3> QED  BY <2>1, <2>2, <3>1 DEF playerVars
  <2>3. CASE /\ deleting' = NoDeletion /\ failed' = fails /\ items' = Kept(fails)
             /\ selected' = fails
             /\ mode' = IF fails = {} /\ mode \in {"select", "confirm"} THEN "browse" ELSE mode
    BY <2>1, <2>3 DEF NoDeletion, Kept, playerVars
  <2> QED  BY <2>1, <2>2, <2>3 DEF Continue
<1>6. CASE PlayerStep
  BY <1>6 DEF PlayerStep, ClosePlayer, OpenPlayer, Attach, ImportAnswers, Detach, Overlap,
              playerOnly, pageVars
<1>7. ASSUME NEW r \in Requests, AlbumStep(r) \/ SpaceStep(r) \/ Fail(r)
      PROVE  UNCHANGED <<pageVars, playerVars>>
  BY <1>7 DEF AlbumStep, SpaceStep, Fail, ReadForAdd, ReadForRemove, ReadForUpdate,
     AssertOwnedMedia, SaveAlbum, RemoveAlbum, SaveJoin, FindJoin, DeleteJoin, ClearCover, ReadForRename,
     SaveSpace, SaveMember, ReadForMember, ReadForRole, RemoveMember, ReadForAssign,
     ReadForRemoval, UnassignAll, DeleteMembers, DropSpace, FindOwnMedia, AssignMedia,
     albumOnly, spaceOnly
<1>8. ASSUME \/ \E name \in Names, cover \in Media \cup {none} : CreateAlbum(name, cover)
             \/ CreateSpace \/ (\E m \in Media : DeleteMedia(m)) \/ UNCHANGED vars
      PROVE  UNCHANGED <<pageVars, playerVars>>
  BY <1>8 DEF CreateAlbum, CreateSpace, DeleteMedia, albumOnly, spaceOnly, pageOnly, vars
<1> QED  BY <1>1, <1>2, <1>3, <1>4, <1>5, <1>6, <1>7, <1>8 DEF Next, PageStep

\* At most one import is for the video on show, and while it is pending there
\* is no player.
LEMMA PlayerSteps ==
  ASSUME ImportsInv, PageTypeOK', PlayerStep  PROVE ImportsInv'
<1> DEFINE Late    == \E o \in overlapped : open[o] = "done"
           Tidy    == /\ players \subseteq {attached} /\ (video = none => players = {})
                      /\ Importing # {} => players = {} /\ video # none
                      /\ \A o, p \in Importing : o = p
<1>1. PageTypeOK /\ (Late \/ Tidy)
  BY DEF ImportsInv
<1>2. SUFFICES ASSUME ~Late'  PROVE Tidy'
  BY DEF ImportsInv
<1>3. Tidy
  <2>1. overlapped \subseteq overlapped' /\ \A o \in Opens : open[o] = "done" => open'[o] = "done"
    BY <1>1 DEF PageTypeOK, PlayerStep, ClosePlayer, OpenPlayer, Attach, ImportAnswers, Overlap
  <2> QED  BY <1>1, <1>2, <2>1 DEF PageTypeOK
<1>4. CASE ClosePlayer
  <2>1. Importing' = {}
    BY <1>1, <1>4, LibraryConstants DEF ClosePlayer, Overlap, Importing
  <2>2. players' = {}
    BY <1>3, <1>4 DEF ClosePlayer, Detach
  <2> QED  BY <2>1, <2>2
<1>5. ASSUME NEW o \in Opens, OpenPlayer(o)  PROVE Tidy'
  <2>1. Importing' = {}
    BY <1>1, <1>5 DEF OpenPlayer, Overlap, Importing, PageTypeOK
  <2>2. players' = {} /\ video' # none
    BY <1>3, <1>5, LibraryConstants DEF OpenPlayer, Detach
  <2> QED  BY <2>1, <2>2
<1>6. ASSUME NEW o \in Opens, Attach(o)  PROVE Tidy'
  <2>1. CASE video = none
    <3>1. /\ open' = [open EXCEPT ![o] = "done"]
          /\ UNCHANGED <<attached, players, overlapped, video>>
      BY <1>6, <2>1 DEF Attach
    <3>2. Importing' \subseteq Importing
      BY <1>1, <3>1 DEF Importing, PageTypeOK
    <3> QED  BY <1>3, <3>1, <3>2
  <2>2. CASE video # none
    <3>1. Importing' \subseteq {o}
      BY <1>1, <1>6, <2>2 DEF Attach, Overlap, Importing, PageTypeOK
    <3>2. players' = {} /\ video' # none
      BY <1>3, <1>6, <2>2 DEF Attach, Detach
    <3> QED  BY <3>1, <3>2
  <2> QED  BY <2>1, <2>2
<1>7. ASSUME NEW o \in Opens, ImportAnswers(o)  PROVE Tidy'
  <2>1. open' = [open EXCEPT ![o] = "done"] /\ UNCHANGED <<video, overlapped>>
    BY <1>7 DEF ImportAnswers
  <2>2. o \in Importing
    BY <1>1, <1>2, <1>7, <2>1 DEF ImportAnswers, Importing, PageTypeOK
  <2>3. Importing = {o} /\ Importing' = {}
    BY <1>1, <1>3, <2>1, <2>2 DEF Importing, PageTypeOK
  <2>4. players = {} /\ video # none
    BY <1>3, <2>2
  <2>5. players' \subseteq {attached'}
    BY <1>7, <2>4 DEF ImportAnswers
  <2> QED  BY <2>1, <2>3, <2>4, <2>5
<1> QED  BY <1>4, <1>5, <1>6, <1>7 DEF PlayerStep

LEMMA StepImports == TypeOK /\ ImportsInv /\ [Next]_vars => ImportsInv'
<1> SUFFICES ASSUME TypeOK, ImportsInv, [Next]_vars  PROVE ImportsInv'
  OBVIOUS
<1>1. PageTypeOK'
  BY PageTypes DEF ImportsInv
<1>2. CASE UNCHANGED playerVars
  BY <1>1, <1>2 DEF ImportsInv, Importing, playerVars
<1>3. PlayerStep \/ UNCHANGED playerVars
  BY DEF Next, vars, CreateAlbum, CreateSpace, AlbumStep, SpaceStep, Fail, ReadForAdd,
     ReadForRemove, ReadForUpdate, AssertOwnedMedia, SaveAlbum, RemoveAlbum, SaveJoin, FindJoin, DeleteJoin,
     ClearCover, ReadForRename, SaveSpace, SaveMember, ReadForMember, ReadForRole, RemoveMember,
     ReadForAssign, ReadForRemoval, UnassignAll, DeleteMembers, DropSpace, FindOwnMedia,
     AssignMedia, PageStep, Load, LoadAnswers, EnterSelectionMode, ExitSelectionMode, Toggle,
     ToggleAll, RequestBulkDelete, CancelBulkDelete, ConfirmBulkDelete, ServerDeletes,
     DeleteMedia, DeleteSucceeds, DeleteFails, albumOnly, spaceOnly, pageOnly
<1> QED  BY <1>1, <1>2, <1>3, PlayerSteps

LEMMA InitLibrary == Init => ReadsInv /\ ImportsInv
<1> SUFFICES ASSUME Init  PROVE ReadsInv /\ ImportsInv
  OBVIOUS
<1>1. space \in BOOLEAN
  BY Zenon DEF Init
<1>2. TypeOK
  BY <1>1 DEF Init, TypeOK
<1>3. \A r \in Requests : AsRead(req[r], album, space, role)
  BY IdleIsAsRead DEF Init
<1>4. ImportsInv
  BY DEF Init, ImportsInv, PageTypeOK, Modes, NoDeletion, Importing
<1> QED  BY <1>2, <1>3, <1>4 DEF ReadsInv

\* What a request has read of the album, the space or a role still holds, or
\* the request is marked as overtaken (AlbumsService, StorageSpacesService).
THEOREM LibraryReads == Spec => []ReadsInv
<1>1. Init => ReadsInv
  BY InitLibrary
<1> QED  BY <1>1, StepReads, PTL DEF Spec

-----------------------------------------------------------------------------
\* Who writes which row.
LEMMA AlbumWriters ==
  ASSUME TypeOK, [Next]_vars, album' # album
  PROVE  \/ "album" \notin gone /\ album = NoAlbum /\ UNCHANGED req
         \/ \E r \in Requests : SaveAlbum(r) \/ RemoveAlbum(r) \/ ClearCover(r)
<1>1. ASSUME NEW r \in Requests, SpaceStep(r) \/ Fail(r)  PROVE UNCHANGED album
  BY <1>1 DEF SpaceStep, Fail, ReadForRename, SaveSpace, SaveMember, ReadForMember, ReadForRole,
     RemoveMember, ReadForAssign, ReadForRemoval, UnassignAll, DeleteMembers, DropSpace,
     FindOwnMedia, AssignMedia, spaceOnly, albumVars
<1>2. ASSUME NEW r \in Requests, AlbumStep(r)
      PROVE  SaveAlbum(r) \/ RemoveAlbum(r) \/ ClearCover(r)
  BY <1>2 DEF AlbumStep, ReadForAdd, ReadForRemove, ReadForUpdate, AssertOwnedMedia, SaveJoin,
     FindJoin, DeleteJoin, Record, albumVars
<1>3. CASE \E name \in Names, cover \in Media \cup {none} : CreateAlbum(name, cover)
  BY <1>3 DEF CreateAlbum
<1>4. ~CreateSpace /\ ~PageStep /\ ~PlayerStep /\ ~UNCHANGED vars
  BY PageStepsRows DEF CreateSpace, spaceOnly, albumVars, vars
<1> QED  BY <1>1, <1>2, <1>3, <1>4 DEF Next

LEMMA SpaceWriters ==
  ASSUME TypeOK, [Next]_vars, "space" \in gone, ~space, space'
  PROVE  \E r \in Requests : SaveSpace(r)
<1>1. ASSUME NEW r \in Requests, AlbumStep(r) \/ Fail(r)  PROVE UNCHANGED space
  BY <1>1 DEF Fail, AlbumStep, ReadForAdd, ReadForRemove, ReadForUpdate, AssertOwnedMedia, SaveJoin,
     FindJoin, DeleteJoin, SaveAlbum, RemoveAlbum, ClearCover, albumOnly, spaceVars
<1>2. ASSUME NEW r \in Requests, SpaceStep(r)  PROVE SaveSpace(r)
  BY <1>2 DEF SpaceStep, ReadForRename, SaveMember, ReadForMember, ReadForRole, RemoveMember,
     ReadForAssign, ReadForRemoval, UnassignAll, DeleteMembers, DropSpace, FindOwnMedia,
     AssignMedia, spaceVars
<1>3. ASSUME \/ \E name \in Names, cover \in Media \cup {none} : CreateAlbum(name, cover)
             \/ PageStep \/ PlayerStep \/ UNCHANGED vars
      PROVE  UNCHANGED space
  BY <1>3, PageStepsRows DEF CreateAlbum, albumOnly, spaceVars, vars
<1>4. ~CreateSpace
  BY DEF CreateSpace
<1> QED  BY <1>1, <1>2, <1>3, <1>4 DEF Next

LEMMA RoleWriters ==
  ASSUME TypeOK, [Next]_vars, NEW u \in Users, role[u] = "none", role'[u] # "none"
  PROVE  \E r \in Requests : SaveMember(r) /\ req[r].who = u
<1>1. ASSUME NEW r \in Requests, AlbumStep(r) \/ Fail(r)  PROVE UNCHANGED role
  BY <1>1 DEF Fail, AlbumStep, ReadForAdd, ReadForRemove, ReadForUpdate, AssertOwnedMedia, SaveJoin,
     FindJoin, DeleteJoin, SaveAlbum, RemoveAlbum, ClearCover, albumOnly, spaceVars
<1>2. ASSUME NEW r \in Requests, SpaceStep(r)  PROVE SaveMember(r) /\ req[r].who = u
  <2>1. SaveMember(r)
    BY <1>2 DEF SpaceStep, ReadForRename, SaveSpace, ReadForMember, ReadForRole, RemoveMember,
       ReadForAssign, ReadForRemoval, UnassignAll, DeleteMembers, DropSpace, FindOwnMedia,
       AssignMedia, spaceVars, TypeOK
  <2> QED  BY <2>1 DEF SaveMember, TypeOK
<1>3. ASSUME \/ \E name \in Names, cover \in Media \cup {none} : CreateAlbum(name, cover)
             \/ CreateSpace \/ PageStep \/ PlayerStep \/ UNCHANGED vars
      PROVE  UNCHANGED role
  BY <1>3, PageStepsRows DEF CreateAlbum, CreateSpace, albumOnly, spaceVars, vars
<1> QED  BY <1>1, <1>2, <1>3 DEF Next

LEMMA AssignedWriters ==
  ASSUME TypeOK, [Next]_vars, NEW m \in assigned' \ assigned
  PROVE  \E r \in Requests : AssignMedia(r)
<1>1. ASSUME NEW r \in Requests, AlbumStep(r) \/ Fail(r)  PROVE UNCHANGED assigned
  BY <1>1 DEF Fail, AlbumStep, ReadForAdd, ReadForRemove, ReadForUpdate, AssertOwnedMedia, SaveJoin,
     FindJoin, DeleteJoin, SaveAlbum, RemoveAlbum, ClearCover, albumOnly, spaceVars
<1>2. ASSUME NEW r \in Requests, SpaceStep(r)  PROVE AssignMedia(r)
  BY <1>2 DEF SpaceStep, ReadForRename, SaveSpace, SaveMember, ReadForMember, ReadForRole,
     RemoveMember, ReadForAssign, ReadForRemoval, UnassignAll, DeleteMembers, DropSpace,
     FindOwnMedia, spaceVars
<1>3. ASSUME \/ \E name \in Names, cover \in Media \cup {none} : CreateAlbum(name, cover)
             \/ CreateSpace \/ PageStep \/ PlayerStep \/ UNCHANGED vars
      PROVE  assigned' \subseteq assigned
  BY <1>3, PageStepsRows DEF CreateAlbum, CreateSpace, albumOnly, spaceVars, vars
<1> QED  BY <1>1, <1>2, <1>3 DEF Next

-----------------------------------------------------------------------------
\* A deleted album, space or member comes back only by the save of a request
\* that had read it before (save inserts the row it does not find).
THEOREM DeletedRowsStayDeleted == Spec => DeletedStaysDeleted
<1> DEFINE
  Explained ==
    /\ "album" \in gone /\ album = NoAlbum /\ album' # NoAlbum
         => \E r \in Requests : At(r, "save") /\ req[r].overtaken
    /\ "space" \in gone /\ ~space /\ space'
         => \E r \in Requests : At(r, "name") /\ req[r].overtaken
    /\ \A u \in Users : role[u] = "none" /\ role'[u] # "none"
         => \E r \in Requests :
              /\ req[r] # NoRequest /\ req[r].who = u
              /\ (At(r, "member") \/ (At(r, "role") /\ req[r].overtaken))
<1>1. ReadsInv /\ [Next]_vars => Explained
  <2> SUFFICES ASSUME ReadsInv, [Next]_vars  PROVE Explained
    OBVIOUS
  <2>1. TypeOK /\ \A r \in Requests : AsRead(req[r], album, space, role)
    BY DEF ReadsInv
  <2>2. ASSUME "album" \in gone, album = NoAlbum, album' # NoAlbum
        PROVE  \E r \in Requests : At(r, "save") /\ req[r].overtaken
    <3>1. PICK r \in Requests : SaveAlbum(r)
      BY <2>1, <2>2, AlbumWriters DEF RemoveAlbum, ClearCover, Record, GetOwnedAlbum
    <3> QED  BY <2>1, <2>2, <3>1 DEF SaveAlbum, At, AsRead, AlbumAsRead, HoldAlbum
  <2>3. ASSUME "space" \in gone, ~space, space'
        PROVE  \E r \in Requests : At(r, "name") /\ req[r].overtaken
    <3>1. PICK r \in Requests : SaveSpace(r)
      BY <2>1, <2>3, SpaceWriters
    <3> QED  BY <2>1, <2>3, <3>1 DEF SaveSpace, At, AsRead, SpaceAsRead
  <2>4. ASSUME NEW u \in Users, role[u] = "none", role'[u] # "none"
        PROVE  \E r \in Requests :
                 /\ req[r] # NoRequest /\ req[r].who = u
                 /\ (At(r, "member") \/ (At(r, "role") /\ req[r].overtaken))
    <3>1. PICK r \in Requests : SaveMember(r) /\ req[r].who = u
      BY <2>1, <2>4, RoleWriters
    <3>2. req[r] # NoRequest
      BY <3>1 DEF SaveMember, NoRequest
    <3> QED  BY <2>1, <2>4, <3>1, <3>2 DEF SaveMember, At, AsRead, RoleAsRead
  <2> QED  BY <2>2, <2>3, <2>4
<1>2. Spec => [][Explained]_vars
  BY <1>1, LibraryReads, PTL DEF Spec
<1> QED  BY <1>2 DEF DeletedStaysDeleted

\* Media enter a space only for its owner or an editor, unless the role was
\* changed between the check and the update (assignMedia).
THEOREM OnlyEditorsAssign == Spec => AssignedByEditorsOnly
<1> DEFINE
  Allowed ==
    \A m \in assigned' \ assigned :
      \E r \in Requests : /\ At(r, "assign") /\ m \in req[r].what
                          /\ MediaOwner[m] = req[r].who
                          /\ \/ req[r].who = owner \/ req[r].overtaken
                             \/ role[req[r].who] = "editor"
<1>1. ReadsInv /\ [Next]_vars => Allowed
  <2> SUFFICES ASSUME ReadsInv, [Next]_vars, NEW m \in assigned' \ assigned
               PROVE  \E r \in Requests : /\ At(r, "assign") /\ m \in req[r].what
                                          /\ MediaOwner[m] = req[r].who
                                          /\ \/ req[r].who = owner \/ req[r].overtaken
                                             \/ role[req[r].who] = "editor"
    OBVIOUS
  <2>1. TypeOK /\ \A r \in Requests : AsRead(req[r], album, space, role)
    BY DEF ReadsInv
  <2>2. PICK r \in Requests : AssignMedia(r)
    BY <2>1, AssignedWriters
  <2> QED  BY <2>1, <2>2 DEF AssignMedia, At, AsRead, RoleAsRead
<1>2. Spec => [][Allowed]_vars
  BY <1>1, LibraryReads, PTL DEF Spec
<1> QED  BY <1>2 DEF AssignedByEditorsOnly

-----------------------------------------------------------------------------
\* What a step does to the request s: nothing, a mark, or nothing that has to
\* do with clearing a cover.
KeptOrMarked(s) ==
  \/ req'[s] = req[s]
  \/ req[s] \in Request /\ req'[s] = [req[s] EXCEPT !.overtaken = TRUE]
Elsewhere(s) == req[s].pc # "uncover" /\ req'[s].pc # "uncover"

LEMMA OthersKept ==
  ASSUME TypeOK, NEW r \in Requests, AlbumStep(r) \/ SpaceStep(r) \/ Fail(r),
         NEW s \in Requests \ {r}
  PROVE  KeptOrMarked(s)
<1> DEFINE sets == {HoldAlbum, HoldRole, HoldRole \cup {"name"}}
<1>1. \A pcs \in sets :
        /\ Overtaking(r, pcs) \in [Requests -> Request \cup {NoRequest}]
        /\ \/ Overtaking(r, pcs)[s] = req[s]
           \/ req[s] \in Request /\ Overtaking(r, pcs)[s] = [req[s] EXCEPT !.overtaken = TRUE]
  <2>1. \A pcs \in sets : pcs \subseteq Reading
    BY DEF Reading
  <2> HIDE DEF sets
  <2> QED  BY <2>1, OvertakingType
<1>2. req'[s] = req[s] \/ \E pcs \in sets : req'[s] = Overtaking(r, pcs)[s]
  <2>1. CASE AlbumStep(r)
    BY <1>1, <2>1 DEF TypeOK, AlbumStep, ReadForAdd, ReadForRemove, ReadForUpdate, AssertOwnedMedia,
       SaveAlbum, RemoveAlbum, SaveJoin, FindJoin, DeleteJoin, ClearCover, Begin, Goto, End
  <2>2. CASE SpaceStep(r)
    BY <1>1, <2>2 DEF TypeOK, SpaceStep, ReadForRename, SaveSpace, SaveMember, ReadForMember,
       ReadForRole, RemoveMember, ReadForAssign, ReadForRemoval, UnassignAll, DeleteMembers,
       DropSpace, FindOwnMedia, AssignMedia, Begin, Goto, End
  <2>3. CASE Fail(r)
    BY <2>3 DEF TypeOK, Fail, End
  <2> QED  BY <2>1, <2>2, <2>3
<1> QED  BY <1>1, <1>2 DEF KeptOrMarked

\* A step that leaves the album and its history alone.
LEMMA GivenQuiet ==
  ASSUME GivenInv, UNCHANGED <<album, given, lost>>,
         \A s \in Requests : KeptOrMarked(s) \/ Elsewhere(s)
  PROVE  GivenInv'
<1>1. \A s \in Requests : req[s].pc = "uncover" =>
        req'[s].pc = "uncover" /\ req'[s].what = req[s].what
  BY DEF KeptOrMarked, Elsewhere, Request
<1>2. \A s \in Requests : req'[s].pc = "uncover" /\ ~req'[s].overtaken =>
        req'[s] = req[s]
  BY DEF KeptOrMarked, Elsewhere, Request
<1> QED  BY <1>1, <1>2 DEF GivenInv, HistoryOK, AlbumIsAsGiven, At, WasCover

\* Where the record of a step leaves a field.
LEMMA RecordType ==
  ASSUME HistoryOK, NEW row, NEW asked \in [name : Names \cup {none}, cover : Media \cup {none}],
         NEW cause \in {"no", "stale"}, Record(row, asked, cause)
  PROVE  /\ HistoryOK' /\ album' = row /\ given' = asked
         /\ \A f \in Fields :
              /\ row[f] # asked[f] /\ cause = "stale" => lost'[f] = "stale"
              /\ row[f] # asked[f] /\ cause = "no" => lost'[f] = lost[f]
BY DEF HistoryOK, Record, Fields

\* What has been given, at each write of the album.
LEMMA GivenWrites ==
  ASSUME ReadsInv, GivenInv, NEW r \in Requests,
         \/ SaveAlbum(r) \/ RemoveAlbum(r) \/ DeleteJoin(r) \/ ClearCover(r)
  PROVE  GivenInv'
<1>1. /\ TypeOK /\ \A s \in Requests : AsRead(req[s], album, space, role)
      /\ HistoryOK /\ AlbumIsAsGiven
      /\ req \in [Requests -> Request \cup {NoRequest}]
  BY DEF ReadsInv, TypeOK, GivenInv
<1>2. \A s \in Requests \ {r} : KeptOrMarked(s)
  BY <1>1, OthersKept DEF AlbumStep
<1>3. \A s \in Requests \ {r} : req[s].pc = "uncover" =>
        req'[s].pc = "uncover" /\ req'[s].what = req[s].what
  BY <1>2 DEF KeptOrMarked, Request
<1>4. given \in [name : Names \cup {none}, cover : Media \cup {none}] /\ Cause(r) \in {"no", "stale"}
  BY <1>1 DEF HistoryOK, Cause
<1>5. CASE SaveAlbum(r)
  <2>1. req[r] \in Request /\ req[r].pc = "save"
    BY <1>1, <1>5, BusyType DEF SaveAlbum, At
  <2>2. Asked(req[r]) \in [name : Names \cup {none}, cover : Media \cup {none}]
    BY <1>4, <2>1 DEF Asked, Request
  <2>3. /\ HistoryOK' /\ album' = Updated(req[r]) /\ given' = Asked(req[r])
        /\ \A f \in Fields : album'[f] # given'[f] =>
             IF req[r].overtaken THEN lost'[f] = "stale" ELSE lost'[f] = lost[f]
    <3>1. Record(Updated(req[r]), Asked(req[r]), Cause(r))
      BY <1>5 DEF SaveAlbum
    <3> QED  BY <1>1, <1>4, <2>2, <3>1, RecordType DEF Cause
  <2>4. \A s \in Requests : req'[s].pc = "uncover" => req'[s].overtaken
    <3>1. req'[r] = NoRequest /\ NoRequest.pc # "uncover"
      <4>1. Overtaking(r, HoldAlbum) \in [Requests -> Request \cup {NoRequest}]
        BY <1>1, OvertakingType DEF Reading
      <4> QED  BY <1>5, <4>1 DEF SaveAlbum, NoRequest
    <3>2. ASSUME NEW s \in Requests \ {r}, req'[s].pc = "uncover"  PROVE req'[s].overtaken
      <4>1. req[s].pc = "uncover"
        BY <1>2, <3>2 DEF KeptOrMarked, Request
      <4>2. req[s] \in Request /\ req'[s] = [req[s] EXCEPT !.overtaken = TRUE]
        BY <1>1, <1>5, <4>1, OvertakingType DEF SaveAlbum, Reading, HoldAlbum
      <4> QED  BY <4>2 DEF Request
    <3> QED  BY <3>1, <3>2
  <2>5. ASSUME NEW f \in Fields, album'[f] # given'[f], lost'[f] # "stale"
        PROVE  /\ f = "cover"
               /\ \/ lost'[f] = "failed"
                  \/ /\ given'[f] = none
                     /\ \E s \in Requests : req'[s].pc = "uncover" /\ album'[f] \in req'[s].what
    <3>1. lost'[f] = lost[f] /\ req[r].seen = album
      BY <1>1, <2>1, <2>3, <2>5 DEF AsRead, AlbumAsRead, HoldAlbum
    <3>2. f \notin req[r].fields
      BY <2>3, <2>5 DEF Updated, Asked, Fields
    <3>3. album'[f] = album[f] /\ given'[f] = given[f]
      BY <2>3, <3>1, <3>2 DEF Updated, Asked, Fields
    <3>4. /\ f = "cover"
          /\ \/ lost[f] = "failed"
             \/ given[f] = none /\ \E s \in Requests : req[s].pc = "uncover" /\ album[f] \in req[s].what
      BY <1>1, <2>5, <3>1, <3>3 DEF AlbumIsAsGiven, At
    <3> QED  BY <1>3, <2>1, <3>1, <3>3, <3>4
  <2> QED  BY <2>3, <2>4, <2>5 DEF GivenInv, AlbumIsAsGiven, At
<1>6. CASE RemoveAlbum(r)
  <2>1. NoAlbum \in [name : Names \cup {none}, cover : Media \cup {none}]
    BY DEF NoAlbum
  <2>2. HistoryOK' /\ album' = NoAlbum /\ given' = NoAlbum
    <3>1. Record(NoAlbum, NoAlbum, "no")
      BY <1>6 DEF RemoveAlbum
    <3> QED  BY <1>1, <2>1, <3>1, RecordType
  <2>3. ASSUME NEW s \in Requests, req'[s].pc = "uncover"  PROVE req'[s].overtaken
    <3>1. s # r /\ req[s].pc = "uncover"
      <4>1. Overtaking(r, HoldAlbum)[r] = NoRequest
        BY <1>1, <1>6, OvertakingType DEF Reading, RemoveAlbum, Idle
      <4>2. req'[r] = NoRequest
        BY <1>6, <4>1 DEF RemoveAlbum
      <4>3. s # r
        BY <2>3, <4>2 DEF NoRequest
      <4> QED  BY <1>2, <2>3, <4>3 DEF KeptOrMarked, Request
    <3>2. req[s] \in Request /\ req'[s] = [req[s] EXCEPT !.overtaken = TRUE]
      BY <1>1, <1>6, <3>1, OvertakingType DEF RemoveAlbum, Reading, HoldAlbum
    <3> QED  BY <3>2 DEF Request
  <2> QED  BY <2>2, <2>3 DEF GivenInv, AlbumIsAsGiven, At
<1>7. CASE DeleteJoin(r)
  <2> DEFINE asked == AskedWithout(req[r].what)
             cause == IF WasCover(req[r]) THEN "no" ELSE Cause(r)
  <2>1. req[r] \in Request /\ req[r].pc = "unjoin"
    BY <1>1, <1>7, BusyType DEF DeleteJoin, At
  <2>2. /\ asked \in [name : Names \cup {none}, cover : Media \cup {none}]
        /\ asked.name = given.name
        /\ asked.cover = IF given.cover \in req[r].what THEN none ELSE given.cover
    BY <1>4 DEF AskedWithout
  <2>3. cause \in {"no", "stale"} /\ Record(album, asked, cause)
    BY <1>4, <1>7 DEF DeleteJoin
  <2>4. /\ HistoryOK' /\ album' = album /\ given' = asked
        /\ \A f \in Fields : album'[f] # given'[f] =>
             IF cause = "stale" THEN lost'[f] = "stale" ELSE lost'[f] = lost[f]
    <3> HIDE DEF asked, cause
    <3> QED  BY <1>1, <2>2, <2>3, RecordType
  <2>5. req' = [req EXCEPT ![r] = IF WasCover(req[r]) THEN [req[r] EXCEPT !.pc = "uncover"] ELSE NoRequest]
    BY <1>1, <1>7 DEF DeleteJoin, Goto, End
  <2>6. WasCover(req[r]) => /\ req'[r].pc = "uncover" /\ req'[r].what = req[r].what
                            /\ req'[r].seen = req[r].seen
    BY <1>1, <2>1, <2>5 DEF Request
  <2>7. ~WasCover(req[r]) => req'[r].pc # "uncover"
    BY <1>1, <2>5 DEF NoRequest
  <2>8. req[r].what \subseteq Media /\ none \notin req[r].what
    BY <2>1, LibraryConstants DEF Request
  <2>9. ASSUME NEW s \in Requests, req'[s].pc = "uncover", ~req'[s].overtaken
        PROVE  WasCover(req'[s]) /\ given'.cover \notin req'[s].what
    <3>1. CASE s = r
      BY <2>2, <2>4, <2>6, <2>7, <2>8, <2>9, <3>1 DEF WasCover
    <3>2. CASE s # r
      <4>1. req'[s] = req[s]
        BY <1>1, <2>5, <3>2
      <4>2. WasCover(req[s]) /\ given.cover \notin req[s].what
        BY <2>9, <4>1 DEF GivenInv, At
      <4>3. none \notin req[s].what
        <5>1. req[s] \in Request
          BY <1>1, <2>9, <4>1, BusyType
        <5> QED  BY <5>1, LibraryConstants DEF Request
      <4> QED  BY <2>2, <2>4, <4>1, <4>2, <4>3
    <3> QED  BY <3>1, <3>2
  <2>10. ASSUME NEW f \in Fields, album'[f] # given'[f], lost'[f] # "stale"
        PROVE  /\ f = "cover"
               /\ \/ lost'[f] = "failed"
                  \/ /\ given'[f] = none
                     /\ \E s \in Requests : req'[s].pc = "uncover" /\ album'[f] \in req'[s].what
    <3>1. lost'[f] = lost[f] /\ cause = "no"
      BY <2>3, <2>4, <2>10
    <3>2. CASE album[f] # given[f]
      <4>1. /\ f = "cover"
            /\ \/ lost[f] = "failed"
               \/ given[f] = none /\ \E s \in Requests : req[s].pc = "uncover" /\ album[f] \in req[s].what
        BY <1>1, <2>10, <3>1, <3>2 DEF AlbumIsAsGiven, At
      <4>2. given[f] = none => given'[f] = none
        BY <2>2, <2>4, <2>8, <4>1
      <4> QED  BY <1>3, <2>1, <2>4, <3>1, <4>1, <4>2
    <3>3. CASE album[f] = given[f]
      <4>1. f = "cover" /\ album.cover \in req[r].what /\ given'[f] = none
        BY <2>2, <2>4, <2>10, <3>3 DEF Fields
      <4>2. WasCover(req[r])
        <5>1. SUFFICES ASSUME ~WasCover(req[r])  PROVE FALSE
          OBVIOUS
        <5>2. ~req[r].overtaken
          BY <3>1, <5>1 DEF Cause
        <5>3. req[r].seen = album
          BY <1>1, <2>1, <5>2 DEF AsRead, AlbumAsRead, HoldAlbum
        <5> QED  BY <4>1, <5>1, <5>3 DEF WasCover
      <4> QED  BY <2>4, <2>6, <4>1, <4>2
    <3> QED  BY <3>2, <3>3
  <2> HIDE DEF asked, cause
  <2> QED  BY <2>4, <2>9, <2>10 DEF GivenInv, AlbumIsAsGiven, At
<1>8. CASE ClearCover(r)
  <2> DEFINE row == IF album = NoAlbum THEN album ELSE [album EXCEPT !.cover = none]
  <2>1. req[r] \in Request /\ req[r].pc = "uncover"
    BY <1>1, <1>8, BusyType DEF ClearCover, At
  <2>2. row.name = album.name /\ row.cover = none
    BY <1>1 DEF TypeOK, Album, NoAlbum
  <2>3. /\ HistoryOK' /\ album' = row /\ given' = given
        /\ \A f \in Fields : album'[f] # given'[f] =>
             IF req[r].overtaken THEN lost'[f] = "stale" ELSE lost'[f] = lost[f]
    <3>1. Record(row, given, Cause(r))
      BY <1>8 DEF ClearCover
    <3> HIDE DEF row
    <3> QED  BY <1>1, <1>4, <3>1, RecordType DEF Cause
  <2> HIDE DEF row
  <2>4. \A s \in Requests : req'[s].pc = "uncover" => req'[s].overtaken
    <3>1. req'[r] = NoRequest /\ NoRequest.pc # "uncover"
      <4>1. Overtaking(r, HoldAlbum) \in [Requests -> Request \cup {NoRequest}]
        BY <1>1, OvertakingType DEF Reading
      <4> QED  BY <1>8, <4>1 DEF ClearCover, NoRequest
    <3>2. ASSUME NEW s \in Requests \ {r}, req'[s].pc = "uncover"  PROVE req'[s].overtaken
      <4>1. req[s].pc = "uncover"
        BY <1>2, <3>2 DEF KeptOrMarked, Request
      <4>2. req[s] \in Request /\ req'[s] = [req[s] EXCEPT !.overtaken = TRUE]
        BY <1>1, <1>8, <4>1, OvertakingType DEF ClearCover, Reading, HoldAlbum
      <4> QED  BY <4>2 DEF Request
    <3> QED  BY <3>1, <3>2
  <2>5. ASSUME NEW f \in Fields, album'[f] # given'[f], lost'[f] # "stale"
        PROVE  f = "cover" /\ lost'[f] = "failed"
    <3>1. lost'[f] = lost[f] /\ ~req[r].overtaken
      BY <2>3, <2>5
    <3>2. given.cover \notin req[r].what /\ req[r].seen = album /\ album.cover \in req[r].what
      BY <1>1, <2>1, <3>1 DEF GivenInv, At, WasCover, AsRead, AlbumAsRead, HoldAlbum
    <3>3. (album[f] # given[f] /\ given.cover # none) \/ f = "name"
      BY <2>2, <2>3, <2>5, <3>2 DEF Fields
    <3>4. album[f] # given[f]
      BY <2>2, <2>3, <2>5, <3>3
    <3> QED  BY <1>1, <2>5, <3>1, <3>3, <3>4 DEF AlbumIsAsGiven
  <2> QED  BY <2>3, <2>4, <2>5 DEF GivenInv, AlbumIsAsGiven, At
<1> QED  BY <1>5, <1>6, <1>7, <1>8

\* The requests of the space never come near the cover.
LEMMA SpaceElsewhere ==
  ASSUME TypeOK, NEW r \in Requests, SpaceStep(r)  PROVE Elsewhere(r)
<1> DEFINE pcs == {"name", "member", "role", "unassign", "unmember", "drop", "find", "assign"}
<1>1. \A pc \in pcs : NewRequest(pc) \in Request /\ NewRequest(pc).pc = pc
  BY NewType
<1>2. \A q \in Request : \A u, as, ms :
        /\ [q EXCEPT !.who = u, !.as = as].pc = q.pc /\ [q EXCEPT !.who = u, !.what = ms].pc = q.pc
        /\ [q EXCEPT !.pc = "assign", !.what = ms].pc = "assign"
        /\ [q EXCEPT !.pc = "unmember"].pc = "unmember" /\ [q EXCEPT !.pc = "drop"].pc = "drop"
  BY DEF Request
<1>3. NoRequest.pc = "idle"
  BY DEF NoRequest
<1>4. req \in [Requests -> Request \cup {NoRequest}] /\ (req[r].pc \in pcs => req[r] \in Request)
  BY BusyType DEF TypeOK
<1>5. /\ HoldRole \subseteq Reading /\ HoldRole \cup {"name"} \subseteq Reading
  BY DEF Reading
<1>6. ASSUME NEW set, set \subseteq Reading
      PROVE  Overtaking(r, set) \in [Requests -> Request \cup {NoRequest}] /\ Overtaking(r, set)[r] = req[r]
  BY <1>6, OvertakingType
<1>7. ASSUME NEW q, q.pc # "uncover", req[r].pc # "uncover",
             \/ req' = [req EXCEPT ![r] = q]
             \/ req' = [Overtaking(r, HoldRole) EXCEPT ![r] = q]
             \/ req' = [Overtaking(r, HoldRole \cup {"name"}) EXCEPT ![r] = q]
      PROVE  Elsewhere(r)
  BY <1>4, <1>5, <1>6, <1>7 DEF Elsewhere
<1>8. CASE ReadForRename(r) \/ ReadForRemoval(r)
  BY <1>1, <1>3, <1>7, <1>8 DEF ReadForRename, ReadForRemoval, Begin, Idle
<1>9. ASSUME NEW u \in Users, NEW as \in Roles, ReadForMember(r, u, as) \/ ReadForRole(r, u, as)
      PROVE  Elsewhere(r)
  <2>1. PICK pc \in {"member", "role"} :
          req[r] = NoRequest /\ req' = [req EXCEPT ![r] = [NewRequest(pc) EXCEPT !.who = u, !.as = as]]
    BY <1>9 DEF ReadForMember, ReadForRole, Begin, Idle
  <2>2. [NewRequest(pc) EXCEPT !.who = u, !.as = as].pc = pc
    BY <1>1, <1>2
  <2> QED  BY <1>3, <1>7, <2>1, <2>2
<1>10. ASSUME NEW u \in Users, NEW ms \in SUBSET Media, ReadForAssign(r, u, ms)  PROVE Elsewhere(r)
  <2>1. req[r] = NoRequest /\ req' = [req EXCEPT ![r] = [NewRequest("find") EXCEPT !.who = u, !.what = ms]]
    BY <1>10 DEF ReadForAssign, Begin, Idle
  <2>2. [NewRequest("find") EXCEPT !.who = u, !.what = ms].pc = "find"
    BY <1>1, <1>2
  <2> QED  BY <1>3, <1>7, <2>1, <2>2
<1>11. CASE SaveSpace(r) \/ SaveMember(r) \/ DropSpace(r) \/ AssignMedia(r)
  BY <1>3, <1>7, <1>11 DEF SaveSpace, SaveMember, DropSpace, AssignMedia, End, At
<1>12. CASE FindOwnMedia(r)
  <2> DEFINE own == {m \in req[r].what \cap media : MediaOwner[m] = req[r].who}
             q   == [req[r] EXCEPT !.pc = "assign", !.what = own]
  <2>1. req[r].pc = "find" /\ (req' = [req EXCEPT ![r] = NoRequest] \/ req' = [req EXCEPT ![r] = q])
    BY <1>4, <1>12 DEF FindOwnMedia, End, At
  <2>2. q.pc = "assign"
    BY <1>2, <1>4, <2>1
  <2> HIDE DEF own, q
  <2> QED  BY <1>3, <1>7, <2>1, <2>2
<1>13. CASE UnassignAll(r)
  <2>1. req[r].pc = "unassign" /\ req' = [req EXCEPT ![r] = [req[r] EXCEPT !.pc = "unmember"]]
    BY <1>13 DEF UnassignAll, Goto, At
  <2> QED  BY <1>2, <1>4, <1>7, <2>1
<1>14. CASE DeleteMembers(r)
  <2>1. req[r].pc = "unmember" /\ req' = [Overtaking(r, HoldRole) EXCEPT ![r] = [req[r] EXCEPT !.pc = "drop"]]
    BY <1>5, <1>6, <1>14 DEF DeleteMembers, At
  <2> QED  BY <1>2, <1>4, <1>7, <2>1
<1>15. ASSUME NEW u \in Users, RemoveMember(r, u)  PROVE Elsewhere(r)
  BY <1>3, <1>5, <1>6, <1>15 DEF RemoveMember, Idle, Elsewhere
<1> QED  BY <1>8, <1>9, <1>10, <1>11, <1>12, <1>13, <1>14, <1>15 DEF SpaceStep

LEMMA StepGiven == ReadsInv /\ GivenInv /\ [Next]_vars => GivenInv'
<1> SUFFICES ASSUME ReadsInv, GivenInv, [Next]_vars  PROVE GivenInv'
  OBVIOUS
<1>1. /\ TypeOK /\ HistoryOK /\ AlbumIsAsGiven
      /\ \A s \in Requests : AsRead(req[s], album, space, role)
  BY DEF ReadsInv, GivenInv
<1>2. CASE UNCHANGED <<album, given, lost, req>>
  BY <1>2, GivenQuiet DEF KeptOrMarked
<1>3. ASSUME NEW name \in Names, NEW cover \in Media \cup {none}, CreateAlbum(name, cover)
      PROVE  GivenInv'
  <2> DEFINE row == [name |-> name, cover |-> cover]
  <2>1. Record(row, row, "no") /\ req' = req /\ album = NoAlbum
    BY <1>3 DEF CreateAlbum
  <2>2. row \in [name : Names \cup {none}, cover : Media \cup {none}]
    OBVIOUS
  <2> HIDE DEF row
  <2>3. HistoryOK' /\ album' = row /\ given' = row
    BY <1>1, <2>1, <2>2, RecordType
  <2>4. \A s \in Requests : req[s].pc = "uncover" => req[s].overtaken
    BY <1>1, <2>1 DEF AsRead, AlbumAsRead, HoldAlbum
  <2> QED  BY <2>1, <2>3, <2>4 DEF GivenInv, AlbumIsAsGiven, At
<1>4. ASSUME NEW r \in Requests, AlbumStep(r),
             ~(SaveAlbum(r) \/ RemoveAlbum(r) \/ DeleteJoin(r) \/ ClearCover(r))
      PROVE  GivenInv'
  <2>1. UNCHANGED <<album, given, lost>>
    BY <1>4 DEF AlbumStep, ReadForAdd, ReadForRemove, ReadForUpdate, AssertOwnedMedia, SaveJoin,
       FindJoin, albumVars
  <2>2. Elsewhere(r)
    <3>1. \A pc \in {"cover", "save", "join", "look"} : NewRequest(pc) \in Request /\ NewRequest(pc).pc = pc
      BY NewType
    <3>2. ASSUME NEW m \in Media, ReadForAdd(r, m) \/ ReadForRemove(r, m)  PROVE Elsewhere(r)
      <4>1. /\ [NewRequest("join") EXCEPT !.what = {m}].pc = "join"
            /\ [NewRequest("look") EXCEPT !.seen = album, !.what = {m}].pc = "look"
        BY <3>1 DEF Request
      <4>2. PICK q : q.pc # "uncover" /\ req' = [req EXCEPT ![r] = q] /\ req[r] = NoRequest
        BY <3>2, <4>1 DEF ReadForAdd, ReadForRemove, Begin, Idle
      <4> QED  BY <1>1, <4>2 DEF Elsewhere, NoRequest, TypeOK
    <3>3. ASSUME NEW fields \in SUBSET Fields, NEW name \in Names \cup {none},
                 NEW cover \in Media \cup {none}, ReadForUpdate(r, fields, name, cover)
          PROVE  Elsewhere(r)
      <4> DEFINE pc == IF "cover" \in fields /\ cover # none THEN "cover" ELSE "save"
                 q  == [NewRequest(pc) EXCEPT !.seen = album, !.fields = fields,
                                              !.name = name, !.cover = cover]
      <4>1. q.pc # "uncover"
        BY <3>1 DEF Request
      <4>2. req' = [req EXCEPT ![r] = q] /\ req[r] = NoRequest
        BY <3>3 DEF ReadForUpdate, Begin, Idle
      <4> HIDE DEF q
      <4> QED  BY <1>1, <4>1, <4>2 DEF Elsewhere, NoRequest, TypeOK
    <3>4. CASE AssertOwnedMedia(r) \/ SaveJoin(r) \/ FindJoin(r)
      <4>1. req[r] \in Request /\ req[r].pc \in {"cover", "join", "look"}
        BY <1>1, <3>4, BusyType DEF AssertOwnedMedia, SaveJoin, FindJoin, At
      <4>2. \/ req' = [req EXCEPT ![r] = NoRequest]
            \/ req' = [req EXCEPT ![r].pc = "save"] \/ req' = [req EXCEPT ![r].pc = "unjoin"]
        BY <3>4 DEF AssertOwnedMedia, SaveJoin, FindJoin, Goto, End
      <4>3. NoRequest.pc # "uncover"
        BY DEF NoRequest
      <4> QED  BY <1>1, <4>1, <4>2, <4>3 DEF Elsewhere, TypeOK, Request
    <3> QED  BY <1>4, <3>2, <3>3, <3>4 DEF AlbumStep
  <2>3. \A s \in Requests \ {r} : KeptOrMarked(s)
    BY <1>1, <1>4, OthersKept
  <2> QED  BY <2>1, <2>2, <2>3, GivenQuiet
<1>5. ASSUME NEW r \in Requests, SpaceStep(r)  PROVE GivenInv'
  <2>1. UNCHANGED <<album, given, lost>>
    BY <1>5 DEF SpaceStep, ReadForRename, SaveSpace, SaveMember, ReadForMember, ReadForRole,
       RemoveMember, ReadForAssign, ReadForRemoval, UnassignAll, DeleteMembers, DropSpace,
       FindOwnMedia, AssignMedia, spaceOnly, albumVars
  <2>2. Elsewhere(r)
    BY <1>1, <1>5, SpaceElsewhere
  <2>3. \A s \in Requests \ {r} : KeptOrMarked(s)
    BY <1>1, <1>5, OthersKept
  <2> QED  BY <2>1, <2>2, <2>3, GivenQuiet
<1>6. ASSUME NEW r \in Requests, Fail(r)  PROVE GivenInv'
  <2>1. req' = [req EXCEPT ![r] = NoRequest] /\ NoRequest.pc # "uncover"
    BY <1>6 DEF Fail, End, NoRequest
  <2>2. CASE ~(At(r, "uncover") /\ album.cover # given.cover)
    <3>1. UNCHANGED <<album, given, lost>>
      BY <1>6, <2>2 DEF Fail
    <3>2. CASE At(r, "uncover")
      <4>1. AlbumIsAsGiven'
        BY <1>1, <2>1, <2>2, <3>1, <3>2 DEF AlbumIsAsGiven, At, Fields, TypeOK
      <4> QED  BY <1>1, <2>1, <3>1, <4>1 DEF GivenInv, HistoryOK, At, WasCover, TypeOK
    <3>3. CASE ~At(r, "uncover")
      <4>1. Elsewhere(r) /\ \A s \in Requests \ {r} : KeptOrMarked(s)
        BY <1>1, <2>1, <3>3 DEF Elsewhere, KeptOrMarked, At, TypeOK
      <4> QED  BY <3>1, <4>1, GivenQuiet
    <3> QED  BY <3>2, <3>3
  <2>3. CASE At(r, "uncover") /\ album.cover # given.cover
    <3>1. lost' = [lost EXCEPT !.cover = "failed"] /\ UNCHANGED <<album, given>>
      BY <1>6, <2>3 DEF Fail
    <3>2. HistoryOK' /\ lost'.cover = "failed" /\ lost'["name"] = lost["name"]
      BY <1>1, <3>1 DEF HistoryOK, Fields
    <3>3. AlbumIsAsGiven'
      BY <1>1, <3>1, <3>2 DEF AlbumIsAsGiven, Fields
    <3> QED  BY <1>1, <2>1, <3>1, <3>2, <3>3 DEF GivenInv, At, WasCover, TypeOK
  <2> QED  BY <2>2, <2>3
<1>7. UNCHANGED <<album, given, lost, req>> \/ ~(CreateSpace \/ PageStep \/ PlayerStep \/ UNCHANGED vars)
  BY <1>1, PageStepsRows DEF CreateSpace, spaceOnly, albumVars, vars
<1> QED  BY <1>2, <1>3, <1>4, <1>5, <1>6, <1>7, GivenWrites DEF Next

-----------------------------------------------------------------------------
\* The grid: no step makes media, and the page takes out only what is gone.
LEMMA GridQuiet ==
  ASSUME GridInv, PageTypeOK', media' \subseteq media, UNCHANGED pageVars
  PROVE  GridInv'
BY DEF GridInv, GridHidesNothing, pageVars

LEMMA StepGrid == TypeOK /\ GridInv /\ [Next]_vars => GridInv'
<1> SUFFICES ASSUME TypeOK, GridInv, [Next]_vars  PROVE GridInv'
  OBVIOUS
<1> DEFINE Own == {m \in media : MediaOwner[m] = owner}
<1>1. PageTypeOK /\ PageTypeOK' /\ media \subseteq Media
  BY PageTypes DEF GridInv, TypeOK
<1>2. CASE UNCHANGED <<media, pageVars>>
  BY <1>1, <1>2, GridQuiet
<1>3. CASE UNCHANGED vars
  BY <1>2, <1>3 DEF vars
<1>4. ASSUME \/ \E name \in Names, cover \in Media \cup {none} : CreateAlbum(name, cover)
             \/ CreateSpace \/ PlayerStep
      PROVE  UNCHANGED <<media, pageVars>>
  BY <1>4 DEF CreateAlbum, CreateSpace, PlayerStep, ClosePlayer, OpenPlayer, Attach, ImportAnswers,
     albumOnly, spaceOnly, playerOnly
<1>5. ASSUME NEW r \in Requests, AlbumStep(r) \/ SpaceStep(r) \/ Fail(r)
      PROVE  UNCHANGED <<media, pageVars>>
  BY <1>5 DEF AlbumStep, SpaceStep, Fail, ReadForAdd, ReadForRemove, ReadForUpdate,
     AssertOwnedMedia, SaveAlbum, RemoveAlbum, SaveJoin, FindJoin, DeleteJoin, ClearCover,
     ReadForRename, SaveSpace, SaveMember, ReadForMember, ReadForRole, RemoveMember, ReadForAssign,
     ReadForRemoval, UnassignAll, DeleteMembers, DropSpace, FindOwnMedia, AssignMedia,
     albumOnly, spaceOnly
<1>6. CASE \/ Load \/ LoadAnswers \/ EnterSelectionMode \/ ExitSelectionMode \/ ToggleAll
           \/ RequestBulkDelete \/ CancelBulkDelete \/ \E m \in Media : Toggle(m)
  BY <1>1, <1>6 DEF GridInv, GridHidesNothing, Load, LoadAnswers, EnterSelectionMode, ExitSelectionMode,
     ToggleAll, RequestBulkDelete, CancelBulkDelete, Toggle
<1>7. ASSUME NEW m \in Media, ConfirmBulkDelete(m)  PROVE GridInv'
  <2>1. /\ deleting' = [ids |-> selected, left |-> selected \ {m}, now |-> m, done |-> FALSE]
        /\ mode = "confirm" /\ UNCHANGED <<media, items>>
    BY <1>7 DEF ConfirmBulkDelete
  <2>2. deleting'.ids \ deleting'.left \subseteq {m} /\ deleting'.now = m /\ ~deleting'.done
    BY <2>1
  <2> QED  BY <1>1, <2>1, <2>2 DEF GridInv, GridHidesNothing
<1>8. ASSUME NEW m \in Media, DeleteMedia(m)  PROVE GridInv'
  BY <1>1, <1>8, GridQuiet DEF DeleteMedia, RemoveRow
<1>9. CASE ServerDeletes
  <2>1. /\ deleting' = [deleting EXCEPT !.done = TRUE] /\ media' = media \ {deleting.now}
        /\ UNCHANGED <<items, failed, mode>>
    BY <1>9 DEF ServerDeletes, RemoveRow
  <2>2. deleting'.ids = deleting.ids /\ deleting'.left = deleting.left /\ deleting'.now = deleting.now
    BY <1>1, <2>1 DEF PageTypeOK
  <2> QED  BY <1>1, <2>1, <2>2 DEF GridInv, GridHidesNothing
<1>10. CASE DeleteSucceeds \/ DeleteFails
  <2>1. PICK fails : /\ Continue(fails) /\ media' = media /\ failed \subseteq fails
                     /\ \A m \in deleting.ids \ deleting.left : m \in media => m \in fails
    BY <1>10 DEF DeleteSucceeds, DeleteFails, GridInv
  <2>2. ASSUME NEW m \in deleting.left,
               deleting' = [deleting EXCEPT !.left = @ \ {m}, !.now = m, !.done = FALSE],
               failed' = fails, UNCHANGED <<items, selected, mode>>
        PROVE  GridInv'
    <3>1. /\ deleting'.ids = deleting.ids /\ deleting'.left = deleting.left \ {m}
          /\ deleting'.now = m /\ deleting'.done = FALSE
      BY <1>1, <2>2 DEF PageTypeOK
    <3> QED  BY <1>1, <2>1, <2>2, <3>1 DEF GridInv, GridHidesNothing
  <2>3. CASE /\ deleting.left = {}
             /\ deleting' = NoDeletion /\ failed' = fails /\ items' = Kept(fails)
             /\ selected' = fails
             /\ mode' = IF fails = {} /\ mode \in {"select", "confirm"} THEN "browse" ELSE mode
    <3>1. deleting'.ids = {} /\ deleting'.now = none /\ ~deleting'.done
      BY <2>3 DEF NoDeletion
    <3>2. mode' \in {"browse", "select", "confirm"} => mode \in {"browse", "select", "confirm"}
      BY <2>3
    <3>3. GridHidesNothing'
      BY <2>1, <2>3, <3>2 DEF GridInv, GridHidesNothing, Kept
    <3> QED  BY <1>1, <3>1, <3>3 DEF GridInv
  <2> QED  BY <2>1, <2>2, <2>3 DEF Continue
<1> QED  BY <1>2, <1>3, <1>4, <1>5, <1>6, <1>7, <1>8, <1>9, <1>10 DEF Next, PageStep

LEMMA InitGivenGrid == Init => GivenInv /\ GridInv
<1> SUFFICES ASSUME Init  PROVE GivenInv /\ GridInv
  OBVIOUS
<1>1. HistoryOK /\ album = given
  BY DEF Init, HistoryOK, NoAlbum
<1>2. \A r \in Requests : req[r].pc # "uncover"
  BY DEF Init, NoRequest
<1>3. PageTypeOK
  BY DEF Init, PageTypeOK, Modes, NoDeletion
<1> QED  BY <1>1, <1>2, <1>3 DEF Init, GivenInv, AlbumIsAsGiven, At, GridInv, GridHidesNothing, NoDeletion

\* What has been given for the album, and who may still take it back: the
\* inductive invariant of AlbumsService's writes.
THEOREM AlbumsGiven == Spec => []GivenInv
<1>1. Init => GivenInv
  BY InitGivenGrid
<1> QED  BY <1>1, LibraryReads, StepGiven, PTL DEF Spec

\* Each field of the album shows what was last given for it, but for a removal
\* about to clear the cover or failed before it, and for requests that acted
\* on what they had read before another wrote (AlbumsService).
THEOREM AlbumsShowWhatWasGiven == Spec => []AlbumIsAsGiven
<1>1. GivenInv => AlbumIsAsGiven
  BY DEF GivenInv
<1> QED  BY <1>1, AlbumsGiven, PTL

\* Rows and page keep their types, every HLS player is destroyed but for
\* imports that were overtaken (VideoPlaybackService), and the grid hides no
\* media that there is (GalleryPageComponent).
THEOREM LibraryInvariant == Spec => []LibraryInv
<1>1. Init => ImportsInv /\ GridInv
  BY InitLibrary, InitGivenGrid
<1>2. ReadsInv => TypeOK
  BY DEF ReadsInv
<1>3. TypeOK /\ GivenInv /\ ImportsInv /\ GridInv => LibraryInv
  BY DEF ImportsInv, GivenInv, GridInv, LibraryInv, PlayersAreDestroyed
<1> QED  BY <1>1, <1>2, <1>3, LibraryReads, AlbumsGiven, StepImports, StepGrid, PTL DEF Spec
=============================================================================
