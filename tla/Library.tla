------------------------------- MODULE Library ------------------------------
(***************************************************************************)
(* Albums, storage spaces and the gallery page over the same media.        *)
(***************************************************************************)
EXTENDS Albums, StorageSpaces, GalleryPage

Init ==
  /\ media = Media
  /\ album = NoAlbum /\ inAlbum = {}
  /\ given = NoAlbum /\ lost = [f \in Fields |-> "no"]
  /\ space = FALSE /\ role = [u \in Users |-> "none"] /\ assigned = {}
  /\ gone = {} /\ req = [r \in Requests |-> NoRequest]
  /\ items = {} /\ selected = {} /\ failed = {} /\ mode = "loading"
  /\ deleting = NoDeletion
  /\ video = none /\ players = {} /\ attached = none /\ overlapped = {}
  /\ open = [o \in Opens |-> "no"]

\* A query fails, or the process stops, between two steps of a request.  A
\* removal that fails last leaves the cover.
Fail(r) ==
  /\ ~Idle(r) /\ End(r)
  /\ lost' = IF At(r, "uncover") /\ album.cover # given.cover
               THEN [lost EXCEPT !.cover = "failed"] ELSE lost
  /\ UNCHANGED <<media, album, inAlbum, given, spaceVars, gone, pageVars, playerVars>>

Next ==
  \/ \E name \in Names, cover \in Media \cup {none} : CreateAlbum(name, cover)
  \/ CreateSpace
  \/ \E r \in Requests : AlbumStep(r) \/ SpaceStep(r) \/ Fail(r)
  \/ PageStep \/ PlayerStep

Spec == Init /\ [][Next]_vars

-----------------------------------------------------------------------------
\* What has been deleted stays deleted: an album, a space or a member comes
\* back only when an update that had read the row before saves it afterwards
\* (save inserts what it does not find).
DeletedStaysDeleted ==
  [][/\ "album" \in gone /\ album = NoAlbum /\ album' # NoAlbum
          => \E r \in Requests : At(r, "save") /\ req[r].overtaken
     /\ "space" \in gone /\ ~space /\ space'
          => \E r \in Requests : At(r, "name") /\ req[r].overtaken
     /\ \A u \in Users : role[u] = "none" /\ role'[u] # "none"
          => \E r \in Requests :
               /\ req[r] # NoRequest /\ req[r].who = u
               /\ (At(r, "member") \/ (At(r, "role") /\ req[r].overtaken))]_vars

\* Each field of the album shows what was last given for it (create, update, or
\* removeMedia, which takes the media off the cover), except while a removal is
\* about to clear the cover; after a request acted on an album it had read
\* before another wrote it (save writes the whole row back, removeMedia clears,
\* or leaves, the cover by what it had read); and, for the cover alone, after a
\* removal that failed before it came to clear it.  A cover whose media is
\* deleted stays: the column is no foreign key.
AlbumIsAsGiven ==
  \A f \in Fields :
    \/ album[f] = given[f]
    \/ lost[f] = "stale"
    \/ f = "cover" /\ lost[f] = "failed"
    \/ /\ f = "cover" /\ given[f] = none
       /\ \E r \in Requests : At(r, "uncover") /\ album[f] \in req[r].what

\* Media enter a space only for its owner or an editor, and only their own,
\* unless the role has changed after it was checked.
AssignedByEditorsOnly ==
  [][\A m \in assigned' \ assigned :
       \E r \in Requests : /\ At(r, "assign") /\ m \in req[r].what
                           /\ MediaOwner[m] = req[r].who
                           /\ \/ req[r].who = owner \/ req[r].overtaken
                              \/ role[req[r].who] = "editor"]_vars

\* The player that plays is the one that will be destroyed, and none is left
\* when the player is closed, unless the library came after the player it was
\* loaded for had been closed or replaced.
PlayersAreDestroyed ==
  \/ \E o \in overlapped : open[o] = "done"
  \/ players \subseteq {attached} /\ (video = none => players = {})

\* Once loaded, the grid shows every media of the owner that there is: a bulk
\* deletion takes out of it what the server has deleted and keeps what failed.
GridHidesNothing ==
  mode \in {"browse", "select", "confirm"} =>
    {m \in media : MediaOwner[m] = owner} \subseteq items

\* The types of the rows and of the page, the players and the grid.
LibraryInv == TypeOK /\ HistoryOK /\ PageTypeOK /\ PlayersAreDestroyed /\ GridHidesNothing

-----------------------------------------------------------------------------
(***************************************************************************)
(* What makes these inductive: of each request, that what it has read      *)
(* still holds or that it is marked, and of the player, that at most one   *)
(* import is for the video on show.                                        *)
(***************************************************************************)
AlbumAsRead(q, row) ==
  /\ q.pc \in HoldAlbum => q.seen # NoAlbum /\ (q.seen = row \/ q.overtaken)
  /\ q.pc \in {"cover", "save"} /\ "name" \in q.fields => q.name # none
  /\ q.pc \in {"look", "unjoin"} => \E m \in Media : q.what = {m}

SpaceAsRead(q, there) == q.pc = "name" => there \/ q.overtaken

RoleAsRead(q, roles) ==
  /\ q.pc = "role" => roles[q.who] # "none" \/ q.overtaken
  /\ q.pc \in {"find", "assign"} => q.who = owner \/ roles[q.who] = "editor" \/ q.overtaken
  /\ q.pc = "assign" => \A m \in q.what : MediaOwner[m] = q.who

AsRead(q, row, there, roles) ==
  AlbumAsRead(q, row) /\ SpaceAsRead(q, there) /\ RoleAsRead(q, roles)

ReadsInv == TypeOK /\ \A r \in Requests : AsRead(req[r], album, space, role)

\* A removal that nobody has overtaken clears a cover that nobody has given.
GivenInv ==
  /\ HistoryOK /\ AlbumIsAsGiven
  /\ \A r \in Requests : At(r, "uncover") /\ ~req[r].overtaken =>
       WasCover(req[r]) /\ given.cover \notin req[r].what

\* What a bulk deletion is through with and has not failed is gone.
GridInv ==
  /\ PageTypeOK /\ GridHidesNothing
  /\ \A m \in deleting.ids \ deleting.left :
       m \in media => m \in failed \/ m = deleting.now
  /\ deleting.done => deleting.now \notin media

Importing == {o \in Opens : open[o] = "import"} \ overlapped

ImportsInv ==
  /\ PageTypeOK
  /\ \/ \E o \in overlapped : open[o] = "done"
     \/ /\ players \subseteq {attached} /\ (video = none => players = {})
        /\ Importing # {} => players = {} /\ video # none
        /\ \A o, p \in Importing : o = p

=============================================================================
