---------------------------- MODULE LibraryState ----------------------------
(***************************************************************************)
(* The rows that AlbumsService and StorageSpacesService share, and the     *)
(* requests that work on them: the media of two users, one album of the    *)
(* owner, one storage space of the owner with its members, and the gallery *)
(* page of the owner's browser.                                            *)
(***************************************************************************)
EXTENDS Integers, FiniteSets

CONSTANTS
  Media, Users,     \* media rows there are at the start, and users
  owner,            \* the owner of the album and of the space
  MediaOwner,       \* the user each media belongs to
  Names,            \* names of an album
  Requests,         \* slots for requests in flight
  Opens             \* the videos the page opens, one after the other

VARIABLES
  media,            \* rows of media
  album,            \* the row of the album, or NoAlbum
  inAlbum,          \* rows of album_media
  given,            \* history: what was last given for each field of the album
  lost,             \* history: why a field of the row is not what was given
  space,            \* the row of the space exists
  role,             \* rows of storage_members
  assigned,         \* media with storage_space_id
  gone,             \* history: what has been deleted, of album, space and users
  req,              \* the requests, each between two queries
  items, selected, mode, deleting, failed,    \* the gallery page
  video, players, attached, open, overlapped  \* its player

albumVars  == <<album, inAlbum, given, lost>>
spaceVars  == <<space, role, assigned>>
pageVars   == <<items, selected, mode, deleting, failed>>
playerVars == <<video, players, attached, open, overlapped>>
vars == <<media, albumVars, spaceVars, gone, req, pageVars, playerVars>>

none    == "none"

ASSUME LibraryConstants ==
  /\ owner \in Users /\ MediaOwner \in [Media -> Users]
  /\ none \notin Media /\ none \notin Opens

NoAlbum == [name |-> none, cover |-> none]
Album   == [name : Names, cover : Media \cup {none}]
Fields  == {"name", "cover"}

\* A request that has passed its checks: the album row it has read, what it
\* is to write, and whether another has changed that row since.
Request ==
  [pc : {"cover", "save", "join", "look", "unjoin", "uncover",
         "name", "member", "role", "unassign", "unmember", "drop", "find", "assign"},
   seen : Album \cup {NoAlbum}, fields : SUBSET Fields,
   name : Names \cup {none}, cover : Media \cup {none},
   who : Users, as : {"none", "editor", "viewer"}, what : SUBSET Media,
   overtaken : BOOLEAN]

NoRequest == [pc |-> "idle"]

NewRequest(pc) ==
  [pc |-> pc, seen |-> NoAlbum, fields |-> {}, name |-> none, cover |-> none,
   who |-> owner, as |-> "none", what |-> {}, overtaken |-> FALSE]

TypeOK ==
  /\ media \subseteq Media
  /\ album \in Album \cup {NoAlbum} /\ inAlbum \subseteq Media
  /\ space \in BOOLEAN /\ role \in [Users -> {"none", "editor", "viewer"}]
  /\ assigned \subseteq Media
  /\ gone \subseteq {"album", "space"} \cup Users
  /\ req \in [Requests -> Request \cup {NoRequest}]

\* A field is lost to a request that wrote it, or left it, on what it had read
\* before another wrote the album, or to a failed removal.
HistoryOK ==
  /\ given \in [name : Names \cup {none}, cover : Media \cup {none}]
  /\ lost \in [Fields -> {"no", "stale", "failed"}]

Idle(r)     == req[r] = NoRequest
At(r, pc)   == req[r].pc = pc
Begin(r, q) == Idle(r) /\ req' = [req EXCEPT ![r] = q]
Goto(r, pc) == req' = [req EXCEPT ![r].pc = pc]
End(r)      == req' = [req EXCEPT ![r] = NoRequest]

\* The other requests at pcs have read what r now changes.
Overtaking(r, pcs) ==
  [q \in Requests |-> IF q # r /\ req[q].pc \in pcs
                        THEN [req[q] EXCEPT !.overtaken = TRUE] ELSE req[q]]
=============================================================================
