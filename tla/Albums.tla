------------------------------- MODULE Albums -------------------------------
(***************************************************************************)
(* AlbumsService on one album.  Reads that only refuse a request are one   *)
(* step with the first read; every write is a step of its own.  The save() *)
(* of a TypeORM repository updates the row it finds by its id and inserts  *)
(* it when it finds none.                                                  *)
(***************************************************************************)
EXTENDS LibraryState

albumOnly == <<media, spaceVars, pageVars, playerVars>>

\* Requests that have read the album row and will use what they read.
HoldAlbum == {"cover", "save", "look", "unjoin", "uncover"}

Owned(m) == m \in media /\ MediaOwner[m] = owner

\* The row a step leaves, beside what has been given for its fields by then
\* and, where they differ, why: the cause, or the one there was.
Record(row, asked, cause) ==
  /\ album' = row /\ given' = asked
  /\ lost' = [f \in Fields |-> IF row[f] = asked[f] THEN "no"
                               ELSE IF cause # "no" THEN cause ELSE lost[f]]

Cause(r) == IF req[r].overtaken THEN "stale" ELSE "no"

\* create, once: an id is never given twice.
CreateAlbum(name, cover) ==
  /\ album = NoAlbum /\ "album" \notin gone
  /\ cover = none \/ Owned(cover)
  /\ Record([name |-> name, cover |-> cover], [name |-> name, cover |-> cover], "no")
  /\ inAlbum' = {}
  /\ UNCHANGED <<albumOnly, gone, req>>

\* Mutant of GetOwnedAlbum: the row is not looked for.
AnyAlbum == TRUE

GetOwnedAlbum == album # NoAlbum

\* update: the album is read, a new cover checked by another query.  A field
\* that is not given has no value.
ReadForUpdate(r, fields, name, cover) ==
  /\ GetOwnedAlbum /\ fields # {}
  /\ "name" \in fields <=> name # none
  /\ "cover" \in fields \/ cover = none
  /\ Begin(r, [NewRequest(IF "cover" \in fields /\ cover # none THEN "cover" ELSE "save")
                 EXCEPT !.seen = album, !.fields = fields, !.name = name, !.cover = cover])
  /\ UNCHANGED <<albumOnly, albumVars, gone>>

AssertOwnedMedia(r) ==
  /\ At(r, "cover")
  /\ IF Owned(req[r].cover) THEN Goto(r, "save") ELSE End(r)
  /\ UNCHANGED <<albumOnly, albumVars, gone>>

\* Mutant of Updated: a cover that is left out is cleared.
UpdatedAll(q) ==
  [name |-> IF "name" \in q.fields THEN q.name ELSE q.seen.name, cover |-> q.cover]

\* The row as it was read, with the fields that were given.
Updated(q) ==
  [name  |-> IF "name" \in q.fields THEN q.name ELSE q.seen.name,
   cover |-> IF "cover" \in q.fields THEN q.cover ELSE q.seen.cover]

Asked(q) ==
  [name  |-> IF "name" \in q.fields THEN q.name ELSE given.name,
   cover |-> IF "cover" \in q.fields THEN q.cover ELSE given.cover]

\* save: the whole row; a row that was deleted is inserted again.
SaveAlbum(r) ==
  /\ At(r, "save")
  /\ Record(Updated(req[r]), Asked(req[r]), Cause(r))
  /\ req' = [Overtaking(r, HoldAlbum) EXCEPT ![r] = NoRequest]
  /\ UNCHANGED <<albumOnly, inAlbum, gone>>

\* remove: album_media goes with the row.
RemoveAlbum(r) ==
  /\ Idle(r) /\ GetOwnedAlbum
  /\ Record(NoAlbum, NoAlbum, "no") /\ inAlbum' = {} /\ gone' = gone \cup {"album"}
  /\ req' = Overtaking(r, HoldAlbum)
  /\ UNCHANGED albumOnly

\* addMedia: the album, the media and the absence of the pair are read.
ReadForAdd(r, m) ==
  /\ GetOwnedAlbum /\ Owned(m) /\ m \notin inAlbum
  /\ Begin(r, [NewRequest("join") EXCEPT !.what = {m}])
  /\ UNCHANGED <<albumOnly, albumVars, gone>>

\* The join row is saved; its foreign keys need both rows.
SaveJoin(r) ==
  /\ At(r, "join")
  /\ inAlbum' = IF album # NoAlbum THEN inAlbum \cup (req[r].what \cap media) ELSE inAlbum
  /\ End(r)
  /\ UNCHANGED <<albumOnly, album, given, lost, gone>>

\* removeMedia: the album is read, then the join row, then the join row is
\* deleted, then the cover cleared if the album that was read had it.
ReadForRemove(r, m) ==
  /\ GetOwnedAlbum
  /\ Begin(r, [NewRequest("look") EXCEPT !.seen = album, !.what = {m}])
  /\ UNCHANGED <<albumOnly, albumVars, gone>>

WasCover(q) == q.seen.cover \in q.what

FindJoin(r) ==
  /\ At(r, "look")
  /\ IF req[r].what \subseteq inAlbum THEN Goto(r, "unjoin") ELSE End(r)
  /\ UNCHANGED <<albumOnly, albumVars, gone>>

\* What has been given for the cover goes with the media.
AskedWithout(what) == IF given.cover \in what THEN [given EXCEPT !.cover = none] ELSE given

\* A join row that is gone by now makes no difference.
DeleteJoin(r) ==
  /\ At(r, "unjoin")
  /\ inAlbum' = inAlbum \ req[r].what
  /\ IF WasCover(req[r]) THEN Goto(r, "uncover") ELSE End(r)
  /\ Record(album, AskedWithout(req[r].what), IF WasCover(req[r]) THEN "no" ELSE Cause(r))
  /\ UNCHANGED <<albumOnly, gone>>

ClearCover(r) ==
  /\ At(r, "uncover")
  /\ Record(IF album = NoAlbum THEN album ELSE [album EXCEPT !.cover = none], given, Cause(r))
  /\ req' = [Overtaking(r, HoldAlbum) EXCEPT ![r] = NoRequest]
  /\ UNCHANGED <<albumOnly, inAlbum, gone>>

AlbumStep(r) ==
  \/ \E m \in Media : ReadForAdd(r, m) \/ ReadForRemove(r, m)
  \/ \E fields \in SUBSET Fields, name \in Names \cup {none}, cover \in Media \cup {none} :
       ReadForUpdate(r, fields, name, cover)
  \/ AssertOwnedMedia(r) \/ SaveAlbum(r) \/ RemoveAlbum(r)
  \/ SaveJoin(r) \/ FindJoin(r) \/ DeleteJoin(r) \/ ClearCover(r)
=============================================================================
