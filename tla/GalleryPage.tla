---------------------------- MODULE GalleryPage -----------------------------
(***************************************************************************)
(* GalleryPageComponent with MediaService and VideoPlaybackService: the    *)
(* grid, its selection, the bulk deletion that deletes one media after the *)
(* other, and the HLS player, whose library is loaded when a video needs   *)
(* it.                                                                     *)
(***************************************************************************)
EXTENDS LibraryState

pageOnly   == <<album, given, lost, space, role, gone, req, playerVars>>
playerOnly == <<media, albumVars, spaceVars, gone, req, pageVars>>

Modes == {"loading", "error", "browse", "select", "confirm"}

\* The bulk deletion: what it was asked for, what is left, the media whose
\* call is out, and whether the server has carried the call out.
NoDeletion == [ids |-> {}, left |-> {}, now |-> none, done |-> FALSE]

PageTypeOK ==
  /\ items \subseteq Media /\ selected \subseteq Media /\ failed \subseteq Media
  /\ mode \in Modes
  /\ deleting \in [ids : SUBSET Media, left : SUBSET Media, now : Media \cup {none},
                   done : BOOLEAN]
  /\ video \in Opens \cup {none} /\ attached \in Opens \cup {none}
  /\ players \subseteq Opens /\ overlapped \subseteq Opens
  /\ open \in [Opens -> {"no", "timer", "import", "done"}]

IsDeleting == deleting.ids # {}

-----------------------------------------------------------------------------
\* load, on init and after an error.
Load ==
  /\ mode = "error" /\ mode' = "loading" /\ selected' = {}
  /\ UNCHANGED <<media, inAlbum, assigned, items, deleting, failed, pageOnly>>

LoadAnswers ==
  /\ mode = "loading"
  /\ \/ mode' = "browse" /\ items' = {m \in media : MediaOwner[m] = owner}
     \/ mode' = "error" /\ UNCHANGED items
  /\ UNCHANGED <<media, inAlbum, assigned, selected, deleting, failed, pageOnly>>

EnterSelectionMode ==
  /\ mode = "browse" /\ items # {} /\ mode' = "select" /\ selected' = {}
  /\ UNCHANGED <<media, inAlbum, assigned, items, deleting, failed, pageOnly>>

ExitSelectionMode ==
  /\ mode = "select" /\ mode' = "browse" /\ selected' = {}
  /\ UNCHANGED <<media, inAlbum, assigned, items, deleting, failed, pageOnly>>

\* toggleItem, but for the card being deleted, and toggleSelectAll.
Toggle(m) ==
  /\ mode = "select" /\ m \in items /\ m # deleting.now
  /\ selected' = IF m \in selected THEN selected \ {m} ELSE selected \cup {m}
  /\ UNCHANGED <<media, inAlbum, assigned, items, mode, deleting, failed, pageOnly>>

ToggleAll ==
  /\ mode = "select"
  /\ selected' = IF selected = items THEN {} ELSE items
  /\ UNCHANGED <<media, inAlbum, assigned, items, mode, deleting, failed, pageOnly>>

RequestBulkDelete ==
  /\ mode = "select" /\ selected # {} /\ ~IsDeleting /\ mode' = "confirm"
  /\ UNCHANGED <<media, inAlbum, assigned, items, selected, deleting, failed, pageOnly>>

CancelBulkDelete ==
  /\ mode = "confirm" /\ mode' = "select"
  /\ UNCHANGED <<media, inAlbum, assigned, items, selected, deleting, failed, pageOnly>>

ConfirmBulkDelete(m) ==
  /\ mode = "confirm" /\ mode' = "select"
  /\ m \in selected
  /\ deleting' = [ids |-> selected, left |-> selected \ {m}, now |-> m, done |-> FALSE]
  /\ failed' = {}
  /\ UNCHANGED <<media, inAlbum, assigned, items, selected, pageOnly>>

\* DELETE /media/:id of this page, or of another client.
RemoveRow(m) ==
  media' = media \ {m} /\ inAlbum' = inAlbum \ {m} /\ assigned' = assigned \ {m}

ServerDeletes ==
  /\ deleting.now \in media /\ ~deleting.done
  /\ RemoveRow(deleting.now) /\ deleting' = [deleting EXCEPT !.done = TRUE]
  /\ UNCHANGED <<items, selected, mode, failed, pageOnly>>

DeleteMedia(m) ==
  /\ m \in media /\ m # deleting.now /\ RemoveRow(m)
  /\ UNCHANGED <<pageVars, pageOnly>>

\* What the page still shows when the run is over.
Kept(fails) == items \ (deleting.ids \ fails)

\* runSequentialDeletes on an answer: the next call, or the end of the run.
Continue(fails) ==
  \/ \E m \in deleting.left :
       /\ deleting' = [deleting EXCEPT !.left = @ \ {m}, !.now = m, !.done = FALSE]
       /\ failed' = fails
       /\ UNCHANGED <<items, selected, mode>>
  \/ /\ deleting.left = {}
     /\ deleting' = NoDeletion /\ failed' = fails /\ items' = Kept(fails)
     /\ selected' = fails
     /\ mode' = IF fails = {} /\ mode \in {"select", "confirm"} THEN "browse" ELSE mode

DeleteSucceeds ==
  /\ deleting.done /\ Continue(failed)
  /\ UNCHANGED <<media, inAlbum, assigned, pageOnly>>

\* The call fails, before the server has deleted the media or after.
DeleteFails ==
  /\ deleting.now # none /\ Continue(failed \cup {deleting.now})
  /\ UNCHANGED <<media, inAlbum, assigned, pageOnly>>

PageStep ==
  \/ Load \/ LoadAnswers \/ EnterSelectionMode \/ ExitSelectionMode \/ ToggleAll
  \/ RequestBulkDelete \/ CancelBulkDelete
  \/ \E m \in Media : Toggle(m) \/ ConfirmBulkDelete(m) \/ DeleteMedia(m)
  \/ ServerDeletes \/ DeleteSucceeds \/ DeleteFails

-----------------------------------------------------------------------------
\* Mutant of Detach: the reference is dropped, the player is not destroyed.
DetachOnly == attached' = none /\ UNCHANGED players

\* VideoPlaybackService.detach.
Detach == attached' = none /\ players' = players \ {attached}

\* The imports that are pending when a player is opened, attached or closed.
Overlap(o) == overlapped' = overlapped \cup {p \in Opens \ {o} : open[p] = "import"}

OpenPlayer(o) ==
  /\ open[o] = "no" /\ Detach /\ Overlap(o)
  /\ video' = o /\ open' = [open EXCEPT ![o] = "timer"]
  /\ UNCHANGED playerOnly

\* The timer of openPlayer: without a video element nothing is attached.
\* attach, otherwise, and with a URL or a browser that needs no HLS.js the
\* element plays it directly.
Attach(o) ==
  /\ open[o] = "timer"
  /\ \/ video = none /\ open' = [open EXCEPT ![o] = "done"]
        /\ UNCHANGED <<attached, players, overlapped>>
     \/ /\ video # none /\ Detach /\ Overlap(o)
        /\ \/ open' = [open EXCEPT ![o] = "import"]
           \/ open' = [open EXCEPT ![o] = "done"]
  /\ UNCHANGED <<video, playerOnly>>

\* attachHlsJs, when the library has come: the new player becomes the one
\* that detach will destroy.
ImportAnswers(o) ==
  /\ open[o] = "import" /\ open' = [open EXCEPT ![o] = "done"]
  /\ \/ players' = players \cup {o} /\ attached' = o
     \/ UNCHANGED <<players, attached>>
  /\ UNCHANGED <<video, overlapped, playerOnly>>

\* closePlayer, and ngOnDestroy.
ClosePlayer ==
  /\ video # none /\ video' = none
  /\ Detach /\ Overlap(none)
  /\ UNCHANGED <<open, playerOnly>>

PlayerStep ==
  \/ ClosePlayer
  \/ \E o \in Opens : OpenPlayer(o) \/ Attach(o) \/ ImportAnswers(o)
=============================================================================
