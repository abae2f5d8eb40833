----------------------------- MODULE MCLibrary ------------------------------
(***************************************************************************)
(* Library, one part at a time: a behaviour exercises the album, the space *)
(* or the gallery page, each with the media deleted under it.  The album   *)
(* is asked for one media of the owner and one of the guest.               *)
(***************************************************************************)
EXTENDS Library, TLC

CONSTANTS m1, m2, m3, guest

VARIABLE focus

MCMediaOwner == [m \in Media |-> IF m = m3 THEN guest ELSE owner]

MCSymmetry ==
  Permutations(Requests) \cup Permutations(Opens) \cup Permutations(Names)

AlbumMedia == {m1, m3}

AsksForAlbumMedia(q) == q = NoRequest \/ q.what \cup {q.cover} \subseteq AlbumMedia \cup {none}

MCInit == Init /\ focus \in {"album", "space", "page", "player"}

MCNext ==
  /\ focus' = focus
  /\ \/ /\ focus = "album"
        /\ \/ \E name \in Names, cover \in AlbumMedia \cup {none} : CreateAlbum(name, cover)
           \/ \E r \in Requests : (AlbumStep(r) \/ Fail(r)) /\ AsksForAlbumMedia(req'[r])
           \/ \E m \in AlbumMedia : DeleteMedia(m)
     \/ /\ focus = "space"
        /\ \/ CreateSpace
           \/ \E r \in Requests : SpaceStep(r) \/ Fail(r)
           \/ \E m \in Media : DeleteMedia(m)
     \/ focus = "page" /\ PageStep
     \/ focus = "player" /\ PlayerStep

MCSpec == MCInit /\ [][MCNext]_<<vars, focus>>
=============================================================================
