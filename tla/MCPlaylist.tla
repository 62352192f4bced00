----------------------------- MODULE MCPlaylist -----------------------------
(* Playlist on small lists: the rows are dragged into every other order.   *)
EXTENDS Playlist

CONSTANTS t1, t2

MCTracks == {t1, t2}
MCLists == {<<t1, t2>>, <<t2>>}
=============================================================================
