---------------------------- MODULE MCLibraryScan ----------------------------
(* LibraryScan with two files of one track and one of up to two.           *)
EXTENDS LibraryScan

CONSTANTS p1, p2, p3, t1, t2, t3, g1, g2, a1, a2

MCWalk == <<p1, p2, p3>>

Entry(title, game, names) ==
    [title |-> title, game |-> game, artists |-> names]

\* p1 may get another title, artist or game; p2 may have the tag of p1 or be
\* unreadable; p3 holds one track or two.
MCContents ==
    (p1 :> {<<Entry(t1, g1, <<a1>>)>>, <<Entry(t2, g1, <<a1, a2>>)>>,
           <<Entry(t1, g2, <<a1>>)>>})
    @@ (p2 :> {<<Entry(t1, g1, <<a1>>)>>, <<Entry(t2, g1, <<a2>>)>>, << >>})
    @@ (p3 :> {<<Entry(t1, g2, <<a1>>)>>,
               <<Entry(t3, g2, <<a2>>), Entry(t2, g2, << >>)>>,
               <<Entry(t3, g2, <<a2>>), Entry(t3, g2, << >>)>>})
=============================================================================
