------------------------ MODULE MCNavigationCursors ------------------------
(***************************************************************************)
(* Two callers over a source of two generations: the second has an entity  *)
(* and a relation fewer.                                                   *)
(***************************************************************************)
EXTENDS NavigationCursors

MCListing == << <<1, 2, 3>>, <<1, 3>> >>
MCLinks == << << <<1, 3>>, <<1, 2>> >>, << <<1, 3>> >> >>
MCLarge == {2}

Query(wanted, limit, entities, relations, bytes) ==
    [wanted |-> wanted, limit |-> limit, entities |-> entities, relations |-> relations,
     bytes |-> bytes]

\* One at a time, of a snapshot that is cut short; two at a time of a part,
\* more than the bytes allow.
MCQueries == {Query({1, 2, 3}, 1, 2, 3, 4), Query({1, 3}, 2, 3, 3, 2)}
=============================================================================
