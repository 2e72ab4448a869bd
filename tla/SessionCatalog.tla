--------------------------- MODULE SessionCatalog ---------------------------
(***************************************************************************)
(* The derived catalog of the session navigator (catalog-store.ts) and the *)
(* pages the providers fill it with (native-provider.ts and                *)
(* generic-provider.ts), as operators.                                     *)
(*                                                                         *)
(* A source is a list of session files, newest first, which is another one *)
(* in each version of the source.  A session may name a parent.  Of the    *)
(* metadata of a session the catalog keeps what the tree is built from: the*)
(* parent it is listed under, and (for the properties) the version it was  *)
(* read from.  Locations have the sessions of the entities and are not     *)
(* kept apart.  A fingerprint is the number of the version.                *)
(***************************************************************************)
EXTENDS Naturals, SequencesExt

CONSTANTS
    Sessions,   \* native identities
    Files,      \* Files[v]: the sessions of version v of a source, newest first
    Parents,    \* Parents[s]: the parent that session s names, or NoSession
    NoSession,
    PageSize,   \* files or rows in a page
    NoCursor

Versions == DOMAIN Files

ASSUME FilesAssumption ==
    /\ Files \in Seq(Seq(Sessions)) /\ Files # <<>>
    /\ \A v \in Versions : IsInjective(Files[v])
ASSUME ParentsAssumption ==
    /\ Parents \in [Sessions -> Sessions \cup {NoSession}]
    /\ NoSession \notin Sessions
\* A session is started from its parent, so it is not its own ancestor.
ASSUME AncestryAssumption ==
    \A S \in SUBSET Sessions : S # {} => \E s \in S : Parents[s] \notin S
ASSUME PageSizeAssumption == PageSize \in Nat \ {0}

\* A continuation is an offset bound to the fingerprint it was made under.
Cursors == [of : Versions, offset : Nat]

ASSUME NoCursorAssumption == NoCursor \notin Cursors

-----------------------------------------------------------------------------
(* Pages.  Of the files of a page a scan has `read` the metadata of all,   *)
(* unless its budget runs out or one of them cannot be read.  That some are*)
(* `unread` shows in whether the page is partial; which, the catalog does  *)
(* not learn.                                                              *)

Window(v, offset) ==
    SubSeq(Files[v], offset + 1, Min({offset + PageSize, Len(Files[v])}))

Unread(v, offset, read) == Range(Window(v, offset)) \ read

MoreAfter(v, offset) == Len(Files[v]) > offset + PageSize

\* Entities of `ids`, under their parents where `Known` holds of these.
Listed(ids, v, Known(_)) ==
    [id \in ids |->
        [parent |-> IF Known(Parents[id]) THEN Parents[id] ELSE NoSession,
         of |-> v]]

Edges(ids, Kept(_)) ==
    {<<id, Parents[id]>> : id \in {i \in ids : Kept(Parents[i])}}

Named(p) == p # NoSession

\* Claude keeps an edge to a parent that is on another page; the child is a
\* root until that page arrives.
ClaudePage(v, offset, read) ==
    LET Here(p) == p \in read
        Anywhere(p) == p \in Range(Files[v])
    IN [entities |-> Listed(read, v, Here),
        relations |-> Edges(read, Anywhere),
        next |-> MoreAfter(v, offset),
        unread |-> Unread(v, offset, read),
        partial |-> \/ Unread(v, offset, read) # {}
                    \/ MoreAfter(v, offset)
                    \/ Edges(read, Anywhere) # Edges(read, Here)]

\* Codex drops an edge whose ends are not on the same page; its rows are read
\* whatever is left of the budget.
CodexPage(v, offset) ==
    LET ids == Range(Window(v, offset))
        Here(p) == p \in ids
    IN [entities |-> Listed(ids, v, Here),
        relations |-> Edges(ids, Here),
        next |-> MoreAfter(v, offset),
        unread |-> {},
        partial |-> MoreAfter(v, offset)]

\* Pi takes the parent's identity from its path, whether or not it is there.
PiPage(v, offset, read) ==
    [entities |-> Listed(read, v, Named),
     relations |-> Edges(read, Named),
     next |-> MoreAfter(v, offset),
     unread |-> Unread(v, offset, read),
     partial |-> Unread(v, offset, read) # {} \/ MoreAfter(v, offset)]

\* A generic source is one scan without continuation.
GenericPage(v) ==
    LET ids == Range(Files[v])
        Here(p) == p \in ids
    IN [entities |-> Listed(ids, v, Named),
        relations |-> Edges(ids, Here),
        next |-> FALSE,
        unread |-> {},
        partial |-> FALSE]

PageOf(provider, v, offset, read) ==
    CASE provider = "claude"  -> ClaudePage(v, offset, read)
      [] provider = "codex"   -> CodexPage(v, offset)
      [] provider = "pi"      -> PiPage(v, offset, read)
      [] provider = "generic" -> GenericPage(v)

\* The continuation that the page of `offset`, scanned under `fp`, hands out.
CursorAfter(page, fp, offset) ==
    IF page.next THEN [of |-> fp, offset |-> offset + PageSize] ELSE NoCursor

-----------------------------------------------------------------------------
(* The rows of the catalog.                                                *)

\* What syncSources inserts for a source it has not seen.
EmptyRow ==
    [generation |-> 0, fingerprint |-> 0, updateAvailable |-> FALSE,
     cursor |-> NoCursor, partial |-> FALSE, entities |-> <<>>, relations |-> {}]

Synced(catalog, active) ==
    [s \in active |-> IF s \in DOMAIN catalog THEN catalog[s] ELSE EmptyRow]

\* The edge alone decides.
ReconciledBlindly(entities, relations) ==
    [id \in DOMAIN entities |->
        LET known == {e \in relations : e[1] = id}
        IN IF known = {} THEN entities[id]
           ELSE [entities[id] EXCEPT !.parent = (CHOOSE e \in known : TRUE)[2]]]

\* A child whose parent is in the generation is listed under it.
Reconciled(entities, relations) ==
    [id \in DOMAIN entities |->
        LET known == {e \in relations : e[1] = id /\ e[2] \in DOMAIN entities}
        IN IF known = {} THEN entities[id]
           ELSE [entities[id] EXCEPT !.parent = (CHOOSE e \in known : TRUE)[2]]]

Replaced(row, page, fp, cursor) ==
    [generation |-> row.generation + 1, fingerprint |-> fp, updateAvailable |-> FALSE,
     cursor |-> cursor, partial |-> page.partial, entities |-> page.entities,
     relations |-> page.relations]

\* INSERT OR REPLACE of the entities of a page among those there are.
Overlaid(entities, more) ==
    [id \in DOMAIN entities \cup DOMAIN more |->
        IF id \in DOMAIN more THEN more[id] ELSE entities[id]]

Appended(row, page, fp, cursor) ==
    IF row.generation < 1 THEN Replaced(row, page, fp, cursor)
    ELSE LET relations == row.relations \cup page.relations
             merged == Overlaid(row.entities, page.entities)
         IN [generation |-> row.generation + 1, fingerprint |-> fp, updateAvailable |-> FALSE,
             cursor |-> cursor, partial |-> page.partial,
             entities |-> Reconciled(merged, relations), relations |-> relations]

Marked(catalog, s, available) ==
    IF s \in DOMAIN catalog THEN [catalog EXCEPT ![s].updateAvailable = available] ELSE catalog

\* getChildren of the root: the sessions without a parent.
Roots(row) == {id \in DOMAIN row.entities : row.entities[id].parent = NoSession}

\* The sessions that the tree shows when everything is unfolded: the roots, and
\* with a session those that are listed under it.
Unfolded(row) ==
    LET ids == DOMAIN row.entities
        IsClosed(S) == /\ Roots(row) \subseteq S
                       /\ \A id \in ids : row.entities[id].parent \in S => id \in S
    IN {id \in ids : \A S \in SUBSET ids : IsClosed(S) => id \in S}
=============================================================================
