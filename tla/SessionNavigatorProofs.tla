----------------------- MODULE SessionNavigatorProofs -----------------------
(***************************************************************************)
(* Proofs about SessionNavigator, for any sources, files and bounds, any   *)
(* number of Load More commands, and whatever of a page the scans can read.*)
(***************************************************************************)
EXTENDS SessionNavigator, WellFoundedInduction, TLAPS

-----------------------------------------------------------------------------
(* Numbers and sequences *)

LEMMA SmallestNumber ==
    ASSUME NEW S, S \subseteq Nat, S # {}
    PROVE  Min(S) \in S /\ \A n \in S : Min(S) =< n
<1>1. \E n \in S : \A k \in S : ~(<<k, n>> \in OpToRel(<, Nat))
  BY NatLessThanWellFounded, WFMin
<1>2. PICK n \in S : \A k \in S : ~(<<k, n>> \in OpToRel(<, Nat))
  BY <1>1
<1>3. ASSUME NEW k \in S, k < n
      PROVE  FALSE
  <2>1. <<k, n>> \in OpToRel(<, Nat)
    <3>1. <<k, n>> \in Nat \X Nat
      OBVIOUS
    <3> QED
      BY <1>3, <3>1, Zenon DEF OpToRel
  <2> QED
    BY <1>2, <2>1
<1>4. \A k \in S : n =< k
  BY <1>3
<1> QED
  BY <1>4 DEF Min

LEMMA FirstIsIn ==
    ASSUME NEW todo, todo \subseteq Sources, todo # {}
    PROVE  First(todo) \in todo
<1>1. todo \subseteq Nat
  BY SourcesAssumption
<1> QED
  BY <1>1, SmallestNumber DEF First

LEMMA SmallerOfTwo ==
    ASSUME NEW a \in Nat, NEW b \in Nat
    PROVE  Min({a, b}) = IF a =< b THEN a ELSE b
<1>1. {a, b} \subseteq Nat /\ {a, b} # {}
  OBVIOUS
<1>2. Min({a, b}) \in {a, b} /\ \A n \in {a, b} : Min({a, b}) =< n
  BY <1>1, SmallestNumber
<1> QED
  BY <1>2

LEMMA VersionFiles ==
    /\ 1 \in Versions
    /\ \A v \in Versions :
        /\ v \in Nat \ {0} /\ v =< Len(Files)
        /\ Files[v] \in Seq(Sessions) /\ Len(Files[v]) \in Nat
        /\ Range(Files[v]) \subseteq Sessions
<1>1. Files \in Seq(Seq(Sessions)) /\ Files # << >>
  BY FilesAssumption
<1>2. Len(Files) \in Nat /\ Len(Files) # 0 /\ DOMAIN Files = 1..Len(Files)
  BY <1>1
<1>3. ASSUME NEW v \in Versions
      PROVE  /\ v \in Nat \ {0} /\ v =< Len(Files)
             /\ Files[v] \in Seq(Sessions) /\ Len(Files[v]) \in Nat
             /\ Range(Files[v]) \subseteq Sessions
  <2>1. v \in 1..Len(Files)
    BY <1>2 DEF Versions
  <2>2. Files[v] \in Seq(Sessions)
    BY <1>1, <2>1
  <2>3. Range(Files[v]) \subseteq Sessions
    BY <2>2 DEF Range
  <2> QED
    BY <1>2, <2>1, <2>2, <2>3
<1> QED
  BY <1>2, <1>3 DEF Versions

LEMMA WindowLists ==
    ASSUME NEW v \in Versions, NEW offset \in Nat
    PROVE  Range(Window(v, offset)) =
             {Files[v][i] : i \in {j \in 1..Len(Files[v]) : offset < j /\ j =< offset + PageSize}}
<1> DEFINE n == Min({offset + PageSize, Len(Files[v])})
<1>1. /\ Files[v] \in Seq(Sessions) /\ Len(Files[v]) \in Nat
      /\ PageSize \in Nat
      /\ n = IF offset + PageSize =< Len(Files[v]) THEN offset + PageSize ELSE Len(Files[v])
  BY VersionFiles, SmallerOfTwo, PageSizeAssumption
<1> HIDE DEF n
<1>2. /\ DOMAIN SubSeq(Files[v], offset + 1, n) = 1..(IF offset + 1 =< n THEN n - offset ELSE 0)
      /\ \A i \in 1..(n - offset) : SubSeq(Files[v], offset + 1, n)[i] = Files[v][offset + i]
  BY <1>1
<1>3. \A j \in 1..Len(Files[v]) : offset < j /\ j =< offset + PageSize
        => /\ j - offset \in DOMAIN SubSeq(Files[v], offset + 1, n)
           /\ SubSeq(Files[v], offset + 1, n)[j - offset] = Files[v][j]
  BY <1>1, <1>2
<1>4. \A i \in DOMAIN SubSeq(Files[v], offset + 1, n) :
        /\ offset + i \in 1..Len(Files[v]) /\ offset < offset + i /\ offset + i =< offset + PageSize
        /\ SubSeq(Files[v], offset + 1, n)[i] = Files[v][offset + i]
  BY <1>1, <1>2
<1> DEFINE w == SubSeq(Files[v], offset + 1, n)
<1>5. {w[i] : i \in DOMAIN w} =
        {Files[v][i] : i \in {j \in 1..Len(Files[v]) : offset < j /\ j =< offset + PageSize}}
  <2> HIDE DEF w
  <2>1. \A j \in 1..Len(Files[v]) : offset < j /\ j =< offset + PageSize
          => j - offset \in DOMAIN w /\ w[j - offset] = Files[v][j]
    BY <1>3 DEF w
  <2>2. \A i \in DOMAIN w :
          /\ offset + i \in 1..Len(Files[v]) /\ offset < offset + i /\ offset + i =< offset + PageSize
          /\ w[i] = Files[v][offset + i]
    BY <1>4 DEF w
  <2> QED
    BY <2>1, <2>2
<1> QED
  BY <1>5 DEF Window, Range, n

LEMMA WindowIsOfTheFiles ==
    ASSUME NEW v \in Versions, NEW offset \in Nat
    PROVE  /\ Range(Window(v, offset)) \subseteq Range(Files[v])
           /\ Range(Window(v, offset)) \subseteq Sessions
<1>1. Files[v] \in Seq(Sessions) /\ Range(Files[v]) \subseteq Sessions
  BY VersionFiles
<1>2. DOMAIN Files[v] = 1..Len(Files[v])
  BY <1>1
<1>3. Range(Files[v]) = {Files[v][i] : i \in 1..Len(Files[v])}
  BY <1>2 DEF Range
<1> QED
  BY <1>1, <1>3, WindowLists

LEMMA WindowIsASequence ==
    ASSUME NEW v \in Versions, NEW offset \in Nat
    PROVE  Window(v, offset) \in Seq(Sessions) /\ Len(Window(v, offset)) \in Nat
<1> DEFINE n == Min({offset + PageSize, Len(Files[v])})
<1>1. /\ Files[v] \in Seq(Sessions) /\ Len(Files[v]) \in Nat /\ PageSize \in Nat
      /\ n = IF offset + PageSize =< Len(Files[v]) THEN offset + PageSize ELSE Len(Files[v])
  BY VersionFiles, SmallerOfTwo, PageSizeAssumption
<1> HIDE DEF n
<1>2. /\ SubSeq(Files[v], offset + 1, n) \in Seq(Sessions)
      /\ Len(SubSeq(Files[v], offset + 1, n)) \in Nat
  BY <1>1
<1> QED
  BY <1>2 DEF Window, n

\* Whatever a scan reads, it is of the files of the page.
LEMMA ReadsAreOfTheWindow ==
    ASSUME NEW s \in Sources, NEW v \in Versions, NEW offset \in Nat,
           NEW read \in Reads(s, v, offset)
    PROVE  read \subseteq Range(Window(v, offset))
<1> DEFINE w == Window(v, offset)
<1>1. Provider[s] \in {"codex", "claude", "pi", "generic"}
  BY SourcesAssumption
<1>2. CASE Provider[s] # "pi"
  BY <1>1, <1>2 DEF Reads
<1>3. CASE Provider[s] = "pi"
  <2>1. PICK l \in 0..Len(w) : read = Range(SubSeq(w, 1, l))
    BY <1>3 DEF Reads, Prefixes
  <2>2. w \in Seq(Sessions)
    BY WindowIsASequence
  <2>3. \A i \in DOMAIN SubSeq(w, 1, l) : i \in DOMAIN w /\ SubSeq(w, 1, l)[i] = w[i]
    BY <2>1, <2>2
  <2> DEFINE u == SubSeq(w, 1, l)
  <2>4. \A i \in DOMAIN u : i \in DOMAIN w /\ u[i] = w[i]
    BY <2>3
  <2>5. read = Range(u)
    BY <2>1
  <2> HIDE DEF w, u
  <2>6. Range(u) \subseteq Range(w)
    BY <2>4 DEF Range
  <2> QED
    BY <2>5, <2>6 DEF w
<1> QED
  BY <1>2, <1>3

-----------------------------------------------------------------------------
(* Pages and rows *)

EntityRecords == [parent : Sessions \cup {NoSession}, of : Versions]

IsListing(e) == DOMAIN e \subseteq Sessions /\ e \in [DOMAIN e -> EntityRecords]

IsPage(p) ==
    /\ IsListing(p.entities)
    /\ p.relations \subseteq Sessions \X Sessions
    /\ p.next \in BOOLEAN /\ p.partial \in BOOLEAN

LEMMA ParentsAreNamed ==
    \A id \in Sessions :
        /\ Parents[id] \in Sessions \cup {NoSession}
        /\ Parents[id] # NoSession => Parents[id] \in Sessions
  BY ParentsAssumption

LEMMA ClaudePageIsTyped ==
    ASSUME NEW v \in Versions, NEW offset \in Nat,
           NEW read, read \subseteq Range(Window(v, offset))
    PROVE  IsPage(ClaudePage(v, offset, read))
<1> DEFINE ids == read
           page == ClaudePage(v, offset, read)
<1>1. ids \subseteq Sessions /\ Range(Files[v]) \subseteq Sessions
  BY WindowIsOfTheFiles, VersionFiles
<1> HIDE DEF ids
<1>2. page.entities = [id \in ids |->
                         [parent |-> IF Parents[id] \in ids THEN Parents[id] ELSE NoSession,
                          of |-> v]]
  BY DEF ClaudePage, Listed, ids
<1>3. page.relations = {<<id, Parents[id]>> : id \in {i \in ids : Parents[i] \in Range(Files[v])}}
  BY DEF ClaudePage, Edges, ids
<1>4. page.next \in BOOLEAN /\ page.partial \in BOOLEAN
  BY DEF ClaudePage, MoreAfter
<1> HIDE DEF page
<1>5. IsListing(page.entities)
  BY <1>1, <1>2 DEF IsListing, EntityRecords
<1>6. page.relations \subseteq Sessions \X Sessions
  BY <1>1, <1>3
<1> QED
  BY <1>4, <1>5, <1>6 DEF IsPage, page

LEMMA CodexPageIsTyped ==
    ASSUME NEW v \in Versions, NEW offset \in Nat
    PROVE  IsPage(CodexPage(v, offset))
<1> DEFINE ids == Range(Window(v, offset))
           page == CodexPage(v, offset)
<1>1. ids \subseteq Sessions
  BY WindowIsOfTheFiles, PageSizeAssumption
<1> HIDE DEF ids
<1>2. page.entities = [id \in ids |->
                         [parent |-> IF Parents[id] \in ids THEN Parents[id] ELSE NoSession,
                          of |-> v]]
  BY DEF CodexPage, Listed, ids
<1>3. page.relations = {<<id, Parents[id]>> : id \in {i \in ids : Parents[i] \in ids}}
  BY DEF CodexPage, Edges, ids
<1>4. page.next \in BOOLEAN /\ page.partial \in BOOLEAN
  BY DEF CodexPage, MoreAfter
<1> HIDE DEF page
<1>5. IsListing(page.entities)
  BY <1>1, <1>2 DEF IsListing, EntityRecords
<1>6. page.relations \subseteq Sessions \X Sessions
  BY <1>1, <1>3
<1> QED
  BY <1>4, <1>5, <1>6 DEF IsPage, page

LEMMA PiPageIsTyped ==
    ASSUME NEW v \in Versions, NEW offset \in Nat,
           NEW read, read \subseteq Range(Window(v, offset))
    PROVE  IsPage(PiPage(v, offset, read))
<1> DEFINE ids == read
           page == PiPage(v, offset, read)
<1>1. ids \subseteq Sessions
  BY WindowIsOfTheFiles
<1> HIDE DEF ids
<1>2. page.entities = [id \in ids |->
                         [parent |-> IF Parents[id] # NoSession THEN Parents[id] ELSE NoSession,
                          of |-> v]]
  BY DEF PiPage, Listed, Named, ids
<1>3. page.relations = {<<id, Parents[id]>> : id \in {i \in ids : Parents[i] # NoSession}}
  BY DEF PiPage, Edges, Named, ids
<1>4. page.next \in BOOLEAN /\ page.partial \in BOOLEAN
  BY DEF PiPage, MoreAfter
<1> HIDE DEF page
<1>5. IsListing(page.entities)
  BY <1>1, <1>2, ParentsAreNamed DEF IsListing, EntityRecords
<1>6. page.relations \subseteq Sessions \X Sessions
  BY <1>1, <1>3, ParentsAreNamed
<1> QED
  BY <1>4, <1>5, <1>6 DEF IsPage, page

LEMMA GenericPageIsTyped ==
    ASSUME NEW v \in Versions
    PROVE  IsPage(GenericPage(v))
<1> DEFINE ids == Range(Files[v])
           page == GenericPage(v)
<1>1. ids \subseteq Sessions
  BY VersionFiles
<1> HIDE DEF ids
<1>2. page.entities = [id \in ids |->
                         [parent |-> IF Parents[id] # NoSession THEN Parents[id] ELSE NoSession,
                          of |-> v]]
  BY DEF GenericPage, Listed, Named, ids
<1>3. page.relations = {<<id, Parents[id]>> : id \in {i \in ids : Parents[i] \in ids}}
  BY DEF GenericPage, Edges, ids
<1>4. page.next \in BOOLEAN /\ page.partial \in BOOLEAN
  BY DEF GenericPage
<1> HIDE DEF page
<1>5. IsListing(page.entities)
  BY <1>1, <1>2, ParentsAreNamed DEF IsListing, EntityRecords
<1>6. page.relations \subseteq Sessions \X Sessions
  BY <1>1, <1>3
<1> QED
  BY <1>4, <1>5, <1>6 DEF IsPage, page

LEMMA PagesAreTyped ==
    ASSUME NEW s \in Sources, NEW v \in Versions, NEW offset \in Nat,
           NEW read \in Reads(s, v, offset)
    PROVE  IsPage(PageOf(Provider[s], v, offset, read))
<1>1. Provider[s] \in {"codex", "claude", "pi", "generic"}
  BY SourcesAssumption
<1>6. read \subseteq Range(Window(v, offset))
  BY ReadsAreOfTheWindow
<1>2. CASE Provider[s] = "claude"
  BY <1>2, <1>6, ClaudePageIsTyped DEF PageOf
<1>3. CASE Provider[s] = "codex"
  BY <1>3, CodexPageIsTyped DEF PageOf
<1>4. CASE Provider[s] = "pi"
  BY <1>4, <1>6, PiPageIsTyped DEF PageOf
<1>5. CASE Provider[s] = "generic"
  BY <1>5, GenericPageIsTyped DEF PageOf
<1> QED
  BY <1>1, <1>2, <1>3, <1>4, <1>5

CursorsOrNone == Cursors \cup {NoCursor}

LEMMA RowsAreRecords ==
    ASSUME NEW gen \in Nat, NEW fp \in {0} \cup Versions, NEW available \in BOOLEAN,
           NEW cursor \in CursorsOrNone, NEW partial \in BOOLEAN,
           NEW entities, IsListing(entities), NEW relations \in SUBSET (Sessions \X Sessions)
    PROVE  [generation |-> gen, fingerprint |-> fp, updateAvailable |-> available,
            cursor |-> cursor, partial |-> partial, entities |-> entities,
            relations |-> relations] \in Rows
<1> DEFINE Listings == UNION {[ids -> EntityRecords] : ids \in SUBSET Sessions}
<1>1. entities \in Listings
  <2>1. DOMAIN entities \in SUBSET Sessions /\ entities \in [DOMAIN entities -> EntityRecords]
    BY DEF IsListing
  <2> QED
    BY <2>1
<1>2. Rows = [generation : Nat, fingerprint : {0} \cup Versions, updateAvailable : BOOLEAN,
              cursor : CursorsOrNone, partial : BOOLEAN, entities : Listings,
              relations : SUBSET (Sessions \X Sessions)]
  BY DEF Rows, CursorsOrNone, EntityRecords
<1> HIDE DEF Listings
<1> QED
  BY <1>1, <1>2

LEMMA RowsHaveParts ==
    ASSUME NEW row \in Rows
    PROVE  /\ row.generation \in Nat /\ row.fingerprint \in {0} \cup Versions
           /\ row.updateAvailable \in BOOLEAN /\ row.cursor \in CursorsOrNone
           /\ row.partial \in BOOLEAN /\ IsListing(row.entities)
           /\ row.relations \in SUBSET (Sessions \X Sessions)
           /\ row = [generation |-> row.generation, fingerprint |-> row.fingerprint,
                     updateAvailable |-> row.updateAvailable, cursor |-> row.cursor,
                     partial |-> row.partial, entities |-> row.entities,
                     relations |-> row.relations]
<1> DEFINE Listings == UNION {[ids -> EntityRecords] : ids \in SUBSET Sessions}
<1>1. Rows = [generation : Nat, fingerprint : {0} \cup Versions, updateAvailable : BOOLEAN,
              cursor : CursorsOrNone, partial : BOOLEAN, entities : Listings,
              relations : SUBSET (Sessions \X Sessions)]
  BY DEF Rows, CursorsOrNone, EntityRecords
<1>2. \A e \in Listings : IsListing(e)
  BY DEF IsListing
<1> HIDE DEF Listings
<1> QED
  BY <1>1, <1>2

LEMMA EmptyRowIsTyped == EmptyRow \in Rows
<1>1. IsListing(<< >>)
  BY DEF IsListing
<1>2. NoCursor \in CursorsOrNone
  BY DEF CursorsOrNone
<1> QED
  BY <1>1, <1>2, RowsAreRecords DEF EmptyRow

LEMMA ReplacedIsTyped ==
    ASSUME NEW row \in Rows, NEW page, IsPage(page), NEW fp \in Versions,
           NEW cursor \in CursorsOrNone
    PROVE  Replaced(row, page, fp, cursor) \in Rows
<1>1. row.generation + 1 \in Nat
  BY RowsHaveParts
<1> QED
  BY <1>1, RowsAreRecords DEF Replaced, IsPage

LEMMA OverlaidIsListing ==
    ASSUME NEW e, NEW f, IsListing(e), IsListing(f)
    PROVE  IsListing(Overlaid(e, f)) /\ DOMAIN Overlaid(e, f) = DOMAIN e \cup DOMAIN f
<1>1. /\ \A x \in DOMAIN e : e[x] \in EntityRecords
      /\ \A x \in DOMAIN f : f[x] \in EntityRecords
  BY DEF IsListing
<1> QED
  BY <1>1 DEF IsListing, Overlaid

LEMMA ReconciledIsListing ==
    ASSUME NEW e, IsListing(e), NEW relations \in SUBSET (Sessions \X Sessions)
    PROVE  /\ IsListing(Reconciled(e, relations))
           /\ DOMAIN Reconciled(e, relations) = DOMAIN e
<1> DEFINE known(id) == {r \in relations : r[1] = id /\ r[2] \in DOMAIN e}
           to(id) == (CHOOSE r \in known(id) : TRUE)[2]
           value(id) == IF known(id) = {} THEN e[id] ELSE [e[id] EXCEPT !.parent = to(id)]
<1>1. Reconciled(e, relations) = [id \in DOMAIN e |-> value(id)]
  BY DEF Reconciled
<1>2. ASSUME NEW id \in DOMAIN e
      PROVE  value(id) \in EntityRecords
  <2>1. e[id] \in EntityRecords
    BY DEF IsListing
  <2>2. CASE known(id) = {}
    BY <2>1, <2>2
  <2>3. CASE known(id) # {}
    <3>1. (CHOOSE r \in known(id) : TRUE) \in known(id)
      BY <2>3
    <3>2. to(id) \in Sessions
      BY <3>1 DEF IsListing
    <3> HIDE DEF to
    <3>3. [e[id] EXCEPT !.parent = to(id)] \in EntityRecords
      BY <2>1, <3>2 DEF EntityRecords
    <3> QED
      BY <2>3, <3>3
  <2> QED
    BY <2>2, <2>3
<1> HIDE DEF value
<1> QED
  BY <1>1, <1>2 DEF IsListing

LEMMA AppendedIsTyped ==
    ASSUME NEW row \in Rows, NEW page, IsPage(page), NEW fp \in Versions,
           NEW cursor \in CursorsOrNone
    PROVE  Appended(row, page, fp, cursor) \in Rows
<1>1. CASE row.generation < 1
  BY <1>1, ReplacedIsTyped DEF Appended
<1>2. CASE ~(row.generation < 1)
  <2> DEFINE relations == row.relations \cup page.relations
             merged == Overlaid(row.entities, page.entities)
  <2>1. relations \in SUBSET (Sessions \X Sessions) /\ IsListing(page.entities)
        /\ IsListing(row.entities) /\ page.partial \in BOOLEAN /\ row.generation + 1 \in Nat
    BY RowsHaveParts DEF IsPage
  <2>2. IsListing(merged)
    BY <2>1, OverlaidIsListing
  <2> HIDE DEF relations, merged
  <2>3. IsListing(Reconciled(merged, relations))
    BY <2>1, <2>2, ReconciledIsListing
  <2>4. Appended(row, page, fp, cursor) =
          [generation |-> row.generation + 1, fingerprint |-> fp, updateAvailable |-> FALSE,
           cursor |-> cursor, partial |-> page.partial,
           entities |-> Reconciled(merged, relations), relations |-> relations]
    BY <1>2 DEF Appended, merged, relations
  <2> QED
    BY <2>1, <2>3, <2>4, RowsAreRecords
<1> QED
  BY <1>1, <1>2

LEMMA WritesBeginAGeneration ==
    ASSUME NEW row, NEW page, NEW fp, NEW cursor
    PROVE  /\ Replaced(row, page, fp, cursor).generation = row.generation + 1
           /\ Appended(row, page, fp, cursor).generation = row.generation + 1
  BY DEF Replaced, Appended

LEMMA CursorsAreTyped ==
    ASSUME NEW page, NEW fp \in Versions, NEW offset \in Nat
    PROVE  CursorAfter(page, fp, offset) \in CursorsOrNone
<1>1. offset + PageSize \in Nat
  BY PageSizeAssumption
<1> QED
  BY <1>1 DEF CursorAfter, CursorsOrNone, Cursors

-----------------------------------------------------------------------------
(* The invariant *)

Views == [visible : BOOLEAN, initialized : BOOLEAN, again : BOOLEAN, disposed : BOOLEAN]
SettingsRecords == [enabled : BOOLEAN, configured : SUBSET Sources, excluded : SUBSET Sources]
Refreshes ==
    [pc : {"idle", "begin", "store", "probe", "scan", "read"}, todo : SUBSET Sources,
     aborted : BOOLEAN, at : {0} \cup Versions, cursor : CursorsOrNone,
     pages : 0..(MaxInitialPages - 1)]
LoadRecords ==
    [pc : {"idle", "scan", "read"}, source : Sources \cup {NoSource},
     at : {0} \cup Versions, cursor : CursorsOrNone]
Hints == [todo : SUBSET Sources, at : {0} \cup Versions]
Commands ==
    [kind : {"none", "remove", "authorize"}, source : Sources \cup {NoSource},
     pc : {"idle", "configure", "forget", "enable", "refresh"}]
Reveals ==
    [pc : {"idle", "probe", "files", "opened"}, source : Sources \cup {NoSource},
     generation : Nat, session : Sessions \cup {NoSession}, of : {0} \cup Versions]

Histories == [pages : [Sources -> {"whole", "short", "gap"}], dropped : BOOLEAN]

IsCatalog(c) == DOMAIN c \subseteq Sources /\ \A s \in DOMAIN c : c[s] \in Rows

\* A source is being looked at, and what is read was given a fingerprint.
IsRefresh(r) ==
    /\ r \in Refreshes
    /\ r.pc \in {"probe", "scan", "read"} => r.todo # {}
    /\ r.pc = "read" => r.at \in Versions

\* Load More continues where a cursor says.
IsLoad(d) ==
    /\ d \in LoadRecords
    /\ d.pc \in {"scan", "read"} => d.cursor \in Cursors
    /\ d.pc = "read" => d.at \in Versions

\* A command is about a source.
IsCommand(c) == c \in Commands /\ (c.kind # "none" => c.source \in Sources)

Typed ==
    /\ version \in [Sources -> Versions]
    /\ settings \in SettingsRecords
    /\ store \in {"none", "opening", "open", "closed"}
    /\ IsCatalog(catalog)
    /\ view \in Views
    /\ IsRefresh(refresh)
    /\ status \in [Sources -> {"none", "loading", "error"}]
    /\ transient \in [Sources -> 0..MaxTransient]
    /\ DOMAIN loads = Loads /\ \A l \in Loads : IsLoad(loads[l])
    /\ hint \in Hints
    /\ IsCommand(command)
    /\ reveal \in Reveals
    /\ acts \in 0..MaxActs
    /\ past \in Histories

\* The window gives its store up.
ClosedOnceDisposed == view.disposed => store # "open"

\* A source that is being removed is excluded until its removal is over.
RemovalExcludes == command.kind = "remove" => command.source \in settings.excluded

\* The row that a reveal was begun on has moved on to a later generation, or
\* still holds what the user chose.
RevealFollows ==
    reveal.pc \in {"probe", "files"} /\ ~past.dropped =>
        /\ reveal.source \in DOMAIN catalog
        /\ LET row == catalog[reveal.source]
           IN \/ row.generation > reveal.generation
              \/ /\ row.generation = reveal.generation
                 /\ reveal.session \in DOMAIN row.entities
                 /\ row.entities[reveal.session].of = reveal.of

IInv == Typed /\ ClosedOnceDisposed /\ RemovalExcludes /\ RevealFollows

-----------------------------------------------------------------------------
(* What becomes of the catalog in a step *)

\* Rows are kept as they are listed, or begin a later generation.
Continues(c, d) ==
    \A s \in DOMAIN c \cap DOMAIN d :
        \/ d[s].generation > c[s].generation
        \/ d[s].generation = c[s].generation /\ d[s].entities = c[s].entities

\* Rows appear for wanted sources, and one is not dropped under a reveal unseen.
CatalogGoesOn ==
    /\ Continues(catalog, catalog')
    /\ DOMAIN catalog' \subseteq DOMAIN catalog \cup Wanted'
    /\ \A s \in DOMAIN catalog \ DOMAIN catalog' : reveal.source = s => past'.dropped
    /\ past.dropped /\ reveal # NoReveal => past'.dropped

LEMMA AuthorizedAreWanted ==
    ASSUME settings \in SettingsRecords
    PROVE  Authorized \subseteq Wanted /\ Authorized \subseteq Sources
  BY SourcesAssumption DEF Authorized, Wanted, SettingsRecords

LEMMA ContinuesItself == \A c : Continues(c, c)
  BY DEF Continues

LEMMA SyncedRows ==
    ASSUME NEW c, IsCatalog(c), NEW active, active \subseteq Sources
    PROVE  /\ IsCatalog(Synced(c, active)) /\ DOMAIN Synced(c, active) = active
           /\ Continues(c, Synced(c, active))
<1>1. \A s \in active : Synced(c, active)[s] = IF s \in DOMAIN c THEN c[s] ELSE EmptyRow
  BY DEF Synced
<1>2. DOMAIN Synced(c, active) = active
  BY DEF Synced
<1> QED
  BY <1>1, <1>2, EmptyRowIsTyped DEF IsCatalog, Continues

LEMMA WrittenRows ==
    ASSUME NEW c, IsCatalog(c), NEW s \in DOMAIN c, NEW row \in Rows,
           \/ row.generation > c[s].generation
           \/ row.generation = c[s].generation /\ row.entities = c[s].entities
    PROVE  /\ IsCatalog([c EXCEPT ![s] = row]) /\ DOMAIN [c EXCEPT ![s] = row] = DOMAIN c
           /\ Continues(c, [c EXCEPT ![s] = row])
  BY DEF IsCatalog, Continues

LEMMA PagesAreWritten ==
    ASSUME NEW c, IsCatalog(c), NEW s \in DOMAIN c, NEW page, IsPage(page),
           NEW fp \in Versions, NEW cursor \in CursorsOrNone,
           NEW row \in {Replaced(c[s], page, fp, cursor), Appended(c[s], page, fp, cursor)}
    PROVE  /\ IsCatalog([c EXCEPT ![s] = row]) /\ DOMAIN [c EXCEPT ![s] = row] = DOMAIN c
           /\ Continues(c, [c EXCEPT ![s] = row])
<1>1. c[s] \in Rows
  BY DEF IsCatalog
<1>2. row \in Rows
  BY <1>1, ReplacedIsTyped, AppendedIsTyped
<1>3. row.generation = c[s].generation + 1 /\ c[s].generation \in Nat
  BY <1>1, WritesBeginAGeneration, RowsHaveParts
<1>4. row.generation > c[s].generation
  BY <1>3
<1> QED
  BY <1>2, <1>4, WrittenRows

LEMMA MarkedRows ==
    ASSUME NEW c, IsCatalog(c), NEW s, NEW available \in BOOLEAN
    PROVE  /\ IsCatalog(Marked(c, s, available)) /\ DOMAIN Marked(c, s, available) = DOMAIN c
           /\ Continues(c, Marked(c, s, available))
<1>1. CASE s \notin DOMAIN c
  BY <1>1, ContinuesItself DEF Marked
<1>2. CASE s \in DOMAIN c
  <2> DEFINE row == [c[s] EXCEPT !.updateAvailable = available]
  <2>1. c[s] \in Rows
    BY <1>2 DEF IsCatalog
  <2>2. row \in Rows /\ row.generation = c[s].generation /\ row.entities = c[s].entities
    <3>1. /\ c[s].generation \in Nat /\ c[s].fingerprint \in {0} \cup Versions
          /\ c[s].cursor \in CursorsOrNone /\ c[s].partial \in BOOLEAN
          /\ IsListing(c[s].entities) /\ c[s].relations \in SUBSET (Sessions \X Sessions)
      BY <2>1, RowsHaveParts
    <3>2. c[s] = [generation |-> c[s].generation, fingerprint |-> c[s].fingerprint,
                  updateAvailable |-> c[s].updateAvailable, cursor |-> c[s].cursor,
                  partial |-> c[s].partial, entities |-> c[s].entities,
                  relations |-> c[s].relations]
      BY <2>1, RowsHaveParts
    <3>3. row = [generation |-> c[s].generation, fingerprint |-> c[s].fingerprint,
                 updateAvailable |-> available, cursor |-> c[s].cursor,
                 partial |-> c[s].partial, entities |-> c[s].entities,
                 relations |-> c[s].relations]
      BY <3>2
    <3> QED
      BY <3>1, <3>3, RowsAreRecords
  <2>3. Marked(c, s, available) = [c EXCEPT ![s] = row]
    BY <1>2 DEF Marked
  <2> HIDE DEF row
  <2>4. /\ IsCatalog([c EXCEPT ![s] = row]) /\ DOMAIN [c EXCEPT ![s] = row] = DOMAIN c
        /\ Continues(c, [c EXCEPT ![s] = row])
    BY <1>2, <2>2, WrittenRows
  <2> QED
    BY <2>3, <2>4
<1> QED
  BY <1>1, <1>2

LEMMA StillGoesOn ==
    ASSUME UNCHANGED <<catalog, past>>
    PROVE  CatalogGoesOn
  BY ContinuesItself DEF CatalogGoesOn

LEMMA WritesGoOn ==
    ASSUME DOMAIN catalog' = DOMAIN catalog, Continues(catalog, catalog'),
           past'.dropped = past.dropped
    PROVE  CatalogGoesOn
  BY DEF CatalogGoesOn

LEMMA SyncsGoOn ==
    ASSUME NEW rows, Syncs(rows), Continues(catalog, rows), UNCHANGED settings,
           DOMAIN rows \subseteq DOMAIN catalog \cup Wanted, past \in Histories,
           DOMAIN catalog \subseteq Sources
    PROVE  CatalogGoesOn /\ past' \in Histories
<1> DEFINE gone == DOMAIN catalog \ DOMAIN rows
<1>1. /\ catalog' = rows
      /\ past' = [past EXCEPT !.dropped = @ \/ reveal.source \in gone]
  BY DEF Syncs
<1>3. past' \in Histories
  BY <1>1, Zenon DEF Histories
<1>4. past'.dropped <=> past.dropped \/ reveal.source \in gone
  BY <1>1 DEF Histories
<1>5. DOMAIN catalog' \subseteq DOMAIN catalog \cup Wanted'
  BY <1>1 DEF Wanted
<1> QED
  BY <1>1, <1>3, <1>4, <1>5 DEF CatalogGoesOn

\* A reveal that is not touched goes on with what the catalog then lists.
LEMMA RevealGoesWithIt ==
    ASSUME Typed, RevealFollows, CatalogGoesOn, IsCatalog(catalog'),
           reveal'.pc \in {"probe", "files"} =>
               /\ reveal.pc \in {"probe", "files"}
               /\ reveal'.source = reveal.source /\ reveal'.generation = reveal.generation
               /\ reveal'.session = reveal.session /\ reveal'.of = reveal.of
    PROVE  RevealFollows'
<1> SUFFICES ASSUME reveal'.pc \in {"probe", "files"}, ~past'.dropped
             PROVE  /\ reveal'.source \in DOMAIN catalog'
                    /\ LET row == catalog'[reveal'.source]
                       IN \/ row.generation > reveal'.generation
                          \/ /\ row.generation = reveal'.generation
                             /\ reveal'.session \in DOMAIN row.entities
                             /\ row.entities[reveal'.session].of = reveal'.of
  BY DEF RevealFollows
<1> DEFINE s == reveal.source
<1>1. /\ reveal'.source = s /\ reveal'.generation = reveal.generation
      /\ reveal'.session = reveal.session /\ reveal'.of = reveal.of
      /\ reveal.pc \in {"probe", "files"}
  OBVIOUS
<1>8. reveal # NoReveal
  BY <1>1 DEF NoReveal
<1>9. ~past.dropped
  BY <1>8 DEF CatalogGoesOn
<1>2. /\ s \in DOMAIN catalog
      /\ \/ catalog[s].generation > reveal.generation
         \/ /\ catalog[s].generation = reveal.generation
            /\ reveal.session \in DOMAIN catalog[s].entities
            /\ catalog[s].entities[reveal.session].of = reveal.of
  BY <1>1, <1>9 DEF RevealFollows
<1>3. s \in DOMAIN catalog'
  BY <1>1, <1>2 DEF CatalogGoesOn
<1>4. \/ catalog'[s].generation > catalog[s].generation
      \/ /\ catalog'[s].generation = catalog[s].generation
         /\ catalog'[s].entities = catalog[s].entities
  BY <1>2, <1>3 DEF CatalogGoesOn, Continues
<1>5. catalog[s].generation \in Nat /\ catalog'[s].generation \in Nat /\ reveal.generation \in Nat
  BY <1>2, <1>3, RowsHaveParts DEF Typed, IsCatalog, Reveals
<1> HIDE DEF s
<1>6. CASE catalog[s].generation > reveal.generation
  <2>1. catalog'[s].generation > reveal.generation
    BY <1>4, <1>5, <1>6
  <2> QED
    BY <1>1, <1>3, <2>1
<1>7. CASE /\ catalog[s].generation = reveal.generation
           /\ reveal.session \in DOMAIN catalog[s].entities
           /\ catalog[s].entities[reveal.session].of = reveal.of
  BY <1>1, <1>3, <1>4, <1>7
<1> QED
  BY <1>2, <1>6, <1>7

-----------------------------------------------------------------------------
(* The refresh *)

Statuses == [Sources -> {"none", "loading", "error"}]

\* What a step of the refresh leaves of the view and of itself.
RefreshKeeps ==
    /\ view' \in Views /\ view'.disposed = view.disposed
    /\ status' \in Statuses
    /\ IsRefresh(refresh')

LEMMA NoRefreshIsTyped ==
    /\ IsRefresh(NoRefresh)
    /\ IsRefresh([NoRefresh EXCEPT !.pc = "store"])
<1>1. 0 \in 0..(MaxInitialPages - 1)
  BY BoundsAssumption
<1>2. NoRefresh \in Refreshes /\ NoRefresh.pc = "idle"
  BY <1>1 DEF NoRefresh, Refreshes, CursorsOrNone
<1>3. [NoRefresh EXCEPT !.pc = "store"] \in Refreshes
      /\ [NoRefresh EXCEPT !.pc = "store"].pc = "store"
  BY <1>1 DEF NoRefresh, Refreshes, CursorsOrNone
<1> QED
  BY <1>2, <1>3 DEF IsRefresh

LEMMA PassOverKeeps ==
    ASSUME view \in Views, NEW stat \in Statuses, NEW again \in BOOLEAN,
           PassOver(stat, again)
    PROVE  RefreshKeeps
<1>1. status' \in Statuses
  BY DEF PassOver, Statuses
<1>2. view' \in Views /\ view'.disposed = view.disposed
  BY DEF PassOver, Views
<1>3. IsRefresh(refresh')
  BY NoRefreshIsTyped DEF PassOver
<1> QED
  BY <1>1, <1>2, <1>3 DEF RefreshKeeps

LEMMA GoOnKeeps ==
    ASSUME view \in Views, IsRefresh(refresh), NEW todo, todo \subseteq Sources,
           NEW rows, IsCatalog(rows), NEW stat \in Statuses, NEW again \in BOOLEAN,
           GoOn(todo, rows, stat, again)
    PROVE  RefreshKeeps
<1>1. CASE todo = {} \/ Stopped
  BY <1>1, PassOverKeeps DEF GoOn
<1>2. CASE ~(todo = {} \/ Stopped)
  <2> DEFINE cached == IF First(todo) \in DOMAIN rows THEN rows[First(todo)].fingerprint ELSE 0
             pc == IF cached = 0 THEN "scan" ELSE "probe"
  <2>1. cached \in {0} \cup Versions
    BY RowsHaveParts DEF IsCatalog
  <2>2. /\ refresh' = [refresh EXCEPT !.todo = todo, !.pc = pc,
                                      !.at = cached, !.cursor = NoCursor, !.pages = 0]
        /\ status' = stat
        /\ view' = [view EXCEPT !.again = again]
    BY <1>2 DEF GoOn
  <2>3. 0 \in 0..(MaxInitialPages - 1) /\ pc \in {"scan", "probe"}
    BY BoundsAssumption
  <2> HIDE DEF cached, pc
  <2>4. refresh' \in Refreshes /\ refresh'.todo = todo /\ refresh'.pc = pc
    BY <2>1, <2>2, <2>3 DEF IsRefresh, Refreshes, CursorsOrNone
  <2>5. IsRefresh(refresh')
    BY <1>2, <2>3, <2>4 DEF IsRefresh
  <2>6. view' \in Views /\ view'.disposed = view.disposed
    BY <2>2 DEF Views
  <2> QED
    BY <2>2, <2>5, <2>6 DEF RefreshKeeps
<1> QED
  BY <1>1, <1>2

LEMMA AgainIsBoolean ==
    ASSUME view \in Views
    PROVE  view.again \in BOOLEAN
  BY DEF Views

LEMMA CurrentIsASource ==
    ASSUME IsRefresh(refresh), refresh.pc \in {"probe", "scan", "read"}
    PROVE  /\ Current \in Sources /\ Current \in refresh.todo
           /\ Others \subseteq Sources
<1>1. refresh.todo \subseteq Sources /\ refresh.todo # {}
  BY DEF IsRefresh, Refreshes
<1> QED
  BY <1>1, FirstIsIn DEF Current, Others

\* The rest of the invariant goes with these.
LEMMA RefreshSteps ==
    ASSUME IInv, RefreshKeeps, CatalogGoesOn, IsCatalog(catalog'), past' \in Histories,
           transient' \in [Sources -> 0..MaxTransient],
           UNCHANGED <<version, settings, store, loads, hint, command, reveal, acts>>
    PROVE  IInv'
<1>1. Typed'
  BY DEF IInv, Typed, RefreshKeeps, Statuses
<1>2. ClosedOnceDisposed'
  BY DEF IInv, ClosedOnceDisposed, RefreshKeeps
<1>3. RemovalExcludes'
  BY DEF IInv, RemovalExcludes
<1>4. RevealFollows'
  BY RevealGoesWithIt DEF IInv
<1> QED
  BY <1>1, <1>2, <1>3, <1>4 DEF IInv

LEMMA PassBeginsKeeps ==
    ASSUME IInv, PassBegins
    PROVE  IInv' /\ CatalogGoesOn
<1>1. /\ view \in Views /\ view.again \in BOOLEAN /\ status \in Statuses /\ IsCatalog(catalog)
      /\ IsRefresh(refresh) /\ transient \in [Sources -> 0..MaxTransient]
      /\ settings \in SettingsRecords /\ past \in Histories
  BY AgainIsBoolean DEF IInv, Typed, Statuses
<1>2. UNCHANGED <<version, settings, store, loads, hint, command, reveal, acts>>
  BY DEF PassBegins, RefreshOnly
<1>3. CASE Stopped
  <2>1. PassOver(status, view.again) /\ Syncs(catalog) /\ UNCHANGED transient
    BY <1>3 DEF PassBegins
  <2>2. RefreshKeeps
    BY <1>1, <2>1, PassOverKeeps
  <2>3. CatalogGoesOn /\ past' \in Histories /\ IsCatalog(catalog')
    BY <1>1, <1>2, <2>1, SyncsGoOn, ContinuesItself DEF Syncs, IsCatalog
  <2> QED
    BY <1>1, <1>2, <2>1, <2>2, <2>3, RefreshSteps
<1>4. CASE ~Stopped
  <2> DEFINE rows == Synced(catalog, Authorized)
             stat == [s \in Sources |-> IF s \in Authorized THEN "loading" ELSE "none"]
  <2>1. /\ Syncs(rows)
        /\ transient' = [s \in Sources |-> IF s \in Authorized THEN transient[s] ELSE 0]
        /\ GoOn(Authorized, rows, stat, view.again)
    BY <1>4 DEF PassBegins
  <2>2. Authorized \subseteq Wanted /\ Authorized \subseteq Sources
    BY <1>1, AuthorizedAreWanted
  <2>3. IsCatalog(rows) /\ DOMAIN rows = Authorized /\ Continues(catalog, rows)
    BY <1>1, <2>2, SyncedRows
  <2>4. stat \in Statuses
    BY DEF Statuses
  <2>5. transient' \in [Sources -> 0..MaxTransient]
    BY <1>1, <2>1, BoundsAssumption
  <2> HIDE DEF rows, stat
  <2>6. RefreshKeeps
    BY <1>1, <2>1, <2>2, <2>3, <2>4, GoOnKeeps
  <2>7. CatalogGoesOn /\ past' \in Histories
    BY <1>1, <1>2, <2>1, <2>2, <2>3, SyncsGoOn DEF IsCatalog
  <2>8. IsCatalog(catalog')
    BY <2>1, <2>3 DEF Syncs
  <2> QED
    BY <1>2, <2>5, <2>6, <2>7, <2>8, RefreshSteps
<1> QED
  BY <1>3, <1>4

LEMMA ProbeAnswersKeeps ==
    ASSUME IInv, ProbeAnswers
    PROVE  IInv' /\ CatalogGoesOn
<1>1. /\ view \in Views /\ view.again \in BOOLEAN /\ status \in Statuses /\ IsCatalog(catalog)
      /\ IsRefresh(refresh) /\ transient \in [Sources -> 0..MaxTransient]
      /\ past \in Histories
  BY AgainIsBoolean DEF IInv, Typed, Statuses
<1>2. UNCHANGED <<version, settings, store, loads, hint, command, reveal, acts, past>>
  BY DEF ProbeAnswers, RefreshOnly
<1>3. refresh.pc = "probe" /\ Current \in Sources /\ Others \subseteq Sources
  BY <1>1, CurrentIsASource DEF ProbeAnswers
<1>4. CASE Stopped
  <2>1. PassOver(status, view.again) /\ UNCHANGED <<catalog, transient>>
    BY <1>4 DEF ProbeAnswers
  <2>2. RefreshKeeps
    BY <1>1, <2>1, PassOverKeeps
  <2> QED
    BY <1>1, <1>2, <2>1, <2>2, StillGoesOn, RefreshSteps
<1>5. CASE ~Stopped
  <2> DEFINE same == version[Current] = refresh.at
             stat == [status EXCEPT ![Current] = "none"]
  <2>1. /\ catalog' = Marked(catalog, Current, ~same)
        /\ IF same
           THEN /\ transient' = [transient EXCEPT ![Current] = 0]
                /\ GoOn(Others, catalog', stat, view.again)
           ELSE /\ refresh' = [refresh EXCEPT !.pc = "scan"]
                /\ UNCHANGED <<transient, status, view>>
    BY <1>5 DEF ProbeAnswers
  <2> HIDE DEF same
  <2>2. /\ IsCatalog(catalog') /\ DOMAIN catalog' = DOMAIN catalog
        /\ Continues(catalog, catalog')
    BY <1>1, <2>1, MarkedRows
  <2>3. CatalogGoesOn
    BY <1>2, <2>2, WritesGoOn
  <2>4. transient' \in [Sources -> 0..MaxTransient]
    BY <1>1, <1>3, <2>1, BoundsAssumption
  <2>5. stat \in Statuses
    BY <1>1 DEF Statuses
  <2> HIDE DEF stat
  <2>6. ASSUME same
        PROVE  RefreshKeeps
    BY <1>1, <1>3, <2>1, <2>2, <2>5, <2>6, GoOnKeeps
  <2>7. ASSUME ~same
        PROVE  RefreshKeeps
    <3>1. IsRefresh(refresh')
      BY <1>1, <1>3, <2>1, <2>7 DEF IsRefresh, Refreshes
    <3> QED
      BY <1>1, <2>1, <2>7, <3>1 DEF RefreshKeeps
  <2> QED
    BY <1>1, <1>2, <2>2, <2>3, <2>4, <2>6, <2>7, RefreshSteps
<1> QED
  BY <1>4, <1>5

LEMMA OffsetsAreNumbers ==
    ASSUME NEW cursor \in CursorsOrNone
    PROVE  Offset(cursor) \in Nat
  BY DEF Offset, CursorsOrNone, Cursors

\* A page is written down in the history, and nothing is dropped.
HistoryKeeps == past' \in Histories /\ past'.dropped = past.dropped

LEMMA PagesAreRemembered ==
    ASSUME past \in Histories, NEW s, NEW page, NEW cursor,
           past' = [past EXCEPT !.pages[s] = MadeOf(s, page, cursor)]
    PROVE  HistoryKeeps
<1> DEFINE made == MadeOf(s, page, cursor)
<1>1. made \in {"whole", "short", "gap"}
  BY DEF MadeOf
<1> HIDE DEF made
<1>2. past' = [past EXCEPT !.pages[s] = made]
  BY DEF made
<1>3. past' = [pages |-> [past.pages EXCEPT ![s] = made], dropped |-> past.dropped]
  BY <1>2 DEF Histories
<1>4. [past.pages EXCEPT ![s] = made] \in [Sources -> {"whole", "short", "gap"}]
  BY <1>1 DEF Histories
<1> QED
  BY <1>3, <1>4 DEF Histories, HistoryKeeps

\* A page of the refresh is written and the refresh goes on.
LEMMA CommitKeeps ==
    ASSUME IInv, refresh.pc = "read", NEW page, IsPage(page), NEW rows, IsCatalog(rows),
           NEW cursor \in CursorsOrNone, Commit(rows, page, cursor)
    PROVE  RefreshKeeps /\ catalog' = rows /\ HistoryKeeps
<1>1. /\ view \in Views /\ view.again \in BOOLEAN /\ status \in Statuses /\ IsRefresh(refresh)
  BY AgainIsBoolean DEF IInv, Typed, Statuses
<1>2. Current \in Sources /\ Others \subseteq Sources
  BY <1>1, CurrentIsASource
<1>3. catalog' = rows /\ HistoryKeeps
  BY PagesAreRemembered DEF Commit, IInv, Typed
<1>4. CASE /\ Provider[Current] = "claude" /\ cursor # NoCursor
           /\ refresh.pages + 1 < MaxInitialPages
  <2>1. /\ refresh' = [refresh EXCEPT !.pc = "scan", !.cursor = cursor, !.pages = @ + 1]
        /\ UNCHANGED <<status, view>>
    BY <1>4 DEF Commit
  <2>2. refresh.pages + 1 \in 0..(MaxInitialPages - 1)
    BY <1>1, <1>4, BoundsAssumption DEF IsRefresh, Refreshes
  <2>3. refresh' \in Refreshes /\ refresh'.todo = refresh.todo /\ refresh'.pc = "scan"
    BY <1>1, <2>1, <2>2 DEF IsRefresh, Refreshes
  <2>4. IsRefresh(refresh')
    BY <1>1, <2>3 DEF IsRefresh
  <2> QED
    BY <1>1, <1>3, <2>1, <2>4 DEF RefreshKeeps
<1>5. CASE ~(/\ Provider[Current] = "claude" /\ cursor # NoCursor
             /\ refresh.pages + 1 < MaxInitialPages)
  <2> DEFINE stat == [status EXCEPT ![Current] = "none"]
  <2>1. GoOn(Others, rows, stat, view.again)
    BY <1>5 DEF Commit
  <2>2. stat \in Statuses
    BY <1>1 DEF Statuses
  <2> HIDE DEF stat
  <2> QED
    BY <1>1, <1>2, <1>3, <2>1, <2>2, GoOnKeeps
<1> QED
  BY <1>4, <1>5

\* What a page that answers leaves, whichever it is.
PageKeeps ==
    /\ RefreshKeeps
    /\ IsCatalog(catalog') /\ DOMAIN catalog' = DOMAIN catalog /\ Continues(catalog, catalog')
    /\ transient' \in [Sources -> 0..MaxTransient]
    /\ HistoryKeeps

LEMMA NothingRemembered ==
    ASSUME IInv, UNCHANGED past
    PROVE  HistoryKeeps
  BY DEF IInv, Typed, HistoryKeeps

LEMMA FirstPageKeeps ==
    ASSUME IInv, refresh.pc = "read", NEW page, IsPage(page), FirstPageAnswers(page)
    PROVE  PageKeeps
<1> DEFINE cursor == CursorAfter(page, refresh.at, 0)
<1>1. /\ view \in Views /\ view.again \in BOOLEAN /\ status \in Statuses /\ IsRefresh(refresh)
      /\ IsCatalog(catalog) /\ transient \in [Sources -> 0..MaxTransient]
  BY AgainIsBoolean DEF IInv, Typed, Statuses
<1>2. Current \in Sources /\ Others \subseteq Sources
  BY <1>1, CurrentIsASource
<1>3. refresh.at \in Versions /\ cursor \in CursorsOrNone
  BY <1>1, CursorsAreTyped DEF IsRefresh
<1>4. [status EXCEPT ![Current] = "error"] \in Statuses
  BY <1>1 DEF Statuses
<1> HIDE DEF cursor
<1>5. CASE Current \notin Authorized
  <2>1. GoOn(Others, catalog, status, view.again) /\ UNCHANGED <<catalog, transient, past>>
    BY <1>5 DEF FirstPageAnswers
  <2>2. RefreshKeeps
    BY <1>1, <1>2, <2>1, GoOnKeeps
  <2> QED
    BY <1>1, <2>1, <2>2, ContinuesItself, NothingRemembered DEF PageKeeps
<1>6. CASE Current \in Authorized /\ Provisional(page)
  <2>1. /\ transient' = [transient EXCEPT ![Current] = @ + 1]
        /\ GoOn(Others, catalog, status, TRUE)
        /\ UNCHANGED <<catalog, past>>
    BY <1>6 DEF FirstPageAnswers
  <2>2. transient[Current] < MaxTransient
    BY <1>6 DEF Provisional
  <2>3. transient' \in [Sources -> 0..MaxTransient]
    <3>1. transient[Current] \in 0..MaxTransient /\ MaxTransient \in Nat
      BY <1>1, <1>2, BoundsAssumption
    <3> DEFINE n == transient[Current] + 1
    <3>2. n \in 0..MaxTransient
      BY <2>2, <3>1
    <3>3. transient' = [transient EXCEPT ![Current] = n]
      BY <2>1
    <3> HIDE DEF n
    <3> QED
      BY <1>1, <3>2, <3>3
  <2>4. RefreshKeeps
    BY <1>1, <1>2, <2>1, GoOnKeeps
  <2> QED
    BY <1>1, <2>1, <2>3, <2>4, ContinuesItself, NothingRemembered DEF PageKeeps
<1>7. CASE Current \in Authorized /\ ~Provisional(page)
  <2> DEFINE row == Replaced(catalog[Current], page, refresh.at, cursor)
             rows == [catalog EXCEPT ![Current] = row]
  <2>1. /\ transient' = [transient EXCEPT ![Current] = 0]
        /\ IF Current \in DOMAIN catalog
           THEN Commit(rows, page, cursor)
           ELSE /\ GoOn(Others, catalog, [status EXCEPT ![Current] = "error"], view.again)
                /\ UNCHANGED <<catalog, past>>
    BY <1>7 DEF FirstPageAnswers, cursor
  <2>2. transient' \in [Sources -> 0..MaxTransient]
    <3>1. transient \in [Sources -> 0..MaxTransient] /\ 0 \in 0..MaxTransient
      BY <1>1, BoundsAssumption
    <3>2. transient' = [transient EXCEPT ![Current] = 0]
      BY <2>1
    <3> QED
      BY <3>1, <3>2
  <2>3. ASSUME Current \in DOMAIN catalog
        PROVE  PageKeeps
    <3>1. IsCatalog(rows) /\ DOMAIN rows = DOMAIN catalog /\ Continues(catalog, rows)
      BY <1>1, <1>3, <2>3, PagesAreWritten
    <3> HIDE DEF rows
    <3>2. RefreshKeeps /\ catalog' = rows /\ HistoryKeeps
      BY <1>3, <2>1, <2>3, <3>1, CommitKeeps
    <3> QED
      BY <2>2, <3>1, <3>2 DEF PageKeeps
  <2>4. ASSUME Current \notin DOMAIN catalog
        PROVE  PageKeeps
    <3>1. RefreshKeeps
      BY <1>1, <1>2, <1>4, <2>1, <2>4, GoOnKeeps
    <3> QED
      BY <1>1, <2>1, <2>2, <2>4, <3>1, ContinuesItself, NothingRemembered DEF PageKeeps
  <2> QED
    BY <2>3, <2>4
<1> QED
  BY <1>5, <1>6, <1>7

LEMMA NextPageKeeps ==
    ASSUME IInv, refresh.pc = "read", NEW page, IsPage(page), NextPageAnswers(page)
    PROVE  PageKeeps
<1> DEFINE cursor == CursorAfter(page, refresh.at, Offset(refresh.cursor))
<1>1. /\ view \in Views /\ view.again \in BOOLEAN /\ status \in Statuses /\ IsRefresh(refresh)
      /\ IsCatalog(catalog) /\ transient \in [Sources -> 0..MaxTransient]
  BY AgainIsBoolean DEF IInv, Typed, Statuses
<1>2. Current \in Sources /\ Others \subseteq Sources
  BY <1>1, CurrentIsASource
<1>3. refresh.at \in Versions /\ cursor \in CursorsOrNone
  BY <1>1, CursorsAreTyped, OffsetsAreNumbers DEF IsRefresh, Refreshes
<1>4. /\ [status EXCEPT ![Current] = "error"] \in Statuses
      /\ [status EXCEPT ![Current] = "none"] \in Statuses
  BY <1>1 DEF Statuses
<1>5. UNCHANGED transient
  BY DEF NextPageAnswers
<1> HIDE DEF cursor
<1>6. CASE Current \notin Authorized
  <2>1. GoOn(Others, catalog, [status EXCEPT ![Current] = "none"], view.again)
        /\ UNCHANGED <<catalog, past>>
    BY <1>6 DEF NextPageAnswers
  <2>2. RefreshKeeps
    BY <1>1, <1>2, <1>4, <2>1, GoOnKeeps
  <2> QED
    BY <1>1, <1>5, <2>1, <2>2, ContinuesItself, NothingRemembered DEF PageKeeps
<1>7. CASE Current \in Authorized /\ Current \in DOMAIN catalog
  <2> DEFINE row == Appended(catalog[Current], page, refresh.at, cursor)
             rows == [catalog EXCEPT ![Current] = row]
  <2>1. Commit(rows, page, cursor)
    BY <1>7 DEF NextPageAnswers, cursor
  <2>2. IsCatalog(rows) /\ DOMAIN rows = DOMAIN catalog /\ Continues(catalog, rows)
    BY <1>1, <1>3, <1>7, PagesAreWritten
  <2> HIDE DEF rows
  <2>3. RefreshKeeps /\ catalog' = rows /\ HistoryKeeps
    BY <1>3, <2>1, <2>2, CommitKeeps
  <2> QED
    BY <1>1, <1>5, <2>2, <2>3 DEF PageKeeps
<1>8. CASE Current \in Authorized /\ Current \notin DOMAIN catalog
  <2>1. GoOn(Others, catalog, [status EXCEPT ![Current] = "error"], view.again)
        /\ UNCHANGED <<catalog, past>>
    BY <1>8 DEF NextPageAnswers
  <2>2. RefreshKeeps
    BY <1>1, <1>2, <1>4, <2>1, GoOnKeeps
  <2> QED
    BY <1>1, <1>5, <2>1, <2>2, ContinuesItself, NothingRemembered DEF PageKeeps
<1> QED
  BY <1>6, <1>7, <1>8

LEMMA ScanAnswersKeeps ==
    ASSUME IInv, ScanAnswers
    PROVE  IInv' /\ CatalogGoesOn
<1>1. /\ view \in Views /\ view.again \in BOOLEAN /\ status \in Statuses /\ IsCatalog(catalog)
      /\ IsRefresh(refresh) /\ transient \in [Sources -> 0..MaxTransient]
      /\ past \in Histories /\ version \in [Sources -> Versions]
  BY AgainIsBoolean DEF IInv, Typed, Statuses
<1>2. UNCHANGED <<version, settings, store, loads, hint, command, reveal, acts>>
  BY DEF ScanAnswers, RefreshOnly
<1>3. refresh.pc = "read" /\ Current \in Sources
  BY <1>1, CurrentIsASource DEF ScanAnswers
<1>4. CASE Stopped
  <2>1. PassOver(status, view.again) /\ UNCHANGED <<catalog, transient, past>>
    BY <1>4 DEF ScanAnswers
  <2>2. RefreshKeeps
    BY <1>1, <2>1, PassOverKeeps
  <2> QED
    BY <1>1, <1>2, <2>1, <2>2, StillGoesOn, RefreshSteps
<1>5. CASE ~Stopped
  <2> DEFINE page(read) ==
               PageOf(Provider[Current], version[Current], Offset(refresh.cursor), read)
  <2>1. PICK read \in Reads(Current, version[Current], Offset(refresh.cursor)) :
               IF refresh.cursor = NoCursor THEN FirstPageAnswers(page(read))
                                            ELSE NextPageAnswers(page(read))
    BY <1>5 DEF ScanAnswers
  <2>2. IsPage(page(read))
    <3>2. Offset(refresh.cursor) \in Nat
      BY <1>1, OffsetsAreNumbers DEF IsRefresh, Refreshes
    <3> QED
      BY <1>1, <1>3, <3>2, PagesAreTyped
  <2> HIDE DEF page
  <2>3. PageKeeps
    BY <1>3, <2>1, <2>2, FirstPageKeeps, NextPageKeeps
  <2>4. CatalogGoesOn
    BY <1>2, <2>3, WritesGoOn DEF PageKeeps, HistoryKeeps
  <2> QED
    BY <1>1, <1>2, <2>3, <2>4, RefreshSteps DEF PageKeeps, HistoryKeeps
<1> QED
  BY <1>4, <1>5

LEMMA ProviderFailsKeeps ==
    ASSUME IInv, ProviderFails
    PROVE  IInv' /\ CatalogGoesOn
<1>1. /\ view \in Views /\ view.again \in BOOLEAN /\ status \in Statuses /\ IsCatalog(catalog)
      /\ IsRefresh(refresh) /\ transient \in [Sources -> 0..MaxTransient]
      /\ past \in Histories
  BY AgainIsBoolean DEF IInv, Typed, Statuses
<1>2. UNCHANGED <<version, settings, store, catalog, transient, loads, hint, command, reveal,
                  acts, past>>
  BY DEF ProviderFails, RefreshOnly
<1>3. Others \subseteq Sources
  BY <1>1, CurrentIsASource DEF ProviderFails
<1>4. [status EXCEPT ![Current] = "error"] \in Statuses
  BY <1>1 DEF Statuses
<1>5. RefreshKeeps
  <2>1. CASE refresh.aborted \/ view.disposed
    BY <1>1, <2>1, PassOverKeeps DEF ProviderFails
  <2>2. CASE ~(refresh.aborted \/ view.disposed)
    <3>1. GoOn(Others, catalog, [status EXCEPT ![Current] = "error"], view.again)
      BY <2>2 DEF ProviderFails
    <3> QED
      BY <1>1, <1>3, <1>4, <3>1, GoOnKeeps
  <2> QED
    BY <2>1, <2>2
<1> QED
  BY <1>1, <1>2, <1>5, StillGoesOn, RefreshSteps

LEMMA ScanTakesFingerprintKeeps ==
    ASSUME IInv, ScanTakesFingerprint
    PROVE  IInv' /\ CatalogGoesOn
<1>1. /\ view \in Views /\ status \in Statuses /\ IsCatalog(catalog) /\ IsRefresh(refresh)
      /\ past \in Histories /\ version \in [Sources -> Versions]
      /\ transient \in [Sources -> 0..MaxTransient]
  BY DEF IInv, Typed, Statuses
<1>2. refresh.pc = "scan" /\ Current \in Sources
  BY <1>1, CurrentIsASource DEF ScanTakesFingerprint
<1>3. /\ refresh' = [refresh EXCEPT !.pc = "read", !.at = version[Current]]
      /\ UNCHANGED <<version, settings, store, catalog, view, status, transient, loads, hint,
                     command, reveal, acts, past>>
  BY DEF ScanTakesFingerprint
<1>4. version[Current] \in Versions
  BY <1>1, <1>2
<1>5. IsRefresh(refresh')
  BY <1>1, <1>2, <1>3, <1>4 DEF IsRefresh, Refreshes
<1>6. RefreshKeeps
  BY <1>1, <1>3, <1>5 DEF RefreshKeeps
<1> QED
  BY <1>1, <1>3, <1>6, StillGoesOn, RefreshSteps

-----------------------------------------------------------------------------
(* Visibility, configuration and the store *)

\* The other variables of the invariant.
LEMMA OtherSteps ==
    ASSUME IInv, Typed', ClosedOnceDisposed', UNCHANGED <<settings, command, reveal>>,
           CatalogGoesOn
    PROVE  IInv'
<1>1. RemovalExcludes'
  BY DEF IInv, RemovalExcludes
<1>2. RevealFollows'
  <2>1. IsCatalog(catalog')
    BY DEF Typed
  <2> QED
    BY <2>1, RevealGoesWithIt DEF IInv
<1> QED
  BY <1>1, <1>2 DEF IInv

LEMMA AbortedIsTyped ==
    ASSUME NEW r, IsRefresh(r)
    PROVE  IsRefresh(Aborted(r))
<1>1. CASE HasController(r)
  <2>1. [r EXCEPT !.aborted = TRUE] \in Refreshes
    BY DEF IsRefresh, Refreshes
  <2>2. /\ [r EXCEPT !.aborted = TRUE].pc = r.pc /\ [r EXCEPT !.aborted = TRUE].todo = r.todo
        /\ [r EXCEPT !.aborted = TRUE].at = r.at
    BY DEF IsRefresh, Refreshes
  <2> QED
    BY <1>1, <2>1, <2>2 DEF Aborted, IsRefresh
<1>2. CASE ~HasController(r)
  BY <1>2 DEF Aborted
<1> QED
  BY <1>1, <1>2

LEMMA RefreshingIsTyped ==
    ASSUME NEW r, IsRefresh(r)
    PROVE  IsRefresh(Refreshing(r))
<1>1. CASE r.pc = "idle"
  <2>1. [r EXCEPT !.pc = "begin"] \in Refreshes /\ [r EXCEPT !.pc = "begin"].pc = "begin"
    BY DEF IsRefresh, Refreshes
  <2> QED
    BY <1>1, <2>1 DEF Refreshing, IsRefresh
<1>2. CASE r.pc # "idle"
  BY <1>2 DEF Refreshing
<1> QED
  BY <1>1, <1>2

LEMMA ShownOrHiddenIsTyped ==
    ASSUME NEW v \in Views, NEW r, IsRefresh(r), NEW enabled \in BOOLEAN, NEW visible \in BOOLEAN
    PROVE  /\ ShownOrHidden(v, r, enabled, visible).view \in Views
           /\ ShownOrHidden(v, r, enabled, visible).view.disposed = v.disposed
           /\ IsRefresh(ShownOrHidden(v, r, enabled, visible).refresh)
<1>1. /\ v.initialized \in BOOLEAN /\ v.again \in BOOLEAN /\ r.aborted \in BOOLEAN
      /\ HasController(r) \in BOOLEAN
  BY DEF Views, IsRefresh, Refreshes, HasController
<1>2. IsRefresh(Aborted(r)) /\ IsRefresh(Refreshing(r))
  BY AbortedIsTyped, RefreshingIsTyped
<1>3. CASE visible /\ enabled /\ v.initialized
  BY <1>2, <1>3 DEF ShownOrHidden, Views
<1>4. CASE visible /\ enabled /\ ~v.initialized
  <2> DEFINE again == v.again \/ (HasController(r) /\ r.aborted)
             w == [v EXCEPT !.visible = TRUE, !.initialized = TRUE, !.again = again]
  <2>1. again \in BOOLEAN
    BY <1>1
  <2>2. ShownOrHidden(v, r, enabled, visible) = [view |-> w, refresh |-> Refreshing(r)]
    BY <1>4 DEF ShownOrHidden
  <2> HIDE DEF again
  <2>3. w \in Views /\ w.disposed = v.disposed
    BY <2>1 DEF Views
  <2> HIDE DEF w
  <2> QED
    BY <1>2, <2>2, <2>3
<1>5. CASE ~(visible /\ enabled)
  <2> DEFINE initialized == /\ v.initialized
                            /\ ~HasController(r)
                            /\ \A s \in Sources : status[s] # "error"
             w == [v EXCEPT !.visible = visible, !.initialized = initialized]
  <2>1. initialized \in BOOLEAN
    BY <1>1
  <2>2. ShownOrHidden(v, r, enabled, visible) = [view |-> w, refresh |-> Aborted(r)]
    BY <1>5 DEF ShownOrHidden
  <2> HIDE DEF initialized
  <2>3. w \in Views /\ w.disposed = v.disposed
    BY <2>1 DEF Views
  <2> HIDE DEF w
  <2> QED
    BY <1>2, <2>2, <2>3
<1> QED
  BY <1>3, <1>4, <1>5

LEMMA ConfigurationKeeps ==
    ASSUME IInv, NEW new \in SettingsRecords, ConfigurationChanges(new)
    PROVE  /\ settings' = new
           /\ view' \in Views /\ view'.disposed = view.disposed
           /\ IsRefresh(refresh')
<1>1. /\ view \in Views /\ IsRefresh(refresh)
      /\ view.visible \in BOOLEAN /\ new.enabled \in BOOLEAN
  BY DEF IInv, Typed, Views, SettingsRecords
<1>2. settings' = new
  BY DEF ConfigurationChanges
<1>3. CASE UNCHANGED <<view, refresh>>
  BY <1>1, <1>2, <1>3
<1>4. CASE view' = Reconfigured(new.enabled).view /\ refresh' = Reconfigured(new.enabled).refresh
  <2>1. CASE view.disposed
    BY <1>1, <1>2, <1>4, <2>1 DEF Reconfigured
  <2>2. CASE ~view.disposed
    <3> DEFINE v == [view EXCEPT !.again = TRUE, !.initialized = FALSE]
    <3>1. v \in Views /\ v.disposed = view.disposed
      BY <1>1 DEF Views
    <3> HIDE DEF v
    <3>2. IsRefresh(Aborted(refresh))
      BY <1>1, AbortedIsTyped
    <3> DEFINE next == ShownOrHidden(v, Aborted(refresh), new.enabled, view.visible)
    <3>3. Reconfigured(new.enabled) = next
      BY <2>2 DEF Reconfigured, v
    <3>4. /\ next.view \in Views /\ next.view.disposed = v.disposed
          /\ IsRefresh(next.refresh)
      BY <1>1, <3>1, <3>2, ShownOrHiddenIsTyped
    <3> HIDE DEF next
    <3> QED
      BY <1>2, <1>4, <3>1, <3>3, <3>4
  <2> QED
    BY <2>1, <2>2
<1> QED
  BY <1>3, <1>4 DEF ConfigurationChanges

LEMMA ActIsCounted ==
    ASSUME IInv, Act
    PROVE  acts' \in 0..MaxActs
  BY BoundsAssumption DEF IInv, Typed, Act

LEMMA ToggleVisibleKeeps ==
    ASSUME IInv, ToggleVisible
    PROVE  IInv' /\ CatalogGoesOn
<1>1. /\ UNCHANGED <<version, settings, store, catalog, status, transient, loads, hint,
                     command, reveal, past>>
      /\ Act
  BY DEF ToggleVisible
<1>2. /\ view \in Views /\ IsRefresh(refresh) /\ settings.enabled \in BOOLEAN
      /\ (~view.visible) \in BOOLEAN
  BY DEF IInv, Typed, SettingsRecords
<1>3. view' \in Views /\ view'.disposed = view.disposed /\ IsRefresh(refresh')
  BY <1>2, ShownOrHiddenIsTyped DEF ToggleVisible
<1>4. Typed'
  BY <1>1, <1>3, ActIsCounted DEF IInv, Typed
<1>5. ClosedOnceDisposed'
  BY <1>1, <1>3 DEF IInv, ClosedOnceDisposed
<1> QED
  BY <1>1, <1>4, <1>5, StillGoesOn, OtherSteps

LEMMA ToggleEnabledKeeps ==
    ASSUME IInv, ToggleEnabled
    PROVE  IInv' /\ CatalogGoesOn
<1>1. /\ UNCHANGED <<version, store, catalog, status, transient, loads, hint,
                     command, reveal, past>>
      /\ Act
  BY DEF ToggleEnabled
<1> DEFINE new == [settings EXCEPT !.enabled = ~@]
<1>2. new \in SettingsRecords /\ new.excluded = settings.excluded
  BY DEF IInv, Typed, SettingsRecords
<1>3. ConfigurationChanges(new)
  BY DEF ToggleEnabled
<1> HIDE DEF new
<1>4. /\ settings' = new /\ view' \in Views /\ view'.disposed = view.disposed
      /\ IsRefresh(refresh')
  BY <1>2, <1>3, ConfigurationKeeps
<1>5. Typed'
  BY <1>1, <1>2, <1>4, ActIsCounted DEF IInv, Typed
<1>6. ClosedOnceDisposed'
  BY <1>1, <1>4 DEF IInv, ClosedOnceDisposed
<1>7. RemovalExcludes'
  BY <1>1, <1>2, <1>4 DEF IInv, RemovalExcludes
<1>8. CatalogGoesOn
  BY <1>1, StillGoesOn
<1>9. RevealFollows'
  BY <1>1, <1>5, <1>8, RevealGoesWithIt DEF IInv, Typed
<1> QED
  BY <1>5, <1>6, <1>7, <1>8, <1>9 DEF IInv

LEMMA ListSourcesKeeps ==
    ASSUME IInv, ListSources
    PROVE  IInv' /\ CatalogGoesOn
<1> DEFINE rows == Synced(catalog, Authorized)
<1>1. /\ UNCHANGED <<version, settings, store, transient, loads, hint, command, reveal, acts>>
      /\ Syncs(rows)
  BY DEF ListSources
<1>2. /\ view \in Views /\ status \in Statuses /\ IsCatalog(catalog) /\ IsRefresh(refresh)
      /\ settings \in SettingsRecords /\ past \in Histories
  BY DEF IInv, Typed, Statuses
<1>3. Authorized \subseteq Wanted /\ Authorized \subseteq Sources
  BY <1>2, AuthorizedAreWanted
<1>4. IsCatalog(rows) /\ DOMAIN rows = Authorized /\ Continues(catalog, rows)
  BY <1>2, <1>3, SyncedRows
<1> HIDE DEF rows
<1>5. CatalogGoesOn /\ past' \in Histories
  BY <1>1, <1>2, <1>3, <1>4, SyncsGoOn DEF IsCatalog
<1>6. IsCatalog(catalog')
  BY <1>1, <1>4 DEF Syncs
<1>7. /\ view' \in Views /\ view'.disposed = view.disposed /\ status' \in Statuses
      /\ IsRefresh(refresh')
  <2>1. CASE UNCHANGED <<status, view, refresh>>
    BY <1>2, <2>1
  <2>2. CASE /\ status' = [s \in Sources |-> IF s \in Authorized THEN "loading" ELSE status[s]]
             /\ view' = [view EXCEPT !.initialized = TRUE]
             /\ refresh' = Refreshing(refresh)
    <3>1. view' \in Views /\ view'.disposed = view.disposed
      BY <1>2, <2>2 DEF Views
    <3>2. status' \in Statuses
      BY <1>2, <2>2 DEF Statuses
    <3> QED
      BY <1>2, <2>2, <3>1, <3>2, RefreshingIsTyped
  <2> QED
    BY <2>1, <2>2 DEF ListSources
<1> QED
  BY <1>1, <1>5, <1>6, <1>7, RefreshSteps DEF RefreshKeeps, IInv, Typed

LEMMA RefreshCommandKeeps ==
    ASSUME IInv, RefreshCommand
    PROVE  IInv' /\ CatalogGoesOn
<1>1. /\ UNCHANGED <<version, settings, store, catalog, view, status, transient, loads, hint,
                     command, reveal, past>>
      /\ Act /\ refresh' = Refreshing(refresh)
  BY DEF RefreshCommand
<1>2. IsRefresh(refresh')
  BY <1>1, RefreshingIsTyped DEF IInv, Typed
<1>3. Typed'
  BY <1>1, <1>2, ActIsCounted DEF IInv, Typed
<1>4. ClosedOnceDisposed'
  BY <1>1 DEF IInv, ClosedOnceDisposed
<1> QED
  BY <1>1, <1>3, <1>4, StillGoesOn, OtherSteps

LEMMA RefreshBeginsKeeps ==
    ASSUME IInv, RefreshBegins
    PROVE  IInv' /\ CatalogGoesOn
<1>1. /\ UNCHANGED <<version, settings, catalog, status, transient, loads, hint, command,
                     reveal, acts, past>>
      /\ view' = [view EXCEPT !.again = FALSE]
      /\ refresh' = [refresh EXCEPT !.pc = "store"]
      /\ store' = NeedsStore
  BY DEF RefreshBegins
<1>2. view' \in Views /\ view'.disposed = view.disposed
  BY <1>1 DEF IInv, Typed, Views
<1>3. refresh' \in Refreshes /\ refresh'.pc = "store"
  BY <1>1 DEF IInv, Typed, IsRefresh, Refreshes
<1>4. store' \in {"none", "opening", "open", "closed"} /\ (store' = "open" => store = "open")
  BY <1>1 DEF IInv, Typed, NeedsStore
<1>5. Typed'
  BY <1>1, <1>2, <1>3, <1>4 DEF IInv, Typed, IsRefresh
<1>6. ClosedOnceDisposed'
  BY <1>2, <1>4 DEF IInv, ClosedOnceDisposed
<1> QED
  BY <1>1, <1>5, <1>6, StillGoesOn, OtherSteps

LEMMA StoreOpensKeeps ==
    ASSUME IInv, StoreOpens
    PROVE  IInv' /\ CatalogGoesOn
<1>1. /\ UNCHANGED <<version, settings, view, refresh, status, transient, loads, hint,
                     command, reveal, acts>>
  BY DEF StoreOpens
<1>2. /\ IsCatalog(catalog) /\ settings \in SettingsRecords /\ past \in Histories
      /\ settings.enabled \in BOOLEAN
  BY DEF IInv, Typed, SettingsRecords
<1>3. Authorized \subseteq Wanted /\ Authorized \subseteq Sources
  BY <1>2, AuthorizedAreWanted
<1>4. /\ IsCatalog(Synced(catalog, Authorized)) /\ Continues(catalog, Synced(catalog, Authorized))
      /\ DOMAIN Synced(catalog, Authorized) = Authorized
  BY <1>2, <1>3, SyncedRows
<1>5. PICK rows \in {catalog, Synced(catalog, Authorized)} : Syncs(rows)
  BY DEF StoreOpens
<1>6. /\ IsCatalog(rows) /\ Continues(catalog, rows)
      /\ DOMAIN rows \subseteq DOMAIN catalog \cup Wanted
  BY <1>2, <1>3, <1>4, <1>5, ContinuesItself
<1>7. CatalogGoesOn /\ past' \in Histories /\ IsCatalog(catalog')
  BY <1>1, <1>2, <1>5, <1>6, SyncsGoOn DEF IsCatalog, Syncs
<1>8. store' \in {"open", "closed"} /\ (view.disposed => store' = "closed")
  BY DEF StoreOpens
<1>9. Typed'
  BY <1>1, <1>7, <1>8 DEF IInv, Typed
<1>10. ClosedOnceDisposed'
  BY <1>1, <1>8 DEF ClosedOnceDisposed
<1> QED
  BY <1>1, <1>7, <1>9, <1>10, OtherSteps

-----------------------------------------------------------------------------
(* Load More and the hints *)

LEMMA NoLoadIsTyped == IsLoad(NoLoad)
<1>1. NoLoad \in LoadRecords
  BY DEF NoLoad, LoadRecords, CursorsOrNone
<1> QED
  BY <1>1 DEF IsLoad, NoLoad

LEMMA LoadMoreKeeps ==
    ASSUME IInv, NEW l \in Loads, NEW s \in Sources, LoadMore(l, s)
    PROVE  IInv' /\ CatalogGoesOn
<1> DEFINE load == [pc |-> "scan", source |-> s, at |-> 0, cursor |-> catalog[s].cursor]
<1>1. /\ UNCHANGED <<version, settings, store, catalog, view, refresh, transient, hint, command,
                     reveal, past>>
      /\ Act /\ loads' = [loads EXCEPT ![l] = load]
      /\ status' = [status EXCEPT ![s] = "loading"]
      /\ s \in DOMAIN catalog /\ catalog[s].cursor # NoCursor
  BY DEF LoadMore
<1>2. catalog[s].cursor \in CursorsOrNone
  BY <1>1, RowsHaveParts DEF IInv, Typed, IsCatalog
<1>3. IsLoad(load)
  BY <1>1, <1>2 DEF IsLoad, LoadRecords, CursorsOrNone
<1> HIDE DEF load
<1>4. DOMAIN loads' = Loads /\ \A k \in Loads : IsLoad(loads'[k])
  BY <1>1, <1>3 DEF IInv, Typed
<1>5. status' \in [Sources -> {"none", "loading", "error"}]
  BY <1>1 DEF IInv, Typed
<1>6. Typed'
  BY <1>1, <1>4, <1>5, ActIsCounted DEF IInv, Typed
<1>7. ClosedOnceDisposed'
  BY <1>1 DEF IInv, ClosedOnceDisposed
<1> QED
  BY <1>1, <1>6, <1>7, StillGoesOn, OtherSteps

LEMMA LoadTakesFingerprintKeeps ==
    ASSUME IInv, NEW l \in Loads, LoadTakesFingerprint(l)
    PROVE  IInv' /\ CatalogGoesOn
<1> DEFINE load == [loads[l] EXCEPT !.pc = "read", !.at = version[loads[l].source]]
<1>1. /\ UNCHANGED <<version, settings, store, catalog, view, refresh, status, transient, hint,
                     command, reveal, acts, past>>
      /\ loads[l].pc = "scan" /\ loads[l].cursor.of = version[loads[l].source]
  BY DEF LoadTakesFingerprint
<1>2. IsLoad(loads[l]) /\ loads[l].cursor.of \in Versions
  BY <1>1 DEF IInv, Typed, IsLoad, Cursors
<1>3. IsLoad(load)
  BY <1>1, <1>2 DEF IsLoad, LoadRecords
<1>4. loads' = [loads EXCEPT ![l] = load]
  BY <1>2 DEF LoadTakesFingerprint, IsLoad, LoadRecords, IInv, Typed
<1> HIDE DEF load
<1>5. DOMAIN loads' = Loads /\ \A k \in Loads : IsLoad(loads'[k])
  BY <1>3, <1>4 DEF IInv, Typed
<1>6. Typed'
  BY <1>1, <1>5 DEF IInv, Typed
<1>7. ClosedOnceDisposed'
  BY <1>1 DEF IInv, ClosedOnceDisposed
<1> QED
  BY <1>1, <1>6, <1>7, StillGoesOn, OtherSteps

\* Load More is over, and the catalog goes on.
LEMMA LoadOverKeeps ==
    ASSUME IInv, NEW l \in Loads, LoadOver(l), past' \in Histories, CatalogGoesOn,
           IsCatalog(catalog')
    PROVE  IInv'
<1>1. /\ UNCHANGED <<version, settings, store, view, refresh, transient, hint, command, reveal,
                     acts>>
      /\ loads' = [loads EXCEPT ![l] = NoLoad]
      /\ status' = [status EXCEPT ![loads[l].source] = "none"]
  BY DEF LoadOver
<1>2. DOMAIN loads' = Loads /\ \A k \in Loads : IsLoad(loads'[k])
  BY <1>1, NoLoadIsTyped DEF IInv, Typed
<1>3. status' \in [Sources -> {"none", "loading", "error"}]
  BY <1>1 DEF IInv, Typed
<1>4. Typed'
  BY <1>1, <1>2, <1>3 DEF IInv, Typed
<1>5. ClosedOnceDisposed'
  BY <1>1 DEF IInv, ClosedOnceDisposed
<1> QED
  BY <1>1, <1>4, <1>5, OtherSteps

LEMMA LoadAnswersKeeps ==
    ASSUME IInv, NEW l \in Loads, LoadAnswers(l)
    PROVE  IInv' /\ CatalogGoesOn
<1> DEFINE s == loads[l].source
           offset == loads[l].cursor.offset
           page(read) == PageOf(Provider[s], version[s], offset, read)
           row(read) == Appended(catalog[s], page(read), loads[l].at,
                                 CursorAfter(page(read), loads[l].at, offset))
<1>1. LoadOver(l) /\ loads[l].pc = "read" /\ past \in Histories
  BY DEF LoadAnswers, IInv, Typed
<1>2. /\ IsLoad(loads[l]) /\ loads[l].at \in Versions /\ loads[l].cursor \in Cursors
      /\ offset \in Nat /\ IsCatalog(catalog)
  BY <1>1 DEF IInv, Typed, IsLoad, Cursors
<1>3. CASE UNCHANGED <<catalog, past>>
  BY <1>1, <1>2, <1>3, StillGoesOn, LoadOverKeeps
<1>4. ASSUME NEW read \in Reads(s, version[s], offset), s \in DOMAIN catalog,
             catalog' = [catalog EXCEPT ![s] = row(read)],
             past' = [past EXCEPT !.pages[s] = MadeOf(s, page(read), loads[l].cursor)]
      PROVE  IInv' /\ CatalogGoesOn
  <2>1. IsPage(page(read))
    <3>2. s \in Sources /\ version[s] \in Versions
      BY <1>2, <1>4 DEF IInv, Typed, IsCatalog
    <3> QED
      BY <1>2, <3>2, PagesAreTyped
  <2> HIDE DEF page
  <2>2. CursorAfter(page(read), loads[l].at, offset) \in CursorsOrNone
    BY <1>2, CursorsAreTyped
  <2>3. /\ IsCatalog(catalog') /\ DOMAIN catalog' = DOMAIN catalog
        /\ Continues(catalog, catalog')
    BY <1>2, <1>4, <2>1, <2>2, PagesAreWritten
  <2>4. HistoryKeeps
    BY <1>1, <1>4, PagesAreRemembered
  <2> QED
    BY <1>1, <2>3, <2>4, WritesGoOn, LoadOverKeeps DEF HistoryKeeps
<1> QED
  BY <1>3, <1>4 DEF LoadAnswers

LEMMA LoadFailsKeeps ==
    ASSUME IInv, NEW l \in Loads, LoadFails(l)
    PROVE  IInv' /\ CatalogGoesOn
<1>1. LoadOver(l) /\ UNCHANGED <<catalog, past>>
  BY DEF LoadFails
<1> QED
  BY <1>1, StillGoesOn, LoadOverKeeps DEF IInv, Typed

LEMMA HintBeginsKeeps ==
    ASSUME IInv, HintBegins
    PROVE  IInv' /\ CatalogGoesOn
<1>1. /\ UNCHANGED <<version, settings, store, catalog, view, refresh, status, transient, loads,
                     command, reveal, past>>
      /\ Act /\ hint' = [todo |-> Authorized, at |-> 0]
  BY DEF HintBegins
<1>2. hint' \in Hints
  BY <1>1, AuthorizedAreWanted DEF IInv, Typed, Hints
<1>3. Typed'
  BY <1>1, <1>2, ActIsCounted DEF IInv, Typed
<1>4. ClosedOnceDisposed'
  BY <1>1 DEF IInv, ClosedOnceDisposed
<1> QED
  BY <1>1, <1>3, <1>4, StillGoesOn, OtherSteps

LEMMA HintTakesFingerprintKeeps ==
    ASSUME IInv, HintTakesFingerprint
    PROVE  IInv' /\ CatalogGoesOn
<1>1. /\ UNCHANGED <<version, settings, store, catalog, view, refresh, status, transient, loads,
                     command, reveal, acts, past>>
      /\ hint.todo # {} /\ hint' = [hint EXCEPT !.at = version[First(hint.todo)]]
  BY DEF HintTakesFingerprint
<1>2. version[First(hint.todo)] \in Versions
  <2>1. hint.todo \subseteq Sources
    BY DEF IInv, Typed, Hints
  <2> QED
    BY <1>1, <2>1, FirstIsIn DEF IInv, Typed
<1>3. hint' \in Hints
  BY <1>1, <1>2 DEF IInv, Typed, Hints
<1>4. Typed'
  BY <1>1, <1>3 DEF IInv, Typed
<1>5. ClosedOnceDisposed'
  BY <1>1 DEF IInv, ClosedOnceDisposed
<1> QED
  BY <1>1, <1>4, <1>5, StillGoesOn, OtherSteps

LEMMA HintAnswersKeeps ==
    ASSUME IInv, HintAnswers
    PROVE  IInv' /\ CatalogGoesOn
<1>1. /\ UNCHANGED <<version, settings, store, view, refresh, status, transient, loads, command,
                     reveal, acts, past>>
  BY DEF HintAnswers
<1> DEFINE s == First(hint.todo)
           moved == hint.at # catalog[s].fingerprint
<1>2. /\ catalog' \in {catalog, Marked(catalog, s, moved)}
      /\ hint' \in {NoHint, [todo |-> hint.todo \ {s}, at |-> 0]}
  BY DEF HintAnswers
<1>3. moved \in BOOLEAN /\ IsCatalog(catalog)
  BY DEF IInv, Typed
<1> HIDE DEF moved
<1>4. /\ IsCatalog(catalog') /\ DOMAIN catalog' = DOMAIN catalog
      /\ Continues(catalog, catalog')
  BY <1>2, <1>3, MarkedRows, ContinuesItself
<1>5. hint' \in Hints
  BY <1>2 DEF IInv, Typed, Hints, NoHint
<1>6. CatalogGoesOn
  BY <1>1, <1>4, WritesGoOn
<1>7. Typed'
  BY <1>1, <1>4, <1>5 DEF IInv, Typed
<1>8. ClosedOnceDisposed'
  BY <1>1 DEF IInv, ClosedOnceDisposed
<1> QED
  BY <1>1, <1>6, <1>7, <1>8, OtherSteps

-----------------------------------------------------------------------------
(* Removal and authorization *)

\* The settings may change; the catalog and the reveal are left alone.
LEMMA SettingsSteps ==
    ASSUME IInv, Typed', ClosedOnceDisposed', RemovalExcludes',
           UNCHANGED <<catalog, reveal, past>>
    PROVE  IInv' /\ CatalogGoesOn
<1>1. CatalogGoesOn
  BY StillGoesOn
<1>2. RevealFollows'
  BY <1>1, RevealGoesWithIt DEF IInv, Typed
<1> QED
  BY <1>1, <1>2 DEF IInv

LEMMA NoCommandIsTyped == IsCommand(NoCommand) /\ NoCommand.kind = "none"
  BY DEF NoCommand, Commands, IsCommand

LEMMA RemoveSourceKeeps ==
    ASSUME IInv, NEW s \in Sources, RemoveSource(s)
    PROVE  IInv' /\ CatalogGoesOn
<1>1. /\ UNCHANGED <<version, store, catalog, view, status, transient, loads, hint, reveal,
                     past>>
      /\ Act /\ refresh' = Aborted(refresh)
      /\ settings' = [settings EXCEPT !.excluded = @ \cup {s}]
      /\ command' = [kind |-> "remove", source |-> s, pc |-> "configure"]
  BY DEF RemoveSource
<1>2. settings' \in SettingsRecords /\ s \in settings'.excluded
  BY <1>1 DEF IInv, Typed, SettingsRecords
<1>3. IsCommand(command') /\ command'.source = s
  BY <1>1 DEF Commands, IsCommand
<1>4. IsRefresh(refresh')
  BY <1>1, AbortedIsTyped DEF IInv, Typed
<1>5. Typed'
  BY <1>1, <1>2, <1>3, <1>4, ActIsCounted DEF IInv, Typed
<1>6. ClosedOnceDisposed' /\ RemovalExcludes'
  BY <1>1, <1>2, <1>3 DEF IInv, ClosedOnceDisposed, RemovalExcludes
<1> QED
  BY <1>1, <1>5, <1>6, SettingsSteps

LEMMA RemoveConfiguresKeeps ==
    ASSUME IInv, RemoveConfigures
    PROVE  IInv' /\ CatalogGoesOn
<1> DEFINE new == [settings EXCEPT !.configured = @ \ {command.source}]
<1>1. /\ UNCHANGED <<version, store, catalog, status, transient, loads, hint, reveal, acts,
                     past>>
      /\ ConfigurationChanges(new) /\ command' = [command EXCEPT !.pc = "forget"]
  BY DEF RemoveConfigures
<1>2. new \in SettingsRecords /\ new.excluded = settings.excluded
  BY DEF IInv, Typed, SettingsRecords
<1> HIDE DEF new
<1>3. /\ settings' = new /\ view' \in Views /\ view'.disposed = view.disposed
      /\ IsRefresh(refresh')
  BY <1>1, <1>2, ConfigurationKeeps
<1>4. /\ IsCommand(command') /\ command'.kind = command.kind
      /\ command'.source = command.source
  BY <1>1 DEF IInv, Typed, Commands, IsCommand
<1>5. Typed'
  BY <1>1, <1>2, <1>3, <1>4 DEF IInv, Typed
<1>6. ClosedOnceDisposed' /\ RemovalExcludes'
  BY <1>1, <1>2, <1>3, <1>4 DEF IInv, ClosedOnceDisposed, RemovalExcludes
<1> QED
  BY <1>1, <1>5, <1>6, SettingsSteps

LEMMA RemoveForgetsKeeps ==
    ASSUME IInv, RemoveForgets
    PROVE  IInv' /\ CatalogGoesOn
<1>1. /\ UNCHANGED <<version, settings, store, view, refresh, transient, loads, hint, reveal,
                     acts>>
      /\ status' = [status EXCEPT ![command.source] = "none"]
      /\ command' = NoCommand
  BY DEF RemoveForgets
<1>2. /\ IsCatalog(catalog) /\ settings \in SettingsRecords /\ past \in Histories
  BY DEF IInv, Typed
<1>3. Authorized \subseteq Wanted /\ Authorized \subseteq Sources
  BY <1>2, AuthorizedAreWanted
<1>4. /\ IsCatalog(Synced(catalog, Authorized)) /\ Continues(catalog, Synced(catalog, Authorized))
      /\ DOMAIN Synced(catalog, Authorized) = Authorized
  BY <1>2, <1>3, SyncedRows
<1>5. PICK rows \in {catalog, Synced(catalog, Authorized)} : Syncs(rows)
  BY DEF RemoveForgets
<1>6. /\ IsCatalog(rows) /\ Continues(catalog, rows)
      /\ DOMAIN rows \subseteq DOMAIN catalog \cup Wanted
  BY <1>2, <1>3, <1>4, <1>5, ContinuesItself
<1>7. CatalogGoesOn /\ past' \in Histories /\ IsCatalog(catalog')
  BY <1>1, <1>2, <1>5, <1>6, SyncsGoOn DEF IsCatalog, Syncs
<1>8. status' \in [Sources -> {"none", "loading", "error"}]
  BY <1>1 DEF IInv, Typed
<1>9. Typed'
  BY <1>1, <1>7, <1>8, NoCommandIsTyped DEF IInv, Typed
<1>10. ClosedOnceDisposed' /\ RemovalExcludes'
  BY <1>1, NoCommandIsTyped DEF IInv, ClosedOnceDisposed, RemovalExcludes
<1>11. RevealFollows'
  BY <1>1, <1>7, RevealGoesWithIt DEF IInv
<1> QED
  BY <1>7, <1>9, <1>10, <1>11 DEF IInv

LEMMA AuthorizeSourceKeeps ==
    ASSUME IInv, NEW s \in Sources, AuthorizeSource(s)
    PROVE  IInv' /\ CatalogGoesOn
<1>1. /\ UNCHANGED <<version, store, catalog, view, refresh, status, transient, loads, hint,
                     reveal, past>>
      /\ Act
      /\ settings' = [settings EXCEPT !.excluded = @ \ {s}]
      /\ command' = [kind |-> "authorize", source |-> s, pc |-> "configure"]
  BY DEF AuthorizeSource
<1>2. settings' \in SettingsRecords
  BY <1>1 DEF IInv, Typed, SettingsRecords
<1>3. IsCommand(command') /\ command'.kind = "authorize"
  BY <1>1 DEF Commands, IsCommand
<1>4. Typed'
  BY <1>1, <1>2, <1>3, ActIsCounted DEF IInv, Typed
<1>5. ClosedOnceDisposed' /\ RemovalExcludes'
  BY <1>1, <1>3 DEF IInv, ClosedOnceDisposed, RemovalExcludes
<1> QED
  BY <1>1, <1>4, <1>5, SettingsSteps

\* A step of the authorization, whose next one is at pc.
LEMMA AuthorizationSteps ==
    ASSUME IInv, command.kind = "authorize",
           NEW new \in SettingsRecords, NEW pc \in {"enable", "refresh"},
           \/ command' = NoCommand /\ UNCHANGED <<settings, view, refresh>>
           \/ ConfigurationChanges(new) /\ command' = [command EXCEPT !.pc = pc],
           UNCHANGED <<version, store, catalog, status, transient, loads, hint, reveal, acts,
                       past>>
    PROVE  IInv' /\ CatalogGoesOn
<1>1. /\ settings' \in SettingsRecords /\ view' \in Views /\ view'.disposed = view.disposed
      /\ IsRefresh(refresh')
  BY ConfigurationKeeps DEF IInv, Typed
<1>2. IsCommand(command') /\ command'.kind # "remove"
  BY NoCommandIsTyped DEF IInv, Typed, Commands, IsCommand
<1>3. Typed'
  BY <1>1, <1>2 DEF IInv, Typed
<1>4. ClosedOnceDisposed' /\ RemovalExcludes'
  BY <1>1, <1>2 DEF IInv, ClosedOnceDisposed, RemovalExcludes
<1> QED
  BY <1>3, <1>4, SettingsSteps

LEMMA AuthorizeConfiguresKeeps ==
    ASSUME IInv, AuthorizeConfigures
    PROVE  IInv' /\ CatalogGoesOn
<1> DEFINE new == [settings EXCEPT !.configured = @ \cup ({command.source} \ Defaults)]
<1>1. new \in SettingsRecords
  <2>1. command.source \in Sources
    BY DEF AuthorizeConfigures, IInv, Typed, IsCommand
  <2> QED
    BY <2>1 DEF IInv, Typed, SettingsRecords
<1>2. \/ command' = NoCommand /\ UNCHANGED <<settings, view, refresh>>
      \/ ConfigurationChanges(new) /\ command' = [command EXCEPT !.pc = "enable"]
  BY DEF AuthorizeConfigures
<1>3. /\ UNCHANGED <<version, store, catalog, status, transient, loads, hint, reveal, acts,
                     past>>
      /\ command.kind = "authorize"
  BY DEF AuthorizeConfigures
<1> HIDE DEF new
<1> QED
  BY <1>1, <1>2, <1>3, AuthorizationSteps

LEMMA AuthorizeEnablesKeeps ==
    ASSUME IInv, AuthorizeEnables
    PROVE  IInv' /\ CatalogGoesOn
<1> DEFINE new == [settings EXCEPT !.enabled = TRUE]
<1>1. new \in SettingsRecords
  BY DEF IInv, Typed, SettingsRecords
<1>2. \/ command' = NoCommand /\ UNCHANGED <<settings, view, refresh>>
      \/ ConfigurationChanges(new) /\ command' = [command EXCEPT !.pc = "refresh"]
  BY DEF AuthorizeEnables
<1>3. /\ UNCHANGED <<version, store, catalog, status, transient, loads, hint, reveal, acts,
                     past>>
      /\ command.kind = "authorize"
  BY DEF AuthorizeEnables
<1> HIDE DEF new
<1> QED
  BY <1>1, <1>2, <1>3, AuthorizationSteps

LEMMA AuthorizeRefreshesKeeps ==
    ASSUME IInv, AuthorizeRefreshes
    PROVE  IInv' /\ CatalogGoesOn
<1>1. /\ UNCHANGED <<version, settings, store, catalog, view, status, transient, loads, hint,
                     reveal, acts, past>>
      /\ refresh' \in {refresh, Refreshing(refresh)} /\ command' = NoCommand
  BY DEF AuthorizeRefreshes
<1>2. IsRefresh(refresh')
  BY <1>1, RefreshingIsTyped DEF IInv, Typed
<1>3. Typed'
  BY <1>1, <1>2, NoCommandIsTyped DEF IInv, Typed
<1>4. ClosedOnceDisposed' /\ RemovalExcludes'
  BY <1>1, NoCommandIsTyped DEF IInv, ClosedOnceDisposed, RemovalExcludes
<1> QED
  BY <1>1, <1>3, <1>4, SettingsSteps

-----------------------------------------------------------------------------
(* Reveal *)

LEMMA RevealSessionKeeps ==
    ASSUME IInv, NEW s \in Sources, NEW id \in Sessions, RevealSession(s, id)
    PROVE  IInv' /\ CatalogGoesOn
<1>1. /\ UNCHANGED <<version, settings, store, catalog, view, refresh, status, transient, loads,
                     hint, command>>
      /\ past' = [past EXCEPT !.dropped = FALSE]
      /\ Act /\ s \in DOMAIN catalog /\ id \in DOMAIN catalog[s].entities
      /\ reveal' = [pc |-> "probe", source |-> s, generation |-> catalog[s].generation,
                    session |-> id, of |-> catalog[s].entities[id].of]
  BY DEF RevealSession, HasLocation
<1>2. /\ catalog[s].generation \in Nat
      /\ catalog[s].entities[id].of \in Versions
  <2>1. catalog[s] \in Rows
    BY <1>1 DEF IInv, Typed, IsCatalog
  <2>2. catalog[s].generation \in Nat /\ IsListing(catalog[s].entities)
    BY <2>1, RowsHaveParts
  <2> QED
    BY <1>1, <2>2 DEF IsListing, EntityRecords
<1>3. reveal' \in Reveals
  BY <1>1, <1>2 DEF Reveals
<1>8. past' \in Histories
  BY <1>1 DEF IInv, Typed, Histories
<1>9. reveal = NoReveal
  BY DEF RevealSession
<1>4. Typed'
  BY <1>1, <1>3, <1>8, ActIsCounted DEF IInv, Typed
<1>5. ClosedOnceDisposed' /\ RemovalExcludes'
  BY <1>1 DEF IInv, ClosedOnceDisposed, RemovalExcludes
<1>6. RevealFollows'
  BY <1>1 DEF RevealFollows
<1>7. CatalogGoesOn
  BY <1>1, <1>9, ContinuesItself DEF CatalogGoesOn
<1> QED
  BY <1>4, <1>5, <1>6, <1>7 DEF IInv

\* A reveal goes on to pc, and the catalog goes on.
LEMMA RevealSteps ==
    ASSUME IInv, NEW pc \in {"idle", "files", "opened"}, RevealGoesOn(pc), UNCHANGED past,
           pc = "files" => reveal.pc \in {"probe", "files"},
           IsCatalog(catalog'), CatalogGoesOn
    PROVE  IInv'
<1>1. /\ UNCHANGED <<version, settings, store, view, refresh, status, transient, loads, hint,
                     command, acts>>
      /\ reveal' = IF pc = "idle" THEN NoReveal ELSE [reveal EXCEPT !.pc = pc]
  BY DEF RevealGoesOn
<1>2. /\ reveal' \in Reveals
      /\ reveal'.pc \in {"probe", "files"} =>
           /\ reveal.pc \in {"probe", "files"}
           /\ reveal'.source = reveal.source /\ reveal'.generation = reveal.generation
           /\ reveal'.session = reveal.session /\ reveal'.of = reveal.of
  <2>1. CASE pc = "idle"
    BY <1>1, <2>1 DEF Reveals, NoReveal
  <2>2. CASE pc # "idle"
    BY <1>1, <2>2 DEF IInv, Typed, Reveals
  <2> QED
    BY <2>1, <2>2
<1>3. Typed'
  BY <1>1, <1>2 DEF IInv, Typed
<1>4. ClosedOnceDisposed' /\ RemovalExcludes'
  BY <1>1 DEF IInv, ClosedOnceDisposed, RemovalExcludes
<1>5. RevealFollows'
  BY <1>2, RevealGoesWithIt DEF IInv
<1> QED
  BY <1>3, <1>4, <1>5 DEF IInv

LEMMA RevealProbedKeeps ==
    ASSUME IInv, RevealProbed
    PROVE  IInv' /\ CatalogGoesOn
<1>1. /\ catalog' \in {catalog, Marked(catalog, reveal.source, TRUE)}
      /\ reveal.pc = "probe"
      /\ RevealGoesOn("idle") \/ RevealGoesOn("files")
  BY DEF RevealProbed
<1>2. UNCHANGED past
  BY <1>1 DEF RevealGoesOn
<1>3. /\ IsCatalog(catalog') /\ DOMAIN catalog' = DOMAIN catalog
      /\ Continues(catalog, catalog')
  BY <1>1, MarkedRows, ContinuesItself DEF IInv, Typed
<1>4. CatalogGoesOn
  BY <1>2, <1>3, WritesGoOn
<1> QED
  BY <1>1, <1>2, <1>3, <1>4, RevealSteps

LEMMA OtherRevealsKeep ==
    ASSUME IInv, RevealFails \/ RevealOpens \/ RevealTaken
    PROVE  IInv' /\ CatalogGoesOn
<1>1. /\ UNCHANGED <<catalog, past>>
      /\ RevealGoesOn("idle") \/ RevealGoesOn("opened")
  BY DEF RevealFails, RevealOpens, RevealTaken, RevealGoesOn
<1>2. CatalogGoesOn /\ IsCatalog(catalog')
  BY <1>1, StillGoesOn DEF IInv, Typed
<1> QED
  BY <1>1, <1>2, RevealSteps

-----------------------------------------------------------------------------
(* The sources and the window *)

LEMMA SourceChangesKeeps ==
    ASSUME IInv, NEW s \in Sources, SourceChanges(s)
    PROVE  IInv' /\ CatalogGoesOn
<1>1. /\ UNCHANGED <<settings, store, catalog, view, refresh, status, transient, loads, hint,
                     command, reveal, acts, past>>
      /\ version[s] < Len(Files) /\ version' = [version EXCEPT ![s] = version[s] + 1]
  BY DEF SourceChanges
<1>2. version[s] + 1 \in Versions
  <2>1. version[s] \in 1..Len(Files) /\ Versions = 1..Len(Files)
    <3>1. Files \in Seq(Seq(Sessions))
      BY FilesAssumption
    <3>2. Versions = 1..Len(Files)
      BY <3>1 DEF Versions
    <3> QED
      BY <3>2 DEF IInv, Typed
  <2>2. Len(Files) \in Nat
    BY FilesAssumption
  <2> QED
    BY <1>1, <2>1, <2>2
<1> DEFINE n == version[s] + 1
<1>3. version' = [version EXCEPT ![s] = n] /\ n \in Versions
  BY <1>1, <1>2
<1> HIDE DEF n
<1>4. version' \in [Sources -> Versions]
  BY <1>3 DEF IInv, Typed
<1>5. Typed'
  BY <1>1, <1>4 DEF IInv, Typed
<1>6. ClosedOnceDisposed'
  BY <1>1 DEF IInv, ClosedOnceDisposed
<1> QED
  BY <1>1, <1>5, <1>6, StillGoesOn, OtherSteps

LEMMA DisposeKeeps ==
    ASSUME IInv, Dispose
    PROVE  IInv' /\ CatalogGoesOn
<1>1. /\ UNCHANGED <<version, settings, catalog, status, transient, loads, hint, command, reveal,
                     past>>
      /\ Act /\ view' = [view EXCEPT !.disposed = TRUE] /\ refresh' = Aborted(refresh)
      /\ store' \in {"opening", "closed"}
  BY DEF Dispose
<1>2. view' \in Views
  BY <1>1 DEF IInv, Typed, Views
<1>3. IsRefresh(refresh')
  BY <1>1, AbortedIsTyped DEF IInv, Typed
<1>4. Typed'
  BY <1>1, <1>2, <1>3, ActIsCounted DEF IInv, Typed
<1>5. ClosedOnceDisposed'
  BY <1>1 DEF ClosedOnceDisposed
<1> QED
  BY <1>1, <1>4, <1>5, StillGoesOn, OtherSteps

LEMMA RestartKeeps ==
    ASSUME IInv, Restart
    PROVE  IInv' /\ CatalogGoesOn
<1>1. /\ UNCHANGED <<version, settings, catalog, past>> /\ Act
      /\ store' = "none" /\ refresh' = NoRefresh /\ hint' = NoHint /\ command' = NoCommand
      /\ reveal' = NoReveal
      /\ view' = [visible |-> FALSE, initialized |-> FALSE, again |-> FALSE, disposed |-> FALSE]
      /\ status' = [s \in Sources |-> "none"]
      /\ transient' = [s \in Sources |-> 0]
      /\ loads' = [l \in Loads |-> NoLoad]
  BY DEF Restart
<1>2. view' \in Views /\ hint' \in Hints /\ reveal' \in Reveals /\ reveal'.pc = "idle"
  BY <1>1 DEF Views, Hints, NoHint, Reveals, NoReveal
<1>3. /\ status' \in [Sources -> {"none", "loading", "error"}]
      /\ transient' \in [Sources -> 0..MaxTransient]
      /\ DOMAIN loads' = Loads /\ \A l \in Loads : IsLoad(loads'[l])
  BY <1>1, BoundsAssumption, NoLoadIsTyped
<1>4. Typed'
  BY <1>1, <1>2, <1>3, NoCommandIsTyped, NoRefreshIsTyped, ActIsCounted DEF IInv, Typed
<1>5. ClosedOnceDisposed' /\ RemovalExcludes' /\ RevealFollows'
  BY <1>1, <1>2, NoCommandIsTyped DEF ClosedOnceDisposed, RemovalExcludes, RevealFollows
<1> QED
  BY <1>1, <1>4, <1>5, StillGoesOn DEF IInv

-----------------------------------------------------------------------------
(* The theorems *)

LEMMA InitKeeps ==
    ASSUME Init
    PROVE  IInv
<1>1. PICK configured \in SUBSET Configured :
           settings = [enabled |-> TRUE, configured |-> configured, excluded |-> {}]
  BY DEF Init
<1>2. settings \in SettingsRecords
  BY <1>1, SourcesAssumption DEF SettingsRecords
<1>3. /\ version = [s \in Sources |-> 1] /\ store = "none" /\ catalog = << >>
      /\ view = [visible |-> FALSE, initialized |-> FALSE, again |-> FALSE, disposed |-> FALSE]
      /\ refresh = NoRefresh /\ status = [s \in Sources |-> "none"]
      /\ transient = [s \in Sources |-> 0] /\ loads = [l \in Loads |-> NoLoad]
      /\ hint = NoHint /\ command = NoCommand /\ reveal = NoReveal /\ acts = 0
      /\ past = [pages |-> [s \in Sources |-> "whole"], dropped |-> FALSE]
  BY DEF Init
<1>4. version \in [Sources -> Versions] /\ IsCatalog(catalog)
  BY <1>3, VersionFiles DEF IsCatalog
<1>5. view \in Views /\ hint \in Hints /\ reveal \in Reveals /\ reveal.pc = "idle"
  BY <1>3 DEF Views, Hints, NoHint, Reveals, NoReveal
<1>6. /\ status \in [Sources -> {"none", "loading", "error"}]
      /\ transient \in [Sources -> 0..MaxTransient]
      /\ DOMAIN loads = Loads /\ \A l \in Loads : IsLoad(loads[l])
      /\ acts \in 0..MaxActs
  BY <1>3, BoundsAssumption, NoLoadIsTyped
<1>9. past \in Histories
  BY <1>3 DEF Histories
<1>7. Typed
  BY <1>2, <1>3, <1>4, <1>5, <1>6, <1>9, NoCommandIsTyped, NoRefreshIsTyped DEF Typed
<1>8. ClosedOnceDisposed /\ RemovalExcludes /\ RevealFollows
  BY <1>3, <1>5, NoCommandIsTyped DEF ClosedOnceDisposed, RemovalExcludes, RevealFollows
<1> QED
  BY <1>7, <1>8 DEF IInv

LEMMA NextKeeps ==
    ASSUME IInv, [Next]_vars
    PROVE  IInv' /\ CatalogGoesOn
<1>1. CASE UNCHANGED vars
  <2>1. CatalogGoesOn
    BY <1>1, StillGoesOn DEF vars
  <2> QED
    BY <1>1, <2>1
       DEF vars, IInv, Typed, ClosedOnceDisposed, RemovalExcludes, RevealFollows, IsCatalog,
           IsRefresh, IsLoad, IsCommand
<1>2. CASE ToggleVisible
  BY <1>2, ToggleVisibleKeeps
<1>3. CASE ToggleEnabled
  BY <1>3, ToggleEnabledKeeps
<1>4. CASE ListSources
  BY <1>4, ListSourcesKeeps
<1>5. CASE RefreshCommand
  BY <1>5, RefreshCommandKeeps
<1>6. CASE StoreOpens
  BY <1>6, StoreOpensKeeps
<1>7. CASE RefreshStep
  BY <1>7, RefreshBeginsKeeps, PassBeginsKeeps, ProbeAnswersKeeps, ScanTakesFingerprintKeeps,
     ScanAnswersKeeps, ProviderFailsKeeps DEF RefreshStep
<1>8. CASE CommandStep
  BY <1>8, RemoveConfiguresKeeps, RemoveForgetsKeeps, AuthorizeConfiguresKeeps,
     AuthorizeEnablesKeeps, AuthorizeRefreshesKeeps DEF CommandStep
<1>9. CASE HintBegins \/ HintTakesFingerprint \/ HintAnswers
  BY <1>9, HintBeginsKeeps, HintTakesFingerprintKeeps, HintAnswersKeeps
<1>10. ASSUME NEW l \in Loads, LoadStep(l) \/ \E s \in Sources : LoadMore(l, s)
       PROVE  IInv' /\ CatalogGoesOn
  BY <1>10, LoadMoreKeeps, LoadTakesFingerprintKeeps, LoadAnswersKeeps, LoadFailsKeeps
     DEF LoadStep
<1>11. ASSUME NEW s \in Sources, RemoveSource(s) \/ AuthorizeSource(s) \/ SourceChanges(s)
       PROVE  IInv' /\ CatalogGoesOn
  BY <1>11, RemoveSourceKeeps, AuthorizeSourceKeeps, SourceChangesKeeps
<1>12. ASSUME NEW s \in Sources, NEW id \in Sessions, RevealSession(s, id)
       PROVE  IInv' /\ CatalogGoesOn
  BY <1>12, RevealSessionKeeps
<1>13. CASE RevealProbed \/ RevealFails \/ RevealOpens \/ RevealTaken
  BY <1>13, RevealProbedKeeps, OtherRevealsKeep
<1>14. CASE Dispose \/ Restart
  BY <1>14, DisposeKeeps, RestartKeeps
<1> QED
  BY <1>1, <1>2, <1>3, <1>4, <1>5, <1>6, <1>7, <1>8, <1>9, <1>10, <1>11, <1>12, <1>13, <1>14
     DEF Next

\* The invariant holds in every reachable state of the navigator, over any
\* number of windows.
THEOREM Invariance == Spec => []IInv
<1>1. Init => IInv
  BY InitKeeps
<1>2. IInv /\ [Next]_vars => IInv'
  BY NextKeeps
<1> QED
  BY <1>1, <1>2, PTL DEF Spec

\* The settings, the catalog and its rows, the refresh, Load More, the hints,
\* the command and the reveal have their types; an automatic refresh stays
\* within its pages and a source within its provisional scans.
THEOREM TypeCorrect == Spec => []TypeOK
<1>1. IInv => TypeOK
  <2> SUFFICES ASSUME IInv PROVE TypeOK
    OBVIOUS
  <2>1. refresh.pages < MaxInitialPages
    BY BoundsAssumption DEF IInv, Typed, IsRefresh, Refreshes
  <2> QED
    BY <2>1
       DEF TypeOK, IInv, Typed, IsCatalog, IsRefresh, Refreshes, IsLoad, LoadRecords, Views,
           SettingsRecords, Reveals, Histories
<1> QED
  BY <1>1, Invariance, PTL

\* Who touches the command, and who the reveal.
LEMMA WhoEndsARemoval ==
    ASSUME [Next]_vars, IsCommand(command), command.kind = "remove", command'.kind = "none"
    PROVE  RemoveForgets \/ Restart
<1> SUFFICES ASSUME ~RemoveForgets, ~Restart PROVE FALSE
  OBVIOUS
<1>1. command' # command
  OBVIOUS
<1>2. ~(UNCHANGED vars) /\ ~ToggleVisible /\ ~ToggleEnabled /\ ~ListSources /\ ~RefreshCommand
      /\ ~StoreOpens
  BY <1>1 DEF vars, ToggleVisible, ToggleEnabled, ListSources, RefreshCommand, StoreOpens
<1>3. ~RefreshStep
  BY <1>1 DEF RefreshStep, RefreshBegins, PassBegins, ProbeAnswers, ScanTakesFingerprint,
              ScanAnswers, ProviderFails, RefreshOnly
<1>4. ~CommandStep
  <2>1. ~RemoveConfigures
    <3>1. command' = [command EXCEPT !.pc = "forget"] => command'.kind = "remove"
      BY DEF IsCommand, Commands
    <3> QED
      BY <3>1 DEF RemoveConfigures
  <2> QED
    BY <2>1 DEF CommandStep, AuthorizeConfigures, AuthorizeEnables, AuthorizeRefreshes
<1>5. ~HintBegins /\ ~HintTakesFingerprint /\ ~HintAnswers
  BY <1>1 DEF HintBegins, HintTakesFingerprint, HintAnswers
<1>6. \A l \in Loads : ~LoadStep(l) /\ \A s \in Sources : ~LoadMore(l, s)
  BY <1>1 DEF LoadStep, LoadMore, LoadTakesFingerprint, LoadAnswers, LoadFails, LoadOver
<1>7. \A s \in Sources : ~RemoveSource(s) /\ ~AuthorizeSource(s) /\ ~SourceChanges(s)
  BY <1>1 DEF RemoveSource, AuthorizeSource, SourceChanges
<1>8. \A s \in Sources, id \in Sessions : ~RevealSession(s, id)
  BY <1>1 DEF RevealSession
<1>9. ~RevealProbed /\ ~RevealFails /\ ~RevealOpens /\ ~RevealTaken
  BY <1>1 DEF RevealProbed, RevealFails, RevealOpens, RevealTaken, RevealGoesOn
<1>10. ~Dispose
  BY <1>1 DEF Dispose
<1> QED
  BY <1>2, <1>3, <1>4, <1>5, <1>6, <1>7, <1>8, <1>9, <1>10 DEF Next

LEMMA WhoOpens ==
    ASSUME [Next]_vars, reveal.pc = "files", reveal'.pc = "opened"
    PROVE  RevealOpens
<1> SUFFICES ASSUME ~RevealOpens PROVE FALSE
  OBVIOUS
<1>1. reveal' # reveal
  OBVIOUS
<1>2. ~(UNCHANGED vars) /\ ~ToggleVisible /\ ~ToggleEnabled /\ ~ListSources /\ ~RefreshCommand
      /\ ~StoreOpens
  BY <1>1 DEF vars, ToggleVisible, ToggleEnabled, ListSources, RefreshCommand, StoreOpens
<1>3. ~RefreshStep
  BY <1>1 DEF RefreshStep, RefreshBegins, PassBegins, ProbeAnswers, ScanTakesFingerprint,
              ScanAnswers, ProviderFails, RefreshOnly
<1>4. ~CommandStep
  BY <1>1 DEF CommandStep, RemoveConfigures, RemoveForgets, AuthorizeConfigures,
              AuthorizeEnables, AuthorizeRefreshes
<1>5. ~HintBegins /\ ~HintTakesFingerprint /\ ~HintAnswers
  BY <1>1 DEF HintBegins, HintTakesFingerprint, HintAnswers
<1>6. \A l \in Loads : ~LoadStep(l) /\ \A s \in Sources : ~LoadMore(l, s)
  BY <1>1 DEF LoadStep, LoadMore, LoadTakesFingerprint, LoadAnswers, LoadFails, LoadOver
<1>7. \A s \in Sources : ~RemoveSource(s) /\ ~AuthorizeSource(s) /\ ~SourceChanges(s)
  BY <1>1 DEF RemoveSource, AuthorizeSource, SourceChanges
<1>8. \A s \in Sources, id \in Sessions : ~RevealSession(s, id)
  BY DEF RevealSession, NoReveal
<1>9. ~RevealProbed /\ ~RevealFails /\ ~RevealTaken
  BY DEF RevealProbed, RevealFails, RevealTaken, RevealGoesOn, NoReveal
<1>10. ~Dispose /\ ~Restart
  BY <1>1 DEF Dispose, Restart, NoReveal
<1> QED
  BY <1>2, <1>3, <1>4, <1>5, <1>6, <1>7, <1>8, <1>9, <1>10 DEF Next

LEMMA RemovalEmpties ==
    ASSUME IInv, [Next]_vars, NEW s \in Sources, RemovalIsCarriedOut(s)
    PROVE  s \notin DOMAIN catalog'
<1>1. /\ command.kind = "remove" /\ command.source = s /\ command'.kind = "none"
      /\ store = "open"
  BY DEF RemovalIsCarriedOut
<1>3. ~Restart
  BY <1>1 DEF Restart, IInv, ClosedOnceDisposed
<1>4. RemoveForgets
  BY <1>1, <1>3, WhoEndsARemoval DEF IInv, Typed
<1>5. catalog' = Synced(catalog, Authorized)
  BY <1>1, <1>4 DEF RemoveForgets, Syncs
<1>6. s \in settings.excluded
  BY <1>1 DEF IInv, RemovalExcludes
<1>7. s \notin Authorized
  BY <1>6 DEF Authorized
<1> QED
  BY <1>5, <1>7 DEF Synced

\* Whatever scan, page, hint, command or window is under way, a removal that is
\* carried out takes the row of the source away, and no step gives a row to a
\* source that the settings do not name.
THEOREM RemovedHolds == Spec => RemovedStaysRemoved
<1>1. ASSUME IInv, [Next]_vars, NEW s \in Sources,
             RemovalIsCarriedOut(s) \/ (s \notin Wanted' /\ s \notin DOMAIN catalog)
      PROVE  s \notin DOMAIN catalog'
  <2>1. CASE RemovalIsCarriedOut(s)
    BY <1>1, <2>1, RemovalEmpties
  <2>2. CASE s \notin Wanted' /\ s \notin DOMAIN catalog
    BY <1>1, <2>2, NextKeeps DEF CatalogGoesOn
  <2> QED
    BY <1>1, <2>1, <2>2
<1>2. IInv /\ [Next]_vars
        => [\A s \in Sources :
              RemovalIsCarriedOut(s) \/ (s \notin Wanted' /\ s \notin DOMAIN catalog)
                => s \notin DOMAIN catalog']_vars
  BY <1>1
<1> QED
  BY <1>2, Invariance, PTL DEF Spec, RemovedStaysRemoved

\* What a reveal opens after its probe, its look at the files and its question
\* is listed then, of a source authorized then; and it is what the user chose,
\* unless the row was dropped meanwhile, whose generations start over.
THEOREM RevealHolds == Spec => RevealIsCurrent
<1>1. ASSUME IInv, [Next]_vars, reveal.pc = "files", reveal'.pc = "opened"
      PROVE  /\ reveal.source \in Authorized
             /\ HasLocation(reveal.source, reveal.generation, reveal.session)
             /\ \/ past.dropped
                \/ catalog[reveal.source].entities[reveal.session].of = reveal.of
  <2>2. RevealOpens
    BY <1>1, WhoOpens
  <2>3. /\ reveal.source \in Authorized
        /\ HasLocation(reveal.source, reveal.generation, reveal.session)
    BY <1>1, <2>2 DEF RevealOpens, RevealGoesOn, NoReveal
  <2>4. \/ past.dropped
        \/ catalog[reveal.source].entities[reveal.session].of = reveal.of
    <3>1. reveal.source \in DOMAIN catalog /\ catalog[reveal.source].generation = reveal.generation
      BY <2>3 DEF HasLocation
    <3>2. reveal.generation \in Nat
      BY <1>1 DEF IInv, Typed, Reveals
    <3> QED
      BY <1>1, <3>1, <3>2 DEF IInv, RevealFollows
  <2> QED
    BY <2>3, <2>4
<1>2. IInv /\ [Next]_vars
        => [reveal.pc = "files" /\ reveal'.pc = "opened"
             => /\ reveal.source \in Authorized
                /\ HasLocation(reveal.source, reveal.generation, reveal.session)
                /\ \/ past.dropped
                   \/ catalog[reveal.source].entities[reveal.session].of = reveal.of]_vars
  BY <1>1
<1> QED
  BY <1>2, Invariance, PTL DEF Spec, RevealIsCurrent

-----------------------------------------------------------------------------
(* What the tree shows *)

\* A session is listed as a root or under the parent that it names, which is
\* then in the row too, and the edges of the row are those of the sessions.
IsRooted(row) ==
    /\ \A id \in DOMAIN row.entities :
          LET p == row.entities[id].parent
          IN p = NoSession \/ (p = Parents[id] /\ p \in DOMAIN row.entities)
    /\ \A e \in row.relations : e[2] = Parents[e[1]]

ShowsParents(s) == Provider[s] \in {"claude", "codex"}

AreRooted(c) == \A s \in DOMAIN c : ShowsParents(s) => IsRooted(c[s])

\* From a root downwards every session is met: those that are not would each
\* have a parent that is not met either.
LEMMA RootedIsShown ==
    ASSUME NEW row \in Rows, IsRooted(row)
    PROVE  Unfolded(row) = DOMAIN row.entities
<1> DEFINE ids == DOMAIN row.entities
           IsClosed(S) == /\ Roots(row) \subseteq S
                          /\ \A id \in ids : row.entities[id].parent \in S => id \in S
<1>1. ids \subseteq Sessions
  BY RowsHaveParts DEF IsListing
<1>2. Unfolded(row) = {id \in ids : \A S \in SUBSET ids : IsClosed(S) => id \in S}
  BY DEF Unfolded
<1>3. ASSUME NEW S \in SUBSET ids, IsClosed(S)
      PROVE  ids \subseteq S
  <2> SUFFICES ASSUME ids \ S # {} PROVE FALSE
    OBVIOUS
  <2>1. ids \ S \in SUBSET Sessions
    BY <1>1
  <2>2. PICK t \in ids \ S : Parents[t] \notin ids \ S
    BY <2>1, AncestryAssumption
  <2>3. t \notin Roots(row)
    BY <1>3, <2>2
  <2>4. row.entities[t].parent # NoSession
    BY <2>2, <2>3 DEF Roots
  <2>5. row.entities[t].parent = Parents[t] /\ Parents[t] \in ids
    BY <2>2, <2>4 DEF IsRooted
  <2>6. Parents[t] \in S
    BY <2>2, <2>5
  <2> QED
    BY <1>3, <2>2, <2>5, <2>6
<1> HIDE DEF IsClosed
<1> QED
  BY <1>2, <1>3

\* Claude and Codex list a session under its parent only beside it.
LEMMA PagesAreRooted ==
    ASSUME NEW s \in Sources, ShowsParents(s), NEW v \in Versions, NEW offset \in Nat,
           NEW read
    PROVE  IsRooted(PageOf(Provider[s], v, offset, read))
<1>1. ASSUME NEW ids, NEW kept, NEW page,
             page.entities = [id \in ids |->
                                [parent |-> IF Parents[id] \in ids THEN Parents[id]
                                            ELSE NoSession, of |-> v]],
             page.relations = {<<id, Parents[id]>> : id \in {i \in ids : Parents[i] \in kept}}
      PROVE  IsRooted(page)
  BY <1>1 DEF IsRooted
<1>2. CASE Provider[s] = "claude"
  <2> DEFINE ids == read
             page == ClaudePage(v, offset, read)
  <2>1. page.entities = [id \in ids |->
                           [parent |-> IF Parents[id] \in ids THEN Parents[id] ELSE NoSession,
                            of |-> v]]
    BY DEF ClaudePage, Listed
  <2>2. page.relations = {<<id, Parents[id]>> :
                            id \in {i \in ids : Parents[i] \in Range(Files[v])}}
    BY DEF ClaudePage, Edges
  <2>3. PageOf(Provider[s], v, offset, read) = page
    BY <1>2 DEF PageOf
  <2> HIDE DEF ids, page
  <2>4. IsRooted(page)
    BY <1>1, <2>1, <2>2
  <2> QED
    BY <2>3, <2>4
<1>3. CASE Provider[s] = "codex"
  <2> DEFINE ids == Range(Window(v, offset))
             page == CodexPage(v, offset)
  <2>1. page.entities = [id \in ids |->
                           [parent |-> IF Parents[id] \in ids THEN Parents[id] ELSE NoSession,
                            of |-> v]]
    BY DEF CodexPage, Listed
  <2>2. page.relations = {<<id, Parents[id]>> : id \in {i \in ids : Parents[i] \in ids}}
    BY DEF CodexPage, Edges
  <2>3. PageOf(Provider[s], v, offset, read) = page
    BY <1>3 DEF PageOf
  <2> HIDE DEF ids, page
  <2>4. IsRooted(page)
    BY <1>1, <2>1, <2>2
  <2> QED
    BY <2>3, <2>4
<1> QED
  BY <1>2, <1>3 DEF ShowsParents

LEMMA ReplacedIsRooted ==
    ASSUME NEW row, NEW page, IsRooted(page), NEW fp, NEW cursor
    PROVE  IsRooted(Replaced(row, page, fp, cursor))
<1>1. /\ Replaced(row, page, fp, cursor).entities = page.entities
      /\ Replaced(row, page, fp, cursor).relations = page.relations
  BY DEF Replaced
<1> QED
  BY <1>1 DEF IsRooted

LEMMA OverlaidIsRooted ==
    ASSUME NEW e, NEW f, NEW id \in DOMAIN e \cup DOMAIN f,
           \A i \in DOMAIN e : e[i].parent = NoSession
                                 \/ (e[i].parent = Parents[i] /\ e[i].parent \in DOMAIN e),
           \A i \in DOMAIN f : f[i].parent = NoSession
                                 \/ (f[i].parent = Parents[i] /\ f[i].parent \in DOMAIN f)
    PROVE  LET p == Overlaid(e, f)[id].parent
           IN p = NoSession \/ (p = Parents[id] /\ p \in DOMAIN e \cup DOMAIN f)
<1>1. Overlaid(e, f)[id] = IF id \in DOMAIN f THEN f[id] ELSE e[id]
  BY DEF Overlaid
<1> QED
  BY <1>1

\* An edge puts a session under its own parent.
LEMMA ReconciledIsRooted ==
    ASSUME NEW e, IsListing(e), NEW relations, \A r \in relations : r[2] = Parents[r[1]],
           NEW id \in DOMAIN e,
           e[id].parent = NoSession \/ (e[id].parent = Parents[id] /\ e[id].parent \in DOMAIN e)
    PROVE  LET p == Reconciled(e, relations)[id].parent
           IN p = NoSession \/ (p = Parents[id] /\ p \in DOMAIN e)
<1> DEFINE known == {r \in relations : r[1] = id /\ r[2] \in DOMAIN e}
           to == (CHOOSE r \in known : TRUE)[2]
<1>1. Reconciled(e, relations)[id] =
        IF known = {} THEN e[id] ELSE [e[id] EXCEPT !.parent = to]
  BY DEF Reconciled
<1>2. CASE known = {}
  BY <1>1, <1>2
<1>3. CASE known # {}
  <2>1. (CHOOSE r \in known : TRUE) \in known
    BY <1>3
  <2>2. to = Parents[id] /\ to \in DOMAIN e
    BY <2>1
  <2> HIDE DEF to, known
  <2>3. e[id] \in EntityRecords
    BY DEF IsListing
  <2>4. Reconciled(e, relations)[id].parent = to
    BY <1>1, <1>3, <2>3 DEF EntityRecords
  <2> QED
    BY <2>2, <2>4
<1> QED
  BY <1>2, <1>3

LEMMA AppendedIsRooted ==
    ASSUME NEW row \in Rows, IsRooted(row), NEW page, IsPage(page), IsRooted(page), NEW fp,
           NEW cursor
    PROVE  IsRooted(Appended(row, page, fp, cursor))
<1>1. CASE row.generation < 1
  BY <1>1, ReplacedIsRooted DEF Appended
<1>2. CASE ~(row.generation < 1)
  <2> DEFINE relations == row.relations \cup page.relations
             merged == Overlaid(row.entities, page.entities)
             new == Appended(row, page, fp, cursor)
  <2>1. new.entities = Reconciled(merged, relations) /\ new.relations = relations
    BY <1>2 DEF Appended
  <2>2. \A r \in relations : r[2] = Parents[r[1]]
    BY DEF IsRooted
  <2>3. IsListing(row.entities) /\ IsListing(page.entities)
    BY RowsHaveParts DEF IsPage
  <2>4. IsListing(merged) /\ DOMAIN merged = DOMAIN row.entities \cup DOMAIN page.entities
    BY <2>3, OverlaidIsListing
  <2>5. ASSUME NEW id \in DOMAIN merged
        PROVE  merged[id].parent = NoSession
                 \/ (merged[id].parent = Parents[id] /\ merged[id].parent \in DOMAIN merged)
    BY <2>4, OverlaidIsRooted DEF IsRooted
  <2> HIDE DEF merged, relations, new
  <2>6. DOMAIN new.entities = DOMAIN merged
    BY <2>1 DEF Reconciled
  <2>7. ASSUME NEW id \in DOMAIN new.entities
        PROVE  LET p == new.entities[id].parent
               IN p = NoSession \/ (p = Parents[id] /\ p \in DOMAIN new.entities)
    BY <2>1, <2>2, <2>4, <2>5, <2>6, ReconciledIsRooted
  <2>8. IsRooted(new)
    BY <2>1, <2>2, <2>7 DEF IsRooted
  <2> QED
    BY <2>8 DEF new
<1> QED
  BY <1>1, <1>2

LEMMA EmptyRowIsRooted == IsRooted(EmptyRow)
<1>1. DOMAIN EmptyRow.entities = {} /\ EmptyRow.relations = {}
  BY DEF EmptyRow
<1> QED
  BY <1>1 DEF IsRooted

LEMMA SyncedAreRooted ==
    ASSUME NEW c, AreRooted(c), NEW active
    PROVE  AreRooted(Synced(c, active))
<1>1. DOMAIN Synced(c, active) = active
  BY DEF Synced
<1>2. \A s \in active : Synced(c, active)[s] = IF s \in DOMAIN c THEN c[s] ELSE EmptyRow
  BY DEF Synced
<1> QED
  BY <1>1, <1>2, EmptyRowIsRooted DEF AreRooted

LEMMA MarkedAreRooted ==
    ASSUME NEW c, IsCatalog(c), AreRooted(c), NEW s, NEW available
    PROVE  AreRooted(Marked(c, s, available))
<1>1. CASE s \notin DOMAIN c
  BY <1>1 DEF Marked
<1>2. CASE s \in DOMAIN c
  <2> DEFINE row == [c[s] EXCEPT !.updateAvailable = available]
  <2>1. c[s] = [generation |-> c[s].generation, fingerprint |-> c[s].fingerprint,
                updateAvailable |-> c[s].updateAvailable, cursor |-> c[s].cursor,
                partial |-> c[s].partial, entities |-> c[s].entities,
                relations |-> c[s].relations]
    BY <1>2, RowsHaveParts DEF IsCatalog
  <2>2. row.entities = c[s].entities /\ row.relations = c[s].relations
    BY <2>1
  <2>3. Marked(c, s, available) = [c EXCEPT ![s] = row]
    BY <1>2 DEF Marked
  <2> HIDE DEF row
  <2>4. IsRooted(c[s]) => IsRooted(row)
    BY <2>2 DEF IsRooted
  <2>5. AreRooted([c EXCEPT ![s] = row])
    BY <1>2, <2>4 DEF AreRooted
  <2> QED
    BY <2>3, <2>5
<1> QED
  BY <1>1, <1>2

\* A page that is written over a row or added to it.
LEMMA WrittenAreRooted ==
    ASSUME NEW c, IsCatalog(c), AreRooted(c), NEW s \in DOMAIN c, NEW v \in Versions,
           NEW offset \in Nat, NEW read \in Reads(s, v, offset), NEW page,
           page = PageOf(Provider[s], v, offset, read), NEW fp, NEW cursor,
           NEW row \in {Replaced(c[s], page, fp, cursor), Appended(c[s], page, fp, cursor)}
    PROVE  AreRooted([c EXCEPT ![s] = row])
<1>1. s \in Sources /\ c[s] \in Rows
  BY DEF IsCatalog
<1>2. ShowsParents(s) => IsPage(page) /\ IsRooted(page) /\ IsRooted(c[s])
  BY <1>1, PagesAreTyped, PagesAreRooted DEF AreRooted
<1>3. ShowsParents(s) => IsRooted(row)
  BY <1>1, <1>2, ReplacedIsRooted, AppendedIsRooted
<1> QED
  BY <1>3 DEF AreRooted

\* Only these write the catalog.
LEMMA ScanAnswersRooted ==
    ASSUME IInv, AreRooted(catalog), ScanAnswers
    PROVE  AreRooted(catalog')
<1>1. /\ IsCatalog(catalog) /\ IsRefresh(refresh) /\ version \in [Sources -> Versions]
  BY DEF IInv, Typed
<1>2. Current \in Sources
  BY <1>1, CurrentIsASource DEF ScanAnswers
<1>3. CASE Stopped
  BY <1>3 DEF ScanAnswers
<1>4. CASE ~Stopped
  <2> DEFINE page(read) ==
               PageOf(Provider[Current], version[Current], Offset(refresh.cursor), read)
  <2>1. PICK read \in Reads(Current, version[Current], Offset(refresh.cursor)) :
               IF refresh.cursor = NoCursor THEN FirstPageAnswers(page(read))
                                            ELSE NextPageAnswers(page(read))
    BY <1>4 DEF ScanAnswers
  <2>2. Offset(refresh.cursor) \in Nat /\ version[Current] \in Versions
    BY <1>1, <1>2, OffsetsAreNumbers DEF IsRefresh, Refreshes
  <2> DEFINE p == page(read)
  <2>3. p = PageOf(Provider[Current], version[Current], Offset(refresh.cursor), read)
    OBVIOUS
  <2> HIDE DEF page, p
  <2>4. ASSUME FirstPageAnswers(p)
        PROVE  \/ catalog' = catalog
               \/ /\ Current \in DOMAIN catalog
                  /\ \E cursor : catalog' = [catalog EXCEPT ![Current] =
                                   Replaced(catalog[Current], p, refresh.at, cursor)]
    BY <2>4 DEF FirstPageAnswers, Commit
  <2>5. ASSUME NextPageAnswers(p)
        PROVE  \/ catalog' = catalog
               \/ /\ Current \in DOMAIN catalog
                  /\ \E cursor : catalog' = [catalog EXCEPT ![Current] =
                                   Appended(catalog[Current], p, refresh.at, cursor)]
    BY <2>5 DEF NextPageAnswers, Commit
  <2>6. \/ catalog' = catalog
        \/ /\ Current \in DOMAIN catalog
           /\ \E cursor : \E row \in {Replaced(catalog[Current], p, refresh.at, cursor),
                                      Appended(catalog[Current], p, refresh.at, cursor)} :
                 catalog' = [catalog EXCEPT ![Current] = row]
    BY <2>1, <2>4, <2>5 DEF p
  <2>7. CASE catalog' # catalog
    <3>1. Current \in DOMAIN catalog
      BY <2>6, <2>7
    <3>2. PICK cursor : \E row \in {Replaced(catalog[Current], p, refresh.at, cursor),
                                    Appended(catalog[Current], p, refresh.at, cursor)} :
                          catalog' = [catalog EXCEPT ![Current] = row]
      BY <2>6, <2>7
    <3>3. PICK row \in {Replaced(catalog[Current], p, refresh.at, cursor),
                        Appended(catalog[Current], p, refresh.at, cursor)} :
                 catalog' = [catalog EXCEPT ![Current] = row]
      BY <3>2
    <3> DEFINE at == Offset(refresh.cursor)
               v == version[Current]
    <3>4. at \in Nat /\ v \in Versions /\ read \in Reads(Current, v, at) /\ p = PageOf(Provider[Current], v, at, read)
      BY <2>1, <2>2, <2>3
    <3> HIDE DEF at, v
    <3>5. AreRooted([catalog EXCEPT ![Current] = row])
      BY <1>1, <2>2, <3>1, <3>3, <3>4, WrittenAreRooted
    <3> QED
      BY <3>3, <3>5
  <2> QED
    BY <2>7
<1> QED
  BY <1>3, <1>4

LEMMA LoadAnswersRooted ==
    ASSUME IInv, AreRooted(catalog), NEW l \in Loads, LoadAnswers(l)
    PROVE  AreRooted(catalog')
<1> DEFINE s == loads[l].source
           offset == loads[l].cursor.offset
           page(read) == PageOf(Provider[s], version[s], offset, read)
           row(read) == Appended(catalog[s], page(read), loads[l].at,
                                 CursorAfter(page(read), loads[l].at, offset))
<1>1. loads[l].pc = "read"
  BY DEF LoadAnswers
<1>2. offset \in Nat /\ IsCatalog(catalog)
  BY <1>1 DEF IInv, Typed, IsLoad, Cursors
<1>3. ASSUME NEW read \in Reads(s, version[s], offset), s \in DOMAIN catalog,
             catalog' = [catalog EXCEPT ![s] = row(read)]
      PROVE  AreRooted(catalog')
  <2>1. s \in Sources /\ version[s] \in Versions
    BY <1>2, <1>3 DEF IInv, Typed, IsCatalog
  <2> HIDE DEF s, offset
  <2> QED
    BY <1>2, <1>3, <2>1, WrittenAreRooted
<1> QED
  BY <1>3 DEF LoadAnswers

LEMMA NextIsRooted ==
    ASSUME IInv, AreRooted(catalog), [Next]_vars
    PROVE  AreRooted(catalog')
<1> SUFFICES ASSUME catalog' # catalog PROVE AreRooted(catalog')
  OBVIOUS
<1>1. IsCatalog(catalog)
  BY DEF IInv, Typed
<1>2. CASE UNCHANGED vars \/ ToggleVisible \/ ToggleEnabled \/ RefreshCommand
  BY <1>2 DEF vars, ToggleVisible, ToggleEnabled, RefreshCommand
<1>3. CASE ListSources \/ StoreOpens
  BY <1>3, SyncedAreRooted DEF ListSources, StoreOpens, Syncs
<1>4. CASE RefreshStep
  <2>1. CASE RefreshBegins \/ ScanTakesFingerprint \/ ProviderFails
    BY <2>1 DEF RefreshBegins, ScanTakesFingerprint, ProviderFails
  <2>2. CASE PassBegins
    BY <2>2, SyncedAreRooted DEF PassBegins, Syncs
  <2>3. CASE ProbeAnswers
    BY <1>1, <2>3, MarkedAreRooted DEF ProbeAnswers
  <2>4. CASE ScanAnswers
    BY <2>4, ScanAnswersRooted
  <2> QED
    BY <1>4, <2>1, <2>2, <2>3, <2>4 DEF RefreshStep
<1>5. CASE CommandStep
  <2>1. CASE RemoveForgets
    BY <2>1, SyncedAreRooted DEF RemoveForgets, Syncs
  <2>2. CASE ~RemoveForgets
    BY <1>5, <2>2 DEF CommandStep, RemoveConfigures, AuthorizeConfigures, AuthorizeEnables,
                      AuthorizeRefreshes
  <2> QED
    BY <2>1, <2>2
<1>6. CASE HintBegins \/ HintTakesFingerprint \/ HintAnswers
  BY <1>1, <1>6, MarkedAreRooted DEF HintBegins, HintTakesFingerprint, HintAnswers
<1>7. ASSUME NEW l \in Loads, LoadStep(l) \/ \E s \in Sources : LoadMore(l, s)
      PROVE  AreRooted(catalog')
  <2>1. CASE LoadAnswers(l)
    BY <2>1, LoadAnswersRooted
  <2>2. CASE ~LoadAnswers(l)
    BY <1>7, <2>2 DEF LoadStep, LoadMore, LoadTakesFingerprint, LoadFails
  <2> QED
    BY <2>1, <2>2
<1>8. ASSUME NEW s \in Sources, RemoveSource(s) \/ AuthorizeSource(s) \/ SourceChanges(s)
      PROVE  AreRooted(catalog')
  BY <1>8 DEF RemoveSource, AuthorizeSource, SourceChanges
<1>9. ASSUME NEW s \in Sources, NEW id \in Sessions, RevealSession(s, id)
      PROVE  AreRooted(catalog')
  BY <1>9 DEF RevealSession
<1>10. CASE RevealProbed \/ RevealFails \/ RevealOpens \/ RevealTaken
  BY <1>1, <1>10, MarkedAreRooted DEF RevealProbed, RevealFails, RevealOpens, RevealTaken
<1>11. CASE Dispose \/ Restart
  BY <1>11 DEF Dispose, Restart
<1> QED
  BY <1>2, <1>3, <1>4, <1>5, <1>6, <1>7, <1>8, <1>9, <1>10, <1>11 DEF Next

\* In whatever order pages bring children and parents, and whatever syncs and
\* marks come between: every session that a Claude or Codex row counts is
\* reached from a root of its tree.
THEOREM ShownHolds == Spec => []EverySessionIsShown
<1>1. Init => AreRooted(catalog)
  BY DEF Init, AreRooted
<1>2. IInv /\ AreRooted(catalog) /\ [Next]_vars => AreRooted(catalog')
  BY NextIsRooted
<1>3. IInv /\ AreRooted(catalog) => EverySessionIsShown
  <2> SUFFICES ASSUME IInv, AreRooted(catalog), NEW s \in DOMAIN catalog,
                      Provider[s] \in {"claude", "codex"}
               PROVE  Unfolded(catalog[s]) = DOMAIN catalog[s].entities
    BY DEF EverySessionIsShown
  <2>1. catalog[s] \in Rows /\ IsRooted(catalog[s])
    BY DEF IInv, Typed, IsCatalog, AreRooted, ShowsParents
  <2> QED
    BY <2>1, RootedIsShown
<1> DEFINE R == AreRooted(catalog)
<1>4. R' <=> AreRooted(catalog')
  BY DEF AreRooted, IsRooted, ShowsParents
<1> HIDE DEF R
<1>5. (Init => R) /\ (IInv /\ R /\ [Next]_vars => R') /\ (IInv /\ R => EverySessionIsShown)
  BY <1>1, <1>2, <1>3, <1>4 DEF R
<1> QED
  BY <1>5, Invariance, PTL DEF Spec
-----------------------------------------------------------------------------
(* Counts, for any sources, files, pages and bounds, any number of Load    *)
(* More commands, and whatever the scans could read.                       *)

\* The sessions of the first n files of a version.
ReadBy(v, n) == {Files[v][i] : i \in {j \in 1..Len(Files[v]) : j =< n}}

\* A page that was read to its end brings what is between its offset and the
\* next page, and one that was not says that it is partial.
Brings(page, v, offset) ==
    /\ DOMAIN page.entities \subseteq Range(Files[v])
    /\ page.unread = {} =>
         ReadBy(v, offset + PageSize) \subseteq ReadBy(v, offset) \cup DOMAIN page.entities
    /\ page.unread = {} /\ ~page.next =>
         Range(Files[v]) \subseteq ReadBy(v, offset) \cup DOMAIN page.entities
    /\ ~page.partial => page.unread = {} /\ ~page.next

\* The row is right about version v: whatever pages it is made of, it has no
\* session that v lacks, and all of them if it is not called partial; if all the
\* pages were whole, it has what its cursor has left behind.
IsCounted(row, v, made) ==
    /\ DOMAIN row.entities \subseteq Range(Files[v])
    /\ made = "whole" => IF row.cursor = NoCursor
                         THEN Range(Files[v]) \subseteq DOMAIN row.entities
                         ELSE ReadBy(v, row.cursor.offset) \subseteq DOMAIN row.entities
    /\ ~row.partial => Range(Files[v]) \subseteq DOMAIN row.entities

LEMMA FilesAreListed ==
    ASSUME NEW v \in Versions
    PROVE  Range(Files[v]) = {Files[v][i] : i \in 1..Len(Files[v])}
<1>1. DOMAIN Files[v] = 1..Len(Files[v])
  BY VersionFiles
<1> QED
  BY <1>1 DEF Range

LEMMA ReadByGrows ==
    ASSUME NEW v \in Versions, NEW offset \in Nat
    PROVE  /\ ReadBy(v, 0) = {}
           /\ ReadBy(v, offset) \subseteq Range(Files[v])
           /\ \A n \in Nat : n =< offset => ReadBy(v, n) \subseteq ReadBy(v, offset)
           /\ ReadBy(v, offset + PageSize) = ReadBy(v, offset) \cup Range(Window(v, offset))
           /\ Len(Files[v]) =< offset => ReadBy(v, offset) = Range(Files[v])
<1>1. Len(Files[v]) \in Nat /\ PageSize \in Nat
  BY VersionFiles, PageSizeAssumption
<1>2. \A j \in 1..Len(Files[v]) :
        j =< offset + PageSize <=> j =< offset \/ (offset < j /\ j =< offset + PageSize)
  BY <1>1
<1>3. ReadBy(v, 0) = {}
  <2>1. \A j \in 1..Len(Files[v]) : ~(j =< 0)
    BY <1>1
  <2> QED
    BY <2>1 DEF ReadBy
<1>4. /\ ReadBy(v, offset) \subseteq Range(Files[v])
      /\ Len(Files[v]) =< offset => ReadBy(v, offset) = Range(Files[v])
  <2>1. Len(Files[v]) =< offset => \A j \in 1..Len(Files[v]) : j =< offset
    BY <1>1
  <2> QED
    BY <2>1, FilesAreListed DEF ReadBy
<1>5. ReadBy(v, offset + PageSize) = ReadBy(v, offset) \cup Range(Window(v, offset))
  BY <1>2, WindowLists DEF ReadBy
<1>6. ASSUME NEW n \in Nat, n =< offset
      PROVE  ReadBy(v, n) \subseteq ReadBy(v, offset)
  <2>1. \A j \in 1..Len(Files[v]) : j =< n => j =< offset
    BY <1>1, <1>6
  <2> QED
    BY <2>1 DEF ReadBy
<1> QED
  BY <1>3, <1>4, <1>5, <1>6

\* A page of part of the files between two offsets.
LEMMA WindowsBring ==
    ASSUME NEW v \in Versions, NEW offset \in Nat, NEW page,
           DOMAIN page.entities \subseteq Range(Window(v, offset)),
           page.unread = {} => Range(Window(v, offset)) \subseteq DOMAIN page.entities,
           page.next = MoreAfter(v, offset),
           ~page.partial => page.unread = {} /\ ~page.next
    PROVE  Brings(page, v, offset)
<1>1. PageSize \in Nat /\ offset + PageSize \in Nat /\ Len(Files[v]) \in Nat
  BY PageSizeAssumption, VersionFiles
<1>2. ReadBy(v, offset + PageSize) = ReadBy(v, offset) \cup Range(Window(v, offset))
  BY ReadByGrows
<1>3. Range(Window(v, offset)) \subseteq Range(Files[v])
  BY WindowIsOfTheFiles
<1>4. ~page.next => Len(Files[v]) =< offset + PageSize
  <2>1. ~MoreAfter(v, offset) => Len(Files[v]) =< offset + PageSize
    BY <1>1 DEF MoreAfter
  <2> QED
    BY <2>1
<1>5. ~page.next => ReadBy(v, offset + PageSize) = Range(Files[v])
  BY <1>1, <1>4, ReadByGrows
<1> QED
  BY <1>2, <1>3, <1>5 DEF Brings

LEMMA PagesBring ==
    ASSUME NEW s \in Sources, NEW v \in Versions, NEW offset \in Nat,
           NEW read \in Reads(s, v, offset)
    PROVE  Brings(PageOf(Provider[s], v, offset, read), v, offset)
<1> DEFINE page == PageOf(Provider[s], v, offset, read)
           w == Range(Window(v, offset))
<1>1. Provider[s] \in {"codex", "claude", "pi", "generic"}
  BY SourcesAssumption
<1>2. read \subseteq w
  BY ReadsAreOfTheWindow
<1>3. CASE Provider[s] = "claude"
  <2> DEFINE Here(p) == p \in read
             Anywhere(p) == p \in Range(Files[v])
             cut == Edges(read, Anywhere) # Edges(read, Here)
  <2>1. page = ClaudePage(v, offset, read)
    BY <1>3 DEF PageOf
  <2>2. /\ DOMAIN page.entities = read /\ page.next = MoreAfter(v, offset)
        /\ page.unread = w \ read
    BY <2>1 DEF ClaudePage, Listed, Unread
  <2>3. page.partial = (\/ Unread(v, offset, read) # {} \/ MoreAfter(v, offset) \/ cut)
    BY <2>1 DEF ClaudePage
  <2> HIDE DEF page, w, cut
  <2>4. page.partial = (page.unread # {} \/ page.next \/ cut)
    BY <2>2, <2>3 DEF Unread, w
  <2> QED
    BY <1>2, <2>2, <2>4, WindowsBring DEF w, page
<1>4. CASE Provider[s] = "codex"
  <2>1. page = CodexPage(v, offset)
    BY <1>4 DEF PageOf
  <2>2. /\ DOMAIN page.entities = w /\ page.next = MoreAfter(v, offset)
        /\ page.unread = {} /\ page.partial = page.next
    BY <2>1 DEF CodexPage, Listed
  <2> HIDE DEF page, w
  <2> QED
    BY <2>2, WindowsBring DEF w, page
<1>5. CASE Provider[s] = "pi"
  <2>1. page = PiPage(v, offset, read)
    BY <1>5 DEF PageOf
  <2>2. /\ DOMAIN page.entities = read /\ page.next = MoreAfter(v, offset)
        /\ page.unread = w \ read /\ page.partial = (page.unread # {} \/ page.next)
    BY <2>1 DEF PiPage, Listed, Unread
  <2> HIDE DEF page, w
  <2> QED
    BY <1>2, <2>2, WindowsBring DEF w, page
<1>6. CASE Provider[s] = "generic"
  <2>1. page = GenericPage(v)
    BY <1>6 DEF PageOf
  <2>2. offset + PageSize \in Nat
    BY PageSizeAssumption
  <2>3. ReadBy(v, offset + PageSize) \subseteq Range(Files[v])
    BY <2>2, ReadByGrows
  <2>4. DOMAIN page.entities = Range(Files[v]) /\ page.unread = {} /\ ~page.next
    BY <2>1 DEF GenericPage, Listed
  <2> HIDE DEF page
  <2> QED
    BY <2>3, <2>4 DEF Brings, page
<1> QED
  BY <1>1, <1>3, <1>4, <1>5, <1>6

-----------------------------------------------------------------------------
(* What a row is after a page *)

LEMMA CursorsOfPages ==
    ASSUME NEW page, NEW fp \in Versions, NEW offset \in Nat
    PROVE  IF page.next
           THEN /\ CursorAfter(page, fp, offset) # NoCursor
                /\ CursorAfter(page, fp, offset).of = fp
                /\ CursorAfter(page, fp, offset).offset = offset + PageSize
           ELSE CursorAfter(page, fp, offset) = NoCursor
<1>1. offset + PageSize \in Nat
  BY PageSizeAssumption
<1>2. [of |-> fp, offset |-> offset + PageSize] \in Cursors
  BY <1>1 DEF Cursors
<1> QED
  BY <1>2, NoCursorAssumption DEF CursorAfter

\* The first page.
LEMMA ReplacedIsCounted ==
    ASSUME NEW row, NEW page, NEW v \in Versions, Brings(page, v, 0), NEW fp \in Versions
    PROVE  IsCounted(Replaced(row, page, fp, CursorAfter(page, fp, 0)), v,
                     IF page.unread = {} THEN "whole" ELSE "short")
<1> DEFINE cursor == CursorAfter(page, fp, 0)
           new == Replaced(row, page, fp, cursor)
<1>1. /\ new.cursor = cursor /\ new.partial = page.partial /\ new.entities = page.entities
  BY DEF Replaced
<1>2. IF page.next THEN cursor # NoCursor /\ cursor.offset = 0 + PageSize
                   ELSE cursor = NoCursor
  BY CursorsOfPages
<1>3. ReadBy(v, 0) = {}
  BY ReadByGrows
<1> HIDE DEF new, cursor
<1> QED
  BY <1>1, <1>2, <1>3 DEF Brings, IsCounted, new, cursor

\* The next page of a row that was made of whole ones, in its place.
LEMMA AppendedIsCounted ==
    ASSUME NEW row \in Rows, NEW page, IsPage(page), NEW v \in Versions, NEW offset \in Nat,
           Brings(page, v, offset), NEW fp \in Versions, row.generation > 0,
           IsCounted(row, v, "whole"),
           row.cursor = NoCursor \/ offset =< row.cursor.offset
    PROVE  IsCounted(Appended(row, page, fp, CursorAfter(page, fp, offset)), v,
                     IF page.unread = {} THEN "whole" ELSE "short")
<1> DEFINE cursor == CursorAfter(page, fp, offset)
           new == Appended(row, page, fp, cursor)
           relations == row.relations \cup page.relations
           merged == Overlaid(row.entities, page.entities)
<1>1. /\ relations \in SUBSET (Sessions \X Sessions)
      /\ IsListing(page.entities) /\ IsListing(row.entities) /\ row.generation \in Nat
      /\ row.cursor \in CursorsOrNone
  BY RowsHaveParts DEF IsPage
<1>2. IsListing(merged) /\ DOMAIN merged = DOMAIN row.entities \cup DOMAIN page.entities
  BY <1>1, OverlaidIsListing
<1> HIDE DEF relations, merged
<1>3. DOMAIN Reconciled(merged, relations) = DOMAIN merged
  BY <1>1, <1>2, ReconciledIsListing
<1>4. ~(row.generation < 1)
  BY <1>1
<1>5. new = [generation |-> row.generation + 1, fingerprint |-> fp, updateAvailable |-> FALSE,
             cursor |-> cursor, partial |-> page.partial,
             entities |-> Reconciled(merged, relations), relations |-> relations]
  BY <1>4 DEF Appended, merged, relations
<1> HIDE DEF new
<1>6. /\ new.cursor = cursor /\ new.partial = page.partial
      /\ DOMAIN new.entities = DOMAIN row.entities \cup DOMAIN page.entities
  BY <1>2, <1>3, <1>5
<1>7. IF page.next THEN cursor # NoCursor /\ cursor.offset = offset + PageSize
                   ELSE cursor = NoCursor
  BY CursorsOfPages
<1> HIDE DEF cursor
<1>8. ReadBy(v, offset) \subseteq DOMAIN row.entities
  <2>1. CASE row.cursor = NoCursor
    BY <2>1, ReadByGrows DEF IsCounted
  <2>2. CASE row.cursor # NoCursor
    <3>1. row.cursor.offset \in Nat /\ offset =< row.cursor.offset
      BY <1>1, <2>2 DEF CursorsOrNone, Cursors
    <3>2. ReadBy(v, offset) \subseteq ReadBy(v, row.cursor.offset)
      BY <3>1, ReadByGrows
    <3> QED
      BY <2>2, <3>2 DEF IsCounted
  <2> QED
    BY <2>1, <2>2
<1>9. DOMAIN new.entities \subseteq Range(Files[v])
  BY <1>6 DEF Brings, IsCounted
<1>10. /\ page.unread = {} => ReadBy(v, offset + PageSize) \subseteq DOMAIN new.entities
       /\ page.unread = {} /\ ~page.next => Range(Files[v]) \subseteq DOMAIN new.entities
  BY <1>6, <1>8 DEF Brings
<1>11. ~page.partial => page.unread = {} /\ ~page.next
  BY DEF Brings
<1> QED
  BY <1>6, <1>7, <1>9, <1>10, <1>11 DEF IsCounted, new, cursor

-----------------------------------------------------------------------------
(* The invariant *)

\* Fingerprints are of versions that were; and a row that its history vouches
\* for is right about the version there is.
Fits(row, v, made) ==
    /\ row.fingerprint =< v
    /\ row.fingerprint # 0 => row.generation > 0
    /\ made # "gap" /\ row.generation > 0 /\ row.fingerprint = v => IsCounted(row, v, made)

RowsCount == \A s \in DOMAIN catalog : Fits(catalog[s], version[s], past.pages[s])

\* A continuation is read under the fingerprint it is of.
LoadsCount ==
    \A l \in Loads : loads[l].pc = "read" =>
        /\ loads[l].at = loads[l].cursor.of
        /\ \A s \in Sources : loads[l].source = s => loads[l].at =< version[s]

RefreshCounts ==
    refresh.pc = "read" =>
        /\ refresh.at =< version[Current]
        /\ refresh.cursor # NoCursor => refresh.at = refresh.cursor.of

Counts == RowsCount /\ LoadsCount /\ RefreshCounts

-----------------------------------------------------------------------------
(* Steps that write no page and take no fingerprint *)

\* All that counts is the same.
Alike(row, new) ==
    /\ new.generation = row.generation /\ new.fingerprint = row.fingerprint
    /\ new.cursor = row.cursor /\ new.partial = row.partial /\ new.entities = row.entities

Follows(c, d) ==
    \A s \in DOMAIN d : IF s \in DOMAIN c THEN Alike(c[s], d[s]) ELSE d[s] = EmptyRow

VersionsGrow == \A s \in Sources : version[s] =< version'[s]
RowsFollow == Follows(catalog, catalog') /\ past'.pages = past.pages
LoadsFollow == \A l \in Loads : loads'[l].pc = "read" => loads'[l] = loads[l]
StillReads(r, q) ==
    q.pc = "read" =>
        r.pc = "read" /\ q.todo = r.todo /\ q.at = r.at /\ q.cursor = r.cursor

RefreshFollows == StillReads(refresh, refresh')

LEMMA FollowsItself == \A c : Follows(c, c)
  BY DEF Follows, Alike

LEMMA SyncedFollows == \A c, active : Follows(c, Synced(c, active))
  BY DEF Follows, Alike, Synced

LEMMA MarkedFollows ==
    ASSUME NEW c, IsCatalog(c), NEW s, NEW available
    PROVE  Follows(c, Marked(c, s, available))
<1>1. CASE s \notin DOMAIN c
  BY <1>1, FollowsItself DEF Marked
<1>2. CASE s \in DOMAIN c
  <2> DEFINE row == [c[s] EXCEPT !.updateAvailable = available]
  <2>1. Alike(c[s], row)
    <3>1. c[s] = [generation |-> c[s].generation, fingerprint |-> c[s].fingerprint,
                  updateAvailable |-> c[s].updateAvailable, cursor |-> c[s].cursor,
                  partial |-> c[s].partial, entities |-> c[s].entities,
                  relations |-> c[s].relations]
      BY <1>2, RowsHaveParts DEF IsCatalog
    <3> QED
      BY <3>1 DEF Alike
  <2>2. Marked(c, s, available) = [c EXCEPT ![s] = row]
    BY <1>2 DEF Marked
  <2> HIDE DEF row
  <2> QED
    BY <2>1, <2>2 DEF Follows, Alike
<1> QED
  BY <1>1, <1>2

LEMMA RowsStay ==
    ASSUME IInv, IInv', RowsCount, VersionsGrow, RowsFollow
    PROVE  RowsCount'
<1> SUFFICES ASSUME NEW s \in DOMAIN catalog'
             PROVE  Fits(catalog'[s], version'[s], past.pages[s])
  BY DEF RowsCount, RowsFollow
<1>1. s \in Sources /\ version[s] \in Nat /\ version'[s] \in Nat /\ version[s] =< version'[s]
  BY VersionFiles DEF IInv, Typed, IsCatalog, VersionsGrow
<1>2. CASE s \in DOMAIN catalog
  <2>1. Alike(catalog[s], catalog'[s])
    BY <1>2 DEF RowsFollow, Follows
  <2>2. catalog[s].fingerprint \in Nat
    BY <1>2, RowsHaveParts, VersionFiles DEF IInv, Typed, IsCatalog
  <2>3. Fits(catalog[s], version[s], past.pages[s])
    BY <1>2 DEF RowsCount
  <2>4. \A v, made : IsCounted(catalog[s], v, made) => IsCounted(catalog'[s], v, made)
    BY <2>1 DEF Alike, IsCounted
  <2>5. /\ catalog[s].fingerprint =< version'[s]
        /\ catalog[s].fingerprint = version'[s] => version'[s] = version[s]
    BY <1>1, <2>2, <2>3 DEF Fits
  <2> QED
    BY <2>1, <2>3, <2>4, <2>5 DEF Alike, Fits
<1>3. CASE s \notin DOMAIN catalog
  <2>1. catalog'[s].fingerprint = 0 /\ catalog'[s].generation = 0
    BY <1>3 DEF RowsFollow, Follows, EmptyRow
  <2> QED
    BY <1>1, <2>1 DEF Fits
<1> QED
  BY <1>2, <1>3

LEMMA LoadsStay ==
    ASSUME IInv, IInv', LoadsCount, VersionsGrow, LoadsFollow
    PROVE  LoadsCount'
<1> SUFFICES ASSUME NEW l \in Loads, loads'[l].pc = "read"
             PROVE  /\ loads'[l].at = loads'[l].cursor.of
                    /\ \A s \in Sources : loads'[l].source = s => loads'[l].at =< version'[s]
  BY DEF LoadsCount
<1>1. loads'[l] = loads[l]
  BY DEF LoadsFollow
<1>2. loads[l].at \in Nat
  BY <1>1, VersionFiles DEF IInv, Typed, IsLoad
<1>3. \A s \in Sources : version[s] \in Nat /\ version'[s] \in Nat /\ version[s] =< version'[s]
  BY VersionFiles DEF IInv, Typed, VersionsGrow
<1>4. /\ loads[l].at = loads[l].cursor.of
      /\ \A s \in Sources : loads[l].source = s => loads[l].at =< version[s]
  BY <1>1 DEF LoadsCount
<1> QED
  BY <1>1, <1>2, <1>3, <1>4

LEMMA RefreshStays ==
    ASSUME IInv, IInv', RefreshCounts, VersionsGrow, RefreshFollows
    PROVE  RefreshCounts'
<1> SUFFICES ASSUME refresh'.pc = "read"
             PROVE  /\ refresh'.at =< version'[Current']
                    /\ refresh'.cursor # NoCursor => refresh'.at = refresh'.cursor.of
  BY DEF RefreshCounts
<1>1. /\ refresh.pc = "read" /\ refresh'.todo = refresh.todo
      /\ refresh'.at = refresh.at /\ refresh'.cursor = refresh.cursor
  BY DEF RefreshFollows, StillReads
<1>2. Current' = Current
  BY <1>1 DEF Current
<1>3. Current \in Sources /\ refresh.at \in Nat
  BY <1>1, CurrentIsASource, VersionFiles DEF IInv, Typed, IsRefresh
<1>4. /\ version[Current] \in Nat /\ version'[Current] \in Nat
      /\ version[Current] =< version'[Current]
  BY <1>3, VersionFiles DEF IInv, Typed, VersionsGrow
<1>5. /\ refresh.at =< version[Current]
      /\ refresh.cursor # NoCursor => refresh.at = refresh.cursor.of
  BY <1>1 DEF RefreshCounts
<1> QED
  BY <1>1, <1>2, <1>3, <1>4, <1>5

-----------------------------------------------------------------------------
(* Who writes a page, and who takes a fingerprint *)

LEMMA TheVersionsGrow ==
    ASSUME IInv, [Next]_vars
    PROVE  VersionsGrow
<1>1. \A s \in Sources : version[s] \in Nat
  BY VersionFiles DEF IInv, Typed
<1>2. CASE UNCHANGED version
  BY <1>1, <1>2 DEF VersionsGrow
<1>3. ASSUME NEW s \in Sources, SourceChanges(s)
      PROVE  VersionsGrow
  BY <1>1, <1>3 DEF SourceChanges, VersionsGrow, IInv, Typed
<1>4. ASSUME NEW l \in Loads, LoadStep(l) \/ \E s \in Sources : LoadMore(l, s)
      PROVE  UNCHANGED version
  BY <1>4 DEF LoadStep, LoadMore, LoadTakesFingerprint, LoadAnswers, LoadFails, LoadOver
<1>5. CASE RefreshStep \/ CommandStep
  BY <1>2, <1>5 DEF RefreshStep, RefreshBegins, PassBegins, ProbeAnswers, ScanTakesFingerprint,
     ScanAnswers, ProviderFails, RefreshOnly, CommandStep, RemoveConfigures, RemoveForgets,
     AuthorizeConfigures, AuthorizeEnables, AuthorizeRefreshes
<1>6. CASE UNCHANGED vars \/ ~(RefreshStep \/ CommandStep)
  BY <1>2, <1>3, <1>4, <1>6 DEF vars, Next, ToggleVisible, ToggleEnabled, ListSources,
     RefreshCommand, StoreOpens, HintBegins, HintTakesFingerprint, HintAnswers, RemoveSource,
     AuthorizeSource, RevealSession, RevealProbed, RevealFails, RevealOpens, RevealTaken,
     RevealGoesOn, Dispose, Restart
<1> QED
  BY <1>5, <1>6

LEMMA SyncsFollow ==
    ASSUME IInv, NEW rows, Syncs(rows), Follows(catalog, rows)
    PROVE  RowsFollow
<1>1. past \in Histories
  BY DEF IInv, Typed
<1> QED
  BY <1>1 DEF Syncs, RowsFollow, Histories

LEMMA TheRowsFollow ==
    ASSUME IInv, [Next]_vars
    PROVE  RowsFollow \/ ScanAnswers \/ \E l \in Loads : LoadAnswers(l)
<1>1. IsCatalog(catalog) /\ past \in Histories
  BY DEF IInv, Typed
<1>2. CASE UNCHANGED <<catalog, past>>
  BY <1>2, FollowsItself DEF RowsFollow
<1>3. CASE ListSources \/ StoreOpens \/ PassBegins \/ RemoveForgets
  <2>1. \E rows : Syncs(rows) /\ Follows(catalog, rows)
    BY <1>3, FollowsItself, SyncedFollows DEF ListSources, StoreOpens, PassBegins, RemoveForgets
  <2> QED
    BY <2>1, SyncsFollow
<1>4. CASE ProbeAnswers \/ HintAnswers \/ RevealProbed
  <2>1. past' = past
    BY <1>4 DEF ProbeAnswers, HintAnswers, RevealProbed, RevealGoesOn
  <2>2. catalog' = catalog \/ \E s, available : catalog' = Marked(catalog, s, available)
    BY <1>4 DEF ProbeAnswers, HintAnswers, RevealProbed
  <2> QED
    BY <1>1, <2>1, <2>2, FollowsItself, MarkedFollows DEF RowsFollow
<1>5. ASSUME NEW s \in Sources, NEW id \in Sessions, RevealSession(s, id)
      PROVE  RowsFollow
  BY <1>1, <1>5, FollowsItself DEF RevealSession, RowsFollow, Histories
<1>6. ASSUME NEW l \in Loads, LoadStep(l) \/ \E s \in Sources : LoadMore(l, s)
      PROVE  UNCHANGED <<catalog, past>> \/ LoadAnswers(l)
  BY <1>6 DEF LoadStep, LoadMore, LoadTakesFingerprint, LoadFails
<1>7. CASE RefreshStep \/ CommandStep
  BY <1>2, <1>3, <1>4, <1>7 DEF RefreshStep, RefreshBegins, ScanTakesFingerprint,
     ProviderFails, CommandStep, RemoveConfigures, AuthorizeConfigures, AuthorizeEnables,
     AuthorizeRefreshes
<1>8. CASE UNCHANGED vars \/ ~(RefreshStep \/ CommandStep)
  BY <1>2, <1>3, <1>4, <1>5, <1>6, <1>8 DEF vars, Next, ToggleVisible, ToggleEnabled,
     RefreshCommand, HintBegins, HintTakesFingerprint, RemoveSource, AuthorizeSource,
     SourceChanges, RevealFails, RevealOpens, RevealTaken, RevealGoesOn, Dispose, Restart
<1> QED
  BY <1>7, <1>8

LEMMA TheLoadsFollow ==
    ASSUME IInv, [Next]_vars
    PROVE  LoadsFollow \/ \E l \in Loads : LoadTakesFingerprint(l)
<1>1. DOMAIN loads = Loads
  BY DEF IInv, Typed
<1>2. CASE UNCHANGED loads
  BY <1>2 DEF LoadsFollow
<1>3. ASSUME NEW l \in Loads, NEW s \in Sources, LoadMore(l, s)
      PROVE  LoadsFollow
  BY <1>1, <1>3 DEF LoadMore, LoadsFollow
<1>4. ASSUME NEW l \in Loads, LoadAnswers(l) \/ LoadFails(l)
      PROVE  LoadsFollow
  BY <1>1, <1>4 DEF LoadAnswers, LoadFails, LoadOver, LoadsFollow, NoLoad
<1>5. CASE Restart
  BY <1>5 DEF Restart, LoadsFollow, NoLoad
<1>6. CASE RefreshStep \/ CommandStep
  BY <1>2, <1>6 DEF RefreshStep, RefreshBegins, PassBegins, ProbeAnswers, ScanTakesFingerprint,
     ScanAnswers, ProviderFails, RefreshOnly, CommandStep, RemoveConfigures, RemoveForgets,
     AuthorizeConfigures, AuthorizeEnables, AuthorizeRefreshes
<1>7. CASE UNCHANGED vars \/ ~(RefreshStep \/ CommandStep)
  BY <1>2, <1>3, <1>4, <1>5, <1>7 DEF vars, Next, LoadStep, ToggleVisible, ToggleEnabled,
     ListSources, RefreshCommand, StoreOpens, HintBegins, HintTakesFingerprint, HintAnswers,
     RemoveSource, AuthorizeSource, SourceChanges, RevealSession, RevealProbed, RevealFails,
     RevealOpens, RevealTaken, RevealGoesOn, Dispose
<1> QED
  BY <1>6, <1>7

\* Whatever is asked of the refresh, it reads on or not at all.
LEMMA AskedOfTheRefresh ==
    ASSUME NEW r, IsRefresh(r), NEW q \in {r, Refreshing(r), Aborted(r)}
    PROVE  IsRefresh(q) /\ StillReads(r, q)
<1>1. StillReads(r, Refreshing(r))
  BY DEF Refreshing, StillReads, IsRefresh, Refreshes
<1>2. StillReads(r, Aborted(r))
  BY DEF Aborted, StillReads, IsRefresh, Refreshes
<1>3. IsRefresh(Refreshing(r)) /\ IsRefresh(Aborted(r)) /\ StillReads(r, r)
  BY RefreshingIsTyped, AbortedIsTyped DEF StillReads
<1> QED
  BY <1>1, <1>2, <1>3

LEMMA ConfigurationFollows ==
    ASSUME IInv, NEW new, ConfigurationChanges(new)
    PROVE  RefreshFollows
<1>1. IsRefresh(refresh)
  BY DEF IInv, Typed
<1>2. CASE refresh' = refresh
  BY <1>1, <1>2, AskedOfTheRefresh DEF RefreshFollows
<1>3. CASE refresh' # refresh
  <2> DEFINE r == Aborted(refresh)
  <2>1. IsRefresh(r) /\ StillReads(refresh, r)
    BY <1>1, AskedOfTheRefresh
  <2>2. refresh' \in {r, Refreshing(r), Aborted(r)}
    BY <1>3 DEF ConfigurationChanges, Reconfigured, ShownOrHidden
  <2> HIDE DEF r
  <2>3. StillReads(r, refresh')
    BY <2>1, <2>2, AskedOfTheRefresh
  <2> QED
    BY <2>1, <2>3 DEF StillReads, RefreshFollows
<1> QED
  BY <1>2, <1>3

LEMMA PassesFollow ==
    ASSUME IInv, NEW stat, NEW again, PassOver(stat, again) \/
           \E todo, rows : GoOn(todo, rows, stat, again)
    PROVE  RefreshFollows
<1>1. PassOver(stat, again) => RefreshFollows
  BY DEF PassOver, NoRefresh, RefreshFollows, StillReads
<1>2. ASSUME NEW todo, NEW rows, GoOn(todo, rows, stat, again), ~PassOver(stat, again)
      PROVE  RefreshFollows
  <2> DEFINE cached == IF First(todo) \in DOMAIN rows THEN rows[First(todo)].fingerprint ELSE 0
             pc == IF cached = 0 THEN "scan" ELSE "probe"
  <2>1. refresh' = [refresh EXCEPT !.todo = todo, !.pc = pc, !.at = cached,
                                   !.cursor = NoCursor, !.pages = 0]
    BY <1>2 DEF GoOn
  <2>2. pc # "read"
    OBVIOUS
  <2> HIDE DEF pc, cached
  <2>3. refresh'.pc = pc
    BY <2>1 DEF IInv, Typed, IsRefresh, Refreshes
  <2> QED
    BY <2>2, <2>3 DEF RefreshFollows, StillReads
<1> QED
  BY <1>1, <1>2

LEMMA CommitsFollow ==
    ASSUME IInv, NEW rows, NEW page, NEW cursor, Commit(rows, page, cursor)
    PROVE  RefreshFollows
<1>1. \/ refresh' = [refresh EXCEPT !.pc = "scan", !.cursor = cursor, !.pages = @ + 1]
      \/ \E todo, stat, again : GoOn(todo, rows, stat, again)
  BY DEF Commit
<1>2. CASE refresh' = [refresh EXCEPT !.pc = "scan", !.cursor = cursor, !.pages = @ + 1]
  BY <1>2 DEF RefreshFollows, StillReads, IInv, Typed, IsRefresh, Refreshes
<1> QED
  BY <1>1, <1>2, PassesFollow

LEMMA TheRefreshFollows ==
    ASSUME IInv, [Next]_vars
    PROVE  RefreshFollows \/ ScanTakesFingerprint
<1>1. IsRefresh(refresh)
  BY DEF IInv, Typed
<1>2. CASE refresh' \in {refresh, Refreshing(refresh), Aborted(refresh)}
  BY <1>1, <1>2, AskedOfTheRefresh DEF RefreshFollows
<1>3. CASE RefreshBegins \/ Restart
  BY <1>1, <1>3 DEF RefreshBegins, Restart, NoRefresh, RefreshFollows, StillReads, IsRefresh,
     Refreshes
<1>4. CASE PassBegins \/ ProviderFails
  BY <1>4, PassesFollow DEF PassBegins, ProviderFails
<1>5. CASE ProbeAnswers
  <2>1. \/ refresh' = [refresh EXCEPT !.pc = "scan"]
        \/ \E stat, again : PassOver(stat, again) \/ \E todo, rows : GoOn(todo, rows, stat, again)
    BY <1>5 DEF ProbeAnswers
  <2>2. CASE refresh' = [refresh EXCEPT !.pc = "scan"]
    BY <1>1, <2>2 DEF RefreshFollows, StillReads, IsRefresh, Refreshes
  <2> QED
    BY <2>1, <2>2, PassesFollow
<1>6. CASE ScanAnswers
  <2>1. ASSUME NEW page, FirstPageAnswers(page) \/ NextPageAnswers(page)
        PROVE  \/ \E stat, again, todo, rows : GoOn(todo, rows, stat, again)
               \/ \E rows, cursor : Commit(rows, page, cursor)
    BY <2>1 DEF FirstPageAnswers, NextPageAnswers
  <2>2. \/ PassOver(status, view.again)
        \/ \E page : FirstPageAnswers(page) \/ NextPageAnswers(page)
    BY <1>6 DEF ScanAnswers
  <2> QED
    BY <2>1, <2>2, PassesFollow, CommitsFollow
<1>7. CASE ToggleEnabled \/ RemoveConfigures \/ AuthorizeConfigures \/ AuthorizeEnables
  BY <1>2, <1>7, ConfigurationFollows
     DEF ToggleEnabled, RemoveConfigures, AuthorizeConfigures, AuthorizeEnables
<1>8. CASE ToggleVisible
  BY <1>2, <1>8 DEF ToggleVisible, ShownOrHidden
<1>9. ASSUME NEW l \in Loads, LoadStep(l) \/ \E s \in Sources : LoadMore(l, s)
      PROVE  UNCHANGED refresh
  BY <1>9 DEF LoadStep, LoadMore, LoadTakesFingerprint, LoadAnswers, LoadFails, LoadOver
<1>10. CASE RefreshStep \/ CommandStep
  BY <1>2, <1>3, <1>4, <1>5, <1>6, <1>7, <1>10 DEF RefreshStep, CommandStep, RemoveForgets,
     AuthorizeRefreshes
<1>11. CASE UNCHANGED vars \/ ~(RefreshStep \/ CommandStep)
  BY <1>2, <1>3, <1>7, <1>8, <1>9, <1>11 DEF vars, Next, ListSources, RefreshCommand,
     StoreOpens, HintBegins, HintTakesFingerprint, HintAnswers, RemoveSource, AuthorizeSource,
     SourceChanges, RevealSession, RevealProbed, RevealFails, RevealOpens, RevealTaken,
     RevealGoesOn, Dispose
<1> QED
  BY <1>10, <1>11

-----------------------------------------------------------------------------
(* Pages and fingerprints that are taken *)

\* A page is written, by the refresh or by Load More.
LEMMA WrittenCounts ==
    ASSUME IInv, RowsCount, UNCHANGED version, NEW s \in DOMAIN catalog,
           NEW cursor \in CursorsOrNone, NEW fp \in Versions, fp =< version[s],
           cursor # NoCursor => fp = cursor.of,
           NEW offset, offset = Offset(cursor), NEW read \in Reads(s, version[s], offset),
           NEW page, page = PageOf(Provider[s], version[s], offset, read),
           NEW new, new = IF cursor = NoCursor
                          THEN Replaced(catalog[s], page, fp, CursorAfter(page, fp, offset))
                          ELSE Appended(catalog[s], page, fp, CursorAfter(page, fp, offset)),
           catalog' = [catalog EXCEPT ![s] = new],
           past' = [past EXCEPT !.pages[s] = MadeOf(s, page, cursor)]
    PROVE  RowsCount'
<1> DEFINE v == version[s]
           made == MadeOf(s, page, cursor)
<1>1. /\ s \in Sources /\ catalog[s] \in Rows /\ v \in Versions /\ offset \in Nat
      /\ past \in Histories
  BY OffsetsAreNumbers DEF IInv, Typed, IsCatalog
<1>2. IsPage(page) /\ Brings(page, v, offset)
  BY <1>1, PagesAreTyped, PagesBring
<1>3. catalog[s].generation \in Nat /\ fp # 0 /\ v \in Nat
  BY <1>1, RowsHaveParts, VersionFiles
<1>4. new.fingerprint = fp /\ new.generation > 0
  <2>1. new.fingerprint = fp /\ new.generation = catalog[s].generation + 1
    BY DEF Replaced, Appended
  <2> QED
    BY <1>3, <2>1
<1>5. ASSUME made # "gap", fp = v
      PROVE  IsCounted(new, v, made)
  <2>1. made = IF page.unread = {} THEN "whole" ELSE "short"
    BY <1>5 DEF MadeOf
  <2>2. CASE cursor = NoCursor
    <3>1. offset = 0
      BY <2>2 DEF Offset
    <3>2. new = Replaced(catalog[s], page, fp, CursorAfter(page, fp, 0))
      BY <2>2, <3>1
    <3> HIDE DEF v, made
    <3> QED
      BY <1>1, <1>2, <2>1, <3>1, <3>2, ReplacedIsCounted
  <2>3. CASE cursor # NoCursor
    <3>1. past.pages[s] = "whole" /\ InPlace(catalog[s], cursor)
      BY <1>5, <2>3 DEF MadeOf
    <3>2. /\ catalog[s].fingerprint = v /\ offset = cursor.offset
          /\ catalog[s].cursor = NoCursor \/ offset =< catalog[s].cursor.offset
      BY <1>5, <2>3, <3>1 DEF InPlace, Offset
    <3>3. Fits(catalog[s], v, "whole")
      BY <3>1 DEF RowsCount
    <3>4. catalog[s].generation > 0 /\ IsCounted(catalog[s], v, "whole")
      BY <1>3, <1>5, <3>2, <3>3 DEF Fits
    <3>5. new = Appended(catalog[s], page, fp, CursorAfter(page, fp, offset))
      BY <2>3
    <3> HIDE DEF v, made
    <3> QED
      BY <1>1, <1>2, <2>1, <3>2, <3>4, <3>5, AppendedIsCounted
  <2> QED
    BY <2>2, <2>3
<1>6. Fits(new, v, made)
  BY <1>4, <1>5 DEF Fits
<1> HIDE DEF made
<1>7. /\ DOMAIN catalog' = DOMAIN catalog /\ catalog'[s] = new
      /\ \A q \in DOMAIN catalog \ {s} : catalog'[q] = catalog[q]
  OBVIOUS
<1>8. past'.pages[s] = made /\ \A q \in Sources \ {s} : past'.pages[q] = past.pages[q]
  <2>1. past' = [past EXCEPT !.pages[s] = made]
    BY DEF made
  <2> QED
    BY <1>1, <2>1 DEF Histories
<1>9. ASSUME NEW q \in DOMAIN catalog, q # s
      PROVE  Fits(catalog'[q], version'[q], past'.pages[q])
  <2>1. q \in Sources
    BY DEF IInv, Typed, IsCatalog
  <2>2. Fits(catalog[q], version[q], past.pages[q])
    BY DEF RowsCount
  <2> QED
    BY <1>7, <1>8, <1>9, <2>1, <2>2
<1> QED
  BY <1>6, <1>7, <1>8, <1>9 DEF RowsCount

LEMMA ScanAnswersCounts ==
    ASSUME IInv, IInv', Counts, [Next]_vars, ScanAnswers
    PROVE  RowsCount'
<1> DEFINE v == version[Current]
           offset == Offset(refresh.cursor)
           page(read) == PageOf(Provider[Current], v, offset, read)
<1>1. /\ refresh.pc = "read" /\ UNCHANGED version /\ RowsCount /\ VersionsGrow
      /\ refresh.at \in Versions /\ refresh.cursor \in CursorsOrNone /\ refresh.at =< v
      /\ refresh.cursor # NoCursor => refresh.at = refresh.cursor.of
  BY TheVersionsGrow
     DEF ScanAnswers, RefreshOnly, Counts, RefreshCounts, IInv, Typed, IsRefresh, Refreshes
<1>2. CASE UNCHANGED <<catalog, past>>
  BY <1>1, <1>2, FollowsItself, RowsStay DEF RowsFollow
<1>3. CASE ~UNCHANGED <<catalog, past>>
  <2>1. PICK read \in Reads(Current, v, offset) :
               IF refresh.cursor = NoCursor THEN FirstPageAnswers(page(read))
                                            ELSE NextPageAnswers(page(read))
    BY <1>3 DEF ScanAnswers
  <2> DEFINE p == page(read)
             next == CursorAfter(p, refresh.at, offset)
             new == IF refresh.cursor = NoCursor
                    THEN Replaced(catalog[Current], p, refresh.at, next)
                    ELSE Appended(catalog[Current], p, refresh.at, next)
  <2>2. p = PageOf(Provider[Current], v, offset, read)
    OBVIOUS
  <2> HIDE DEF page, p
  <2>3. /\ Current \in DOMAIN catalog
        /\ Commit([catalog EXCEPT ![Current] = new], p, next)
    <3>1. CASE refresh.cursor = NoCursor
      <4>1. FirstPageAnswers(p) /\ offset = 0
        BY <2>1, <3>1 DEF p, Offset
      <4> QED
        BY <1>3, <3>1, <4>1 DEF FirstPageAnswers
    <3>2. CASE refresh.cursor # NoCursor
      <4>1. NextPageAnswers(p)
        BY <2>1, <3>2 DEF p
      <4> QED
        BY <1>3, <3>2, <4>1 DEF NextPageAnswers
    <3> QED
      BY <3>1, <3>2
  <2>4. /\ catalog' = [catalog EXCEPT ![Current] = new]
        /\ past' = [past EXCEPT !.pages[Current] = MadeOf(Current, p, refresh.cursor)]
    BY <2>3 DEF Commit
  <2> HIDE DEF new
  <2>5. new = IF refresh.cursor = NoCursor
              THEN Replaced(catalog[Current], p, refresh.at, CursorAfter(p, refresh.at, offset))
              ELSE Appended(catalog[Current], p, refresh.at, CursorAfter(p, refresh.at, offset))
    BY DEF new
  <2> HIDE DEF next
  <2> QED
    BY <1>1, <2>1, <2>2, <2>3, <2>4, <2>5, WrittenCounts
<1> QED
  BY <1>2, <1>3

LEMMA LoadAnswersCounts ==
    ASSUME IInv, IInv', Counts, [Next]_vars, NEW l \in Loads, LoadAnswers(l)
    PROVE  RowsCount'
<1> DEFINE s == loads[l].source
           cursor == loads[l].cursor
           offset == cursor.offset
           page(read) == PageOf(Provider[s], version[s], offset, read)
           new(read) == Appended(catalog[s], page(read), loads[l].at,
                                 CursorAfter(page(read), loads[l].at, offset))
<1>1. /\ loads[l].pc = "read" /\ UNCHANGED version /\ RowsCount /\ VersionsGrow
      /\ loads[l].at \in Versions /\ cursor \in Cursors /\ loads[l].at = cursor.of
      /\ \A q \in Sources : s = q => loads[l].at =< version[q]
  BY TheVersionsGrow DEF LoadAnswers, LoadOver, Counts, LoadsCount, IInv, Typed, IsLoad
<1>2. CASE UNCHANGED <<catalog, past>>
  BY <1>1, <1>2, FollowsItself, RowsStay DEF RowsFollow
<1>3. CASE ~UNCHANGED <<catalog, past>>
  <2>1. s \in DOMAIN catalog
    BY <1>3 DEF LoadAnswers
  <2>2. PICK read \in Reads(s, version[s], offset) :
               /\ catalog' = [catalog EXCEPT ![s] = new(read)]
               /\ past' = [past EXCEPT !.pages[s] = MadeOf(s, page(read), cursor)]
    BY <1>3 DEF LoadAnswers
  <2>3. /\ cursor # NoCursor /\ cursor \in CursorsOrNone /\ offset = Offset(cursor)
        /\ s \in Sources
    BY <1>1, <2>1, NoCursorAssumption DEF CursorsOrNone, Offset, IInv, Typed, IsCatalog
  <2> DEFINE p == page(read)
             row == new(read)
             fp == loads[l].at
  <2>4. /\ p = PageOf(Provider[s], version[s], offset, read)
        /\ row = Appended(catalog[s], p, fp, CursorAfter(p, fp, offset))
        /\ read \in Reads(s, version[s], offset)
    BY <2>2
  <2>5. /\ catalog' = [catalog EXCEPT ![s] = row]
        /\ past' = [past EXCEPT !.pages[s] = MadeOf(s, p, cursor)]
    BY <2>2
  <2>6. fp \in Versions /\ fp =< version[s] /\ fp = cursor.of
    BY <1>1, <2>3
  <2> HIDE DEF s, cursor, offset, page, new, p, row, fp
  <2>7. row = IF cursor = NoCursor
              THEN Replaced(catalog[s], p, fp, CursorAfter(p, fp, offset))
              ELSE Appended(catalog[s], p, fp, CursorAfter(p, fp, offset))
    BY <2>3, <2>4
  <2>8. RowsCount /\ UNCHANGED version
    BY <1>1
  <2> QED
    BY <2>1, <2>3, <2>4, <2>5, <2>6, <2>7, <2>8, WrittenCounts
<1> QED
  BY <1>2, <1>3

LEMMA LoadTakesFingerprintCounts ==
    ASSUME IInv, IInv', LoadsCount, NEW l \in Loads, LoadTakesFingerprint(l)
    PROVE  LoadsCount'
<1>1. /\ loads' = [loads EXCEPT ![l].pc = "read", ![l].at = version[loads[l].source]]
      /\ loads[l].cursor.of = version[loads[l].source] /\ UNCHANGED version
  BY DEF LoadTakesFingerprint
<1>2. DOMAIN loads = Loads /\ loads[l] \in LoadRecords
  BY DEF IInv, Typed, IsLoad
<1>3. /\ loads'[l].at = version[loads[l].source] /\ loads'[l].source = loads[l].source
      /\ loads'[l].cursor = loads[l].cursor
      /\ \A k \in Loads \ {l} : loads'[k] = loads[k]
  BY <1>1, <1>2 DEF LoadRecords
<1>4. \A s \in Sources : version[s] \in Nat
  BY VersionFiles DEF IInv, Typed
<1>5. ASSUME NEW k \in Loads, loads'[k].pc = "read"
      PROVE  /\ loads'[k].at = loads'[k].cursor.of
             /\ \A s \in Sources : loads'[k].source = s => loads'[k].at =< version'[s]
  <2>1. CASE k = l
    <3>1. loads'[l].at = loads'[l].cursor.of
      BY <1>1, <1>3
    <3>2. ASSUME NEW s \in Sources, loads'[l].source = s
          PROVE  loads'[l].at =< version'[s]
      BY <1>1, <1>3, <1>4, <3>2
    <3> QED
      BY <2>1, <3>1, <3>2
  <2>2. CASE k # l
    BY <1>1, <1>3, <1>5, <2>2 DEF LoadsCount
  <2> QED
    BY <2>1, <2>2
<1> QED
  BY <1>5 DEF LoadsCount

LEMMA ScanTakesFingerprintCounts ==
    ASSUME IInv, ScanTakesFingerprint
    PROVE  RefreshCounts'
<1>1. /\ refresh.pc = "scan" /\ UNCHANGED version
      /\ refresh.cursor # NoCursor => refresh.cursor.of = version[Current]
      /\ refresh' = [refresh EXCEPT !.pc = "read", !.at = version[Current]]
  BY DEF ScanTakesFingerprint
<1>2. refresh'.at = version[Current] /\ refresh'.todo = refresh.todo
      /\ refresh'.cursor = refresh.cursor
  BY <1>1 DEF IInv, Typed, IsRefresh, Refreshes
<1>3. Current' = Current
  BY <1>2 DEF Current
<1>4. version[Current] \in Nat
  BY <1>1, CurrentIsASource, VersionFiles DEF IInv, Typed
<1> QED
  BY <1>1, <1>2, <1>3, <1>4 DEF RefreshCounts

-----------------------------------------------------------------------------
(* The theorem *)

LEMMA InitCounts ==
    ASSUME Init
    PROVE  Counts
<1>1. catalog = << >> /\ refresh.pc = "idle" /\ loads = [l \in Loads |-> NoLoad]
  BY DEF Init, NoRefresh
<1>2. RowsCount
  BY <1>1 DEF RowsCount
<1> QED
  BY <1>1, <1>2 DEF Counts, LoadsCount, NoLoad, RefreshCounts

LEMMA NextCounts ==
    ASSUME IInv, Counts, [Next]_vars
    PROVE  Counts'
<1>1. IInv' /\ VersionsGrow
  BY NextKeeps, TheVersionsGrow
<1>2. RowsCount'
  BY <1>1, TheRowsFollow, RowsStay, ScanAnswersCounts, LoadAnswersCounts DEF Counts
<1>3. LoadsCount'
  BY <1>1, TheLoadsFollow, LoadsStay, LoadTakesFingerprintCounts DEF Counts
<1>4. RefreshCounts'
  BY <1>1, TheRefreshFollows, RefreshStays, ScanTakesFingerprintCounts DEF Counts
<1> QED
  BY <1>2, <1>3, <1>4 DEF Counts

\* For any number of Load More commands and whatever the scans could read: what
\* the tree says without "partial" of a source that has not changed is right,
\* however refreshes, pages, hints, commands and windows have followed one
\* another, unless a page was appended to one that was not read to its end, or
\* out of its place.
THEOREM CountsHold == Spec => []CountsAreTrustworthy
<1>1. Init => IInv /\ Counts
  BY InitKeeps, InitCounts
<1>2. IInv /\ Counts /\ [Next]_vars => IInv' /\ Counts'
  BY NextKeeps, NextCounts
<1>3. IInv /\ Counts => CountsAreTrustworthy
  <2> SUFFICES ASSUME Counts, NEW s \in DOMAIN catalog, past.pages[s] # "gap"
               PROVE  IsTrustworthy(s)
    BY DEF CountsAreTrustworthy
  <2>1. Fits(catalog[s], version[s], past.pages[s])
    BY DEF Counts, RowsCount
  <2> QED
    BY <2>1 DEF Fits, IsCounted, IsTrustworthy
<1> QED
  BY <1>1, <1>2, <1>3, PTL DEF Spec
=============================================================================
