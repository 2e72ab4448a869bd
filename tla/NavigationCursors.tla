------------------------- MODULE NavigationCursors -------------------------
(***************************************************************************)
(* The read-only view of session metadata that a tool may ask for, page    *)
(* after page: McpReadOnlyNavigationAdapter (mcp-navigation-adapter.ts)    *)
(* keeps continuation cursors with a time to live, over a facade           *)
(* (read-only-navigation.ts) that pins the snapshots it has read from a    *)
(* provider (synthetic-provider.ts).  Both stores are bounded and let go   *)
(* of what was put in first.  A call is three steps: the query is begun,   *)
(* answered and settled, and other calls, aborts and the passing of time   *)
(* come in between.                                                        *)
(*                                                                         *)
(* A caller walks through the pages of one query: it asks anew, and goes   *)
(* on with the cursor of the last page it was given until there is none.   *)
(***************************************************************************)
EXTENDS Naturals, Sequences, FiniteSets, SequencesExt

CONSTANTS Callers,
          Queries,     \* what callers ask for, with the budget they give
          Listing,     \* the entities of each generation of the source
          Links,       \* its relations, as pairs of entities
          Large,       \* entities that take twice the bytes of another, or of a relation
          MaxPins,     \* MAX_PINNED_SNAPSHOTS
          MaxCursors,  \* MAX_CURSOR_COUNT
          Ttl,         \* CURSOR_TTL_MS
          Pace,        \* bound: how far a list may be read when the time is up
          MaxWalks,    \* bound: walks that callers begin
          MaxAborts    \* bound: calls that callers abort

Entities == UNION {ToSet(Listing[g]) : g \in DOMAIN Listing}

ASSUME CursorsAssumption ==
    /\ IsFiniteSet(Callers)
    /\ Listing \in Seq(Seq(Entities)) /\ Listing # << >>
    /\ Links \in Seq(Seq(Entities \X Entities)) /\ Len(Links) = Len(Listing)
    /\ Queries \subseteq [wanted : SUBSET Entities, limit : Nat \ {0}, entities : Nat \ {0},
                          relations : Nat \ {0}, bytes : Nat]
    /\ \A q \in Queries : q.limit <= q.entities
    /\ Large \subseteq Entities
    /\ {MaxPins, MaxCursors, Ttl} \subseteq Nat \ {0}
    /\ Pace \subseteq Nat /\ {MaxWalks, MaxAborts} \subseteq Nat

VARIABLES
    generation,  \* of the source
    pins,        \* the pinned snapshots, oldest first
    cursors,     \* the cursors that can be continued, oldest first
    call,        \* for each caller, the call it waits for
    walk,        \* for each caller, its query and the cursor it holds
    answer,      \* history: if the last step returned a page, the walk up to it
    walks, aborts

vars == <<generation, pins, cursors, call, walk, answer, walks, aborts>>
-----------------------------------------------------------------------------
(* Values.  A snapshot is named by a digest of what it holds; only whether *)
(* and why it is truncated is not part of the name.                        *)

NoToken == 0
NoCall == [at |-> "none"]
NoSnapshot == [reason |-> "none"]
NoPage == [tooLarge |-> FALSE]
NoWalk == [token |-> NoToken]
NoAnswer == [final |-> FALSE]

Least(a, b) == IF a < b THEN a ELSE b
Newest(s, n) == IF Len(s) > n THEN SubSeq(s, Len(s) - n + 1, Len(s)) ELSE s
FirstOf(s, n) == SubSeq(s, 1, Least(n, Len(s)))

\* The members of a list that are in S, in its order.
Selected(list, S) ==
    LET upto[k \in 0..Len(list)] ==
            IF k = 0 THEN << >>
            ELSE IF list[k] \in S THEN Append(upto[k - 1], list[k]) ELSE upto[k - 1]
    IN upto[Len(list)]
Wanted(q, entities) == Selected(entities, q.wanted)
Touching(links, S) == Selected(links, {l \in ToSet(links) : l[1] \in S \/ l[2] \in S})
Within(links, S) == Selected(links, {l \in ToSet(links) : l[1] \in S /\ l[2] \in S})

\* How far a list is read before the deadline.
Turns(list) == {n \in Pace : n < Len(list)} \cup {Len(list)}

Idle(c) == call[c] = NoCall
InWalk(c) == walk[c].token # NoToken
Pinned(id) == {i \in DOMAIN pins : pins[i].id = id}
CursorsOf(t) == {i \in DOMAIN cursors : cursors[i].token = t}

\* A token is random; one that is in use, or that a caller still holds, does
\* not come up again.
FreshToken ==
    LET used == {cursors[i].token : i \in DOMAIN cursors}
                    \cup {walk[c].token : c \in Callers}
                    \cup {call[c].token : c \in {d \in Callers : ~Idle(d)}}
    IN CHOOSE t \in 1..(Cardinality(used) + 1) : t \notin used
-----------------------------------------------------------------------------
(* The provider and the facade *)

\* The snapshot of a generation; the deadline passes before record records + 1,
\* and then none of its relations are read, or before relation links + 1.
ReadSnapshot(g, q, records, links) ==
    LET parsed == FirstOf(Listing[g], records)
        visible == FirstOf(parsed, q.entities)
        examined == IF records < Len(Listing[g]) THEN << >> ELSE FirstOf(Links[g], links)
        between == Within(examined, ToSet(visible))
        full == Len(between) > q.relations
        late == records < Len(Listing[g]) \/ (~full /\ links < Len(Links[g]))
        relations == FirstOf(between, q.relations)
    IN [id |-> [generation |-> g, entities |-> visible, relations |-> relations,
                budget |-> <<q.entities, q.relations>>],
        reason |-> CASE late -> "time_limit"
                     [] ~late /\ Len(parsed) > q.entities -> "entity_limit"
                     [] ~late /\ Len(parsed) <= q.entities /\ full -> "relation_limit"
                     [] OTHER -> "none"]

\* A snapshot that is pinned already is replaced where it stands.
Pin(s) ==
    IF Pinned(s.id) # {}
    THEN [i \in DOMAIN pins |-> IF pins[i].id = s.id THEN s ELSE pins[i]]
    ELSE Newest(Append(pins, s), MaxPins)

\* The entities of a result, read until the deadline, the end, or one match
\* more than the page holds; then the relations that touch them.
Result(q, s, offset, turns, links) ==
    LET matches == Wanted(q, FirstOf(s.id.entities, turns))
        more == Len(matches) > offset + q.limit
        timed == ~more /\ turns < Len(s.id.entities)
        page == SubSeq(matches, offset + 1, Least(Len(matches), offset + q.limit))
        examined == IF timed THEN << >> ELSE FirstOf(s.id.relations, links)
        touching == Touching(examined, ToSet(page))
        full == Len(touching) >= q.relations
    IN [entities |-> page,
        relations |-> FirstOf(touching, q.relations),
        reason |-> CASE full -> "relation_limit"
                     [] ~full /\ Len(examined) < Len(s.id.relations) -> "time_limit"
                     [] ~full /\ Len(examined) = Len(s.id.relations) /\ more -> "result_limit"
                     [] ~full /\ Len(examined) = Len(s.id.relations) /\ timed -> "time_limit"
                     [] OTHER -> s.reason]
-----------------------------------------------------------------------------
(* The adapter's response *)

Bytes(page) ==
    Len(page.entities) + Len(Wanted([wanted |-> Large], page.entities)) + Len(page.relations)

\* Mutant: only the relations with both ends on the page.
PrefixWithin(result, n) ==
    LET entities == FirstOf(result.entities, n)
    IN [entities |-> entities,
        relations |-> Within(result.relations, ToSet(entities)),
        reason |-> IF n < Len(result.entities) THEN "byte_limit" ELSE result.reason,
        tooLarge |-> n = 0 /\ result.entities # << >>]

\* The first n entities of a result, with the relations that touch them.  A
\* response without any of the entities is refused: response_too_large.
Prefix(result, n) ==
    LET entities == FirstOf(result.entities, n)
    IN [entities |-> entities,
        relations |-> Touching(result.relations, ToSet(entities)),
        reason |-> IF n < Len(result.entities) THEN "byte_limit" ELSE result.reason,
        tooLarge |-> n = 0 /\ result.entities # << >>]

Fits(result, n, bytes) == Bytes(Prefix(result, n)) <= bytes

FittingCount(result, bytes) ==
    CHOOSE n \in 0..Len(result.entities) :
        /\ Fits(result, n, bytes)
        /\ \A k \in (n + 1)..Len(result.entities) : ~Fits(result, k, bytes)

FitResponse(result, bytes) == Prefix(result, FittingCount(result, bytes))

\* Mutant: whatever is truncated has a next page.
GoesOnAlways(page, offset, next) == page.reason # "none"

\* A cursor is given only when it is further on than the page it follows.
GoesOn(page, offset, next) == page.reason # "none" /\ next > offset

WithoutCursor(t) == Selected(cursors, {x \in ToSet(cursors) : x.token # t})
-----------------------------------------------------------------------------
(* A call is begun: up to its first await it reads the cursor and looks for *)
(* the snapshot, or asks the provider.                                      *)

Unanswered == answer' = NoAnswer
EndCall(c) == call' = [call EXCEPT ![c] = NoCall]
EndWalk(c) == walk' = [walk EXCEPT ![c] = NoWalk]

NewCall(q, t, offset) ==
    [at |-> "reading", query |-> q, token |-> t, offset |-> offset, since |-> generation,
     aborted |-> FALSE, late |-> FALSE, seen |-> << >>, told |-> {}, cuts |-> {},
     snapshot |-> NoSnapshot, page |-> NoPage]

\* A caller asks for the first page of a query.
Ask(c, q) ==
    /\ Idle(c) /\ ~InWalk(c) /\ walks < MaxWalks
    /\ call' = [call EXCEPT ![c] = NewCall(q, NoToken, 0)]
    /\ walk' = [walk EXCEPT ![c] = [token |-> NoToken, query |-> q]]
    /\ Unanswered
    /\ walks' = walks + 1
    /\ UNCHANGED <<generation, pins, cursors, aborts>>

StaleToken(t) == \A i \in CursorsOf(t) : cursors[i].life = 0

\* The cursor is unknown or has expired: stale_cursor.
RefuseStale(c, t) ==
    /\ StaleToken(t)
    /\ cursors' = WithoutCursor(t)
    /\ EndWalk(c)
    /\ UNCHANGED call

\* The cursor is bound to another query, limit or budget: cursor_query_mismatch.
RefuseBinding(c, t, q) ==
    /\ ~StaleToken(t)
    /\ \E i \in CursorsOf(t) : cursors[i].query # q
    /\ EndWalk(c)
    /\ UNCHANGED <<cursors, call>>

\* The snapshot of the cursor is looked up among the pinned ones.
BeginPage(c, t, q) ==
    /\ ~StaleToken(t)
    /\ \E i \in CursorsOf(t) :
          /\ cursors[i].query = q
          /\ call' = [call EXCEPT ![c] =
                [NewCall(q, t, cursors[i].offset) EXCEPT
                    !.at = IF Pinned(cursors[i].snapshot) = {} THEN "unpinned" ELSE "answering",
                    !.seen = cursors[i].seen, !.told = cursors[i].told,
                    !.cuts = cursors[i].cuts,
                    !.snapshot = IF Pinned(cursors[i].snapshot) = {} THEN NoSnapshot
                                 ELSE pins[CHOOSE k \in Pinned(cursors[i].snapshot) : TRUE]]]
    /\ walk' = [walk EXCEPT ![c] = [token |-> t, query |-> q]]
    /\ UNCHANGED cursors

UseCursor(c, t, q) ==
    /\ \/ RefuseStale(c, t)
       \/ RefuseBinding(c, t, q)
       \/ BeginPage(c, t, q)
    /\ Unanswered
    /\ UNCHANGED <<generation, pins, aborts>>

\* The caller goes on, or tries again after it has aborted a call.
Continue(c) ==
    /\ Idle(c) /\ InWalk(c)
    /\ UseCursor(c, walk[c].token, walk[c].query)
    /\ UNCHANGED walks

\* The cursor of a caller is used a second time, with its query or another.
UseAgain(c, d, q) ==
    /\ Idle(c) /\ ~InWalk(c) /\ InWalk(d) /\ walks < MaxWalks
    /\ UseCursor(c, walk[d].token, q)
    /\ walks' = walks + 1
-----------------------------------------------------------------------------
(* A call is answered, or its query fails. *)

Answering(c, s, late) ==
    call' = [call EXCEPT ![c] =
        [@ EXCEPT !.at = "answering", !.late = late, !.snapshot = s]]

\* The provider answers in time: with the source as it was at some moment of
\* the call, as far as it came.
ProviderAnswers(c) ==
    /\ call[c].at = "reading" /\ ~call[c].aborted
    /\ \E g \in call[c].since..generation :
       \E records \in Turns(Listing[g]), links \in Turns(Links[g]) :
       \E s \in {ReadSnapshot(g, call[c].query, records, links)} :
          /\ pins' = Pin(s)
          /\ Answering(c, s, s.reason = "time_limit")
    /\ Unanswered
    /\ UNCHANGED <<generation, cursors, walk, walks, aborts>>

\* It fails or does not answer in time.
ProviderFails(c) ==
    /\ call[c].at = "reading" /\ ~call[c].aborted
    /\ EndCall(c) /\ EndWalk(c)
    /\ Unanswered
    /\ UNCHANGED <<generation, pins, cursors, walks, aborts>>

\* The snapshot of the cursor has been let go of.
SnapshotIsGone(c) ==
    /\ call[c].at = "unpinned" /\ ~call[c].aborted
    /\ cursors' = WithoutCursor(call[c].token)
    /\ EndCall(c) /\ EndWalk(c)
    /\ Unanswered
    /\ UNCHANGED <<generation, pins, walks, aborts>>

\* The query of an aborted call fails; the caller keeps the cursor it has.
QueryIsCancelled(c) ==
    /\ call[c].at \in {"reading", "unpinned", "answering"} /\ call[c].aborted
    /\ EndCall(c)
    /\ Unanswered
    /\ UNCHANGED <<generation, pins, cursors, walk, walks, aborts>>

\* The facade reads the page, and what fits of it is the response.
Answer(c) ==
    /\ call[c].at = "answering" /\ ~call[c].aborted
    /\ LET s == call[c].snapshot IN
       \E turns \in IF call[c].late THEN {0} ELSE Turns(s.id.entities),
          links \in IF call[c].late THEN {0} ELSE Turns(s.id.relations) :
       \E result \in {Result(call[c].query, s, call[c].offset, turns, links)} :
       \E page \in {FitResponse(result, call[c].query.bytes)} :
          call' = [call EXCEPT ![c] = [@ EXCEPT !.at = "settling", !.page = page]]
    /\ Unanswered
    /\ UNCHANGED <<generation, pins, cursors, walk, walks, aborts>>
-----------------------------------------------------------------------------
(* A call is settled: the page is returned and its cursor is replaced by    *)
(* the next one.  Whether the caller has gone away is not asked any more.   *)

NextOffset(c, page) == call[c].offset + Len(page.entities)

SettleTooLarge(c) ==
    /\ call[c].at = "settling"
    /\ call[c].page.tooLarge
    /\ EndCall(c)
    /\ IF call[c].aborted THEN UNCHANGED walk ELSE EndWalk(c)
    /\ Unanswered
    /\ UNCHANGED <<generation, pins, cursors, walks, aborts>>

Settle(c) ==
    /\ call[c].at = "settling"
    /\ ~call[c].page.tooLarge
    /\ LET k == call[c]
           page == k.page
           next == NextOffset(c, page)
           on == GoesOn(page, k.offset, next)
           seen == k.seen \o page.entities
           told == k.told \cup ToSet(page.relations)
           cuts == k.cuts \cup ({page.reason} \ {"none", "result_limit"})
           cursor == [token |-> FreshToken, query |-> k.query, snapshot |-> k.snapshot.id,
                      offset |-> next, life |-> Ttl,
                      seen |-> seen, told |-> told, cuts |-> cuts]
       IN /\ cursors' = IF on THEN Newest(Append(WithoutCursor(k.token), cursor), MaxCursors)
                        ELSE WithoutCursor(k.token)
          /\ IF k.aborted THEN Unanswered /\ UNCHANGED walk
             ELSE /\ walk' = [walk EXCEPT ![c] =
                                IF on THEN [token |-> cursor.token, query |-> k.query] ELSE NoWalk]
                  /\ answer' = [final |-> ~on, query |-> k.query, snapshot |-> k.snapshot.id,
                                seen |-> seen, told |-> told, cuts |-> cuts,
                                reason |-> page.reason]
    /\ EndCall(c)
    /\ UNCHANGED <<generation, pins, walks, aborts>>
-----------------------------------------------------------------------------
(* The surroundings *)

Abort(c) ==
    /\ ~Idle(c) /\ ~call[c].aborted /\ aborts < MaxAborts
    /\ call' = [call EXCEPT ![c].aborted = TRUE]
    /\ aborts' = aborts + 1
    /\ Unanswered
    /\ UNCHANGED <<generation, pins, cursors, walk, walks>>

SourceChanges ==
    /\ generation < Len(Listing)
    /\ generation' = generation + 1
    /\ Unanswered
    /\ UNCHANGED <<pins, cursors, call, walk, walks, aborts>>

\* expiresAt is kept as the time that is left.
TimePasses ==
    /\ \E i \in DOMAIN cursors : cursors[i].life > 0
    /\ cursors' = [i \in DOMAIN cursors |-> [cursors[i] EXCEPT !.life = IF @ = 0 THEN 0 ELSE @ - 1]]
    /\ Unanswered
    /\ UNCHANGED <<generation, pins, call, walk, walks, aborts>>
-----------------------------------------------------------------------------
Init ==
    /\ generation = 1
    /\ pins = << >> /\ cursors = << >>
    /\ call = [c \in Callers |-> NoCall]
    /\ walk = [c \in Callers |-> NoWalk]
    /\ answer = NoAnswer
    /\ walks = 0 /\ aborts = 0

\* The steps of the adapter, the facade and the provider in a call of c.
Serve(c) ==
    \/ ProviderAnswers(c) \/ ProviderFails(c) \/ SnapshotIsGone(c)
    \/ QueryIsCancelled(c) \/ Answer(c)
    \/ SettleTooLarge(c) \/ Settle(c)

Next ==
    \/ \E c \in Callers : Serve(c) \/ Continue(c) \/ Abort(c)
    \/ \E c \in Callers, q \in Queries : Ask(c, q)
    \/ \E c, d \in Callers, q \in Queries : UseAgain(c, d, q)
    \/ SourceChanges
    \/ TimePasses

\* A call is carried on; a caller that holds a cursor uses it.
Fairness == \A c \in Callers : WF_vars(Serve(c)) /\ WF_vars(Continue(c))

Spec == Init /\ [][Next]_vars /\ Fairness
-----------------------------------------------------------------------------
(* Properties *)

CursorsAreTyped ==
    \A i \in DOMAIN cursors :
        /\ cursors[i].token \in Nat \ {NoToken} /\ cursors[i].query \in Queries
        /\ cursors[i].life \in 0..Ttl /\ cursors[i].offset \in Nat \ {0}
        /\ cursors[i].seen \in Seq(Entities)

CallsAreTyped ==
    \A c \in {d \in Callers : ~Idle(d)} :
        /\ call[c].at \in {"reading", "unpinned", "answering", "settling"}
        /\ call[c].query \in Queries /\ {call[c].token, call[c].offset} \subseteq Nat
        /\ call[c].since \in 1..generation
        /\ {call[c].aborted, call[c].late} \subseteq BOOLEAN

\* Both stores are bounded, and a token names one cursor.
TypeOK ==
    /\ generation \in 1..Len(Listing) /\ walks \in 0..MaxWalks /\ aborts \in 0..MaxAborts
    /\ Len(pins) <= MaxPins /\ Len(cursors) <= MaxCursors
    /\ \A i, j \in DOMAIN pins : pins[i].id = pins[j].id => i = j
    /\ \A i, j \in DOMAIN cursors : cursors[i].token = cursors[j].token => i = j
    /\ DOMAIN call = Callers /\ DOMAIN walk = Callers
    /\ \A c \in Callers : walk[c].token \in Nat /\ (InWalk(c) => walk[c].query \in Queries)
    /\ CursorsAreTyped /\ CallsAreTyped

\* The pages of a walk follow one another over one snapshot of the source,
\* without a gap or a repetition, whatever was pinned, let go of, expired or
\* asked with the same cursor in between.
PagesAreOfOneSnapshot ==
    IsPrefix(answer.seen, Wanted(answer.query, answer.snapshot.entities))

\* A walk that ends without a word has shown all there is in the source.
EndIsTheEnd ==
    answer.final /\ answer.reason = "none" =>
        answer.seen = Wanted(answer.query, Listing[answer.snapshot.generation])

\* The relations of the source are those between entities that it has.
Relations(g) == Within(Links[g], ToSet(Listing[g]))

\* It has also shown every relation of what it has shown, if none of its pages
\* is said to be cut by a limit of the kinds given.
RelationsAreShown(kinds) ==
    answer.final /\ answer.reason = "none" /\ answer.cuts \cap kinds = {} =>
        ToSet(Touching(Relations(answer.snapshot.generation), ToSet(answer.seen))) \subseteq answer.told

\* A walk from cursor to cursor (mcp-navigation-adapter.ts:244-320) shows the
\* entities and relations of one snapshot, each page where the last one ended,
\* and says so when it has not shown them all.
WalksAreComplete ==
    answer # NoAnswer =>
        /\ PagesAreOfOneSnapshot
        /\ EndIsTheEnd
        /\ RelationsAreShown({"relation_limit", "time_limit", "byte_limit"})

\* Every walk comes to an end, though truncated snapshots always promise more
\* (mcp-navigation-adapter.ts:302-308).
EveryWalkEnds ==
    \A c \in Callers : (~Idle(c) \/ InWalk(c)) ~> (Idle(c) /\ ~InWalk(c))

\* A page that is cut by its bytes (mcp-navigation-adapter.ts:357) hides no
\* other limit that has cut off relations.
RelationCutsAreTold ==
    answer # NoAnswer => RelationsAreShown({"relation_limit", "time_limit"})

\* A call that was aborted takes nothing from the walk it belongs to, so that
\* it can be made again: cancellation is said to be checked after the query too
\* (docs/decisions/037-mcp-july-2026-compatibility-boundary.md:42-43).
AbortedCallsTakeNothing ==
    [][\A c \in Callers :
         (/\ ~Idle(c) /\ call[c].aborted /\ call'[c] = NoCall
          /\ call[c].token # NoToken /\ walk[c].token = call[c].token
          /\ CursorsOf(call[c].token) # {})
            => \E i \in DOMAIN cursors' : cursors'[i].token = call[c].token]_vars
=============================================================================
