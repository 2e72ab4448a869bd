------------------------------ MODULE RowQuery ------------------------------
(***************************************************************************)
(* The rows of one panel: RowQueryController, its recovery policy and the  *)
(* paging helpers of src/webview, over the pages that RecordPages answers. *)
(* The user searches, turns the order, pages, jumps, reveals and rebuilds  *)
(* while answers, errors, invalidations and new generations arrive.        *)
(***************************************************************************)
EXTENDS RecordPages

CONSTANTS Files,        \* what the file is in each generation
          None,         \* no request, no page, no intent
          MaxActs,      \* bound: what the user does
          MaxMishaps,   \* bound: errors, invalidations and profile changes
          Follows       \* may follow mode be switched on

ASSUME QueryAssumption == Files # << >> /\ MaxActs \in Nat /\ MaxMishaps \in Nat /\ Follows \in BOOLEAN
\* The ordinals of a file are those from zero to the last one.
ASSUME FilesAssumption ==
    /\ Files \in Seq(ToSet(Files))
    /\ \A g \in 1..Len(Files) :
          /\ IsFiniteSet(DOMAIN Files[g])
          /\ DOMAIN Files[g] = 0..(Total(Files[g]) - 1)

VARIABLES ui,    \* what App shows: generation, index, follow mode, barrier, page
          ctl,   \* the fields of RowQueryController
          wire,  \* requests that wait for an answer: rows, rebuild, order
          ghost, \* what the user did since the restore began, and how often it retried
          acts   \* how much of the bounds is used up

vars == <<ui, ctl, wire, ghost, acts>>

Ordinals == Nat \cup {Undefined}
Numbers == Nat \ {0}
Sorts == {"none", "newest"}
Directions == {"forward", "backward"}
Options == [anchor : Ordinals, direction : Directions \cup {"unset"},
            offset : Ordinals, sort : {"newest", "unset"}]
Pages == [rows : Seq(Nat), anchor : Nat, before : BOOLEAN, after : BOOLEAN,
          cut : Directions \cup {"no"}, cursor : Ordinals, total : Ordinals,
          offset : Ordinals, next : Ordinals, matched : Ordinals,
          query : Queries, sort : Sorts, direction : Directions, start : Ordinals, from : Ordinals]
Requests == [query : Queries, sort : Sorts, offset : Ordinals, anchor : Ordinals,
             direction : Directions, by : {"next", "previous", "retry", "other"},
             left : Pages \cup {None}]
Inputs == [query : Queries, options : Options, restores : BOOLEAN]
Restores == [query : Queries, phase : {"initial", "waiting-index", "retrying"},
             requested : Options \cup {None}, first : Ordinals, text : Numbers]
ASSUME NoneAssumption == None \notin Options \cup Pages \cup Requests \cup Inputs \cup Restores

Generations == 1..Len(Files)
File == Files[ui.gen]

(***************************************************************************)
(* paging.ts.  An option that is not given is Undefined or "unset".        *)
(***************************************************************************)
NoOptions == [anchor |-> Undefined, direction |-> "unset", offset |-> Undefined, sort |-> "unset"]
After(anchor) == [NoOptions EXCEPT !.anchor = anchor, !.direction = "forward"]
At(offset) == [NoOptions EXCEPT !.offset = offset]
ToTail == [NoOptions EXCEPT !.direction = "backward"]

PageFromOrdinal(ordinal) == IF ordinal = Undefined THEN 1 ELSE ordinal \div PageSize + 1
AnchorForPage(page) == IF page <= 1 THEN Undefined ELSE (page - 1) * PageSize - 1

RowsOptionsAfterRebuild(first, follow) ==
    IF follow THEN ToTail
    ELSE IF first > 0 THEN After(first - 1) ELSE NoOptions
RowsOptionsForViewport(first, text, follow, pending) ==
    LET byOrdinal == RowsOptionsAfterRebuild(first, FALSE)
    IN IF follow THEN ToTail
       ELSE IF pending # None THEN pending
       ELSE IF byOrdinal.anchor = Undefined /\ AnchorForPage(text) # Undefined
            THEN After(AnchorForPage(text)) ELSE byOrdinal

\* Where to look when the restored page is empty; None if nothing is known of it.
LastPageStart(n) == ((n - 1) \div PageSize) * PageSize
AfterEmptyUnclamped(first, text, total, query, offset, matched, cut) ==  \* a mutant
    IF offset # Undefined
    THEN IF cut \/ matched = Undefined THEN None ELSE At(offset)
    ELSE IF total = Undefined THEN None
    ELSE IF total = 0 THEN NoOptions ELSE RowsOptionsForViewport(first, text, FALSE, None)
RowsOptionsAfterEmptyRebuild(first, text, total, query, offset, matched, cut) ==
    IF offset # Undefined
    THEN IF cut \/ matched = Undefined THEN None
         ELSE At(IF matched = 0 THEN 0 ELSE IF offset < matched THEN offset ELSE LastPageStart(matched))
    ELSE IF total = Undefined THEN None
    ELSE IF total = 0 THEN NoOptions
    ELSE IF query # "all" THEN ToTail
    ELSE LET desired == IF first # Undefined THEN first ELSE (text - 1) * PageSize
             start == ((IF desired < total THEN desired ELSE total - 1) \div PageSize) * PageSize
         IN IF start = 0 THEN NoOptions ELSE After(start - 1)

\* The back-stack of a sorted view holds what lies before the current offset.
NormalHistory(history, current) == Selected(history, {o \in ToSet(history) : o < current})
AdvanceSortPage(c, next) ==
    LET kept == NormalHistory(c.history, c.offset)
    IN [offset |-> next, history |-> Append(kept, c.offset), page |-> c.page + 1]
PreviousSortPage(c) ==
    LET kept == NormalHistory(c.history, c.offset)
        page == IF c.page > 1 THEN c.page - 1 ELSE 1
    IN IF kept # << >> THEN [offset |-> Last(kept), history |-> Front(kept), page |-> page]
       ELSE [offset |-> IF c.offset > PageSize THEN c.offset - PageSize ELSE 0,
             history |-> << >>, page |-> page]

(***************************************************************************)
(* RowQueryController, on its fields c.                                    *)
(***************************************************************************)
Readable(reason) == reason \in {"none", "append"}
AbandonRestore(c) == [c EXCEPT !.restore = None]
ReleaseSubmission(c) ==
    IF c.box.sent THEN [c EXCEPT !.box.sent = FALSE, !.box.dirty = FALSE] ELSE c
SetSortPosition(c, position) ==
    [c EXCEPT !.offset = position.offset, !.history = position.history, !.page = position.page]
ResetPaging(c) == SetSortPosition(c, [offset |-> 0, history |-> << >>, page |-> 1])
SetPageInput(c, text) == [c EXCEPT !.box.text = text]

\* requestRows.  how: the metadata; asker: who asks, with the page it asks from.
Plain == [restores |-> FALSE, supersedes |-> TRUE, phase |-> "initial",
          submits |-> FALSE, always |-> FALSE]
Restoring(phase) == [Plain EXCEPT !.restores = TRUE, !.supersedes = FALSE, !.phase = phase]
Asker(by, left) == [by |-> by, left |-> left]
Nobody == Asker("other", None)

RequestRows(c, w, u, query, opts, how, asker) ==
    IF ~Readable(u.reason) /\ ~how.always THEN [ctl |-> c, wire |-> w]
    ELSE LET sort == IF ~u.complete THEN "none" ELSE IF opts.sort # "unset" THEN opts.sort ELSE c.sort
             offset == IF sort = "none" THEN Undefined ELSE OneOf(opts.offset, c.offset)
             kept == IF how.supersedes THEN None ELSE c.restore
             restore == IF how.restores /\ kept # None THEN [kept EXCEPT !.phase = how.phase] ELSE kept
             asked == [opts EXCEPT !.sort = IF sort = "none" THEN "unset" ELSE sort, !.offset = offset]
         IN [ctl |-> [ReleaseSubmission(c) EXCEPT
                         !.restore = restore,
                         !.box.sent = how.submits,
                         !.pending = [query |-> query, options |-> asked, restores |-> how.restores]],
             wire |-> [w EXCEPT !.rows =
                         [query |-> query, sort |-> sort, offset |-> offset,
                          anchor |-> IF sort = "none" THEN opts.anchor ELSE Undefined,
                          direction |-> IF sort = "none" /\ opts.direction = "backward"
                                        THEN "backward" ELSE "forward",
                          by |-> asker.by, left |-> asker.left]]]

\* What a step leads to: the fields, the requests and what App shows.
Leads(c, w, u) == ctl' = c /\ wire' = w /\ ui' = u
Asks(c, w, u, query, opts, how, asker) ==
    LET next == RequestRows(c, w, u, query, opts, how, asker) IN Leads(next.ctl, next.wire, u)

\* planEmptyRestore and finishEmptyRestore, after an empty page of the restore or
\* when the index it waited for is complete.
PlanEmptyRestore(c, u, total, requestedOptions, matched, cut) ==
    LET restore == c.restore
        requested == IF requestedOptions # None THEN requestedOptions ELSE restore.requested
        fallback == RowsOptionsAfterEmptyRebuild(restore.first, restore.text, total, restore.query,
                        IF requested = None THEN Undefined ELSE requested.offset, matched, cut)
        waiting == [kind |-> "wait-index", requested |-> requested]
        stop == [kind |-> "stop"]
    IN IF u.reason # "none" \/ u.follow \/ restore.query # c.query \/ restore.phase = "retrying"
       THEN stop
       ELSE IF ~u.complete /\ total = Undefined THEN waiting
       ELSE IF fallback = None \/ total = 0 THEN stop
       ELSE IF /\ requested # None
               /\ requested.anchor = fallback.anchor
               /\ requested.direction = fallback.direction
               /\ requested.offset = fallback.offset THEN stop
       ELSE [kind |-> "retry", options |-> fallback]
FinishEmptyRestore(c, w, u, total, requestedOptions, matched, cut) ==
    LET decision == PlanEmptyRestore(c, u, total, requestedOptions, matched, cut)
    IN CASE decision.kind = "stop" -> [ctl |-> AbandonRestore(c), wire |-> w]
         [] decision.kind = "wait-index" ->
                [ctl |-> [c EXCEPT !.restore.phase = "waiting-index",
                                   !.restore.requested = decision.requested], wire |-> w]
         [] decision.kind = "retry" ->
                RequestRows(c, w, u, c.query, decision.options, Restoring("retrying"),
                            Asker("retry", None))

(***************************************************************************)
(* What the user does.                                                     *)
(***************************************************************************)
Init ==
    \E descending \in BOOLEAN :
        /\ ui = [gen |-> 0, complete |-> FALSE, follow |-> FALSE, reason |-> "none", page |-> None]
        /\ ctl = [query |-> "all", sort |-> IF descending THEN "newest" ELSE "none",
                  descending |-> descending, offset |-> 0, history |-> << >>, page |-> 1,
                  box |-> [text |-> 1, dirty |-> FALSE, sent |-> FALSE],
                  viewport |-> None, pending |-> None, rebuild |-> None, restore |-> None]
        /\ wire = [rows |-> None, rebuild |-> FALSE, order |-> None]
        /\ ghost = [restored |-> FALSE, touched |-> FALSE, mishap |-> FALSE,
                    reset |-> FALSE, retries |-> 0, lost |-> FALSE]
        /\ acts = [user |-> 0, mishap |-> 0]

Clicks == /\ ui.gen > 0 /\ acts.user < MaxActs
          /\ acts' = [acts EXCEPT !.user = @ + 1]
Acts == Clicks /\ ghost' = [ghost EXCEPT !.touched = TRUE]

EditQuery(query) ==
    /\ Clicks /\ Readable(ui.reason) /\ query # ctl.query
    /\ ghost' = [ghost EXCEPT !.touched = TRUE, !.lost = TRUE]
    /\ LET edited == ReleaseSubmission(ResetPaging([ctl EXCEPT !.query = query]))
           stale == ctl.restore # None /\ ctl.restore.query # query
       IN Leads(IF stale THEN AbandonRestore(edited) ELSE edited, wire, ui)

SubmitQuery ==
    /\ Acts /\ Readable(ui.reason)
    /\ Asks(ctl, wire, ui, ctl.query, NoOptions, Plain, Nobody)

\* requestRowOrder; the order changes when the host acknowledges it.
RequestRowOrder ==
    /\ ui.complete /\ ui.reason = "none" /\ ~wire.rebuild /\ wire.order = None
    /\ LET order == IF ctl.sort = "none" THEN "desc" ELSE "asc"
       IN /\ ctl.descending <=> ctl.sort = "newest"
          /\ Clicks
          /\ Leads(ctl, [wire EXCEPT !.order = order], ui)
          /\ UNCHANGED ghost

SetFollow(enabled) ==
    /\ Follows /\ Acts /\ ui.reason = "none" /\ ui.follow # enabled
    /\ LET left == AbandonRestore(ctl)
           seen == [ui EXCEPT !.follow = enabled]
       IN IF ~enabled THEN Leads(left, wire, seen)
          ELSE IF ctl.sort = "newest"
          THEN Asks(ResetPaging(left), wire, seen, ctl.query, At(0), Plain, Nobody)
          ELSE Asks(left, wire, seen, ctl.query, ToTail, Plain, Nobody)

\* The pager's buttons are dead while rows are on their way.
CanPage == ui.page # None /\ Readable(ui.reason) /\ wire.rows = None
Edge(rows, end) == IF rows = << >> THEN Undefined ELSE IF end = "first" THEN Head(rows) ELSE Last(rows)

NextPage ==
    /\ CanPage /\ ui.page.after /\ Acts
    /\ LET page == ui.page
           next == OneOf(page.next, ctl.offset + PageSize)
           position == AdvanceSortPage(ctl, next)
           anchor == IF page.cut = "forward" /\ page.cursor # Undefined THEN page.cursor
                     ELSE OneOf(Edge(page.rows, "last"), page.anchor)
       IN IF ctl.sort = "newest"
          THEN /\ next > ctl.offset
               /\ Asks(SetPageInput(SetSortPosition(ctl, position), position.page), wire, ui,
                       ctl.query, At(next), Plain, Asker("next", page))
          ELSE Asks(ctl, wire, ui, ctl.query, After(anchor), Plain, Asker("next", page))

PreviousPage ==
    /\ CanPage /\ ui.page.before /\ Acts
    /\ LET page == ui.page
           position == PreviousSortPage(ctl)
           anchor == IF page.cut = "backward" /\ page.cursor # Undefined THEN page.cursor
                     ELSE OneOf(Edge(page.rows, "first"), page.anchor)
       IN IF ctl.sort = "newest"
          THEN Asks(SetPageInput(SetSortPosition(ctl, position), position.page), wire, ui,
                    ctl.query, At(position.offset), Plain, Asker("previous", page))
          ELSE Asks(ctl, wire, ui, ctl.query, [After(anchor) EXCEPT !.direction = "backward"],
                    Plain, Asker("previous", page))

EditPageInputKeepsRestore(text) ==                                        \* a mutant
    /\ Acts /\ Readable(ui.reason) /\ ui.page # None /\ text # ctl.box.text
    /\ Leads([ctl EXCEPT
                  !.box = [text |-> text, dirty |-> TRUE, sent |-> FALSE],
                  !.pending = IF ctl.box.sent THEN None ELSE @,
                  !.rebuild = None], wire, ui)
EditPageInput(text) ==
    /\ Acts /\ Readable(ui.reason) /\ ui.page # None /\ text # ctl.box.text
    /\ Leads([AbandonRestore(ctl) EXCEPT
                  !.box = [text |-> text, dirty |-> TRUE, sent |-> FALSE],
                  !.pending = IF ctl.box.sent THEN None ELSE @,
                  !.rebuild = None], wire, ui)

SubmitPageInput ==
    /\ Readable(ui.reason) /\ ctl.box.dirty /\ Acts
    /\ LET text == ctl.box.text
           offset == (text - 1) * PageSize
           submission == [Plain EXCEPT !.submits = TRUE]
       IN IF ctl.sort = "newest"
          THEN Asks(SetSortPosition(ctl, [offset |-> offset, history |-> << >>, page |-> text]),
                    wire, ui, ctl.query, At(offset), submission, Nobody)
          ELSE Asks(ctl, wire, ui, ctl.query,
                    IF text = 1 THEN NoOptions ELSE After(AnchorForPage(text)), submission, Nobody)

SetProfile == Acts /\ ui.reason = "none" /\ Leads(AbandonRestore(ctl), wire, ui)

\* REVEAL: a problem of the document is shown.
RevealOrdinal(ordinal) ==
    /\ Acts /\ Readable(ui.reason) /\ ordinal \in DOMAIN File
    /\ Asks(AbandonRestore(ctl), wire, ui, ctl.query, After(ordinal), Plain, Nobody)

\* captureRebuild, then the request; the reads under way are given up.
CaptureRebuild ==
    LET shown == IF ui.page = None THEN Undefined ELSE Edge(ui.page.rows, "first")
        viewportQuery == IF ctl.viewport # None THEN ctl.viewport.query ELSE ctl.query
        matches == viewportQuery = ctl.query
        first == IF ~matches THEN Undefined
                 ELSE IF ctl.viewport # None THEN ctl.viewport.first ELSE shown
        text == IF matches THEN ctl.box.text ELSE 1
        intent == ctl.pending # None /\ ctl.pending.query = ctl.query
    IN [query |-> ctl.query, viewportQuery |-> viewportQuery, first |-> first, text |-> text,
        options |-> RowsOptionsForViewport(first, text, ui.follow,
                                           IF intent THEN ctl.pending.options ELSE None)]
Rebuild ==
    /\ ~wire.rebuild /\ Clicks
    /\ ghost' = [ghost EXCEPT !.touched = TRUE, !.lost = @ \/ wire.rows # None]
    /\ Leads([ReleaseSubmission(AbandonRestore(ctl)) EXCEPT !.pending = None, !.rebuild = CaptureRebuild],
             [wire EXCEPT !.rows = None, !.rebuild = TRUE], ui)

(***************************************************************************)
(* What arrives.                                                           *)
(***************************************************************************)
\* The fields when an answer has been taken in, but for what is made of its being empty.
Received(answer) ==
    LET pending == ctl.pending
        query == IF pending # None THEN pending.query ELSE ctl.query
        moved == answer.offset # Undefined /\ query = ctl.query /\ answer.offset # ctl.offset
        placed == IF moved THEN SetSortPosition(ctl, [offset |-> answer.offset, history |-> << >>,
                                                     page |-> answer.offset \div PageSize + 1])
                  ELSE ctl
        kept == IF ctl.viewport # None /\ ctl.viewport.query = query THEN ctl.viewport.first ELSE Undefined
        seen == [(IF pending # None THEN ReleaseSubmission(placed) ELSE placed) EXCEPT
                    !.viewport = [query |-> query,
                                  first |-> OneOf(Edge(answer.rows, "first"), kept)],
                    !.pending = None]
        text == IF ctl.sort = "none" THEN PageFromOrdinal(Edge(answer.rows, "first")) ELSE seen.page
    IN IF answer.rows # << >> /\ query = ctl.query /\ ~seen.box.dirty
       THEN SetPageInput(seen, text) ELSE seen

\* App shows the page; what it was asked for is kept with it.
Shown(answer, request) ==
    LET asked == [query |-> request.query, sort |-> request.sort,
                  direction |-> request.direction, start |-> request.anchor,
                  from |-> IF request.by = "next" /\ request.left.query = request.query /\ ~ghost.lost
                           THEN request.left.offset ELSE Undefined]
    IN [ui EXCEPT !.page = [f \in DOMAIN answer \cup DOMAIN asked |->
                               IF f \in DOMAIN answer THEN answer[f] ELSE asked[f]]]

\* receiveRows.
ReceiveRows(answer, request) ==
    LET restoring == ctl.pending # None /\ ctl.pending.restores /\ ctl.restore # None
        received == Received(answer)
        shown == Shown(answer, request)
        answered == [wire EXCEPT !.rows = None]
        finished == FinishEmptyRestore(received, answered, shown, answer.total, ctl.pending.options,
                                       answer.matched, answer.cut # "no")
    IN IF ~restoring THEN Leads(received, answered, shown)
       ELSE IF answer.rows # << >> THEN Leads(AbandonRestore(received), answered, shown)
       ELSE Leads(finished.ctl, finished.wire, shown)

Retries == [ghost EXCEPT !.retries =
               @ + (IF wire'.rows # None /\ wire'.rows.by = "retry" /\ wire'.rows # wire.rows THEN 1 ELSE 0)]

\* late: how far the read came; known: it saw the end of the file.
RowsArrive(late, known) ==
    LET r == wire.rows
        answer == IF r.sort = "newest" THEN NewestPage(File, r.query, r.offset, late)
                  ELSE PhysicalPage(File, r.query, r.anchor, r.direction, late, known)
    IN /\ r # None
       /\ r.query = "all" => late = Total(File) + 1
       /\ ui.complete \/ r.sort = "newest" \/ SeesTheEnd(File, r.query, r.anchor, r.direction, late) => known
       /\ ReceiveRows(answer, r)
       /\ ghost' = [Retries EXCEPT !.lost = @ /\ r.query # ctl.query]
       /\ UNCHANGED acts

Mishap == /\ ui.gen > 0 /\ acts.mishap < MaxMishaps
          /\ acts' = [acts EXCEPT !.mishap = @ + 1]

RowsFail ==
    /\ wire.rows # None /\ Mishap
    /\ LET failed == IF ctl.pending # None /\ ctl.pending.restores THEN AbandonRestore(ctl) ELSE ctl
       IN Leads([ReleaseSubmission(failed) EXCEPT !.pending = None], [wire EXCEPT !.rows = None], ui)
    /\ ghost' = [ghost EXCEPT !.mishap = TRUE, !.lost = @ \/ wire.rows # None]
RebuildFails ==
    /\ wire.rebuild /\ Mishap
    /\ Leads([ctl EXCEPT !.rebuild = None], [wire EXCEPT !.rebuild = FALSE], ui)
    /\ UNCHANGED ghost
OrderFails ==
    /\ wire.order # None /\ Mishap
    /\ Leads(ctl, [wire EXCEPT !.order = None], ui)
    /\ UNCHANGED ghost

SourceInvalidated(observed) ==
    /\ Mishap
    /\ LET reason == IF observed = "append" /\ ui.reason = "lost" THEN "lost" ELSE observed
           seen == [ui EXCEPT !.reason = reason]
       IN IF reason = "append" THEN Leads(ctl, wire, seen)
          ELSE Leads([AbandonRestore(ReleaseSubmission(ctl)) EXCEPT !.pending = None, !.rebuild = None],
                     [wire EXCEPT !.rows = None], seen)
    /\ ghost' = [ghost EXCEPT !.mishap = TRUE, !.lost = @ \/ wire.rows # None]

RowOrderChanged ==
    /\ wire.order # None
    /\ LET descending == wire.order = "desc"
           turned == ResetPaging([ctl EXCEPT !.descending = descending,
                                             !.sort = IF descending THEN "newest" ELSE "none"])
       IN Asks(turned, [wire EXCEPT !.order = None], ui, ctl.query, At(0), Plain, Nobody)
    /\ UNCHANGED <<ghost, acts>>

\* PROFILE_CHANGED: the columns change; a restore that waits is left to wait.
ProfileChanged ==
    /\ Mishap /\ ui.reason = "none"
    /\ LET reset == ResetPaging(ctl)
           restore == ctl.restore
           pendingRestore == ctl.pending # None /\ ctl.pending.restores /\ restore # None
           first == IF ctl.viewport # None THEN ctl.viewport.first ELSE Undefined
           again == IF pendingRestore /\ ~ui.follow
                    THEN RowsOptionsForViewport(restore.first, restore.text, FALSE, None)
                    ELSE RowsOptionsAfterRebuild(first, ui.follow)
           options == IF ctl.sort = "newest" THEN [again EXCEPT !.offset = 0] ELSE again
           phase == IF restore # None /\ restore.phase = "retrying" THEN "retrying" ELSE "initial"
       IN /\ IF restore # None /\ ~pendingRestore THEN Leads(reset, wire, ui)
             ELSE Asks(reset, wire, ui, ctl.query, options,
                       IF pendingRestore THEN Restoring(phase) ELSE Plain, Nobody)
          /\ ghost' = [ghost EXCEPT !.reset = @ \/ (pendingRestore /\ phase = "retrying")]

\* INDEX_PROGRESS with the whole file indexed.
IndexCompletes ==
    /\ ui.gen > 0 /\ ~ui.complete
    /\ LET seen == [ui EXCEPT !.complete = TRUE]
           waiting == ctl.restore # None /\ ctl.restore.phase = "waiting-index"
           finished == IF waiting THEN FinishEmptyRestore(ctl, wire, seen, Total(File), None, Undefined, FALSE)
                       ELSE [ctl |-> ctl, wire |-> wire]
           turned == ResetPaging([finished.ctl EXCEPT !.sort = "newest"])
       IN IF ctl.descending /\ finished.ctl.sort = "none" /\ ui.reason = "none"
          THEN Asks(turned, finished.wire, seen, ctl.query, At(0), Plain, Nobody)
          ELSE Leads(finished.ctl, finished.wire, seen)
    /\ ghost' = Retries
    /\ UNCHANGED acts

\* planOpened: what to ask of the new generation, and what to restore.
PlanOpened ==
    LET saved == ctl.viewport
        pending == ctl.pending
        rebuild == ctl.rebuild
        replaces == ui.gen > 0 /\ ~(saved = None /\ pending = None /\ rebuild = None)
        viewportQuery == IF pending # None THEN pending.query
                         ELSE IF rebuild # None THEN rebuild.viewportQuery
                         ELSE IF saved # None THEN saved.query ELSE ctl.query
        matches == viewportQuery = ctl.query
        savedFirst == IF saved # None THEN saved.first ELSE Undefined
        resume == IF ~matches THEN NoOptions
                  ELSE IF pending # None THEN pending.options
                  ELSE IF rebuild # None THEN rebuild.options
                  ELSE RowsOptionsAfterRebuild(savedFirst, FALSE)
        restore == [query |-> ctl.query, phase |-> "initial", requested |-> None,
                    first |-> IF rebuild # None /\ rebuild.first # Undefined THEN rebuild.first
                              ELSE IF matches THEN savedFirst ELSE Undefined,
                    text |-> IF rebuild # None THEN rebuild.text
                             ELSE IF matches THEN ctl.box.text ELSE 1]
    IN [replaces |-> replaces,
        options |-> IF ui.follow THEN ToTail ELSE IF replaces THEN resume ELSE NoOptions,
        restore |-> IF replaces /\ ~ui.follow THEN restore ELSE None]

\* OPENED of the next generation.  The order is the host's preference again, as
\* far as the index allows it.
Opened(complete) ==
    /\ ui.gen < Len(Files)
    /\ LET plan == PlanOpened
           sort == IF ctl.descending /\ complete THEN "newest" ELSE "none"
           ordered == IF sort = ctl.sort THEN ctl ELSE ResetPaging([ctl EXCEPT !.sort = sort])
           cleared == [ReleaseSubmission(ordered) EXCEPT
                          !.restore = plan.restore, !.viewport = None, !.pending = None, !.rebuild = None]
           keeps == ui.follow /\ ui.page # None /\ ui.page.rows # << >>
           seen == [ui EXCEPT !.gen = @ + 1, !.complete = complete, !.reason = "none",
                              !.page = IF keeps THEN @ ELSE None]
           how == [(IF plan.replaces THEN Restoring("initial") ELSE Plain) EXCEPT
                      !.restores = plan.replaces /\ ~ui.follow, !.always = TRUE]
       IN /\ Asks(cleared, [rows |-> None, rebuild |-> FALSE, order |-> None], seen,
                  ctl.query, plan.options, how, Nobody)
          /\ ghost' = [restored |-> plan.restore # None, touched |-> FALSE, mishap |-> FALSE,
                       reset |-> FALSE, retries |-> 0, lost |-> FALSE]
    /\ UNCHANGED acts

Arrives ==
    \/ \E complete \in BOOLEAN : Opened(complete)
    \/ \E late \in 0..(Total(Files[1]) + 1), known \in BOOLEAN :
          ui.gen > 0 /\ late <= Total(File) + 1 /\ RowsArrive(late, known)
    \/ \E observed \in {"append", "lost"} : SourceInvalidated(observed)
    \/ RowsFail \/ RebuildFails \/ OrderFails
    \/ RowOrderChanged \/ ProfileChanged \/ IndexCompletes

Uses ==
    \/ \E query \in Queries : EditQuery(query)
    \/ SubmitQuery \/ RequestRowOrder \/ NextPage \/ PreviousPage
    \/ \E text \in 1..3 : EditPageInput(text)
    \/ SubmitPageInput \/ SetProfile \/ Rebuild
    \/ \E ordinal \in 0..(Total(Files[1]) - 1) : ui.gen > 0 /\ RevealOrdinal(ordinal)
    \/ \E enabled \in BOOLEAN : SetFollow(enabled)

Next == Arrives \/ Uses
Spec == Init /\ [][Next]_vars

(***************************************************************************)
(* Properties                                                              *)
(***************************************************************************)
\* The fields are of their types; a submitted page number is one that waits for
\* its answer; the back-stack of a sorted view rises and lies before its offset.
TypeOK ==
    /\ ui.gen \in 0..Len(Files) /\ ui.complete \in BOOLEAN /\ ui.follow \in BOOLEAN
    /\ ui.reason \in {"none", "append", "lost"}
    /\ ctl.query \in Queries /\ ctl.sort \in Sorts /\ ctl.offset \in Nat /\ ctl.page \in Nat \ {0}
    /\ \A k \in 1..Len(ctl.history) :
          ctl.history[k] < IF k < Len(ctl.history) THEN ctl.history[k + 1] ELSE ctl.offset
    /\ ctl.pending # None => ctl.pending.options \in Options /\ wire.rows # None
    /\ ctl.box.sent => ctl.pending # None
    /\ ctl.restore # None => ctl.restore.phase \in {"initial", "waiting-index", "retrying"}
    /\ ctl.rebuild # None => wire.rebuild
    /\ wire.rebuild \in BOOLEAN /\ wire.order \in {None, "asc", "desc"}

\* A page asked for with Next or Previous begins where the page shown ends: no
\* record the query finds lies between the two or is shown twice, also when the
\* page shown was cut short by its budget or is empty; in a sorted view Next goes
\* on by the rows shown, and Previous undoes the Next that led here (nextPage,
\* previousPage and the cursors of getRows).  Left out is a sorted view whose position
\* was moved without a page to show for it, by an edit of the query, a failed
\* request or one that a rebuild or an invalidation withdrew: see RetrySkipsNothing.
Gap(low, high) == {i \in DOMAIN File : low < i /\ i < high /\ Finds(File, wire.rows.query, i)}
ContinuesPhysical(page, r) ==
    LET first == Edge(page.rows, "first")
        last == Edge(page.rows, "last")
        start == IF page.direction = "backward" /\ page.start = Undefined THEN Total(File) ELSE page.start
    IN /\ r.by = "next" /\ page.rows # << >> => r.anchor >= last /\ Gap(last, r.anchor + 1) = {}
       /\ r.by = "previous" /\ page.rows # << >> => r.anchor <= first /\ Gap(r.anchor - 1, first) = {}
       /\ page.rows = << >> /\ page.cursor # Undefined
             /\ r.by = (IF page.direction = "forward" THEN "next" ELSE "previous")
          => IF r.by = "next" THEN Gap(start, r.anchor + 1) = {} ELSE Gap(r.anchor - 1, start) = {}
ContinuesSorted(page, r) ==
    /\ r.by = "next" => r.offset = page.offset + Len(page.rows)
    /\ r.by = "previous" /\ page.from # Undefined => r.offset = page.from
Continues == LET r == wire.rows
                 page == r.left
             IN /\ page # None
                /\ page.query = r.query /\ page.sort = r.sort
PagesFollowOneAnother ==
    wire.rows # None /\ wire.rows.by \in {"next", "previous"} /\ Continues /\ ~ghost.lost =>
        IF wire.rows.sort = "none" THEN ContinuesPhysical(wire.rows.left, wire.rows)
        ELSE ContinuesSorted(wire.rows.left, wire.rows)

\* When a rebuilt view has come to rest and neither the user nor a mishap came
\* between, it shows nothing only if the query finds nothing in the whole file,
\* unless it says that its scan was cut short (planEmptyRestore).  The exception is
\* a profile that changes under the clamped request: see FallbackIsKept.
RestoreIsNotBlank ==
    ghost.restored /\ ~ghost.touched /\ ~ghost.mishap /\ ~ghost.reset /\ ui.complete /\ wire.rows = None
      /\ ui.page # None /\ ui.page.cut = "no" /\ ui.page.rows = << >>
    => \A i \in DOMAIN File : ~Finds(File, ui.page.query, i)

\* The clamped second request goes out once at most for a new generation, and
\* never after the user has done something else (planEmptyRestore: "at most one
\* distinct clamped request").
UserInputWins == [][ghost'.retries > ghost.retries => ~ghost.touched /\ ghost.retries = 0]_vars

\* Previous on a page that is empty because its budget ran out goes back to the
\* records before the place that page was looked for from, and leaves none of them
\* out, as format-and-profile-boundaries.md says of the opposite control.
ReturnSkipsNothing ==
    wire.rows # None /\ wire.rows.by = "previous" /\ Continues
      /\ wire.rows.sort = "none" /\ wire.rows.left.rows = << >> /\ wire.rows.left.cut = "forward"
    => Gap(wire.rows.anchor - 1, wire.rows.left.start + 1) = {}

\* A change of profile does not lose the page that an empty restore falls back to.
FallbackIsKept ==
    ghost.restored /\ ~ghost.touched /\ ~ghost.mishap /\ ui.complete /\ wire.rows = None
      /\ ui.page # None /\ ui.page.cut = "no" /\ ui.page.rows = << >>
    => \A i \in DOMAIN File : ~Finds(File, ui.page.query, i)

\* Next, clicked again after its request has failed, goes on from the page shown.
RetrySkipsNothing ==
    wire.rows # None /\ wire.rows.by = "next" /\ Continues /\ wire.rows.sort = "newest"
    => wire.rows.offset = wire.rows.left.offset + Len(wire.rows.left.rows)

\* A read is sorted only if the view is.
OrderIsTheChosen == wire.rows # None /\ wire.rows.sort = "newest" => ctl.sort = "newest"
=============================================================================
