------------------------------ MODULE Workspace ------------------------------
(***************************************************************************)
(* What a panel shows: the reducer of webview/state.ts, the refs, callbacks *)
(* and effects of App.tsx around it, and the requests its message client   *)
(* waits for.  React renders a state some time after it was reduced and    *)
(* runs the effects of that rendering later still, while messages go on    *)
(* arriving; the effects and the user act on what was rendered.  Follow    *)
(* mode stays off.  Which rows are asked for is RowQuery's matter: here a  *)
(* page is any page of the generation.  The host is the environment.       *)
(***************************************************************************)
EXTENDS Integers, Sequences, FiniteSets

CONSTANTS Starts,      \* per generation, where each of its records starts in the file
          Slow,        \* generations that may be opened before their index is complete
          Heavy,       \* ordinals of oversized records, whose first detail is a preview
          PageSize,    \* records on a page
          Panes,       \* the panes that load when they are opened: problems, insights
          Ids,         \* request ids, of each kind
          None,        \* no request, no record, no key
          Columns,     \* may rows and profiles have columns (TRUE), may they have none (FALSE)
          MayHide,     \* may the panel be hidden, which discards its page
          MaxActs,     \* bound: what the user does
          MaxMishaps,  \* bound: failures, source changes, changes by other callers
          MaxEvents,   \* bound: both together
          MaxKept      \* bound: how many more while a drawer is kept over a rebuild

ASSUME WorkspaceAssumption ==
    /\ Starts \in Seq(Seq(Nat)) /\ Starts # << >> /\ PageSize \in Nat \ {0}
    /\ Ids # {} /\ None \notin Ids /\ Panes \subseteq {"problems", "insights"}
    /\ Columns \subseteq BOOLEAN /\ Columns # {} /\ MayHide \in BOOLEAN
    /\ MaxActs \in Nat /\ MaxMishaps \in Nat /\ MaxEvents \in Nat
    /\ MaxKept \in Nat

VARIABLES app,   \* the reducer's state ui, the refs of App, the client's requests and session
          seen,  \* the state that is rendered
          due,   \* what a rendering changed whose effects have not run yet, else None
          host,  \* generation, is its index complete, what a panel that shows it was told of
             \* its source, is the panel shown
          used   \* how much of the bounds is used up

vars == <<app, seen, due, host, used>>

Generations == 1..Len(Starts)
Reads == {"rows", "detail", "schema", "problems", "insights"}
Kinds == Reads \cup {"ready", "profile", "rebuild"}
Reasons == {"none", "append", "unknown", "lost"}  \* lost: truncate, replace or delete

Ordinals(gen) == 1..Len(Starts[gen])
Refs == UNION {{[gen |-> g, ordinal |-> o] : o \in Ordinals(g)} : g \in Generations}
Ref(gen, o) == [gen |-> gen, ordinal |-> o]
StartOf(ref) == Starts[ref.gen][ref.ordinal]
SameRecord(r, s) == r.ordinal = s.ordinal /\ StartOf(r) = StartOf(s)
LastOnPage(gen, o) ==
    IF o + PageSize - 1 < Len(Starts[gen]) THEN o + PageSize - 1 ELSE Len(Starts[gen])
Pages(gen) == {<< >>} \cup {[i \in 1..(LastOnPage(gen, o) - o + 1) |-> o + i - 1] : o \in Ordinals(gen)}
OnPage(u, o) == \E i \in DOMAIN u.rows : u.rows[i] = o
Shows(u, ref) == \E i \in DOMAIN u.rows : SameRecord(Ref(u.gen, u.rows[i]), ref)

Readable(reason) == reason \in {"none", "append"}
NextReason(current, observed) ==
    IF observed = "append" /\ current = "lost" THEN current ELSE observed

(***************************************************************************)
(* The reducer of state.ts, on its state u.  fresh names the fields that   *)
(* were replaced since the last rendering, perhaps by an equal value.      *)
(***************************************************************************)
NoPending == [k \in Kinds |-> None]
NoView ==
    [gen |-> 0, complete |-> FALSE, reason |-> "none", rows |-> << >>, columns |-> FALSE,
     selected |-> None, detail |-> None, blocked |-> None, keep |-> None, keepDetail |-> None,
     stale |-> FALSE, schema |-> "none", problems |-> FALSE, insights |-> FALSE,
     tab |-> "table", pending |-> NoPending, fresh |-> {}]

Completed(pending, r) ==
    IF r # None /\ pending[r.kind] = r.id THEN [pending EXCEPT ![r.kind] = None] ELSE pending

PendingKept(pending, changed, r) == Completed(pending, r)                 \* a mutant
PendingAfterOpened(pending, changed, r) ==
    IF changed THEN NoPending ELSE Completed(pending, r)

\* OPENED.  An invalidated view is left alone unless the generation is a new one.
Opened(u, gen, complete, r) ==
    LET changed == u.gen # gen
        keepsDrawer == changed /\ u.keepDetail # None /\ u.pending["rebuild"] # None
    IN IF u.reason # "none" /\ ~changed
       THEN [u EXCEPT !.pending = Completed(@, r)]
       ELSE [u EXCEPT
               !.gen = gen, !.complete = complete, !.reason = "none",
               !.rows = IF changed THEN << >> ELSE @,
               !.columns = ~changed /\ @,
               !.selected = IF keepsDrawer THEN u.keepDetail.ordinal
                            ELSE IF ~changed THEN @
                            ELSE IF u.keep # None THEN u.keep.ordinal ELSE None,
               !.detail = IF changed /\ ~keepsDrawer THEN None ELSE @,
               !.schema = IF changed THEN "none" ELSE @,
               !.problems = ~changed /\ @, !.insights = ~changed /\ @,
               !.pending = PendingAfterOpened(@, changed, r),
               !.blocked = None,
               !.keep = IF changed THEN @ ELSE None,
               !.keepDetail = IF keepsDrawer THEN @ ELSE None,
               !.stale = keepsDrawer,
               !.fresh = @ \cup (IF changed THEN {"summary", "rows"} ELSE {"summary"})]

\* ROWS.  The selection follows the record kept over a rebuild, else it stays, else it
\* is the first row; a drawer stays open only on the selected record.
Rows(u, page, columns, r) ==
    LET new == [u EXCEPT !.rows = page]
        first == IF page = << >> THEN None ELSE page[1]
        held(ref) == page = << >> \/ Shows(new, ref)
        keepsAppend == u.reason = "append" /\ u.detail # None
        selected == IF keepsAppend /\ u.selected # None THEN u.selected
                    ELSE IF u.keep # None THEN (IF held(u.keep) THEN u.keep.ordinal ELSE first)
                    ELSE IF u.selected # None /\ OnPage(new, u.selected) THEN u.selected
                    ELSE first
        keepsDetail == /\ u.detail # None /\ u.detail.ordinal = selected
                       /\ u.keepDetail = None \/ held(u.keepDetail)
    IN IF ~Readable(u.reason) THEN [u EXCEPT !.pending = Completed(@, r)]
       ELSE [new EXCEPT
               !.columns = columns,
               !.selected = selected,
               !.detail = IF keepsAppend \/ keepsDetail THEN @ ELSE None,
               !.blocked = IF @ = selected THEN @ ELSE None,
               !.keep = IF @ # None /\ held(@) THEN @ ELSE None,
               !.keepDetail = IF @ # None /\ held(@) THEN @ ELSE None,
               !.stale = @ /\ (page = << >> \/ (u.keepDetail # None /\ held(u.keepDetail))),
               !.pending = Completed(@, r),
               !.fresh = @ \cup {"rows"}]

Detailed(u, ref, full, r) ==
    IF ~Readable(u.reason) THEN [u EXCEPT !.pending = Completed(@, r)]
    ELSE [u EXCEPT !.detail = [gen |-> ref.gen, ordinal |-> ref.ordinal, full |-> full],
                   !.selected = ref.ordinal, !.blocked = None, !.keep = None,
                   !.keepDetail = None, !.stale = FALSE, !.pending = Completed(@, r)]

\* SCHEMA, PROBLEMS and INSIGHTS put their answer in the field of that name.
Filled(u, field, value, r) ==
    IF ~Readable(u.reason) THEN [u EXCEPT !.pending = Completed(@, r)]
    ELSE [u EXCEPT ![field] = value, !.pending = Completed(@, r),
                   !.fresh = IF field = "problems" THEN @ \cup {"summary"} ELSE @]

Progressed(u, gen, complete) ==
    IF u.reason # "none" THEN u
    ELSE [u EXCEPT !.gen = gen, !.complete = complete, !.fresh = @ \cup {"summary"}]

ProfileChanged(u, columns, r) ==
    IF u.reason # "none" THEN [u EXCEPT !.pending = Completed(@, r)]
    ELSE [u EXCEPT !.columns = columns, !.detail = None, !.insights = FALSE,
                   !.pending = Completed(@, r), !.fresh = @ \cup {"summary"}]

Invalidated(u, observed) ==
    LET reason == NextReason(u.reason, observed)
    IN [u EXCEPT !.reason = reason,
                 !.blocked = IF ~Readable(reason) /\ u.pending["detail"] # None THEN u.selected ELSE @,
                 !.pending = IF reason = "append" THEN @ ELSE NoPending]

Failed(u, r) ==
    LET ends == r.kind = "rebuild" /\ u.pending["rebuild"] = r.id
    IN [u EXCEPT !.blocked = IF /\ u.reason # "none" /\ u.detail = None
                                /\ r.kind = "detail" /\ u.pending["detail"] = r.id
                             THEN u.selected ELSE @,
                 !.keepDetail = IF ends THEN None ELSE @,
                 !.keep = IF ends THEN None ELSE @,
                 !.stale = @ /\ ~ends,
                 !.pending = Completed(@, r)]

\* REQUEST_SENT.  A rebuild remembers the selected record, and whether its drawer is open.
RequestSent(u, id, kind) ==
    LET row == IF u.gen # 0 /\ u.selected # None /\ OnPage(u, u.selected)
               THEN Ref(u.gen, u.selected) ELSE None
        sent == [u EXCEPT !.pending[kind] = id]
    IN IF kind # "rebuild" THEN sent
       ELSE [sent EXCEPT !.keep = row, !.keepDetail = IF u.detail = None THEN None ELSE row]

SelectRowKeepingDetail(u, o) == [u EXCEPT !.selected = o]                 \* a mutant
SelectRow(u, o) ==
    LET other == u.detail = None \/ u.detail.ordinal # o
    IN [u EXCEPT !.selected = o,
                 !.detail = IF other THEN None ELSE @,
                 !.keep = IF u.selected = o THEN @ ELSE None,
                 !.keepDetail = IF u.selected = o THEN @ ELSE None,
                 !.stale = u.selected = o /\ @,
                 !.blocked = IF ~Readable(u.reason) /\ other THEN o ELSE None]

CloseDetail(u) == [u EXCEPT !.detail = None, !.blocked = None, !.keep = None,
                            !.keepDetail = None, !.stale = FALSE]
DrawerOpen(u) == u.detail # None \/ u.pending["detail"] # None \/ u.blocked # None

(***************************************************************************)
(* The message client and the callbacks of App, on a = app.                *)
(***************************************************************************)
NoRefs == [accepted |-> 0, reason |-> "none", schemaKey |-> None, autoKey |-> None,
           failed |-> FALSE, detail |-> None, tab |-> "table"]
           \* detail and tab: of stateRef and persistedStateRef, the last effects' state

Detail(ref, full) == [gen |-> ref.gen, ordinal |-> ref.ordinal, full |-> full]
Messages == [id: Ids, kind: Kinds \ {"detail"}, arg: {None}]
            \cup [id: Ids, kind: {"detail"}, arg: [gen: Nat, ordinal: Nat, full: BOOLEAN]]
ASSUME NoneAssumption == None \notin Nat /\ None \notin Messages

Requests(a, kind) == {r \in a.client : r.kind = kind}
\* An id that no request waits with and no spinner shows.
Unused[taken \in SUBSET (Ids \cup {None})] == CHOOSE id \in Ids : id \notin taken
Taken(a, kind) == {r.id : r \in Requests(a, kind)} \cup {a.ui.pending[kind]}
FreshId(a, kind) == Unused[Taken(a, kind)]

Send(a, kind, arg) ==
    LET id == FreshId(a, kind)
    IN [a EXCEPT !.client = @ \cup {[id |-> id, kind |-> kind, arg |-> arg]},
                 !.ui = RequestSent(@, id, kind)]

\* client.cancel and finishCancelled: every cancelled request ends its spinner.
CancelOnly(a, kinds) == [a EXCEPT !.client = {r \in @ : r.kind \notin kinds}]  \* a mutant
Cancel(a, kinds) ==
    LET gone == {r \in a.client : r.kind \in kinds}
    IN [a EXCEPT !.client = @ \ gone,
                 !.ui.pending = [k \in Kinds |->
                     IF \E r \in gone : r.kind = k /\ r.id = a.ui.pending[k]
                     THEN None ELSE a.ui.pending[k]]]

AskRows(a) == Send(Cancel(a, {"rows"}), "rows", None)
RequestRows(a) == IF Readable(a.refs.reason) THEN AskRows(a) ELSE a
RequestSchema(a) ==
    IF Readable(a.refs.reason)
    THEN [Send(Cancel(a, {"schema"}), "schema", None) EXCEPT !.refs.failed = FALSE] ELSE a
RequestPane(a, pane) ==
    IF Readable(a.refs.reason) THEN Send(Cancel(a, {pane}), pane, None) ELSE a
RequestDetailAlways(a, ref, full) ==                                      \* a mutant
    LET b == Cancel(a, {"detail"})
    IN Send([b EXCEPT !.ui = SelectRow(@, ref.ordinal)], "detail", Detail(ref, full))
RequestDetail(a, ref, full) ==
    LET b == Cancel(a, {"detail"})
        selected == [b EXCEPT !.ui = SelectRow(@, ref.ordinal)]
    IN IF Readable(a.refs.reason) THEN Send(selected, "detail", Detail(ref, full)) ELSE selected
Rebuild(a) == Send(Cancel(a, Reads), "rebuild", None)
SetProfile(a) ==
    IF a.refs.reason # "none" THEN a ELSE Send(Cancel(a, {"profile"}), "profile", None)

(***************************************************************************)
(* onMessage: what App does with a message that the client accepts.  An    *)
(* answer removes its request.                                             *)
(***************************************************************************)
Answered(a, r) == [a EXCEPT !.client = @ \ {r}]

OnOpened(a, gen, complete, r) ==
    LET changed == a.refs.accepted # gen
        b == [a EXCEPT !.session = gen,
                       !.client = IF a.session # gen THEN {} ELSE @ \ {r},
                       !.refs.accepted = gen,
                       !.refs.reason = IF changed THEN "none" ELSE @,
                       !.refs.failed = ~changed /\ @,
                       !.ui = Opened(@, gen, complete, r)]
    IN IF changed THEN AskRows(b) ELSE b

\* RowQuery may ask for rows again: after an empty page of a restore, when the index
\* is complete, or for a changed profile.
AsksAgain(a) == {a, RequestRows(a)}
OnRows(a, page, columns, r) ==
    LET taken == {[Answered(a, r) EXCEPT !.ui = Rows(@, page, columns, r)]}
    IN IF page = << >> THEN UNION {AsksAgain(b) : b \in taken} ELSE taken
OnDetail(a, ref, full, r) == [Answered(a, r) EXCEPT !.ui = Detailed(@, ref, full, r)]
OnSchema(a, complete, r) ==
    [Answered(a, r) EXCEPT !.refs.failed = FALSE,
                           !.ui = Filled(@, "schema", IF complete THEN "complete" ELSE "partial", r)]
OnPane(a, pane, r) == [Answered(a, r) EXCEPT !.ui = Filled(@, pane, TRUE, r)]
OnProgress(a, complete) == [a EXCEPT !.ui = Progressed(@, a.session, complete)]
OnProfile(a, columns, r) ==
    LET b == [Answered(a, r) EXCEPT !.ui = ProfileChanged(@, columns, r)]
    IN IF a.refs.reason = "none" THEN AsksAgain(b) ELSE {b}
OnInvalidated(a, observed) ==
    LET reason == NextReason(a.refs.reason, observed)
        b == [a EXCEPT !.refs.reason = reason, !.ui = Invalidated(@, observed)]
    IN Cancel(b, IF reason = "append" THEN {"profile"} ELSE Reads \cup {"profile"})
OnError(a, r) ==
    [Answered(a, r) EXCEPT !.refs.failed = @ \/ r.kind = "schema", !.ui = Failed(@, r)]

(***************************************************************************)
(* The effects of App, on a, for a rendering s that changed what new says: *)
(* an effect runs if a field or the request it depends on is among it.     *)
(***************************************************************************)
Touches(new, fields, kind) == new.fields \cap fields # {} \/ kind \in new.pending

PaneEffect(a, s, new, pane) ==
    LET wanted == /\ s.tab = pane /\ s.gen # 0 /\ Readable(s.reason)
                  /\ ~s[pane] /\ s.pending[pane] = None
    IN IF pane \notin Panes \/ ~Touches(new, {"tab", "reason", "summary", pane}, pane) THEN a
       ELSE IF pane = "insights" /\ s.tab # pane /\ s.pending[pane] # None THEN Cancel(a, {pane})
       ELSE IF wanted THEN RequestPane(a, pane) ELSE a

\* The schema is asked for once per generation and stage of its index.
SchemaEffect(a, s) ==
    LET stage == IF s.complete THEN "complete" ELSE IF s.columns THEN "rows" ELSE "open"
        key == <<s.gen, stage>>
    IN IF \/ s.gen = 0 \/ ~Readable(s.reason) \/ s.pending["schema"] # None
          \/ a.refs.schemaKey = key THEN a
       ELSE RequestSchema([a EXCEPT !.refs.schemaKey = key])

RebuildDetailEffect(a, s, new) ==
    LET ref == Ref(s.gen, s.keepDetail.ordinal)
        key == <<"rebuild", ref>>
    IN IF \/ ~Touches(new, {"stale", "reason", "keepDetail", "rows", "summary"}, "detail")
          \/ ~s.stale \/ s.keepDetail = None \/ s.pending["detail"] # None \/ s.gen = 0
          \/ ~Readable(s.reason) \/ ~Readable(a.refs.reason) THEN a
       ELSE IF ~Shows(s, s.keepDetail) \/ a.refs.autoKey = key THEN a
       ELSE RequestDetail([a EXCEPT !.refs.autoKey = key], ref, TRUE)

\* The preview of a selected oversized record is completed without being asked.
FullDetailEffect(a, s, new) ==
    LET d == s.detail
        key == <<"full", Ref(d.gen, d.ordinal)>>
    IN IF ~Touches(new, {"detail", "stale", "reason", "selected", "drawer"}, "detail") THEN a
       ELSE IF d = None \/ (d # None /\ s.selected # d.ordinal) THEN [a EXCEPT !.refs.autoKey = None]
       ELSE IF \/ s.stale \/ ~Readable(s.reason) \/ ~Readable(a.refs.reason)
               \/ s.pending["detail"] # None \/ d.full \/ d.ordinal \notin Heavy
               \/ a.refs.autoKey = key THEN a
       ELSE RequestDetail([a EXCEPT !.refs.autoKey = key], Ref(d.gen, d.ordinal), TRUE)

(***************************************************************************)
(* Rendering.                                                              *)
(***************************************************************************)
\* A page starts with READY, in the session its HTML was made for and on the stored tab.
Blank(tab) == [NoView EXCEPT !.tab = tab]
Fresh(tab) == Send([ui |-> Blank(tab), refs |-> [NoRefs EXCEPT !.tab = tab],
                    client |-> {}, session |-> 1], "ready", None)

Init ==
    /\ app = Fresh("table")
    /\ seen = Blank("table") /\ due = None
    /\ host = [gen |-> 1, indexed |-> 1 \notin Slow, told |-> "none", shown |-> TRUE]
    /\ used = [acts |-> 0, mishaps |-> 0, failed |-> FALSE]

\* What the effects and the user read of a rendering, and what is new for them in it.
Rendered(u) == [u EXCEPT !.schema = "none", !.keep = None, !.fresh = {},
                         !.columns = @ \/ u.complete,
                         !.pending["rows"] = None, !.pending["ready"] = None]
Changed(u, s) ==
    [fields |-> u.fresh \cup {f \in {"drawer"} : DrawerOpen(u) # DrawerOpen(s)}
                \cup {f \in {"tab", "reason", "problems", "insights", "stale", "keepDetail",
                             "rows", "detail", "selected"} : u[f] # s[f]},
     pending |-> {k \in Panes \cup {"detail"} : u.pending[k] # s.pending[k]}]

Render ==
    /\ due = None
    /\ Rendered(app.ui) # seen \/ app.ui.fresh # {}
    /\ seen' = Rendered(app.ui) /\ due' = Changed(app.ui, seen)
    /\ app' = [app EXCEPT !.ui.fresh = {}]
    /\ UNCHANGED <<host, used>>

\* Each effect sees what those before it did to the refs and to the client.
Effects ==
    /\ due # None
    /\ \E a \in {PaneEffect([app EXCEPT !.refs.detail = seen.detail,
                                       !.refs.tab = seen.tab], seen, due, "problems")} :
       \E b \in {SchemaEffect(a, seen)} :
       \E c \in {PaneEffect(b, seen, due, "insights")} :
       \E d \in {RebuildDetailEffect(c, seen, due)} : app' = FullDetailEffect(d, seen, due)
    /\ due' = None
    /\ UNCHANGED <<seen, host, used>>

(***************************************************************************)
(* The user, who acts on what is rendered.                                 *)
(***************************************************************************)
Room ==
    \/ used.acts + used.mishaps < MaxEvents
    \/ app.ui.keepDetail # None /\ used.acts + used.mishaps < MaxEvents + MaxKept
ActsLeft == used.acts < MaxActs /\ Room /\ used' = [used EXCEPT !.acts = @ + 1]
Acts(a) ==
    /\ host.shown /\ ActsLeft
    /\ app' = a
    /\ UNCHANGED <<seen, due, host>>

ClickRow == \E i \in DOMAIN seen.rows :
    Acts(RequestDetail(app, Ref(seen.gen, seen.rows[i]), FALSE))
ClickFull ==
    /\ seen.detail # None /\ ~seen.stale /\ Readable(seen.reason) /\ app.refs.detail # None
    /\ LET ref == Ref(app.refs.detail.gen, app.refs.detail.ordinal)
       IN Acts(RequestDetail([app EXCEPT !.refs.autoKey = <<"full", ref>>], ref, TRUE))
ClickClose ==
    /\ DrawerOpen(seen)
    /\ Acts([Cancel(app, {"detail"}) EXCEPT !.ui = CloseDetail(@)])
ClickTab == \E tab \in Panes \cup {"table"} :
    tab # seen.tab /\ Acts([app EXCEPT !.ui.tab = tab])
ClickPage ==
    /\ seen.rows # << >> /\ Readable(seen.reason)
    /\ Acts(RequestRows(app))
\* Rebuilds sent before the first is rendered are bounded by Ids, and all of them by
\* the generations there are to open.
ClickRebuild ==
    /\ seen.gen # 0 /\ seen.pending["rebuild"] = None /\ host.gen + 1 \in Generations
    /\ Ids \ Taken(app, "rebuild") # {}
    /\ Acts(Rebuild(app))
ChooseProfile ==
    /\ seen.gen # 0 /\ seen.reason = "none" /\ seen.pending["profile"] = None
    /\ Acts(SetProfile(app))
ClickRetryFields == app.refs.failed /\ Acts(RequestSchema(app))
ClickRefresh ==
    /\ seen.tab = "insights" /\ Readable(seen.reason) /\ seen.pending["insights"] = None
    /\ Acts(RequestPane(app, "insights"))

\* A hidden panel loses its page; shown again it starts from the same HTML.
Hide ==
    /\ MayHide /\ host.shown
    /\ host' = [host EXCEPT !.shown = FALSE]
    /\ app' = Fresh(app.refs.tab) /\ seen' = Blank(app.refs.tab) /\ due' = None
    /\ ActsLeft
Show ==
    /\ ~host.shown
    /\ host' = [host EXCEPT !.shown = TRUE]
    /\ UNCHANGED <<app, seen, due, used>>

(***************************************************************************)
(* The host.  Its messages reach a panel that is shown, and the client     *)
(* takes those of its session, and OPENED of its session or a new one.     *)
(***************************************************************************)
Reaches == host.shown /\ app.session = host.gen
Reaction(as) == /\ app' \in as
                /\ UNCHANGED <<seen, due>>
Answer(as) == Reaction(as) /\ UNCHANGED <<host, used>>
Mishap == used.mishaps < MaxMishaps /\ Room /\ used' = [used EXCEPT !.mishaps = @ + 1]

AnswerReady == \E r \in Requests(app, "ready") :
    host.shown /\ Answer({OnOpened(app, host.gen, host.indexed, r)})

\* A new generation is opened; r is None when another caller rebuilt it.
OpenNew(r) ==
    /\ host.gen + 1 \in Generations
    /\ \E complete \in {TRUE, host.gen + 1 \notin Slow} :
         /\ host' = [host EXCEPT !.gen = @ + 1, !.indexed = complete, !.told = "none"]
         /\ Reaction({IF host.shown THEN OnOpened(app, host.gen + 1, complete, r) ELSE app})
AnswerRebuild == \E r \in Requests(app, "rebuild") :
    Reaches /\ OpenNew(r) /\ UNCHANGED used
OpenedElsewhere == OpenNew(None) /\ Mishap
OpenedAgain ==
    /\ Reaches /\ Mishap
    /\ Reaction({OnOpened(app, host.gen, host.indexed, None)})
    /\ UNCHANGED host

IndexingEnds ==
    /\ ~host.indexed
    /\ host' = [host EXCEPT !.indexed = TRUE]
    /\ Reaction(IF Reaches THEN AsksAgain(OnProgress(app, TRUE)) ELSE {app})
    /\ UNCHANGED used

\* The generic profile has no columns of its own, nor has a record that is no object.
AnswerRows == \E r \in Requests(app, "rows"), page \in Pages(host.gen), columns \in Columns :
    Reaches /\ Answer(OnRows(app, page, columns, r))
\* A detail read for a record of an older generation is refused.
AnswerDetail == \E r \in Requests(app, "detail") :
    /\ Reaches
    /\ Answer({IF r.arg.gen # host.gen THEN OnError(app, r)
               ELSE OnDetail(app, Ref(r.arg.gen, r.arg.ordinal),
                             r.arg.full \/ r.arg.ordinal \notin Heavy, r)})
AnswerSchema == \E r \in Requests(app, "schema") :
    Reaches /\ Answer({OnSchema(app, host.indexed, r)})
AnswerPane == \E pane \in Panes : \E r \in Requests(app, pane) :
    Reaches /\ Answer({OnPane(app, pane, r)})
\* PROFILE_CHANGED is followed by the summary, for the caller and for other panels.
AnswerProfile == \E r \in Requests(app, "profile"), columns \in Columns :
    Reaches /\ Answer({OnProgress(a, host.indexed) : a \in OnProfile(app, columns, r)})
ProfileElsewhere ==
    /\ Reaches /\ Mishap
    /\ \E columns \in Columns :
         Reaction({OnProgress(a, host.indexed) : a \in OnProfile(app, columns, None)})
    /\ UNCHANGED host
SourceChanges == \E reason \in Reasons \ {"none"} :
    /\ Mishap
    /\ host' = [host EXCEPT !.told = IF Reaches /\ app.ui.gen = host.gen
                                       THEN NextReason(@, reason) ELSE @]
    /\ Reaction({IF Reaches THEN OnInvalidated(app, reason) ELSE app})
Fails == \E r \in app.client :
    /\ Reaches /\ r.kind # "ready"
    /\ used.mishaps < MaxMishaps /\ Room
    /\ used' = [used EXCEPT !.mishaps = @ + 1, !.failed = TRUE]
    /\ Reaction({OnError(app, r)})
    /\ UNCHANGED host

User == ClickRow \/ ClickFull \/ ClickClose \/ ClickTab \/ ClickPage \/ ClickRebuild
        \/ ChooseProfile \/ ClickRetryFields \/ ClickRefresh \/ Hide
Host == \/ AnswerReady \/ AnswerRebuild \/ OpenedElsewhere \/ OpenedAgain \/ IndexingEnds
        \/ AnswerRows \/ AnswerDetail \/ AnswerSchema \/ AnswerPane \/ AnswerProfile
        \/ ProfileElsewhere \/ SourceChanges \/ Fails
Next == Render \/ Effects \/ Show \/ User \/ Host

\* React renders and runs effects, and the host answers what it is asked.
Fairness ==
    /\ WF_vars(Render) /\ WF_vars(Effects) /\ WF_vars(Show)
    /\ WF_vars(AnswerReady) /\ WF_vars(AnswerRebuild) /\ WF_vars(IndexingEnds)
    /\ WF_vars(AnswerRows) /\ WF_vars(AnswerDetail) /\ WF_vars(AnswerSchema)
    /\ WF_vars(AnswerPane) /\ WF_vars(AnswerProfile)
Spec == Init /\ [][Next]_vars /\ Fairness

(***************************************************************************)
(* Properties                                                              *)
(***************************************************************************)
TypeOK ==
    /\ app.session \in Generations
    /\ app.ui.gen \in {0, app.session}
    /\ app.ui.reason \in Reasons /\ app.refs.reason \in Reasons
    /\ \A r \in app.client : r.id \in Ids /\ r.kind \in Kinds
    /\ app.ui.keep \in Refs \cup {None} /\ app.ui.keepDetail \in {app.ui.keep, None}
    /\ used.acts \in 0..MaxActs /\ used.mishaps \in 0..MaxMishaps

\* What the reducer shows as pending is a request that the client still waits for:
\* cancelling, completing and opening a generation end both, in two different places.
SpinnersAreHonest == \A k \in Kinds : app.ui.pending[k] # None =>
    \E r \in app.client : r.id = app.ui.pending[k] /\ r.kind = k

\* The drawer shows the selected record, over pages, rebuilds and failures.
DrawerIsTheSelection ==
    app.ui.detail # None => app.ui.selected = app.ui.detail.ordinal

\* Once the source is known to be destroyed or uncertain, no callback and no effect,
\* however old its rendering, sends another read before a generation is opened.
BarrierHolds ==
    [][~Readable(app.refs.reason) /\ ~Readable(app'.refs.reason) =>
        \A r \in app'.client \ app.client : r.kind \notin Reads]_vars

\* A pane that is open on a readable view gets its content, whatever cancelled its
\* request in between, if no request fails.
PanesAreFilled == \A pane \in Panes :
    (/\ app.ui.gen # 0 /\ app.ui.tab = pane /\ Readable(app.ui.reason) /\ ~used.failed)
        ~> (app.ui[pane] \/ app.ui.tab # pane \/ ~Readable(app.ui.reason) \/ used.failed)


\* A panel that was told that the source of its generation is destroyed does not show
\* that generation as readable (state.ts: an opened message that repeats must not hide
\* destructive invalidation).
InvalidationIsRemembered ==
    (host.shown /\ app.ui.gen = host.gen /\ host.told = "lost") => ~Readable(app.ui.reason)

\* A detail of an older generation is labelled as such.
OldDetailIsLabelled ==
    (app.ui.detail # None /\ app.ui.detail.gen # app.ui.gen) =>
        app.ui.stale \/ ~Readable(app.ui.reason)

\* At rest a readable view has the schema of its complete index or offers to retry it.
SchemaIsOffered ==
    []<>(\/ app.ui.schema = "complete" \/ app.refs.failed \/ app.ui.reason # "none" \/ ~host.shown)
=============================================================================
