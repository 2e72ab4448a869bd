--------------------------- MODULE RowQueryProofs ---------------------------
(***************************************************************************)
(* Proofs about the rows of one panel, for any files, pages, bounds and    *)
(* answers: the user's input wins over the view that a rebuild restores;   *)
(* the pages follow one another; a view that has been restored shows       *)
(* nothing only if there is nothing to be found; the fields keep their     *)
(* types.  The last three rest on what one read answers, which is proved   *)
(* first of the operators of RecordPages.                                  *)
(***************************************************************************)
EXTENDS RowQuery, SequenceTheorems, WellFoundedInduction, FiniteSetTheorems, TLAPS

-----------------------------------------------------------------------------
(* The user wins: the inductive invariant *)

Fields == {"query", "sort", "descending", "offset", "history", "page", "box",
           "viewport", "pending", "rebuild", "restore"}
Shaped ==
    /\ DOMAIN ctl = Fields
    /\ DOMAIN ui = {"gen", "complete", "follow", "reason", "page"}
    /\ DOMAIN wire = {"rows", "rebuild", "order"}
    /\ DOMAIN ghost = {"restored", "touched", "mishap", "reset", "retries", "lost"}
    /\ ghost.retries \in Nat

\* A restore is of the query in the box, and has not retried unless its phase
\* says so; one that the user has interfered with is over.
IsOfQuery(c) ==
    c.restore # None => /\ DOMAIN c.restore = {"query", "phase", "requested", "first", "text"}
                        /\ c.restore.query = c.query
IsUntouched(c, touched, retries) ==
    /\ touched => c.restore = None
    /\ IsOfQuery(c)
    /\ c.restore # None /\ c.restore.phase # "retrying" => retries = 0

IInv == Shaped /\ IsUntouched(ctl, ghost.touched, ghost.retries)

-----------------------------------------------------------------------------
(* The fields that the helpers leave alone *)

\* d has the fields of c, and its query.
SameQuery(c, d) == DOMAIN d = Fields /\ d.query = c.query
SameRestore(c, d) == SameQuery(c, d) /\ d.restore = c.restore

\* How a request changes the restore: not at all, to none, or to its next phase.
LEMMA RequestRowsRestores ==
    ASSUME NEW c, NEW w, NEW u, NEW query, NEW opts, NEW how, NEW asker,
           DOMAIN c = Fields, DOMAIN w = {"rows", "rebuild", "order"},
           NEW next, next = RequestRows(c, w, u, query, opts, how, asker)
    PROVE  /\ SameQuery(c, next.ctl)
           /\ DOMAIN next.wire = DOMAIN w
           /\ \/ ~Readable(u.reason) /\ ~how.always /\ next = [ctl |-> c, wire |-> w]
              \/ /\ next.wire.rows.by = asker.by
                 /\ next.ctl.restore =
                      IF how.supersedes \/ c.restore = None THEN None
                      ELSE IF how.restores THEN [c.restore EXCEPT !.phase = how.phase]
                      ELSE c.restore
<1>1. DOMAIN ReleaseSubmission(c) = Fields /\ ReleaseSubmission(c).query = c.query
  BY DEF ReleaseSubmission, Fields
<1>2. CASE ~Readable(u.reason) /\ ~how.always
  BY <1>2 DEF RequestRows, SameQuery
<1>3. CASE Readable(u.reason) \/ how.always
  <2> DEFINE kept == IF how.supersedes THEN None ELSE c.restore
  <2>1. next.ctl.restore = IF how.restores /\ kept # None THEN [kept EXCEPT !.phase = how.phase]
                           ELSE kept
    BY <1>1, <1>3 DEF RequestRows, Fields
  <2>2. SameQuery(c, next.ctl)
    BY <1>1, <1>3 DEF RequestRows, SameQuery, Fields
  <2>3. DOMAIN next.wire = DOMAIN w /\ next.wire.rows.by = asker.by
    BY <1>3 DEF RequestRows
  <2> QED
    BY <2>1, <2>2, <2>3
<1> QED
  BY <1>2, <1>3

LEMMA HelpersKeepRestore ==
    ASSUME NEW c, DOMAIN c = Fields
    PROVE  /\ SameRestore(c, ReleaseSubmission(c))
           /\ \A offset, history, page :
                SameRestore(c, SetSortPosition(c, [offset |-> offset, history |-> history, page |-> page]))
           /\ SameRestore(c, ResetPaging(c))
           /\ \A text : SameRestore(c, SetPageInput(c, text))
           /\ SameQuery(c, AbandonRestore(c)) /\ AbandonRestore(c).restore = None
<1>1. /\ SameRestore(c, ReleaseSubmission(c))
      /\ \A text : SameRestore(c, SetPageInput(c, text))
      /\ SameQuery(c, AbandonRestore(c)) /\ AbandonRestore(c).restore = None
  BY DEF ReleaseSubmission, SetPageInput, AbandonRestore, SameRestore, SameQuery, Fields
<1>2. ASSUME NEW offset, NEW history, NEW page
      PROVE  SameRestore(c, SetSortPosition(c, [offset |-> offset, history |-> history, page |-> page]))
  BY DEF SetSortPosition, SameRestore, SameQuery, Fields
<1> QED
  BY <1>1, <1>2 DEF ResetPaging

\* A request keeps what IsUntouched says, if a retry that it makes is counted, and
\* what the user does supersedes the restore.
LEMMA RequestRowsKeeps ==
    ASSUME NEW c, NEW w, NEW u, NEW query, NEW opts, NEW how, NEW asker,
           DOMAIN c = Fields, DOMAIN w = {"rows", "rebuild", "order"},
           NEW next, next = RequestRows(c, w, u, query, opts, how, asker),
           NEW touched, NEW retries, IsUntouched(c, FALSE, retries),
           touched => \/ c.restore = None
                      \/ how.supersedes /\ (Readable(u.reason) \/ how.always),
           \/ how.supersedes \/ c.restore = None
           \/ how.restores /\ (c.restore # None /\ how.phase # "retrying"
                                 => c.restore.phase # "retrying")
    PROVE  /\ DOMAIN next.ctl = Fields /\ DOMAIN next.wire = DOMAIN w
           /\ IsUntouched(next.ctl, touched, retries)
<1>1. CASE next = [ctl |-> c, wire |-> w] /\ ~Readable(u.reason) /\ ~how.always
  BY <1>1 DEF IsUntouched
<1>2. CASE /\ SameQuery(c, next.ctl) /\ DOMAIN next.wire = DOMAIN w
           /\ next.ctl.restore = IF how.supersedes \/ c.restore = None THEN None
                                 ELSE IF how.restores THEN [c.restore EXCEPT !.phase = how.phase]
                                 ELSE c.restore
  BY <1>2 DEF IsUntouched, IsOfQuery, SameQuery
<1> QED
  BY <1>1, <1>2, RequestRowsRestores

\* After an empty page: the restore is over, waits, or has retried.
LEMMA FinishKeeps ==
    ASSUME NEW c, NEW w, NEW u, NEW total, NEW requested, NEW matched, NEW cut,
           DOMAIN c = Fields, DOMAIN w = {"rows", "rebuild", "order"},
           NEW next, next = FinishEmptyRestore(c, w, u, total, requested, matched, cut),
           IsOfQuery(c), c.restore # None
    PROVE  /\ DOMAIN next.ctl = Fields /\ DOMAIN next.wire = DOMAIN w
           /\ next.ctl.query = c.query /\ IsOfQuery(next.ctl)
           /\ \/ /\ next.wire = w
                 /\ next.ctl.restore # None => c.restore.phase # "retrying"
              \/ /\ c.restore.phase # "retrying" /\ u.reason = "none"
                 /\ next.ctl.restore # None => next.ctl.restore.phase = "retrying"
<1> DEFINE decision == PlanEmptyRestore(c, u, total, requested, matched, cut)
<1>1. CASE decision.kind = "stop"
  <2>1. next = [ctl |-> AbandonRestore(c), wire |-> w]
    BY <1>1 DEF FinishEmptyRestore
  <2> QED
    BY <2>1, HelpersKeepRestore DEF IsOfQuery, SameQuery
<1>2. CASE decision.kind = "wait-index"
  <2>1. next = [ctl |-> [c EXCEPT !.restore.phase = "waiting-index",
                                  !.restore.requested = decision.requested], wire |-> w]
    BY <1>2 DEF FinishEmptyRestore
  <2>2. c.restore.phase # "retrying"
    BY <1>2 DEF PlanEmptyRestore
  <2> DEFINE waits == [[c.restore EXCEPT !.phase = "waiting-index"]
                         EXCEPT !.requested = decision.requested]
  <2>3. next = [ctl |-> [c EXCEPT !.restore = waits], wire |-> w]
    BY <2>1, Zenon
  <2>4. /\ c.restore.query = c.query
        /\ DOMAIN c.restore = {"query", "phase", "requested", "first", "text"}
    BY DEF IsOfQuery
  <2>5. DOMAIN waits = DOMAIN c.restore /\ waits.query = c.restore.query
    BY <2>4
  <2> HIDE DEF waits
  <2>6. /\ DOMAIN next.ctl = Fields /\ next.ctl.query = c.query
        /\ next.wire = w /\ next.ctl.restore = waits
    BY <2>3 DEF Fields
  <2> QED
    BY <2>2, <2>4, <2>5, <2>6 DEF IsOfQuery
<1>3. CASE decision.kind = "retry"
  <2>1. next = RequestRows(c, w, u, c.query, decision.options, Restoring("retrying"),
                           Asker("retry", None))
    BY <1>3 DEF FinishEmptyRestore
  <2>2. c.restore.phase # "retrying" /\ u.reason = "none"
    BY <1>3 DEF PlanEmptyRestore
  <2>3. /\ Restoring("retrying").restores /\ ~Restoring("retrying").supersedes
        /\ Restoring("retrying").phase = "retrying" /\ Readable(u.reason)
    BY <2>2 DEF Restoring, Plain, Readable
  <2>4. /\ SameQuery(c, next.ctl) /\ DOMAIN next.wire = DOMAIN w
        /\ next.ctl.restore = [c.restore EXCEPT !.phase = "retrying"]
    BY <2>1, <2>3, RequestRowsRestores
  <2> QED
    BY <2>2, <2>4 DEF IsOfQuery, SameQuery
<1>4. decision.kind \in {"stop", "wait-index", "retry"}
  BY DEF PlanEmptyRestore
<1> QED
  BY <1>1, <1>2, <1>3, <1>4

\* The same of the step that makes the request.
LEMMA AsksKeeps ==
    ASSUME NEW c, NEW w, NEW u, NEW query, NEW opts, NEW how, NEW asker,
           Asks(c, w, u, query, opts, how, asker),
           DOMAIN c = Fields, DOMAIN w = {"rows", "rebuild", "order"},
           DOMAIN u = {"gen", "complete", "follow", "reason", "page"},
           DOMAIN ghost' = DOMAIN ghost, ghost'.retries \in Nat, IInv,
           IsUntouched(c, FALSE, ghost'.retries),
           ghost'.touched => \/ c.restore = None
                             \/ how.supersedes /\ (Readable(u.reason) \/ how.always),
           \/ how.supersedes \/ c.restore = None
           \/ how.restores /\ (c.restore # None /\ how.phase # "retrying"
                                 => c.restore.phase # "retrying")
    PROVE  IInv'
<1> DEFINE next == RequestRows(c, w, u, query, opts, how, asker)
<1>1. ctl' = next.ctl /\ wire' = next.wire /\ ui' = u
  BY DEF Asks, Leads
<1>2. /\ DOMAIN next.ctl = Fields /\ DOMAIN next.wire = DOMAIN w
      /\ IsUntouched(next.ctl, ghost'.touched, ghost'.retries)
  BY RequestRowsKeeps
<1> QED
  BY <1>1, <1>2 DEF IInv, Shaped

\* A step that leads to c, or to c without its restore.
LEMMA LeadsKeeps ==
    ASSUME NEW c, NEW w, NEW u, Leads(c, w, u), ghost'.retries \in Nat,
           DOMAIN c = Fields, DOMAIN w = {"rows", "rebuild", "order"},
           DOMAIN u = {"gen", "complete", "follow", "reason", "page"},
           DOMAIN ghost' = DOMAIN ghost, IInv,
           IsUntouched(c, ghost'.touched, ghost'.retries)
    PROVE  IInv'
BY DEF Leads, IInv, Shaped

-----------------------------------------------------------------------------
(* What the user does *)

LEMMA PlainSupersedes ==
    /\ Plain.supersedes /\ ~Plain.restores
    /\ [Plain EXCEPT !.submits = TRUE].supersedes
    /\ \A phase : /\ Restoring(phase).restores /\ ~Restoring(phase).supersedes
                  /\ Restoring(phase).phase = phase
BY DEF Plain, Restoring

Touches == /\ DOMAIN ghost' = DOMAIN ghost
           /\ ghost'.touched = TRUE /\ ghost'.retries = ghost.retries

LEMMA ActsTouch == IInv /\ Acts => Touches
BY DEF IInv, Shaped, Acts, Touches

\* A request that the user makes takes the restore away.
LEMMA UserAsks ==
    ASSUME IInv, Touches, NEW c, NEW w, NEW u, NEW query, NEW opts, NEW how, NEW asker,
           Asks(c, w, u, query, opts, how, asker), how.supersedes, Readable(u.reason),
           DOMAIN c = Fields, DOMAIN w = {"rows", "rebuild", "order"},
           DOMAIN u = {"gen", "complete", "follow", "reason", "page"},
           c.query = ctl.query, c.restore \in {ctl.restore, None}
    PROVE  IInv'
<1>1. IsUntouched(c, FALSE, ghost'.retries)
  BY DEF IInv, Touches, IsUntouched, IsOfQuery
<1> QED
  BY <1>1, AsksKeeps DEF Touches, IInv, Shaped

\* What else the user does leaves none.
LEMMA UserLeads ==
    ASSUME IInv, Touches, NEW c, NEW w, NEW u, Leads(c, w, u),
           DOMAIN c = Fields, DOMAIN w = {"rows", "rebuild", "order"},
           DOMAIN u = {"gen", "complete", "follow", "reason", "page"},
           c.restore = None
    PROVE  IInv'
<1>1. IsUntouched(c, ghost'.touched, ghost'.retries)
  BY DEF IsUntouched, IsOfQuery
<1> QED
  BY <1>1, LeadsKeeps DEF Touches, IInv, Shaped

LEMMA EditQueryKeeps ==
    ASSUME IInv, NEW query, EditQuery(query) PROVE IInv' /\ Touches
<1> DEFINE renamed == [ctl EXCEPT !.query = query]
           edited == ReleaseSubmission(ResetPaging(renamed))
           stale == ctl.restore # None /\ ctl.restore.query # query
<1>1. Touches
  BY DEF IInv, Shaped, EditQuery, Touches
<1>2. /\ DOMAIN renamed = Fields /\ renamed.restore = ctl.restore
      /\ query # ctl.query
  BY DEF IInv, Shaped, EditQuery, Fields
<1>3. Leads(IF stale THEN AbandonRestore(edited) ELSE edited, wire, ui)
  BY DEF EditQuery
<1>4. SameRestore(renamed, edited)
  <2>1. SameRestore(renamed, ResetPaging(renamed))
    BY <1>2, HelpersKeepRestore
  <2>2. SameRestore(ResetPaging(renamed), edited)
    BY <2>1, HelpersKeepRestore DEF SameRestore, SameQuery
  <2> QED
    BY <2>1, <2>2 DEF SameRestore, SameQuery
<1>5. SameQuery(edited, AbandonRestore(edited)) /\ AbandonRestore(edited).restore = None
  BY <1>4, HelpersKeepRestore DEF SameRestore, SameQuery
<1>6. ctl.restore # None => stale
  BY <1>2 DEF IInv, IsUntouched, IsOfQuery
<1> HIDE DEF edited, renamed, stale
<1> DEFINE c == IF stale THEN AbandonRestore(edited) ELSE edited
<1>7. DOMAIN c = Fields /\ c.restore = None
  BY <1>2, <1>4, <1>5, <1>6 DEF SameRestore, SameQuery
<1> HIDE DEF c
<1>8. Leads(c, wire, ui)
  BY <1>3 DEF c
<1> QED
  BY <1>1, <1>7, <1>8, UserLeads DEF IInv, Shaped

LEMMA SubmitQueryKeeps == ASSUME IInv, SubmitQuery PROVE IInv' /\ Touches
<1>1. Touches
  BY ActsTouch DEF SubmitQuery
<1> QED
  BY <1>1, UserAsks, PlainSupersedes DEF SubmitQuery, IInv, Shaped

LEMMA SetFollowKeeps == ASSUME IInv, NEW enabled, SetFollow(enabled) PROVE IInv' /\ Touches
<1> DEFINE left == AbandonRestore(ctl)
           seen == [ui EXCEPT !.follow = enabled]
<1>1. Touches
  BY ActsTouch DEF SetFollow
<1>2. /\ DOMAIN seen = {"gen", "complete", "follow", "reason", "page"} /\ Readable(seen.reason)
      /\ SameQuery(ctl, left) /\ left.restore = None
  BY HelpersKeepRestore DEF IInv, Shaped, SetFollow, Readable
<1>3. SameRestore(left, ResetPaging(left))
  BY <1>2, HelpersKeepRestore DEF SameQuery
<1>4. \/ Leads(left, wire, seen)
      \/ Asks(ResetPaging(left), wire, seen, ctl.query, At(0), Plain, Nobody)
      \/ Asks(left, wire, seen, ctl.query, ToTail, Plain, Nobody)
  BY DEF SetFollow
<1> HIDE DEF left, seen
<1>5. CASE Leads(left, wire, seen)
  BY <1>1, <1>2, <1>5, UserLeads DEF IInv, Shaped, SameQuery
<1>6. CASE Asks(ResetPaging(left), wire, seen, ctl.query, At(0), Plain, Nobody)
  BY <1>1, <1>2, <1>3, <1>6, UserAsks, PlainSupersedes DEF IInv, Shaped, SameQuery, SameRestore
<1>7. CASE Asks(left, wire, seen, ctl.query, ToTail, Plain, Nobody)
  BY <1>1, <1>2, <1>7, UserAsks, PlainSupersedes DEF IInv, Shaped, SameQuery
<1> QED
  BY <1>1, <1>4, <1>5, <1>6, <1>7

\* A position that is moved and named, as Next and Previous do in a sorted view.
LEMMA MovedKeeps ==
    ASSUME IInv, Touches, NEW position, NEW text, NEW query, NEW opts, NEW asker, Readable(ui.reason),
           Asks(SetPageInput(SetSortPosition(ctl, position), text), wire, ui, query, opts, Plain, asker)
    PROVE  IInv'
<1> DEFINE c == SetPageInput(SetSortPosition(ctl, position), text)
<1>1. DOMAIN c = Fields /\ c.query = ctl.query /\ c.restore = ctl.restore
  BY DEF SetSortPosition, SetPageInput, IInv, Shaped, Fields
<1> QED
  BY <1>1, UserAsks, PlainSupersedes DEF IInv, Shaped

LEMMA PagingKeeps == ASSUME IInv, NextPage \/ PreviousPage PROVE IInv' /\ Touches
<1>1. Touches /\ Readable(ui.reason)
  BY ActsTouch DEF NextPage, PreviousPage, CanPage
<1>2. \E position, text, opts, asker, c :
        /\ c = ctl \/ c = SetPageInput(SetSortPosition(ctl, position), text)
        /\ Asks(c, wire, ui, ctl.query, opts, Plain, asker)
  <2>1. CASE NextPage
    BY <2>1 DEF NextPage
  <2>2. CASE PreviousPage
    BY <2>2 DEF PreviousPage
  <2> QED
    BY <2>1, <2>2
<1>3. PICK position, text, opts, asker, c :
        /\ c = ctl \/ c = SetPageInput(SetSortPosition(ctl, position), text)
        /\ Asks(c, wire, ui, ctl.query, opts, Plain, asker)
  BY <1>2
<1>4. CASE c = ctl
  BY <1>1, <1>3, <1>4, UserAsks, PlainSupersedes DEF IInv, Shaped
<1>5. CASE c = SetPageInput(SetSortPosition(ctl, position), text)
  BY <1>1, <1>3, <1>5, MovedKeeps
<1> QED
  BY <1>1, <1>3, <1>4, <1>5

LEMMA EditPageInputKeeps == ASSUME IInv, NEW text, EditPageInput(text) PROVE IInv' /\ Touches
<1> DEFINE c == [AbandonRestore(ctl) EXCEPT
                   !.box = [text |-> text, dirty |-> TRUE, sent |-> FALSE],
                   !.pending = IF ctl.box.sent THEN None ELSE @,
                   !.rebuild = None]
<1>1. Touches
  BY ActsTouch DEF EditPageInput
<1>2. DOMAIN c = Fields /\ c.restore = None
  BY HelpersKeepRestore DEF IInv, Shaped, SameQuery, Fields
<1>3. Leads(c, wire, ui)
  BY DEF EditPageInput
<1> HIDE DEF c
<1> QED
  BY <1>1, <1>2, <1>3, UserLeads DEF IInv, Shaped

LEMMA SubmitPageInputKeeps == ASSUME IInv, SubmitPageInput PROVE IInv' /\ Touches
<1> DEFINE submission == [Plain EXCEPT !.submits = TRUE]
<1>1. Touches /\ Readable(ui.reason)
  BY ActsTouch DEF SubmitPageInput
<1>2. \E c, opts, offset, text :
        /\ c = ctl \/ c = SetSortPosition(ctl, [offset |-> offset, history |-> << >>, page |-> text])
        /\ Asks(c, wire, ui, ctl.query, opts, submission, Nobody)
  BY DEF SubmitPageInput
<1>3. PICK c, opts, offset, text :
        /\ c = ctl \/ c = SetSortPosition(ctl, [offset |-> offset, history |-> << >>, page |-> text])
        /\ Asks(c, wire, ui, ctl.query, opts, submission, Nobody)
  BY <1>2
<1>4. DOMAIN c = Fields /\ c.query = ctl.query /\ c.restore = ctl.restore
  BY <1>3, HelpersKeepRestore DEF IInv, Shaped, SameRestore, SameQuery
<1>5. submission.supersedes
  BY PlainSupersedes
<1> HIDE DEF submission
<1> QED
  BY <1>1, <1>3, <1>4, <1>5, UserAsks DEF IInv, Shaped

LEMMA SetProfileKeeps == ASSUME IInv, SetProfile PROVE IInv' /\ Touches
<1>1. Touches
  BY ActsTouch DEF SetProfile
<1> QED
  BY <1>1, UserLeads, HelpersKeepRestore DEF SetProfile, IInv, Shaped, SameQuery

LEMMA RevealOrdinalKeeps == ASSUME IInv, NEW ordinal, RevealOrdinal(ordinal) PROVE IInv' /\ Touches
<1>1. Touches
  BY ActsTouch DEF RevealOrdinal
<1>2. SameQuery(ctl, AbandonRestore(ctl)) /\ AbandonRestore(ctl).restore = None
  BY HelpersKeepRestore DEF IInv, Shaped
<1> QED
  BY <1>1, <1>2, UserAsks, PlainSupersedes DEF RevealOrdinal, IInv, Shaped, SameQuery

LEMMA RebuildKeeps == ASSUME IInv, Rebuild PROVE IInv' /\ Touches
<1> DEFINE released == ReleaseSubmission(AbandonRestore(ctl))
           c == [released EXCEPT !.pending = None, !.rebuild = CaptureRebuild]
           w == [wire EXCEPT !.rows = None, !.rebuild = TRUE]
<1>1. Touches
  BY DEF Rebuild, IInv, Shaped, Touches
<1>2. DOMAIN released = Fields /\ released.restore = None
  BY HelpersKeepRestore DEF IInv, Shaped, SameRestore, SameQuery
<1>3. DOMAIN c = Fields /\ c.restore = None
  <2> HIDE DEF released
  <2> QED
    BY <1>2 DEF Fields
<1>4. DOMAIN w = {"rows", "rebuild", "order"}
  BY DEF IInv, Shaped
<1>5. Leads(c, w, ui)
  BY DEF Rebuild
<1> HIDE DEF c, w
<1> QED
  BY <1>1, <1>3, <1>4, <1>5, UserLeads DEF IInv, Shaped

\* The order is only asked for: nothing changes before the host answers.
LEMMA RequestRowOrderKeeps ==
    ASSUME IInv, RequestRowOrder PROVE IInv' /\ ghost'.retries = ghost.retries
BY DEF RequestRowOrder, Leads, IInv, Shaped

LEMMA UsesKeep == ASSUME IInv, Uses PROVE IInv' /\ ghost'.retries = ghost.retries
BY EditQueryKeeps, SubmitQueryKeeps, SetFollowKeeps, PagingKeeps, EditPageInputKeeps,
   SubmitPageInputKeeps, SetProfileKeeps, RevealOrdinalKeeps, RebuildKeeps,
   RequestRowOrderKeeps
DEF Uses, Touches

-----------------------------------------------------------------------------
(* What arrives *)

\* What UserInputWins says of a step.
Counted == ghost'.retries > ghost.retries => ~ghost.touched /\ ghost.retries = 0

\* A retry is counted by a step that makes one.
Counts(n) == /\ DOMAIN ghost' = DOMAIN ghost /\ ghost'.touched = ghost.touched
             /\ ghost'.retries = ghost.retries + n

LEMMA RetriesCount ==
    ASSUME IInv, ghost' = Retries \/ \E lost \in BOOLEAN : ghost' = [Retries EXCEPT !.lost = lost]
    PROVE  Counts(IF wire'.rows # None /\ wire'.rows.by = "retry" /\ wire'.rows # wire.rows
                  THEN 1 ELSE 0)
BY DEF IInv, Shaped, Retries, Counts

LEMMA ReceivedKeeps == ASSUME IInv, NEW answer PROVE SameRestore(ctl, Received(answer))
<1> DEFINE pending == ctl.pending
           query == IF pending # None THEN pending.query ELSE ctl.query
           moved == answer.offset # Undefined /\ query = ctl.query /\ answer.offset # ctl.offset
           placed == IF moved THEN SetSortPosition(ctl, [offset |-> answer.offset, history |-> << >>,
                                                         page |-> answer.offset \div PageSize + 1])
                     ELSE ctl
           released == IF pending # None THEN ReleaseSubmission(placed) ELSE placed
           kept == IF ctl.viewport # None /\ ctl.viewport.query = query
                   THEN ctl.viewport.first ELSE Undefined
           seen == [released EXCEPT
                       !.viewport = [query |-> query,
                                     first |-> OneOf(Edge(answer.rows, "first"), kept)],
                       !.pending = None]
           text == IF ctl.sort = "none" THEN PageFromOrdinal(Edge(answer.rows, "first")) ELSE seen.page
<1>1. Received(answer) = IF answer.rows # << >> /\ query = ctl.query /\ ~seen.box.dirty
                         THEN SetPageInput(seen, text) ELSE seen
  BY DEF Received
<1>2. SameRestore(ctl, placed)
  BY HelpersKeepRestore DEF IInv, Shaped, SameRestore, SameQuery
<1> HIDE DEF placed
<1>3. SameRestore(ctl, released)
  BY <1>2, HelpersKeepRestore DEF SameRestore, SameQuery
<1> HIDE DEF released, query, kept
<1>4. SameRestore(ctl, seen)
  BY <1>3 DEF SameRestore, SameQuery, Fields
<1> HIDE DEF seen, text
<1> QED
  BY <1>1, <1>4, HelpersKeepRestore DEF SameRestore, SameQuery

LEMMA RowsArriveKeeps ==
    ASSUME IInv, NEW late, NEW known, RowsArrive(late, known) PROVE IInv' /\ Counted
<1>1. PICK answer : ReceiveRows(answer, wire.rows)
  BY DEF RowsArrive
<1>2. \E lost \in BOOLEAN : ghost' = [Retries EXCEPT !.lost = lost]
  <2>1. ghost' = [Retries EXCEPT !.lost = Retries.lost /\ wire.rows.query # ctl.query]
    BY DEF RowsArrive
  <2> QED
    BY <2>1
<1>3. Counts(IF wire'.rows # None /\ wire'.rows.by = "retry" /\ wire'.rows # wire.rows THEN 1 ELSE 0)
  BY <1>2, RetriesCount
<1> DEFINE received == Received(answer)
           shown == Shown(answer, wire.rows)
           answered == [wire EXCEPT !.rows = None]
<1>4. /\ SameRestore(ctl, received)
      /\ DOMAIN shown = {"gen", "complete", "follow", "reason", "page"}
      /\ DOMAIN answered = {"rows", "rebuild", "order"} /\ answered.rows = None
  BY ReceivedKeeps DEF IInv, Shaped, Shown
<1>5. /\ DOMAIN AbandonRestore(received) = Fields /\ AbandonRestore(received).restore = None
  BY <1>4, HelpersKeepRestore DEF SameRestore, SameQuery
<1>6. \/ Leads(received, answered, shown)
      \/ Leads(AbandonRestore(received), answered, shown)
      \/ /\ ctl.restore # None
         /\ \E total, requested, matched, cut :
              LET next == FinishEmptyRestore(received, answered, shown, total, requested, matched, cut)
              IN Leads(next.ctl, next.wire, shown)
  BY <1>1 DEF ReceiveRows
<1> HIDE DEF received, shown, answered
<1>7. ASSUME wire' = answered
      PROVE  Counts(0)
  BY <1>3, <1>4, <1>7
<1>8. CASE Leads(received, answered, shown)
  <2>1. Counts(0)
    BY <1>7, <1>8 DEF Leads
  <2>2. ghost'.retries = ghost.retries
    BY <2>1 DEF Counts, IInv, Shaped
  <2>3. IsUntouched(received, ghost'.touched, ghost'.retries)
    BY <1>4, <2>1, <2>2 DEF IInv, Counts, IsUntouched, IsOfQuery, SameRestore, SameQuery
  <2> QED
    BY <1>4, <1>8, <2>1, <2>2, <2>3, LeadsKeeps
    DEF SameRestore, SameQuery, Counts, Counted, IInv, Shaped
<1>9. CASE Leads(AbandonRestore(received), answered, shown)
  <2>1. Counts(0)
    BY <1>7, <1>9 DEF Leads
  <2>2. ghost'.retries = ghost.retries
    BY <2>1 DEF Counts, IInv, Shaped
  <2>3. IsUntouched(AbandonRestore(received), ghost'.touched, ghost'.retries)
    BY <1>5 DEF IsUntouched, IsOfQuery
  <2> QED
    BY <1>4, <1>5, <1>9, <2>1, <2>2, <2>3, LeadsKeeps DEF Counts, Counted, IInv, Shaped
<1>10. ASSUME ctl.restore # None, NEW total, NEW requested, NEW matched, NEW cut, NEW next,
              next = FinishEmptyRestore(received, answered, shown, total, requested, matched, cut),
              Leads(next.ctl, next.wire, shown)
       PROVE  IInv' /\ Counted
  <2>1. /\ ~ghost.touched /\ IsOfQuery(received) /\ received.restore # None
        /\ received.restore.phase # "retrying" => ghost.retries = 0
    BY <1>4, <1>10 DEF IInv, IsUntouched, IsOfQuery, SameRestore, SameQuery
  <2>2. DOMAIN received = Fields
    BY <1>4 DEF SameRestore, SameQuery
  <2>3. /\ DOMAIN next.ctl = Fields /\ DOMAIN next.wire = DOMAIN answered
        /\ next.ctl.query = received.query /\ IsOfQuery(next.ctl)
        /\ \/ /\ next.wire = answered
              /\ next.ctl.restore # None => received.restore.phase # "retrying"
           \/ /\ received.restore.phase # "retrying"
              /\ next.ctl.restore # None => next.ctl.restore.phase = "retrying"
    BY <1>4, <1>10, <2>1, <2>2, FinishKeeps
  <2>4. ghost'.retries \in Nat /\ ghost'.touched = ghost.touched /\ DOMAIN ghost' = DOMAIN ghost
    BY <1>3 DEF Counts, IInv, Shaped
  <2>5. \/ /\ ghost'.retries = ghost.retries
           /\ next.ctl.restore # None => ghost.retries = 0
        \/ /\ ghost.retries = 0
           /\ next.ctl.restore # None => next.ctl.restore.phase = "retrying"
    <3>1. CASE /\ next.wire = answered
               /\ next.ctl.restore # None => received.restore.phase # "retrying"
      BY <1>7, <1>10, <2>1, <3>1 DEF Leads, Counts, IInv, Shaped
    <3> QED
      BY <2>1, <2>3, <3>1
  <2>6. IsUntouched(next.ctl, ghost'.touched, ghost'.retries)
    BY <2>1, <2>3, <2>4, <2>5 DEF IsUntouched
  <2>7. Counted
    BY <2>1, <2>4, <2>5 DEF Counted, IInv, Shaped
  <2> QED
    BY <1>4, <1>10, <2>3, <2>4, <2>6, <2>7, LeadsKeeps
<1> QED
  BY <1>6, <1>8, <1>9, <1>10

\* What takes nothing from the user's input and nothing away from a restore but
\* the whole of it.
Mild == /\ DOMAIN ghost' = DOMAIN ghost /\ ghost'.touched = ghost.touched
        /\ ghost'.retries = ghost.retries

LEMMA MildLeads ==
    ASSUME IInv, Mild, NEW c, NEW w, NEW u, Leads(c, w, u),
           DOMAIN c = Fields, DOMAIN w = {"rows", "rebuild", "order"},
           DOMAIN u = {"gen", "complete", "follow", "reason", "page"},
           c.query = ctl.query, c.restore \in {ctl.restore, None}
    PROVE  IInv' /\ Counted
<1>1. IsUntouched(c, ghost'.touched, ghost'.retries)
  BY DEF IInv, Mild, IsUntouched, IsOfQuery
<1>2. Counted
  BY DEF Mild, Counted, IInv, Shaped
<1> QED
  BY <1>1, <1>2, LeadsKeeps DEF Mild, IInv, Shaped

LEMMA FailuresKeep == ASSUME IInv, RowsFail \/ RebuildFails \/ OrderFails PROVE IInv' /\ Counted
<1>1. Mild
  BY DEF RowsFail, RebuildFails, OrderFails, Mild, IInv, Shaped
<1>2. CASE RowsFail
  <2> DEFINE failed == IF ctl.pending # None /\ ctl.pending.restores THEN AbandonRestore(ctl) ELSE ctl
             released == ReleaseSubmission(failed)
  <2>1. DOMAIN failed = Fields /\ failed.query = ctl.query /\ failed.restore \in {ctl.restore, None}
    BY HelpersKeepRestore DEF IInv, Shaped, SameQuery
  <2> HIDE DEF failed
  <2>2. /\ DOMAIN released = Fields /\ released.query = ctl.query
        /\ released.restore \in {ctl.restore, None}
    BY <2>1, HelpersKeepRestore DEF SameRestore, SameQuery
  <2>3. Leads([released EXCEPT !.pending = None], [wire EXCEPT !.rows = None], ui)
    BY <1>2 DEF RowsFail, failed
  <2> HIDE DEF released
  <2> DEFINE c == [released EXCEPT !.pending = None]
             w == [wire EXCEPT !.rows = None]
  <2>4. /\ DOMAIN c = Fields /\ c.query = ctl.query /\ c.restore \in {ctl.restore, None}
        /\ DOMAIN w = {"rows", "rebuild", "order"}
    BY <2>2 DEF Fields, IInv, Shaped
  <2> HIDE DEF c, w
  <2>5. Leads(c, w, ui)
    BY <2>3 DEF c, w
  <2> QED
    BY <1>1, <2>4, <2>5, MildLeads DEF IInv, Shaped
<1>3. CASE RebuildFails
  <2> DEFINE c == [ctl EXCEPT !.rebuild = None]
             w == [wire EXCEPT !.rebuild = FALSE]
  <2>1. /\ DOMAIN c = Fields /\ c.query = ctl.query /\ c.restore = ctl.restore
        /\ DOMAIN w = {"rows", "rebuild", "order"} /\ Leads(c, w, ui)
    BY <1>3 DEF RebuildFails, Fields, IInv, Shaped
  <2> HIDE DEF c, w
  <2> QED
    BY <1>1, <2>1, MildLeads DEF IInv, Shaped
<1>4. CASE OrderFails
  <2> DEFINE w == [wire EXCEPT !.order = None]
  <2>1. DOMAIN w = {"rows", "rebuild", "order"} /\ Leads(ctl, w, ui)
    BY <1>4 DEF OrderFails, IInv, Shaped
  <2> HIDE DEF w
  <2> QED
    BY <1>1, <2>1, MildLeads DEF IInv, Shaped
<1> QED
  BY <1>2, <1>3, <1>4

LEMMA SourceInvalidatedKeeps ==
    ASSUME IInv, NEW observed, SourceInvalidated(observed) PROVE IInv' /\ Counted
<1> DEFINE reason == IF observed = "append" /\ ui.reason = "lost" THEN "lost" ELSE observed
           seen == [ui EXCEPT !.reason = reason]
           released == ReleaseSubmission(ctl)
           c == [AbandonRestore(released) EXCEPT !.pending = None, !.rebuild = None]
           w == [wire EXCEPT !.rows = None]
<1>1. Mild
  BY DEF SourceInvalidated, Mild, IInv, Shaped
<1>2. Leads(ctl, wire, seen) \/ Leads(c, w, seen)
  BY DEF SourceInvalidated
<1>3. DOMAIN seen = {"gen", "complete", "follow", "reason", "page"}
  BY DEF IInv, Shaped
<1>4. SameQuery(ctl, AbandonRestore(released)) /\ AbandonRestore(released).restore = None
  BY HelpersKeepRestore DEF IInv, Shaped, SameRestore, SameQuery
<1>5. /\ DOMAIN c = Fields /\ c.query = ctl.query /\ c.restore = None
      /\ DOMAIN w = {"rows", "rebuild", "order"}
  BY <1>4 DEF SameQuery, Fields, IInv, Shaped
<1> HIDE DEF seen, c, w
<1> QED
  BY <1>1, <1>2, <1>3, <1>5, MildLeads DEF IInv, Shaped

LEMMA RowOrderChangedKeeps == ASSUME IInv, RowOrderChanged PROVE IInv' /\ Counted
<1> DEFINE descending == wire.order = "desc"
           turning == [ctl EXCEPT !.descending = descending,
                                  !.sort = IF descending THEN "newest" ELSE "none"]
           turned == ResetPaging(turning)
           w == [wire EXCEPT !.order = None]
<1>1. ghost' = ghost /\ Asks(turned, w, ui, ctl.query, At(0), Plain, Nobody)
  BY DEF RowOrderChanged
<1>2. DOMAIN turning = Fields /\ turning.query = ctl.query /\ turning.restore = ctl.restore
  BY DEF Fields, IInv, Shaped
<1> HIDE DEF turning
<1>3. /\ DOMAIN turned = Fields /\ turned.query = ctl.query /\ turned.restore = ctl.restore
      /\ DOMAIN w = {"rows", "rebuild", "order"}
  BY <1>2, HelpersKeepRestore DEF SameRestore, SameQuery, IInv, Shaped
<1> HIDE DEF turned, w
<1>4. IsUntouched(turned, ghost'.touched, ghost'.retries) /\ Counted
  BY <1>1, <1>3 DEF IInv, Shaped, IsUntouched, IsOfQuery, Counted
<1>5. /\ IsUntouched(turned, FALSE, ghost'.retries)
      /\ ghost'.touched => turned.restore = None
  BY <1>4 DEF IsUntouched
<1> QED
  BY <1>1, <1>3, <1>4, <1>5, AsksKeeps, PlainSupersedes DEF IInv, Shaped

LEMMA ProfileChangedKeeps == ASSUME IInv, ProfileChanged PROVE IInv' /\ Counted
<1> DEFINE reset == ResetPaging(ctl)
           pendingRestore == ctl.pending # None /\ ctl.pending.restores /\ ctl.restore # None
           phase == IF ctl.restore # None /\ ctl.restore.phase = "retrying" THEN "retrying" ELSE "initial"
           how == IF pendingRestore THEN Restoring(phase) ELSE Plain
<1>1. Mild
  BY DEF ProfileChanged, Mild, IInv, Shaped
<1>2. \/ Leads(reset, wire, ui)
      \/ \E options : Asks(reset, wire, ui, ctl.query, options, how, Nobody)
  BY DEF ProfileChanged
<1>3. SameRestore(ctl, reset)
  BY HelpersKeepRestore DEF IInv, Shaped
<1>4. /\ how.supersedes \/ how.restores
      /\ how.restores /\ ~how.supersedes => how.phase = phase
  BY PlainSupersedes
<1>5. how.phase # "retrying" /\ how.restores /\ ~how.supersedes /\ reset.restore # None
        => reset.restore.phase # "retrying"
  BY <1>3, <1>4 DEF SameRestore
<1> HIDE DEF reset, how
<1>6. CASE Leads(reset, wire, ui)
  BY <1>1, <1>3, <1>6, MildLeads DEF IInv, Shaped, SameRestore, SameQuery
<1>7. ASSUME NEW options, Asks(reset, wire, ui, ctl.query, options, how, Nobody)
      PROVE  IInv' /\ Counted
  <2>1. /\ IsUntouched(reset, FALSE, ghost'.retries)
        /\ ghost'.touched => reset.restore = None
        /\ Counted
    BY <1>1, <1>3
    DEF IInv, Shaped, Mild, Counted, IsUntouched, IsOfQuery, SameRestore, SameQuery
  <2>2. \/ how.supersedes \/ reset.restore = None
        \/ how.restores /\ (reset.restore # None /\ how.phase # "retrying"
                              => reset.restore.phase # "retrying")
    BY <1>4, <1>5
  <2> QED
    BY <1>1, <1>3, <1>7, <2>1, <2>2, AsksKeeps DEF IInv, Shaped, Mild, SameRestore, SameQuery
<1> QED
  BY <1>2, <1>6, <1>7

LEMMA IndexCompletesKeeps == ASSUME IInv, IndexCompletes PROVE IInv' /\ Counted
<1> DEFINE seen == [ui EXCEPT !.complete = TRUE]
           waiting == ctl.restore # None /\ ctl.restore.phase = "waiting-index"
           finished == IF waiting
                       THEN FinishEmptyRestore(ctl, wire, seen, Total(File), None, Undefined, FALSE)
                       ELSE [ctl |-> ctl, wire |-> wire]
           turning == [finished.ctl EXCEPT !.sort = "newest"]
           turned == ResetPaging(turning)
<1>1. \/ Leads(finished.ctl, finished.wire, seen)
      \/ /\ ui.reason = "none"
         /\ Asks(turned, finished.wire, seen, ctl.query, At(0), Plain, Nobody)
  BY DEF IndexCompletes
<1>2. Counts(IF wire'.rows # None /\ wire'.rows.by = "retry" /\ wire'.rows # wire.rows THEN 1 ELSE 0)
  BY RetriesCount DEF IndexCompletes
<1>3. /\ DOMAIN seen = {"gen", "complete", "follow", "reason", "page"}
      /\ ui.reason = "none" => Readable(seen.reason)
  BY DEF IInv, Shaped, Readable
<1> HIDE DEF seen
<1>4. /\ DOMAIN finished.ctl = Fields /\ DOMAIN finished.wire = {"rows", "rebuild", "order"}
      /\ finished.ctl.query = ctl.query /\ IsUntouched(finished.ctl, ghost.touched, ghost.retries)
      /\ \/ finished.wire = wire
         \/ /\ ~ghost.touched /\ ghost.retries = 0
            /\ finished.ctl.restore # None => finished.ctl.restore.phase = "retrying"
  <2>1. CASE ~waiting
    BY <2>1 DEF IInv, Shaped
  <2>2. CASE waiting
    <3>1. PICK f, total, matched, cut :
            /\ finished = f
            /\ f = FinishEmptyRestore(ctl, wire, seen, total, None, matched, cut)
      BY <2>2
    <3>2. /\ DOMAIN ctl = Fields /\ DOMAIN wire = {"rows", "rebuild", "order"}
          /\ IsOfQuery(ctl) /\ ctl.restore # None
          /\ ~ghost.touched /\ ghost.retries = 0
      BY <2>2 DEF IInv, Shaped, IsUntouched
    <3>3. /\ DOMAIN f.ctl = Fields /\ DOMAIN f.wire = DOMAIN wire
          /\ f.ctl.query = ctl.query /\ IsOfQuery(f.ctl)
          /\ \/ /\ f.wire = wire
                /\ f.ctl.restore # None => ctl.restore.phase # "retrying"
             \/ /\ ctl.restore.phase # "retrying" /\ seen.reason = "none"
                /\ f.ctl.restore # None => f.ctl.restore.phase = "retrying"
      BY <3>1, <3>2, FinishKeeps
    <3> HIDE DEF finished
    <3> QED
      BY <3>1, <3>2, <3>3 DEF IsUntouched
  <2> QED
    BY <2>1, <2>2
<1> HIDE DEF finished
<1>5. CASE Leads(finished.ctl, finished.wire, seen)
  <2>1. /\ DOMAIN ghost' = DOMAIN ghost /\ ghost'.touched = ghost.touched
        /\ ghost'.retries \in Nat
    BY <1>2 DEF Counts, IInv, Shaped
  <2>2. \/ ghost'.retries = ghost.retries
        \/ /\ ~ghost.touched /\ ghost.retries = 0
           /\ finished.ctl.restore # None => finished.ctl.restore.phase = "retrying"
    <3>1. CASE finished.wire = wire
      BY <1>2, <1>5, <3>1 DEF Leads, Counts, IInv, Shaped
    <3> QED
      BY <1>4, <3>1
  <2>3. IsUntouched(finished.ctl, ghost'.touched, ghost'.retries) /\ Counted
    BY <1>4, <2>1, <2>2 DEF IsUntouched, Counted, IInv, Shaped
  <2> QED
    BY <1>3, <1>4, <1>5, <2>1, <2>3, LeadsKeeps
<1>6. CASE /\ ui.reason = "none"
           /\ Asks(turned, finished.wire, seen, ctl.query, At(0), Plain, Nobody)
  <2>1. DOMAIN turning = Fields /\ turning.query = ctl.query /\ turning.restore = finished.ctl.restore
    BY <1>4 DEF Fields
  <2> HIDE DEF turning
  <2>2. DOMAIN turned = Fields /\ turned.query = ctl.query /\ turned.restore = finished.ctl.restore
    BY <2>1, HelpersKeepRestore DEF SameRestore, SameQuery
  <2> HIDE DEF turned
  <2>3. wire'.rows.by = "other"
    <3>1. PICK next, opts :
            /\ next = RequestRows(turned, finished.wire, seen, ctl.query, opts, Plain, Nobody)
            /\ wire' = next.wire
      BY <1>6 DEF Asks, Leads
    <3>2. next.wire.rows.by = Nobody.by
      <4>1. Readable(seen.reason)
        BY <1>3, <1>6
      <4> QED
        BY <1>4, <3>1, <4>1 DEF RequestRows
    <3> QED
      BY <3>1, <3>2 DEF Nobody, Asker
  <2>4. Mild
    BY <1>2, <2>3 DEF Counts, Mild, IInv, Shaped
  <2>5. IsUntouched(turned, FALSE, ghost'.retries) /\ Counted
    BY <1>4, <2>2, <2>4 DEF IsUntouched, IsOfQuery, Counted, Mild, IInv, Shaped
  <2> QED
    BY <1>3, <1>4, <1>6, <2>2, <2>4, <2>5, AsksKeeps, PlainSupersedes DEF Mild, IInv, Shaped
<1> QED
  BY <1>1, <1>5, <1>6

LEMMA OpenedKeeps == ASSUME IInv, NEW complete, Opened(complete) PROVE IInv' /\ Counted
<1> DEFINE plan == PlanOpened
           sort == IF ctl.descending /\ complete THEN "newest" ELSE "none"
           sorting == [ctl EXCEPT !.sort = sort]
           ordered == IF sort = ctl.sort THEN ctl ELSE ResetPaging(sorting)
           released == ReleaseSubmission(ordered)
           cleared == [released EXCEPT
                          !.restore = plan.restore, !.viewport = None, !.pending = None, !.rebuild = None]
           keeps == ui.follow /\ ui.page # None /\ ui.page.rows # << >>
           seen == [ui EXCEPT !.gen = @ + 1, !.complete = complete, !.reason = "none",
                              !.page = IF keeps THEN @ ELSE None]
           how == [(IF plan.replaces THEN Restoring("initial") ELSE Plain) EXCEPT
                      !.restores = plan.replaces /\ ~ui.follow, !.always = TRUE]
           w == [rows |-> None, rebuild |-> FALSE, order |-> None]
<1>1. Asks(cleared, w, seen, ctl.query, plan.options, how, Nobody)
  BY DEF Opened
<1>2. DOMAIN ghost' = DOMAIN ghost /\ ghost'.retries = 0 /\ ghost'.touched = FALSE
  BY DEF Opened, IInv, Shaped
<1>3. DOMAIN released = Fields /\ released.query = ctl.query
  <2>1. SameRestore(ctl, sorting)
    BY DEF IInv, Shaped, SameRestore, SameQuery, Fields
  <2> HIDE DEF sorting
  <2>2. SameRestore(ctl, ordered)
    BY <2>1, HelpersKeepRestore DEF SameRestore, SameQuery, IInv, Shaped
  <2> HIDE DEF ordered
  <2> QED
    BY <2>2, HelpersKeepRestore DEF SameRestore, SameQuery
<1>4. /\ plan.restore # None =>
           /\ plan.replaces /\ ~ui.follow
           /\ DOMAIN plan.restore = {"query", "phase", "requested", "first", "text"}
           /\ plan.restore.query = ctl.query /\ plan.restore.phase = "initial"
  BY DEF PlanOpened
<1>5. /\ how.supersedes \/ plan.restore = None \/ how.restores
      /\ plan.restore # None => how.phase = "initial"
  BY <1>4 DEF Restoring, Plain
<1> HIDE DEF released, how, plan
<1>6. DOMAIN cleared = Fields /\ cleared.query = ctl.query /\ cleared.restore = plan.restore
  BY <1>3 DEF Fields
<1>7. /\ DOMAIN seen = {"gen", "complete", "follow", "reason", "page"}
      /\ DOMAIN w = {"rows", "rebuild", "order"}
  BY DEF IInv, Shaped
<1> HIDE DEF cleared, seen, w
<1>8. IsUntouched(cleared, FALSE, ghost'.retries)
  BY <1>2, <1>4, <1>6 DEF IsUntouched, IsOfQuery
<1>9. \/ how.supersedes \/ cleared.restore = None
      \/ how.restores /\ (cleared.restore # None /\ how.phase # "retrying"
                            => cleared.restore.phase # "retrying")
  BY <1>4, <1>5, <1>6
<1>10. Counted
  BY <1>2 DEF Counted, IInv, Shaped
<1>11. PICK opts : Asks(cleared, w, seen, ctl.query, opts, how, Nobody)
  BY <1>1
<1>12. ghost'.retries \in Nat /\ ~ghost'.touched
  BY <1>2
<1>13. IInv'
  BY <1>2, <1>6, <1>7, <1>8, <1>9, <1>11, <1>12, AsksKeeps
<1> QED
  BY <1>10, <1>13

LEMMA ArrivesKeep == ASSUME IInv, Arrives PROVE IInv' /\ Counted
BY OpenedKeeps, RowsArriveKeeps, SourceInvalidatedKeeps, FailuresKeep, RowOrderChangedKeeps,
   ProfileChangedKeeps, IndexCompletesKeeps
DEF Arrives

-----------------------------------------------------------------------------
(* The user wins: the theorems *)

LEMMA InitKeeps == Init => IInv
<1> SUFFICES ASSUME Init PROVE IInv
  OBVIOUS
<1>1. Shaped
  BY DEF Init, Shaped, Fields
<1>2. IsUntouched(ctl, ghost.touched, ghost.retries)
  BY DEF Init, IsUntouched, IsOfQuery
<1> QED
  BY <1>1, <1>2 DEF IInv

LEMMA NextKeeps == IInv /\ [Next]_vars => IInv' /\ Counted
<1> SUFFICES ASSUME IInv, [Next]_vars PROVE IInv' /\ Counted
  OBVIOUS
<1>1. CASE Arrives
  BY <1>1, ArrivesKeep
<1>2. CASE Uses
  <2>1. IInv' /\ ghost'.retries = ghost.retries
    BY <1>2, UsesKeep
  <2> QED
    BY <2>1 DEF Counted, IInv, Shaped
<1>3. CASE UNCHANGED vars
  BY <1>3 DEF vars, Counted, IInv, Shaped, IsUntouched, IsOfQuery
<1> QED
  BY <1>1, <1>2, <1>3 DEF Next

\* A restore is never of another query than the one in the box, is over once the
\* user has interfered, and says in its phase that it has retried
\* (row-query-controller.ts:343-356, recovery-policy.ts).
THEOREM Invariance == Spec => []IInv
<1>1. Init => IInv
  BY InitKeeps
<1>2. IInv /\ [Next]_vars => IInv'
  BY NextKeeps
<1> QED
  BY <1>1, <1>2, PTL DEF Spec

\* The clamped second request goes out once at most for a new generation, and
\* never after the user has done something else (planEmptyRestore), whatever the
\* files and the answers are.
THEOREM UserWins == Spec => UserInputWins
<1>1. Init => IInv
  BY InitKeeps
<1>2. IInv /\ [Next]_vars => IInv' /\ [ghost'.retries > ghost.retries =>
                                         ~ghost.touched /\ ghost.retries = 0]_vars
  BY NextKeeps DEF Counted
<1> QED
  BY <1>1, <1>2, PTL DEF Spec, UserInputWins

-----------------------------------------------------------------------------
(* Numbers *)

LEMMA LeastIsLeast ==
    ASSUME NEW S \in SUBSET Nat, S # {}
    PROVE  Least(S) \in S /\ \A n \in S : Least(S) <= n
<1>1. PICK m \in S : \A k \in S : ~(<<k, m>> \in OpToRel(<, Nat))
  BY NatLessThanWellFounded, WFMin
<1>2. ASSUME NEW k \in S
      PROVE  m <= k
  <2>1. k \in Nat /\ m \in Nat /\ <<k, m>> \in Nat \X Nat
    OBVIOUS
  <2>2. ~(k < m)
    <3> SUFFICES ASSUME k < m PROVE FALSE
      OBVIOUS
    <3>1. <<k, m>> \in OpToRel(<, Nat)
      BY <2>1, Zenon DEF OpToRel
    <3> QED
      BY <1>1, <3>1
  <2> QED
    BY <2>1, <2>2
<1>3. \E n \in S : \A k \in S : n <= k
  BY <1>2
<1> QED
  BY <1>3 DEF Least

\* A set that has zero and with a number the next one has all up to a bound.
LEMMA CountingUp ==
    ASSUME NEW N \in Nat, NEW S, 0 \in S, \A n \in 0..N : n \in S /\ n < N => n + 1 \in S
    PROVE  \A n \in 0..N : n \in S
<1> DEFINE T == (0..N) \ S
<1> SUFFICES ASSUME T # {} PROVE FALSE
  OBVIOUS
<1>1. T \in SUBSET Nat
  OBVIOUS
<1>2. PICK m \in T : \A k \in T : m <= k
  BY <1>1, LeastIsLeast
<1>3. m # 0 /\ m \in Nat /\ m <= N
  BY <1>2
<1>4. m - 1 \in 0..N /\ m - 1 < m /\ m - 1 < N
  BY <1>3
<1>5. m - 1 \in S
  BY <1>2, <1>4
<1>6. (m - 1) + 1 \in S
  BY <1>4, <1>5
<1> QED
  BY <1>2, <1>3, <1>6

-----------------------------------------------------------------------------
(* What is selected from a path *)

\* What the n-th member of a path adds to what was selected before it.
WithMember(s, path, S, n) == IF path[n] \in S THEN Append(s, path[n]) ELSE s

Selects(f, m, path, S) ==
    f = [n \in 0..m |-> IF n = 0 THEN << >> ELSE WithMember(f[n - 1], path, S, n)]

LEMMA SelectionExists ==
    ASSUME NEW m \in Nat, NEW path, NEW P
    PROVE  \E f : Selects(f, m, path, P)
<1> DEFINE S == {n \in Nat : \E f : Selects(f, n, path, P)}
<1>1. 0 \in S
  <2> DEFINE f == [n \in 0..0 |-> << >>]
  <2>1. Selects(f, 0, path, P)
    BY DEF Selects
  <2> QED
    BY <2>1
<1>2. ASSUME NEW n \in 0..m, n \in S
      PROVE  n + 1 \in S
  <2>1. PICK g : Selects(g, n, path, P)
    BY <1>2
  <2> DEFINE f == [i \in 0..n + 1 |-> IF i = n + 1 THEN WithMember(g[n], path, P, n + 1) ELSE g[i]]
             step(h) == [i \in 0..n + 1 |-> IF i = 0 THEN << >> ELSE WithMember(h[i - 1], path, P, i)]
  <2>2. \A i \in 0..n : g[i] = IF i = 0 THEN << >> ELSE WithMember(g[i - 1], path, P, i)
    BY <2>1 DEF Selects
  <2>3. ASSUME NEW i \in 0..n + 1
        PROVE  f[i] = step(f)[i]
    <3>1. CASE i = n + 1
      <4>1. i # 0 /\ i - 1 = n /\ n \in 0..n + 1 /\ n # n + 1
        BY <3>1
      <4> QED
        BY <3>1, <4>1
    <3>2. CASE i # n + 1
      <4>1. i \in 0..n /\ (i # 0 => i - 1 \in 0..n + 1 /\ i - 1 # n + 1)
        BY <3>2
      <4> QED
        BY <2>2, <3>2, <4>1
    <3> QED
      BY <3>1, <3>2
  <2>4. f = step(f)
    BY <2>3
  <2> HIDE DEF f
  <2>5. Selects(f, n + 1, path, P)
    BY <2>4 DEF Selects
  <2> QED
    BY <2>5
<1> HIDE DEF S
<1>3. \A n \in 0..m : n \in S
  BY <1>1, <1>2, CountingUp
<1>4. m \in S
  BY <1>3
<1> QED
  BY <1>4 DEF S

\* What has been selected of the first n members: those in the set, in their order.
Picked(s, n, path, D, S) ==
    /\ s \in Seq(D)
    /\ Len(s) <= n
    /\ \A j \in 1..Len(s) : \E k \in 1..n : s[j] = path[k] /\ path[k] \in S
    /\ \A k \in 1..n : path[k] \in S => \E j \in 1..Len(s) : s[j] = path[k]
    /\ \A i, j \in 1..Len(s) : i < j => \E a, b \in 1..n : a < b /\ s[i] = path[a] /\ s[j] = path[b]
    /\ (\A k \in 1..n : path[k] \in S) => Len(s) = n
    /\ n # 0 /\ path[n] \in S => Len(s) # 0 /\ s[Len(s)] = path[n]

LEMMA PickedNext ==
    ASSUME NEW D, NEW path \in Seq(D), NEW S, NEW n \in Nat, n < Len(path),
           NEW s, Picked(s, n, path, D, S)
    PROVE  Picked(WithMember(s, path, S, n + 1), n + 1, path, D, S)
<1>1. Len(s) \in Nat /\ Len(path) \in Nat /\ s \in Seq(D) /\ Len(s) <= n
  BY LenProperties DEF Picked
<1>2. n + 1 \in 1..Len(path) /\ path[n + 1] \in D /\ n + 1 # 0
  BY <1>1, ElementOfSeq
<1>3. \A k \in 1..n + 1 : k = n + 1 \/ k \in 1..n
  OBVIOUS
<1>4. \A k \in 1..n : k \in 1..n + 1 /\ k < n + 1
  OBVIOUS
<1>5. CASE path[n + 1] \notin S
  <2>1. WithMember(s, path, S, n + 1) = s
    BY <1>5 DEF WithMember
  <2>2. ASSUME NEW j \in 1..Len(s)
        PROVE  \E k \in 1..n + 1 : s[j] = path[k] /\ path[k] \in S
    <3>1. PICK k \in 1..n : s[j] = path[k] /\ path[k] \in S
      BY DEF Picked
    <3> QED
      BY <1>4, <3>1
  <2>3. ASSUME NEW k \in 1..n + 1, path[k] \in S
        PROVE  \E j \in 1..Len(s) : s[j] = path[k]
    BY <1>3, <1>5, <2>3 DEF Picked
  <2>4. ASSUME NEW i \in 1..Len(s), NEW j \in 1..Len(s), i < j
        PROVE  \E a, b \in 1..n + 1 : a < b /\ s[i] = path[a] /\ s[j] = path[b]
    <3>1. PICK a \in 1..n, b \in 1..n : a < b /\ s[i] = path[a] /\ s[j] = path[b]
      BY <2>4 DEF Picked
    <3> QED
      BY <1>4, <3>1
  <2>5. ~(\A k \in 1..n + 1 : path[k] \in S)
    BY <1>2, <1>5
  <2>6. Len(s) <= n + 1
    BY <1>1
  <2>7. Picked(s, n + 1, path, D, S)
    BY <1>1, <1>5, <2>2, <2>3, <2>4, <2>5, <2>6 DEF Picked
  <2> QED
    BY <2>1, <2>7
<1>6. CASE path[n + 1] \in S
  <2> DEFINE t == Append(s, path[n + 1])
             m == Len(s) + 1
  <2>1. WithMember(s, path, S, n + 1) = t
    BY <1>6 DEF WithMember
  <2>2. /\ t \in Seq(D) /\ Len(t) = m /\ t[m] = path[n + 1]
        /\ \A j \in 1..Len(s) : t[j] = s[j]
    BY <1>1, <1>2, AppendProperties
  <2>3. /\ m \in Nat /\ m # 0 /\ m <= n + 1 /\ m \in 1..m
        /\ \A j \in 1..m : j = m \/ (j \in 1..Len(s) /\ j < m)
        /\ \A j \in 1..Len(s) : j \in 1..m /\ j < m
    BY <1>1
  <2> HIDE DEF t, m
  <2>4. ASSUME NEW j \in 1..m
        PROVE  \E k \in 1..n + 1 : t[j] = path[k] /\ path[k] \in S
    <3>1. CASE j = m
      BY <1>2, <1>6, <2>2, <3>1
    <3>2. CASE j # m
      <4>1. j \in 1..Len(s)
        BY <2>3, <3>2
      <4>2. PICK k \in 1..n : s[j] = path[k] /\ path[k] \in S
        BY <4>1 DEF Picked
      <4> QED
        BY <1>4, <2>2, <4>1, <4>2
    <3> QED
      BY <3>1, <3>2
  <2>5. ASSUME NEW k \in 1..n + 1, path[k] \in S
        PROVE  \E j \in 1..m : t[j] = path[k]
    <3>1. CASE k = n + 1
      BY <2>2, <2>3, <3>1
    <3>2. CASE k # n + 1
      <4>1. PICK j \in 1..Len(s) : s[j] = path[k]
        BY <1>3, <2>5, <3>2 DEF Picked
      <4> QED
        BY <2>2, <2>3, <4>1
    <3> QED
      BY <3>1, <3>2
  <2>6. ASSUME NEW i \in 1..m, NEW j \in 1..m, i < j
        PROVE  \E a, b \in 1..n + 1 : a < b /\ t[i] = path[a] /\ t[j] = path[b]
    <3>0. i \in 1..Len(s) /\ t[i] = s[i]
      BY <1>1, <2>2, <2>3, <2>6
    <3>1. CASE j = m
      <4>1. PICK a \in 1..n : s[i] = path[a]
        BY <3>0 DEF Picked
      <4>2. a \in 1..n + 1 /\ a < n + 1 /\ n + 1 \in 1..n + 1
        BY <1>4
      <4> QED
        BY <2>2, <3>0, <3>1, <4>1, <4>2
    <3>2. CASE j # m
      <4>1. j \in 1..Len(s) /\ t[j] = s[j]
        BY <2>2, <2>3, <3>2
      <4>2. PICK a \in 1..n, b \in 1..n : a < b /\ s[i] = path[a] /\ s[j] = path[b]
        BY <2>6, <3>0, <4>1 DEF Picked
      <4> QED
        BY <1>4, <3>0, <4>1, <4>2
    <3> QED
      BY <3>1, <3>2
  <2>7. ASSUME \A k \in 1..n + 1 : path[k] \in S
        PROVE  m = n + 1
    <3>1. \A k \in 1..n : path[k] \in S
      BY <1>4, <2>7
    <3>2. Len(s) = n
      BY <3>1 DEF Picked
    <3> QED
      BY <3>2 DEF m
  <2>8. Picked(t, n + 1, path, D, S)
    BY <2>2, <2>3, <2>4, <2>5, <2>6, <2>7 DEF Picked
  <2> QED
    BY <2>1, <2>8
<1> QED
  BY <1>5, <1>6

\* What is selected are the members of the path that are in the set, each as
\* often as the path has it and in the path's order.
LEMMA SelectedPicks ==
    ASSUME NEW D, NEW path \in Seq(D), NEW S
    PROVE  Picked(Selected(path, S), Len(path), path, D, S)
<1> DEFINE N == Len(path)
           f == CHOOSE g : Selects(g, N, path, S)
           T == {n \in Nat : n <= N => Picked(f[n], n, path, D, S)}
<1>1. N \in Nat
  BY LenProperties
<1>2. Selects(f, N, path, S)
  BY <1>1, SelectionExists
<1>3. Selected(path, S) = f[N]
  BY DEF Selected, Selects, WithMember
<1> HIDE DEF N, f
<1>4. 0 \in T
  <2>1. f[0] = << >>
    BY <1>1, <1>2 DEF Selects
  <2>2. << >> \in Seq(D) /\ Len(<< >>) = 0 /\ 1..0 = {}
    OBVIOUS
  <2>3. Picked(f[0], 0, path, D, S)
    BY <2>1, <2>2 DEF Picked
  <2> QED
    BY <2>3
<1>5. ASSUME NEW n \in 0..N, n \in T, n < N
      PROVE  n + 1 \in T
  <2>1. n \in Nat /\ n + 1 \in 0..N /\ n + 1 # 0 /\ (n + 1) - 1 = n
    BY <1>1, <1>5
  <2>2. f[n + 1] = WithMember(f[n], path, S, n + 1)
    BY <1>2, <2>1 DEF Selects
  <2>3. Picked(f[n], n, path, D, S)
    BY <1>1, <1>5
  <2>4. Picked(f[n + 1], n + 1, path, D, S)
    BY <1>5, <2>1, <2>2, <2>3, PickedNext DEF N
  <2> QED
    BY <2>1, <2>4
<1> HIDE DEF T
<1>6. \A n \in 0..N : n \in T
  BY <1>1, <1>4, <1>5, CountingUp
<1>7. N \in T
  BY <1>1, <1>6
<1> QED
  BY <1>1, <1>3, <1>7 DEF T, N

-----------------------------------------------------------------------------
(* The paths of a read *)

IsFile(file) == IsFiniteSet(DOMAIN file) /\ DOMAIN file = 0..(Total(file) - 1)

LEMMA FilesAreFiles ==
    ASSUME NEW g \in 1..Len(Files)
    PROVE  IsFile(Files[g]) /\ Total(Files[g]) \in Nat
  BY FilesAssumption, FS_CardinalityType DEF IsFile, Total

\* The records that a query finds.
FoundIn(file, query) == {i \in DOMAIN file : Finds(file, query, i)}

LEMMA OrdinalsAreNumbers ==
    /\ Undefined \in Int /\ Undefined < 0 /\ Undefined \notin Nat
    /\ \A n \in Ordinals : n \in Int /\ (n # Undefined => n \in Nat)
    /\ \A a, b \in Ordinals : OneOf(a, b) \in Ordinals /\ (b \in Nat => OneOf(a, b) \in Nat)
  BY PagesAssumption DEF Ordinals, OneOf

\* A path that goes up from a record, or down from it, and has every record from
\* there on.
Upwards(path, file, first) ==
    /\ path \in Seq(DOMAIN file)
    /\ \A k \in 1..Len(path) : path[k] = first + k - 1
    /\ \A i \in DOMAIN file : i >= first => \E k \in 1..Len(path) : path[k] = i
Downwards(path, file, first) ==
    /\ path \in Seq(DOMAIN file)
    /\ \A k \in 1..Len(path) : path[k] = first + 1 - k
    /\ \A i \in DOMAIN file : i <= first => \E k \in 1..Len(path) : path[k] = i

LEMMA ForwardGoesUp ==
    ASSUME NEW file, IsFile(file), Total(file) \in Nat, NEW anchor \in Ordinals
    PROVE  \E first \in Nat : /\ Upwards(Forward(file, anchor), file, first)
                              /\ \A i \in DOMAIN file : i > anchor <=> i >= first
<1> DEFINE N == Total(file)
           first == IF anchor # Undefined /\ anchor < N THEN anchor + 1
                    ELSE IF anchor # Undefined THEN N ELSE 0
           path == [k \in 1..(N - first) |-> first + k - 1]
<1>1. path = Forward(file, anchor)
  BY DEF Forward
<1>2. N \in Nat /\ DOMAIN file = 0..(N - 1)
  BY DEF IsFile
<1> HIDE DEF N
<1>3. first \in Nat /\ first <= N
  BY <1>2, OrdinalsAreNumbers
<1>4. \A i \in DOMAIN file : i > anchor <=> i >= first
  BY <1>2, OrdinalsAreNumbers
<1> HIDE DEF first
<1>5. N - first \in Nat
  BY <1>2, <1>3
<1>6. \A k \in 1..(N - first) : first + k - 1 \in DOMAIN file
  BY <1>2, <1>3
<1>7. path \in Seq(DOMAIN file) /\ Len(path) = N - first
  BY <1>5, <1>6, IsASeq
<1>8. ASSUME NEW i \in DOMAIN file, i >= first
      PROVE  \E k \in 1..(N - first) : path[k] = i
  <2>1. i - first + 1 \in 1..(N - first) /\ first + (i - first + 1) - 1 = i
    BY <1>2, <1>3, <1>8
  <2> QED
    BY <2>1
<1>9. Upwards(path, file, first)
  BY <1>7, <1>8 DEF Upwards
<1> QED
  BY <1>1, <1>3, <1>4, <1>9

LEMMA BackwardGoesDown ==
    ASSUME NEW file, IsFile(file), Total(file) \in Nat, NEW anchor \in Ordinals
    PROVE  \E first \in Int :
              /\ Downwards(Backward(file, anchor), file, first)
              /\ Len(Backward(file, anchor)) = first + 1
              /\ anchor = Undefined => first = Total(file) - 1
              /\ \A i \in DOMAIN file :
                    i < (IF anchor = Undefined THEN Total(file) ELSE anchor) => i <= first
<1> DEFINE N == Total(file)
           first == IF anchor # Undefined /\ anchor < N THEN anchor - 1 ELSE N - 1
           path == [k \in 1..(first + 1) |-> first + 1 - k]
<1>1. path = Backward(file, anchor)
  BY DEF Backward
<1>2. N \in Nat /\ DOMAIN file = 0..(N - 1)
  BY DEF IsFile
<1> HIDE DEF N
<1>3. first \in Int /\ first + 1 \in Nat /\ first <= N - 1
  BY <1>2, OrdinalsAreNumbers
<1>4. \A i \in DOMAIN file : i < (IF anchor = Undefined THEN N ELSE anchor) => i <= first
  BY <1>2, OrdinalsAreNumbers
<1>5. anchor = Undefined => first = N - 1
  OBVIOUS
<1> HIDE DEF first
<1>6. \A k \in 1..(first + 1) : first + 1 - k \in DOMAIN file
  BY <1>2, <1>3
<1>7. path \in Seq(DOMAIN file) /\ Len(path) = first + 1
  BY <1>3, <1>6, IsASeq
<1>8. ASSUME NEW i \in DOMAIN file, i <= first
      PROVE  \E k \in 1..(first + 1) : path[k] = i
  <2>1. first + 1 - i \in 1..(first + 1) /\ first + 1 - (first + 1 - i) = i
    BY <1>2, <1>3, <1>8
  <2> QED
    BY <2>1
<1>9. Downwards(path, file, first)
  BY <1>7, <1>8 DEF Downwards
<1> QED
  BY <1>1, <1>3, <1>4, <1>5, <1>7, <1>9 DEF N

-----------------------------------------------------------------------------
(* What is found on the first part of a path *)

LEMMA FirstPart ==
    ASSUME NEW D, NEW path \in Seq(D), NEW n \in 0..Len(path)
    PROVE  /\ SubSeq(path, 1, n) \in Seq(D)
           /\ Len(SubSeq(path, 1, n)) = n
           /\ \A k \in 1..n : SubSeq(path, 1, n)[k] = path[k]
           /\ n = Len(path) => SubSeq(path, 1, n) = path
<1>1. Len(path) \in Nat /\ n \in Nat /\ n <= Len(path)
  BY LenProperties
<1>2. \A k \in 1..n : path[k] \in D
  BY <1>1, ElementOfSeq
<1>3. \A k \in 1..n : 1 <= k /\ k <= Len(path)
  BY <1>1
<1>4. SubSeq(path, 1, n) = [k \in 1..n |-> path[k]]
  BY <1>1, <1>3
<1>5. [k \in 1..n |-> path[k]] \in Seq(D) /\ Len([k \in 1..n |-> path[k]]) = n
  BY <1>1, <1>2, IsASeq
<1>6. n = Len(path) => SubSeq(path, 1, n) = path
  <2>1. path = [k \in 1..Len(path) |-> path[k]]
    BY LenProperties
  <2> QED
    BY <1>4, <2>1
<1> QED
  BY <1>4, <1>5, <1>6

\* What is found on an upward path, in rising order, nothing left out.
Rising(found, n, first, S) ==
    /\ found \in Seq(S) /\ found \in Seq(Nat)
    /\ Len(found) <= n
    /\ \A j \in 1..Len(found) : first <= found[j] /\ found[j] <= first + n - 1
    /\ \A i, j \in 1..Len(found) : i < j => found[i] < found[j]
    /\ \A i \in S :
         first <= i /\ i <= first + n - 1 => \E j \in 1..Len(found) : found[j] = i

LEMMA FoundUpwards ==
    ASSUME NEW file, IsFile(file), Total(file) \in Nat, NEW query, NEW first \in Nat,
           NEW path, Upwards(path, file, first), NEW n \in 0..Len(path),
           NEW found, found = Found(file, query, SubSeq(path, 1, n))
    PROVE  Rising(found, n, first, FoundIn(file, query))
<1> DEFINE S == FoundIn(file, query)
           seen == SubSeq(path, 1, n)
<1>1. path \in Seq(DOMAIN file) /\ Len(path) \in Nat /\ n \in Nat /\ n <= Len(path)
  BY LenProperties DEF Upwards
<1>2. /\ seen \in Seq(DOMAIN file) /\ Len(seen) = n
      /\ \A k \in 1..n : seen[k] = path[k]
  BY <1>1, FirstPart
<1>3. found = Selected(seen, S)
  BY DEF Found, FoundIn
<1> HIDE DEF seen
<1>4. Picked(found, n, seen, DOMAIN file, S)
  BY <1>2, <1>3, SelectedPicks
<1> HIDE DEF S
<1>5. found \in Seq(DOMAIN file) /\ Len(found) \in Nat /\ Len(found) <= n
  BY <1>4, LenProperties DEF Picked
<1>6. \A k \in 1..n : path[k] = first + k - 1 /\ seen[k] = path[k]
  BY <1>1, <1>2 DEF Upwards
<1>7. ASSUME NEW j \in 1..Len(found)
      PROVE  found[j] \in S /\ first <= found[j] /\ found[j] <= first + n - 1
  <2>1. PICK k \in 1..n : found[j] = seen[k] /\ seen[k] \in S
    BY <1>4 DEF Picked
  <2> QED
    BY <1>1, <1>6, <2>1
<1>8. ASSUME NEW i \in 1..Len(found), NEW j \in 1..Len(found), i < j
      PROVE  found[i] < found[j]
  <2>1. PICK a \in 1..n, b \in 1..n : a < b /\ found[i] = seen[a] /\ found[j] = seen[b]
    BY <1>4, <1>8 DEF Picked
  <2> QED
    BY <1>1, <1>6, <2>1
<1>9. ASSUME NEW i \in S, first <= i, i <= first + n - 1
      PROVE  \E j \in 1..Len(found) : found[j] = i
  <2>1. i \in DOMAIN file
    BY DEF S, FoundIn
  <2>2. PICK k \in 1..Len(path) : path[k] = i
    BY <1>1, <1>9, <2>1 DEF Upwards, IsFile
  <2>4. k \in 1..n
    BY <1>1, <1>9, <2>2 DEF Upwards
  <2>5. seen[k] = i /\ seen[k] \in S
    BY <1>6, <1>9, <2>2, <2>4
  <2> QED
    BY <1>4, <2>4, <2>5 DEF Picked
<1>10. found = [j \in 1..Len(found) |-> found[j]]
  BY <1>5, LenProperties
<1>11. S \subseteq Nat
  BY DEF S, FoundIn, IsFile
<1>12. found \in Seq(S)
  BY <1>5, <1>7, <1>10, IsASeq
<1>13. found \in Seq(Nat)
  <2>1. \A j \in 1..Len(found) : found[j] \in Nat
    BY <1>7, <1>11
  <2> QED
    BY <1>5, <1>10, <2>1, IsASeq
<1> QED
  BY <1>5, <1>7, <1>8, <1>9, <1>12, <1>13 DEF S, Rising

\* What is found on a downward path, in falling order, nothing left out.
Falling(found, n, first, S) ==
    /\ found \in Seq(S) /\ found \in Seq(Nat)
    /\ Len(found) <= n
    /\ \A j \in 1..Len(found) : found[j] <= first /\ first + 1 - n <= found[j]
    /\ \A i, j \in 1..Len(found) : i < j => found[i] > found[j]
    /\ \A i \in S :
         i <= first /\ first + 1 - n <= i => \E j \in 1..Len(found) : found[j] = i

LEMMA FoundDownwards ==
    ASSUME NEW file, IsFile(file), Total(file) \in Nat, NEW query, NEW first \in Int,
           NEW path, Downwards(path, file, first), NEW n \in 0..Len(path),
           NEW found, found = Found(file, query, SubSeq(path, 1, n))
    PROVE  Falling(found, n, first, FoundIn(file, query))
<1> DEFINE S == FoundIn(file, query)
           seen == SubSeq(path, 1, n)
<1>1. path \in Seq(DOMAIN file) /\ Len(path) \in Nat /\ n \in Nat /\ n <= Len(path)
  BY LenProperties DEF Downwards
<1>2. /\ seen \in Seq(DOMAIN file) /\ Len(seen) = n
      /\ \A k \in 1..n : seen[k] = path[k]
  BY <1>1, FirstPart
<1>3. found = Selected(seen, S)
  BY DEF Found, FoundIn
<1> HIDE DEF seen
<1>4. Picked(found, n, seen, DOMAIN file, S)
  BY <1>2, <1>3, SelectedPicks
<1> HIDE DEF S
<1>5. found \in Seq(DOMAIN file) /\ Len(found) \in Nat /\ Len(found) <= n
  BY <1>4, LenProperties DEF Picked
<1>6. \A k \in 1..n : path[k] = first + 1 - k /\ seen[k] = path[k]
  BY <1>1, <1>2 DEF Downwards
<1>7. ASSUME NEW j \in 1..Len(found)
      PROVE  found[j] \in S /\ found[j] <= first /\ first + 1 - n <= found[j]
  <2>1. PICK k \in 1..n : found[j] = seen[k] /\ seen[k] \in S
    BY <1>4 DEF Picked
  <2> QED
    BY <1>1, <1>6, <2>1
<1>8. ASSUME NEW i \in 1..Len(found), NEW j \in 1..Len(found), i < j
      PROVE  found[i] > found[j]
  <2>1. PICK a \in 1..n, b \in 1..n : a < b /\ found[i] = seen[a] /\ found[j] = seen[b]
    BY <1>4, <1>8 DEF Picked
  <2> QED
    BY <1>1, <1>6, <2>1
<1>9. ASSUME NEW i \in S, i <= first, first + 1 - n <= i
      PROVE  \E j \in 1..Len(found) : found[j] = i
  <2>1. i \in DOMAIN file
    BY DEF S, FoundIn
  <2>2. PICK k \in 1..Len(path) : path[k] = i
    BY <1>1, <1>9, <2>1 DEF Downwards, IsFile
  <2>4. k \in 1..n
    BY <1>1, <1>9, <2>2 DEF Downwards
  <2>5. seen[k] = i /\ seen[k] \in S
    BY <1>6, <1>9, <2>2, <2>4
  <2> QED
    BY <1>4, <2>4, <2>5 DEF Picked
<1>10. found = [j \in 1..Len(found) |-> found[j]]
  BY <1>5, LenProperties
<1>11. S \subseteq Nat
  BY DEF S, FoundIn, IsFile
<1>12. found \in Seq(S)
  BY <1>5, <1>7, <1>10, IsASeq
<1>13. found \in Seq(Nat)
  <2>1. \A j \in 1..Len(found) : found[j] \in Nat
    BY <1>7, <1>11
  <2> QED
    BY <1>5, <1>10, <2>1, IsASeq
<1> QED
  BY <1>5, <1>7, <1>8, <1>9, <1>12, <1>13 DEF S, Falling

-----------------------------------------------------------------------------
(* A page in file order *)

Answers == [rows : Seq(Nat), anchor : Nat, before : BOOLEAN, after : BOOLEAN,
            cut : Directions \cup {"no"}, cursor : Ordinals, total : Ordinals,
            offset : Ordinals, next : Ordinals, matched : Ordinals]

Between(file, query, low, high) ==
    {i \in DOMAIN file : low < i /\ i < high /\ Finds(file, query, i)}

\* Where the next page of the same direction may go on: no record is between the
\* rows, or the place they were looked for from, and the cursor.
IsForward(file, a, query, start) ==
    /\ a.cut \in {"no", "forward"}
    /\ a.rows # << >> /\ a.cursor # Undefined /\ a.cut = "forward" =>
         a.cursor >= Last(a.rows) /\ Between(file, query, Last(a.rows), a.cursor + 1) = {}
    /\ a.rows = << >> /\ a.cursor # Undefined => Between(file, query, start, a.cursor + 1) = {}
    /\ a.rows = << >> /\ a.after => a.cut = "forward"
IsBackward(file, a, query, start) ==
    /\ a.cut \in {"no", "backward"}
    /\ a.rows # << >> /\ a.cursor # Undefined /\ a.cut = "backward" =>
         a.cursor <= Head(a.rows) /\ Between(file, query, a.cursor - 1, Head(a.rows)) = {}
    /\ a.rows = << >> /\ a.cursor # Undefined =>
         Between(file, query, a.cursor - 1, IF start = Undefined THEN Total(file) ELSE start) = {}
    /\ a.rows = << >> /\ a.before => a.cut = "backward"
IsPhysical(file, a, query, direction, start) ==
    /\ a.offset = Undefined
    /\ IF direction = "forward" THEN IsForward(file, a, query, start)
       ELSE IsBackward(file, a, query, start)

\* The query finds nothing in the file; a read of it leaves something to be found.
Nothing(file, query) == \A i \in DOMAIN file : ~Finds(file, query, i)
Leaves(file, query, anchor, direction) ==
    \/ anchor = Undefined
    \/ /\ direction # "backward"
       /\ \E i \in DOMAIN file : i > anchor /\ Finds(file, query, i)

LEMMA ExaminedStops ==
    ASSUME NEW file, NEW query, NEW D, NEW path \in Seq(D), NEW direction, NEW late,
           NEW i, i = Examined(file, query, path, direction, late)
    PROVE  /\ i \in 0..Len(path)
           /\ \/ i = Len(path)
              \/ Full(file, query, path, i)
              \/ RanOut(query, path, direction, late, i)
              \/ Heavy(file, query, path, i)
<1> DEFINE Stops(n) == \/ n = Len(path)
                       \/ Full(file, query, path, n)
                       \/ RanOut(query, path, direction, late, n)
                       \/ Heavy(file, query, path, n)
           S == {n \in 0..Len(path) : Stops(n)}
<1>1. i = Least(S)
  BY DEF Examined
<1>2. Len(path) \in Nat
  BY LenProperties
<1>3. Len(path) \in S /\ S \in SUBSET Nat
  BY <1>2
<1> HIDE DEF S
<1>4. i \in S
  BY <1>1, <1>3, LeastIsLeast
<1> QED
  BY <1>4 DEF S

\* The rows that are shown of what was found.
LEMMA TakenOfFound ==
    ASSUME NEW S, NEW found \in Seq(S), NEW m,
           m = IF Len(found) > PageSize THEN PageSize ELSE Len(found)
    PROVE  /\ m \in 0..Len(found)
           /\ SubSeq(found, 1, m) \in Seq(S)
           /\ Len(SubSeq(found, 1, m)) = m
           /\ \A k \in 1..m : SubSeq(found, 1, m)[k] = found[k]
           /\ m = 0 <=> Len(found) = 0
<1>1. Len(found) \in Nat /\ PageSize \in Nat \ {0}
  BY LenProperties, PagesAssumption
<1>2. m \in 0..Len(found)
  BY <1>1
<1> QED
  BY <1>1, <1>2, FirstPart

LEMMA EmptyOrNot ==
    ASSUME NEW S, NEW s \in Seq(S)
    PROVE  /\ s = << >> <=> Len(s) = 0
           /\ s # << >> => Len(s) \in 1..Len(s) /\ Head(s) = s[1] /\ Last(s) = s[Len(s)] /\ 1 \in 1..Len(s)
  BY EmptySeq, LenProperties, HeadTailProperties DEF Last

LEMMA ForwardPage ==
    ASSUME NEW file, IsFile(file), Total(file) \in Nat, NEW query, NEW anchor \in Ordinals,
           NEW late, NEW known,
           NEW a, a = PhysicalPage(file, query, anchor, "forward", late, known)
    PROVE  /\ a \in Answers
           /\ IsPhysical(file, a, query, "forward", anchor)
           /\ a.rows \in Seq(FoundIn(file, query))
           /\ known => a.total = Total(file)
           /\ known = FALSE => a.total = Undefined
           /\ a.rows = << >> /\ a.cut = "no" /\ Leaves(file, query, anchor, "forward")
                => Nothing(file, query)
<1> DEFINE path == Forward(file, anchor)
           i == Examined(file, query, path, "forward", late)
           found == Found(file, query, SubSeq(path, 1, i))
           cut == \/ Interrupted(file, query, path, "forward", late, i)
                  \/ Unseen(file, query, SubSeq(path, 1, i))
           m == IF Len(found) > PageSize THEN PageSize ELSE Len(found)
           rows == SubSeq(found, 1, m)
           S == FoundIn(file, query)
           first == IF rows = << >> THEN Undefined ELSE Head(rows)
           last == IF rows = << >> THEN Undefined ELSE Last(rows)
<1>1. /\ a.rows = rows
      /\ a.anchor = OneOf(last, OneOf(anchor, 0))
      /\ a.before = (OneOf(first, anchor) > 0)
      /\ a.after = (Len(found) > PageSize \/ cut)
      /\ a.after <=> Len(found) > PageSize \/ cut
      /\ a.cut = IF cut THEN "forward" ELSE "no"
      /\ a.cursor = Cursor(found, path, i)
      /\ a.total = IF known THEN Total(file) ELSE Undefined
      /\ a.offset = Undefined /\ a.next = Undefined /\ a.matched = Undefined
      /\ DOMAIN a = {"rows", "anchor", "before", "after", "cut", "cursor", "total", "offset",
                     "next", "matched"}
      /\ a = [rows |-> a.rows, anchor |-> a.anchor, before |-> a.before, after |-> a.after,
              cut |-> a.cut, cursor |-> a.cursor, total |-> a.total, offset |-> a.offset,
              next |-> a.next, matched |-> a.matched]
  BY DEF PhysicalPage
<1>2. PICK low \in Nat : /\ Upwards(path, file, low)
                         /\ \A x \in DOMAIN file : x > anchor <=> x >= low
  BY ForwardGoesUp
<1>3. path \in Seq(DOMAIN file) /\ Len(path) \in Nat
  BY <1>2, LenProperties DEF Upwards
<1> HIDE DEF path
<1>4. /\ i \in 0..Len(path)
      /\ \/ i = Len(path)
         \/ Full(file, query, path, i)
         \/ RanOut(query, path, "forward", late, i)
         \/ Heavy(file, query, path, i)
  BY <1>3, ExaminedStops
<1> HIDE DEF i
<1>0. found = Found(file, query, SubSeq(path, 1, i))
  OBVIOUS
<1>6. Full(file, query, path, i) <=> Len(found) > PageSize
  BY DEF Full
<1> HIDE DEF found
<1>4b. Rising(found, i, low, S)
  BY <1>0, <1>2, <1>4, FoundUpwards
<1>5. /\ found \in Seq(S) /\ found \in Seq(Nat)
      /\ Len(found) <= i
      /\ \A j \in 1..Len(found) : low <= found[j] /\ found[j] <= low + i - 1
      /\ \A k, j \in 1..Len(found) : k < j => found[k] < found[j]
      /\ \A x \in S : low <= x /\ x <= low + i - 1 => \E j \in 1..Len(found) : found[j] = x
  BY <1>4b DEF Rising
<1>7. /\ m \in 0..Len(found)
      /\ rows \in Seq(S) /\ rows \in Seq(Nat)
      /\ Len(rows) = m
      /\ \A k \in 1..m : rows[k] = found[k]
      /\ m = 0 <=> Len(found) = 0
  BY <1>5, TakenOfFound
<1>8. i \in Nat /\ Len(found) \in Nat /\ PageSize \in Nat \ {0} /\ m \in Nat /\ m <= Len(found)
  BY <1>3, <1>4, <1>5, <1>7, LenProperties, PagesAssumption
<1>9. /\ Len(found) <= PageSize => m = Len(found)
      /\ Len(found) > PageSize => m = PageSize
  BY <1>8
<1> HIDE DEF m, rows
<1>10. /\ rows = << >> <=> m = 0
       /\ m # 0 => /\ Head(rows) = found[1] /\ Last(rows) = found[m]
                   /\ m \in 1..Len(found) /\ 1 \in 1..Len(found)
  BY <1>7, <1>8, EmptyOrNot
<1>11. i # 0 => path[i] = low + i - 1 /\ path[i] \in Nat
  BY <1>2, <1>4, <1>8 DEF Upwards
<1>12. a.cursor = IF Len(found) > PageSize THEN found[m] ELSE IF i # 0 THEN path[i] ELSE Undefined
  BY <1>1, <1>8, <1>9 DEF Cursor
<1>13. \A j \in 1..Len(found) : found[j] \in Nat
  BY <1>5, ElementOfSeq
<1>14. a.cursor \in Ordinals
  BY <1>8, <1>9, <1>10, <1>11, <1>12, <1>13 DEF Ordinals
<1>15. first \in Ordinals /\ last \in Ordinals
  BY <1>10, <1>13 DEF Ordinals
<1>16. a.anchor \in Nat
  BY <1>1, <1>15, OrdinalsAreNumbers DEF Ordinals
<1>17. a.before \in BOOLEAN /\ a.after \in BOOLEAN
  <2>1. (OneOf(first, anchor) > 0) \in BOOLEAN
    OBVIOUS
  <2>2. (Len(found) > PageSize \/ cut) \in BOOLEAN
    OBVIOUS
  <2> QED
    BY <1>1, <2>1, <2>2
<1> HIDE DEF first, last
<1>18. S \subseteq Nat /\ \A x \in S : x \in DOMAIN file /\ Finds(file, query, x)
  BY DEF FoundIn, IsFile
<1>19. a \in Answers
  BY <1>1, <1>7, <1>14, <1>16, <1>17 DEF Answers, Directions, Ordinals
<1>20. ASSUME m # 0
       PROVE  a.cursor >= Last(a.rows) /\ Between(file, query, Last(a.rows), a.cursor + 1) = {}
  <2>1. CASE Len(found) > PageSize
    <3>1. a.cursor = found[m] /\ Last(a.rows) = found[m] /\ found[m] \in Nat
      BY <1>1, <1>10, <1>12, <1>13, <1>20, <2>1
    <3>2. DOMAIN file \subseteq Nat
      BY DEF IsFile
    <3> QED
      BY <3>1, <3>2 DEF Between
  <2>2. CASE Len(found) <= PageSize
    <3>1. m = Len(found) /\ i # 0 /\ m \in 1..Len(found)
      BY <1>5, <1>8, <1>9, <1>10, <1>20, <2>2
    <3>2. a.cursor = low + i - 1 /\ Last(a.rows) = found[m] /\ found[m] \in Nat
      BY <1>1, <1>8, <1>10, <1>11, <1>12, <1>13, <1>20, <2>2, <3>1
    <3>3. found[m] <= low + i - 1 /\ low <= found[m]
      BY <1>5, <3>1
    <3>4. ASSUME NEW x \in S, found[m] < x, x < low + i - 1 + 1
          PROVE  FALSE
      <4>1. x \in Nat /\ low <= x /\ x <= low + i - 1
        BY <1>8, <1>18, <3>2, <3>3, <3>4
      <4>2. PICK j \in 1..Len(found) : found[j] = x
        BY <1>5, <4>1
      <4>3. j < m \/ j = m
        BY <1>8, <3>1, <4>2
      <4> QED
        BY <1>5, <1>13, <3>1, <3>2, <3>4, <4>1, <4>2, <4>3
    <3> QED
      BY <3>2, <3>3, <3>4 DEF Between, FoundIn
  <2> QED
    BY <1>8, <2>1, <2>2
<1>21. ASSUME m = 0, a.cursor # Undefined
       PROVE  Between(file, query, anchor, a.cursor + 1) = {}
  <2>1. i # 0 /\ a.cursor = low + i - 1 /\ Len(found) = 0
    BY <1>7, <1>8, <1>11, <1>12, <1>21
  <2>2. ASSUME NEW x \in S, x > anchor, x < low + i - 1 + 1
        PROVE  FALSE
    <3>1. x \in Nat /\ x >= low /\ x <= low + i - 1
      BY <1>2, <1>8, <1>18, <2>2
    <3>2. \E j \in 1..Len(found) : found[j] = x
      BY <1>5, <3>1
    <3> QED
      BY <2>1, <3>2
  <2>3. anchor \in Int
    BY OrdinalsAreNumbers
  <2>4. DOMAIN file \subseteq Nat
    BY DEF IsFile
  <2> QED
    BY <1>8, <2>1, <2>2, <2>3, <2>4 DEF Between, FoundIn
<1>22. IsPhysical(file, a, query, "forward", anchor)
  <2>1. a.rows = << >> /\ a.after => a.cut = "forward"
    BY <1>1, <1>7, <1>8, <1>10
  <2>2. a.cut \in {"no", "forward"}
    BY <1>1
  <2>3. IsForward(file, a, query, anchor)
    BY <1>1, <1>10, <1>20, <1>21, <2>1, <2>2 DEF IsForward
  <2> QED
    BY <1>1, <2>3 DEF IsPhysical
<1>23. ASSUME a.rows = << >>, a.cut = "no", Leaves(file, query, anchor, "forward")
       PROVE  Nothing(file, query)
  <2>1. ~cut /\ m = 0 /\ Len(found) = 0
    BY <1>1, <1>7, <1>10, <1>23
  <2>2. ~Full(file, query, path, i)
    BY <1>6, <1>8, <2>1
  <2>3. i = Len(path)
    BY <1>4, <2>1, <2>2 DEF Interrupted
  <2>4. ASSUME NEW x \in S, x > anchor
        PROVE  FALSE
    <3>1. x \in DOMAIN file /\ x >= low
      BY <1>2, <1>18, <2>4
    <3>2. PICK k \in 1..Len(path) : path[k] = x
      BY <1>2, <3>1 DEF Upwards
    <3>3. low <= x /\ x <= low + i - 1
      BY <1>2, <1>3, <2>3, <3>2 DEF Upwards
    <3>4. \E j \in 1..Len(found) : found[j] = x
      BY <1>5, <3>3
    <3> QED
      BY <2>1, <3>4
  <2>5. \A x \in DOMAIN file : anchor = Undefined => x > anchor
    BY OrdinalsAreNumbers DEF IsFile
  <2> QED
    BY <1>23, <2>4, <2>5 DEF Leaves, Nothing, FoundIn
<1> QED
  BY <1>1, <1>7, <1>19, <1>22, <1>23

LEMMA TurnedRound ==
    ASSUME NEW S, NEW s \in Seq(S), NEW m, m = Len(s)
    PROVE  /\ Reverse(s) \in Seq(S) /\ Len(Reverse(s)) = m
           /\ \A k \in 1..m : Reverse(s)[k] = s[m - k + 1]
<1>1. m \in Nat
  BY LenProperties
<1>2. \A k \in 1..m : s[m - k + 1] \in S
  <2> TAKE k \in 1..m
  <2>1. m - k + 1 \in 1..m
    BY <1>1
  <2> QED
    BY <2>1, ElementOfSeq
<1>3. Reverse(s) = [k \in 1..m |-> s[m - k + 1]]
  BY <1>1 DEF Reverse
<1>4. [k \in 1..m |-> s[m - k + 1]] \in Seq(S) /\ Len([k \in 1..m |-> s[m - k + 1]]) = m
  BY <1>1, <1>2, IsASeq
<1> QED
  BY <1>3, <1>4

LEMMA BackwardPage ==
    ASSUME NEW file, IsFile(file), Total(file) \in Nat, NEW query, NEW anchor \in Ordinals,
           NEW late, NEW known,
           NEW a, a = PhysicalPage(file, query, anchor, "backward", late, known)
    PROVE  /\ a \in Answers
           /\ IsPhysical(file, a, query, "backward", anchor)
           /\ a.rows \in Seq(FoundIn(file, query))
           /\ known => a.total = Total(file)
           /\ known = FALSE => a.total = Undefined
           /\ a.rows = << >> /\ a.cut = "no" /\ Leaves(file, query, anchor, "backward")
                => Nothing(file, query)
<1> DEFINE path == Backward(file, anchor)
           i == Examined(file, query, path, "backward", late)
           found == Found(file, query, SubSeq(path, 1, i))
           cut == \/ Interrupted(file, query, path, "backward", late, i)
                  \/ Unseen(file, query, SubSeq(path, 1, i))
           m == IF Len(found) > PageSize THEN PageSize ELSE Len(found)
           taken == SubSeq(found, 1, m)
           rows == Reverse(taken)
           S == FoundIn(file, query)
           first == IF rows = << >> THEN Undefined ELSE Head(rows)
           last == IF rows = << >> THEN Undefined ELSE Last(rows)
<1>1. /\ a.rows = rows
      /\ a.anchor = OneOf(first, OneOf(anchor, 0))
      /\ a.before = (Len(found) > PageSize \/ cut)
      /\ a.before <=> Len(found) > PageSize \/ cut
      /\ a.after = IF last # Undefined THEN ~known \/ last + 1 < Total(file)
                   ELSE anchor # Undefined /\ anchor + 1 < Total(file)
      /\ a.cut = IF cut THEN "backward" ELSE "no"
      /\ a.cursor = Cursor(found, path, i)
      /\ a.total = IF known THEN Total(file) ELSE Undefined
      /\ a.offset = Undefined /\ a.next = Undefined /\ a.matched = Undefined
      /\ DOMAIN a = {"rows", "anchor", "before", "after", "cut", "cursor", "total", "offset",
                     "next", "matched"}
      /\ a = [rows |-> a.rows, anchor |-> a.anchor, before |-> a.before, after |-> a.after,
              cut |-> a.cut, cursor |-> a.cursor, total |-> a.total, offset |-> a.offset,
              next |-> a.next, matched |-> a.matched]
  BY DEF PhysicalPage
<1>2. PICK high \in Int :
         /\ Downwards(path, file, high)
         /\ Len(path) = high + 1
         /\ anchor = Undefined => high = Total(file) - 1
         /\ \A x \in DOMAIN file :
               x < (IF anchor = Undefined THEN Total(file) ELSE anchor) => x <= high
  BY BackwardGoesDown
<1>3. path \in Seq(DOMAIN file) /\ Len(path) \in Nat
  BY <1>2, LenProperties DEF Downwards
<1> HIDE DEF path
<1>4. /\ i \in 0..Len(path)
      /\ \/ i = Len(path)
         \/ Full(file, query, path, i)
         \/ RanOut(query, path, "backward", late, i)
         \/ Heavy(file, query, path, i)
  BY <1>3, ExaminedStops
<1> HIDE DEF i
<1>0. found = Found(file, query, SubSeq(path, 1, i))
  OBVIOUS
<1>6. Full(file, query, path, i) <=> Len(found) > PageSize
  BY DEF Full
<1> HIDE DEF found
<1>4b. Falling(found, i, high, S)
  BY <1>0, <1>2, <1>4, FoundDownwards
<1>5. /\ found \in Seq(S) /\ found \in Seq(Nat)
      /\ Len(found) <= i
      /\ \A j \in 1..Len(found) : found[j] <= high /\ high + 1 - i <= found[j]
      /\ \A k, j \in 1..Len(found) : k < j => found[k] > found[j]
      /\ \A x \in S : x <= high /\ high + 1 - i <= x => \E j \in 1..Len(found) : found[j] = x
  BY <1>4b DEF Falling
<1>7. /\ m \in 0..Len(found)
      /\ taken \in Seq(S) /\ taken \in Seq(Nat)
      /\ Len(taken) = m
      /\ \A k \in 1..m : taken[k] = found[k]
      /\ m = 0 <=> Len(found) = 0
  BY <1>5, TakenOfFound
<1>8. i \in Nat /\ Len(found) \in Nat /\ PageSize \in Nat \ {0} /\ m \in Nat /\ m <= Len(found)
  BY <1>3, <1>4, <1>5, <1>7, LenProperties, PagesAssumption
<1>9. /\ Len(found) <= PageSize => m = Len(found)
      /\ Len(found) > PageSize => m = PageSize
  BY <1>8
<1> HIDE DEF m, taken
<1>24. /\ rows \in Seq(S) /\ rows \in Seq(Nat)
       /\ Len(rows) = m
       /\ \A k \in 1..m : rows[k] = taken[m - k + 1]
  BY <1>7, TurnedRound
<1> HIDE DEF rows
<1>10. /\ rows = << >> <=> m = 0
       /\ m # 0 => /\ Head(rows) = found[m] /\ Last(rows) = found[1]
                   /\ m \in 1..Len(found) /\ 1 \in 1..Len(found)
  <2>1. m # 0 => /\ rows[1] = found[m] /\ rows[m] = found[1]
                 /\ m \in 1..Len(found) /\ 1 \in 1..Len(found)
    <3> SUFFICES ASSUME m # 0
                 PROVE  /\ rows[1] = found[m] /\ rows[m] = found[1]
                        /\ m \in 1..Len(found) /\ 1 \in 1..Len(found)
      OBVIOUS
    <3>1. 1 \in 1..m /\ m \in 1..m /\ m - 1 + 1 = m /\ m - m + 1 = 1
      BY <1>8
    <3> QED
      BY <1>7, <1>8, <1>24, <3>1
  <2> QED
    BY <1>24, <2>1, EmptyOrNot
<1>11. i # 0 => path[i] = high + 1 - i /\ path[i] \in Nat
  <2> SUFFICES ASSUME i # 0 PROVE path[i] = high + 1 - i /\ path[i] \in Nat
    OBVIOUS
  <2>1. i \in 1..Len(path)
    BY <1>3, <1>4
  <2> QED
    BY <1>2, <1>3, <2>1, ElementOfSeq DEF Downwards, IsFile
<1>12. a.cursor = IF Len(found) > PageSize THEN found[m] ELSE IF i # 0 THEN path[i] ELSE Undefined
  BY <1>1, <1>8, <1>9 DEF Cursor
<1>13. \A j \in 1..Len(found) : found[j] \in Nat
  BY <1>5, ElementOfSeq
<1>14. a.cursor \in Ordinals
  BY <1>8, <1>9, <1>10, <1>11, <1>12, <1>13 DEF Ordinals
<1>15. first \in Ordinals /\ last \in Ordinals
  BY <1>10, <1>13 DEF Ordinals
<1>16. a.anchor \in Nat
  BY <1>1, <1>15, OrdinalsAreNumbers DEF Ordinals
<1>17. a.before \in BOOLEAN /\ a.after \in BOOLEAN
  <2>1. (Len(found) > PageSize \/ cut) \in BOOLEAN
    OBVIOUS
  <2>2. (IF last # Undefined THEN ~known \/ last + 1 < Total(file)
         ELSE anchor # Undefined /\ anchor + 1 < Total(file)) \in BOOLEAN
    OBVIOUS
  <2> QED
    BY <1>1, <2>1, <2>2
<1> HIDE DEF first, last
<1>18. S \subseteq Nat /\ \A x \in S : x \in DOMAIN file /\ Finds(file, query, x)
  BY DEF FoundIn, IsFile
<1>19. a \in Answers
  BY <1>1, <1>14, <1>16, <1>17, <1>24 DEF Answers, Directions, Ordinals
<1>20. ASSUME m # 0
       PROVE  a.cursor <= Head(a.rows) /\ Between(file, query, a.cursor - 1, Head(a.rows)) = {}
  <2>1. CASE Len(found) > PageSize
    <3>1. a.cursor = found[m] /\ Head(a.rows) = found[m] /\ found[m] \in Nat
      BY <1>1, <1>10, <1>12, <1>13, <1>20, <2>1
    <3>2. DOMAIN file \subseteq Nat
      BY DEF IsFile
    <3> QED
      BY <3>1, <3>2 DEF Between
  <2>2. CASE Len(found) <= PageSize
    <3>1. m = Len(found) /\ i # 0 /\ m \in 1..Len(found)
      BY <1>5, <1>8, <1>9, <1>10, <1>20, <2>2
    <3>2. a.cursor = high + 1 - i /\ Head(a.rows) = found[m] /\ found[m] \in Nat
      BY <1>1, <1>8, <1>10, <1>11, <1>12, <1>13, <1>20, <2>2, <3>1
    <3>3. high + 1 - i <= found[m] /\ found[m] <= high
      BY <1>5, <3>1
    <3>4. ASSUME NEW x \in S, high + 1 - i - 1 < x, x < found[m]
          PROVE  FALSE
      <4>1. x \in Nat /\ x <= high /\ high + 1 - i <= x
        BY <1>8, <1>18, <3>2, <3>3, <3>4
      <4>2. PICK j \in 1..Len(found) : found[j] = x
        BY <1>5, <4>1
      <4>3. j < m \/ j = m
        BY <1>8, <3>1, <4>2
      <4> QED
        BY <1>5, <1>13, <3>1, <3>2, <3>4, <4>1, <4>2, <4>3
    <3>5. Between(file, query, high + 1 - i - 1, found[m]) = {}
      BY <3>4 DEF Between, FoundIn
    <3>6. a.cursor <= Head(a.rows)
      BY <3>2, <3>3
    <3>7. a.cursor - 1 = high + 1 - i - 1
      BY <1>8, <3>2
    <3>8. Between(file, query, a.cursor - 1, Head(a.rows)) = {}
      BY <3>2, <3>5, <3>7, Zenon
    <3> QED
      BY <3>6, <3>8
  <2> QED
    BY <1>8, <2>1, <2>2
<1>21. ASSUME m = 0, a.cursor # Undefined
       PROVE  Between(file, query, a.cursor - 1,
                      IF anchor = Undefined THEN Total(file) ELSE anchor) = {}
  <2> DEFINE start == IF anchor = Undefined THEN Total(file) ELSE anchor
  <2>1. i # 0 /\ a.cursor = high + 1 - i /\ Len(found) = 0
    BY <1>7, <1>8, <1>11, <1>12, <1>21
  <2>2. ASSUME NEW x \in S, x < start, x > high + 1 - i - 1
        PROVE  FALSE
    <3>1. x \in Nat /\ x <= high /\ high + 1 - i <= x
      BY <1>2, <1>8, <1>18, <2>2
    <3>2. \E j \in 1..Len(found) : found[j] = x
      BY <1>5, <3>1
    <3> QED
      BY <2>1, <3>2
  <2>3. start \in Int
    BY OrdinalsAreNumbers
  <2>4. DOMAIN file \subseteq Nat
    BY DEF IsFile
  <2> HIDE DEF start
  <2>5. Between(file, query, a.cursor - 1, start) = {}
    BY <1>8, <2>1, <2>2, <2>3, <2>4 DEF Between, FoundIn
  <2> QED
    BY <2>5 DEF start
<1>22. IsPhysical(file, a, query, "backward", anchor)
  <2>1. a.rows = << >> /\ a.before => a.cut = "backward"
    BY <1>1, <1>7, <1>8, <1>10
  <2>2. a.cut \in {"no", "backward"}
    BY <1>1
  <2>3. IsBackward(file, a, query, anchor)
    BY <1>1, <1>10, <1>20, <1>21, <2>1, <2>2 DEF IsBackward
  <2> QED
    BY <1>1, <2>3 DEF IsPhysical
<1>23. ASSUME a.rows = << >>, a.cut = "no", Leaves(file, query, anchor, "backward")
       PROVE  Nothing(file, query)
  <2>1. ~cut /\ m = 0 /\ Len(found) = 0
    BY <1>1, <1>7, <1>10, <1>23
  <2>2. ~Full(file, query, path, i)
    BY <1>6, <1>8, <2>1
  <2>3. i = Len(path)
    BY <1>4, <2>1, <2>2 DEF Interrupted
  <2>4. anchor = Undefined /\ high = Total(file) - 1
    BY <1>2, <1>23 DEF Leaves
  <2>5. ASSUME NEW x \in S
        PROVE  FALSE
    <3>1. x \in DOMAIN file /\ x <= high
      BY <1>18, <2>4 DEF IsFile
    <3>2. PICK k \in 1..Len(path) : path[k] = x
      BY <1>2, <3>1 DEF Downwards
    <3>3. x <= high /\ high + 1 - i <= x
      BY <1>2, <1>3, <2>3, <3>2 DEF Downwards
    <3>4. \E j \in 1..Len(found) : found[j] = x
      BY <1>5, <3>3
    <3> QED
      BY <2>1, <3>4
  <2> QED
    BY <2>5 DEF Nothing, FoundIn
<1> QED
  BY <1>1, <1>19, <1>22, <1>23, <1>24

-----------------------------------------------------------------------------
(* A page of the newest first *)

LEMMA GreatestExists ==
    ASSUME NEW L \in Nat, NEW S \in SUBSET (0..L), S # {}
    PROVE  \E n \in S : \A k \in S : k <= n
<1> DEFINE B == {n \in Nat : \A k \in S : k <= n}
           u == Least(B)
<1>1. L \in B /\ B \in SUBSET Nat
  OBVIOUS
<1>2. u \in B /\ \A n \in B : u <= n
  BY <1>1, LeastIsLeast
<1> HIDE DEF u
<1>3. u \in Nat /\ \A k \in S : k <= u /\ k \in Nat
  BY <1>2
<1>4. ASSUME u \notin S
      PROVE  FALSE
  <2>1. \A k \in S : k < u
    BY <1>3, <1>4
  <2>2. u - 1 \in Nat /\ \A k \in S : k <= u - 1
    <3>1. PICK k \in S : k \in Nat /\ k < u
      BY <1>3, <2>1
    <3> QED
      BY <1>3, <2>1, <3>1
  <2>3. u - 1 \in B
    BY <2>2
  <2> HIDE DEF B
  <2>4. u <= u - 1
    BY <1>2, <2>3
  <2> QED
    BY <1>3, <2>4
<1> QED
  BY <1>3, <1>4

\* A page of a sequence, from an offset on.
LEMMA WindowOf ==
    ASSUME NEW S, NEW s \in Seq(S), NEW o \in Nat, NEW P \in Nat \ {0},
           NEW w, w = SubSeq(s, o + 1, IF Len(s) < o + P THEN Len(s) ELSE o + P)
    PROVE  /\ w \in Seq(S)
           /\ Len(w) = IF Len(s) <= o THEN 0 ELSE IF Len(s) < o + P THEN Len(s) - o ELSE P
<1> DEFINE to == IF Len(s) < o + P THEN Len(s) ELSE o + P
<1>0. Len(s) \in Nat
  BY LenProperties
<1>1. to \in Nat /\ to <= Len(s)
  BY <1>0
<1>2. w = SubSeq(s, o + 1, to)
  OBVIOUS
<1>3. CASE Len(s) <= o
  <2>1. to < o + 1
    BY <1>0, <1>3
  <2>2. w = << >>
    BY <1>0, <1>1, <1>2, <2>1
  <2> QED
    BY <1>3, <2>2, EmptySeq
<1>4. CASE Len(s) > o
  <2>1. o + 1 \in 1..(Len(s) + 1) /\ to \in o..Len(s) /\ to - o > 0
    BY <1>0, <1>1, <1>4
  <2> HIDE DEF to
  <2>2. /\ SubSeq(s, o + 1, to) = [k \in 1..(to - o) |-> s[o + k]]
    BY <1>0, <1>1, <2>1
  <2>3. \A k \in 1..(to - o) : s[o + k] \in S
    <3> TAKE k \in 1..(to - o)
    <3>1. o + k \in 1..Len(s)
      BY <1>0, <1>1, <2>1
    <3> QED
      BY <3>1, ElementOfSeq
  <2>4. to - o \in Nat
    BY <1>1, <2>1
  <2>5. [k \in 1..(to - o) |-> s[o + k]] \in Seq(S) /\ Len([k \in 1..(to - o) |-> s[o + k]]) = to - o
    BY <2>3, <2>4, IsASeq
  <2>6. w \in Seq(S) /\ Len(w) = to - o
    BY <1>2, <2>2, <2>5
  <2> QED
    BY <1>0, <1>4, <2>6 DEF to
<1> QED
  BY <1>0, <1>3, <1>4

\* How many records of the file a query finds.
Matches(file, query) == Len(Found(file, query, Backward(file, Undefined)))

\* The next page goes on by the rows of this one.
IsNewest(a) ==
    /\ a.offset \in Nat
    /\ a.after => IF a.next # Undefined THEN a.next = a.offset + Len(a.rows) ELSE Len(a.rows) = PageSize

LEMMA ScanOfFile ==
    ASSUME NEW file, IsFile(file), Total(file) \in Nat, NEW query, NEW offset, NEW late,
           NEW seen, seen = NewestScan(file, query, offset, late),
           NEW found, found = Found(file, query, seen)
    PROVE  /\ seen \in Seq(Nat) /\ Len(seen) <= Total(file)
           /\ found \in Seq(Nat) /\ found \in Seq(FoundIn(file, query))
           /\ Len(seen) = Total(file) => Len(found) = Matches(file, query)
           /\ Len(seen) = Total(file) /\ Len(found) = 0 => Nothing(file, query)
<1> DEFINE path == Backward(file, Undefined)
           stops == {i \in 0..Len(path) :
                       \/ i = Len(path)
                       \/ query = "some" /\ i >= late
                       \/ Len(Found(file, query, SubSeq(path, 1, i))) > offset + PageSize}
           n == Least(stops)
<1>1. seen = SubSeq(path, 1, n)
  BY DEF NewestScan
<1>2. PICK high \in Int :
         /\ Downwards(path, file, high)
         /\ Len(path) = high + 1
         /\ high = Total(file) - 1
  BY BackwardGoesDown, OrdinalsAreNumbers DEF Ordinals
<1>3. path \in Seq(DOMAIN file) /\ Len(path) \in Nat
  BY <1>2, LenProperties DEF Downwards
<1>4. Len(path) \in stops /\ stops \in SUBSET Nat
  BY <1>3
<1>5. path = Backward(file, Undefined)
  OBVIOUS
<1> HIDE DEF path
<1>6. n \in 0..Len(path)
  <2>1. n \in stops
    BY <1>4, LeastIsLeast
  <2> QED
    BY <2>1
<1> HIDE DEF n
<1>7. /\ seen \in Seq(DOMAIN file) /\ Len(seen) = n
      /\ n = Len(path) => seen = path
  BY <1>1, <1>3, <1>6, FirstPart
<1>8. Falling(found, n, high, FoundIn(file, query))
  BY <1>1, <1>2, <1>6, FoundDownwards
<1>9. DOMAIN file \subseteq Nat
  BY DEF IsFile
<1>10. seen \in Seq(Nat)
  BY <1>7, <1>9
<1>11. n = Total(file) <=> n = Len(path)
  BY <1>2
<1>12. ASSUME n = Total(file), Len(found) = 0
       PROVE  Nothing(file, query)
  <2>1. ASSUME NEW i \in FoundIn(file, query)
        PROVE  FALSE
    <3>1. i \in DOMAIN file /\ i \in Nat /\ i <= high /\ 0 <= i
      BY <1>2 DEF FoundIn, IsFile
    <3>2. high + 1 - n = 0
      BY <1>2, <1>12
    <3>3. \E j \in 1..Len(found) : found[j] = i
      BY <1>8, <3>1, <3>2 DEF Falling
    <3> QED
      BY <1>12, <3>3
  <2> QED
    BY <2>1 DEF Nothing, FoundIn
<1> QED
  BY <1>2, <1>5, <1>6, <1>7, <1>8, <1>10, <1>11, <1>12 DEF Falling, Matches

LEMMA AllAreFound ==
    ASSUME NEW file, IsFile(file), Total(file) \in Nat
    PROVE  Matches(file, "all") = Total(file)
<1> DEFINE path == Backward(file, Undefined)
           S == FoundIn(file, "all")
<1>1. PICK high \in Int :
         /\ Downwards(path, file, high)
         /\ Len(path) = high + 1
         /\ high = Total(file) - 1
  BY BackwardGoesDown, OrdinalsAreNumbers DEF Ordinals
<1>2. path \in Seq(DOMAIN file) /\ Len(path) \in Nat
  BY <1>1, LenProperties DEF Downwards
<1>3. Matches(file, "all") = Len(Selected(path, S))
  BY DEF Matches, Found, FoundIn
<1>4. S = DOMAIN file
  BY DEF FoundIn, Finds
<1> HIDE DEF path, S
<1>5. Picked(Selected(path, S), Len(path), path, DOMAIN file, S)
  BY <1>2, SelectedPicks
<1>6. \A k \in 1..Len(path) : path[k] \in S
  BY <1>2, <1>4, ElementOfSeq
<1>7. Len(Selected(path, S)) = Len(path)
  BY <1>5, <1>6 DEF Picked
<1> QED
  BY <1>1, <1>3, <1>7

LEMMA SortedPage ==
    ASSUME NEW file, IsFile(file), Total(file) \in Nat, NEW query \in Queries,
           NEW offset \in Nat, NEW late,
           NEW a, a = NewestPage(file, query, offset, late)
    PROVE  /\ a \in Answers
           /\ a.offset = offset /\ IsNewest(a)
           /\ a.rows \in Seq(FoundIn(file, query))
           /\ a.total = Total(file)
           /\ a.rows = << >> /\ a.cut = "no" =>
                /\ a.matched = Matches(file, query) /\ Matches(file, query) <= offset
                /\ offset = 0 => Nothing(file, query)
<1> DEFINE seen == NewestScan(file, query, offset, late)
           found == Found(file, query, seen)
           window == SubSeq(found, offset + 1,
                            IF Len(found) < offset + PageSize THEN Len(found) ELSE offset + PageSize)
           fitting == {n \in 0..Len(window) :
                         n <= 1 \/ Weight(file, SubSeq(window, 1, n)) <= PageBytes}
           n == CHOOSE x \in fitting : \A k \in fitting : k <= x
           rows == SubSeq(window, 1, n)
           trimmed == Len(rows) < Len(window)
           stopped == Len(seen) < Total(file) /\ Len(found) <= offset + PageSize
           cut == trimmed \/ stopped \/ Unseen(file, query, seen)
<1>1. /\ a.rows = rows
      /\ a.anchor = IF rows = << >> THEN 0 ELSE Last(rows)
      /\ a.before = (offset > 0)
      /\ a.after = (trimmed \/ Len(found) > offset + Len(rows))
      /\ a.after <=> trimmed \/ Len(found) > offset + Len(rows)
      /\ a.cut = IF cut THEN "backward" ELSE "no"
      /\ a.cursor = IF trimmed THEN window[Len(rows) + 1] + 1
                    ELSE IF query = "some" /\ seen # << >> THEN Last(seen)
                    ELSE IF query = "all" /\ rows # << >> THEN Last(rows) ELSE Undefined
      /\ a.total = Total(file) /\ a.offset = offset
      /\ a.next = IF trimmed THEN offset + Len(rows) ELSE Undefined
      /\ a.matched = IF query = "all" THEN Total(file) ELSE Len(found)
      /\ a = [rows |-> a.rows, anchor |-> a.anchor, before |-> a.before, after |-> a.after,
              cut |-> a.cut, cursor |-> a.cursor, total |-> a.total, offset |-> a.offset,
              next |-> a.next, matched |-> a.matched]
  BY DEF NewestPage
<1>2. /\ seen \in Seq(Nat) /\ Len(seen) <= Total(file)
      /\ found \in Seq(Nat) /\ found \in Seq(FoundIn(file, query))
      /\ Len(seen) = Total(file) => Len(found) = Matches(file, query)
      /\ Len(seen) = Total(file) /\ Len(found) = 0 => Nothing(file, query)
  BY ScanOfFile
<1> HIDE DEF seen, found
<1>3. Len(seen) \in Nat /\ Len(found) \in Nat /\ PageSize \in Nat \ {0}
  BY <1>2, LenProperties, PagesAssumption
<1>4. /\ window \in Seq(Nat) /\ window \in Seq(FoundIn(file, query))
      /\ Len(window) = IF Len(found) <= offset THEN 0
                       ELSE IF Len(found) < offset + PageSize THEN Len(found) - offset ELSE PageSize
  BY <1>2, <1>3, WindowOf
<1> HIDE DEF window
<1>5. Len(window) \in Nat
  BY <1>4, LenProperties
<1>6. n \in fitting /\ \A k \in fitting : k <= n
  <2>1. 0 \in fitting /\ fitting \in SUBSET (0..Len(window))
    BY <1>5
  <2> HIDE DEF fitting
  <2>2. \E x \in fitting : \A k \in fitting : k <= x
    BY <1>5, <2>1, GreatestExists
  <2> QED
    BY <2>2
<1>7. 1 \in fitting \/ Len(window) = 0
  BY <1>5
<1>8. n \in 0..Len(window) /\ (n = 0 => Len(window) = 0)
  <2>1. n \in 0..Len(window)
    BY <1>6
  <2> HIDE DEF fitting, n
  <2> QED
    BY <1>5, <1>6, <1>7, <2>1
<1> HIDE DEF fitting, n
<1>9. rows \in Seq(Nat) /\ rows \in Seq(FoundIn(file, query)) /\ Len(rows) = n
  BY <1>4, <1>8, FirstPart
<1> HIDE DEF rows
<1>10. rows = << >> <=> n = 0
  BY <1>9, EmptyOrNot
<1>11. rows # << >> => Last(rows) \in Nat
  BY <1>9, EmptyOrNot, ElementOfSeq
<1>12. seen # << >> => Last(seen) \in Nat
  BY <1>2, EmptyOrNot, ElementOfSeq
<1>13. trimmed => window[Len(rows) + 1] \in Nat
  <2> SUFFICES ASSUME trimmed PROVE window[Len(rows) + 1] \in Nat
    OBVIOUS
  <2>1. Len(rows) + 1 \in 1..Len(window)
    BY <1>5, <1>8, <1>9
  <2> QED
    BY <1>4, <2>1, ElementOfSeq
<1>14. (offset > 0) \in BOOLEAN /\ (trimmed \/ Len(found) > offset + Len(rows)) \in BOOLEAN
  OBVIOUS
<1>15. a.cursor \in Ordinals /\ a.next \in Ordinals /\ a.matched \in Ordinals
  BY <1>1, <1>3, <1>8, <1>9, <1>11, <1>12, <1>13 DEF Ordinals
<1>16. a.anchor \in Nat /\ a.before \in BOOLEAN /\ a.after \in BOOLEAN
  BY <1>1, <1>11, <1>14
<1>17. a \in Answers
  BY <1>1, <1>9, <1>15, <1>16 DEF Answers, Directions, Ordinals
<1>18. IsNewest(a)
  <2> SUFFICES ASSUME a.after
               PROVE  IF a.next # Undefined THEN a.next = offset + Len(rows) ELSE Len(rows) = PageSize
    BY <1>1 DEF IsNewest
  <2>1. CASE trimmed
    BY <1>1, <1>8, <1>9, <2>1, PagesAssumption
  <2>2. CASE ~trimmed
    BY <1>1, <1>3, <1>4, <1>5, <1>8, <1>9, <2>2
  <2> QED
    BY <2>1, <2>2
<1>19. ASSUME a.rows = << >>, a.cut = "no"
       PROVE  /\ a.matched = Matches(file, query) /\ Matches(file, query) <= offset
              /\ offset = 0 => Nothing(file, query)
  <2>1. ~stopped
    BY <1>1, <1>19
  <2>2. Len(found) <= offset
    BY <1>1, <1>3, <1>4, <1>8, <1>10, <1>19
  <2>3. Len(seen) = Total(file)
    BY <1>2, <1>3, <2>1, <2>2
  <2>4. Len(found) = Matches(file, query)
    BY <1>2, <2>3
  <2>5. query = "all" => Matches(file, query) = Total(file)
    BY AllAreFound
  <2>6. a.matched = Matches(file, query)
    BY <1>1, <2>4, <2>5
  <2>7. offset = 0 => Nothing(file, query)
    BY <1>2, <1>3, <2>2, <2>3
  <2> QED
    BY <2>2, <2>4, <2>6, <2>7
<1> QED
  BY <1>1, <1>9, <1>17, <1>18, <1>19

-----------------------------------------------------------------------------
(* Offsets, pages and the back-stack *)

\* What lies before an offset, in rising order.
Rises(history, offset) ==
    /\ \A k \in 1..Len(history) : history[k] < offset
    /\ \A j, k \in 1..Len(history) : j < k => history[j] < history[k]

LEMMA KeptHistory ==
    ASSUME NEW history \in Seq(Nat), NEW offset \in Nat, Rises(history, offset),
           NEW kept, kept = NormalHistory(history, offset)
    PROVE  /\ kept \in Seq(Nat) /\ Rises(kept, offset)
           /\ history # << >> => kept # << >> /\ Last(kept) = Last(history)
<1> DEFINE S == {o \in ToSet(history) : o < offset}
           n == Len(history)
<1>1. Picked(kept, n, history, Nat, S)
  BY SelectedPicks DEF NormalHistory
<1>2. \A k \in 1..n : history[k] \in Nat /\ history[k] \in S
  <2> TAKE k \in 1..n
  <2>1. history[k] \in Nat
    BY ElementOfSeq
  <2>2. history[k] \in ToSet(history)
    BY LenProperties DEF ToSet
  <2> QED
    BY <2>1, <2>2 DEF Rises
<1> HIDE DEF S
<1>3. n \in Nat /\ kept \in Seq(Nat) /\ Len(kept) \in Nat
  BY <1>1, LenProperties DEF Picked
<1> HIDE DEF n
<1>4. ASSUME NEW k \in 1..Len(kept)
      PROVE  kept[k] < offset
  <2>1. PICK j \in 1..n : kept[k] = history[j]
    BY <1>1 DEF Picked
  <2> QED
    BY <2>1 DEF Rises, n
<1>5. ASSUME NEW j \in 1..Len(kept), NEW k \in 1..Len(kept), j < k
      PROVE  kept[j] < kept[k]
  <2>1. PICK a, b \in 1..n : a < b /\ kept[j] = history[a] /\ kept[k] = history[b]
    BY <1>1, <1>5 DEF Picked
  <2> QED
    BY <2>1 DEF Rises, n
<1>6. ASSUME history # << >>
      PROVE  kept # << >> /\ Last(kept) = Last(history)
  <2>1. n # 0 /\ n \in 1..n /\ Last(history) = history[n]
    BY <1>6, EmptyOrNot DEF n
  <2>2. Len(kept) # 0 /\ kept[Len(kept)] = history[n]
    BY <1>1, <1>2, <2>1 DEF Picked
  <2>3. kept # << >> /\ Last(kept) = kept[Len(kept)]
    BY <1>3, <2>2, EmptyOrNot
  <2> QED
    BY <2>1, <2>2, <2>3
<1> QED
  BY <1>3, <1>4, <1>5, <1>6 DEF Rises

LEMMA HistoryGrows ==
    ASSUME NEW kept \in Seq(Nat), NEW offset \in Nat, Rises(kept, offset),
           NEW next \in Nat, offset < next,
           NEW grown, grown = Append(kept, offset)
    PROVE  /\ grown \in Seq(Nat) /\ Rises(grown, next)
           /\ grown # << >> /\ Last(grown) = offset
<1> DEFINE m == Len(kept) + 1
<1>1. Len(kept) \in Nat
  BY LenProperties
<1>2. /\ grown \in Seq(Nat) /\ Len(grown) = m /\ grown[m] = offset
      /\ \A j \in 1..Len(kept) : grown[j] = kept[j]
  BY <1>1, AppendProperties
<1>3. \A j \in 1..m : j = m \/ (j \in 1..Len(kept) /\ j < m)
  BY <1>1
<1>4. \A j \in 1..Len(kept) : kept[j] \in Nat /\ kept[j] < offset
  BY ElementOfSeq DEF Rises
<1>5. m \in Nat /\ m # 0
  BY <1>1
<1> HIDE DEF m
<1>6. \A k \in 1..m : grown[k] < next
  BY <1>2, <1>3, <1>4
<1>7. ASSUME NEW j \in 1..m, NEW k \in 1..m, j < k
      PROVE  grown[j] < grown[k]
  <2>1. j \in 1..Len(kept)
    BY <1>3, <1>5, <1>7
  <2>2. CASE k = m
    BY <1>2, <1>4, <2>1, <2>2
  <2>3. CASE k \in 1..Len(kept)
    BY <1>2, <1>7, <2>1, <2>3 DEF Rises
  <2> QED
    BY <1>3, <2>2, <2>3
<1> QED
  BY <1>2, <1>5, <1>6, <1>7, EmptyOrNot DEF Rises

LEMMA HistoryShrinks ==
    ASSUME NEW kept \in Seq(Nat), NEW offset \in Nat, Rises(kept, offset), kept # << >>
    PROVE  /\ Front(kept) \in Seq(Nat) /\ Last(kept) \in Nat
           /\ Rises(Front(kept), Last(kept)) /\ Last(kept) < offset
<1> DEFINE m == Len(kept)
<1>1. m \in Nat /\ m # 0 /\ m \in 1..m /\ Last(kept) = kept[m]
  BY EmptyOrNot, LenProperties
<1>2. m - 1 \in 0..m /\ \A k \in 1..(m - 1) : k \in 1..m /\ k < m
  BY <1>1
<1>3. Front(kept) = SubSeq(kept, 1, m - 1)
  BY DEF Front
<1>4. /\ Front(kept) \in Seq(Nat) /\ Len(Front(kept)) = m - 1
      /\ \A k \in 1..(m - 1) : Front(kept)[k] = kept[k]
  <2> DEFINE s == SubSeq(kept, 1, m - 1)
  <2>1. /\ s \in Seq(Nat) /\ Len(s) = m - 1
        /\ \A k \in 1..(m - 1) : s[k] = kept[k]
    BY <1>2, FirstPart
  <2> HIDE DEF s
  <2>2. Front(kept) = s
    BY <1>3 DEF s
  <2> QED
    BY <2>1, <2>2
<1>5. \A j, k \in 1..m : j < k => kept[j] < kept[k]
  BY DEF Rises
<1>6. kept[m] \in Nat /\ kept[m] < offset
  BY <1>1, ElementOfSeq DEF Rises
<1> HIDE DEF m
<1> QED
  BY <1>1, <1>2, <1>4, <1>5, <1>6 DEF Rises

LEMMA PagesOfOffsets ==
    /\ \A n \in Nat : n \div PageSize \in Nat
    /\ \A n \in Nat : (n \div PageSize) * PageSize \in Nat /\ (n \div PageSize) * PageSize <= n
    /\ \A o \in Ordinals : PageFromOrdinal(o) \in Numbers
    /\ \A n \in Numbers : LastPageStart(n) \in Nat /\ LastPageStart(n) < n
    /\ \A p \in Numbers : (p - 1) * PageSize \in Nat
    /\ \A p \in Numbers : AnchorForPage(p) \in Ordinals
<1>1. PageSize \in Nat /\ PageSize > 0
  BY PagesAssumption
<1>2. ASSUME NEW n \in Nat
      PROVE  /\ n \div PageSize \in Nat
             /\ (n \div PageSize) * PageSize \in Nat /\ (n \div PageSize) * PageSize <= n
  BY <1>1, SMT
<1>3. ASSUME NEW o \in Ordinals
      PROVE  PageFromOrdinal(o) \in Numbers
  BY <1>2, OrdinalsAreNumbers DEF PageFromOrdinal, Numbers
<1>4. ASSUME NEW n \in Numbers
      PROVE  LastPageStart(n) \in Nat /\ LastPageStart(n) < n
  <2>1. n - 1 \in Nat /\ n \in Nat
    BY DEF Numbers
  <2>2. LastPageStart(n) \in Nat /\ LastPageStart(n) <= n - 1
    BY <1>2, <2>1 DEF LastPageStart
  <2> QED
    BY <2>1, <2>2
<1>5. ASSUME NEW p \in Numbers
      PROVE  (p - 1) * PageSize \in Nat
  BY <1>1 DEF Numbers
<1>6. ASSUME NEW p \in Numbers
      PROVE  AnchorForPage(p) \in Ordinals
  <2>1. CASE p <= 1
    BY <2>1 DEF AnchorForPage, Ordinals
  <2>2. CASE p > 1
    <3> DEFINE x == (p - 1) * PageSize
    <3>1. p \in Nat /\ x \in Nat /\ p - 1 \in Nat /\ p - 1 > 0
      BY <1>5, <2>2 DEF Numbers
    <3>2. x > 0
      BY <1>1, <3>1
    <3>3. AnchorForPage(p) = x - 1
      BY <2>2, <3>1 DEF AnchorForPage
    <3> HIDE DEF x
    <3> QED
      BY <3>1, <3>2, <3>3 DEF Ordinals
  <2> QED
    BY <2>1, <2>2 DEF Numbers
<1> QED
  BY <1>2, <1>3, <1>4, <1>5, <1>6

-----------------------------------------------------------------------------
(* The types of the fields *)

Boxes == [text : Numbers, dirty : BOOLEAN, sent : BOOLEAN]
Viewports == [query : Queries, first : Ordinals]
Captures == [query : Queries, viewportQuery : Queries, first : Ordinals, text : Numbers,
             options : Options]
Controllers ==
    [query : Queries, sort : Sorts, descending : BOOLEAN, offset : Nat, history : Seq(Nat),
     page : Numbers, box : Boxes, viewport : Viewports \cup {None},
     pending : Inputs \cup {None}, rebuild : Captures \cup {None},
     restore : Restores \cup {None}]
Reasons == {"none", "append", "lost"}
Views == [gen : 0..Len(Files), complete : BOOLEAN, follow : BOOLEAN,
          reason : Reasons, page : Pages \cup {None}]
Wires == [rows : Requests \cup {None}, rebuild : BOOLEAN, order : {None, "asc", "desc"}]
Ghosts == [restored : BOOLEAN, touched : BOOLEAN, mishap : BOOLEAN, reset : BOOLEAN,
           retries : Nat, lost : BOOLEAN]
Hows == [restores : BOOLEAN, supersedes : BOOLEAN, phase : {"initial", "retrying"},
         submits : BOOLEAN, always : BOOLEAN]
Askers == [by : {"next", "previous", "retry", "other"}, left : Pages \cup {None}]

LEMMA HowsAndAskers ==
    /\ Plain \in Hows /\ Plain.supersedes /\ ~Plain.restores /\ ~Plain.always
    /\ [Plain EXCEPT !.submits = TRUE] \in Hows /\ [Plain EXCEPT !.submits = TRUE].supersedes
    /\ \A phase \in {"initial", "retrying"} :
          /\ Restoring(phase) \in Hows /\ Restoring(phase).restores /\ ~Restoring(phase).supersedes
          /\ Restoring(phase).phase = phase
    /\ Nobody \in Askers /\ Nobody.by = "other"
    /\ \A page \in Pages, by \in {"next", "previous"} :
          Asker(by, page) \in Askers /\ Asker(by, page).by = by /\ Asker(by, page).left = page
    /\ Asker("retry", None) \in Askers /\ Asker("retry", None).by = "retry"
  BY DEF Plain, Restoring, Nobody, Asker, Hows, Askers

LEMMA OptionsAreOptions ==
    /\ NoOptions \in Options /\ ToTail \in Options
    /\ \A o \in Ordinals : After(o) \in Options /\ At(o) \in Options
    /\ \A o \in Ordinals : [After(o) EXCEPT !.direction = "backward"] \in Options
  BY OrdinalsAreNumbers DEF NoOptions, ToTail, After, At, Options, Ordinals, Directions

LEMMA OptionFields ==
    /\ NoOptions.anchor = Undefined /\ NoOptions.offset = Undefined
    /\ NoOptions.direction = "unset" /\ NoOptions.sort = "unset"
    /\ ToTail.anchor = Undefined /\ ToTail.offset = Undefined
    /\ ToTail.direction = "backward" /\ ToTail.sort = "unset"
    /\ \A o : /\ After(o).anchor = o /\ After(o).direction = "forward"
              /\ After(o).offset = Undefined /\ After(o).sort = "unset"
              /\ At(o).anchor = Undefined /\ At(o).direction = "unset"
              /\ At(o).offset = o /\ At(o).sort = "unset"
              /\ [After(o) EXCEPT !.direction = "backward"].anchor = o
              /\ [After(o) EXCEPT !.direction = "backward"].direction = "backward"
              /\ [After(o) EXCEPT !.direction = "backward"].offset = Undefined
              /\ [After(o) EXCEPT !.direction = "backward"].sort = "unset"
  BY DEF NoOptions, ToTail, After, At

\* Two controllers that differ in what a request sets.
SamePlace(c, d) == d.query = c.query /\ d.sort = c.sort /\ d.descending = c.descending
                   /\ d.offset = c.offset /\ d.history = c.history
SameButRequest(c, d) ==
    SamePlace(c, d) /\ d.page = c.page /\ d.viewport = c.viewport /\ d.rebuild = c.rebuild

LEMMA ControllerHelpers ==
    ASSUME NEW c \in Controllers
    PROVE  /\ AbandonRestore(c) \in Controllers /\ SameButRequest(c, AbandonRestore(c))
           /\ AbandonRestore(c).restore = None /\ AbandonRestore(c).pending = c.pending
           /\ AbandonRestore(c).box = c.box
           /\ ReleaseSubmission(c) \in Controllers /\ SameButRequest(c, ReleaseSubmission(c))
           /\ ReleaseSubmission(c).restore = c.restore /\ ReleaseSubmission(c).pending = c.pending
           /\ ~ReleaseSubmission(c).box.sent
           /\ ReleaseSubmission(c).box.text = c.box.text
<1>1. /\ AbandonRestore(c) \in Controllers /\ SameButRequest(c, AbandonRestore(c))
      /\ AbandonRestore(c).restore = None /\ AbandonRestore(c).pending = c.pending
      /\ AbandonRestore(c).box = c.box
  BY DEF AbandonRestore, Controllers, SameButRequest, SamePlace
<1>2. /\ ReleaseSubmission(c) \in Controllers /\ SameButRequest(c, ReleaseSubmission(c))
      /\ ReleaseSubmission(c).restore = c.restore /\ ReleaseSubmission(c).pending = c.pending
      /\ ~ReleaseSubmission(c).box.sent
      /\ ReleaseSubmission(c).box.text = c.box.text
  BY DEF ReleaseSubmission, Controllers, Boxes, SameButRequest, SamePlace
<1> QED
  BY <1>1, <1>2

\* What a request is asked with.
SortAsked(c, u, opts) == IF ~u.complete THEN "none" ELSE IF opts.sort # "unset" THEN opts.sort ELSE c.sort
Asking(c, w, u, query, opts, how, asker, d, v) ==
    /\ d \in Controllers /\ SameButRequest(c, d)
    /\ d.box.text = c.box.text
    /\ d.restore = IF how.supersedes \/ c.restore = None THEN None
                   ELSE IF how.restores THEN [c.restore EXCEPT !.phase = how.phase] ELSE c.restore
    /\ d.pending \in Inputs /\ d.pending.query = query /\ d.pending.restores = how.restores
    /\ d.pending.options.anchor = opts.anchor /\ d.pending.options.direction = opts.direction
    /\ d.pending.options.offset = v.rows.offset
    /\ v \in Wires /\ v.rebuild = w.rebuild /\ v.order = w.order
    /\ v.rows \in Requests /\ v.rows.query = query
    /\ v.rows.by = asker.by /\ v.rows.left = asker.left
    /\ v.rows.sort = SortAsked(c, u, opts)
    /\ v.rows.offset = IF v.rows.sort = "none" THEN Undefined ELSE OneOf(opts.offset, c.offset)
    /\ v.rows.anchor = IF v.rows.sort = "none" THEN opts.anchor ELSE Undefined
    /\ v.rows.direction = IF v.rows.sort = "none" /\ opts.direction = "backward"
                          THEN "backward" ELSE "forward"

LEMMA RequestAsks ==
    ASSUME NEW c \in Controllers, NEW w \in Wires, NEW u \in Views, NEW query \in Queries,
           NEW opts \in Options, NEW how \in Hows, NEW asker \in Askers,
           Readable(u.reason) \/ how.always,
           NEW next, next = RequestRows(c, w, u, query, opts, how, asker)
    PROVE  Asking(c, w, u, query, opts, how, asker, next.ctl, next.wire)
<1> DEFINE sort == SortAsked(c, u, opts)
           offset == IF sort = "none" THEN Undefined ELSE OneOf(opts.offset, c.offset)
           kept == IF how.supersedes THEN None ELSE c.restore
           restore == IF how.restores /\ kept # None THEN [kept EXCEPT !.phase = how.phase] ELSE kept
           asked == [opts EXCEPT !.sort = IF sort = "none" THEN "unset" ELSE sort, !.offset = offset]
           pending == [query |-> query, options |-> asked, restores |-> how.restores]
           released == ReleaseSubmission(c)
           box == [released.box EXCEPT !.sent = how.submits]
           d == [released EXCEPT !.restore = restore, !.box = box, !.pending = pending]
           rows == [query |-> query, sort |-> sort, offset |-> offset,
                    anchor |-> IF sort = "none" THEN opts.anchor ELSE Undefined,
                    direction |-> IF sort = "none" /\ opts.direction = "backward"
                                  THEN "backward" ELSE "forward",
                    by |-> asker.by, left |-> asker.left]
           v == [w EXCEPT !.rows = rows]
<1>1. next = [ctl |-> [released EXCEPT !.restore = restore, !.box.sent = how.submits, !.pending = pending],
              wire |-> v]
  BY DEF RequestRows, SortAsked
<1>2. [released EXCEPT !.restore = restore, !.box.sent = how.submits, !.pending = pending] = d
  BY ControllerHelpers DEF Controllers
<1>3. next.ctl = d /\ next.wire = v
  BY <1>1, <1>2
<1>4. released \in Controllers /\ SameButRequest(c, released) /\ released.box.text = c.box.text
  BY ControllerHelpers
<1> HIDE DEF released
<1>5. sort \in Sorts
  BY DEF SortAsked, Options, Controllers, Sorts
<1>6. offset \in Ordinals
  BY OrdinalsAreNumbers DEF Options, Controllers, Ordinals
<1>7. restore \in Restores \cup {None}
  <2>1. kept \in Restores \cup {None}
    BY DEF Controllers
  <2>2. \A r \in Restores : [r EXCEPT !.phase = how.phase] \in Restores
    BY DEF Restores, Hows
  <2> QED
    BY <2>1, <2>2
<1>8. asked \in Options /\ asked.offset = offset /\ asked.anchor = opts.anchor
      /\ asked.direction = opts.direction
  BY <1>5, <1>6 DEF Options, Sorts
<1>9. restore = IF how.supersedes \/ c.restore = None THEN None
                ELSE IF how.restores THEN [c.restore EXCEPT !.phase = how.phase] ELSE c.restore
  OBVIOUS
<1>10. rows \in Requests
  BY <1>5, <1>6 DEF Requests, Askers, Options, Ordinals, Directions
<1>11. /\ rows.query = query /\ rows.sort = sort /\ rows.offset = offset
       /\ rows.anchor = IF sort = "none" THEN opts.anchor ELSE Undefined
       /\ rows.direction = IF sort = "none" /\ opts.direction = "backward"
                           THEN "backward" ELSE "forward"
       /\ rows.by = asker.by /\ rows.left = asker.left
  OBVIOUS
<1>12. sort = SortAsked(c, u, opts) /\ offset = IF sort = "none" THEN Undefined ELSE OneOf(opts.offset, c.offset)
  OBVIOUS
<1> HIDE DEF rows, restore, asked, sort, offset
<1>13. pending \in Inputs /\ pending.query = query /\ pending.restores = how.restores /\ pending.options = asked
  BY <1>8 DEF Inputs, Hows
<1> HIDE DEF pending
<1>14. box \in Boxes /\ box.text = c.box.text
  BY <1>4 DEF Controllers, Boxes, Hows
<1> HIDE DEF box
<1>15. d \in Controllers /\ d.restore = restore /\ d.box = box /\ d.pending = pending
       /\ SameButRequest(released, d)
  BY <1>4, <1>7, <1>13, <1>14 DEF Controllers, SameButRequest, SamePlace
<1>16. v \in Wires /\ v.rows = rows /\ v.rebuild = w.rebuild /\ v.order = w.order
  BY <1>10 DEF Wires
<1> HIDE DEF d, v
<1>17. SameButRequest(c, d)
  BY <1>4, <1>15 DEF SameButRequest, SamePlace
<1> QED
  BY <1>3, <1>8, <1>9, <1>10, <1>11, <1>12, <1>13, <1>14, <1>15, <1>16, <1>17 DEF Asking

-----------------------------------------------------------------------------
(* The pages and the restore: the inductive invariant *)

\* What holds of the fields whether or not rows are on their way.
Settled(c, w, u) ==
    /\ u.gen > 0 /\ c.sort = "newest" => u.complete
    /\ w.order # None => u.complete /\ u.gen > 0
    /\ c.rebuild # None => w.rebuild
    /\ c.restore # None => c.restore.query = c.query
    /\ Rises(c.history, c.offset)

\* The request on its way is the one that pending and restore speak of.
RowsAsked(c, r, u, g) ==
    /\ u.gen > 0 /\ Readable(u.reason)
    /\ ~g.lost => r.query = c.query
    /\ r.sort = "newest" => u.complete /\ r.offset \in Nat /\ r.direction = "forward"
    /\ r.sort = "none" => r.offset = Undefined /\ c.sort = "none"
    /\ r.by \in {"next", "previous"} => r.left # None /\ c.restore = None
AsPending(p, r) ==
    /\ p.query = r.query /\ p.options.offset = r.offset
    /\ r.sort = "none" => /\ r.anchor = p.options.anchor
                          /\ r.direction = "backward" <=> p.options.direction = "backward"
InFlight(c, w, u, g) ==
    /\ w.rows # None => RowsAsked(c, w.rows, u, g)
    /\ c.pending # None => w.rows # None /\ AsPending(c.pending, w.rows)
    /\ c.box.sent => c.pending # None
    /\ c.restore # None =>
         IF w.rows = None THEN ~u.complete /\ c.restore.phase = "waiting-index"
         ELSE c.pending # None /\ c.pending.restores /\ c.restore.phase # "waiting-index"

Base == /\ ui \in Views /\ ctl \in Controllers /\ wire \in Wires /\ ghost \in Ghosts
        /\ Settled(ctl, wire, ui) /\ InFlight(ctl, wire, ui, ghost)

\* The page shown is one that a read answers with, and a sorted view is where it is.
IsPage(file, p) ==
    IF p.sort = "none" THEN IsPhysical(file, p, p.query, p.direction, p.start) ELSE IsNewest(p)
ComesFrom(c, o) == c.history # << >> /\ Last(c.history) = o /\ o < c.offset
IsAt(c, p) ==
    c.sort = "newest" /\ p.sort = "newest" /\ p.query = c.query =>
        /\ c.offset = p.offset
        /\ p.from # Undefined => ComesFrom(c, p.from)
IsOnTheWay(c, r) ==
    c.sort = "newest" /\ r.sort = "newest" /\ r.left.query = r.query /\ r.left.offset # Undefined =>
        c.offset = r.offset /\ ComesFrom(c, r.left.offset)
Placed(c, w, u, g) ==
    ~g.lost =>
        /\ u.page # None /\ w.rows = None =>
             IsPage(Files[u.gen], u.page) /\ (Readable(u.reason) => IsAt(c, u.page))
        /\ w.rows # None /\ w.rows.by = "next" => IsOnTheWay(c, w.rows)

\* While neither the user nor a mishap comes between, what is asked for finds
\* something if there is something to be found, or is the first request of a restore.
IsSafe(file, r) ==
    IF r.sort = "newest" THEN r.offset = 0 \/ r.offset < Matches(file, r.query)
    ELSE Leaves(file, r.query, r.anchor, r.direction)
Calm(g) == g.restored /\ ~g.touched /\ ~g.mishap /\ ~g.reset
IsBlank(p) == p # None /\ p.cut = "no" /\ p.rows = << >>
IsSeen(file, v, query) ==
    v.query = query /\ (v.first # Undefined => v.first \in FoundIn(file, query))
Restored(c, w, u, g) ==
    Calm(g) =>
        /\ ~g.lost /\ u.reason = "none" /\ ~u.follow /\ u.gen > 0
        /\ c.viewport # None => IsSeen(Files[u.gen], c.viewport, c.query)
        /\ w.rows # None => \/ IsSafe(Files[u.gen], w.rows)
                            \/ c.restore # None /\ c.restore.phase = "initial"
        /\ w.rows = None /\ c.restore # None =>
             c.restore.requested # None /\ c.restore.requested.offset = Undefined
        /\ w.rows = None /\ IsBlank(u.page) =>
             \/ Nothing(Files[u.gen], u.page.query)
             \/ /\ c.restore # None
                /\ ~Leaves(Files[u.gen], c.query, c.restore.requested.anchor,
                           c.restore.requested.direction)

Inv == /\ Base /\ Placed(ctl, wire, ui, ghost) /\ Restored(ctl, wire, ui, ghost)
       /\ PagesFollowOneAnother

-----------------------------------------------------------------------------
(* What a request leads to *)

\* Who may ask how: a request takes the restore away or is its own; one that is
\* made by Next or Previous has the page it was made from.
MayAsk(c, u, how, asker) ==
    /\ Readable(u.reason) /\ u.gen > 0
    /\ how.supersedes \/ how.restores \/ c.restore = None
    /\ asker.by \in {"next", "previous"} => asker.left # None /\ how.supersedes

LEMMA AskingIsInFlight ==
    ASSUME NEW c \in Controllers, NEW w \in Wires, NEW u \in Views,
           NEW opts \in Options, NEW how \in Hows, NEW asker \in Askers,
           Settled(c, w, u), MayAsk(c, u, how, asker),
           NEW d, NEW v, Asking(c, w, u, c.query, opts, how, asker, d, v)
    PROVE  Settled(d, v, u) /\ \A g : InFlight(d, v, u, g)
<1>1. /\ d \in Controllers /\ SameButRequest(c, d)
      /\ d.restore = IF how.supersedes \/ c.restore = None THEN None
                     ELSE IF how.restores THEN [c.restore EXCEPT !.phase = how.phase] ELSE c.restore
      /\ d.pending \in Inputs /\ d.pending.query = c.query /\ d.pending.restores = how.restores
      /\ d.pending.options.anchor = opts.anchor /\ d.pending.options.direction = opts.direction
      /\ d.pending.options.offset = v.rows.offset
      /\ v \in Wires /\ v.rebuild = w.rebuild /\ v.order = w.order
      /\ v.rows \in Requests /\ v.rows.query = c.query
      /\ v.rows.by = asker.by /\ v.rows.left = asker.left
      /\ v.rows.sort = SortAsked(c, u, opts)
      /\ v.rows.offset = IF v.rows.sort = "none" THEN Undefined ELSE OneOf(opts.offset, c.offset)
      /\ v.rows.anchor = IF v.rows.sort = "none" THEN opts.anchor ELSE Undefined
      /\ v.rows.direction = IF v.rows.sort = "none" /\ opts.direction = "backward"
                            THEN "backward" ELSE "forward"
  BY DEF Asking
<1>2. v.rows # None /\ d.pending # None
  BY <1>1, NoneAssumption
<1>3. c.restore # None =>
        /\ c.restore \in Restores
        /\ [c.restore EXCEPT !.phase = how.phase].query = c.restore.query
        /\ [c.restore EXCEPT !.phase = how.phase].phase = how.phase
  BY DEF Controllers, Restores
<1>4. d.restore # None => d.restore.query = c.query /\ d.restore.phase = how.phase /\ how.restores
  BY <1>1, <1>3 DEF Settled, MayAsk
<1>5. Settled(d, v, u)
  BY <1>1, <1>4 DEF Settled, SameButRequest, SamePlace
<1>6. v.rows.sort = "none" => c.sort = "none"
  BY <1>1 DEF SortAsked, Settled, MayAsk, Controllers, Options, Sorts
<1>7. v.rows.sort = "newest" => u.complete /\ v.rows.offset \in Nat /\ v.rows.direction = "forward"
  <2>1. SortAsked(c, u, opts) = "newest" => u.complete
    BY DEF SortAsked
  <2>2. OneOf(opts.offset, c.offset) \in Nat
    BY OrdinalsAreNumbers DEF Options, Controllers, Ordinals
  <2> QED
    BY <1>1, <2>1, <2>2
<1>8. ASSUME NEW g
      PROVE  RowsAsked(d, v.rows, u, g)
  <2>1. asker.by \in {"next", "previous"} => asker.left # None /\ d.restore = None
    BY <1>1 DEF MayAsk
  <2> QED
    BY <1>1, <1>6, <1>7, <2>1 DEF RowsAsked, MayAsk, SameButRequest, SamePlace
<1>9. AsPending(d.pending, v.rows)
  BY <1>1 DEF AsPending
<1>10. d.restore # None => d.restore.phase # "waiting-index"
  BY <1>4 DEF Hows
<1> QED
  BY <1>1, <1>2, <1>4, <1>5, <1>8, <1>9, <1>10 DEF InFlight

\* A request that is made for the fields c and the view u.
LEMMA AsksBase ==
    ASSUME NEW c \in Controllers, NEW w \in Wires, NEW u \in Views,
           NEW opts \in Options, NEW how \in Hows, NEW asker \in Askers,
           Asks(c, w, u, c.query, opts, how, asker),
           Settled(c, w, u), MayAsk(c, u, how, asker), ghost' \in Ghosts
    PROVE  /\ Base' /\ ui' = u
           /\ Asking(c, w, u, c.query, opts, how, asker, ctl', wire')
<1> DEFINE next == RequestRows(c, w, u, c.query, opts, how, asker)
<1>1. ctl' = next.ctl /\ wire' = next.wire /\ ui' = u
  BY DEF Asks, Leads
<1>2. c.query \in Queries
  BY DEF Controllers
<1>3. Asking(c, w, u, c.query, opts, how, asker, next.ctl, next.wire)
  BY <1>2, RequestAsks DEF MayAsk
<1> HIDE DEF next
<1>4. Settled(ctl', wire', u) /\ InFlight(ctl', wire', u, ghost')
  BY <1>1, <1>3, AskingIsInFlight
<1>5. ctl' \in Controllers /\ wire' \in Wires
  BY <1>1, <1>3 DEF Asking
<1> QED
  BY <1>1, <1>3, <1>4, <1>5 DEF Base

\* A request of the user's, but for Next and Previous.
LEMMA UserAsksInv ==
    ASSUME NEW c \in Controllers, NEW w \in Wires, NEW u \in Views,
           NEW opts \in Options, NEW how \in Hows,
           Asks(c, w, u, c.query, opts, how, Nobody),
           Settled(c, w, u), MayAsk(c, u, how, Nobody), ghost' \in Ghosts, ghost'.touched
    PROVE  Inv'
<1>1. /\ Base' /\ ui' = u
      /\ Asking(c, w, u, c.query, opts, how, Nobody, ctl', wire')
  BY HowsAndAskers, AsksBase
<1>2. wire'.rows # None /\ wire'.rows.by = "other"
  BY <1>1, HowsAndAskers, NoneAssumption DEF Asking
<1>3. Placed(ctl', wire', ui', ghost')
  BY <1>2 DEF Placed
<1>4. Restored(ctl', wire', ui', ghost')
  BY DEF Restored, Calm
<1>5. PagesFollowOneAnother'
  BY <1>2 DEF PagesFollowOneAnother
<1> QED
  BY <1>1, <1>3, <1>4, <1>5 DEF Inv

\* What is said of Next and Previous stays said while the request is on its way.
LEMMA FollowsStill ==
    ASSUME PagesFollowOneAnother, ui'.gen = ui.gen, ~ghost'.lost => ~ghost.lost,
           wire'.rows = wire.rows \/ wire'.rows = None
    PROVE  PagesFollowOneAnother'
<1>1. CASE wire'.rows = None
  BY <1>1 DEF PagesFollowOneAnother
<1>2. CASE wire'.rows = wire.rows
  BY <1>2 DEF PagesFollowOneAnother, Continues, ContinuesPhysical, ContinuesSorted, Gap, File
<1> QED
  BY <1>1, <1>2

-----------------------------------------------------------------------------
(* The user edits, submits, follows and pages *)

SameButPlace(c, d) ==
    /\ d.query = c.query /\ d.sort = c.sort /\ d.descending = c.descending
    /\ d.viewport = c.viewport /\ d.pending = c.pending /\ d.rebuild = c.rebuild
    /\ d.restore = c.restore

LEMMA PositionIsSet ==
    ASSUME NEW c \in Controllers, NEW position,
           position.offset \in Nat, position.history \in Seq(Nat), position.page \in Numbers,
           NEW d, d = SetSortPosition(c, position)
    PROVE  /\ d \in Controllers /\ SameButPlace(c, d) /\ d.box = c.box
           /\ d.offset = position.offset /\ d.history = position.history /\ d.page = position.page
BY DEF SetSortPosition, Controllers, SameButPlace

LEMMA PlaceHelpers ==
    ASSUME NEW c \in Controllers
    PROVE  /\ ResetPaging(c) \in Controllers /\ SameButPlace(c, ResetPaging(c))
           /\ ResetPaging(c).box = c.box /\ ResetPaging(c).page = 1
           /\ ResetPaging(c).offset = 0 /\ ResetPaging(c).history = << >>
           /\ \A text \in Numbers :
                /\ SetPageInput(c, text) \in Controllers /\ SameButPlace(c, SetPageInput(c, text))
                /\ SamePlace(c, SetPageInput(c, text)) /\ SetPageInput(c, text).page = c.page
                /\ SetPageInput(c, text).box.sent = c.box.sent
                /\ SetPageInput(c, text).box.text = text
<1>1. << >> \in Seq(Nat) /\ 1 \in Numbers /\ 0 \in Nat
  BY EmptySeq DEF Numbers
<1>2. ResetPaging(c) = SetSortPosition(c, [offset |-> 0, history |-> << >>, page |-> 1])
  BY DEF ResetPaging
<1>3. ASSUME NEW text \in Numbers
      PROVE  /\ SetPageInput(c, text) \in Controllers /\ SameButPlace(c, SetPageInput(c, text))
             /\ SamePlace(c, SetPageInput(c, text)) /\ SetPageInput(c, text).page = c.page
             /\ SetPageInput(c, text).box.sent = c.box.sent
             /\ SetPageInput(c, text).box.text = text
  BY DEF SetPageInput, Controllers, Boxes, SameButPlace, SamePlace
<1>4. /\ ResetPaging(c) \in Controllers /\ SameButPlace(c, ResetPaging(c))
      /\ ResetPaging(c).box = c.box /\ ResetPaging(c).page = 1
      /\ ResetPaging(c).offset = 0 /\ ResetPaging(c).history = << >>
  <2> DEFINE start == [offset |-> 0, history |-> << >>, page |-> 1]
  <2>1. start.offset = 0 /\ start.history = << >> /\ start.page = 1
    OBVIOUS
  <2>2. ResetPaging(c) = SetSortPosition(c, start)
    BY <1>2
  <2> HIDE DEF start
  <2> QED
    BY <1>1, <2>1, <2>2, PositionIsSet
<1> QED
  BY <1>3, <1>4

LEMMA NothingBefore == \A o : Rises(<< >>, o)
  BY EmptySeq DEF Rises

\* A step that makes no request.
LEMMA LeadsInv ==
    ASSUME Inv, NEW c \in Controllers, NEW w \in Wires, NEW u \in Views, Leads(c, w, u),
           ghost' \in Ghosts, Settled(c, w, u), InFlight(c, w, u, ghost'),
           Placed(c, w, u, ghost'), Restored(c, w, u, ghost'),
           u.gen = ui.gen, ~ghost'.lost => ~ghost.lost, w.rows \in {wire.rows, None}
    PROVE  Inv'
<1>1. ctl' = c /\ wire' = w /\ ui' = u
  BY DEF Leads
<1>2. PagesFollowOneAnother'
  BY <1>1, FollowsStill DEF Inv
<1> QED
  BY <1>1, <1>2 DEF Inv, Base

LEMMA PlacedStill ==
    ASSUME Inv, NEW c, NEW w, NEW u, NEW g, SamePlace(ctl, c), u.gen = ui.gen, u.page = ui.page,
           Readable(u.reason) => Readable(ui.reason), ~g.lost => ~ghost.lost,
           ~g.lost => w.rows = wire.rows
    PROVE  Placed(c, w, u, g)
BY DEF Inv, Placed, SamePlace, IsAt, ComesFrom, IsOnTheWay

\* A click is of the user's.
LEMMA ActsGhost ==
    ASSUME Inv, Acts
    PROVE  ghost' \in Ghosts /\ ghost'.touched /\ ghost'.lost = ghost.lost /\ ui.gen > 0
BY DEF Acts, Clicks, Inv, Base, Ghosts

LEMMA EditQueryInv == ASSUME Inv, NEW query \in Queries, EditQuery(query) PROVE Inv'
<1> DEFINE renamed == [ctl EXCEPT !.query = query]
           reset == ResetPaging(renamed)
           edited == ReleaseSubmission(reset)
           stale == ctl.restore # None /\ ctl.restore.query # query
           c == IF stale THEN AbandonRestore(edited) ELSE edited
<1>1. /\ ui \in Views /\ ctl \in Controllers /\ wire \in Wires /\ ghost \in Ghosts
      /\ Settled(ctl, wire, ui) /\ InFlight(ctl, wire, ui, ghost)
  BY DEF Inv, Base
<1>2. ghost' \in Ghosts /\ ghost'.touched /\ ghost'.lost /\ query # ctl.query
  BY <1>1 DEF EditQuery, Ghosts
<1>3. /\ renamed \in Controllers /\ renamed.query = query /\ renamed.sort = ctl.sort
      /\ renamed.pending = ctl.pending /\ renamed.rebuild = ctl.rebuild
      /\ renamed.restore = ctl.restore /\ renamed.box = ctl.box
  BY <1>1 DEF Controllers
<1> HIDE DEF renamed
<1>4. /\ reset \in Controllers /\ SameButPlace(renamed, reset)
      /\ reset.offset = 0 /\ reset.history = << >>
  BY <1>3, PlaceHelpers
<1> HIDE DEF reset
<1>5. /\ edited \in Controllers /\ SameButRequest(reset, edited) /\ ~edited.box.sent
      /\ edited.pending = reset.pending /\ edited.restore = reset.restore
  BY <1>4, ControllerHelpers
<1> HIDE DEF edited
<1>6. /\ c \in Controllers /\ SameButRequest(reset, c) /\ ~c.box.sent
      /\ c.pending = reset.pending /\ c.restore = None
  BY <1>1, <1>2, <1>3, <1>4, <1>5, ControllerHelpers
  DEF Settled, SameButPlace, SameButRequest, SamePlace
<1> HIDE DEF c
<1>7. Leads(c, wire, ui)
  BY DEF EditQuery, c, edited, reset, renamed
<1>8. Rises(c.history, c.offset)
  BY <1>4, <1>6, NothingBefore DEF SameButRequest, SamePlace
<1>9. /\ c.sort = ctl.sort /\ c.rebuild = ctl.rebuild /\ c.pending = ctl.pending
  BY <1>3, <1>4, <1>6 DEF SameButPlace, SameButRequest, SamePlace
<1>10. Settled(c, wire, ui)
  BY <1>1, <1>6, <1>8, <1>9 DEF Settled
<1>11. InFlight(c, wire, ui, ghost')
  BY <1>1, <1>2, <1>6, <1>9 DEF InFlight, RowsAsked
<1>12. Placed(c, wire, ui, ghost') /\ Restored(c, wire, ui, ghost')
  BY <1>2 DEF Placed, Restored, Calm
<1> QED
  BY <1>1, <1>2, <1>6, <1>7, <1>10, <1>11, <1>12, LeadsInv

LEMMA SubmitQueryInv == ASSUME Inv, SubmitQuery PROVE Inv'
<1>1. ghost' \in Ghosts /\ ghost'.touched /\ ui.gen > 0 /\ Readable(ui.reason)
  BY ActsGhost DEF SubmitQuery
<1>2. Asks(ctl, wire, ui, ctl.query, NoOptions, Plain, Nobody)
  BY DEF SubmitQuery
<1>3. MayAsk(ctl, ui, Plain, Nobody)
  BY <1>1, HowsAndAskers DEF MayAsk
<1> QED
  BY <1>1, <1>2, <1>3, HowsAndAskers, OptionsAreOptions, UserAsksInv DEF Inv, Base

LEMMA RequestRowOrderInv == ASSUME Inv, RequestRowOrder PROVE Inv'
<1> DEFINE order == IF ctl.sort = "none" THEN "desc" ELSE "asc"
           w == [wire EXCEPT !.order = order]
<1>1. /\ ui \in Views /\ ctl \in Controllers /\ wire \in Wires /\ ghost \in Ghosts
      /\ Settled(ctl, wire, ui) /\ InFlight(ctl, wire, ui, ghost)
  BY DEF Inv, Base
<1>2. /\ w \in Wires /\ w.rows = wire.rows /\ w.rebuild = wire.rebuild
      /\ Leads(ctl, w, ui) /\ ui.complete /\ ui.gen > 0 /\ ghost' = ghost
  BY <1>1 DEF RequestRowOrder, Clicks, Wires
<1> HIDE DEF w
<1>3. Settled(ctl, w, ui) /\ InFlight(ctl, w, ui, ghost')
  BY <1>1, <1>2 DEF Settled, InFlight
<1>4. Placed(ctl, w, ui, ghost')
  BY <1>2, PlacedStill DEF SamePlace
<1>5. Restored(ctl, w, ui, ghost')
  BY <1>2 DEF Inv, Restored
<1> QED
  BY <1>1, <1>2, <1>3, <1>4, <1>5, LeadsInv

LEMMA SetFollowInv == ASSUME Inv, NEW enabled \in BOOLEAN, SetFollow(enabled) PROVE Inv'
<1> DEFINE left == AbandonRestore(ctl)
           seen == [ui EXCEPT !.follow = enabled]
           reset == ResetPaging(left)
<1>1. /\ ui \in Views /\ ctl \in Controllers /\ wire \in Wires /\ ghost \in Ghosts
      /\ Settled(ctl, wire, ui) /\ InFlight(ctl, wire, ui, ghost)
  BY DEF Inv, Base
<1>2. /\ ghost' \in Ghosts /\ ghost'.touched /\ ghost'.lost = ghost.lost
      /\ ui.gen > 0 /\ ui.reason = "none"
  BY ActsGhost DEF SetFollow
<1>3. /\ seen \in Views /\ seen.gen = ui.gen /\ seen.reason = ui.reason
      /\ seen.page = ui.page /\ seen.complete = ui.complete
  BY <1>1 DEF Views
<1>4. /\ left \in Controllers /\ SameButRequest(ctl, left) /\ left.restore = None
      /\ left.pending = ctl.pending /\ left.box = ctl.box
  BY <1>1, ControllerHelpers
<1>5. \/ Leads(left, wire, seen)
      \/ Asks(reset, wire, seen, ctl.query, At(0), Plain, Nobody)
      \/ Asks(left, wire, seen, ctl.query, ToTail, Plain, Nobody)
  BY DEF SetFollow
<1> HIDE DEF left, seen
<1>6. Settled(left, wire, seen) /\ InFlight(left, wire, seen, ghost')
  BY <1>1, <1>2, <1>3, <1>4 DEF Settled, InFlight, RowsAsked, SameButRequest, SamePlace
<1>7. Readable(seen.reason)
  BY <1>2, <1>3 DEF Readable
<1>8. CASE Leads(left, wire, seen)
  <2>1. Placed(left, wire, seen, ghost')
    BY <1>2, <1>3, <1>4, PlacedStill DEF SameButRequest
  <2>2. Restored(left, wire, seen, ghost')
    BY <1>2 DEF Restored, Calm
  <2> QED
    BY <1>1, <1>2, <1>3, <1>4, <1>6, <1>8, <2>1, <2>2, LeadsInv
<1>9. CASE Asks(left, wire, seen, ctl.query, ToTail, Plain, Nobody)
  <2>1. MayAsk(left, seen, Plain, Nobody) /\ left.query = ctl.query
    BY <1>2, <1>3, <1>4, <1>7, HowsAndAskers DEF MayAsk, SameButRequest, SamePlace
  <2> QED
    BY <1>1, <1>2, <1>3, <1>4, <1>6, <1>9, <2>1, HowsAndAskers, OptionsAreOptions, UserAsksInv
<1>10. CASE Asks(reset, wire, seen, ctl.query, At(0), Plain, Nobody)
  <2>1. /\ reset \in Controllers /\ SameButPlace(left, reset)
        /\ reset.offset = 0 /\ reset.history = << >>
    BY <1>4, PlaceHelpers
  <2> HIDE DEF reset
  <2>2. MayAsk(reset, seen, Plain, Nobody) /\ reset.query = ctl.query
    BY <1>2, <1>3, <1>4, <1>7, <2>1, HowsAndAskers DEF MayAsk, SameButRequest, SamePlace, SameButPlace
  <2>3. Settled(reset, wire, seen)
    BY <1>6, <2>1, NothingBefore DEF Settled, SameButPlace
  <2>4. At(0) \in Options
    BY OptionsAreOptions DEF Ordinals
  <2> QED
    BY <1>1, <1>2, <1>3, <1>10, <2>1, <2>2, <2>3, <2>4, HowsAndAskers, UserAsksInv
<1> QED
  BY <1>5, <1>8, <1>9, <1>10

\* What is said of a page and of the request made from it, for any file.
GoesOn(file, page, r) ==
    LET first == Edge(page.rows, "first")
        last == Edge(page.rows, "last")
        start == IF page.direction = "backward" /\ page.start = Undefined THEN Total(file) ELSE page.start
    IN /\ r.by = "next" /\ page.rows # << >> =>
            r.anchor >= last /\ Between(file, r.query, last, r.anchor + 1) = {}
       /\ r.by = "previous" /\ page.rows # << >> =>
            r.anchor <= first /\ Between(file, r.query, r.anchor - 1, first) = {}
       /\ page.rows = << >> /\ page.cursor # Undefined
             /\ r.by = (IF page.direction = "forward" THEN "next" ELSE "previous")
          => IF r.by = "next" THEN Between(file, r.query, start, r.anchor + 1) = {}
             ELSE Between(file, r.query, r.anchor - 1, start) = {}

NextAnchor(page) == IF page.cut = "forward" /\ page.cursor # Undefined THEN page.cursor
                    ELSE OneOf(Edge(page.rows, "last"), page.anchor)
PreviousAnchor(page) == IF page.cut = "backward" /\ page.cursor # Undefined THEN page.cursor
                        ELSE OneOf(Edge(page.rows, "first"), page.anchor)

LEMMA EdgesOfRows ==
    ASSUME NEW S, NEW rows \in Seq(S)
    PROVE  /\ rows = << >> => Edge(rows, "first") = Undefined /\ Edge(rows, "last") = Undefined
           /\ rows # << >> => /\ Edge(rows, "first") = Head(rows) /\ Edge(rows, "first") \in S
                              /\ Edge(rows, "last") = Last(rows) /\ Edge(rows, "last") \in S
<1>1. rows # << >> => /\ Head(rows) = rows[1] /\ Last(rows) = rows[Len(rows)]
                      /\ 1 \in 1..Len(rows) /\ Len(rows) \in 1..Len(rows)
  BY EmptyOrNot
<1> QED
  BY <1>1, ElementOfSeq DEF Edge

LEMMA NextGoesOn ==
    ASSUME NEW file, IsFile(file), Total(file) \in Nat, NEW page \in Pages,
           IsPhysical(file, page, page.query, page.direction, page.start), page.after,
           NEW r, r.by = "next", r.query = page.query, r.anchor = NextAnchor(page)
    PROVE  GoesOn(file, page, r)
<1> DEFINE last == Edge(page.rows, "last")
           q == page.query
<1>1. /\ page.rows \in Seq(Nat) /\ page.direction \in Directions /\ page.cursor \in Ordinals
      /\ page.start \in Ordinals
  BY DEF Pages
<1>2. /\ page.rows # << >> => last = Last(page.rows) /\ last \in Nat
  BY <1>1, EdgesOfRows
<1>3. \A n \in Nat : Between(file, q, n, n + 1) = {}
  BY DEF Between, IsFile
<1>4. page.direction = "forward" => IsForward(file, page, q, page.start)
  BY DEF IsPhysical
<1>5. page.direction = "backward" => page.cut # "forward"
  BY DEF IsPhysical, IsBackward
<1>6. Undefined \notin Nat
  BY OrdinalsAreNumbers
<1> HIDE DEF last
<1>7. ASSUME page.rows # << >>
      PROVE  r.anchor >= last /\ Between(file, q, last, r.anchor + 1) = {}
  <2>1. CASE page.cut = "forward" /\ page.cursor # Undefined
    <3>1. page.direction = "forward" /\ r.anchor = page.cursor
      BY <1>1, <1>5, <2>1 DEF Directions, NextAnchor
    <3> QED
      BY <1>2, <1>4, <1>7, <2>1, <3>1 DEF IsForward
  <2>2. CASE ~(page.cut = "forward" /\ page.cursor # Undefined)
    <3>1. r.anchor = last
      BY <1>2, <1>6, <1>7, <2>2 DEF NextAnchor, OneOf, last
    <3> QED
      BY <1>2, <1>3, <1>7, <3>1
  <2> QED
    BY <2>1, <2>2
<1>8. ASSUME page.rows = << >>, page.cursor # Undefined, page.direction = "forward"
      PROVE  Between(file, q, page.start, r.anchor + 1) = {}
  <2>1. page.cut = "forward"
    BY <1>4, <1>8 DEF IsForward
  <2>2. r.anchor = page.cursor
    BY <1>8, <2>1 DEF NextAnchor
  <2> QED
    BY <1>4, <1>8, <2>2 DEF IsForward
<1> QED
  BY <1>1, <1>7, <1>8 DEF GoesOn, last, Directions

LEMMA PreviousGoesOn ==
    ASSUME NEW file, IsFile(file), Total(file) \in Nat, NEW page \in Pages,
           IsPhysical(file, page, page.query, page.direction, page.start), page.before,
           NEW r, r.by = "previous", r.query = page.query, r.anchor = PreviousAnchor(page)
    PROVE  GoesOn(file, page, r)
<1> DEFINE first == Edge(page.rows, "first")
           q == page.query
           start == IF page.start = Undefined THEN Total(file) ELSE page.start
<1>1. /\ page.rows \in Seq(Nat) /\ page.direction \in Directions /\ page.cursor \in Ordinals
      /\ page.start \in Ordinals
  BY DEF Pages
<1>2. /\ page.rows # << >> => first = Head(page.rows) /\ first \in Nat
  BY <1>1, EdgesOfRows
<1>3. \A n \in Nat : Between(file, q, n - 1, n) = {}
  BY DEF Between, IsFile
<1>4. page.direction = "backward" => IsBackward(file, page, q, page.start)
  BY DEF IsPhysical
<1>5. page.direction = "forward" => page.cut # "backward"
  BY DEF IsPhysical, IsForward
<1>6. Undefined \notin Nat
  BY OrdinalsAreNumbers
<1> HIDE DEF first
<1>7. ASSUME page.rows # << >>
      PROVE  r.anchor <= first /\ Between(file, q, r.anchor - 1, first) = {}
  <2>1. CASE page.cut = "backward" /\ page.cursor # Undefined
    <3>1. page.direction = "backward" /\ r.anchor = page.cursor
      BY <1>1, <1>5, <2>1 DEF Directions, PreviousAnchor
    <3> QED
      BY <1>2, <1>4, <1>7, <2>1, <3>1 DEF IsBackward
  <2>2. CASE ~(page.cut = "backward" /\ page.cursor # Undefined)
    <3>1. r.anchor = first
      BY <1>2, <1>6, <1>7, <2>2 DEF PreviousAnchor, OneOf, first
    <3> QED
      BY <1>2, <1>3, <1>7, <3>1
  <2> QED
    BY <2>1, <2>2
<1>8. ASSUME page.rows = << >>, page.cursor # Undefined, page.direction = "backward"
      PROVE  Between(file, q, r.anchor - 1, start) = {}
  <2>1. page.cut = "backward"
    BY <1>4, <1>8 DEF IsBackward
  <2>2. r.anchor = page.cursor
    BY <1>8, <2>1 DEF PreviousAnchor
  <2> QED
    BY <1>4, <1>8, <2>2 DEF IsBackward
<1>9. page.direction = "backward" =>
        start = IF page.direction = "backward" /\ page.start = Undefined THEN Total(file) ELSE page.start
  OBVIOUS
<1> HIDE DEF start
<1> QED
  BY <1>1, <1>7, <1>8, <1>9 DEF GoesOn, first, Directions

LEMMA PageFile == ASSUME Inv, ui.gen > 0 PROVE IsFile(Files[ui.gen]) /\ Total(Files[ui.gen]) \in Nat
<1>1. ui.gen \in 1..Len(Files)
  BY DEF Inv, Base, Views
<1> QED
  BY <1>1, FilesAreFiles

\* What a button of the pager is clicked in.
LEMMA WhenPaging ==
    ASSUME Inv, CanPage, Acts
    PROVE  /\ ui.page \in Pages /\ ui.page # None /\ Readable(ui.reason) /\ ui.gen > 0
           /\ ghost' \in Ghosts /\ ghost'.touched /\ ghost'.lost = ghost.lost
           /\ ~ghost.lost => IsPage(Files[ui.gen], ui.page) /\ IsAt(ctl, ui.page)
<1>1. ui.page \in Pages /\ ui.page # None /\ Readable(ui.reason) /\ wire.rows = None
  BY DEF Inv, Base, Views, CanPage
<1> QED
  BY <1>1, ActsGhost DEF Inv, Placed

\* What Next and Previous have to see to when they ask with opts from the fields c.
GoesOnWith(c, by, opts) ==
    LET page == ui.page
    IN ~ghost.lost /\ page.query = c.query =>
         /\ c.sort = "none" /\ page.sort = "none" =>
              \A r : r.by = by /\ r.query = page.query /\ r.anchor = opts.anchor =>
                        GoesOn(Files[ui.gen], page, r)
         /\ c.sort = "newest" /\ page.sort = "newest" =>
              /\ by = "next" => opts.offset = page.offset + Len(page.rows)
              /\ by = "previous" /\ page.from # Undefined => opts.offset = page.from
         /\ c.sort = "newest" /\ by = "next" /\ page.offset # Undefined =>
              c.offset = opts.offset /\ ComesFrom(c, page.offset)

LEMMA PagerAsks ==
    ASSUME Inv, CanPage, Acts, NEW c \in Controllers, NEW by \in {"next", "previous"},
           NEW opts \in Options, opts.sort = "unset",
           Settled(c, wire, ui), c.query = ctl.query,
           c.sort = "newest" => opts.offset \in Nat,
           GoesOnWith(c, by, opts),
           Asks(c, wire, ui, c.query, opts, Plain, Asker(by, ui.page))
    PROVE  Inv'
<1>1. /\ ui.page \in Pages /\ ui.page # None /\ Readable(ui.reason) /\ ui.gen > 0
      /\ ghost' \in Ghosts /\ ghost'.touched /\ ghost'.lost = ghost.lost
  BY WhenPaging
<1>2. /\ ui \in Views /\ wire \in Wires
  BY DEF Inv, Base
<1>3. /\ Asker(by, ui.page) \in Askers /\ Asker(by, ui.page).by = by
      /\ Asker(by, ui.page).left = ui.page /\ Plain \in Hows /\ Plain.supersedes
  BY <1>1, HowsAndAskers
<1>4. MayAsk(c, ui, Plain, Asker(by, ui.page))
  BY <1>1, <1>3 DEF MayAsk
<1>5. /\ Base' /\ ui' = ui
      /\ Asking(c, wire, ui, c.query, opts, Plain, Asker(by, ui.page), ctl', wire')
  BY <1>1, <1>2, <1>3, <1>4, AsksBase
<1>6. /\ SameButRequest(c, ctl') /\ wire'.rows \in Requests /\ wire'.rows # None
      /\ wire'.rows.query = c.query /\ wire'.rows.by = by /\ wire'.rows.left = ui.page
      /\ wire'.rows.sort = SortAsked(c, ui, opts)
      /\ wire'.rows.offset = IF wire'.rows.sort = "none" THEN Undefined ELSE OneOf(opts.offset, c.offset)
      /\ wire'.rows.anchor = IF wire'.rows.sort = "none" THEN opts.anchor ELSE Undefined
  BY <1>3, <1>5, NoneAssumption DEF Asking
<1>7. wire'.rows.sort = c.sort /\ c.sort \in Sorts
  BY <1>1, <1>6 DEF SortAsked, Settled, Controllers, Sorts
<1>8. c.sort = "newest" => wire'.rows.offset = opts.offset
  BY <1>6, <1>7, OrdinalsAreNumbers DEF OneOf
<1>9. Placed(ctl', wire', ui', ghost')
  <2> SUFFICES ASSUME ~ghost.lost, by = "next" PROVE IsOnTheWay(ctl', wire'.rows)
    BY <1>1, <1>6 DEF Placed
  <2> QED
    BY <1>6, <1>7, <1>8 DEF IsOnTheWay, GoesOnWith, SameButRequest, SamePlace, ComesFrom
<1>10. Restored(ctl', wire', ui', ghost')
  BY <1>1 DEF Restored, Calm
<1>11. PagesFollowOneAnother'
  <2> DEFINE page == ui.page
             r == wire'.rows
  <2> SUFFICES ASSUME page.query = r.query, page.sort = r.sort, ~ghost.lost
               PROVE  IF r.sort = "none" THEN ContinuesPhysical(wire.rows.left, wire.rows)'
                      ELSE ContinuesSorted(wire.rows.left, wire.rows)'
    BY <1>1, <1>5, <1>6 DEF PagesFollowOneAnother, Continues
  <2>1. CASE c.sort = "none"
    <3>1. GoesOn(Files[ui.gen], page, r)
      BY <1>6, <1>7, <2>1 DEF GoesOnWith
    <3>2. ContinuesPhysical(wire.rows.left, wire.rows)'
      BY <1>5, <1>6, <3>1 DEF GoesOn, ContinuesPhysical, Gap, Between, File
    <3> QED
      BY <1>7, <2>1, <3>2
  <2>2. CASE c.sort = "newest"
    <3>1. ContinuesSorted(page, r)
      BY <1>6, <1>7, <1>8, <2>2 DEF GoesOnWith, ContinuesSorted
    <3>2. ContinuesSorted(wire.rows.left, wire.rows)'
      BY <1>5, <1>6, <3>1 DEF ContinuesSorted
    <3> QED
      BY <1>7, <2>2, <3>2
  <2> QED
    BY <1>7, <2>1, <2>2 DEF Sorts
<1> QED
  BY <1>5, <1>9, <1>10, <1>11 DEF Inv

LEMMA AnchorsOfPages ==
    ASSUME NEW page \in Pages
    PROVE  NextAnchor(page) \in Ordinals /\ PreviousAnchor(page) \in Ordinals
<1>1. page.rows \in Seq(Nat) /\ page.cursor \in Ordinals /\ page.anchor \in Nat
  BY DEF Pages
<1>2. Edge(page.rows, "first") \in Ordinals /\ Edge(page.rows, "last") \in Ordinals
  BY <1>1, EdgesOfRows DEF Ordinals
<1>3. page.anchor \in Ordinals
  BY <1>1 DEF Ordinals
<1> QED
  BY <1>1, <1>2, <1>3, OrdinalsAreNumbers DEF NextAnchor, PreviousAnchor

LEMMA NextPageInv == ASSUME Inv, NextPage PROVE Inv'
<1> DEFINE page == ui.page
           next == OneOf(page.next, ctl.offset + PageSize)
           kept == NormalHistory(ctl.history, ctl.offset)
           history == Append(kept, ctl.offset)
           placed == SetSortPosition(ctl, [offset |-> next, history |-> history, page |-> ctl.page + 1])
           c == SetPageInput(placed, ctl.page + 1)
<1>1. CanPage /\ Acts /\ page.after
  BY DEF NextPage
<1>2. /\ page \in Pages /\ ui.gen > 0
      /\ ~ghost.lost => IsPage(Files[ui.gen], page) /\ IsAt(ctl, page)
  BY <1>1, WhenPaging
<1>3. /\ ctl \in Controllers /\ Settled(ctl, wire, ui)
      /\ ctl.offset \in Nat /\ ctl.history \in Seq(Nat) /\ ctl.page \in Numbers
      /\ ctl.sort \in Sorts /\ Rises(ctl.history, ctl.offset)
  BY DEF Inv, Base, Controllers, Settled
<1>4. \/ /\ ctl.sort = "newest" /\ next > ctl.offset
         /\ Asks(c, wire, ui, ctl.query, At(next), Plain, Asker("next", page))
      \/ /\ ctl.sort = "none"
         /\ Asks(ctl, wire, ui, ctl.query, After(NextAnchor(page)), Plain, Asker("next", page))
  BY <1>3 DEF NextPage, AdvanceSortPage, NextAnchor, Sorts
<1>5. next \in Nat
  BY <1>2, <1>3, OrdinalsAreNumbers, PagesAssumption DEF Pages, Ordinals, OneOf
<1> HIDE DEF next
<1>6. CASE /\ ctl.sort = "none"
           /\ Asks(ctl, wire, ui, ctl.query, After(NextAnchor(page)), Plain, Asker("next", page))
  <2> DEFINE opts == After(NextAnchor(page))
  <2>1. opts \in Options /\ opts.anchor = NextAnchor(page) /\ opts.sort = "unset"
    BY <1>2, AnchorsOfPages, OptionsAreOptions, OptionFields
  <2> HIDE DEF opts
  <2>2. ASSUME ~ghost.lost, page.sort = "none", NEW r, r.by = "next", r.query = page.query,
               r.anchor = opts.anchor
        PROVE  GoesOn(Files[ui.gen], page, r)
    BY <1>1, <1>2, <2>1, <2>2, PageFile, NextGoesOn DEF IsPage
  <2>3. GoesOnWith(ctl, "next", opts)
    BY <1>6, <2>2 DEF GoesOnWith
  <2> QED
    BY <1>1, <1>3, <1>6, <2>1, <2>3, PagerAsks DEF opts
<1>7. CASE /\ ctl.sort = "newest" /\ next > ctl.offset
           /\ Asks(c, wire, ui, ctl.query, At(next), Plain, Asker("next", page))
  <2>1. kept \in Seq(Nat) /\ Rises(kept, ctl.offset)
    BY <1>3, KeptHistory
  <2>2. /\ history \in Seq(Nat) /\ Rises(history, next)
        /\ history # << >> /\ Last(history) = ctl.offset
    <3>1. ctl.offset < next
      BY <1>3, <1>5, <1>7
    <3> HIDE DEF kept
    <3> QED
      BY <1>3, <1>5, <2>1, <3>1, HistoryGrows
  <2>3. ctl.page + 1 \in Numbers
    BY <1>3 DEF Numbers
  <2> HIDE DEF history
  <2>4. /\ placed \in Controllers /\ SameButPlace(ctl, placed)
        /\ placed.offset = next /\ placed.history = history
    BY <1>3, <1>5, <2>2, <2>3, PositionIsSet
  <2> HIDE DEF placed
  <2>5. /\ c \in Controllers /\ SameButPlace(placed, c)
        /\ c.offset = next /\ c.history = history
    BY <2>3, <2>4, PlaceHelpers DEF SamePlace
  <2> HIDE DEF c
  <2>6. c.query = ctl.query /\ c.sort = "newest" /\ c.rebuild = ctl.rebuild /\ c.restore = ctl.restore
    BY <1>7, <2>4, <2>5 DEF SameButPlace
  <2>7. Settled(c, wire, ui)
    BY <1>3, <1>7, <2>2, <2>5, <2>6 DEF Settled
  <2>8. /\ At(next) \in Options /\ At(next).sort = "unset" /\ At(next).offset = next
    BY <1>5, OptionsAreOptions, OptionFields DEF Ordinals
  <2>9. ASSUME ~ghost.lost, page.query = c.query
        PROVE  /\ page.sort = "newest" => next = page.offset + Len(page.rows)
               /\ page.offset # Undefined => ComesFrom(c, page.offset)
    <3>1. page.sort = "newest" =>
            /\ page.offset = ctl.offset /\ page.offset \in Nat
            /\ IF page.next # Undefined THEN page.next = page.offset + Len(page.rows)
               ELSE Len(page.rows) = PageSize
      BY <1>1, <1>2, <1>7, <2>6, <2>9 DEF IsPage, IsNewest, IsAt
    <3>2. page.sort = "none" => page.offset = Undefined
      BY <1>2, <2>9 DEF IsPage, IsPhysical
    <3>3. page.sort \in Sorts
      BY <1>2 DEF Pages
    <3>4. page.sort = "newest" => next = page.offset + Len(page.rows)
      BY <1>3, <3>1, PagesAssumption DEF OneOf, next
    <3>5. page.offset # Undefined => ComesFrom(c, page.offset)
      BY <1>7, <2>2, <2>5, <3>1, <3>2, <3>3 DEF Sorts, ComesFrom
    <3> QED
      BY <3>4, <3>5
  <2>10. GoesOnWith(c, "next", At(next))
    BY <2>5, <2>6, <2>8, <2>9 DEF GoesOnWith
  <2> QED
    BY <1>1, <1>5, <1>7, <2>5, <2>6, <2>7, <2>8, <2>10, PagerAsks
<1> QED
  BY <1>4, <1>6, <1>7

LEMMA PreviousPosition ==
    ASSUME NEW c \in Controllers, Rises(c.history, c.offset),
           NEW position, position = PreviousSortPage(c)
    PROVE  /\ position.offset \in Nat /\ position.history \in Seq(Nat) /\ position.page \in Numbers
           /\ Rises(position.history, position.offset)
           /\ c.history # << >> => position.offset = Last(c.history)
<1> DEFINE kept == NormalHistory(c.history, c.offset)
           page == IF c.page > 1 THEN c.page - 1 ELSE 1
           back == IF c.offset > PageSize THEN c.offset - PageSize ELSE 0
<1>1. c.offset \in Nat /\ c.history \in Seq(Nat) /\ c.page \in Nat \ {0} /\ PageSize \in Nat
  BY PagesAssumption DEF Controllers, Numbers
<1>2. page \in Numbers /\ back \in Nat
  BY <1>1 DEF Numbers
<1>3. /\ kept \in Seq(Nat) /\ Rises(kept, c.offset)
      /\ c.history # << >> => kept # << >> /\ Last(kept) = Last(c.history)
  BY <1>1, KeptHistory
<1>4. position = IF kept # << >> THEN [offset |-> Last(kept), history |-> Front(kept), page |-> page]
                 ELSE [offset |-> back, history |-> << >>, page |-> page]
  BY DEF PreviousSortPage
<1> HIDE DEF kept, page, back
<1>5. CASE kept # << >>
  <2>1. /\ Front(kept) \in Seq(Nat) /\ Last(kept) \in Nat
        /\ Rises(Front(kept), Last(kept))
    BY <1>1, <1>3, <1>5, HistoryShrinks
  <2>2. position.offset = Last(kept) /\ position.history = Front(kept) /\ position.page = page
    BY <1>4, <1>5
  <2> QED
    BY <1>2, <1>3, <2>1, <2>2
<1>6. CASE kept = << >>
  <2>1. position.offset = back /\ position.history = << >> /\ position.page = page
    BY <1>4, <1>6
  <2>2. c.history = << >> /\ << >> \in Seq(Nat)
    BY <1>3, <1>6, EmptySeq
  <2> QED
    BY <1>2, <2>1, <2>2, NothingBefore
<1> QED
  BY <1>5, <1>6

LEMMA PreviousPageInv == ASSUME Inv, PreviousPage PROVE Inv'
<1> DEFINE page == ui.page
           position == PreviousSortPage(ctl)
           placed == SetSortPosition(ctl, position)
           c == SetPageInput(placed, position.page)
           back == [After(PreviousAnchor(page)) EXCEPT !.direction = "backward"]
<1>1. CanPage /\ Acts /\ page.before
  BY DEF PreviousPage
<1>2. /\ page \in Pages /\ ui.gen > 0
      /\ ~ghost.lost => IsPage(Files[ui.gen], page) /\ IsAt(ctl, page)
  BY <1>1, WhenPaging
<1>3. /\ ctl \in Controllers /\ Settled(ctl, wire, ui)
      /\ ctl.sort \in Sorts /\ Rises(ctl.history, ctl.offset)
  BY DEF Inv, Base, Controllers, Settled
<1>4. \/ /\ ctl.sort = "newest"
         /\ Asks(c, wire, ui, ctl.query, At(position.offset), Plain, Asker("previous", page))
      \/ /\ ctl.sort = "none"
         /\ Asks(ctl, wire, ui, ctl.query, back, Plain, Asker("previous", page))
  BY <1>3 DEF PreviousPage, PreviousAnchor, Sorts
<1>5. CASE /\ ctl.sort = "none"
           /\ Asks(ctl, wire, ui, ctl.query, back, Plain, Asker("previous", page))
  <2>1. back \in Options /\ back.anchor = PreviousAnchor(page) /\ back.sort = "unset"
    BY <1>2, AnchorsOfPages, OptionsAreOptions, OptionFields
  <2> HIDE DEF back
  <2>2. ASSUME ~ghost.lost, page.sort = "none", NEW r, r.by = "previous", r.query = page.query,
               r.anchor = back.anchor
        PROVE  GoesOn(Files[ui.gen], page, r)
    BY <1>1, <1>2, <2>1, <2>2, PageFile, PreviousGoesOn DEF IsPage
  <2>3. GoesOnWith(ctl, "previous", back)
    BY <1>5, <2>2 DEF GoesOnWith
  <2> QED
    BY <1>1, <1>3, <1>5, <2>1, <2>3, PagerAsks
<1>6. CASE /\ ctl.sort = "newest"
           /\ Asks(c, wire, ui, ctl.query, At(position.offset), Plain, Asker("previous", page))
  <2>1. /\ position.offset \in Nat /\ position.history \in Seq(Nat) /\ position.page \in Numbers
        /\ Rises(position.history, position.offset)
        /\ ctl.history # << >> => position.offset = Last(ctl.history)
    BY <1>3, PreviousPosition
  <2> HIDE DEF position
  <2>2. /\ placed \in Controllers /\ SameButPlace(ctl, placed)
        /\ placed.offset = position.offset /\ placed.history = position.history
    BY <1>3, <2>1, PositionIsSet
  <2> HIDE DEF placed
  <2>3. /\ c \in Controllers /\ SameButPlace(placed, c)
        /\ c.offset = position.offset /\ c.history = position.history
    BY <2>1, <2>2, PlaceHelpers DEF SamePlace
  <2> HIDE DEF c
  <2>4. c.query = ctl.query /\ c.sort = "newest" /\ c.rebuild = ctl.rebuild /\ c.restore = ctl.restore
    BY <1>6, <2>2, <2>3 DEF SameButPlace
  <2>5. Settled(c, wire, ui)
    BY <1>3, <1>6, <2>1, <2>3, <2>4 DEF Settled
  <2> DEFINE opts == At(position.offset)
  <2>6. opts \in Options /\ opts.sort = "unset" /\ opts.offset = position.offset
    BY <2>1, OptionsAreOptions, OptionFields DEF Ordinals
  <2> HIDE DEF opts
  <2>7. ASSUME ~ghost.lost, page.query = c.query, page.sort = "newest", page.from # Undefined
        PROVE  position.offset = page.from
    BY <1>2, <1>6, <2>1, <2>4, <2>7 DEF IsAt, ComesFrom
  <2>8. GoesOnWith(c, "previous", opts)
    BY <2>4, <2>6, <2>7 DEF GoesOnWith
  <2>9. Asks(c, wire, ui, c.query, opts, Plain, Asker("previous", page))
    BY <1>6, <2>4 DEF opts
  <2> QED
    BY <1>1, <2>1, <2>3, <2>4, <2>5, <2>6, <2>8, <2>9, PagerAsks
<1> QED
  BY <1>4, <1>5, <1>6

LEMMA EditPageInputInv == ASSUME Inv, NEW text \in Numbers, EditPageInput(text) PROVE Inv'
<1> DEFINE left == AbandonRestore(ctl)
           box == [text |-> text, dirty |-> TRUE, sent |-> FALSE]
           pending == IF ctl.box.sent THEN None ELSE left.pending
           c == [left EXCEPT !.box = box, !.pending = pending, !.rebuild = None]
<1>1. /\ ui \in Views /\ ctl \in Controllers /\ wire \in Wires /\ ghost \in Ghosts
      /\ Settled(ctl, wire, ui) /\ InFlight(ctl, wire, ui, ghost)
  BY DEF Inv, Base
<1>2. /\ ghost' \in Ghosts /\ ghost'.touched /\ ghost'.lost = ghost.lost
  BY ActsGhost DEF EditPageInput
<1>3. Leads(c, wire, ui)
  BY DEF EditPageInput
<1>4. /\ left \in Controllers /\ SameButRequest(ctl, left) /\ left.restore = None
      /\ left.pending = ctl.pending
  BY <1>1, ControllerHelpers
<1> HIDE DEF left
<1>5. box \in Boxes /\ ~box.sent
  BY DEF Boxes
<1> HIDE DEF box
<1>6. /\ c \in Controllers /\ SamePlace(left, c) /\ c.restore = None /\ c.rebuild = None
      /\ ~c.box.sent /\ c.pending \in {None, ctl.pending}
  BY <1>4, <1>5 DEF Controllers, SamePlace
<1> HIDE DEF c
<1>7. SamePlace(ctl, c)
  BY <1>4, <1>6 DEF SameButRequest, SamePlace
<1>8. Settled(c, wire, ui) /\ InFlight(c, wire, ui, ghost')
  BY <1>1, <1>2, <1>6, <1>7 DEF Settled, InFlight, RowsAsked, SamePlace
<1>9. Placed(c, wire, ui, ghost')
  BY <1>2, <1>7, PlacedStill
<1>10. Restored(c, wire, ui, ghost')
  BY <1>2 DEF Restored, Calm
<1> QED
  BY <1>1, <1>2, <1>3, <1>6, <1>8, <1>9, <1>10, LeadsInv

LEMMA SubmitPageInputInv == ASSUME Inv, SubmitPageInput PROVE Inv'
<1> DEFINE text == ctl.box.text
           offset == (text - 1) * PageSize
           submission == [Plain EXCEPT !.submits = TRUE]
           position == [offset |-> offset, history |-> << >>, page |-> text]
           c == SetSortPosition(ctl, position)
           opts == IF text = 1 THEN NoOptions ELSE After(AnchorForPage(text))
<1>1. /\ ui \in Views /\ ctl \in Controllers /\ wire \in Wires /\ ghost \in Ghosts
      /\ Settled(ctl, wire, ui) /\ InFlight(ctl, wire, ui, ghost)
  BY DEF Inv, Base
<1>2. /\ ghost' \in Ghosts /\ ghost'.touched /\ ui.gen > 0 /\ Readable(ui.reason)
  BY ActsGhost DEF SubmitPageInput
<1>3. text \in Numbers
  BY <1>1 DEF Controllers, Boxes
<1>4. offset \in Nat /\ AnchorForPage(text) \in Ordinals
  BY <1>3, PagesOfOffsets
<1>5. submission \in Hows /\ submission.supersedes
  BY HowsAndAskers
<1>6. \/ Asks(c, wire, ui, ctl.query, At(offset), submission, Nobody)
      \/ Asks(ctl, wire, ui, ctl.query, opts, submission, Nobody)
  BY DEF SubmitPageInput
<1>7. position.offset = offset /\ position.history = << >> /\ position.page = text
  OBVIOUS
<1>8. At(offset) \in Options /\ opts \in Options
  BY <1>4, OptionsAreOptions DEF Ordinals
<1> HIDE DEF submission, position, opts, offset
<1>9. CASE Asks(ctl, wire, ui, ctl.query, opts, submission, Nobody)
  <2>1. MayAsk(ctl, ui, submission, Nobody)
    BY <1>2, <1>5, HowsAndAskers DEF MayAsk
  <2> QED
    BY <1>1, <1>2, <1>5, <1>8, <1>9, <2>1, UserAsksInv
<1>10. CASE Asks(c, wire, ui, ctl.query, At(offset), submission, Nobody)
  <2>1. /\ c \in Controllers /\ SameButPlace(ctl, c)
        /\ c.offset = offset /\ c.history = << >>
    BY <1>1, <1>3, <1>4, <1>7, PositionIsSet, EmptySeq
  <2> HIDE DEF c
  <2>2. Settled(c, wire, ui) /\ c.query = ctl.query
    BY <1>1, <2>1, NothingBefore DEF Settled, SameButPlace
  <2>3. MayAsk(c, ui, submission, Nobody)
    BY <1>2, <1>5, HowsAndAskers DEF MayAsk
  <2> QED
    BY <1>1, <1>2, <1>5, <1>8, <1>10, <2>1, <2>2, <2>3, UserAsksInv
<1> QED
  BY <1>6, <1>9, <1>10

LEMMA SetProfileInv == ASSUME Inv, SetProfile PROVE Inv'
<1> DEFINE c == AbandonRestore(ctl)
<1>1. /\ ui \in Views /\ ctl \in Controllers /\ wire \in Wires /\ ghost \in Ghosts
      /\ Settled(ctl, wire, ui) /\ InFlight(ctl, wire, ui, ghost)
  BY DEF Inv, Base
<1>2. /\ ghost' \in Ghosts /\ ghost'.touched /\ ghost'.lost = ghost.lost /\ Leads(c, wire, ui)
  BY ActsGhost DEF SetProfile
<1>3. /\ c \in Controllers /\ SameButRequest(ctl, c) /\ c.restore = None
      /\ c.pending = ctl.pending /\ c.box = ctl.box
  BY <1>1, ControllerHelpers
<1> HIDE DEF c
<1>4. Settled(c, wire, ui) /\ InFlight(c, wire, ui, ghost')
  BY <1>1, <1>2, <1>3 DEF Settled, InFlight, RowsAsked, SameButRequest, SamePlace
<1>5. Placed(c, wire, ui, ghost')
  BY <1>2, <1>3, PlacedStill DEF SameButRequest
<1>6. Restored(c, wire, ui, ghost')
  BY <1>2 DEF Restored, Calm
<1> QED
  BY <1>1, <1>2, <1>3, <1>4, <1>5, <1>6, LeadsInv

LEMMA RevealOrdinalInv == ASSUME Inv, NEW ordinal, RevealOrdinal(ordinal) PROVE Inv'
<1> DEFINE c == AbandonRestore(ctl)
<1>1. /\ ui \in Views /\ ctl \in Controllers /\ wire \in Wires /\ ghost \in Ghosts
      /\ Settled(ctl, wire, ui)
  BY DEF Inv, Base
<1>2. /\ ghost' \in Ghosts /\ ghost'.touched /\ ui.gen > 0 /\ Readable(ui.reason)
  BY ActsGhost DEF RevealOrdinal
<1>3. /\ c \in Controllers /\ SameButRequest(ctl, c) /\ c.restore = None
  BY <1>1, ControllerHelpers
<1>4. ordinal \in DOMAIN File /\ Asks(c, wire, ui, ctl.query, After(ordinal), Plain, Nobody)
  BY DEF RevealOrdinal
<1> HIDE DEF c
<1>5. ordinal \in Ordinals
  BY <1>2, <1>4, PageFile DEF File, IsFile, Ordinals
<1>6. Settled(c, wire, ui) /\ c.query = ctl.query
  BY <1>1, <1>3 DEF Settled, SameButRequest, SamePlace
<1>7. MayAsk(c, ui, Plain, Nobody) /\ After(ordinal) \in Options
  BY <1>2, <1>5, HowsAndAskers, OptionsAreOptions DEF MayAsk
<1> QED
  BY <1>1, <1>2, <1>3, <1>4, <1>6, <1>7, HowsAndAskers, UserAsksInv

LEMMA OptionsToResume ==
    ASSUME NEW first \in Ordinals, NEW follow \in BOOLEAN
    PROVE  RowsOptionsAfterRebuild(first, follow) \in Options
<1>1. first > 0 => first - 1 \in Ordinals
  BY OrdinalsAreNumbers DEF Ordinals
<1> QED
  BY <1>1, OptionsAreOptions DEF RowsOptionsAfterRebuild

LEMMA OptionsForViewport ==
    ASSUME NEW first \in Ordinals, NEW text \in Numbers, NEW follow \in BOOLEAN,
           NEW pending \in Options \cup {None}
    PROVE  RowsOptionsForViewport(first, text, follow, pending) \in Options
<1>1. RowsOptionsAfterRebuild(first, FALSE) \in Options
  BY OptionsToResume
<1>2. AnchorForPage(text) \in Ordinals
  BY PagesOfOffsets
<1> QED
  BY <1>1, <1>2, OptionsAreOptions DEF RowsOptionsForViewport

LEMMA CaptureIsCapture ==
    ASSUME ui \in Views, ctl \in Controllers
    PROVE  CaptureRebuild \in Captures
<1> DEFINE shown == IF ui.page = None THEN Undefined ELSE Edge(ui.page.rows, "first")
           viewportQuery == IF ctl.viewport # None THEN ctl.viewport.query ELSE ctl.query
           matches == viewportQuery = ctl.query
           first == IF ~matches THEN Undefined
                    ELSE IF ctl.viewport # None THEN ctl.viewport.first ELSE shown
           text == IF matches THEN ctl.box.text ELSE 1
           intent == ctl.pending # None /\ ctl.pending.query = ctl.query
           pending == IF intent THEN ctl.pending.options ELSE None
           options == RowsOptionsForViewport(first, text, ui.follow, pending)
<1>1. shown \in Ordinals
  <2>1. ui.page # None => ui.page.rows \in Seq(Nat)
    BY DEF Views, Pages
  <2> QED
    BY <2>1, EdgesOfRows DEF Ordinals
<1>2. viewportQuery \in Queries /\ ctl.query \in Queries
  BY DEF Controllers, Viewports
<1> HIDE DEF shown
<1>3. first \in Ordinals
  BY <1>1 DEF Controllers, Viewports, Ordinals
<1>4. text \in Numbers
  BY DEF Controllers, Boxes, Numbers
<1>5. pending \in Options \cup {None}
  BY DEF Controllers, Inputs
<1>6. CaptureRebuild = [query |-> ctl.query, viewportQuery |-> viewportQuery, first |-> first,
                        text |-> text, options |-> options]
  BY DEF CaptureRebuild, shown
<1> HIDE DEF viewportQuery, first, text, pending
<1>7. options \in Options
  BY <1>3, <1>4, <1>5, OptionsForViewport DEF Views
<1> QED
  BY <1>2, <1>3, <1>4, <1>6, <1>7 DEF Captures

LEMMA RebuildInv == ASSUME Inv, Rebuild PROVE Inv'
<1> DEFINE left == AbandonRestore(ctl)
           released == ReleaseSubmission(left)
           capture == CaptureRebuild
           c == [released EXCEPT !.pending = None, !.rebuild = capture]
           w == [wire EXCEPT !.rows = None, !.rebuild = TRUE]
<1>1. /\ ui \in Views /\ ctl \in Controllers /\ wire \in Wires /\ ghost \in Ghosts
      /\ Settled(ctl, wire, ui) /\ InFlight(ctl, wire, ui, ghost)
  BY DEF Inv, Base
<1>2. /\ ghost' \in Ghosts /\ ghost'.touched /\ ghost'.lost = (ghost.lost \/ wire.rows # None)
  BY <1>1 DEF Rebuild, Ghosts
<1>3. Leads(c, w, ui)
  BY DEF Rebuild
<1>4. capture \in Captures
  BY <1>1, CaptureIsCapture
<1>5. left \in Controllers /\ SameButRequest(ctl, left) /\ left.restore = None
  BY <1>1, ControllerHelpers
<1> HIDE DEF left, capture
<1>6. /\ released \in Controllers /\ SameButRequest(left, released)
      /\ released.restore = None /\ ~released.box.sent
  BY <1>5, ControllerHelpers
<1> HIDE DEF released
<1>7. /\ c \in Controllers /\ SamePlace(released, c) /\ c.restore = None /\ c.pending = None
      /\ ~c.box.sent
  BY <1>4, <1>6 DEF Controllers, SamePlace
<1>8. w \in Wires /\ w.rows = None /\ w.rebuild /\ w.order = wire.order
  BY <1>1 DEF Wires
<1> HIDE DEF c, w
<1>9. SamePlace(ctl, c)
  BY <1>5, <1>6, <1>7 DEF SameButRequest, SamePlace
<1>10. Settled(c, w, ui) /\ InFlight(c, w, ui, ghost')
  BY <1>1, <1>7, <1>8, <1>9 DEF Settled, InFlight, SamePlace
<1>11. Placed(c, w, ui, ghost')
  BY <1>2, <1>8, <1>9, PlacedStill
<1>12. Restored(c, w, ui, ghost')
  BY <1>2 DEF Restored, Calm
<1> QED
  BY <1>1, <1>2, <1>3, <1>7, <1>8, <1>10, <1>11, <1>12, LeadsInv

LEMMA UsesInv == ASSUME Inv, Uses PROVE Inv'
<1>1. \A text \in 1..3 : text \in Numbers
  BY DEF Numbers
<1> QED
  BY <1>1, EditQueryInv, SubmitQueryInv, RequestRowOrderInv, NextPageInv, PreviousPageInv,
     EditPageInputInv, SubmitPageInputInv, SetProfileInv, RebuildInv, RevealOrdinalInv, SetFollowInv
  DEF Uses

-----------------------------------------------------------------------------
(* What arrives, but for rows *)

LEMMA MishapGhost ==
    ASSUME Inv, Mishap, NEW lost \in BOOLEAN,
           ghost' = [ghost EXCEPT !.mishap = TRUE, !.lost = lost]
    PROVE  ghost' \in Ghosts /\ ghost'.mishap /\ ghost'.lost = lost
BY DEF Inv, Base, Ghosts

LEMMA RowsFailInv == ASSUME Inv, RowsFail PROVE Inv'
<1> DEFINE failed == IF ctl.pending # None /\ ctl.pending.restores THEN AbandonRestore(ctl) ELSE ctl
           released == ReleaseSubmission(failed)
           c == [released EXCEPT !.pending = None]
           w == [wire EXCEPT !.rows = None]
<1>1. /\ ui \in Views /\ ctl \in Controllers /\ wire \in Wires /\ ghost \in Ghosts
      /\ Settled(ctl, wire, ui) /\ InFlight(ctl, wire, ui, ghost) /\ wire.rows # None
  BY DEF Inv, Base, RowsFail
<1>2. ghost' \in Ghosts /\ ghost'.mishap /\ ghost'.lost
  BY <1>1 DEF RowsFail, Ghosts
<1>3. Leads(c, w, ui)
  BY DEF RowsFail
<1>4. failed \in Controllers /\ SameButRequest(ctl, failed) /\ failed.restore = None
  BY <1>1, ControllerHelpers DEF InFlight, SameButRequest, SamePlace
<1> HIDE DEF failed
<1>5. /\ released \in Controllers /\ SameButRequest(failed, released)
      /\ released.restore = None /\ ~released.box.sent
  BY <1>4, ControllerHelpers
<1> HIDE DEF released
<1>6. /\ c \in Controllers /\ SameButRequest(released, c) /\ c.restore = None /\ c.pending = None
      /\ ~c.box.sent
  BY <1>5 DEF Controllers, SameButRequest, SamePlace
<1>7. w \in Wires /\ w.rows = None /\ w.rebuild = wire.rebuild /\ w.order = wire.order
  BY <1>1 DEF Wires
<1> HIDE DEF c, w
<1>8. SameButRequest(ctl, c)
  BY <1>4, <1>5, <1>6 DEF SameButRequest, SamePlace
<1>9. Settled(c, w, ui) /\ InFlight(c, w, ui, ghost')
  BY <1>1, <1>6, <1>7, <1>8 DEF Settled, InFlight, SameButRequest, SamePlace
<1>10. Placed(c, w, ui, ghost') /\ Restored(c, w, ui, ghost')
  BY <1>2 DEF Placed, Restored, Calm
<1> QED
  BY <1>1, <1>2, <1>3, <1>6, <1>7, <1>9, <1>10, LeadsInv

\* The rebuild or the order fails: only what it was asked for is taken back.
LEMMA OthersFailInv == ASSUME Inv, RebuildFails \/ OrderFails PROVE Inv'
<1>1. /\ ui \in Views /\ ctl \in Controllers /\ wire \in Wires /\ ghost \in Ghosts
      /\ Settled(ctl, wire, ui) /\ InFlight(ctl, wire, ui, ghost)
  BY DEF Inv, Base
<1>2. ghost' = ghost
  BY DEF RebuildFails, OrderFails
<1>3. \E c \in Controllers, w \in Wires :
        /\ Leads(c, w, ui) /\ w.rows = wire.rows
        /\ SamePlace(ctl, c) /\ c.viewport = ctl.viewport /\ c.pending = ctl.pending
        /\ c.restore = ctl.restore /\ c.box = ctl.box
        /\ c.rebuild # None => w.rebuild
        /\ w.order # None => wire.order # None
  <2>1. CASE RebuildFails
    <3> DEFINE c == [ctl EXCEPT !.rebuild = None]
               w == [wire EXCEPT !.rebuild = FALSE]
    <3>1. /\ c \in Controllers /\ SamePlace(ctl, c) /\ c.viewport = ctl.viewport
          /\ c.pending = ctl.pending /\ c.restore = ctl.restore /\ c.box = ctl.box /\ c.rebuild = None
      BY <1>1 DEF Controllers, SamePlace
    <3>2. w \in Wires /\ w.rows = wire.rows /\ w.order = wire.order
      BY <1>1 DEF Wires
    <3>3. Leads(c, w, ui)
      BY <2>1 DEF RebuildFails
    <3> HIDE DEF c, w
    <3> QED
      BY <3>1, <3>2, <3>3
  <2>2. CASE OrderFails
    <3> DEFINE w == [wire EXCEPT !.order = None]
    <3>1. w \in Wires /\ w.rows = wire.rows /\ w.rebuild = wire.rebuild /\ w.order = None
      BY <1>1 DEF Wires
    <3>2. Leads(ctl, w, ui)
      BY <2>2 DEF OrderFails
    <3>3. ctl.rebuild # None => wire.rebuild
      BY <1>1 DEF Settled
    <3> HIDE DEF w
    <3> QED
      BY <1>1, <3>1, <3>2, <3>3 DEF SamePlace
  <2> QED
    BY <2>1, <2>2
<1>4. PICK c \in Controllers, w \in Wires :
        /\ Leads(c, w, ui) /\ w.rows = wire.rows
        /\ SamePlace(ctl, c) /\ c.viewport = ctl.viewport /\ c.pending = ctl.pending
        /\ c.restore = ctl.restore /\ c.box = ctl.box
        /\ c.rebuild # None => w.rebuild
        /\ w.order # None => wire.order # None
  BY <1>3
<1>5. Settled(c, w, ui) /\ InFlight(c, w, ui, ghost')
  BY <1>1, <1>2, <1>4 DEF Settled, InFlight, RowsAsked, SamePlace
<1>6. Placed(c, w, ui, ghost')
  BY <1>2, <1>4, PlacedStill
<1>7. Restored(c, w, ui, ghost')
  BY <1>2, <1>4 DEF Inv, Restored, SamePlace
<1> QED
  BY <1>1, <1>2, <1>4, <1>5, <1>6, <1>7, LeadsInv

LEMMA SourceInvalidatedInv ==
    ASSUME Inv, NEW observed \in {"append", "lost"}, SourceInvalidated(observed) PROVE Inv'
<1> DEFINE reason == IF observed = "append" /\ ui.reason = "lost" THEN "lost" ELSE observed
           seen == [ui EXCEPT !.reason = reason]
           released == ReleaseSubmission(ctl)
           left == AbandonRestore(released)
           c == [left EXCEPT !.pending = None, !.rebuild = None]
           w == [wire EXCEPT !.rows = None]
<1>1. /\ ui \in Views /\ ctl \in Controllers /\ wire \in Wires /\ ghost \in Ghosts
      /\ Settled(ctl, wire, ui) /\ InFlight(ctl, wire, ui, ghost)
  BY DEF Inv, Base
<1>2. ghost' \in Ghosts /\ ghost'.mishap /\ ghost'.lost = (ghost.lost \/ wire.rows # None)
  BY <1>1 DEF SourceInvalidated, Ghosts
<1>3. /\ seen \in Views /\ seen.gen = ui.gen /\ seen.complete = ui.complete /\ seen.page = ui.page
      /\ seen.reason = reason
  BY <1>1 DEF Views, Reasons
<1>4. \/ reason = "append" /\ Leads(ctl, wire, seen)
      \/ reason = "lost" /\ Leads(c, w, seen)
  BY DEF SourceInvalidated
<1>5. Readable(reason) => reason = "append" /\ Readable(ui.reason)
  BY <1>1 DEF Readable, Views, Reasons
<1>6. reason = "append" => Readable(reason)
  BY DEF Readable
<1> HIDE DEF reason, seen
<1>7. \A d, v : Restored(d, v, seen, ghost')
  BY <1>2 DEF Restored, Calm
<1>8. CASE reason = "append" /\ Leads(ctl, wire, seen)
  <2>1. Settled(ctl, wire, seen) /\ InFlight(ctl, wire, seen, ghost')
    BY <1>1, <1>2, <1>3, <1>6, <1>8 DEF Settled, InFlight, RowsAsked
  <2>2. Placed(ctl, wire, seen, ghost')
    BY <1>2, <1>3, <1>5, PlacedStill DEF SamePlace
  <2> QED
    BY <1>1, <1>2, <1>3, <1>7, <1>8, <2>1, <2>2, LeadsInv
<1>9. CASE reason = "lost" /\ Leads(c, w, seen)
  <2>1. released \in Controllers /\ SameButRequest(ctl, released) /\ ~released.box.sent
    BY <1>1, ControllerHelpers
  <2> HIDE DEF released
  <2>2. left \in Controllers /\ SameButRequest(released, left) /\ left.restore = None /\ ~left.box.sent
    BY <2>1, ControllerHelpers
  <2> HIDE DEF left
  <2>3. /\ c \in Controllers /\ SamePlace(left, c) /\ c.restore = None /\ c.pending = None
        /\ c.rebuild = None /\ ~c.box.sent
    BY <2>2 DEF Controllers, SamePlace
  <2>4. w \in Wires /\ w.rows = None /\ w.rebuild = wire.rebuild /\ w.order = wire.order
    BY <1>1 DEF Wires
  <2> HIDE DEF c, w
  <2>5. SamePlace(ctl, c)
    BY <2>1, <2>2, <2>3 DEF SameButRequest, SamePlace
  <2>6. Settled(c, w, seen) /\ InFlight(c, w, seen, ghost')
    BY <1>1, <1>3, <2>3, <2>4, <2>5 DEF Settled, InFlight, SamePlace
  <2>7. Placed(c, w, seen, ghost')
    BY <1>2, <1>3, <1>5, <2>4, <2>5, PlacedStill
  <2> QED
    BY <1>1, <1>2, <1>3, <1>7, <1>9, <2>3, <2>4, <2>6, <2>7, LeadsInv
<1> QED
  BY <1>4, <1>8, <1>9

\* A request that finds something if there is something to be found.
SafeToAsk(file, c, u, opts) ==
    IF SortAsked(c, u, opts) = "newest"
    THEN OneOf(opts.offset, c.offset) = 0 \/ OneOf(opts.offset, c.offset) < Matches(file, c.query)
    ELSE Leaves(file, c.query, opts.anchor, opts.direction)
\* What goes on as if nothing had come between.
Undisturbed(c, u, g) ==
    /\ ~g.lost /\ u.reason = "none" /\ ~u.follow
    /\ c.viewport # None => IsSeen(Files[u.gen], c.viewport, c.query)

\* A request that nobody clicked for.
LEMMA OtherAsks ==
    ASSUME NEW c \in Controllers, NEW w \in Wires, NEW u \in Views,
           NEW opts \in Options, NEW how \in Hows, NEW asker \in {Nobody, Asker("retry", None)},
           Asks(c, w, u, c.query, opts, how, asker),
           Settled(c, w, u), MayAsk(c, u, how, asker), ghost' \in Ghosts,
           Calm(ghost') =>
             /\ Undisturbed(c, u, ghost')
             /\ \/ c.restore # None /\ how.restores /\ ~how.supersedes /\ how.phase = "initial"
                \/ SafeToAsk(Files[u.gen], c, u, opts)
    PROVE  Inv'
<1>1. asker \in Askers /\ asker.by \notin {"next", "previous"}
  BY HowsAndAskers
<1>2. /\ Base' /\ ui' = u
      /\ Asking(c, w, u, c.query, opts, how, asker, ctl', wire')
  BY <1>1, AsksBase
<1>3. /\ SameButRequest(c, ctl') /\ wire'.rows # None /\ wire'.rows.by = asker.by
      /\ ctl'.restore = IF how.supersedes \/ c.restore = None THEN None
                        ELSE IF how.restores THEN [c.restore EXCEPT !.phase = how.phase] ELSE c.restore
      /\ wire'.rows.query = c.query
      /\ wire'.rows.sort = SortAsked(c, u, opts)
      /\ wire'.rows.offset = IF wire'.rows.sort = "none" THEN Undefined ELSE OneOf(opts.offset, c.offset)
      /\ wire'.rows.anchor = IF wire'.rows.sort = "none" THEN opts.anchor ELSE Undefined
      /\ wire'.rows.direction = IF wire'.rows.sort = "none" /\ opts.direction = "backward"
                                THEN "backward" ELSE "forward"
  BY <1>2, NoneAssumption DEF Asking
<1>4. Placed(ctl', wire', ui', ghost')
  BY <1>1, <1>3 DEF Placed
<1>5. PagesFollowOneAnother'
  BY <1>1, <1>3 DEF PagesFollowOneAnother
<1>6. SortAsked(c, u, opts) \in Sorts
  BY DEF SortAsked, Options, Controllers, Sorts
<1>7. SafeToAsk(Files[u.gen], c, u, opts) => IsSafe(Files[u.gen], wire'.rows)
  BY <1>3, <1>6 DEF SafeToAsk, IsSafe, Leaves, Sorts
<1>8. c.restore # None /\ how.restores /\ ~how.supersedes /\ how.phase = "initial"
        => ctl'.restore # None /\ ctl'.restore.phase = "initial"
  <2> SUFFICES ASSUME c.restore # None, how.restores, ~how.supersedes, how.phase = "initial"
               PROVE  ctl'.restore # None /\ ctl'.restore.phase = "initial"
    OBVIOUS
  <2>1. c.restore \in Restores /\ ctl'.restore = [c.restore EXCEPT !.phase = "initial"]
    BY <1>3 DEF Controllers
  <2>2. ctl'.restore \in Restores /\ ctl'.restore.phase = "initial"
    BY <2>1 DEF Restores
  <2> QED
    BY <2>2, NoneAssumption
<1>9. Restored(ctl', wire', ui', ghost')
  BY <1>2, <1>3, <1>7, <1>8 DEF Restored, Undisturbed, MayAsk, SameButRequest, SamePlace
<1> QED
  BY <1>2, <1>4, <1>5, <1>9 DEF Inv

\* What stays of Restored while only the place in a sorted view changes.
LEMMA StaysUndisturbed ==
    ASSUME Inv, NEW c, NEW u, c.viewport = ctl.viewport, c.query = ctl.query,
           u.gen = ui.gen, u.reason = ui.reason, u.follow = ui.follow,
           NEW g, g.lost = ghost.lost, Calm(ghost)
    PROVE  Undisturbed(c, u, g)
BY DEF Inv, Restored, Undisturbed

LEMMA RowOrderChangedInv == ASSUME Inv, RowOrderChanged PROVE Inv'
<1> DEFINE descending == wire.order = "desc"
           sort == IF descending THEN "newest" ELSE "none"
           turned == [ctl EXCEPT !.descending = descending, !.sort = sort]
           c == ResetPaging(turned)
           w == [wire EXCEPT !.order = None]
<1>1. /\ ui \in Views /\ ctl \in Controllers /\ wire \in Wires /\ ghost \in Ghosts
      /\ Settled(ctl, wire, ui) /\ InFlight(ctl, wire, ui, ghost)
  BY DEF Inv, Base
<1>2. ghost' = ghost /\ Asks(c, w, ui, ctl.query, At(0), Plain, Nobody) /\ wire.order # None
  BY DEF RowOrderChanged
<1>3. /\ turned \in Controllers /\ turned.query = ctl.query /\ turned.sort = sort
      /\ turned.pending = ctl.pending /\ turned.rebuild = ctl.rebuild /\ turned.viewport = ctl.viewport
      /\ turned.restore = ctl.restore /\ turned.box = ctl.box
  BY <1>1 DEF Controllers, Sorts
<1> HIDE DEF turned
<1>4. /\ c \in Controllers /\ SameButPlace(turned, c) /\ c.box = turned.box
      /\ c.offset = 0 /\ c.history = << >>
  BY <1>3, PlaceHelpers
<1>5. w \in Wires /\ w.rows = wire.rows /\ w.rebuild = wire.rebuild /\ w.order = None
  BY <1>1 DEF Wires
<1>6. ui.complete /\ ui.gen > 0
  BY <1>1, <1>2 DEF Settled
<1> HIDE DEF c, w, sort
<1>7. /\ c.query = ctl.query /\ c.sort = sort /\ c.pending = ctl.pending /\ c.rebuild = ctl.rebuild
      /\ c.viewport = ctl.viewport /\ c.restore = ctl.restore /\ c.box = ctl.box
  BY <1>3, <1>4 DEF SameButPlace
<1>8. Settled(c, w, ui)
  BY <1>1, <1>4, <1>5, <1>6, <1>7, NothingBefore DEF Settled
<1>9. CASE ~Readable(ui.reason)
  <2>1. wire.rows = None
    BY <1>1, <1>9 DEF InFlight, RowsAsked
  <2>2. Leads(c, w, ui)
    BY <1>2, <1>9, HowsAndAskers DEF Asks, RequestRows
  <2>3. InFlight(c, w, ui, ghost')
    BY <1>1, <1>5, <1>7, <2>1 DEF InFlight
  <2>4. Placed(c, w, ui, ghost')
    BY <1>2, <1>5, <1>9, <2>1 DEF Inv, Placed
  <2>5. Restored(c, w, ui, ghost')
    BY <1>2, <1>9 DEF Inv, Restored, Readable
  <2> QED
    BY <1>1, <1>2, <1>4, <1>5, <1>8, <2>2, <2>3, <2>4, <2>5, LeadsInv
<1>10. CASE Readable(ui.reason)
  <2>1. MayAsk(c, ui, Plain, Nobody)
    BY <1>6, <1>10, HowsAndAskers DEF MayAsk
  <2>2. At(0) \in Options /\ At(0).offset = 0 /\ At(0).anchor = Undefined
    BY OptionsAreOptions, OptionFields DEF Ordinals
  <2>3. SafeToAsk(Files[ui.gen], c, ui, At(0))
    BY <2>2, OrdinalsAreNumbers DEF SafeToAsk, Leaves, OneOf
  <2>4. Calm(ghost') => Undisturbed(c, ui, ghost')
    BY <1>2, <1>7, StaysUndisturbed
  <2> QED
    BY <1>1, <1>2, <1>4, <1>5, <1>7, <1>8, <2>1, <2>2, <2>3, <2>4, HowsAndAskers, OtherAsks
<1> QED
  BY <1>9, <1>10

LEMMA ResumeLeaves ==
    ASSUME NEW file, IsFile(file), NEW query, NEW first \in Ordinals,
           first # Undefined => first \in FoundIn(file, query),
           NEW opts, opts = RowsOptionsAfterRebuild(first, FALSE)
    PROVE  opts.offset = Undefined /\ Leaves(file, query, opts.anchor, opts.direction)
<1>1. CASE first > 0
  <2>1. first # Undefined /\ first \in Nat
    BY <1>1, OrdinalsAreNumbers
  <2>2. first \in DOMAIN file /\ Finds(file, query, first)
    BY <2>1 DEF FoundIn
  <2>3. opts = After(first - 1)
    BY <1>1 DEF RowsOptionsAfterRebuild
  <2>4. opts.anchor = first - 1 /\ opts.direction = "forward" /\ opts.offset = Undefined
    BY <2>3 DEF After, NoOptions
  <2>5. first > opts.anchor
    <3>1. first > first - 1
      BY <2>1
    <3>2. opts.anchor = first - 1
      BY <2>4
    <3> QED
      BY <3>1, <3>2
  <2>6. opts.direction # "backward"
    BY <2>4
  <2>7. Leaves(file, query, opts.anchor, opts.direction)
    BY <2>2, <2>5, <2>6 DEF Leaves
  <2> QED
    BY <2>4, <2>7
<1>2. CASE ~(first > 0)
  <2>1. opts = NoOptions
    BY <1>2 DEF RowsOptionsAfterRebuild
  <2> QED
    BY <2>1, OptionFields DEF Leaves
<1> QED
  BY <1>1, <1>2

LEMMA ProfileChangedInv == ASSUME Inv, ProfileChanged PROVE Inv'
<1> DEFINE c == ResetPaging(ctl)
           restore == ctl.restore
           pendingRestore == ctl.pending # None /\ ctl.pending.restores /\ restore # None
           first == IF ctl.viewport # None THEN ctl.viewport.first ELSE Undefined
           again == IF pendingRestore /\ ~ui.follow
                    THEN RowsOptionsForViewport(restore.first, restore.text, FALSE, None)
                    ELSE RowsOptionsAfterRebuild(first, ui.follow)
           options == IF ctl.sort = "newest" THEN [again EXCEPT !.offset = 0] ELSE again
           phase == IF restore # None /\ restore.phase = "retrying" THEN "retrying" ELSE "initial"
           how == IF pendingRestore THEN Restoring(phase) ELSE Plain
<1>1. /\ ui \in Views /\ ctl \in Controllers /\ wire \in Wires /\ ghost \in Ghosts
      /\ Settled(ctl, wire, ui) /\ InFlight(ctl, wire, ui, ghost)
  BY DEF Inv, Base
<1>2. ui.gen > 0 /\ ui.reason = "none"
  BY DEF ProfileChanged, Mishap
<1>3. /\ ghost' \in Ghosts /\ ghost'.lost = ghost.lost
      /\ Calm(ghost') => Calm(ghost) /\ ~(pendingRestore /\ phase = "retrying")
  <2>1. ghost' = [ghost EXCEPT !.reset = @ \/ (pendingRestore /\ phase = "retrying")]
    BY DEF ProfileChanged
  <2> HIDE DEF pendingRestore, phase
  <2>2. (ghost.reset \/ (pendingRestore /\ phase = "retrying")) \in BOOLEAN
    OBVIOUS
  <2> QED
    BY <1>1, <2>1, <2>2 DEF Ghosts, Calm
<1>4. IF restore # None /\ ~pendingRestore THEN Leads(c, wire, ui)
      ELSE Asks(c, wire, ui, ctl.query, options, how, Nobody)
  BY DEF ProfileChanged
<1>5. /\ c \in Controllers /\ SameButPlace(ctl, c) /\ c.box = ctl.box
      /\ c.offset = 0 /\ c.history = << >>
  BY <1>1, PlaceHelpers
<1> HIDE DEF c
<1>6. Settled(c, wire, ui)
  BY <1>1, <1>5, NothingBefore DEF Settled, SameButPlace
<1>7. CASE restore # None /\ ~pendingRestore
  <2>1. wire.rows = None /\ ctl.sort # "newest"
    BY <1>1, <1>2, <1>7 DEF InFlight, Settled
  <2>2. InFlight(c, wire, ui, ghost')
    BY <1>1, <1>5, <2>1 DEF InFlight, SameButPlace
  <2>3. Placed(c, wire, ui, ghost')
    BY <1>3, <1>5, <2>1 DEF Inv, Placed, IsAt, SameButPlace
  <2>4. Restored(c, wire, ui, ghost')
    BY <1>3, <1>5 DEF Inv, Restored, SameButPlace
  <2> QED
    BY <1>1, <1>3, <1>4, <1>5, <1>6, <1>7, <2>2, <2>3, <2>4, LeadsInv
<1>8. CASE ~(restore # None /\ ~pendingRestore)
  <2>1. Asks(c, wire, ui, c.query, options, how, Nobody)
    BY <1>4, <1>5, <1>8 DEF SameButPlace
  <2>2. first \in Ordinals
    BY <1>1 DEF Controllers, Viewports, Ordinals
  <2>3. restore # None => restore.first \in Ordinals /\ restore.text \in Numbers
    BY <1>1 DEF Controllers, Restores
  <2> HIDE DEF first
  <2>4. again \in Options
    <3>1. ui.follow \in BOOLEAN
      BY <1>1 DEF Views
    <3>2. RowsOptionsAfterRebuild(first, ui.follow) \in Options
      BY <2>2, <3>1, OptionsToResume
    <3>3. restore # None => RowsOptionsForViewport(restore.first, restore.text, FALSE, None) \in Options
      BY <2>3, OptionsForViewport
    <3> QED
      BY <3>2, <3>3
  <2>5. ~pendingRestore => again = RowsOptionsAfterRebuild(first, ui.follow)
    OBVIOUS
  <2> HIDE DEF again
  <2>6. /\ options \in Options /\ options.offset \in {0, again.offset}
        /\ options.anchor = again.anchor /\ options.direction = again.direction
    BY <2>4 DEF Options, Ordinals
  <2> HIDE DEF options
  <2>7. /\ how \in Hows
        /\ pendingRestore => how.restores /\ ~how.supersedes /\ how.phase = phase
        /\ ~pendingRestore => how.supersedes
    BY HowsAndAskers
  <2>8. phase \in {"initial", "retrying"}
    OBVIOUS
  <2> HIDE DEF how, phase
  <2>9. MayAsk(c, ui, how, Nobody)
    BY <1>2, <2>7, HowsAndAskers DEF MayAsk, Readable
  <2>10. ASSUME Calm(ghost')
         PROVE  /\ Undisturbed(c, ui, ghost')
                /\ \/ c.restore # None /\ how.restores /\ ~how.supersedes /\ how.phase = "initial"
                   \/ SafeToAsk(Files[ui.gen], c, ui, options)
    <3>1. Undisturbed(c, ui, ghost')
      BY <1>3, <1>5, <2>10, StaysUndisturbed DEF SameButPlace
    <3>2. CASE pendingRestore
      BY <1>3, <1>5, <2>7, <2>8, <2>10, <3>1, <3>2 DEF SameButPlace
    <3>3. CASE ~pendingRestore
      <4>1. ~ui.follow /\ (ctl.viewport # None => IsSeen(Files[ui.gen], ctl.viewport, ctl.query))
        BY <1>3, <2>10 DEF Inv, Restored
      <4>2. first # Undefined => first \in FoundIn(Files[ui.gen], ctl.query)
        BY <4>1 DEF first, IsSeen
      <4>3. again = RowsOptionsAfterRebuild(first, FALSE)
        BY <1>1, <2>5, <3>3, <4>1 DEF Views
      <4>4. again.offset = Undefined /\ Leaves(Files[ui.gen], ctl.query, again.anchor, again.direction)
        BY <1>2, <2>2, <4>2, <4>3, PageFile, ResumeLeaves
      <4>5. OneOf(options.offset, c.offset) = 0
        BY <1>5, <2>6, <4>4 DEF OneOf
      <4>6. SafeToAsk(Files[ui.gen], c, ui, options)
        BY <1>5, <2>6, <4>4, <4>5 DEF SafeToAsk, SameButPlace
      <4> QED
        BY <3>1, <4>6
    <3> QED
      BY <3>2, <3>3
  <2> QED
    BY <1>1, <1>3, <1>5, <1>6, <2>1, <2>6, <2>7, <2>9, <2>10, OtherAsks
<1> QED
  BY <1>7, <1>8

\* Where an empty restore looks next.
LEMMA FallbackLeaves ==
    ASSUME NEW file, IsFile(file), Total(file) \in Nat, NEW query \in Queries,
           NEW first \in Ordinals, NEW text \in Numbers, NEW total \in {Total(file), Undefined},
           NEW offset \in Ordinals, NEW matched \in Ordinals, NEW cut \in BOOLEAN,
           NEW f, f = RowsOptionsAfterEmptyRebuild(first, text, total, query, offset, matched, cut)
    PROVE  /\ f \in Options \cup {None}
           /\ f = None => IF offset # Undefined THEN cut \/ matched = Undefined ELSE total = Undefined
           /\ f # None =>
                /\ f.sort = "unset"
                /\ offset = Undefined => f.offset = Undefined
                /\ total # 0 => Leaves(file, query, f.anchor, f.direction)
                /\ offset # Undefined =>
                     /\ ~cut /\ matched \in Nat /\ f.offset \in Nat
                     /\ f.offset = 0 \/ f.offset < matched
<1>1. None \notin Options
  BY NoneAssumption
<1>2. CASE offset # Undefined
  <2>1. CASE cut \/ matched = Undefined
    BY <1>1, <1>2, <2>1 DEF RowsOptionsAfterEmptyRebuild
  <2>2. CASE ~cut /\ matched # Undefined
    <3> DEFINE x == IF matched = 0 THEN 0 ELSE IF offset < matched THEN offset ELSE LastPageStart(matched)
    <3>1. matched \in Nat /\ offset \in Nat
      BY <1>2, <2>2, OrdinalsAreNumbers
    <3>2. matched # 0 => LastPageStart(matched) \in Nat /\ LastPageStart(matched) < matched
      BY <3>1, PagesOfOffsets DEF Numbers
    <3>3. x \in Nat /\ (x = 0 \/ x < matched)
      BY <3>1, <3>2
    <3>4. f = At(x)
      BY <1>2, <2>2 DEF RowsOptionsAfterEmptyRebuild
    <3> HIDE DEF x
    <3>5. At(x) \in Options
      BY <3>3, OptionsAreOptions DEF Ordinals
    <3>6. f.anchor = Undefined /\ f.sort = "unset" /\ f.offset = x
      BY <3>4 DEF At, NoOptions
    <3> QED
      BY <1>1, <1>2, <2>2, <3>1, <3>3, <3>4, <3>5, <3>6 DEF Leaves
  <2> QED
    BY <2>1, <2>2
<1>3. CASE offset = Undefined /\ total = Undefined
  BY <1>1, <1>3 DEF RowsOptionsAfterEmptyRebuild
<1>4. CASE offset = Undefined /\ total # Undefined /\ (total = 0 \/ query # "all")
  <2>1. f = NoOptions \/ f = ToTail
    BY <1>4 DEF RowsOptionsAfterEmptyRebuild
  <2>2. f \in Options /\ f.anchor = Undefined /\ f.offset = Undefined /\ f.sort = "unset"
    BY <2>1, OptionsAreOptions, OptionFields
  <2> QED
    BY <1>1, <1>4, <2>2 DEF Leaves
<1>5. CASE offset = Undefined /\ total # Undefined /\ total # 0 /\ query = "all"
  <2> DEFINE desired == IF first # Undefined THEN first ELSE (text - 1) * PageSize
             near == IF desired < total THEN desired ELSE total - 1
             start == (near \div PageSize) * PageSize
  <2>1. total = Total(file) /\ total \in Nat /\ total > 0
    BY <1>5
  <2>2. desired \in Nat
    BY OrdinalsAreNumbers, PagesOfOffsets
  <2>3. f = IF start = 0 THEN NoOptions ELSE After(start - 1)
    BY <1>5 DEF RowsOptionsAfterEmptyRebuild
  <2> HIDE DEF desired
  <2>4. near \in Nat /\ near <= total - 1
    BY <2>1, <2>2
  <2> HIDE DEF near
  <2>5. start \in Nat /\ start <= near
    BY <2>4, PagesOfOffsets
  <2> HIDE DEF start
  <2>6. CASE start = 0
    <3>1. f \in Options /\ f.anchor = Undefined /\ f.offset = Undefined /\ f.sort = "unset"
      BY <2>3, <2>6, OptionsAreOptions, OptionFields
    <3> QED
      BY <1>1, <1>5, <3>1 DEF Leaves
  <2>7. CASE start # 0
    <3>1. start - 1 \in Nat /\ start - 1 \in Ordinals
      BY <2>5, <2>7 DEF Ordinals
    <3>2. f = After(start - 1)
      BY <2>3, <2>7
    <3>3. f.anchor = start - 1 /\ f.direction = "forward" /\ f.offset = Undefined /\ f.sort = "unset"
      BY <3>2 DEF After, NoOptions
    <3>4. f \in Options
      BY <3>1, <3>2, OptionsAreOptions
    <3>5. start \in DOMAIN file /\ Finds(file, query, start)
      <4>1. start \in 0..(Total(file) - 1)
        BY <2>1, <2>4, <2>5
      <4> QED
        BY <1>5, <4>1 DEF IsFile, Finds
    <3>6. start > start - 1
      BY <2>5
    <3>7. start > f.anchor
      BY <3>3, <3>6
    <3>8. Leaves(file, query, f.anchor, f.direction)
      BY <3>3, <3>5, <3>7 DEF Leaves
    <3> QED
      BY <1>1, <1>5, <3>3, <3>4, <3>8
  <2> QED
    BY <2>6, <2>7
<1> QED
  BY <1>2, <1>3, <1>4, <1>5

\* What an empty restore leads to, and why it stops.
Requested(c, asked) == IF asked # None THEN asked ELSE c.restore.requested
Fallback(c, total, asked, matched, cut) ==
    RowsOptionsAfterEmptyRebuild(c.restore.first, c.restore.text, total, c.query,
        IF Requested(c, asked) = None THEN Undefined ELSE Requested(c, asked).offset, matched, cut)
WhyStop(c, u, total, asked, f) ==
    \/ u.reason # "none" \/ u.follow \/ c.restore.phase = "retrying"
    \/ f = None /\ ~(~u.complete /\ total = Undefined)
    \/ total = 0
    \/ /\ f # None /\ Requested(c, asked) # None
       /\ Requested(c, asked).anchor = f.anchor /\ Requested(c, asked).direction = f.direction
       /\ Requested(c, asked).offset = f.offset
Stops(c, w, d, v) == d = AbandonRestore(c) /\ v = w
Waits(c, w, u, requested, d, v) ==
    /\ d = [c EXCEPT !.restore = [[c.restore EXCEPT !.phase = "waiting-index"]
                                      EXCEPT !.requested = requested]]
    /\ v = w /\ ~u.complete
Tries(c, w, u, f, next) ==
    /\ f # None /\ u.reason = "none"
    /\ next = RequestRows(c, w, u, c.query, f, Restoring("retrying"), Asker("retry", None))

LEMMA EmptyRestore ==
    ASSUME NEW c \in Controllers, c.restore # None, c.restore.query = c.query,
           NEW w, NEW u, NEW total, NEW asked, NEW matched, NEW cut,
           NEW f, f = Fallback(c, total, asked, matched, cut),
           NEW finished, finished = FinishEmptyRestore(c, w, u, total, asked, matched, cut)
    PROVE  \/ Stops(c, w, finished.ctl, finished.wire) /\ WhyStop(c, u, total, asked, f)
           \/ Waits(c, w, u, Requested(c, asked), finished.ctl, finished.wire) /\ u.reason = "none"
           \/ Tries(c, w, u, f, finished) /\ total # 0
<1> DEFINE plan == PlanEmptyRestore(c, u, total, asked, matched, cut)
           requested == Requested(c, asked)
<1>1. \/ plan.kind = "stop" /\ WhyStop(c, u, total, asked, f)
      \/ plan.kind = "wait-index" /\ plan.requested = requested /\ ~u.complete /\ u.reason = "none"
      \/ plan.kind = "retry" /\ plan.options = f /\ f # None /\ total # 0 /\ u.reason = "none"
  BY DEF PlanEmptyRestore, WhyStop, Fallback, Requested
<1> HIDE DEF requested
<1>2. finished = CASE plan.kind = "stop" -> [ctl |-> AbandonRestore(c), wire |-> w]
                   [] plan.kind = "wait-index" ->
                        [ctl |-> [c EXCEPT !.restore.phase = "waiting-index",
                                           !.restore.requested = plan.requested], wire |-> w]
                   [] plan.kind = "retry" ->
                        RequestRows(c, w, u, c.query, plan.options, Restoring("retrying"),
                                    Asker("retry", None))
  BY DEF FinishEmptyRestore
<1> HIDE DEF plan
<1>3. CASE plan.kind = "stop" /\ WhyStop(c, u, total, asked, f)
  BY <1>2, <1>3 DEF Stops
<1>4. CASE plan.kind = "wait-index" /\ plan.requested = requested /\ ~u.complete /\ u.reason = "none"
  <2>1. finished = [ctl |-> [c EXCEPT !.restore.phase = "waiting-index",
                                      !.restore.requested = requested], wire |-> w]
    BY <1>2, <1>4
  <2> DEFINE waits == [[c.restore EXCEPT !.phase = "waiting-index"] EXCEPT !.requested = requested]
  <2>2. finished = [ctl |-> [c EXCEPT !.restore = waits], wire |-> w]
    BY <2>1, Zenon
  <2> QED
    BY <1>4, <2>2 DEF Waits, requested
<1>5. CASE plan.kind = "retry" /\ plan.options = f /\ f # None /\ total # 0 /\ u.reason = "none"
  BY <1>2, <1>5 DEF Tries
<1> QED
  BY <1>1, <1>3, <1>4, <1>5

\* Counting a retry leaves the rest of the ghost alone.
LEMMA RetriesGhost ==
    ASSUME ghost \in Ghosts, NEW g, g = Retries
    PROVE  /\ g \in Ghosts /\ g.lost = ghost.lost /\ g.touched = ghost.touched
           /\ Calm(g) <=> Calm(ghost)
<1> DEFINE one == IF wire'.rows # None /\ wire'.rows.by = "retry" /\ wire'.rows # wire.rows THEN 1 ELSE 0
<1>1. g = [ghost EXCEPT !.retries = @ + one]
  BY DEF Retries
<1>2. one \in Nat
  OBVIOUS
<1> HIDE DEF one
<1>3. ghost.retries + one \in Nat
  BY <1>2 DEF Ghosts
<1> QED
  BY <1>1, <1>3 DEF Ghosts, Calm

\* What the fallback of a restore is, whoever asks for it.
LEMMA FallbackOf ==
    ASSUME ui.gen \in 1..Len(Files),
           NEW c \in Controllers, c.restore # None, NEW total \in {Total(File), Undefined},
           NEW asked \in Options \cup {None}, NEW matched \in Ordinals, NEW cut \in BOOLEAN,
           NEW f, f = Fallback(c, total, asked, matched, cut),
           NEW offset, offset = IF Requested(c, asked) = None THEN Undefined ELSE Requested(c, asked).offset
    PROVE  /\ Requested(c, asked) \in Options \cup {None} /\ offset \in Ordinals
           /\ f \in Options \cup {None}
           /\ f = None => IF offset # Undefined THEN cut \/ matched = Undefined ELSE total = Undefined
           /\ f # None =>
                /\ f.sort = "unset"
                /\ offset = Undefined => f.offset = Undefined
                /\ total # 0 => Leaves(File, c.query, f.anchor, f.direction)
                /\ offset # Undefined =>
                     /\ ~cut /\ matched \in Nat /\ f.offset \in Nat
                     /\ f.offset = 0 \/ f.offset < matched
<1>1. c.restore \in Restores /\ c.query \in Queries
  BY DEF Controllers
<1>2. c.restore.first \in Ordinals /\ c.restore.text \in Numbers /\ c.restore.requested \in Options \cup {None}
  BY <1>1 DEF Restores
<1>3. Requested(c, asked) \in Options \cup {None} /\ offset \in Ordinals
  BY <1>2 DEF Requested, Options, Ordinals
<1>4. f = RowsOptionsAfterEmptyRebuild(c.restore.first, c.restore.text, total, c.query, offset, matched, cut)
  BY DEF Fallback
<1>5. IsFile(File) /\ Total(File) \in Nat
  BY FilesAreFiles DEF File
<1> QED
  BY <1>1, <1>2, <1>3, <1>4, <1>5, FallbackLeaves

\* The index is complete and the order the host prefers becomes the order.
LEMMA TurnedInv ==
    ASSUME Inv, NEW c \in Controllers, NEW w \in Wires, NEW u \in Views,
           Settled(c, w, u), SameButRequest(ctl, c),
           u.gen = ui.gen, u.gen > 0, u.complete, u.reason = ui.reason, u.reason = "none",
           u.follow = ui.follow,
           ghost' \in Ghosts, ghost'.lost = ghost.lost, Calm(ghost') => Calm(ghost),
           Asks(ResetPaging([c EXCEPT !.sort = "newest"]), w, u, ctl.query, At(0), Plain, Nobody)
    PROVE  Inv'
<1> DEFINE turning == [c EXCEPT !.sort = "newest"]
           d == ResetPaging(turning)
<1>1. /\ turning \in Controllers /\ turning.query = c.query /\ turning.viewport = c.viewport
      /\ turning.rebuild = c.rebuild /\ turning.restore = c.restore
  BY DEF Controllers, Sorts
<1>2. Asks(d, w, u, ctl.query, At(0), Plain, Nobody)
  OBVIOUS
<1> HIDE DEF turning
<1>3. /\ d \in Controllers /\ SameButPlace(turning, d) /\ d.offset = 0 /\ d.history = << >>
  BY <1>1, PlaceHelpers
<1> HIDE DEF d
<1>4. d.query = ctl.query /\ d.viewport = ctl.viewport
  BY <1>1, <1>3 DEF SameButPlace, SameButRequest, SamePlace
<1>5. Settled(d, w, u)
  BY <1>1, <1>3, NothingBefore DEF Settled, SameButPlace
<1>6. MayAsk(d, u, Plain, Nobody)
  BY HowsAndAskers DEF MayAsk, Readable
<1>7. At(0) \in Options /\ At(0).offset = 0 /\ At(0).anchor = Undefined
  BY OptionsAreOptions, OptionFields DEF Ordinals
<1>8. SafeToAsk(Files[u.gen], d, u, At(0))
  BY <1>7, OrdinalsAreNumbers DEF SafeToAsk, Leaves, OneOf
<1>9. Calm(ghost') => Undisturbed(d, u, ghost')
  BY <1>4, StaysUndisturbed
<1> QED
  BY <1>2, <1>3, <1>4, <1>5, <1>6, <1>7, <1>8, <1>9, HowsAndAskers, OtherAsks

LEMMA IndexCompletesInv == ASSUME Inv, IndexCompletes PROVE Inv'
<1> DEFINE seen == [ui EXCEPT !.complete = TRUE]
           waiting == ctl.restore # None /\ ctl.restore.phase = "waiting-index"
           finished == IF waiting THEN FinishEmptyRestore(ctl, wire, seen, Total(File), None, Undefined, FALSE)
                       ELSE [ctl |-> ctl, wire |-> wire]
           turning == [finished.ctl EXCEPT !.sort = "newest"]
           turned == ResetPaging(turning)
           f == Fallback(ctl, Total(File), None, Undefined, FALSE)
<1>1. /\ ui \in Views /\ ctl \in Controllers /\ wire \in Wires /\ ghost \in Ghosts
      /\ Settled(ctl, wire, ui) /\ InFlight(ctl, wire, ui, ghost)
  BY DEF Inv, Base
<1>2. ui.gen > 0 /\ ~ui.complete
  BY DEF IndexCompletes
<1>3. IF ctl.descending /\ finished.ctl.sort = "none" /\ ui.reason = "none"
      THEN Asks(turned, finished.wire, seen, ctl.query, At(0), Plain, Nobody)
      ELSE Leads(finished.ctl, finished.wire, seen)
  BY DEF IndexCompletes
<1>4. ghost' \in Ghosts /\ ghost'.lost = ghost.lost /\ (Calm(ghost') <=> Calm(ghost))
  BY <1>1, RetriesGhost DEF IndexCompletes
<1>5. /\ seen \in Views /\ seen.gen = ui.gen /\ seen.complete /\ seen.page = ui.page
      /\ seen.reason = ui.reason /\ seen.follow = ui.follow
  BY <1>1 DEF Views
<1>6. ui.gen \in 1..Len(Files)
  BY <1>1, <1>2 DEF Views
<1>7. ctl.sort = "none" /\ wire.order = None /\ (waiting => wire.rows = None)
  BY <1>1, <1>2 DEF Settled, InFlight, Controllers, Sorts
<1> HIDE DEF seen
<1>8. Settled(ctl, wire, seen)
  BY <1>1, <1>5, <1>7 DEF Settled
<1>9. waiting => /\ f \in Options \cup {None} /\ (f # None => f.sort = "unset")
                 /\ f # None /\ Total(File) # 0 => Leaves(File, ctl.query, f.anchor, f.direction)
                 /\ f = None => Requested(ctl, None) # None /\ Requested(ctl, None).offset # Undefined
                 /\ Requested(ctl, None) = ctl.restore.requested
  <2> SUFFICES ASSUME waiting
               PROVE  /\ f \in Options \cup {None} /\ (f # None => f.sort = "unset")
                      /\ f # None /\ Total(File) # 0 => Leaves(File, ctl.query, f.anchor, f.direction)
                      /\ f = None => Requested(ctl, None) # None /\ Requested(ctl, None).offset # Undefined
                      /\ Requested(ctl, None) = ctl.restore.requested
    OBVIOUS
  <2>1. Total(File) # Undefined
    BY <1>6, FilesAreFiles, OrdinalsAreNumbers DEF File
  <2> DEFINE offset == IF Requested(ctl, None) = None THEN Undefined ELSE Requested(ctl, None).offset
  <2>2. /\ f \in Options \cup {None}
        /\ f = None => IF offset # Undefined THEN FALSE \/ Undefined = Undefined ELSE Total(File) = Undefined
        /\ f # None => f.sort = "unset" /\ (Total(File) # 0 => Leaves(File, ctl.query, f.anchor, f.direction))
    <3> HIDE DEF waiting, f
    <3>1. ctl.restore # None
      BY DEF waiting
    <3>2. f = Fallback(ctl, Total(File), None, Undefined, FALSE)
      BY DEF f
    <3>3. Undefined \in Ordinals
      BY DEF Ordinals
    <3> DEFINE cut == FALSE
    <3>5. cut \in BOOLEAN /\ cut = FALSE
      OBVIOUS
    <3> HIDE DEF offset, cut
    <3>6. f = Fallback(ctl, Total(File), None, Undefined, cut)
      BY <3>2, <3>5
    <3>4. offset = IF Requested(ctl, None) = None THEN Undefined ELSE Requested(ctl, None).offset
      BY DEF offset
    <3> QED
      BY <1>1, <1>6, <3>1, <3>3, <3>4, <3>5, <3>6, FallbackOf
  <2>3. Requested(ctl, None) = ctl.restore.requested
    BY DEF Requested
  <2> QED
    BY <2>1, <2>2, <2>3
<1>10. \/ ~waiting /\ finished.ctl = ctl /\ finished.wire = wire
       \/ waiting /\ Stops(ctl, wire, finished.ctl, finished.wire) /\ WhyStop(ctl, seen, Total(File), None, f)
       \/ waiting /\ Tries(ctl, wire, seen, f, finished) /\ Total(File) # 0
  <2>1. CASE waiting
    <3>1. finished = FinishEmptyRestore(ctl, wire, seen, Total(File), None, Undefined, FALSE)
      BY <2>1
    <3>2. f = Fallback(ctl, Total(File), None, Undefined, FALSE)
      OBVIOUS
    <3>3. ctl.restore # None /\ ctl.restore.query = ctl.query
      BY <1>1, <2>1 DEF Settled
    <3> HIDE DEF finished, f, waiting
    <3>4. ~Waits(ctl, wire, seen, Requested(ctl, None), finished.ctl, finished.wire)
      BY <1>5 DEF Waits
    <3> QED
      BY <1>1, <2>1, <3>1, <3>2, <3>3, <3>4, EmptyRestore
  <2>2. CASE ~waiting
    BY <2>2
  <2> QED
    BY <2>1, <2>2
<1>11. waiting => ctl.restore # None
  OBVIOUS
<1>12. ~waiting => (wire.rows = None => ctl.restore = None)
  BY <1>1 DEF InFlight
<1> HIDE DEF f, finished, waiting
<1>13. CASE waiting /\ Tries(ctl, wire, seen, f, finished) /\ Total(File) # 0
  <2> DEFINE how == Restoring("retrying")
             asker == Asker("retry", None)
  <2>1. how \in Hows /\ how.restores /\ asker \in Askers /\ asker.by = "retry"
    BY HowsAndAskers
  <2>2. f \in Options /\ f.sort = "unset" /\ Leaves(File, ctl.query, f.anchor, f.direction)
    BY <1>9, <1>13 DEF Tries
  <2>3. finished = RequestRows(ctl, wire, seen, ctl.query, f, how, asker) /\ ui.reason = "none"
    BY <1>5, <1>13 DEF Tries
  <2> HIDE DEF how
  <2>4. MayAsk(ctl, seen, how, asker)
    BY <1>2, <1>5, <2>1, <2>3 DEF MayAsk, Readable
  <2>5. Undisturbed(ctl, seen, ghost') \/ ~Calm(ghost')
    BY <1>4, <1>5, StaysUndisturbed
  <2>6. SafeToAsk(Files[seen.gen], ctl, seen, f)
    BY <1>5, <1>7, <2>2 DEF SafeToAsk, SortAsked, File
  <2>7. CASE Leads(finished.ctl, finished.wire, seen)
    <3>1. Asks(ctl, wire, seen, ctl.query, f, how, asker)
      BY <2>3, <2>7 DEF Asks
    <3>2. asker \in {Nobody, Asker("retry", None)}
      OBVIOUS
    <3> HIDE DEF asker
    <3> QED
      BY <1>1, <1>4, <1>5, <1>8, <2>1, <2>2, <2>4, <2>5, <2>6, <3>1, <3>2, OtherAsks
  <2>8. CASE Asks(turned, finished.wire, seen, ctl.query, At(0), Plain, Nobody)
    <3>1. Asking(ctl, wire, seen, ctl.query, f, how, asker, finished.ctl, finished.wire)
      <4>1. ctl.query \in Queries /\ Readable(seen.reason)
        BY <1>1, <1>5, <2>3 DEF Controllers, Readable
      <4> HIDE DEF asker
      <4> QED
        BY <1>1, <1>5, <2>1, <2>2, <2>3, <4>1, RequestAsks
    <3> HIDE DEF asker
    <3>2. Settled(finished.ctl, finished.wire, seen)
      BY <1>1, <1>5, <1>8, <2>1, <2>2, <2>4, <3>1, AskingIsInFlight
    <3>3. finished.ctl \in Controllers /\ finished.wire \in Wires /\ SameButRequest(ctl, finished.ctl)
      BY <3>1 DEF Asking
    <3> QED
      BY <1>2, <1>4, <1>5, <2>3, <2>8, <3>2, <3>3, TurnedInv
  <2> QED
    BY <1>3, <2>7, <2>8
<1>14. CASE waiting /\ Stops(ctl, wire, finished.ctl, finished.wire) /\ WhyStop(ctl, seen, Total(File), None, f)
  <2>1. /\ finished.ctl \in Controllers /\ SameButRequest(ctl, finished.ctl)
        /\ finished.ctl.restore = None /\ finished.ctl.pending = ctl.pending
        /\ finished.ctl.box = ctl.box /\ finished.wire = wire
    BY <1>1, <1>14, ControllerHelpers DEF Stops
  <2>2. Settled(finished.ctl, finished.wire, seen)
    BY <1>8, <2>1 DEF Settled, SameButRequest, SamePlace
  <2>3. CASE Leads(finished.ctl, finished.wire, seen)
    <3>1. InFlight(finished.ctl, finished.wire, seen, ghost')
      BY <1>1, <1>5, <1>7, <1>14, <2>1 DEF InFlight
    <3>2. Placed(finished.ctl, finished.wire, seen, ghost')
      BY <1>4, <1>5, <2>1, PlacedStill DEF SameButRequest
    <3>3. Restored(finished.ctl, finished.wire, seen, ghost')
      <4> SUFFICES ASSUME Calm(ghost') PROVE Restored(finished.ctl, finished.wire, seen, ghost')
        BY DEF Restored
      <4>1. Restored(ctl, wire, ui, ghost) /\ Calm(ghost)
        BY <1>4 DEF Inv
      <4>2. wire.rows = None /\ ctl.restore # None /\ ctl.restore.phase = "waiting-index"
        BY <1>7, <1>14 DEF waiting
      <4>3. /\ ctl.restore.requested # None /\ ctl.restore.requested.offset = Undefined
            /\ ui.reason = "none" /\ ~ui.follow
        BY <4>1, <4>2 DEF Restored
      <4>4. \/ Total(File) = 0
            \/ Leaves(File, ctl.query, ctl.restore.requested.anchor, ctl.restore.requested.direction)
        BY <1>5, <1>9, <1>14, <4>2, <4>3 DEF WhyStop
      <4>5. IsBlank(ui.page) => Nothing(File, ui.page.query) \/ Total(File) = 0
        BY <4>1, <4>2, <4>4 DEF Restored, File
      <4>6. Total(File) = 0 => \A query : Nothing(File, query)
        <5>1. IsFile(File)
          BY <1>6, FilesAreFiles DEF File
        <5> QED
          BY <5>1 DEF IsFile, Nothing
      <4> QED
        BY <1>4, <1>5, <2>1, <4>1, <4>2, <4>5, <4>6 DEF Restored, File, SameButRequest, SamePlace
    <3> QED
      BY <1>1, <1>4, <1>5, <2>1, <2>2, <2>3, <3>1, <3>2, <3>3, LeadsInv
  <2>4. CASE Asks(turned, finished.wire, seen, ctl.query, At(0), Plain, Nobody) /\ ui.reason = "none"
    BY <1>1, <1>2, <1>4, <1>5, <2>1, <2>2, <2>4, TurnedInv
  <2> QED
    BY <1>3, <2>3, <2>4
<1>15. CASE ~waiting /\ finished.ctl = ctl /\ finished.wire = wire
  <2>1. CASE Leads(finished.ctl, finished.wire, seen)
    <3>1. InFlight(ctl, wire, seen, ghost')
      BY <1>1, <1>4, <1>5, <1>12, <1>15 DEF InFlight, RowsAsked
    <3>2. Placed(ctl, wire, seen, ghost')
      BY <1>4, <1>5, PlacedStill DEF SamePlace
    <3>3. Restored(ctl, wire, seen, ghost')
      BY <1>4, <1>5 DEF Inv, Restored
    <3> QED
      BY <1>1, <1>4, <1>5, <1>8, <1>15, <2>1, <3>1, <3>2, <3>3, LeadsInv
  <2>2. CASE Asks(turned, finished.wire, seen, ctl.query, At(0), Plain, Nobody) /\ ui.reason = "none"
    BY <1>1, <1>2, <1>4, <1>5, <1>8, <1>15, <2>2, TurnedInv DEF SameButRequest, SamePlace
  <2> QED
    BY <1>3, <2>1, <2>2
<1> QED
  BY <1>10, <1>13, <1>14, <1>15

LEMMA OpenedIsPlanned ==
    ASSUME ui \in Views, ctl \in Controllers
    PROVE  /\ PlanOpened.replaces \in BOOLEAN /\ PlanOpened.options \in Options
           /\ PlanOpened.restore \in Restores \cup {None}
           /\ PlanOpened.restore # None <=> PlanOpened.replaces /\ ~ui.follow
           /\ PlanOpened.restore # None => PlanOpened.restore.query = ctl.query
<1> DEFINE saved == ctl.viewport
           pending == ctl.pending
           rebuild == ctl.rebuild
           replaces == ui.gen > 0 /\ ~(saved = None /\ pending = None /\ rebuild = None)
           viewportQuery == IF pending # None THEN pending.query
                            ELSE IF rebuild # None THEN rebuild.viewportQuery
                            ELSE IF saved # None THEN saved.query ELSE ctl.query
           matches == viewportQuery = ctl.query
           savedFirst == IF saved # None THEN saved.first ELSE Undefined
           resume == IF ~matches THEN NoOptions
                     ELSE IF pending # None THEN pending.options
                     ELSE IF rebuild # None THEN rebuild.options
                     ELSE RowsOptionsAfterRebuild(savedFirst, FALSE)
           first == IF rebuild # None /\ rebuild.first # Undefined THEN rebuild.first
                    ELSE IF matches THEN savedFirst ELSE Undefined
           text == IF rebuild # None THEN rebuild.text ELSE IF matches THEN ctl.box.text ELSE 1
           restore == [query |-> ctl.query, phase |-> "initial", requested |-> None,
                       first |-> first, text |-> text]
           options == IF ui.follow THEN ToTail ELSE IF replaces THEN resume ELSE NoOptions
           restored == IF replaces /\ ~ui.follow THEN restore ELSE None
<1>1. PlanOpened = [replaces |-> replaces, options |-> options, restore |-> restored]
  BY DEF PlanOpened
<1>2. /\ saved # None => saved.first \in Ordinals
      /\ pending # None => pending.options \in Options
      /\ rebuild # None => rebuild.first \in Ordinals /\ rebuild.text \in Numbers /\ rebuild.options \in Options
      /\ ctl.box.text \in Numbers /\ ctl.query \in Queries
  BY DEF Controllers, Viewports, Inputs, Captures, Boxes
<1>3. Undefined \in Ordinals /\ 1 \in Numbers
  BY DEF Ordinals, Numbers
<1>4. replaces \in BOOLEAN
  OBVIOUS
<1> HIDE DEF replaces, matches
<1>5. savedFirst \in Ordinals
  BY <1>2, <1>3
<1> HIDE DEF savedFirst
<1>6. resume \in Options
  BY <1>2, <1>5, OptionsToResume, OptionsAreOptions
<1>7. first \in Ordinals /\ text \in Numbers
  BY <1>2, <1>3, <1>5
<1> HIDE DEF first, text, resume
<1>8. restore \in Restores /\ restore.query = ctl.query
  BY <1>2, <1>7 DEF Restores
<1> HIDE DEF restore
<1>9. restore # None
  BY <1>8, NoneAssumption
<1>10. options \in Options
  BY <1>6, OptionsAreOptions
<1> QED
  BY <1>1, <1>4, <1>8, <1>9, <1>10

LEMMA OpenedInv == ASSUME Inv, NEW complete \in BOOLEAN, Opened(complete) PROVE Inv'
<1> DEFINE plan == PlanOpened
           sort == IF ctl.descending /\ complete THEN "newest" ELSE "none"
           sorting == [ctl EXCEPT !.sort = sort]
           ordered == IF sort = ctl.sort THEN ctl ELSE ResetPaging(sorting)
           released == ReleaseSubmission(ordered)
           cleared == [released EXCEPT !.restore = plan.restore, !.viewport = None,
                                       !.pending = None, !.rebuild = None]
           keeps == ui.follow /\ ui.page # None /\ ui.page.rows # << >>
           page == IF keeps THEN ui.page ELSE None
           seen == [ui EXCEPT !.gen = @ + 1, !.complete = complete, !.reason = "none",
                              !.page = IF keeps THEN @ ELSE None]
           asks == IF plan.replaces THEN Restoring("initial") ELSE Plain
           how == [asks EXCEPT !.restores = plan.replaces /\ ~ui.follow, !.always = TRUE]
           quiet == [rows |-> None, rebuild |-> FALSE, order |-> None]
<1>1. /\ ui \in Views /\ ctl \in Controllers /\ Settled(ctl, wire, ui)
  BY DEF Inv, Base
<1>2. ui.gen < Len(Files)
  BY DEF Opened
<1>3. Asks(cleared, quiet, seen, ctl.query, plan.options, how, Nobody)
  BY DEF Opened
<1>4. ghost' = [restored |-> plan.restore # None, touched |-> FALSE, mishap |-> FALSE,
                reset |-> FALSE, retries |-> 0, lost |-> FALSE]
  BY DEF Opened
<1>5. /\ plan.replaces \in BOOLEAN /\ plan.options \in Options /\ plan.restore \in Restores \cup {None}
      /\ plan.restore # None <=> plan.replaces /\ ~ui.follow
      /\ plan.restore # None => plan.restore.query = ctl.query
  BY <1>1, OpenedIsPlanned
<1> HIDE DEF plan
<1>6. (plan.restore # None) \in BOOLEAN
  OBVIOUS
<1>7. ghost' \in Ghosts /\ ~ghost'.lost /\ (ghost'.restored <=> plan.restore # None)
  BY <1>4, <1>6 DEF Ghosts
<1>8. /\ sorting \in Controllers /\ sorting.query = ctl.query /\ sorting.sort = sort
  BY <1>1 DEF Controllers, Sorts
<1>9. sort = "newest" => complete
  OBVIOUS
<1> HIDE DEF sort, sorting
<1>10. /\ ordered \in Controllers /\ ordered.query = ctl.query /\ ordered.sort = sort
       /\ Rises(ordered.history, ordered.offset)
  <2>1. /\ ResetPaging(sorting) \in Controllers /\ SameButPlace(sorting, ResetPaging(sorting))
        /\ ResetPaging(sorting).offset = 0 /\ ResetPaging(sorting).history = << >>
    BY <1>8, PlaceHelpers
  <2> QED
    BY <1>1, <1>8, <2>1, NothingBefore DEF Settled, SameButPlace
<1> HIDE DEF ordered
<1>11. released \in Controllers /\ SameButRequest(ordered, released)
  BY <1>10, ControllerHelpers
<1> HIDE DEF released
<1>12. /\ cleared \in Controllers /\ cleared.query = released.query /\ cleared.sort = released.sort
       /\ cleared.history = released.history /\ cleared.offset = released.offset
       /\ cleared.restore = plan.restore /\ cleared.viewport = None /\ cleared.rebuild = None
  BY <1>5, <1>11 DEF Controllers
<1> HIDE DEF cleared
<1>13. quiet \in Wires /\ quiet.order = None
  BY DEF Wires
<1> HIDE DEF quiet
<1>14. ui.page \in Pages \cup {None} /\ ui.gen + 1 \in 0..Len(Files) /\ ui.gen + 1 > 0
  <2>1. ui.gen \in 0..Len(Files)
    BY <1>1 DEF Views
  <2>2. Len(Files) \in Nat
    BY FilesAssumption, LenProperties
  <2>3. ui.page \in Pages \cup {None}
    BY <1>1 DEF Views
  <2> QED
    BY <1>2, <2>1, <2>2, <2>3
<1>15. page \in Pages \cup {None}
  BY <1>14
<1> HIDE DEF keeps
<1>16. seen = [ui EXCEPT !.gen = ui.gen + 1, !.complete = complete, !.reason = "none", !.page = page]
  BY <1>1 DEF Views
<1> HIDE DEF page, seen
<1>17. /\ seen \in Views /\ seen.gen = ui.gen + 1 /\ seen.complete = complete
       /\ seen.reason = "none" /\ seen.follow = ui.follow
  BY <1>1, <1>14, <1>15, <1>16 DEF Views, Reasons
<1>18. asks \in Hows /\ asks.phase = "initial" /\ (asks.supersedes <=> ~plan.replaces)
  BY <1>5, HowsAndAskers DEF Plain
<1> HIDE DEF asks
<1>19. (plan.replaces /\ ~ui.follow) \in BOOLEAN
  OBVIOUS
<1>20. /\ how \in Hows /\ how.phase = "initial" /\ (how.supersedes <=> ~plan.replaces)
       /\ (how.restores <=> plan.replaces /\ ~ui.follow)
  BY <1>18, <1>19 DEF Hows
<1> HIDE DEF how
<1>21. Settled(cleared, quiet, seen)
  BY <1>5, <1>9, <1>10, <1>11, <1>12, <1>13, <1>17 DEF Settled, SameButRequest, SamePlace
<1>22. MayAsk(cleared, seen, how, Nobody)
  BY <1>5, <1>12, <1>14, <1>17, <1>20, HowsAndAskers DEF MayAsk, Readable
<1>23. cleared.query = ctl.query
  BY <1>10, <1>11, <1>12 DEF SameButRequest, SamePlace
<1>24. ASSUME Calm(ghost')
       PROVE  /\ Undisturbed(cleared, seen, ghost')
              /\ cleared.restore # None /\ how.restores /\ ~how.supersedes /\ how.phase = "initial"
  <2>1. plan.restore # None /\ plan.replaces /\ ~ui.follow
    BY <1>5, <1>7, <1>24 DEF Calm
  <2> QED
    BY <1>7, <1>12, <1>17, <1>20, <2>1 DEF Undisturbed
<1> QED
  BY <1>3, <1>5, <1>7, <1>12, <1>13, <1>17, <1>20, <1>21, <1>22, <1>23, <1>24, OtherAsks

-----------------------------------------------------------------------------
(* Rows arrive *)

\* What is known of an answer to a request.
IsAnswer(file, r, a) ==
    /\ a \in Answers /\ a.rows \in Seq(FoundIn(file, r.query))
    /\ a.total \in {Total(file), Undefined}
    /\ IF r.sort = "newest" THEN a.offset = r.offset /\ IsNewest(a)
       ELSE IsPhysical(file, a, r.query, r.direction, r.anchor)
    /\ a.rows = << >> /\ a.cut = "no" /\ r.sort = "newest" =>
         /\ a.matched = Matches(file, r.query) /\ Matches(file, r.query) <= r.offset
         /\ r.offset = 0 => Nothing(file, r.query)
    /\ a.rows = << >> /\ a.cut = "no" /\ r.sort = "none" /\ Leaves(file, r.query, r.anchor, r.direction) =>
         Nothing(file, r.query)

LEMMA AnswersAreAnswers ==
    ASSUME NEW file, IsFile(file), Total(file) \in Nat, NEW r \in Requests,
           r.sort = "newest" => r.offset \in Nat,
           NEW late, NEW known \in BOOLEAN,
           NEW a, a = IF r.sort = "newest" THEN NewestPage(file, r.query, r.offset, late)
                      ELSE PhysicalPage(file, r.query, r.anchor, r.direction, late, known)
    PROVE  /\ IsAnswer(file, r, a)
           /\ a.total = Undefined => r.sort = "none" /\ ~known
<1>0. r.query \in Queries /\ r.anchor \in Ordinals /\ r.direction \in Directions /\ r.sort \in Sorts
  BY DEF Requests
<1>1. Total(file) # Undefined
  BY OrdinalsAreNumbers
<1>2. CASE r.sort = "newest"
  <2>1. /\ a \in Answers
        /\ a.offset = r.offset /\ IsNewest(a)
        /\ a.rows \in Seq(FoundIn(file, r.query))
        /\ a.total = Total(file)
        /\ a.rows = << >> /\ a.cut = "no" =>
             /\ a.matched = Matches(file, r.query) /\ Matches(file, r.query) <= r.offset
             /\ r.offset = 0 => Nothing(file, r.query)
    BY <1>0, <1>2, SortedPage
  <2> QED
    BY <1>1, <1>2, <2>1 DEF IsAnswer
<1>3. CASE r.sort = "none"
  <2>1. a = PhysicalPage(file, r.query, r.anchor, r.direction, late, known)
    BY <1>3
  <2>2. /\ a \in Answers
        /\ IsPhysical(file, a, r.query, r.direction, r.anchor)
        /\ a.rows \in Seq(FoundIn(file, r.query))
        /\ known => a.total = Total(file)
        /\ known = FALSE => a.total = Undefined
        /\ a.rows = << >> /\ a.cut = "no" /\ Leaves(file, r.query, r.anchor, r.direction)
             => Nothing(file, r.query)
    <3>1. CASE r.direction = "forward"
      <4>1. a = PhysicalPage(file, r.query, r.anchor, "forward", late, known)
        BY <2>1, <3>1
      <4> DEFINE query == r.query
                 anchor == r.anchor
      <4>2. a = PhysicalPage(file, query, anchor, "forward", late, known) /\ anchor \in Ordinals
        BY <1>0, <4>1
      <4> HIDE DEF query, anchor
      <4>3. /\ a \in Answers
            /\ IsPhysical(file, a, query, "forward", anchor)
            /\ a.rows \in Seq(FoundIn(file, query))
            /\ known => a.total = Total(file)
            /\ known = FALSE => a.total = Undefined
            /\ a.rows = << >> /\ a.cut = "no" /\ Leaves(file, query, anchor, "forward")
                 => Nothing(file, query)
        BY <4>2, ForwardPage
      <4> QED
        BY <3>1, <4>3 DEF query, anchor
    <3>2. CASE r.direction = "backward"
      <4>1. a = PhysicalPage(file, r.query, r.anchor, "backward", late, known)
        BY <2>1, <3>2
      <4> DEFINE query == r.query
                 anchor == r.anchor
      <4>2. a = PhysicalPage(file, query, anchor, "backward", late, known) /\ anchor \in Ordinals
        BY <1>0, <4>1
      <4> HIDE DEF query, anchor
      <4>3. /\ a \in Answers
            /\ IsPhysical(file, a, query, "backward", anchor)
            /\ a.rows \in Seq(FoundIn(file, query))
            /\ known => a.total = Total(file)
            /\ known = FALSE => a.total = Undefined
            /\ a.rows = << >> /\ a.cut = "no" /\ Leaves(file, query, anchor, "backward")
                 => Nothing(file, query)
        BY <4>2, BackwardPage
      <4> QED
        BY <3>2, <4>3 DEF query, anchor
    <3> QED
      BY <1>0, <3>1, <3>2 DEF Directions
  <2> QED
    BY <1>1, <1>3, <2>2 DEF IsAnswer
<1> QED
  BY <1>0, <1>2, <1>3 DEF Sorts

LEMMA SafeIsNotBlank ==
    ASSUME NEW file, NEW r \in Requests, r.sort = "newest" => r.offset \in Nat,
           NEW a, IsAnswer(file, r, a), IsSafe(file, r),
           a.rows = << >>, a.cut = "no"
    PROVE  Nothing(file, r.query)
<1>1. CASE r.sort = "newest"
  <2>1. a.matched \in Ordinals /\ a.matched = Matches(file, r.query) /\ a.matched <= r.offset
        /\ (r.offset = 0 => Nothing(file, r.query))
    BY <1>1 DEF IsAnswer, Answers
  <2>2. a.matched \in Int /\ r.offset \in Nat
    BY <1>1, <2>1, OrdinalsAreNumbers
  <2>3. r.offset = 0 \/ r.offset < a.matched
    BY <1>1, <2>1 DEF IsSafe
  <2> QED
    BY <2>1, <2>2, <2>3
<1>2. CASE r.sort # "newest"
  <2>1. r.sort = "none"
    BY <1>2 DEF Requests, Sorts
  <2> QED
    BY <1>2, <2>1 DEF IsAnswer, IsSafe
<1> QED
  BY <1>1, <1>2

\* The page that App shows.
IsShown(p, a, r, lost) ==
    /\ p.rows = a.rows /\ p.cut = a.cut /\ p.offset = a.offset
    /\ p.query = r.query /\ p.sort = r.sort
    /\ p.from = IF r.by = "next" /\ r.left.query = r.query /\ ~lost THEN r.left.offset ELSE Undefined

LEMMA ShownIsPage ==
    ASSUME ui \in Views, NEW r \in Requests, r.by = "next" => r.left # None,
           NEW a, IsAnswer(File, r, a), NEW shown, shown = Shown(a, r)
    PROVE  /\ shown \in Views /\ shown.gen = ui.gen /\ shown.complete = ui.complete
           /\ shown.reason = ui.reason /\ shown.follow = ui.follow
           /\ shown.page \in Pages /\ IsPage(File, shown.page) /\ IsShown(shown.page, a, r, ghost.lost)
<1> DEFINE from == IF r.by = "next" /\ r.left.query = r.query /\ ~ghost.lost
                   THEN r.left.offset ELSE Undefined
           asked == [query |-> r.query, sort |-> r.sort, direction |-> r.direction,
                     start |-> r.anchor, from |-> from]
           page == [f \in DOMAIN a \cup DOMAIN asked |-> IF f \in DOMAIN a THEN a[f] ELSE asked[f]]
<1>1. a \in Answers
  BY DEF IsAnswer
<1>2. from \in Ordinals
  <2>1. r.by = "next" => r.left \in Pages
    BY DEF Requests
  <2> QED
    BY <2>1 DEF Pages, Ordinals
<1>3. shown = [ui EXCEPT !.page = page]
  BY DEF Shown
<1> HIDE DEF from
<1>4. /\ DOMAIN a = {"rows", "anchor", "before", "after", "cut", "cursor", "total", "offset", "next", "matched"}
      /\ DOMAIN asked = {"query", "sort", "direction", "start", "from"}
  BY <1>1 DEF Answers
<1>5. page = [rows |-> a.rows, anchor |-> a.anchor, before |-> a.before, after |-> a.after,
              cut |-> a.cut, cursor |-> a.cursor, total |-> a.total, offset |-> a.offset,
              next |-> a.next, matched |-> a.matched, query |-> r.query, sort |-> r.sort,
              direction |-> r.direction, start |-> r.anchor, from |-> from]
  BY <1>4
<1> HIDE DEF page
<1>6. page \in Pages
  BY <1>1, <1>2, <1>5 DEF Answers, Pages, Requests
<1>7. /\ page.rows = a.rows /\ page.after = a.after /\ page.before = a.before
      /\ page.cut = a.cut /\ page.cursor = a.cursor /\ page.offset = a.offset
      /\ page.next = a.next /\ page.query = r.query /\ page.sort = r.sort
      /\ page.direction = r.direction /\ page.start = r.anchor /\ page.from = from
  BY <1>5
<1>8. shown \in Views /\ shown.page = page /\ shown.gen = ui.gen /\ shown.complete = ui.complete
      /\ shown.reason = ui.reason /\ shown.follow = ui.follow
  BY <1>3, <1>6 DEF Views
<1>9. IsShown(page, a, r, ghost.lost)
  BY <1>7 DEF IsShown, from
<1>10. IsPage(File, page)
  <2>1. r.sort \in Sorts
    BY DEF Requests
  <2>2. CASE r.sort = "newest"
    BY <1>7, <2>2 DEF IsPage, IsAnswer, IsNewest
  <2>3. CASE r.sort = "none"
    <3>1. IsPhysical(File, a, r.query, r.direction, r.anchor)
      BY <2>3 DEF IsAnswer
    <3>2. IsPhysical(File, page, r.query, r.direction, r.anchor)
      BY <1>7, <3>1 DEF IsPhysical, IsForward, IsBackward
    <3> QED
      BY <1>7, <2>3, <3>2 DEF IsPage
  <2> QED
    BY <2>1, <2>2, <2>3 DEF Sorts
<1> QED
  BY <1>6, <1>8, <1>9, <1>10

\* The fields when an answer has been taken in.
Moves(c, query, a) == a.offset # Undefined /\ query = c.query /\ a.offset # c.offset
AskedFor(c) == IF c.pending # None THEN c.pending.query ELSE c.query
IsReceived(c, a, d) ==
    /\ d.query = c.query /\ d.sort = c.sort /\ d.descending = c.descending
    /\ d.restore = c.restore /\ d.rebuild = c.rebuild /\ d.pending = None /\ ~d.box.sent
    /\ IF Moves(c, AskedFor(c), a) THEN d.offset = a.offset /\ d.history = << >>
       ELSE d.offset = c.offset /\ d.history = c.history
    /\ d.viewport.query = AskedFor(c)
    /\ d.viewport.first =
         OneOf(Edge(a.rows, "first"),
               IF c.viewport # None /\ c.viewport.query = AskedFor(c) THEN c.viewport.first ELSE Undefined)

LEMMA ReceivedIsController ==
    ASSUME ctl \in Controllers, ctl.box.sent => ctl.pending # None,
           NEW a \in Answers, NEW d, d = Received(a)
    PROVE  d \in Controllers /\ IsReceived(ctl, a, d)
<1> DEFINE pending == ctl.pending
           query == IF pending # None THEN pending.query ELSE ctl.query
           moved == a.offset # Undefined /\ query = ctl.query /\ a.offset # ctl.offset
           position == [offset |-> a.offset, history |-> << >>, page |-> a.offset \div PageSize + 1]
           placed == IF moved THEN SetSortPosition(ctl, position) ELSE ctl
           kept == IF ctl.viewport # None /\ ctl.viewport.query = query THEN ctl.viewport.first ELSE Undefined
           viewport == [query |-> query, first |-> OneOf(Edge(a.rows, "first"), kept)]
           released == IF pending # None THEN ReleaseSubmission(placed) ELSE placed
           seen == [released EXCEPT !.viewport = viewport, !.pending = None]
           text == IF ctl.sort = "none" THEN PageFromOrdinal(Edge(a.rows, "first")) ELSE seen.page
<1>1. d = IF a.rows # << >> /\ query = ctl.query /\ ~seen.box.dirty
          THEN SetPageInput(seen, text) ELSE seen
  BY DEF Received
<1>2. query \in Queries /\ query = AskedFor(ctl) /\ ctl.query \in Queries
  BY DEF Controllers, Inputs, AskedFor
<1>3. kept \in Ordinals
  BY DEF Controllers, Viewports, Ordinals
<1>4. Edge(a.rows, "first") \in Ordinals /\ a.offset \in Ordinals
  <2>1. a.rows \in Seq(Nat) /\ a.offset \in Ordinals
    BY DEF Answers
  <2> QED
    BY <2>1, EdgesOfRows DEF Ordinals
<1>5. kept = IF ctl.viewport # None /\ ctl.viewport.query = AskedFor(ctl) THEN ctl.viewport.first ELSE Undefined
  BY <1>2
<1>6. moved <=> Moves(ctl, AskedFor(ctl), a)
  BY <1>2 DEF Moves
<1> HIDE DEF query, kept
<1>7. /\ placed \in Controllers /\ SameButPlace(ctl, placed) /\ placed.box = ctl.box
      /\ IF moved THEN placed.offset = a.offset /\ placed.history = << >>
         ELSE placed.offset = ctl.offset /\ placed.history = ctl.history
  <2>1. CASE moved
    <3>1. position.offset = a.offset /\ position.history = << >> /\ position.page = a.offset \div PageSize + 1
      OBVIOUS
    <3>2. a.offset \in Nat
      BY <1>4, <2>1, OrdinalsAreNumbers
    <3>3. a.offset \div PageSize \in Nat
      BY <3>2, PagesOfOffsets
    <3>4. a.offset \div PageSize + 1 \in Numbers
      BY <3>3 DEF Numbers
    <3>5. << >> \in Seq(Nat)
      BY EmptySeq
    <3>6. placed = SetSortPosition(ctl, position)
      BY <2>1
    <3> HIDE DEF position, placed
    <3> QED
      BY <2>1, <3>1, <3>2, <3>4, <3>5, <3>6, PositionIsSet
  <2>2. CASE ~moved
    BY <2>2 DEF SameButPlace
  <2> QED
    BY <2>1, <2>2
<1> HIDE DEF placed, moved
<1>8. viewport \in Viewports
  BY <1>2, <1>3, <1>4, OrdinalsAreNumbers DEF Viewports
<1>9. viewport.query = query /\ viewport.first = OneOf(Edge(a.rows, "first"), kept)
  OBVIOUS
<1> HIDE DEF viewport
<1>10. /\ released \in Controllers /\ SamePlace(placed, released) /\ released.restore = placed.restore
       /\ released.rebuild = placed.rebuild /\ ~released.box.sent
  BY <1>7, ControllerHelpers DEF SameButRequest, SamePlace
<1> HIDE DEF released
<1>11. /\ seen \in Controllers /\ SamePlace(released, seen) /\ seen.restore = released.restore
       /\ seen.rebuild = released.rebuild /\ seen.pending = None /\ seen.viewport = viewport
       /\ seen.box = released.box /\ seen.page \in Numbers
  BY <1>8, <1>10 DEF Controllers, SamePlace
<1> HIDE DEF seen
<1>12. text \in Numbers
  BY <1>4, <1>11, PagesOfOffsets
<1> HIDE DEF text
<1>13. /\ d \in Controllers /\ SamePlace(seen, d) /\ d.restore = seen.restore
       /\ d.rebuild = seen.rebuild /\ d.pending = None /\ d.viewport = viewport /\ ~d.box.sent
  BY <1>1, <1>10, <1>11, <1>12, PlaceHelpers DEF SameButPlace, SamePlace
<1>14. /\ d.query = ctl.query /\ d.sort = ctl.sort /\ d.descending = ctl.descending
       /\ d.restore = ctl.restore /\ d.rebuild = ctl.rebuild
       /\ d.offset = placed.offset /\ d.history = placed.history
  BY <1>7, <1>10, <1>11, <1>13 DEF SamePlace, SameButPlace
<1> QED
  BY <1>2, <1>5, <1>6, <1>7, <1>9, <1>13, <1>14 DEF IsReceived

\* What holds when an answer has been taken in, before it is seen to be empty.
TakenIn(r, a, c, v, u, g) ==
    /\ c \in Controllers /\ v \in Wires /\ u \in Views /\ g \in Ghosts
    /\ u.gen = ui.gen /\ ui.gen \in 1..Len(Files) /\ Readable(u.reason)
    /\ v.rows = None /\ c.pending = None /\ ~c.box.sent
    /\ Settled(c, v, u)
    /\ u.page \in Pages /\ u.page.rows = a.rows /\ u.page.cut = a.cut /\ u.page.query = r.query
    /\ \A d : SamePlace(c, d) => Placed(d, v, u, g)
    /\ Calm(g) =>
         /\ Undisturbed(c, u, g) /\ c.viewport.query = c.query /\ r.query = c.query
         /\ IsSeen(File, c.viewport, c.query)
         /\ IsSafe(File, r) \/ (c.restore # None /\ c.restore.phase = "initial")

LEMMA TakingIn ==
    ASSUME Inv, NEW r \in Requests, r = wire.rows,
           NEW a, IsAnswer(File, r, a),
           NEW c, c = Received(a), NEW u, u = Shown(a, r),
           NEW v, v = [wire EXCEPT !.rows = None],
           ghost' = [Retries EXCEPT !.lost = @ /\ r.query # ctl.query]
    PROVE  TakenIn(r, a, c, v, u, ghost') /\ IsReceived(ctl, a, c)
<1>1. /\ ui \in Views /\ ctl \in Controllers /\ wire \in Wires /\ ghost \in Ghosts
      /\ Settled(ctl, wire, ui) /\ InFlight(ctl, wire, ui, ghost)
  BY DEF Inv, Base
<1>2. wire.rows # None /\ RowsAsked(ctl, r, ui, ghost)
  BY <1>1, NoneAssumption DEF InFlight
<1>3. /\ ui.gen \in 1..Len(Files) /\ Readable(ui.reason) /\ (~ghost.lost => r.query = ctl.query)
  BY <1>1, <1>2 DEF RowsAsked, Views
<1>4. a \in Answers /\ a.rows \in Seq(FoundIn(File, r.query))
  BY DEF IsAnswer
<1>5. c \in Controllers /\ IsReceived(ctl, a, c)
  BY <1>1, <1>4, ReceivedIsController DEF InFlight
<1>6. r.by = "next" => r.left # None
  BY <1>2 DEF RowsAsked
<1>7. /\ u \in Views /\ u.gen = ui.gen /\ u.complete = ui.complete
      /\ u.reason = ui.reason /\ u.follow = ui.follow
      /\ u.page \in Pages /\ IsPage(File, u.page) /\ IsShown(u.page, a, r, ghost.lost)
  BY <1>1, <1>6, ShownIsPage
<1>8. v \in Wires /\ v.rows = None /\ v.rebuild = wire.rebuild /\ v.order = wire.order
  BY <1>1 DEF Wires
<1>9. /\ ghost' \in Ghosts /\ (ghost'.lost <=> ghost.lost /\ r.query # ctl.query)
      /\ Calm(ghost') <=> Calm(ghost)
  <2> DEFINE counted == Retries
             lost == counted.lost /\ r.query # ctl.query
  <2>1. /\ counted \in Ghosts /\ counted.lost = ghost.lost
        /\ Calm(counted) <=> Calm(ghost)
    BY <1>1, RetriesGhost
  <2>2. ghost' = [counted EXCEPT !.lost = lost]
    OBVIOUS
  <2>3. lost \in BOOLEAN
    BY <2>1 DEF Ghosts
  <2>4. lost <=> ghost.lost /\ r.query # ctl.query
    BY <2>1
  <2> HIDE DEF counted, lost
  <2> QED
    BY <2>1, <2>2, <2>3, <2>4 DEF Ghosts, Calm
<1>10. Settled(c, v, u)
  BY <1>1, <1>5, <1>7, <1>8, NothingBefore DEF Settled, IsReceived
<1>11. ~ghost'.lost => r.query = ctl.query /\ AskedFor(ctl) = ctl.query
  <2>1. ctl.pending # None => ctl.pending.query = r.query
    BY <1>1 DEF InFlight, AsPending
  <2> QED
    BY <1>3, <1>9, <2>1 DEF AskedFor
<1>12. ASSUME ~ghost'.lost
       PROVE  IsAt(c, u.page)
  <2> SUFFICES ASSUME c.sort = "newest", u.page.sort = "newest", u.page.query = c.query
               PROVE  /\ c.offset = u.page.offset
                      /\ u.page.from # Undefined => ComesFrom(c, u.page.from)
    BY DEF IsAt
  <2>1. r.sort = "newest" /\ ctl.sort = "newest" /\ r.query = ctl.query
    BY <1>5, <1>7 DEF IsShown, IsReceived
  <2>2. a.offset = r.offset /\ r.offset \in Nat /\ r.offset # Undefined /\ u.page.offset = a.offset
    BY <1>2, <1>7, <2>1, OrdinalsAreNumbers DEF IsAnswer, RowsAsked, IsShown
  <2>3. AskedFor(ctl) = ctl.query
    BY <1>11, <1>12
  <2>4. c.offset = u.page.offset
    BY <1>5, <2>2, <2>3 DEF IsReceived, Moves
  <2>5. ASSUME u.page.from # Undefined
        PROVE  ComesFrom(c, u.page.from)
    <3>1. /\ r.by = "next" /\ r.left.query = r.query /\ ~ghost.lost
          /\ u.page.from = r.left.offset /\ r.left.offset # Undefined
      BY <1>7, <2>5 DEF IsShown
    <3>2. IsOnTheWay(ctl, r)
      BY <1>2, <3>1 DEF Inv, Placed
    <3>3. ctl.offset = r.offset /\ ComesFrom(ctl, r.left.offset)
      BY <2>1, <3>1, <3>2 DEF IsOnTheWay
    <3>4. c.offset = ctl.offset /\ c.history = ctl.history
      BY <1>5, <2>2, <3>3 DEF IsReceived, Moves
    <3> QED
      BY <3>1, <3>3, <3>4 DEF ComesFrom
  <2> QED
    BY <2>4, <2>5
<1>13. ASSUME NEW d, SamePlace(c, d)
       PROVE  Placed(d, v, u, ghost')
  <2>1. ~ghost'.lost => IsAt(d, u.page)
    BY <1>12, <1>13 DEF IsAt, SamePlace, ComesFrom
  <2> QED
    BY <1>7, <1>8, <2>1 DEF Placed, File
<1>14. ASSUME Calm(ghost')
       PROVE  /\ Undisturbed(c, u, ghost') /\ c.viewport.query = c.query /\ r.query = c.query
              /\ IsSeen(File, c.viewport, c.query)
              /\ IsSafe(File, r) \/ (c.restore # None /\ c.restore.phase = "initial")
  <2>1. Restored(ctl, wire, ui, ghost) /\ Calm(ghost)
    BY <1>9, <1>14 DEF Inv
  <2>2. /\ ~ghost.lost /\ ui.reason = "none" /\ ~ui.follow
        /\ ctl.viewport # None => IsSeen(File, ctl.viewport, ctl.query)
        /\ IsSafe(File, r) \/ (ctl.restore # None /\ ctl.restore.phase = "initial")
    BY <1>2, <2>1 DEF Restored, File
  <2>3. ~ghost'.lost /\ r.query = ctl.query /\ AskedFor(ctl) = ctl.query
    BY <1>9, <1>11, <2>2
  <2>4. /\ a.rows = << >> => Edge(a.rows, "first") = Undefined
        /\ a.rows # << >> => Edge(a.rows, "first") \in FoundIn(File, r.query)
    BY <1>4, EdgesOfRows
  <2>5. IsSeen(File, c.viewport, c.query)
    BY <1>5, <2>2, <2>3, <2>4 DEF IsReceived, IsSeen, OneOf
  <2> QED
    BY <1>5, <1>7, <2>2, <2>3, <2>5 DEF IsReceived, Undisturbed, IsSeen, File
<1>15. Readable(u.reason)
  BY <1>3, <1>7
<1> QED
  BY <1>3, <1>5, <1>7, <1>8, <1>9, <1>10, <1>13, <1>14, <1>15 DEF TakenIn, IsShown, IsReceived

\* An answer has been taken in and nothing is asked for again.
LEMMA TakenInv ==
    ASSUME NEW r, NEW a, NEW c, NEW v, NEW u, TakenIn(r, a, c, v, u, ghost'),
           NEW d \in Controllers, SamePlace(c, d), d.rebuild = c.rebuild, d.viewport = c.viewport,
           d.pending = None, ~d.box.sent, Leads(d, v, u),
           d.restore # None =>
             /\ ~u.complete /\ d.restore.query = d.query /\ d.restore.phase = "waiting-index"
             /\ Calm(ghost') => d.restore.requested # None /\ d.restore.requested.offset = Undefined,
           Calm(ghost') /\ a.rows = << >> /\ a.cut = "no" =>
             \/ Nothing(File, r.query)
             \/ /\ d.restore # None
                /\ ~Leaves(File, r.query, d.restore.requested.anchor, d.restore.requested.direction)
    PROVE  Inv'
<1>1. ctl' = d /\ wire' = v /\ ui' = u
  BY DEF Leads
<1>2. Settled(d, v, u) /\ InFlight(d, v, u, ghost')
  BY DEF TakenIn, Settled, InFlight, SamePlace
<1>3. Placed(d, v, u, ghost')
  BY DEF TakenIn
<1>4. Restored(d, v, u, ghost')
  <2> SUFFICES ASSUME Calm(ghost') PROVE Restored(d, v, u, ghost')
    BY DEF Restored
  <2>1. /\ Undisturbed(c, u, ghost') /\ r.query = c.query /\ u.gen > 0 /\ Files[u.gen] = File
        /\ v.rows = None
    BY DEF TakenIn, File
  <2>2. IsBlank(u.page) => a.rows = << >> /\ a.cut = "no" /\ u.page.query = r.query
    BY DEF TakenIn, IsBlank
  <2> QED
    BY <2>1, <2>2 DEF Restored, Undisturbed, SamePlace
<1>5. PagesFollowOneAnother'
  BY <1>1 DEF TakenIn, PagesFollowOneAnother
<1> QED
  BY <1>1, <1>2, <1>3, <1>4, <1>5 DEF Inv, Base, TakenIn

LEMMA MatchesAreCounted ==
    ASSUME NEW file, IsFile(file), Total(file) \in Nat, NEW query
    PROVE  Matches(file, query) \in Nat
<1>1. PICK first \in Int : Downwards(Backward(file, Undefined), file, first)
  BY BackwardGoesDown DEF Ordinals
<1> DEFINE path == Backward(file, Undefined)
           found == Found(file, query, path)
<1>2. path \in Seq(DOMAIN file)
  BY <1>1 DEF Downwards
<1> HIDE DEF path
<1>3. found \in Seq(DOMAIN file)
  BY <1>2, SelectedPicks DEF Found, Picked
<1>4. Matches(file, query) = Len(found)
  BY DEF Matches, path
<1> HIDE DEF found
<1> QED
  BY <1>3, <1>4, LenProperties

\* A restore that stops with an empty page shows that there is nothing to be found.
LEMMA StoppedIsNothing ==
    ASSUME NEW r \in Requests, NEW a, NEW c, NEW v, NEW u, TakenIn(r, a, c, v, u, ghost'),
           r.sort = "newest" => r.offset \in Nat,
           IsAnswer(File, r, a), a.total = Undefined => ~u.complete,
           c.restore # None, NEW asked \in Options, asked.offset = r.offset,
           r.sort = "none" => /\ r.offset = Undefined /\ r.anchor = asked.anchor
                              /\ r.direction = "backward" <=> asked.direction = "backward",
           NEW f, f = Fallback(c, a.total, asked, a.matched, a.cut # "no"),
           WhyStop(c, u, a.total, asked, f),
           Calm(ghost'), a.rows = << >>, a.cut = "no"
    PROVE  Nothing(File, r.query)
<1>1. /\ u.reason = "none" /\ ~u.follow /\ c.query = r.query /\ c \in Controllers
      /\ IsSafe(File, r) \/ (c.restore # None /\ c.restore.phase = "initial")
      /\ ui.gen \in 1..Len(Files)
  BY DEF TakenIn, Undisturbed
<1>2. asked # None /\ Requested(c, asked) = asked
  BY NoneAssumption DEF Requested
<1>3. a.matched \in Ordinals /\ a.total \in {Total(File), Undefined}
  BY DEF IsAnswer, Answers
<1>4. /\ f \in Options \cup {None}
      /\ f = None => IF asked.offset # Undefined THEN a.matched = Undefined ELSE a.total = Undefined
      /\ f # None =>
           /\ asked.offset = Undefined => f.offset = Undefined
           /\ a.total # 0 => Leaves(File, c.query, f.anchor, f.direction)
           /\ asked.offset # Undefined =>
                /\ a.matched \in Nat /\ f.offset \in Nat
                /\ f.offset = 0 \/ f.offset < a.matched
  <2> DEFINE cut == a.cut # "no"
             total == a.total
             matched == a.matched
             offset == IF Requested(c, asked) = None THEN Undefined ELSE Requested(c, asked).offset
  <2>1. cut \in BOOLEAN /\ ~cut /\ f = Fallback(c, total, asked, matched, cut)
    OBVIOUS
  <2>2. total \in {Total(File), Undefined} /\ matched \in Ordinals
    BY <1>3
  <2>3. offset = asked.offset
    BY <1>2
  <2>4. offset = IF Requested(c, asked) = None THEN Undefined ELSE Requested(c, asked).offset
    OBVIOUS
  <2>5. asked \in Options \cup {None} /\ c.restore # None
    OBVIOUS
  <2> HIDE DEF cut, offset, total, matched
  <2>6. /\ f \in Options \cup {None}
        /\ f = None => IF offset # Undefined THEN cut \/ matched = Undefined ELSE total = Undefined
        /\ f # None =>
             /\ f.sort = "unset"
             /\ offset = Undefined => f.offset = Undefined
             /\ total # 0 => Leaves(File, c.query, f.anchor, f.direction)
             /\ offset # Undefined =>
                  /\ ~cut /\ matched \in Nat /\ f.offset \in Nat
                  /\ f.offset = 0 \/ f.offset < matched
    BY <1>1, <2>1, <2>2, <2>4, <2>5, FallbackOf
  <2> QED
    BY <2>1, <2>3, <2>6 DEF total, matched
<1>5. IsFile(File) /\ Total(File) \in Nat
  BY <1>1, FilesAreFiles DEF File
<1>6. CASE IsSafe(File, r)
  BY <1>6, SafeIsNotBlank
<1>7. CASE a.total = 0
  <2>1. Total(File) = 0
    BY <1>3, <1>7, OrdinalsAreNumbers
  <2> QED
    BY <1>5, <2>1 DEF IsFile, Nothing
<1>8. CASE f = None /\ ~(~u.complete /\ a.total = Undefined)
  <2>1. a.total # Undefined
    BY <1>8
  <2>2. asked.offset # Undefined /\ a.matched = Undefined
    BY <1>4, <1>8, <2>1
  <2>3. r.sort = "newest"
    BY <2>2 DEF Requests, Sorts
  <2>4. a.matched <= r.offset /\ (r.offset = 0 => Nothing(File, r.query)) /\ a.matched = Matches(File, r.query)
    BY <2>3 DEF IsAnswer
  <2> QED
    BY <1>5, <2>2, <2>4, MatchesAreCounted, OrdinalsAreNumbers
<1>9. CASE /\ f # None /\ a.total # 0 /\ asked.anchor = f.anchor /\ asked.direction = f.direction
           /\ asked.offset = f.offset
  <2>1. CASE r.sort = "newest"
    <3>1. a.matched <= r.offset /\ (r.offset = 0 => Nothing(File, r.query))
      BY <2>1 DEF IsAnswer
    <3>2. r.offset \in Nat /\ asked.offset # Undefined
      BY <2>1, OrdinalsAreNumbers
    <3>3. a.matched \in Nat /\ f.offset = r.offset /\ (f.offset = 0 \/ f.offset < a.matched)
      BY <1>4, <1>9, <3>2
    <3> QED
      BY <3>1, <3>2, <3>3
  <2>2. CASE r.sort = "none"
    <3>1. Leaves(File, r.query, f.anchor, f.direction)
      BY <1>1, <1>4, <1>9
    <3>2. Leaves(File, r.query, r.anchor, r.direction)
      BY <1>9, <2>2, <3>1 DEF Leaves
    <3> QED
      BY <2>2, <3>2 DEF IsAnswer
  <2> QED
    BY <2>1, <2>2 DEF Requests, Sorts
<1>10. c.restore.phase = "retrying" => IsSafe(File, r)
  BY <1>1
<1> QED
  BY <1>1, <1>2, <1>6, <1>7, <1>8, <1>9, <1>10 DEF WhyStop

LEMMA RowsArriveInv ==
    ASSUME Inv, NEW late, NEW known \in BOOLEAN, RowsArrive(late, known)
    PROVE  Inv'
<1> DEFINE r == wire.rows
           a == IF r.sort = "newest" THEN NewestPage(File, r.query, r.offset, late)
                ELSE PhysicalPage(File, r.query, r.anchor, r.direction, late, known)
           c == Received(a)
           u == Shown(a, r)
           v == [wire EXCEPT !.rows = None]
           restoring == ctl.pending # None /\ ctl.pending.restores /\ ctl.restore # None
           asked == ctl.pending.options
           f == Fallback(c, a.total, asked, a.matched, a.cut # "no")
           finished == FinishEmptyRestore(c, v, u, a.total, asked, a.matched, a.cut # "no")
<1>1. /\ ui \in Views /\ ctl \in Controllers /\ wire \in Wires /\ ghost \in Ghosts
      /\ Settled(ctl, wire, ui) /\ InFlight(ctl, wire, ui, ghost)
  BY DEF Inv, Base
<1>2. /\ r # None
      /\ ghost' = [Retries EXCEPT !.lost = @ /\ r.query # ctl.query]
  BY DEF RowsArrive
<1>3. ui.complete => known
  BY DEF RowsArrive
<1>4. IF ~restoring THEN Leads(c, v, u)
      ELSE IF a.rows # << >> THEN Leads(AbandonRestore(c), v, u)
      ELSE Leads(finished.ctl, finished.wire, u)
  BY DEF RowsArrive, ReceiveRows
<1>5. r \in Requests /\ RowsAsked(ctl, r, ui, ghost)
  BY <1>1, <1>2 DEF Wires, InFlight
<1>6. IsFile(File) /\ Total(File) \in Nat /\ ui.gen \in 1..Len(Files)
  <2>1. ui.gen \in 1..Len(Files)
    BY <1>1, <1>5 DEF RowsAsked, Views
  <2> QED
    BY <2>1, FilesAreFiles DEF File
<1>7. r.sort = "newest" => r.offset \in Nat
  BY <1>5 DEF RowsAsked
<1> HIDE DEF r
<1>8. IsAnswer(File, r, a) /\ (a.total = Undefined => r.sort = "none" /\ ~known)
  BY <1>5, <1>6, <1>7, AnswersAreAnswers
<1> HIDE DEF a
<1>9. TakenIn(r, a, c, v, u, ghost') /\ IsReceived(ctl, a, c)
  BY <1>2, <1>5, <1>8, TakingIn DEF r
<1>10. u.complete = ui.complete /\ u.gen = ui.gen /\ u.reason = ui.reason
  BY DEF Shown
<1> HIDE DEF c, u, v
<1>11. /\ c \in Controllers /\ v \in Wires /\ u \in Views /\ ghost' \in Ghosts
       /\ c.pending = None /\ ~c.box.sent /\ c.restore = ctl.restore
       /\ Settled(c, v, u) /\ u.gen = ui.gen /\ u.gen > 0 /\ Readable(u.reason)
       /\ Calm(ghost') => r.query = c.query
  BY <1>6, <1>9 DEF TakenIn, IsReceived
<1>12. ctl.restore # None => restoring
  BY <1>1, <1>2 DEF InFlight, r
<1>13. CASE ~restoring
  <2>1. c.restore = None
    BY <1>11, <1>12, <1>13
  <2>2. Calm(ghost') /\ a.rows = << >> /\ a.cut = "no" => Nothing(File, r.query)
    BY <1>5, <1>7, <1>8, <1>9, <2>1, SafeIsNotBlank DEF TakenIn
  <2>3. SamePlace(c, c) /\ c.rebuild = c.rebuild /\ c.viewport = c.viewport /\ Leads(c, v, u)
    BY <1>4, <1>13 DEF SamePlace
  <2> QED
    BY <1>9, <1>11, <2>1, <2>2, <2>3, TakenInv
<1>14. CASE restoring /\ a.rows # << >>
  <2> DEFINE d == AbandonRestore(c)
  <2>1. /\ d \in Controllers /\ SamePlace(c, d) /\ d.rebuild = c.rebuild /\ d.viewport = c.viewport
        /\ d.pending = None /\ ~d.box.sent /\ d.restore = None
    BY <1>11, ControllerHelpers DEF SameButRequest
  <2>2. Leads(d, v, u)
    BY <1>4, <1>14
  <2> HIDE DEF d
  <2> QED
    BY <1>9, <1>14, <2>1, <2>2, TakenInv
<1>15. CASE restoring /\ a.rows = << >>
  <2>1. /\ asked \in Options /\ asked.offset = r.offset /\ c.restore # None
        /\ r.sort = "none" => /\ r.anchor = asked.anchor
                              /\ r.direction = "backward" <=> asked.direction = "backward"
    BY <1>1, <1>11, <1>15 DEF InFlight, AsPending, r, Controllers, Inputs
  <2>2. r.sort = "none" => r.offset = Undefined /\ ctl.sort = "none"
    BY <1>5 DEF RowsAsked
  <2>3. r.sort = "newest" => u.complete
    BY <1>5, <1>10 DEF RowsAsked
  <2>4. a.total = Undefined => ~u.complete
    BY <1>3, <1>8, <1>10
  <2>5. c.restore.query = c.query /\ c.restore \in Restores /\ c.sort = ctl.sort
    BY <1>9, <1>11, <2>1 DEF Settled, Controllers, IsReceived
  <2>6. asked # None /\ Requested(c, asked) = asked
    BY <2>1, NoneAssumption DEF Requested
  <2>7. f = Fallback(c, a.total, asked, a.matched, a.cut # "no")
    OBVIOUS
  <2>8. finished = FinishEmptyRestore(c, v, u, a.total, asked, a.matched, a.cut # "no")
    OBVIOUS
  <2>9. Leads(finished.ctl, finished.wire, u)
    BY <1>4, <1>15
  <2> HIDE DEF f, finished, asked
  <2>10. \/ Stops(c, v, finished.ctl, finished.wire) /\ WhyStop(c, u, a.total, asked, f)
         \/ Waits(c, v, u, Requested(c, asked), finished.ctl, finished.wire) /\ u.reason = "none"
         \/ Tries(c, v, u, f, finished) /\ a.total # 0
    BY <1>11, <2>1, <2>5, <2>7, <2>8, EmptyRestore
  <2>11. CASE Stops(c, v, finished.ctl, finished.wire) /\ WhyStop(c, u, a.total, asked, f)
    <3> DEFINE d == AbandonRestore(c)
    <3>1. /\ d \in Controllers /\ SamePlace(c, d) /\ d.rebuild = c.rebuild /\ d.viewport = c.viewport
          /\ d.pending = None /\ ~d.box.sent /\ d.restore = None
      BY <1>11, ControllerHelpers DEF SameButRequest
    <3>2. Leads(d, v, u)
      BY <2>9, <2>11 DEF Stops
    <3>3. Calm(ghost') /\ a.rows = << >> /\ a.cut = "no" => Nothing(File, r.query)
      BY <1>5, <1>7, <1>8, <1>9, <2>1, <2>2, <2>4, <2>7, <2>11, StoppedIsNothing
    <3> HIDE DEF d
    <3> QED
      BY <1>9, <3>1, <3>2, <3>3, TakenInv
  <2>12. CASE Waits(c, v, u, Requested(c, asked), finished.ctl, finished.wire)
    <3> DEFINE waiting == [c.restore EXCEPT !.phase = "waiting-index"]
               waits == [waiting EXCEPT !.requested = asked]
               d == [c EXCEPT !.restore = waits]
    <3>1. Leads(d, v, u) /\ ~u.complete
      BY <2>6, <2>9, <2>12 DEF Waits
    <3>2. waiting \in Restores /\ waiting.phase = "waiting-index" /\ waiting.query = c.restore.query
      BY <2>5 DEF Restores
    <3> HIDE DEF waiting
    <3>3. /\ waits \in Restores /\ waits.phase = "waiting-index" /\ waits.query = c.query
          /\ waits.requested = asked
      BY <2>1, <2>5, <3>2 DEF Restores
    <3> HIDE DEF waits
    <3>4. /\ d \in Controllers /\ SamePlace(c, d) /\ d.rebuild = c.rebuild /\ d.viewport = c.viewport
          /\ d.pending = None /\ ~d.box.sent /\ d.restore = waits
      BY <1>11, <3>3 DEF Controllers, SamePlace
    <3> HIDE DEF d
    <3>5. r.sort = "none" /\ asked.offset = Undefined
      BY <1>5, <2>1, <2>2, <2>3, <3>1 DEF Requests, Sorts
    <3>6. a.cut = "no" /\ Leaves(File, r.query, asked.anchor, asked.direction) => Nothing(File, r.query)
      <4>1. Leaves(File, r.query, asked.anchor, asked.direction) => Leaves(File, r.query, r.anchor, r.direction)
        BY <2>1, <3>5 DEF Leaves
      <4> QED
        BY <1>8, <1>15, <3>5, <4>1 DEF IsAnswer
    <3>7. d.restore # None
      BY <3>3, <3>4, NoneAssumption
    <3>8. d.restore # None =>
            /\ ~u.complete /\ d.restore.query = d.query /\ d.restore.phase = "waiting-index"
            /\ Calm(ghost') => d.restore.requested # None /\ d.restore.requested.offset = Undefined
      BY <2>6, <3>1, <3>3, <3>4, <3>5 DEF SamePlace
    <3>9. Calm(ghost') /\ a.rows = << >> /\ a.cut = "no" =>
            \/ Nothing(File, r.query)
            \/ /\ d.restore # None
               /\ ~Leaves(File, r.query, d.restore.requested.anchor, d.restore.requested.direction)
      BY <3>3, <3>4, <3>6, <3>7
    <3> QED
      BY <1>9, <3>1, <3>4, <3>8, <3>9, TakenInv
  <2>13. CASE Tries(c, v, u, f, finished) /\ a.total # 0
    <3> DEFINE how == Restoring("retrying")
               asker == Asker("retry", None)
               total == a.total
               matched == a.matched
               cut == a.cut # "no"
               offset == IF Requested(c, asked) = None THEN Undefined ELSE Requested(c, asked).offset
    <3>1. how \in Hows /\ how.restores /\ asker \in Askers /\ asker.by = "retry"
      BY HowsAndAskers
    <3>2. Asks(c, v, u, c.query, f, how, asker) /\ f # None
      BY <2>9, <2>13 DEF Asks, Tries
    <3>3. asker \in {Nobody, Asker("retry", None)}
      OBVIOUS
    <3> HIDE DEF how
    <3>4. MayAsk(c, u, how, asker)
      BY <1>11, <3>1 DEF MayAsk
    <3>5. cut \in BOOLEAN /\ f = Fallback(c, total, asked, matched, cut)
      BY <2>7
    <3>6. total \in {Total(File), Undefined} /\ matched \in Ordinals
      BY <1>8 DEF IsAnswer, Answers
    <3>7. offset = r.offset
      BY <2>1, <2>6
    <3> HIDE DEF asker, cut, matched, offset
    <3>8. /\ f \in Options
          /\ f.sort = "unset"
          /\ offset = Undefined => f.offset = Undefined
          /\ total # 0 => Leaves(File, c.query, f.anchor, f.direction)
          /\ offset # Undefined =>
               /\ ~cut /\ matched \in Nat /\ f.offset \in Nat
               /\ f.offset = 0 \/ f.offset < matched
      <4>1. asked \in Options \cup {None} /\ c.restore # None
        BY <2>1
      <4>2. offset = IF Requested(c, asked) = None THEN Undefined ELSE Requested(c, asked).offset
        BY DEF offset
      <4> HIDE DEF total
      <4> QED
        BY <1>6, <1>11, <3>2, <3>5, <3>6, <4>1, <4>2, FallbackOf
    <3>9. ASSUME Calm(ghost')
          PROVE  Undisturbed(c, u, ghost') /\ SafeToAsk(Files[u.gen], c, u, f)
      <4>1. Undisturbed(c, u, ghost') /\ r.query = c.query
        BY <1>9, <3>9 DEF TakenIn
      <4>2. Leaves(File, c.query, f.anchor, f.direction)
        BY <2>13, <3>8
      <4>3. CASE r.sort = "none"
        <5>1. SortAsked(c, u, f) = "none"
          BY <2>2, <2>5, <3>8, <4>3 DEF SortAsked
        <5> QED
          BY <1>11, <4>1, <4>2, <5>1 DEF SafeToAsk, File
      <4>4. CASE r.sort = "newest"
        <5>1. offset # Undefined
          BY <1>7, <3>7, <4>4, OrdinalsAreNumbers
        <5>2. a.rows = << >> /\ a.cut = "no"
          BY <1>15, <3>8, <5>1 DEF cut
        <5>3. matched = Matches(File, c.query)
          BY <1>8, <4>1, <4>4, <5>2 DEF IsAnswer, matched
        <5>4. OneOf(f.offset, c.offset) = f.offset /\ (f.offset = 0 \/ f.offset < Matches(File, c.query))
          BY <3>8, <5>1, <5>3, OrdinalsAreNumbers DEF OneOf
        <5> QED
          BY <1>11, <4>1, <4>2, <5>4 DEF SafeToAsk, File
      <4> QED
        BY <1>5, <4>3, <4>4 DEF Requests, Sorts
    <3>10. asker \in {Nobody, Asker("retry", None)}
      BY <3>3
    <3> QED
      BY <1>11, <3>1, <3>2, <3>4, <3>8, <3>9, <3>10, OtherAsks
  <2> QED
    BY <2>10, <2>11, <2>12, <2>13
<1> QED
  BY <1>13, <1>14, <1>15

-----------------------------------------------------------------------------
(* The pages and the restore: the theorems *)


LEMMA InitInv == ASSUME Init PROVE Inv
<1>1. PICK descending \in BOOLEAN :
        /\ ui = [gen |-> 0, complete |-> FALSE, follow |-> FALSE, reason |-> "none", page |-> None]
        /\ ctl = [query |-> "all", sort |-> IF descending THEN "newest" ELSE "none",
                  descending |-> descending, offset |-> 0, history |-> << >>, page |-> 1,
                  box |-> [text |-> 1, dirty |-> FALSE, sent |-> FALSE],
                  viewport |-> None, pending |-> None, rebuild |-> None, restore |-> None]
        /\ wire = [rows |-> None, rebuild |-> FALSE, order |-> None]
        /\ ghost = [restored |-> FALSE, touched |-> FALSE, mishap |-> FALSE,
                    reset |-> FALSE, retries |-> 0, lost |-> FALSE]
  BY DEF Init
<1>2. ui \in Views
  <2>1. Len(Files) \in Nat
    BY FilesAssumption, LenProperties
  <2> QED
    BY <1>1, <2>1 DEF Views, Reasons
<1>3. ctl \in Controllers
  <2>1. << >> \in Seq(Nat)
    BY EmptySeq
  <2> QED
    BY <1>1, <2>1 DEF Controllers, Boxes, Numbers, Queries, Sorts
<1>4. wire \in Wires /\ ghost \in Ghosts
  BY <1>1 DEF Wires, Ghosts
<1>5. Settled(ctl, wire, ui) /\ InFlight(ctl, wire, ui, ghost)
  BY <1>1, NothingBefore DEF Settled, InFlight
<1>6. Placed(ctl, wire, ui, ghost) /\ Restored(ctl, wire, ui, ghost) /\ PagesFollowOneAnother
  BY <1>1 DEF Placed, Restored, Calm, PagesFollowOneAnother
<1> QED
  BY <1>2, <1>3, <1>4, <1>5, <1>6 DEF Inv, Base

LEMMA ArrivesInv == ASSUME Inv, Arrives PROVE Inv'
<1>1. CASE \E complete \in BOOLEAN : Opened(complete)
  BY <1>1, OpenedInv
<1>2. CASE \E late \in 0..(Total(Files[1]) + 1), known \in BOOLEAN :
             ui.gen > 0 /\ late <= Total(File) + 1 /\ RowsArrive(late, known)
  <2>1. PICK late \in 0..(Total(Files[1]) + 1), known \in BOOLEAN : RowsArrive(late, known)
    BY <1>2
  <2> QED
    BY <2>1, RowsArriveInv
<1>3. CASE \E observed \in {"append", "lost"} : SourceInvalidated(observed)
  BY <1>3, SourceInvalidatedInv
<1>4. CASE RowsFail
  BY <1>4, RowsFailInv
<1>5. CASE RebuildFails \/ OrderFails
  BY <1>5, OthersFailInv
<1>6. CASE RowOrderChanged
  BY <1>6, RowOrderChangedInv
<1>7. CASE ProfileChanged
  BY <1>7, ProfileChangedInv
<1>8. CASE IndexCompletes
  BY <1>8, IndexCompletesInv
<1> QED
  BY <1>1, <1>2, <1>3, <1>4, <1>5, <1>6, <1>7, <1>8 DEF Arrives

LEMMA StutterInv == ASSUME Inv, UNCHANGED vars PROVE Inv'
BY DEF vars, Inv, Base, Placed, Restored, PagesFollowOneAnother, Continues, ContinuesPhysical,
       ContinuesSorted, Gap, File

\* The inductive invariant holds always: the fields are of their types, the request
\* on its way is the one that pending and restore speak of, the page shown is one
\* that a read answers with, a sorted view is where its page is, and a view that is
\* being restored has asked for something that finds a row, if there is one.
THEOREM InvHolds == Spec => []Inv
<1>1. Init => Inv
  BY InitInv
<1>2. Inv /\ [Next]_vars => Inv'
  BY UsesInv, ArrivesInv, StutterInv DEF Next
<1> QED
  BY <1>1, <1>2, PTL DEF Spec

\* The fields of RowQueryController and of App keep their types, a page number that
\* is submitted waits for its answer, and the back-stack of offsets rises to the
\* current one.
THEOREM TypeCorrect == Spec => []TypeOK
<1>1. Inv => TypeOK
  <2> SUFFICES ASSUME Inv PROVE TypeOK
    OBVIOUS
  <2>1. /\ ui \in Views /\ ctl \in Controllers /\ wire \in Wires
        /\ Settled(ctl, wire, ui) /\ InFlight(ctl, wire, ui, ghost)
    BY DEF Inv, Base
  <2>2. /\ ui.gen \in 0..Len(Files) /\ ui.complete \in BOOLEAN /\ ui.follow \in BOOLEAN
        /\ ui.reason \in {"none", "append", "lost"}
    BY <2>1 DEF Views, Reasons
  <2>3. /\ ctl.query \in Queries /\ ctl.sort \in Sorts /\ ctl.offset \in Nat /\ ctl.page \in Nat \ {0}
        /\ ctl.history \in Seq(Nat)
    BY <2>1 DEF Controllers, Numbers
  <2>4. ASSUME NEW k \in 1..Len(ctl.history)
        PROVE  ctl.history[k] < IF k < Len(ctl.history) THEN ctl.history[k + 1] ELSE ctl.offset
    <3>1. Rises(ctl.history, ctl.offset) /\ Len(ctl.history) \in Nat
      BY <2>1, <2>3, LenProperties DEF Settled
    <3>2. CASE k < Len(ctl.history)
      <4>1. k + 1 \in 1..Len(ctl.history) /\ k < k + 1
        BY <3>1, <3>2
      <4>2. ctl.history[k] < ctl.history[k + 1]
        BY <3>1, <4>1 DEF Rises
      <4> QED
        BY <3>2, <4>2
    <3>3. CASE ~(k < Len(ctl.history))
      BY <3>1, <3>3 DEF Rises
    <3> QED
      BY <3>2, <3>3
  <2>5. /\ ctl.pending # None => ctl.pending.options \in Options /\ wire.rows # None
        /\ ctl.box.sent => ctl.pending # None
        /\ ctl.restore # None => ctl.restore.phase \in {"initial", "waiting-index", "retrying"}
        /\ ctl.rebuild # None => wire.rebuild
    BY <2>1 DEF Controllers, Inputs, Restores, InFlight, Settled
  <2>6. wire.rebuild \in BOOLEAN /\ wire.order \in {None, "asc", "desc"}
    BY <2>1 DEF Wires
  <2> QED
    BY <2>2, <2>3, <2>4, <2>5, <2>6 DEF TypeOK
<1> QED
  BY <1>1, InvHolds, PTL

\* Next and Previous go on where the page shown ends, whatever cut it short: what
\* nextPage and previousPage ask for leaves no record out and shows none twice.
THEOREM PagesFollow == Spec => []PagesFollowOneAnother
<1>1. Inv => PagesFollowOneAnother
  BY DEF Inv
<1> QED
  BY <1>1, InvHolds, PTL

\* A view that a rebuild has restored is empty only if the query finds nothing in
\* the whole file (planEmptyRestore and rowsOptionsAfterEmptyRebuild).
THEOREM NotBlank == Spec => []RestoreIsNotBlank
<1>1. Inv => RestoreIsNotBlank
  <2> SUFFICES ASSUME Inv,
                      ghost.restored, ~ghost.touched, ~ghost.mishap, ~ghost.reset,
                      ui.complete, wire.rows = None,
                      ui.page # None, ui.page.cut = "no", ui.page.rows = << >>
               PROVE  Nothing(File, ui.page.query)
    BY DEF RestoreIsNotBlank, Nothing
  <2>1. Restored(ctl, wire, ui, ghost) /\ InFlight(ctl, wire, ui, ghost)
    BY DEF Inv, Base
  <2>2. ctl.restore = None
    BY <2>1 DEF InFlight
  <2> QED
    BY <2>1, <2>2 DEF Restored, Calm, IsBlank, File
<1> QED
  BY <1>1, InvHolds, PTL
=============================================================================
