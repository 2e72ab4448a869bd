--------------------------- MODULE WorkspaceProofs ---------------------------
(***************************************************************************)
(* Proofs about Workspace, for every file, page size and set of panes, and *)
(* any number of clicks, failures and changes.  The callbacks and effects  *)
(* of App.tsx are compositions of a few operations on app, so each         *)
(* operation is shown to keep the view and the requests consistent         *)
(* (Consistent) and to send no read past the barrier (SendsNoRead), and    *)
(* both are carried along the compositions.                                *)
(***************************************************************************)
EXTENDS Workspace, TLAPS

ViewFields ==
    {"gen", "complete", "reason", "rows", "columns", "selected", "detail", "blocked",
     "keep", "keepDetail", "stale", "schema", "problems", "insights", "tab",
     "pending", "fresh"}
RefFields == {"accepted", "reason", "schemaKey", "autoKey", "failed", "detail", "tab"}

IsDetail(d) == d.gen \in Nat /\ d.ordinal \in Nat

\* The record kept over a rebuild is that of the drawer that is kept with it.
KeptIsDetailed(u) ==
    /\ u.keepDetail \in {u.keep, None}
    /\ u.detail # None => IsDetail(u.detail) /\ u.selected = u.detail.ordinal
    /\ u.keepDetail # None /\ u.detail # None => u.keepDetail.ordinal = u.detail.ordinal

\* The reducer's state in a session.
IsView(u, session) ==
    /\ DOMAIN u = ViewFields
    /\ u.gen \in {0, session}
    /\ u.reason \in Reasons
    /\ u.rows \in Pages(session)
    /\ u.selected \in Nat \cup {None}
    /\ u.keep \in Refs \cup {None}
    /\ KeptIsDetailed(u)
    /\ DOMAIN u.pending = Kinds

\* Every spinner is of a request that is waited for.
Honest(pending, client) ==
    \A k \in Kinds : pending[k] # None =>
        \E r \in client : r.id = pending[k] /\ r.kind = k

Consistent(a) ==
    /\ DOMAIN a = {"ui", "refs", "client", "session"}
    /\ DOMAIN a.refs = RefFields
    /\ a.refs.reason \in Reasons
    /\ a.refs.detail = None \/ IsDetail(a.refs.detail)
    /\ a.session \in Generations
    /\ a.client \subseteq Messages
    /\ IsView(a.ui, a.session)
    /\ Honest(a.ui.pending, a.client)

\* What the effects and the user take from a rendering.
IsRendered(s) ==
    /\ s.gen \in Nat
    /\ \A i \in DOMAIN s.rows : s.rows[i] \in Nat
    /\ s.detail # None => IsDetail(s.detail)
    /\ s.keepDetail # None => s.keepDetail.ordinal \in Nat

IInv ==
    /\ Consistent(app)
    /\ IsRendered(seen)
    /\ DOMAIN host = {"gen", "indexed", "told", "shown"}
    /\ host.gen \in Generations
    /\ DOMAIN used = {"acts", "mishaps", "failed"}
    /\ used.acts \in 0..MaxActs
    /\ used.mishaps \in 0..MaxMishaps
-----------------------------------------------------------------------------
(* Pages and requests *)

LEMMA GenerationLengths ==
    /\ 1 \in Generations
    /\ \A g \in Generations : g \in Nat /\ g # 0 /\ Len(Starts[g]) \in Nat
<1>1. Starts \in Seq(Seq(Nat)) /\ Starts # << >>
  BY WorkspaceAssumption
<1>2. Len(Starts) \in Nat /\ Len(Starts) # 0
  BY <1>1
<1>3. ASSUME NEW g \in 1..Len(Starts)
      PROVE  Len(Starts[g]) \in Nat
  <2>1. Starts[g] \in Seq(Nat)
    BY <1>1
  <2> QED
    BY <2>1
<1> QED
  BY <1>2, <1>3 DEF Generations

LEMMA PageOrdinals ==
    ASSUME NEW g \in Generations, NEW page \in Pages(g)
    PROVE  /\ \A i \in DOMAIN page : page[i] \in Ordinals(g) /\ page[i] \in Nat
           /\ page # << >> => page[1] \in Nat
<1>1. g \in Nat /\ Len(Starts[g]) \in Nat /\ PageSize \in Nat \ {0}
  BY GenerationLengths, WorkspaceAssumption
<1>2. CASE page = << >>
  BY <1>2
<1>3. ASSUME NEW o \in Ordinals(g),
             page = [i \in 1..(LastOnPage(g, o) - o + 1) |-> o + i - 1]
      PROVE  /\ \A i \in DOMAIN page : page[i] \in Ordinals(g) /\ page[i] \in Nat
             /\ page[1] \in Nat
  <2>1. o \in Nat /\ o >= 1 /\ o <= Len(Starts[g])
    BY <1>1 DEF Ordinals
  <2>2. /\ LastOnPage(g, o) \in Nat /\ LastOnPage(g, o) >= o
        /\ LastOnPage(g, o) <= Len(Starts[g])
    BY <1>1, <2>1 DEF LastOnPage
  <2>3. 1 \in DOMAIN page
    BY <1>3, <2>1, <2>2
  <2>4. \A i \in DOMAIN page : page[i] \in Ordinals(g) /\ page[i] \in Nat
    BY <1>1, <1>3, <2>1, <2>2 DEF Ordinals
  <2> QED
    BY <2>3, <2>4
<1> QED
  BY <1>2, <1>3 DEF Pages

LEMMA EmptyPage == \A g : << >> \in Pages(g)
  BY DEF Pages

\* An answer ends its spinner and takes its request away.
LEMMA CompletedIsHonest ==
    ASSUME NEW pending, NEW client, NEW r, DOMAIN pending = Kinds,
           Honest(pending, client),
           r # None \/ None \notin client
    PROVE  /\ DOMAIN Completed(pending, r) = Kinds
           /\ Honest(Completed(pending, r), client \ {r})
<1> DEFINE p == Completed(pending, r)
<1>1. DOMAIN p = Kinds
  BY DEF Completed
<1>2. \A k \in Kinds : p[k] # None =>
        p[k] = pending[k] /\ ~(r # None /\ r.kind = k /\ r.id = pending[k])
  BY DEF Completed
<1> HIDE DEF p
<1>3. ASSUME NEW k \in Kinds, p[k] # None
      PROVE  \E q \in client \ {r} : q.id = p[k] /\ q.kind = k
  BY <1>2, <1>3 DEF Honest
<1> QED
  BY <1>1, <1>3 DEF Honest, p

LEMMA NoPendingIsHonest ==
    /\ DOMAIN NoPending = Kinds
    /\ \A client : Honest(NoPending, client)
  BY DEF NoPending, Honest

LEMMA MessagesHaveKinds ==
    /\ None \notin Messages
    /\ \A r \in Messages : r.id \in Ids /\ r.kind \in Kinds
    /\ \A r \in Messages : r.kind = "detail" => r.arg.gen \in Nat /\ r.arg.ordinal \in Nat
<1>1. None \notin Messages
  BY NoneAssumption
<1>2. "detail" \in Kinds
  BY DEF Kinds, Reads
<1> QED
  BY <1>1, <1>2 DEF Messages
-----------------------------------------------------------------------------
(* The reducer *)

\* What an action of the reducer leaves: a view, whose spinners are those that
\* remain of the requests.
LEMMA OpenedKeeps ==
    ASSUME NEW u, NEW session \in Generations, NEW gen \in Generations,
           NEW complete, NEW r, IsView(u, session),
           NEW client, Honest(u.pending, client), r # None \/ None \notin client
    PROVE  /\ IsView(Opened(u, gen, complete, r), gen)
           /\ Honest(Opened(u, gen, complete, r).pending,
                     IF session # gen THEN {} ELSE client \ {r})
<1> DEFINE v == Opened(u, gen, complete, r)
           changed == u.gen # gen
           keepsDrawer == changed /\ u.keepDetail # None /\ u.pending["rebuild"] # None
<1>1. DOMAIN u = ViewFields /\ DOMAIN u.pending = Kinds
  BY DEF IsView
<1>2. gen # 0
  BY GenerationLengths
<1>3. ~changed => session = gen
  BY <1>2 DEF IsView
<1>4. v.pending = IF (changed /\ u.reason # "none") \/ changed THEN NoPending
                  ELSE Completed(u.pending, r)
  BY <1>1 DEF Opened, PendingAfterOpened, ViewFields
<1>5. /\ DOMAIN v.pending = Kinds
      /\ Honest(v.pending, IF session # gen THEN {} ELSE client \ {r})
  BY <1>1, <1>3, <1>4, CompletedIsHonest, NoPendingIsHonest
<1>6. CASE u.reason # "none" /\ ~changed
  <2>1. v = [u EXCEPT !.pending = Completed(@, r)]
    BY <1>6 DEF Opened
  <2>2. /\ DOMAIN v = ViewFields /\ v.gen = u.gen /\ v.reason = u.reason
        /\ v.rows = u.rows /\ v.selected = u.selected /\ v.keep = u.keep
        /\ v.keepDetail = u.keepDetail /\ v.detail = u.detail
    BY <1>1, <2>1 DEF ViewFields
  <2> QED
    BY <1>3, <1>5, <1>6, <2>2 DEF IsView, KeptIsDetailed
<1>7. CASE ~(u.reason # "none" /\ ~changed)
  <2>1. /\ DOMAIN v = ViewFields /\ v.gen = gen /\ v.reason = "none"
        /\ v.rows = IF changed THEN << >> ELSE u.rows
        /\ v.selected = IF keepsDrawer THEN u.keepDetail.ordinal
                        ELSE IF ~changed THEN u.selected
                        ELSE IF u.keep # None THEN u.keep.ordinal ELSE None
        /\ v.detail = IF changed /\ ~keepsDrawer THEN None ELSE u.detail
        /\ v.keep = IF changed THEN u.keep ELSE None
        /\ v.keepDetail = IF keepsDrawer THEN u.keepDetail ELSE None
    BY <1>1, <1>7 DEF Opened, ViewFields
  <2> HIDE DEF v
  <2>2. v.rows \in Pages(gen)
    BY <1>3, <2>1, EmptyPage DEF IsView
  <2>3. u.keep # None => u.keep.ordinal \in Nat
    BY GenerationLengths DEF IsView, Refs, Ordinals
  <2>4. v.selected \in Nat \cup {None} /\ v.keep \in Refs \cup {None}
    BY <2>1, <2>3 DEF IsView, KeptIsDetailed
  <2>5. KeptIsDetailed(v)
    BY <2>1 DEF IsView, KeptIsDetailed
  <2> QED
    BY <1>5, <2>1, <2>2, <2>4, <2>5 DEF IsView, Reasons, v
<1> QED
  BY <1>5, <1>6, <1>7

\* A change that leaves the table and the drawer alone.
LEMMA SameDrawer ==
    ASSUME NEW u, NEW v, NEW session, IsView(u, session),
           DOMAIN v = ViewFields, v.gen \in {0, session}, v.reason \in Reasons,
           v.rows = u.rows, v.selected = u.selected, v.detail = u.detail,
           v.keep = u.keep, v.keepDetail = u.keepDetail, DOMAIN v.pending = Kinds
    PROVE  IsView(v, session)
  BY DEF IsView, KeptIsDetailed

LEMMA OnlyCompleted ==
    ASSUME NEW u, NEW session, IsView(u, session), NEW r,
           NEW client, Honest(u.pending, client), r # None \/ None \notin client
    PROVE  LET v == [u EXCEPT !.pending = Completed(@, r)]
           IN  IsView(v, session) /\ Honest(v.pending, client \ {r})
<1> DEFINE v == [u EXCEPT !.pending = Completed(@, r)]
<1>1. DOMAIN u = ViewFields /\ DOMAIN u.pending = Kinds
  BY DEF IsView
<1>2. v.pending = Completed(u.pending, r)
  BY <1>1 DEF ViewFields
<1>3. /\ DOMAIN v = ViewFields /\ v.gen = u.gen /\ v.reason = u.reason
      /\ v.rows = u.rows /\ v.selected = u.selected /\ v.keep = u.keep
      /\ v.keepDetail = u.keepDetail /\ v.detail = u.detail
  BY <1>1 DEF ViewFields
<1> HIDE DEF v
<1>4. DOMAIN v.pending = Kinds /\ Honest(v.pending, client \ {r})
  BY <1>1, <1>2, CompletedIsHonest
<1>5. v.gen \in {0, session} /\ v.reason \in Reasons
  BY <1>3 DEF IsView
<1>6. IsView(v, session)
  BY <1>3, <1>4, <1>5, SameDrawer
<1> QED
  BY <1>4, <1>6 DEF v

LEMMA RowsKeep ==
    ASSUME NEW u, NEW session \in Generations, IsView(u, session),
           NEW page \in Pages(session), NEW columns, NEW r,
           NEW client, Honest(u.pending, client), r # None \/ None \notin client
    PROVE  /\ IsView(Rows(u, page, columns, r), session)
           /\ Honest(Rows(u, page, columns, r).pending, client \ {r})
<1> DEFINE v == Rows(u, page, columns, r)
<1>1. DOMAIN u = ViewFields /\ DOMAIN u.pending = Kinds
  BY DEF IsView
<1>2. CASE ~Readable(u.reason)
  <2>1. v = [u EXCEPT !.pending = Completed(@, r)]
    BY <1>2 DEF Rows
  <2> HIDE DEF v
  <2> QED
    BY <2>1, OnlyCompleted DEF v
<1>3. CASE Readable(u.reason)
  <2> DEFINE new == [u EXCEPT !.rows = page]
             first == IF page = << >> THEN None ELSE page[1]
             held(ref) == page = << >> \/ Shows(new, ref)
             keepsAppend == u.reason = "append" /\ u.detail # None
             selected == IF keepsAppend /\ u.selected # None THEN u.selected
                         ELSE IF u.keep # None
                           THEN (IF held(u.keep) THEN u.keep.ordinal ELSE first)
                         ELSE IF u.selected # None /\ OnPage(new, u.selected)
                           THEN u.selected
                         ELSE first
             keepsDetail == /\ u.detail # None /\ u.detail.ordinal = selected
                            /\ u.keepDetail = None \/ held(u.keepDetail)
  <2>1. /\ DOMAIN v = ViewFields /\ v.gen = u.gen /\ v.reason = u.reason
        /\ v.rows = page
        /\ v.selected = selected
        /\ v.detail = IF keepsAppend \/ keepsDetail THEN u.detail ELSE None
        /\ v.keep = IF u.keep # None /\ held(u.keep) THEN u.keep ELSE None
        /\ v.keepDetail = IF u.keepDetail # None /\ held(u.keepDetail)
                            THEN u.keepDetail ELSE None
        /\ v.pending = Completed(u.pending, r)
    BY <1>1, <1>3 DEF Rows, ViewFields
  <2>2. first \in Nat \cup {None}
    BY PageOrdinals
  <2>3. u.keep # None => u.keep.ordinal \in Nat
    BY GenerationLengths DEF IsView, Refs, Ordinals
  <2>4. /\ u.selected \in Nat \cup {None} /\ KeptIsDetailed(u)
        /\ u.gen \in {0, session} /\ u.reason \in Reasons
        /\ u.keep \in Refs \cup {None}
    BY DEF IsView
  <2> HIDE DEF v, new, first, held
  <2>5. selected \in Nat \cup {None}
    BY <2>2, <2>3, <2>4
  <2>6. keepsAppend => u.selected # None /\ selected = u.selected
    BY <2>4, NoneAssumption DEF KeptIsDetailed, IsDetail
  <2> HIDE DEF selected
  <2>7. v.detail # None => IsDetail(v.detail) /\ v.selected = v.detail.ordinal
    BY <2>1, <2>4, <2>6 DEF KeptIsDetailed
  <2>8. /\ v.keepDetail \in {v.keep, None}
        /\ v.keepDetail # None /\ v.detail # None => v.keepDetail.ordinal = v.detail.ordinal
    BY <2>1, <2>4 DEF KeptIsDetailed
  <2>9. DOMAIN v.pending = Kinds /\ Honest(v.pending, client \ {r})
    BY <1>1, <2>1, CompletedIsHonest
  <2>10. v.keep \in Refs \cup {None}
    BY <2>1, <2>4
  <2>11. IsView(v, session)
    BY <2>1, <2>4, <2>5, <2>7, <2>8, <2>9, <2>10 DEF IsView, KeptIsDetailed
  <2> QED
    BY <2>9, <2>11 DEF v
<1> QED
  BY <1>2, <1>3

LEMMA DetailedKeeps ==
    ASSUME NEW u, NEW session, IsView(u, session), NEW ref, IsDetail(ref), NEW full, NEW r,
           NEW client, Honest(u.pending, client), r # None \/ None \notin client
    PROVE  /\ IsView(Detailed(u, ref, full, r), session)
           /\ Honest(Detailed(u, ref, full, r).pending, client \ {r})
<1> DEFINE v == Detailed(u, ref, full, r)
<1>1. DOMAIN u = ViewFields /\ DOMAIN u.pending = Kinds
  BY DEF IsView
<1>2. CASE ~Readable(u.reason)
  <2>1. v = [u EXCEPT !.pending = Completed(@, r)]
    BY <1>2 DEF Detailed
  <2> HIDE DEF v
  <2> QED
    BY <2>1, OnlyCompleted DEF v
<1>3. CASE Readable(u.reason)
  <2> DEFINE d == [gen |-> ref.gen, ordinal |-> ref.ordinal, full |-> full]
  <2>1. /\ DOMAIN v = ViewFields /\ v.gen = u.gen /\ v.reason = u.reason
        /\ v.rows = u.rows /\ v.selected = ref.ordinal /\ v.detail = d
        /\ v.keep = None /\ v.keepDetail = None
        /\ v.pending = Completed(u.pending, r)
    BY <1>1, <1>3 DEF Detailed, ViewFields
  <2>2. IsDetail(d) /\ d.ordinal = ref.ordinal
    BY DEF IsDetail
  <2> HIDE DEF v, d
  <2>3. DOMAIN v.pending = Kinds /\ Honest(v.pending, client \ {r})
    BY <1>1, <2>1, CompletedIsHonest
  <2>4. IsView(v, session)
    BY <2>1, <2>2, <2>3 DEF IsView, KeptIsDetailed, IsDetail
  <2> QED
    BY <2>3, <2>4 DEF v
<1> QED
  BY <1>2, <1>3

LEMMA FilledKeeps ==
    ASSUME NEW u, NEW session, IsView(u, session), NEW value, NEW r,
           NEW field \in {"schema", "problems", "insights"},
           NEW client, Honest(u.pending, client), r # None \/ None \notin client
    PROVE  /\ IsView(Filled(u, field, value, r), session)
           /\ Honest(Filled(u, field, value, r).pending, client \ {r})
<1> DEFINE v == Filled(u, field, value, r)
<1>1. DOMAIN u = ViewFields /\ DOMAIN u.pending = Kinds
  BY DEF IsView
<1>2. /\ DOMAIN v = ViewFields /\ v.gen = u.gen /\ v.reason = u.reason
      /\ v.rows = u.rows /\ v.selected = u.selected /\ v.keep = u.keep
      /\ v.keepDetail = u.keepDetail /\ v.detail = u.detail
      /\ v.pending = Completed(u.pending, r)
  BY <1>1 DEF Filled, ViewFields
<1> HIDE DEF v
<1>3. DOMAIN v.pending = Kinds /\ Honest(v.pending, client \ {r})
  BY <1>1, <1>2, CompletedIsHonest
<1>4. v.gen \in {0, session} /\ v.reason \in Reasons
  BY <1>2 DEF IsView
<1>5. IsView(v, session)
  BY <1>2, <1>3, <1>4, SameDrawer
<1> QED
  BY <1>3, <1>5 DEF v

LEMMA ProgressedKeeps ==
    ASSUME NEW u, NEW session, IsView(u, session), NEW complete
    PROVE  /\ IsView(Progressed(u, session, complete), session)
           /\ Progressed(u, session, complete).pending = u.pending
<1> DEFINE v == Progressed(u, session, complete)
<1>1. DOMAIN u = ViewFields /\ DOMAIN u.pending = Kinds
  BY DEF IsView
<1>2. /\ DOMAIN v = ViewFields /\ v.gen \in {u.gen, session} /\ v.reason = u.reason
      /\ v.rows = u.rows /\ v.selected = u.selected /\ v.keep = u.keep
      /\ v.keepDetail = u.keepDetail /\ v.detail = u.detail
      /\ v.pending = u.pending
  BY <1>1 DEF Progressed, ViewFields
<1> HIDE DEF v
<1>3. v.gen \in {0, session} /\ v.reason \in Reasons
  BY <1>2 DEF IsView
<1>4. IsView(v, session)
  BY <1>1, <1>2, <1>3, SameDrawer
<1> QED
  BY <1>2, <1>4 DEF v

LEMMA ProfileChangedKeeps ==
    ASSUME NEW u, NEW session, IsView(u, session), NEW columns, NEW r,
           NEW client, Honest(u.pending, client), r # None \/ None \notin client
    PROVE  /\ IsView(ProfileChanged(u, columns, r), session)
           /\ Honest(ProfileChanged(u, columns, r).pending, client \ {r})
<1> DEFINE v == ProfileChanged(u, columns, r)
<1>1. DOMAIN u = ViewFields /\ DOMAIN u.pending = Kinds
  BY DEF IsView
<1>2. /\ DOMAIN v = ViewFields /\ v.gen = u.gen /\ v.reason = u.reason
      /\ v.rows = u.rows /\ v.selected = u.selected /\ v.keep = u.keep
      /\ v.keepDetail = u.keepDetail /\ v.detail \in {u.detail, None}
      /\ v.pending = Completed(u.pending, r)
  BY <1>1 DEF ProfileChanged, ViewFields
<1> HIDE DEF v
<1>3. DOMAIN v.pending = Kinds /\ Honest(v.pending, client \ {r})
  BY <1>1, <1>2, CompletedIsHonest
<1>4. IsView(v, session)
  BY <1>2, <1>3 DEF IsView, KeptIsDetailed
<1> QED
  BY <1>3, <1>4 DEF v

LEMMA NextReasonIsReason ==
    ASSUME NEW current \in Reasons, NEW observed \in Reasons
    PROVE  NextReason(current, observed) \in Reasons
  BY DEF NextReason

LEMMA InvalidatedKeeps ==
    ASSUME NEW u, NEW session, IsView(u, session), NEW observed \in Reasons,
           NEW client, Honest(u.pending, client)
    PROVE  /\ IsView(Invalidated(u, observed), session)
           /\ Honest(Invalidated(u, observed).pending, client)
<1> DEFINE v == Invalidated(u, observed)
           reason == NextReason(u.reason, observed)
<1>1. DOMAIN u = ViewFields /\ DOMAIN u.pending = Kinds /\ u.reason \in Reasons
  BY DEF IsView
<1>2. reason \in Reasons
  BY <1>1, NextReasonIsReason
<1>3. /\ DOMAIN v = ViewFields /\ v.gen = u.gen /\ v.reason = reason
      /\ v.rows = u.rows /\ v.selected = u.selected /\ v.keep = u.keep
      /\ v.keepDetail = u.keepDetail /\ v.detail = u.detail
      /\ v.pending = u.pending \/ v.pending = NoPending
  BY <1>1 DEF Invalidated, ViewFields
<1> HIDE DEF v, reason
<1>4. DOMAIN v.pending = Kinds /\ Honest(v.pending, client)
  BY <1>1, <1>3, NoPendingIsHonest
<1>5. v.gen \in {0, session}
  BY <1>3 DEF IsView
<1>6. IsView(v, session)
  BY <1>2, <1>3, <1>4, <1>5, SameDrawer
<1> QED
  BY <1>4, <1>6 DEF v

LEMMA FailedKeeps ==
    ASSUME NEW u, NEW session, IsView(u, session), NEW r,
           NEW client, Honest(u.pending, client), r # None
    PROVE  /\ IsView(Failed(u, r), session)
           /\ Honest(Failed(u, r).pending, client \ {r})
<1> DEFINE v == Failed(u, r)
           ends == r.kind = "rebuild" /\ u.pending["rebuild"] = r.id
<1>1. DOMAIN u = ViewFields /\ DOMAIN u.pending = Kinds
  BY DEF IsView
<1>2. /\ DOMAIN v = ViewFields /\ v.gen = u.gen /\ v.reason = u.reason
      /\ v.rows = u.rows /\ v.selected = u.selected /\ v.detail = u.detail
      /\ v.keep = IF ends THEN None ELSE u.keep
      /\ v.keepDetail = IF ends THEN None ELSE u.keepDetail
      /\ v.pending = Completed(u.pending, r)
  BY <1>1 DEF Failed, ViewFields
<1> HIDE DEF v, ends
<1>3. DOMAIN v.pending = Kinds /\ Honest(v.pending, client \ {r})
  BY <1>1, <1>2, CompletedIsHonest
<1>4. IsView(v, session)
  BY <1>2, <1>3 DEF IsView, KeptIsDetailed
<1> QED
  BY <1>3, <1>4 DEF v

LEMMA RequestSentKeeps ==
    ASSUME NEW u, NEW session \in Generations, IsView(u, session),
           NEW id, NEW kind \in Kinds, NEW client, Honest(u.pending, client),
           NEW sent, \E r \in sent : r.id = id /\ r.kind = kind
    PROVE  /\ IsView(RequestSent(u, id, kind), session)
           /\ Honest(RequestSent(u, id, kind).pending, client \cup sent)
<1> DEFINE v == RequestSent(u, id, kind)
           row == IF u.gen # 0 /\ u.selected # None /\ OnPage(u, u.selected)
                    THEN Ref(u.gen, u.selected) ELSE None
           pending == [u.pending EXCEPT ![kind] = id]
<1>1. DOMAIN u = ViewFields /\ DOMAIN u.pending = Kinds
  BY DEF IsView
<1>2. /\ DOMAIN v = ViewFields /\ v.gen = u.gen /\ v.reason = u.reason
      /\ v.rows = u.rows /\ v.selected = u.selected /\ v.detail = u.detail
      /\ v.pending = pending
      /\ \/ v.keep = u.keep /\ v.keepDetail = u.keepDetail
         \/ v.keep = row /\ v.keepDetail = (IF u.detail = None THEN None ELSE row)
  BY <1>1 DEF RequestSent, ViewFields
<1>3. DOMAIN pending = Kinds /\ Honest(pending, client \cup sent)
  BY <1>1 DEF Honest
<1>4. row \in Refs \cup {None}
  <2>1. CASE u.gen # 0 /\ u.selected # None /\ OnPage(u, u.selected)
    <3>1. u.gen = session /\ u.rows \in Pages(session)
      BY <2>1 DEF IsView
    <3>2. u.selected \in Ordinals(session)
      BY <2>1, <3>1, PageOrdinals DEF OnPage
    <3> QED
      BY <2>1, <3>1, <3>2 DEF Ref, Refs
  <2> QED
    BY <2>1
<1>5. row # None => row.ordinal = u.selected
  BY DEF Ref
<1> HIDE DEF v, row, pending
<1>6. v.keep \in Refs \cup {None} /\ KeptIsDetailed(v)
  BY <1>2, <1>4, <1>5 DEF IsView, KeptIsDetailed
<1>7. IsView(v, session)
  BY <1>2, <1>3, <1>6 DEF IsView
<1> QED
  BY <1>2, <1>3, <1>7 DEF v

LEMMA SelectRowKeeps ==
    ASSUME NEW u, NEW session, IsView(u, session), NEW o \in Nat
    PROVE  IsView(SelectRow(u, o), session) /\ SelectRow(u, o).pending = u.pending
<1> DEFINE v == SelectRow(u, o)
           other == u.detail = None \/ u.detail.ordinal # o
<1>1. DOMAIN u = ViewFields /\ DOMAIN u.pending = Kinds
  BY DEF IsView
<1>2. /\ DOMAIN v = ViewFields /\ v.gen = u.gen /\ v.reason = u.reason
      /\ v.rows = u.rows /\ v.selected = o
      /\ v.detail = IF other THEN None ELSE u.detail
      /\ v.keep = IF u.selected = o THEN u.keep ELSE None
      /\ v.keepDetail = IF u.selected = o THEN u.keepDetail ELSE None
      /\ v.pending = u.pending
  BY <1>1 DEF SelectRow, ViewFields
<1> HIDE DEF v
<1>3. IsView(v, session)
  BY <1>1, <1>2 DEF IsView, KeptIsDetailed
<1> QED
  BY <1>2, <1>3 DEF v

LEMMA CloseDetailKeeps ==
    ASSUME NEW u, NEW session, IsView(u, session)
    PROVE  IsView(CloseDetail(u), session) /\ CloseDetail(u).pending = u.pending
<1> DEFINE v == CloseDetail(u)
<1>1. DOMAIN u = ViewFields /\ DOMAIN u.pending = Kinds
  BY DEF IsView
<1>2. /\ DOMAIN v = ViewFields /\ v.gen = u.gen /\ v.reason = u.reason
      /\ v.rows = u.rows /\ v.selected = u.selected
      /\ v.detail = None /\ v.keep = None /\ v.keepDetail = None
      /\ v.pending = u.pending
  BY <1>1 DEF CloseDetail, ViewFields
<1> HIDE DEF v
<1>3. IsView(v, session)
  BY <1>1, <1>2 DEF IsView, KeptIsDetailed
<1> QED
  BY <1>2, <1>3 DEF v
-----------------------------------------------------------------------------
(* The operations of the callbacks and effects *)

AppFields == {"ui", "refs", "client", "session"}

\* From a to b the barrier is as it was, and if it is up no read is sent.
SendsNoRead(a, b) ==
    /\ b.refs.reason = a.refs.reason
    /\ ~Readable(a.refs.reason) =>
         \A r \in b.client : r \in a.client \/ r.kind \notin Reads

Keeps(a, b) == Consistent(b) /\ SendsNoRead(a, b)

\* There is an id for one more request.
Free(a, kind) == Ids \ Taken(a, kind) # {}

LEMMA KeepsItself == \A a : Consistent(a) => Keeps(a, a)
  BY DEF Keeps, SendsNoRead

LEMMA KeepsOn ==
    ASSUME NEW a, NEW b, NEW c, Keeps(a, b), Keeps(b, c)
    PROVE  Keeps(a, c)
  BY DEF Keeps, SendsNoRead

\* A change of the refs that are not the barrier.
LEMMA RefsKeep ==
    ASSUME NEW a, Consistent(a), NEW b, b.ui = a.ui, b.client = a.client,
           b.session = a.session, DOMAIN b = AppFields, DOMAIN b.refs = RefFields,
           b.refs.reason = a.refs.reason,
           b.refs.detail = None \/ IsDetail(b.refs.detail)
    PROVE  Keeps(a, b)
  BY DEF Keeps, Consistent, SendsNoRead, AppFields

\* A change of the reducer's state that leaves the spinners alone.
LEMMA ViewKeeps ==
    ASSUME NEW a, Consistent(a), NEW u, IsView(u, a.session), u.pending = a.ui.pending
    PROVE  /\ Keeps(a, [a EXCEPT !.ui = u])
           /\ \A kind : Free(a, kind) => Free([a EXCEPT !.ui = u], kind)
<1> DEFINE b == [a EXCEPT !.ui = u]
<1>1. /\ DOMAIN b = AppFields /\ b.ui = u /\ b.refs = a.refs
      /\ b.client = a.client /\ b.session = a.session
  BY DEF Consistent, AppFields
<1> HIDE DEF b
<1>2. Keeps(a, b)
  BY <1>1 DEF Keeps, Consistent, SendsNoRead, AppFields
<1>3. \A kind : Free(a, kind) => Free(b, kind)
  BY <1>1 DEF Free, Taken, Requests
<1> QED
  BY <1>2, <1>3 DEF b

LEMMA FreshIdIsFree ==
    ASSUME NEW a, Consistent(a), NEW kind \in Kinds, Free(a, kind)
    PROVE  FreshId(a, kind) \in Ids
<1>1. \A r \in a.client : r.id \in Ids
  BY MessagesHaveKinds DEF Consistent
<1>2. a.ui.pending[kind] # None => a.ui.pending[kind] \in Ids
  BY <1>1 DEF Consistent, Honest
<1>3. Taken(a, kind) \in SUBSET (Ids \cup {None})
  BY <1>1, <1>2 DEF Taken, Requests
<1> DEFINE taken == Taken(a, kind)
<1>4. taken \in SUBSET (Ids \cup {None}) /\ \E id \in Ids : id \notin taken
  BY <1>3 DEF Free
<1> HIDE DEF taken
<1>5. Unused[taken] = CHOOSE id \in Ids : id \notin taken
  BY <1>4 DEF Unused
<1>6. Unused[taken] \in Ids
  BY <1>4, <1>5
<1> QED
  BY <1>6 DEF FreshId, taken

LEMMA SendKeeps ==
    ASSUME NEW a, Consistent(a), NEW kind \in Kinds, Free(a, kind), NEW arg,
           IF kind = "detail" THEN arg \in [gen: Nat, ordinal: Nat, full: BOOLEAN]
           ELSE arg = None,
           kind \in Reads => Readable(a.refs.reason)
    PROVE  Keeps(a, Send(a, kind, arg))
<1> DEFINE id == FreshId(a, kind)
           r == [id |-> id, kind |-> kind, arg |-> arg]
           b == Send(a, kind, arg)
<1>1. /\ DOMAIN b = AppFields /\ b.refs = a.refs /\ b.session = a.session
      /\ b.client = a.client \cup {r}
      /\ b.ui = RequestSent(a.ui, id, kind)
  BY DEF Send, Consistent, AppFields
<1>2. id \in Ids
  BY FreshIdIsFree
<1> HIDE DEF id, b
<1>3. r \in Messages
  BY <1>2 DEF Messages
<1>4. r.id = id /\ r.kind = kind
  OBVIOUS
<1> HIDE DEF r
<1>5. /\ a.session \in Generations /\ IsView(a.ui, a.session)
      /\ Honest(a.ui.pending, a.client) /\ a.client \subseteq Messages
  BY DEF Consistent
<1>6. IsView(b.ui, a.session) /\ Honest(b.ui.pending, b.client)
  <2>1. \E q \in {r} : q.id = id /\ q.kind = kind
    BY <1>4
  <2>2. /\ IsView(RequestSent(a.ui, id, kind), a.session)
        /\ Honest(RequestSent(a.ui, id, kind).pending, a.client \cup {r})
    BY <1>5, <2>1, RequestSentKeeps
  <2> QED
    BY <1>1, <2>2
<1>7. Consistent(b)
  BY <1>1, <1>3, <1>5, <1>6 DEF Consistent, AppFields
<1>8. SendsNoRead(a, b)
  BY <1>1, <1>4 DEF SendsNoRead
<1> QED
  BY <1>7, <1>8 DEF Keeps, b

\* What is left of the requests frees the ids of the kinds cancelled.
LEMMA CancelKeeps ==
    ASSUME NEW a, Consistent(a), NEW kinds
    PROVE  /\ Keeps(a, Cancel(a, kinds))
           /\ \A kind \in Kinds : kind \in kinds => Free(Cancel(a, kinds), kind)
           /\ Cancel(a, kinds).refs = a.refs
           /\ Cancel(a, kinds).session = a.session
           /\ Cancel(a, kinds).client \subseteq a.client
<1> DEFINE gone == {r \in a.client : r.kind \in kinds}
           pending == [k \in Kinds |->
                         IF \E r \in gone : r.kind = k /\ r.id = a.ui.pending[k]
                           THEN None ELSE a.ui.pending[k]]
           b == Cancel(a, kinds)
<1>1. /\ DOMAIN a = AppFields /\ IsView(a.ui, a.session) /\ DOMAIN a.ui = ViewFields
      /\ Honest(a.ui.pending, a.client)
  BY DEF Consistent, AppFields, IsView
<1>2. b = [a EXCEPT !.client = @ \ gone, !.ui.pending = pending]
  BY DEF Cancel
<1> HIDE DEF pending
<1>3. /\ DOMAIN b = AppFields /\ b.refs = a.refs /\ b.session = a.session
      /\ b.client = a.client \ gone
      /\ b.ui = [a.ui EXCEPT !.pending = pending]
  BY <1>1, <1>2 DEF AppFields
<1> HIDE DEF b
<1>4. /\ DOMAIN b.ui = ViewFields /\ b.ui.gen = a.ui.gen /\ b.ui.reason = a.ui.reason
      /\ b.ui.rows = a.ui.rows /\ b.ui.selected = a.ui.selected
      /\ b.ui.keep = a.ui.keep /\ b.ui.keepDetail = a.ui.keepDetail
      /\ b.ui.detail = a.ui.detail /\ b.ui.pending = pending
  BY <1>1, <1>3 DEF ViewFields
<1>5. DOMAIN pending = Kinds
  BY DEF pending
<1>6. Honest(pending, a.client \ gone)
  BY <1>1 DEF Honest, pending
<1>7. IsView(b.ui, a.session)
  <2>1. b.ui.gen \in {0, a.session} /\ b.ui.reason \in Reasons
    BY <1>1, <1>4 DEF IsView
  <2> QED
    BY <1>1, <1>4, <1>5, <2>1, SameDrawer
<1>8. Consistent(b)
  BY <1>3, <1>4, <1>6, <1>7 DEF Consistent, AppFields
<1>9. SendsNoRead(a, b)
  BY <1>3 DEF SendsNoRead
<1>10. ASSUME NEW kind \in Kinds, kind \in kinds
       PROVE  Free(b, kind)
  <2>1. \A r \in b.client : r.kind # kind
    BY <1>3, <1>10
  <2>2. b.ui.pending[kind] = None
    BY <1>3, <1>4, <1>6, <2>1 DEF Honest
  <2>3. Taken(b, kind) = {None}
    BY <2>1, <2>2 DEF Taken, Requests
  <2> QED
    BY <2>3, WorkspaceAssumption DEF Free
<1> QED
  BY <1>3, <1>8, <1>9, <1>10 DEF Keeps, b

LEMMA KindsAreThere ==
    /\ Reads \subseteq Kinds
    /\ {"rows", "detail", "schema", "problems", "insights"} \subseteq Reads
    /\ {"ready", "profile", "rebuild"} \subseteq Kinds
    /\ "ready" \notin Reads /\ "profile" \notin Reads /\ "rebuild" \notin Reads
    /\ Panes \subseteq Reads /\ "detail" \notin Panes
  BY WorkspaceAssumption DEF Kinds, Reads

\* Cancelling the reads of a kind and sending another.
LEMMA ResendKeeps ==
    ASSUME NEW a, Consistent(a), NEW kind \in Kinds \ {"detail"}, NEW kinds,
           kind \in kinds, kind \in Reads => Readable(a.refs.reason)
    PROVE  Keeps(a, Send(Cancel(a, kinds), kind, None))
<1> DEFINE b == Cancel(a, kinds)
<1>1. Keeps(a, b) /\ Free(b, kind) /\ b.refs = a.refs
  BY CancelKeeps
<1>2. Consistent(b)
  BY <1>1 DEF Keeps
<1> HIDE DEF b
<1>3. Keeps(b, Send(b, kind, None))
  BY <1>1, <1>2, SendKeeps
<1>4. Keeps(a, Send(b, kind, None))
  BY <1>1, <1>3, KeepsOn
<1> QED
  BY <1>4 DEF b

LEMMA AskRowsKeeps ==
    ASSUME NEW a, Consistent(a), Readable(a.refs.reason)
    PROVE  Keeps(a, AskRows(a))
  BY KindsAreThere, ResendKeeps DEF AskRows

LEMMA RequestRowsKeeps ==
    ASSUME NEW a, Consistent(a)
    PROVE  Keeps(a, RequestRows(a))
  BY AskRowsKeeps, KeepsItself DEF RequestRows

LEMMA RequestPaneKeeps ==
    ASSUME NEW a, Consistent(a), NEW pane \in {"problems", "insights"}
    PROVE  Keeps(a, RequestPane(a, pane))
<1>1. pane \in Kinds \ {"detail"} /\ pane \in {pane}
  BY KindsAreThere
<1>2. CASE Readable(a.refs.reason)
  BY <1>1, <1>2, ResendKeeps DEF RequestPane
<1> QED
  BY <1>2, KeepsItself DEF RequestPane

LEMMA RequestSchemaKeeps ==
    ASSUME NEW a, Consistent(a)
    PROVE  Keeps(a, RequestSchema(a))
<1>1. CASE Readable(a.refs.reason)
  <2> DEFINE b == Send(Cancel(a, {"schema"}), "schema", None)
             c == [b EXCEPT !.refs.failed = FALSE]
  <2>1. Keeps(a, b)
    BY <1>1, KindsAreThere, ResendKeeps
  <2>2. Consistent(b)
    BY <2>1 DEF Keeps
  <2>3. RequestSchema(a) = c
    BY <1>1 DEF RequestSchema
  <2> HIDE DEF b
  <2>4. Keeps(b, c)
    <3>1. /\ c.ui = b.ui /\ c.client = b.client /\ c.session = b.session
          /\ DOMAIN c = AppFields /\ c.refs = [b.refs EXCEPT !.failed = FALSE]
      BY <2>2 DEF Consistent, AppFields
    <3>2. /\ DOMAIN c.refs = RefFields /\ c.refs.reason = b.refs.reason
          /\ c.refs.detail = b.refs.detail
      BY <2>2, <3>1 DEF Consistent, RefFields
    <3>3. b.refs.detail = None \/ IsDetail(b.refs.detail)
      BY <2>2 DEF Consistent
    <3> HIDE DEF c
    <3> QED
      BY <2>2, <3>1, <3>2, <3>3, RefsKeep
  <2> QED
    BY <2>1, <2>3, <2>4, KeepsOn
<1> QED
  BY <1>1, KeepsItself DEF RequestSchema

LEMMA RequestDetailKeeps ==
    ASSUME NEW a, Consistent(a), NEW ref, IsDetail(ref), NEW full \in BOOLEAN
    PROVE  Keeps(a, RequestDetail(a, ref, full))
<1> DEFINE b == Cancel(a, {"detail"})
           u == SelectRow(b.ui, ref.ordinal)
           c == [b EXCEPT !.ui = u]
<1>1. /\ Keeps(a, b) /\ Free(b, "detail") /\ Consistent(b) /\ b.refs = a.refs
  BY CancelKeeps, KindsAreThere DEF Keeps
<1> HIDE DEF b
<1>2. IsView(b.ui, b.session) /\ ref.ordinal \in Nat
  BY <1>1 DEF Consistent, IsDetail
<1>3. IsView(u, b.session) /\ u.pending = b.ui.pending
  BY <1>2, SelectRowKeeps
<1> HIDE DEF u
<1>4. Keeps(b, c) /\ Free(c, "detail") /\ Consistent(c)
  BY <1>1, <1>3, ViewKeeps DEF Keeps
<1>5. c.refs.reason = a.refs.reason
  BY <1>1, <1>4 DEF Keeps, SendsNoRead
<1>6. RequestDetail(a, ref, full) =
        IF Readable(a.refs.reason) THEN Send(c, "detail", Detail(ref, full)) ELSE c
  BY DEF RequestDetail, b, u
<1>7. Detail(ref, full) \in [gen: Nat, ordinal: Nat, full: BOOLEAN]
  BY DEF Detail, IsDetail
<1>8. Keeps(a, c)
  BY <1>1, <1>4, KeepsOn
<1> HIDE DEF c
<1>9. CASE Readable(a.refs.reason)
  <2>1. Keeps(c, Send(c, "detail", Detail(ref, full)))
    BY <1>4, <1>5, <1>7, <1>9, KindsAreThere, SendKeeps
  <2> QED
    BY <1>6, <1>8, <1>9, <2>1, KeepsOn
<1> QED
  BY <1>6, <1>8, <1>9

LEMMA RebuildKeeps ==
    ASSUME NEW a, Consistent(a), Free(a, "rebuild")
    PROVE  Keeps(a, Rebuild(a))
<1> DEFINE b == Cancel(a, Reads)
<1>1. Keeps(a, b) /\ Consistent(b) /\ b.client \subseteq a.client
  BY CancelKeeps DEF Keeps
<1>2. b.ui.pending["rebuild"] \in {a.ui.pending["rebuild"], None}
  <2>1. b.ui = [a.ui EXCEPT !.pending = b.ui.pending]
        /\ b.ui.pending["rebuild"] \in {a.ui.pending["rebuild"], None}
    BY KindsAreThere DEF Cancel, Consistent, IsView, ViewFields
  <2> QED
    BY <2>1
<1> HIDE DEF b
<1>3. Free(b, "rebuild")
  <2>1. Taken(b, "rebuild") \subseteq Taken(a, "rebuild") \cup {None}
    BY <1>1, <1>2 DEF Taken, Requests
  <2> QED
    BY <2>1, WorkspaceAssumption DEF Free
<1>4. Keeps(b, Send(b, "rebuild", None))
  BY <1>1, <1>3, KindsAreThere, SendKeeps
<1>5. Keeps(a, Send(b, "rebuild", None))
  BY <1>1, <1>4, KeepsOn
<1> QED
  BY <1>5 DEF Rebuild, b

LEMMA SetProfileKeeps ==
    ASSUME NEW a, Consistent(a)
    PROVE  Keeps(a, SetProfile(a))
<1>1. Keeps(a, Send(Cancel(a, {"profile"}), "profile", None))
  BY KindsAreThere, ResendKeeps
<1> QED
  BY <1>1, KeepsItself DEF SetProfile
-----------------------------------------------------------------------------
(* onMessage *)

\* What BarrierHolds asks of a step, for one that may raise or lift the barrier.
StaysBehind(a, b) ==
    ~Readable(a.refs.reason) /\ ~Readable(b.refs.reason) =>
        \A r \in b.client \ a.client : r.kind \notin Reads

Obeys(a, b) == Consistent(b) /\ StaysBehind(a, b)

LEMMA KeepsObeys == \A a, b : Keeps(a, b) => Obeys(a, b)
  BY DEF Keeps, Obeys, SendsNoRead, StaysBehind

LEMMA NoneIsNoRequest ==
    ASSUME NEW a, Consistent(a)
    PROVE  /\ None \notin a.client
           /\ \A r \in a.client : r # None
  BY NoneAssumption DEF Consistent

\* An answer that only changes the reducer's state.
LEMMA AnsweredKeeps ==
    ASSUME NEW a, Consistent(a), NEW r, NEW u, IsView(u, a.session),
           Honest(u.pending, a.client \ {r})
    PROVE  /\ Keeps(a, [Answered(a, r) EXCEPT !.ui = u])
           /\ Answered(a, r).ui = a.ui
<1> DEFINE b == [Answered(a, r) EXCEPT !.ui = u]
<1>1. /\ DOMAIN b = AppFields /\ b.ui = u /\ b.refs = a.refs
      /\ b.client = a.client \ {r} /\ b.session = a.session
      /\ Answered(a, r).ui = a.ui
  BY DEF Consistent, AppFields, Answered
<1> HIDE DEF b
<1>2. Keeps(a, b)
  BY <1>1 DEF Keeps, Consistent, SendsNoRead, AppFields
<1> QED
  BY <1>1, <1>2 DEF b

LEMMA OnOpenedObeys ==
    ASSUME NEW a, Consistent(a), NEW gen \in Generations, NEW complete,
           NEW r, r \in a.client \cup {None}
    PROVE  Obeys(a, OnOpened(a, gen, complete, r))
<1> DEFINE changed == a.refs.accepted # gen
           u == Opened(a.ui, gen, complete, r)
           b == [a EXCEPT !.session = gen,
                          !.client = IF a.session # gen THEN {} ELSE @ \ {r},
                          !.refs.accepted = gen,
                          !.refs.reason = IF changed THEN "none" ELSE @,
                          !.refs.failed = ~changed /\ @,
                          !.ui = Opened(@, gen, complete, r)]
<1>1. OnOpened(a, gen, complete, r) = IF changed THEN AskRows(b) ELSE b
  BY DEF OnOpened
<1>2. r # None \/ None \notin a.client
  BY NoneIsNoRequest
<1>3. /\ IsView(u, gen)
      /\ Honest(u.pending, IF a.session # gen THEN {} ELSE a.client \ {r})
  <2>1. IsView(a.ui, a.session) /\ Honest(a.ui.pending, a.client) /\ a.session \in Generations
    BY DEF Consistent
  <2> QED
    BY <1>2, <2>1, OpenedKeeps
<1>4. /\ DOMAIN b = AppFields /\ b.session = gen /\ b.ui = u
      /\ b.client = IF a.session # gen THEN {} ELSE a.client \ {r}
      /\ DOMAIN b.refs = RefFields
      /\ b.refs.reason = IF changed THEN "none" ELSE a.refs.reason
      /\ b.refs.detail = a.refs.detail
  BY DEF Consistent, AppFields, RefFields
<1> HIDE DEF b, u
<1>5. Consistent(b)
  BY <1>3, <1>4 DEF Consistent, AppFields, Reasons
<1>6. CASE changed
  <2>1. Readable(b.refs.reason)
    BY <1>4, <1>6 DEF Readable
  <2>2. Keeps(b, AskRows(b))
    BY <1>5, <2>1, AskRowsKeeps
  <2> QED
    BY <1>1, <1>6, <2>1, <2>2 DEF Keeps, SendsNoRead, Obeys, StaysBehind
<1>7. CASE ~changed
  BY <1>1, <1>4, <1>5, <1>7 DEF Obeys, StaysBehind
<1> QED
  BY <1>6, <1>7

LEMMA AsksAgainKeeps ==
    ASSUME NEW a, NEW b, Keeps(a, b), NEW c \in AsksAgain(b)
    PROVE  Keeps(a, c)
<1>1. Consistent(b)
  BY DEF Keeps
<1>2. Keeps(b, c)
  BY <1>1, KeepsItself, RequestRowsKeeps DEF AsksAgain
<1> QED
  BY <1>2, KeepsOn

LEMMA OnRowsKeeps ==
    ASSUME NEW a, Consistent(a), NEW page \in Pages(a.session), NEW columns,
           NEW r \in a.client, NEW b \in OnRows(a, page, columns, r)
    PROVE  Keeps(a, b)
<1> DEFINE u == Rows(a.ui, page, columns, r)
           c == [Answered(a, r) EXCEPT !.ui = u]
<1>1. /\ IsView(a.ui, a.session) /\ a.session \in Generations
      /\ Honest(a.ui.pending, a.client) /\ r # None
  BY NoneIsNoRequest DEF Consistent
<1>2. IsView(u, a.session) /\ Honest(u.pending, a.client \ {r})
  BY <1>1, RowsKeep
<1> HIDE DEF u
<1>3. Keeps(a, c) /\ Answered(a, r).ui = a.ui
  BY <1>2, AnsweredKeeps
<1>4. b \in AsksAgain(c) \cup {c}
  BY <1>3 DEF OnRows, u
<1> HIDE DEF c
<1> QED
  BY <1>3, <1>4, AsksAgainKeeps

LEMMA OnDetailKeeps ==
    ASSUME NEW a, Consistent(a), NEW ref, IsDetail(ref), NEW full, NEW r \in a.client
    PROVE  Keeps(a, OnDetail(a, ref, full, r))
<1> DEFINE u == Detailed(a.ui, ref, full, r)
<1>1. IsView(a.ui, a.session) /\ Honest(a.ui.pending, a.client) /\ r # None
  BY NoneIsNoRequest DEF Consistent
<1>2. IsView(u, a.session) /\ Honest(u.pending, a.client \ {r})
  BY <1>1, DetailedKeeps
<1> HIDE DEF u
<1>3. Keeps(a, [Answered(a, r) EXCEPT !.ui = u]) /\ Answered(a, r).ui = a.ui
  BY <1>2, AnsweredKeeps
<1> QED
  BY <1>3 DEF OnDetail, u

LEMMA FilledIsAnswered ==
    ASSUME NEW a, Consistent(a), NEW field \in {"schema", "problems", "insights"},
           NEW value, NEW r \in a.client
    PROVE  /\ Keeps(a, [Answered(a, r) EXCEPT !.ui = Filled(a.ui, field, value, r)])
           /\ Answered(a, r).ui = a.ui
<1> DEFINE u == Filled(a.ui, field, value, r)
<1>1. IsView(a.ui, a.session) /\ Honest(a.ui.pending, a.client) /\ r # None
  BY NoneIsNoRequest DEF Consistent
<1>2. IsView(u, a.session) /\ Honest(u.pending, a.client \ {r})
  BY <1>1, FilledKeeps
<1> HIDE DEF u
<1>3. Keeps(a, [Answered(a, r) EXCEPT !.ui = u]) /\ Answered(a, r).ui = a.ui
  BY <1>2, AnsweredKeeps
<1> QED
  BY <1>3 DEF u

LEMMA OnPaneKeeps ==
    ASSUME NEW a, Consistent(a), NEW pane \in Panes, NEW r \in a.client
    PROVE  Keeps(a, OnPane(a, pane, r))
<1>1. pane \in {"schema", "problems", "insights"}
  BY WorkspaceAssumption
<1> QED
  BY <1>1, FilledIsAnswered DEF OnPane

\* An answer that changes the mark of a failed schema as well.
LEMMA MarkKeeps ==
    ASSUME NEW a, Consistent(a), NEW u, NEW r, NEW failed,
           Keeps(a, [Answered(a, r) EXCEPT !.ui = u])
    PROVE  Keeps(a, [Answered(a, r) EXCEPT !.refs.failed = failed, !.ui = u])
<1> DEFINE b == [Answered(a, r) EXCEPT !.ui = u]
           c == [Answered(a, r) EXCEPT !.refs.failed = failed, !.ui = u]
<1>1. Consistent(b) /\ DOMAIN a = AppFields /\ DOMAIN a.refs = RefFields
  BY DEF Keeps, Consistent, AppFields
<1>2. /\ DOMAIN c = AppFields /\ c.ui = b.ui /\ c.client = b.client
      /\ c.session = b.session /\ c.refs = [b.refs EXCEPT !.failed = failed]
      /\ b.refs = a.refs
  BY <1>1 DEF Answered, AppFields
<1>3. /\ DOMAIN c.refs = RefFields /\ c.refs.reason = b.refs.reason
      /\ c.refs.detail = b.refs.detail
  BY <1>1, <1>2 DEF RefFields
<1>4. b.refs.detail = None \/ IsDetail(b.refs.detail)
  BY <1>1 DEF Consistent
<1>5. Keeps(a, b)
  OBVIOUS
<1> HIDE DEF b, c
<1>6. Keeps(b, c)
  BY <1>1, <1>2, <1>3, <1>4, RefsKeep
<1>7. Keeps(a, c)
  BY <1>5, <1>6, KeepsOn
<1> QED
  BY <1>7 DEF c

LEMMA OnSchemaKeeps ==
    ASSUME NEW a, Consistent(a), NEW complete, NEW r \in a.client
    PROVE  Keeps(a, OnSchema(a, complete, r))
<1> DEFINE value == IF complete THEN "complete" ELSE "partial"
           u == Filled(a.ui, "schema", value, r)
<1>1. Keeps(a, [Answered(a, r) EXCEPT !.ui = u]) /\ Answered(a, r).ui = a.ui
  BY FilledIsAnswered
<1>2. Keeps(a, [Answered(a, r) EXCEPT !.refs.failed = FALSE, !.ui = u])
  BY <1>1, MarkKeeps
<1> QED
  BY <1>1, <1>2 DEF OnSchema

LEMMA OnErrorKeeps ==
    ASSUME NEW a, Consistent(a), NEW r \in a.client
    PROVE  Keeps(a, OnError(a, r))
<1> DEFINE u == Failed(a.ui, r)
           failed == a.refs.failed \/ r.kind = "schema"
<1>1. IsView(a.ui, a.session) /\ Honest(a.ui.pending, a.client) /\ r # None
  BY NoneIsNoRequest DEF Consistent
<1>2. IsView(u, a.session) /\ Honest(u.pending, a.client \ {r})
  BY <1>1, FailedKeeps
<1> HIDE DEF u
<1>3. Keeps(a, [Answered(a, r) EXCEPT !.ui = u]) /\ Answered(a, r).ui = a.ui
  BY <1>2, AnsweredKeeps
<1>4. Answered(a, r).refs = a.refs
  BY DEF Answered, Consistent
<1>5. OnError(a, r) = [Answered(a, r) EXCEPT !.refs.failed = failed, !.ui = u]
  BY <1>3, <1>4 DEF OnError, u
<1> HIDE DEF failed
<1>6. Keeps(a, [Answered(a, r) EXCEPT !.refs.failed = failed, !.ui = u])
  BY <1>3, MarkKeeps
<1> QED
  BY <1>5, <1>6

LEMMA OnProgressKeeps ==
    ASSUME NEW a, Consistent(a), NEW complete
    PROVE  Keeps(a, OnProgress(a, complete))
<1> DEFINE u == Progressed(a.ui, a.session, complete)
<1>1. IsView(a.ui, a.session)
  BY DEF Consistent
<1>2. IsView(u, a.session) /\ u.pending = a.ui.pending
  BY <1>1, ProgressedKeeps
<1> HIDE DEF u
<1>3. Keeps(a, [a EXCEPT !.ui = u])
  BY <1>2, ViewKeeps
<1> QED
  BY <1>3 DEF OnProgress, u

LEMMA OnProfileKeeps ==
    ASSUME NEW a, Consistent(a), NEW columns, NEW r, r \in a.client \cup {None},
           NEW b \in OnProfile(a, columns, r)
    PROVE  Keeps(a, b)
<1> DEFINE u == ProfileChanged(a.ui, columns, r)
           c == [Answered(a, r) EXCEPT !.ui = u]
<1>1. /\ IsView(a.ui, a.session) /\ Honest(a.ui.pending, a.client)
      /\ r # None \/ None \notin a.client
  BY NoneIsNoRequest DEF Consistent
<1>2. IsView(u, a.session) /\ Honest(u.pending, a.client \ {r})
  BY <1>1, ProfileChangedKeeps
<1> HIDE DEF u
<1>3. Keeps(a, c) /\ Answered(a, r).ui = a.ui
  BY <1>2, AnsweredKeeps
<1>4. b \in AsksAgain(c) \cup {c}
  BY <1>3 DEF OnProfile, u
<1> HIDE DEF c
<1> QED
  BY <1>3, <1>4, AsksAgainKeeps

LEMMA OnInvalidatedObeys ==
    ASSUME NEW a, Consistent(a), NEW observed \in Reasons
    PROVE  Obeys(a, OnInvalidated(a, observed))
<1> DEFINE reason == NextReason(a.refs.reason, observed)
           u == Invalidated(a.ui, observed)
           b == [a EXCEPT !.refs.reason = reason, !.ui = Invalidated(@, observed)]
           kinds == IF reason = "append" THEN {"profile"} ELSE Reads \cup {"profile"}
<1>1. /\ IsView(a.ui, a.session) /\ Honest(a.ui.pending, a.client)
      /\ a.refs.reason \in Reasons
  BY DEF Consistent
<1>2. IsView(u, a.session) /\ Honest(u.pending, a.client)
  BY <1>1, InvalidatedKeeps
<1>3. reason \in Reasons
  BY <1>1, NextReasonIsReason
<1>4. /\ DOMAIN b = AppFields /\ b.ui = u /\ b.client = a.client
      /\ b.session = a.session /\ DOMAIN b.refs = RefFields
      /\ b.refs.reason = reason /\ b.refs.detail = a.refs.detail
  BY DEF Consistent, AppFields, RefFields
<1>5. OnInvalidated(a, observed) = Cancel(b, kinds)
  BY DEF OnInvalidated
<1> HIDE DEF b, u, reason, kinds
<1>6. Consistent(b)
  BY <1>2, <1>3, <1>4 DEF Consistent, AppFields
<1>7. Keeps(b, Cancel(b, kinds)) /\ Cancel(b, kinds).client \subseteq b.client
  BY <1>6, CancelKeeps
<1> QED
  BY <1>4, <1>5, <1>7 DEF Keeps, Obeys, StaysBehind
-----------------------------------------------------------------------------
(* The effects *)

LEMMA PaneEffectKeeps ==
    ASSUME NEW a, Consistent(a), NEW s, NEW new,
           NEW pane \in {"problems", "insights"}
    PROVE  Keeps(a, PaneEffect(a, s, new, pane))
<1>1. /\ Keeps(a, a) /\ Keeps(a, Cancel(a, {pane}))
      /\ Keeps(a, RequestPane(a, pane))
  BY KeepsItself, CancelKeeps, RequestPaneKeeps
<1>2. \/ PaneEffect(a, s, new, pane) = a
      \/ PaneEffect(a, s, new, pane) = Cancel(a, {pane})
      \/ PaneEffect(a, s, new, pane) = RequestPane(a, pane)
  BY DEF PaneEffect
<1> QED
  BY <1>1, <1>2

\* The keys of the requests that were made without being asked.
LEMMA KeyKeeps ==
    ASSUME NEW a, Consistent(a), NEW key
    PROVE  /\ Keeps(a, [a EXCEPT !.refs.schemaKey = key])
           /\ Keeps(a, [a EXCEPT !.refs.autoKey = key])
<1> DEFINE b == [a EXCEPT !.refs.schemaKey = key]
           c == [a EXCEPT !.refs.autoKey = key]
<1>1. /\ DOMAIN a = AppFields /\ DOMAIN a.refs = RefFields
      /\ a.refs.detail = None \/ IsDetail(a.refs.detail)
  BY DEF Consistent, AppFields
<1>2. /\ b.ui = a.ui /\ b.client = a.client /\ b.session = a.session
      /\ DOMAIN b = AppFields /\ DOMAIN b.refs = RefFields
      /\ b.refs.reason = a.refs.reason /\ b.refs.detail = a.refs.detail
  BY <1>1 DEF AppFields, RefFields
<1>3. /\ c.ui = a.ui /\ c.client = a.client /\ c.session = a.session
      /\ DOMAIN c = AppFields /\ DOMAIN c.refs = RefFields
      /\ c.refs.reason = a.refs.reason /\ c.refs.detail = a.refs.detail
  BY <1>1 DEF AppFields, RefFields
<1> HIDE DEF b, c
<1>4. Keeps(a, b)
  BY <1>1, <1>2, RefsKeep
<1>5. Keeps(a, c)
  BY <1>1, <1>3, RefsKeep
<1> QED
  BY <1>4, <1>5 DEF b, c

LEMMA SchemaEffectKeeps ==
    ASSUME NEW a, Consistent(a), NEW s
    PROVE  Keeps(a, SchemaEffect(a, s))
<1> DEFINE stage == IF s.complete THEN "complete" ELSE IF s.columns THEN "rows" ELSE "open"
           key == <<s.gen, stage>>
           b == [a EXCEPT !.refs.schemaKey = key]
<1>1. SchemaEffect(a, s) \in {a, RequestSchema(b)}
  BY DEF SchemaEffect
<1> HIDE DEF key
<1>2. Keeps(a, b)
  BY KeyKeeps
<1> HIDE DEF b
<1>3. Keeps(b, RequestSchema(b))
  BY <1>2, RequestSchemaKeeps DEF Keeps
<1> QED
  BY <1>1, <1>2, <1>3, KeepsItself, KeepsOn

\* A detail is asked for without being asked to.
LEMMA AutoDetailKeeps ==
    ASSUME NEW a, Consistent(a), NEW key, NEW ref, IsDetail(ref)
    PROVE  Keeps(a, RequestDetail([a EXCEPT !.refs.autoKey = key], ref, TRUE))
<1> DEFINE b == [a EXCEPT !.refs.autoKey = key]
<1>1. Keeps(a, b)
  BY KeyKeeps
<1> HIDE DEF b
<1>2. Keeps(b, RequestDetail(b, ref, TRUE))
  BY <1>1, RequestDetailKeeps DEF Keeps
<1>3. Keeps(a, RequestDetail(b, ref, TRUE))
  BY <1>1, <1>2, KeepsOn
<1> QED
  BY <1>3 DEF b

LEMMA RebuildDetailEffectKeeps ==
    ASSUME NEW a, Consistent(a), NEW s, IsRendered(s), NEW new
    PROVE  Keeps(a, RebuildDetailEffect(a, s, new))
<1> DEFINE ref == Ref(s.gen, s.keepDetail.ordinal)
           key == <<"rebuild", ref>>
<1>1. \/ RebuildDetailEffect(a, s, new) = a
      \/ /\ s.keepDetail # None
         /\ RebuildDetailEffect(a, s, new) =
              RequestDetail([a EXCEPT !.refs.autoKey = key], ref, TRUE)
  BY DEF RebuildDetailEffect
<1>2. s.keepDetail # None => IsDetail(ref)
  BY DEF IsRendered, IsDetail, Ref
<1> HIDE DEF ref, key
<1> QED
  BY <1>1, <1>2, AutoDetailKeeps, KeepsItself

LEMMA FullDetailEffectKeeps ==
    ASSUME NEW a, Consistent(a), NEW s, IsRendered(s), NEW new
    PROVE  Keeps(a, FullDetailEffect(a, s, new))
<1> DEFINE ref == Ref(s.detail.gen, s.detail.ordinal)
           key == <<"full", ref>>
<1>1. \/ FullDetailEffect(a, s, new) = a
      \/ FullDetailEffect(a, s, new) = [a EXCEPT !.refs.autoKey = None]
      \/ /\ s.detail # None
         /\ FullDetailEffect(a, s, new) =
              RequestDetail([a EXCEPT !.refs.autoKey = key], ref, TRUE)
  BY DEF FullDetailEffect
<1>2. s.detail # None => IsDetail(ref)
  BY DEF IsRendered, IsDetail, Ref
<1> HIDE DEF ref, key
<1> QED
  <2>1. Keeps(a, a) /\ Keeps(a, [a EXCEPT !.refs.autoKey = None])
    BY KeyKeeps, KeepsItself
  <2>2. s.detail # None =>
          Keeps(a, RequestDetail([a EXCEPT !.refs.autoKey = key], ref, TRUE))
    BY <1>2, AutoDetailKeeps
  <2> QED
    BY <1>1, <2>1, <2>2
-----------------------------------------------------------------------------
(* Rendering and the user *)

LEMMA FreshIsConsistent ==
    ASSUME NEW tab
    PROVE  /\ Consistent(Fresh(tab))
           /\ Fresh(tab).refs.reason = "none"
           /\ IsRendered(Blank(tab))
<1> DEFINE a == [ui |-> Blank(tab), refs |-> [NoRefs EXCEPT !.tab = tab],
                 client |-> {}, session |-> 1]
<1>1. /\ DOMAIN a = AppFields /\ a.client = {} /\ a.session = 1 /\ a.ui = Blank(tab)
      /\ a.refs = [NoRefs EXCEPT !.tab = tab]
  BY DEF AppFields
<1>2. /\ DOMAIN a.refs = RefFields /\ a.refs.reason = "none" /\ a.refs.detail = None
  BY <1>1 DEF NoRefs, RefFields
<1>3. /\ DOMAIN Blank(tab) = ViewFields /\ Blank(tab).gen = 0
      /\ Blank(tab).reason = "none" /\ Blank(tab).rows = << >>
      /\ Blank(tab).selected = None /\ Blank(tab).detail = None
      /\ Blank(tab).keep = None /\ Blank(tab).keepDetail = None
      /\ Blank(tab).pending = NoPending
  BY DEF Blank, NoView, ViewFields
<1> HIDE DEF a
<1>4. IsView(a.ui, 1) /\ Honest(a.ui.pending, {})
  BY <1>1, <1>3, EmptyPage, NoPendingIsHonest DEF IsView, KeptIsDetailed, Reasons
<1>5. Consistent(a)
  BY <1>1, <1>2, <1>4, GenerationLengths DEF Consistent, AppFields, Reasons
<1>6. Free(a, "ready")
  <2>1. a.ui.pending["ready"] = None
    BY <1>1, <1>3, KindsAreThere DEF NoPending
  <2>2. Taken(a, "ready") = {None}
    BY <1>1, <2>1 DEF Taken, Requests
  <2> QED
    BY <2>2, WorkspaceAssumption DEF Free
<1>7. Keeps(a, Send(a, "ready", None))
  BY <1>5, <1>6, KindsAreThere, SendKeeps
<1>8. Fresh(tab) = Send(a, "ready", None)
  BY DEF Fresh, a
<1>9. IsRendered(Blank(tab))
  BY <1>3 DEF IsRendered
<1> QED
  BY <1>2, <1>7, <1>8, <1>9 DEF Keeps, SendsNoRead

LEMMA RenderKeeps ==
    ASSUME Consistent(app), Render
    PROVE  Keeps(app, app') /\ IsRendered(seen')
<1> DEFINE u == [app.ui EXCEPT !.fresh = {}]
<1>1. DOMAIN app.ui = ViewFields /\ IsView(app.ui, app.session) /\ DOMAIN app = AppFields
  BY DEF Consistent, IsView, AppFields
<1>2. app' = [app EXCEPT !.ui = u]
  BY <1>1 DEF Render, AppFields
<1>3. /\ DOMAIN u = ViewFields /\ u.gen = app.ui.gen /\ u.reason = app.ui.reason
      /\ u.rows = app.ui.rows /\ u.selected = app.ui.selected /\ u.keep = app.ui.keep
      /\ u.keepDetail = app.ui.keepDetail /\ u.detail = app.ui.detail
      /\ u.pending = app.ui.pending
  BY <1>1 DEF ViewFields
<1> HIDE DEF u
<1>4. IsView(u, app.session)
  <2>1. /\ u.gen \in {0, app.session} /\ u.reason \in Reasons
        /\ DOMAIN u.pending = Kinds
    BY <1>1, <1>3 DEF IsView
  <2> QED
    BY <1>1, <1>3, <2>1, SameDrawer
<1>5. Keeps(app, app')
  BY <1>2, <1>3, <1>4, ViewKeeps
<1>6. IsRendered(seen')
  <2>1. /\ seen'.gen = app.ui.gen /\ seen'.rows = app.ui.rows
        /\ seen'.detail = app.ui.detail /\ seen'.keepDetail = app.ui.keepDetail
    BY <1>1 DEF Render, Rendered, ViewFields
  <2>2. app.session \in Generations
    BY DEF Consistent
  <2>3. app.ui.gen \in Nat
    BY <1>1, <2>2, GenerationLengths DEF IsView
  <2>4. \A i \in DOMAIN app.ui.rows : app.ui.rows[i] \in Nat
    BY <1>1, <2>2, PageOrdinals DEF IsView
  <2>5. app.ui.keepDetail # None => app.ui.keepDetail.ordinal \in Nat
    BY <1>1, GenerationLengths DEF IsView, KeptIsDetailed, Refs, Ordinals
  <2>6. app.ui.detail # None => IsDetail(app.ui.detail)
    BY <1>1 DEF IsView, KeptIsDetailed
  <2> QED
    BY <2>1, <2>3, <2>4, <2>5, <2>6 DEF IsRendered
<1> QED
  BY <1>5, <1>6

LEMMA EffectsKeep ==
    ASSUME Consistent(app), IsRendered(seen), Effects
    PROVE  Keeps(app, app')
<1> DEFINE start == [app EXCEPT !.refs.detail = seen.detail, !.refs.tab = seen.tab]
<1>1. Keeps(app, start)
  <2>1. /\ start.ui = app.ui /\ start.client = app.client
        /\ start.session = app.session /\ DOMAIN start = AppFields
        /\ DOMAIN start.refs = RefFields /\ start.refs.reason = app.refs.reason
        /\ start.refs.detail = seen.detail
    BY DEF Consistent, AppFields, RefFields
  <2>2. seen.detail = None \/ IsDetail(seen.detail)
    BY DEF IsRendered
  <2> HIDE DEF start
  <2> QED
    BY <2>1, <2>2, RefsKeep
<1>2. app' = FullDetailEffect(
               RebuildDetailEffect(
                 PaneEffect(SchemaEffect(PaneEffect(start, seen, due, "problems"), seen),
                            seen, due, "insights"),
                 seen, due),
               seen, due)
  BY DEF Effects
<1> HIDE DEF start
<1> DEFINE a == PaneEffect(start, seen, due, "problems")
<1>3. Keeps(start, a)
  BY <1>1, PaneEffectKeeps DEF Keeps
<1> HIDE DEF a
<1> DEFINE b == SchemaEffect(a, seen)
<1>4. Keeps(a, b)
  BY <1>3, SchemaEffectKeeps DEF Keeps
<1> HIDE DEF b
<1> DEFINE c == PaneEffect(b, seen, due, "insights")
<1>5. Keeps(b, c)
  BY <1>4, PaneEffectKeeps DEF Keeps
<1> HIDE DEF c
<1> DEFINE d == RebuildDetailEffect(c, seen, due)
<1>6. Keeps(c, d)
  BY <1>5, RebuildDetailEffectKeeps DEF Keeps
<1> HIDE DEF d
<1>7. Keeps(d, FullDetailEffect(d, seen, due))
  BY <1>6, FullDetailEffectKeeps DEF Keeps
<1>8. Keeps(d, app')
  BY <1>2, <1>7 DEF a, b, c, d
<1> QED
  BY <1>1, <1>3, <1>4, <1>5, <1>6, <1>8, KeepsOn

LEMMA UserObeys ==
    ASSUME Consistent(app), IsRendered(seen), User
    PROVE  Obeys(app, app') /\ IsRendered(seen')
<1>1. CASE ClickRow
  <2>1. PICK i \in DOMAIN seen.rows :
          Acts(RequestDetail(app, Ref(seen.gen, seen.rows[i]), FALSE))
    BY <1>1 DEF ClickRow
  <2>2. IsDetail(Ref(seen.gen, seen.rows[i]))
    BY DEF IsRendered, IsDetail, Ref
  <2>3. Keeps(app, app')
    BY <2>1, <2>2, RequestDetailKeeps DEF Acts
  <2> QED
    BY <2>1, <2>3, KeepsObeys DEF Acts, IsRendered
<1>2. CASE ClickFull
  <2> DEFINE ref == Ref(app.refs.detail.gen, app.refs.detail.ordinal)
             key == <<"full", ref>>
  <2>1. Acts(RequestDetail([app EXCEPT !.refs.autoKey = key], ref, TRUE))
    BY <1>2 DEF ClickFull
  <2>2. IsDetail(ref)
    BY <1>2 DEF ClickFull, Consistent, IsDetail, Ref
  <2> HIDE DEF ref, key
  <2>3. Keeps(app, app')
    BY <2>1, <2>2, AutoDetailKeeps DEF Acts
  <2> QED
    BY <2>1, <2>3, KeepsObeys DEF Acts, IsRendered
<1>3. CASE ClickClose
  <2> DEFINE a == Cancel(app, {"detail"})
             u == CloseDetail(a.ui)
  <2>1. Keeps(app, a) /\ Consistent(a) /\ IsView(a.ui, a.session)
    BY CancelKeeps DEF Keeps, Consistent
  <2>2. Acts([a EXCEPT !.ui = u])
    BY <1>3 DEF ClickClose
  <2> HIDE DEF a
  <2>3. IsView(u, a.session) /\ u.pending = a.ui.pending
    BY <2>1, CloseDetailKeeps
  <2> HIDE DEF u
  <2>4. Keeps(a, [a EXCEPT !.ui = u])
    BY <2>1, <2>3, ViewKeeps
  <2>5. Keeps(app, app')
    BY <2>1, <2>2, <2>4, KeepsOn DEF Acts
  <2> QED
    BY <2>2, <2>5, KeepsObeys DEF Acts, IsRendered
<1>4. CASE ClickTab
  <2>1. PICK tab \in Panes \cup {"table"} : Acts([app EXCEPT !.ui.tab = tab])
    BY <1>4 DEF ClickTab
  <2> DEFINE u == [app.ui EXCEPT !.tab = tab]
  <2>2. DOMAIN app.ui = ViewFields /\ IsView(app.ui, app.session) /\ DOMAIN app = AppFields
    BY DEF Consistent, IsView, AppFields
  <2>3. [app EXCEPT !.ui.tab = tab] = [app EXCEPT !.ui = u]
    BY <2>2 DEF AppFields
  <2>4. /\ DOMAIN u = ViewFields /\ u.gen = app.ui.gen /\ u.reason = app.ui.reason
        /\ u.rows = app.ui.rows /\ u.selected = app.ui.selected /\ u.keep = app.ui.keep
        /\ u.keepDetail = app.ui.keepDetail /\ u.detail = app.ui.detail
        /\ u.pending = app.ui.pending
    BY <2>2 DEF ViewFields
  <2> HIDE DEF u
  <2>5. /\ u.gen \in {0, app.session} /\ u.reason \in Reasons
        /\ DOMAIN u.pending = Kinds
    BY <2>2, <2>4 DEF IsView
  <2>6. IsView(u, app.session)
    BY <2>2, <2>4, <2>5, SameDrawer
  <2>7. Keeps(app, app')
    BY <2>1, <2>3, <2>4, <2>6, ViewKeeps DEF Acts
  <2> QED
    BY <2>1, <2>7, KeepsObeys DEF Acts, IsRendered
<1>5. CASE ClickPage
  <2>1. Keeps(app, app')
    BY <1>5, RequestRowsKeeps DEF ClickPage, Acts
  <2> QED
    BY <1>5, <2>1, KeepsObeys DEF ClickPage, Acts, IsRendered
<1>6. CASE ClickRebuild
  <2>1. Keeps(app, app')
    BY <1>6, RebuildKeeps DEF ClickRebuild, Acts, Free
  <2> QED
    BY <1>6, <2>1, KeepsObeys DEF ClickRebuild, Acts, IsRendered
<1>7. CASE ChooseProfile
  <2>1. Keeps(app, app')
    BY <1>7, SetProfileKeeps DEF ChooseProfile, Acts
  <2> QED
    BY <1>7, <2>1, KeepsObeys DEF ChooseProfile, Acts, IsRendered
<1>8. CASE ClickRetryFields
  <2>1. Keeps(app, app')
    BY <1>8, RequestSchemaKeeps DEF ClickRetryFields, Acts
  <2> QED
    BY <1>8, <2>1, KeepsObeys DEF ClickRetryFields, Acts, IsRendered
<1>9. CASE ClickRefresh
  <2>1. app' = RequestPane(app, "insights") /\ seen' = seen /\ Readable(seen.reason)
    BY <1>9 DEF ClickRefresh, Acts
  <2>2. Keeps(app, app')
    BY <2>1, RequestPaneKeeps
  <2> QED
    BY <2>1, <2>2, KeepsObeys DEF IsRendered
<1>10. CASE Hide
  <2>1. app' = Fresh(app.refs.tab) /\ seen' = Blank(app.refs.tab)
    BY <1>10 DEF Hide
  <2>2. Consistent(app') /\ app'.refs.reason = "none" /\ IsRendered(seen')
    BY <2>1, FreshIsConsistent
  <2> QED
    BY <2>2 DEF Obeys, StaysBehind, Readable
<1> QED
  BY <1>1, <1>2, <1>3, <1>4, <1>5, <1>6, <1>7, <1>8, <1>9, <1>10 DEF User
-----------------------------------------------------------------------------
(* The host *)

LEMMA OpenNewObeys ==
    ASSUME Consistent(app), NEW r, r \in app.client \cup {None}, OpenNew(r)
    PROVE  Obeys(app, app') /\ seen' = seen
<1>1. PICK complete \in {TRUE, host.gen + 1 \notin Slow} :
        app' = IF host.shown THEN OnOpened(app, host.gen + 1, complete, r) ELSE app
  BY DEF OpenNew, Reaction
<1>2. host.gen + 1 \in Generations /\ seen' = seen
  BY DEF OpenNew, Reaction
<1>3. Obeys(app, OnOpened(app, host.gen + 1, complete, r))
  BY <1>2, OnOpenedObeys
<1> QED
  BY <1>1, <1>2, <1>3, KeepsItself, KeepsObeys

LEMMA HostObeys ==
    ASSUME Consistent(app), host.gen \in Generations, Host
    PROVE  Obeys(app, app') /\ seen' = seen
<1>1. CASE AnswerReady
  <2>1. PICK r \in app.client : app' = OnOpened(app, host.gen, host.indexed, r)
    BY <1>1 DEF AnswerReady, Requests, Answer, Reaction
  <2>2. seen' = seen
    BY <1>1 DEF AnswerReady, Answer, Reaction
  <2> QED
    BY <2>1, <2>2, OnOpenedObeys
<1>2. CASE AnswerRebuild
  <2>1. PICK r \in app.client : OpenNew(r)
    BY <1>2 DEF AnswerRebuild, Requests
  <2> QED
    BY <2>1, OpenNewObeys
<1>3. CASE OpenedElsewhere
  BY <1>3, OpenNewObeys DEF OpenedElsewhere
<1>4. CASE OpenedAgain
  <2>1. app' = OnOpened(app, host.gen, host.indexed, None) /\ seen' = seen
    BY <1>4 DEF OpenedAgain, Reaction
  <2> QED
    BY <2>1, OnOpenedObeys
<1>5. CASE IndexingEnds
  <2>1. app' = app \/ app' \in AsksAgain(OnProgress(app, TRUE))
    BY <1>5 DEF IndexingEnds, Reaction
  <2>2. seen' = seen
    BY <1>5 DEF IndexingEnds, Reaction
  <2>3. Keeps(app, OnProgress(app, TRUE)) /\ Keeps(app, app)
    BY OnProgressKeeps, KeepsItself
  <2> QED
    BY <2>1, <2>2, <2>3, AsksAgainKeeps, KeepsObeys
<1>6. CASE AnswerRows
  <2>1. PICK r \in app.client, page \in Pages(host.gen), columns \in Columns :
          Reaches /\ Answer(OnRows(app, page, columns, r))
    BY <1>6 DEF AnswerRows, Requests
  <2>2. /\ page \in Pages(app.session) /\ app' \in OnRows(app, page, columns, r)
        /\ seen' = seen
    BY <2>1 DEF Reaches, Answer, Reaction
  <2>3. Keeps(app, app')
    BY <2>2, OnRowsKeeps
  <2> QED
    BY <2>2, <2>3, KeepsObeys
<1>7. CASE AnswerDetail
  <2>1. PICK r \in app.client :
          /\ r.kind = "detail" /\ seen' = seen
          /\ app' \in {OnError(app, r),
                       OnDetail(app, Ref(r.arg.gen, r.arg.ordinal),
                                r.arg.full \/ r.arg.ordinal \notin Heavy, r)}
    BY <1>7 DEF AnswerDetail, Requests, Answer, Reaction
  <2>2. r.arg.gen \in Nat /\ r.arg.ordinal \in Nat
    BY <2>1, MessagesHaveKinds DEF Consistent
  <2> DEFINE ref == Ref(r.arg.gen, r.arg.ordinal)
             full == r.arg.full \/ r.arg.ordinal \notin Heavy
  <2>3. IsDetail(ref)
    BY <2>2 DEF IsDetail, Ref
  <2>4. app' \in {OnError(app, r), OnDetail(app, ref, full, r)}
    BY <2>1
  <2> HIDE DEF ref, full
  <2>5. Keeps(app, OnError(app, r)) /\ Keeps(app, OnDetail(app, ref, full, r))
    BY <2>3, OnErrorKeeps, OnDetailKeeps
  <2> QED
    BY <2>1, <2>4, <2>5, KeepsObeys
<1>8. CASE AnswerSchema
  <2>1. PICK r \in app.client : app' = OnSchema(app, host.indexed, r) /\ seen' = seen
    BY <1>8 DEF AnswerSchema, Requests, Answer, Reaction
  <2> QED
    BY <2>1, OnSchemaKeeps, KeepsObeys
<1>9. CASE AnswerPane
  <2>1. PICK pane \in Panes, r \in app.client :
          app' = OnPane(app, pane, r) /\ seen' = seen
    BY <1>9 DEF AnswerPane, Requests, Answer, Reaction
  <2> QED
    BY <2>1, OnPaneKeeps, KeepsObeys
<1>10. ASSUME NEW r \in app.client \cup {None}, NEW columns,
              Reaction({OnProgress(a, host.indexed) : a \in OnProfile(app, columns, r)})
       PROVE  Obeys(app, app') /\ seen' = seen
  <2>1. PICK a \in OnProfile(app, columns, r) : app' = OnProgress(a, host.indexed)
    BY <1>10 DEF Reaction
  <2>2. Keeps(app, a)
    BY OnProfileKeeps
  <2>3. Keeps(a, app')
    BY <2>1, <2>2, OnProgressKeeps DEF Keeps
  <2>4. Keeps(app, app')
    BY <2>2, <2>3, KeepsOn
  <2> QED
    BY <1>10, <2>4, KeepsObeys DEF Reaction
<1>11. CASE AnswerProfile
  BY <1>10, <1>11 DEF AnswerProfile, Requests, Answer
<1>12. CASE ProfileElsewhere
  BY <1>10, <1>12 DEF ProfileElsewhere
<1>13. CASE SourceChanges
  <2>1. PICK reason \in Reasons : app' \in {OnInvalidated(app, reason), app}
    BY <1>13 DEF SourceChanges, Reaction
  <2>2. seen' = seen
    BY <1>13 DEF SourceChanges, Reaction
  <2> QED
    BY <2>1, <2>2, OnInvalidatedObeys, KeepsItself, KeepsObeys
<1>14. CASE Fails
  <2>1. PICK r \in app.client : app' = OnError(app, r) /\ seen' = seen
    BY <1>14 DEF Fails, Reaction
  <2> QED
    BY <2>1, OnErrorKeeps, KeepsObeys
<1> QED
  BY <1>1, <1>2, <1>3, <1>4, <1>5, <1>6, <1>7, <1>8, <1>9, <1>11, <1>12, <1>13, <1>14
     DEF Host
-----------------------------------------------------------------------------
(* The specification *)

LEMMA InitialInvariant == Init => IInv
<1> SUFFICES ASSUME Init
             PROVE  IInv
  OBVIOUS
<1>1. Consistent(app) /\ IsRendered(seen)
  BY FreshIsConsistent DEF Init
<1>2. host = [gen |-> 1, indexed |-> 1 \notin Slow, told |-> "none", shown |-> TRUE]
  BY DEF Init
<1>3. DOMAIN host = {"gen", "indexed", "told", "shown"} /\ host.gen \in Generations
  BY <1>2, GenerationLengths
<1>4. used = [acts |-> 0, mishaps |-> 0, failed |-> FALSE]
  BY DEF Init
<1>5. /\ DOMAIN used = {"acts", "mishaps", "failed"}
      /\ used.acts \in 0..MaxActs /\ used.mishaps \in 0..MaxMishaps
  BY <1>4, WorkspaceAssumption
<1> QED
  BY <1>1, <1>3, <1>5 DEF IInv

\* What the environment counts.
LEMMA CountsKeep ==
    ASSUME IInv, [Next]_vars
    PROVE  /\ DOMAIN host' = {"gen", "indexed", "told", "shown"}
           /\ host'.gen \in Generations
           /\ DOMAIN used' = {"acts", "mishaps", "failed"}
           /\ used'.acts \in 0..MaxActs
           /\ used'.mishaps \in 0..MaxMishaps
<1>1. /\ DOMAIN host = {"gen", "indexed", "told", "shown"}
      /\ host.gen \in Generations
      /\ DOMAIN used = {"acts", "mishaps", "failed"}
      /\ used.acts \in 0..MaxActs
      /\ used.mishaps \in 0..MaxMishaps
      /\ MaxActs \in Nat /\ MaxMishaps \in Nat
  BY WorkspaceAssumption DEF IInv
<1>2. \/ UNCHANGED host
      \/ /\ host.gen + 1 \in Generations
         /\ \E complete \in {TRUE, host.gen + 1 \notin Slow} :
              host' = [host EXCEPT !.gen = @ + 1, !.indexed = complete, !.told = "none"]
      \/ host' = [host EXCEPT !.indexed = TRUE]
      \/ \E shown \in BOOLEAN : host' = [host EXCEPT !.shown = shown]
      \/ \E told \in Reasons : host' = [host EXCEPT !.told =
                                 IF Reaches /\ app.ui.gen = host.gen
                                   THEN NextReason(@, told) ELSE @]
  <2>1. CASE Host
    BY <2>1 DEF Host, AnswerReady, AnswerRebuild, OpenedElsewhere, OpenedAgain,
                IndexingEnds, AnswerRows, AnswerDetail, AnswerSchema, AnswerPane,
                AnswerProfile, ProfileElsewhere, SourceChanges, Fails, Answer, OpenNew
  <2>2. CASE User
    BY <2>2 DEF User, ClickRow, ClickFull, ClickClose, ClickTab, ClickPage, ClickRebuild,
                ChooseProfile, ClickRetryFields, ClickRefresh, Hide, Acts
  <2> QED
    BY <2>1, <2>2 DEF Next, Render, Effects, Show, vars
<1>3. DOMAIN host' = {"gen", "indexed", "told", "shown"} /\ host'.gen \in Generations
  BY <1>1, <1>2
<1>4. \/ UNCHANGED used
      \/ used.acts < MaxActs /\ used' = [used EXCEPT !.acts = @ + 1]
      \/ used.mishaps < MaxMishaps /\ used' = [used EXCEPT !.mishaps = @ + 1]
      \/ /\ used.mishaps < MaxMishaps
         /\ used' = [used EXCEPT !.mishaps = @ + 1, !.failed = TRUE]
  <2>1. CASE Host
    BY <2>1 DEF Host, AnswerReady, AnswerRebuild, OpenedElsewhere, OpenedAgain,
                IndexingEnds, AnswerRows, AnswerDetail, AnswerSchema, AnswerPane,
                AnswerProfile, ProfileElsewhere, SourceChanges, Fails, Answer, Mishap
  <2>2. CASE User
    BY <2>2 DEF User, ClickRow, ClickFull, ClickClose, ClickTab, ClickPage, ClickRebuild,
                ChooseProfile, ClickRetryFields, ClickRefresh, Hide, Acts, ActsLeft
  <2> QED
    BY <2>1, <2>2 DEF Next, Render, Effects, Show, vars
<1>5. /\ DOMAIN used' = {"acts", "mishaps", "failed"}
      /\ used'.acts \in 0..MaxActs /\ used'.mishaps \in 0..MaxMishaps
  <2>1. /\ DOMAIN used' = {"acts", "mishaps", "failed"}
        /\ \/ used'.acts = used.acts
           \/ used.acts < MaxActs /\ used'.acts = used.acts + 1
        /\ \/ used'.mishaps = used.mishaps
           \/ used.mishaps < MaxMishaps /\ used'.mishaps = used.mishaps + 1
    BY <1>1, <1>4
  <2> QED
    BY <1>1, <2>1
<1> QED
  BY <1>3, <1>5

LEMMA StepObeys ==
    ASSUME IInv, [Next]_vars
    PROVE  IInv' /\ StaysBehind(app, app')
<1>1. Consistent(app) /\ IsRendered(seen) /\ host.gen \in Generations
  BY DEF IInv
<1>2. CASE Render
  BY <1>1, <1>2, RenderKeeps, KeepsObeys, CountsKeep DEF IInv, Obeys
<1>3. CASE Effects
  <2>1. Keeps(app, app') /\ seen' = seen
    BY <1>1, <1>3, EffectsKeep DEF Effects
  <2> QED
    BY <1>1, <2>1, KeepsObeys, CountsKeep DEF IInv, Obeys, IsRendered
<1>4. CASE User
  BY <1>1, <1>4, UserObeys, CountsKeep DEF IInv, Obeys
<1>5. CASE Host
  <2>1. Obeys(app, app') /\ seen' = seen
    BY <1>1, <1>5, HostObeys
  <2> QED
    BY <1>1, <2>1, CountsKeep DEF IInv, Obeys, IsRendered
<1>6. CASE Show \/ UNCHANGED vars
  <2>1. UNCHANGED <<app, seen>>
    BY <1>6 DEF Show, vars
  <2> QED
    BY <1>1, <2>1, CountsKeep, KeepsItself, KeepsObeys DEF IInv, Obeys, IsRendered
<1> QED
  BY <1>2, <1>3, <1>4, <1>5, <1>6 DEF Next

\* Whatever is clicked, answered, cancelled, refused or changed by others, in
\* any order of messages, renderings and effects, the reducer's state fits the
\* session, its drawer fits its selection and its spinners the requests.
THEOREM Invariance == Spec => []IInv
<1>1. Init => IInv
  BY InitialInvariant
<1>2. IInv /\ [Next]_vars => IInv'
  BY StepObeys
<1> QED
  BY <1>1, <1>2, PTL DEF Spec

\* The state of state.ts, App.tsx and the client has its types: the reducer shows
\* the generation of the client's session or none yet, a drawer is kept over a
\* rebuild only with its record, and every request has an id.
THEOREM TypeCorrect == Spec => []TypeOK
<1> SUFFICES ASSUME IInv
             PROVE  TypeOK
  BY Invariance, PTL
<1>1. /\ app.session \in Generations /\ app.ui.gen \in {0, app.session}
      /\ app.ui.reason \in Reasons /\ app.refs.reason \in Reasons
      /\ app.ui.keep \in Refs \cup {None} /\ app.ui.keepDetail \in {app.ui.keep, None}
  BY DEF IInv, Consistent, IsView, KeptIsDetailed
<1>2. \A r \in app.client : r.id \in Ids /\ r.kind \in Kinds
  BY MessagesHaveKinds DEF IInv, Consistent
<1> QED
  BY <1>1, <1>2 DEF IInv, TypeOK

\* A spinner of the reducer is of a request that the message client still waits
\* for: cancel, an answer, an error and a new generation end both, the one in
\* the client and the other in the reducer.
THEOREM SpinnersHold == Spec => []SpinnersAreHonest
<1>1. IInv => SpinnersAreHonest
  BY DEF IInv, Consistent, Honest, SpinnersAreHonest
<1> QED
  BY <1>1, Invariance, PTL

\* The drawer shows the selected record, over pages, sorts, failures and a
\* rebuild that keeps it: the kept record is the drawer's.
THEOREM DrawerHolds == Spec => []DrawerIsTheSelection
<1>1. IInv => DrawerIsTheSelection
  BY DEF IInv, Consistent, IsView, KeptIsDetailed, DrawerIsTheSelection
<1> QED
  BY <1>1, Invariance, PTL

\* While the source is known to be destroyed or uncertain, no callback and no
\* effect sends a read, however old the rendering that it acts on: each asks the
\* ref that onMessage has set, not the state that was rendered.
THEOREM BarrierIsObeyed == Spec => BarrierHolds
<1>1. IInv /\ [Next]_vars =>
        [~Readable(app.refs.reason) /\ ~Readable(app'.refs.reason) =>
          \A r \in app'.client \ app.client : r.kind \notin Reads]_vars
  BY StepObeys DEF StaysBehind
<1> QED
  BY <1>1, Invariance, PTL DEF Spec, BarrierHolds
=============================================================================
