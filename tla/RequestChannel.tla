--------------------------- MODULE RequestChannel ---------------------------
(***************************************************************************)
(* One panel of a document and the two ends of its message channel: the    *)
(* VsCodeMessageClient of the webview (src/src/webview/protocol-client.ts, *)
(* with the requests App.tsx and RowQueryController make through it), and  *)
(* the DocumentController of the extension host                            *)
(* (src/src/extension/document-controller.ts, with its request registry).  *)
(*                                                                         *)
(* The session replaces its generation by rebuilding.  The controller lets *)
(* only requests for the current generation through and labels an answer   *)
(* with the generation its operation read; the client takes only what      *)
(* belongs to the generation it shows.  The lifecycle epoch grows with the *)
(* generation, so a generation is a number and stands for both.  A hidden  *)
(* panel loses its page, which is loaded again from the first snapshot     *)
(* when the panel is shown.                                                *)
(***************************************************************************)
EXTENDS Naturals, Sequences, FiniteSets, SequencesExt

CONSTANTS
    Ids,             \* bound: request ids in use at once
    Kinds,           \* the kinds of request the panel makes, apart from "ready"
    MaxGenerations,  \* bound: generations adopted in a behaviour
    MayHide,         \* whether the user hides and shows the panel
    MayBroadcast     \* whether the document indexes, classifies and invalidates

\* "rows" and "detail" stand for the five kinds of read.
ReadKinds == {"rows", "detail"}

ASSUME IdsAssumption == Ids \subseteq Nat \ {0} /\ IsFiniteSet(Ids) /\ Ids # {}
ASSUME KindsAssumption ==
    Kinds \subseteq ReadKinds \cup {"profile", "follow", "order", "rebuild"}
ASSUME GenerationsAssumption == MaxGenerations \in Nat \ {0}
ASSUME SwitchesAssumption == MayHide \in BOOLEAN /\ MayBroadcast \in BOOLEAN

VARIABLES
    panel,          \* the webview: its client and what App keeps beside it
    toHost,         \* messages posted by the webview and not yet received
    toPanel,        \* messages posted to the webview and not yet received
    handler,        \* the handleMessage call of each request, while it runs
    registry,       \* the controller's CancellationRegistry and its signals
    latestRebuild,  \* the request that took the last rebuildRequestSequence, while
                    \* it waits for the rebuild (ids are taken again)
    generation,     \* generation of the engine the session has
    rebuild,        \* the session's ordinary rebuild
    summaryDue,     \* summary handleProgress holds across its first broadcast
    classifying,    \* generation classifyRefresh of the reconcile loop reads
    unawaited       \* history: generations that were adopted for the panel alone,
                    \* when it did not wait for them any more

vars == <<panel, toHost, toPanel, handler, registry, latestRebuild,
          generation, rebuild, summaryDue, classifying, unawaited>>

hostVars == <<handler, registry, latestRebuild>>
sessionVars == <<generation, rebuild, summaryDue, classifying, unawaited>>
-----------------------------------------------------------------------------
(* Values *)

None == 0
Generations == 1..MaxGenerations

\* Kinds whose requests have a channel of their own in the registry.
Channels == ReadKinds \cup {"profile", "rebuild"}

NoRequest == [kind |-> "none", gen |-> None]
NoHandler == [at |-> "none", kind |-> "none", of |-> None]

\* Where a handler waits: for the operation, for the delivery of a message
\* it will go on after, or for the delivery of its last message.
Awaits == {"work", "posting", "last"}

AnswerOf(kind) ==
    CASE kind \in ReadKinds -> "DATA"
      [] kind = "profile" -> "PROFILE_CHANGED"
      [] kind = "follow" -> "INDEX_PROGRESS"
      [] kind = "order" -> "ROW_ORDER_CHANGED"

\* The ordinary rebuild: there is none, it waits for the stable rebuild of follow
\* recovery that is in flight, or its candidate is being opened.
Stages == {"none", "queued", "running"}
NoRebuild == [at |-> "none", document |-> FALSE]

\* Why the panel's view is out of date; "lost" stands for truncate, replace
\* and delete.
Reasons == {"append", "unknown", "lost"}

\* A message to the panel: its type and envelope, and the generation its
\* payload was read from.  "kind" tells ROWS from DETAIL and is the reason of
\* SOURCE_INVALIDATED; "from" is who posts.
Message(type, kind, id, label, of, from) ==
    [type |-> type, kind |-> kind, id |-> id, label |-> label, of |-> of,
     from |-> from]

Opened(id, from) == Message("OPENED", "none", id, generation, generation, from)
Error(id, from) == Message("ERROR", "none", id, generation, generation, from)

\* A message is lost when there is no page to receive it.
Post(messages) ==
    toPanel' = IF panel.live THEN toPanel \o messages ELSE toPanel

\* Bound: one message that answers nobody is under way at a time.
Quiet ==
    \A i \in DOMAIN toPanel : toPanel[i].id # None \/ toPanel[i].type = "OPENED"
-----------------------------------------------------------------------------
(* CancellationRegistry *)

\* Mutant of Finish: the channel of a finished request keeps its owner.
FinishKeepsChannel(r, id) == [r EXCEPT !.live = @ \ {id}]

Finish(r, id) ==
    [r EXCEPT !.live = @ \ {id},
              !.owner = [c \in Channels |-> IF @[c] = id THEN None ELSE @[c]]]

Cancel(r, id) ==
    IF id \in r.live
    THEN [Finish(r, id) EXCEPT !.aborted = @ \cup {id}]
    ELSE r

CancelAll(r) ==
    [live |-> {}, owner |-> [c \in Channels |-> None],
     aborted |-> r.aborted \cup r.live]

StartLatest(r, channel, id) ==
    Cancel([r EXCEPT !.live = @ \cup {id}, !.owner[channel] = id],
           r.owner[channel])

\* The finally clause: the request leaves the registry, its signal is dropped.
Settle(r, id) == [Finish(r, id) EXCEPT !.aborted = @ \ {id}]
-----------------------------------------------------------------------------
(* The webview *)

\* A request id is a UUID; here it is one that nothing refers to any more.
Fresh ==
    {id \in Ids :
        /\ panel.pending[id] = NoRequest
        /\ handler[id] = NoHandler
        /\ \A i \in DOMAIN toHost : toHost[i].id # id
        /\ \A i \in DOMAIN toPanel : toPanel[i].id # id}

\* client.cancel of some kinds and then client.send of others, over the panel
\* p.  Bound: requests for which no id is fresh are not made.
Transmit(p, cancelled, sent) ==
    LET ids == SetToSeq(Fresh)
        count == IF Len(sent) < Len(ids) THEN Len(sent) ELSE Len(ids)
        kindOf(id) == sent[CHOOSE k \in 1..count : ids[k] = id]
        gone == {id \in Ids : p.pending[id].kind \in cancelled}
        withdrawn == SetToSeq(gone)
        new == {ids[k] : k \in 1..count}
    IN
    /\ panel' = [p EXCEPT !.pending =
           [id \in Ids |->
               IF id \in new THEN [kind |-> kindOf(id), gen |-> p.view]
               ELSE IF id \in gone THEN NoRequest ELSE @[id]]]
    /\ toHost' = toHost
           \o [k \in 1..Cardinality(gone) |->
                  [type |-> "CANCEL", id |-> withdrawn[k], gen |-> p.view]]
           \o [k \in 1..count |->
                  [type |-> sent[k], id |-> ids[k], gen |-> p.view]]

\* canReadSnapshot
CanRead(p) == p.reason \in {"none", "append"}

\* nextInvalidationReason
NextReason(current, observed) ==
    IF observed = "append" /\ current = "lost" THEN current ELSE observed

HasPending(kind) == \E id \in Ids : panel.pending[id].kind = kind

\* A new request of these kinds takes the place of the pending one.
CancelledBefore(kind) ==
    CASE kind = "rebuild" -> ReadKinds
      [] kind = "order" -> {}
      [] OTHER -> {kind}

\* The user's requests.  Reads are refused behind the invalidation barrier;
\* profile, follow and order while the view is out of date for any reason;
\* rebuild buttons are disabled while a rebuild is pending.  Turning follow
\* mode on asks for the last rows too.
SendRequest(kind) ==
    /\ panel.live
    /\ panel.accepted # None
    /\ Fresh # {}
    /\ kind = "rebuild" => ~HasPending("rebuild")
    /\ kind \in ReadKinds => CanRead(panel)
    /\ kind \in {"profile", "follow", "order"} => panel.reason = "none"
    /\ kind = "order" => ~HasPending("rebuild") /\ ~HasPending("order")
    /\ \/ Transmit(panel, CancelledBefore(kind), <<kind>>)
       \/ /\ kind = "follow"
          /\ "rows" \in Kinds
          /\ Transmit(panel, {"follow", "rows"}, <<"follow", "rows">>)
    /\ UNCHANGED <<toPanel, hostVars, sessionVars>>

\* shouldAcceptMessage
Accepts(m) ==
    LET pending == m.id # None /\ panel.pending[m.id] # NoRequest
        request == panel.pending[m.id]
        current == pending /\ request.gen = panel.view
    IN
    IF m.type = "OPENED"
    THEN /\ m.label \notin panel.retired
         /\ m.label >= panel.view
         /\ m.id # None => pending /\ request.kind \in {"ready", "rebuild"}
    ELSE /\ m.label = panel.view
         /\ CASE m.type = "ERROR" -> m.id = None \/ current
              [] m.type = "DATA" -> current /\ request.kind = m.kind
              [] m.type = "PROFILE_CHANGED" ->
                   m.id = None \/ (current /\ request.kind = "profile")
              [] m.type = "ROW_ORDER_CHANGED" ->
                   current /\ request.kind = "order"
              [] m.type = "INDEX_PROGRESS" ->
                   m.id = None \/ (current /\ request.kind \in {"follow", "rebuild"})
              [] m.type = "SOURCE_INVALIDATED" -> m.id = None

SetSession(p, g) ==
    IF g = p.view THEN p
    ELSE [p EXCEPT !.view = g,
                   !.retired = @ \cup {p.view},
                   !.pending = [id \in Ids |-> NoRequest]]

Completed(p, id) ==
    [p EXCEPT !.pending = [i \in Ids |-> IF i = id THEN NoRequest ELSE @[i]]]

\* The rows request that App and the query controller make after a message.
RefreshRows(p) ==
    IF "rows" \in Kinds /\ CanRead(p)
    THEN Transmit(p, {"rows"}, <<"rows">>)
    ELSE Transmit(p, {}, <<>>)

\* A generation that is new to App lifts the barrier and is read at once;
\* follow mode, which is not kept here, is asked for again when it was on.
TakeOpened(m) ==
    LET p == Completed(SetSession(panel, m.label), m.id)
        changed == panel.accepted # m.label
        next == [p EXCEPT !.accepted = m.label,
                          !.reason = IF changed THEN "none" ELSE @]
    IN
    IF ~changed \/ "rows" \notin Kinds
    THEN Transmit(next, {}, <<>>)
    ELSE \/ RefreshRows(next)
         \/ /\ "follow" \in Kinds
            /\ Transmit(next, {"rows"}, <<"rows", "follow">>)

\* A profile or progress message is followed by a rows request or not,
\* depending on the sort and the viewport to restore, which are not kept.
TakeOther(m) ==
    LET p == Completed(panel, m.id) IN
    CASE m.type \in {"DATA", "ERROR"} -> Transmit(p, {}, <<>>)
      [] m.type = "ROW_ORDER_CHANGED" -> RefreshRows(p)
      [] m.type = "PROFILE_CHANGED" ->
           Transmit(p, {}, <<>>) \/ (p.reason = "none" /\ RefreshRows(p))
      [] m.type = "INDEX_PROGRESS" -> Transmit(p, {}, <<>>) \/ RefreshRows(p)
      [] m.type = "SOURCE_INVALIDATED" ->
           LET next == [p EXCEPT !.reason = NextReason(@, m.kind)] IN
           Transmit(next,
                    {"profile", "follow"}
                        \cup (IF CanRead(next) THEN {} ELSE ReadKinds),
                    <<>>)

\* client.accept, the reducer and the follow-up of the query controller.
Deliver ==
    /\ panel.live
    /\ toPanel # <<>>
    /\ LET m == Head(toPanel) IN
       IF ~Accepts(m)
       THEN UNCHANGED <<panel, toHost>>
       ELSE IF m.type = "OPENED" THEN TakeOpened(m) ELSE TakeOther(m)
    /\ toPanel' = Tail(toPanel)
    /\ UNCHANGED <<hostVars, sessionVars>>

\* bodySession: the page always starts from the snapshot the panel was
\* resolved with, and the client sends READY once.
Page ==
    [live |-> TRUE, view |-> 1, retired |-> {}, accepted |-> None,
     reason |-> "none", pending |-> [id \in Ids |-> NoRequest]]

Hide ==
    /\ MayHide
    /\ panel.live
    /\ panel' = [Page EXCEPT !.live = FALSE]
    /\ toPanel' = <<>>
    /\ registry' = CancelAll(registry)
    /\ UNCHANGED <<toHost, handler, latestRebuild, sessionVars>>

Show ==
    /\ ~panel.live
    /\ Fresh # {}
    /\ Transmit(Page, {}, <<"ready">>)
    /\ UNCHANGED <<toPanel, hostVars, sessionVars>>
-----------------------------------------------------------------------------
(* DocumentController.handleMessage *)

Received == Head(toHost)

ReceiveNext == toHost # <<>> /\ toHost' = Tail(toHost)

\* CANCEL is handled before the generation is looked at.
HandleCancel ==
    /\ ReceiveNext
    /\ Received.type = "CANCEL"
    /\ registry' = Cancel(registry, Received.id)
    /\ UNCHANGED <<panel, toPanel, handler, latestRebuild, sessionVars>>

\* STALE_GENERATION: the error carries the generation the session has now.
HandleStale ==
    /\ ReceiveNext
    /\ Received.type \notin {"CANCEL", "ready"}
    /\ Received.gen # generation
    /\ Post(<<Error(Received.id, "controller")>>)
    /\ UNCHANGED <<panel, hostVars, sessionVars>>

HandleReady ==
    /\ ReceiveNext
    /\ Received.type = "ready"
    /\ Post(<<Opened(Received.id, "controller")>>)
    /\ UNCHANGED <<panel, hostVars, sessionVars>>

Started(id, kind) ==
    /\ handler' = [handler EXCEPT ![id] =
                      [at |-> "work", kind |-> kind, of |-> generation]]
    /\ registry' = IF kind \in Channels
                   THEN StartLatest(registry, kind, id)
                   ELSE registry

HandleRequest ==
    /\ ReceiveNext
    /\ Received.type \notin {"CANCEL", "ready", "rebuild"}
    /\ Received.gen = generation
    /\ Started(Received.id, Received.type)
    /\ UNCHANGED <<panel, toPanel, latestRebuild, sessionVars>>

\* startRebuild shares the ordinary rebuild there is, or starts one: behind the
\* stable rebuild, if one is in flight.
Rebuilding(document) ==
    \E at \in IF rebuild.at = "none" THEN {"queued", "running"} ELSE {rebuild.at} :
        rebuild' = [at |-> at, document |-> rebuild.document \/ document]

\* REBUILD_INDEX
HandleRebuild ==
    /\ ReceiveNext
    /\ Received.type = "rebuild"
    /\ Received.gen = generation
    /\ Started(Received.id, "rebuild")
    /\ latestRebuild' = Received.id
    /\ Rebuilding(FALSE)
    /\ UNCHANGED <<panel, toPanel, generation, summaryDue, classifying, unawaited>>

Leave(id) ==
    /\ handler' = [handler EXCEPT ![id] = NoHandler]
    /\ registry' = Settle(registry, id)

Await(id, at) ==
    /\ handler' = [handler EXCEPT ![id].at = at]
    /\ UNCHANGED registry

Working(id) == handler[id].at = "work" /\ handler[id].kind # "rebuild"

\* postIfCurrent: nothing is posted when another generation was adopted.
HandlerAnswers(id) ==
    LET h == handler[id] IN
    /\ Working(id)
    /\ IF h.of = generation
       THEN /\ Post(<<Message(AnswerOf(h.kind), h.kind, id, h.of, h.of,
                              "controller")>>)
            /\ Await(id, IF h.kind = "profile" THEN "posting" ELSE "last")
       ELSE Leave(id) /\ UNCHANGED toPanel
    /\ UNCHANGED <<panel, toHost, latestRebuild, sessionVars>>

\* Mutant of HandlerFails: whoever has a signal is told nothing.
HandlerFailsSilently(id) ==
    /\ Working(id)
    /\ IF id \in registry.aborted \cup registry.live
       THEN Leave(id) /\ UNCHANGED toPanel
       ELSE Post(<<Error(id, "controller")>>) /\ Await(id, "last")
    /\ UNCHANGED <<panel, toHost, latestRebuild, sessionVars>>

\* The catch clause: the caller of an aborted operation is told nothing.
HandlerFails(id) ==
    /\ Working(id)
    /\ IF id \in registry.aborted
       THEN Leave(id) /\ UNCHANGED toPanel
       ELSE Post(<<Error(id, "controller")>>) /\ Await(id, "last")
    /\ UNCHANGED <<panel, toHost, latestRebuild, sessionVars>>

\* Mutant of ProfileSummaryFollows: post instead of postIfCurrent.
ProfileSummaryFollowsRelabelled(id) ==
    /\ handler[id].at = "posting"
    /\ Post(<<Message("INDEX_PROGRESS", "none", None, generation,
                      handler[id].of, "controller")>>)
    /\ Await(id, "last")
    /\ UNCHANGED <<panel, toHost, latestRebuild, sessionVars>>

\* SET_PROFILE: the summary that follows PROFILE_CHANGED is unsolicited.
ProfileSummaryFollows(id) ==
    LET h == handler[id] IN
    /\ h.at = "posting"
    /\ IF h.of = generation
       THEN /\ Post(<<Message("INDEX_PROGRESS", "none", None, h.of, h.of,
                              "controller")>>)
            /\ Await(id, "last")
       ELSE Leave(id) /\ UNCHANGED toPanel
    /\ UNCHANGED <<panel, toHost, latestRebuild, sessionVars>>

HandlerEnds(id) ==
    /\ handler[id].at = "last"
    /\ Leave(id)
    /\ UNCHANGED <<panel, toHost, toPanel, latestRebuild, sessionVars>>
-----------------------------------------------------------------------------
(* The session's rebuilds, and the handlers that wait for them *)

RebuildHandlers ==
    {id \in Ids : handler[id].at = "work" /\ handler[id].kind = "rebuild"}

\* waitForOperation rejects as soon as the caller's signal is aborted.
RebuildCallerLeaves(id) ==
    /\ id \in RebuildHandlers
    /\ id \in registry.aborted
    /\ Leave(id)
    /\ latestRebuild' = IF latestRebuild = id THEN None ELSE latestRebuild
    /\ UNCHANGED <<panel, toHost, toPanel, sessionVars>>

\* canPublishRebuild
Publishers ==
    {id \in RebuildHandlers : id \notin registry.aborted /\ id = latestRebuild}

\* Callers go on when the rebuild has ended: those who post wait for the
\* delivery, the others leave.
CallersResume(posting) ==
    LET leaving == RebuildHandlers \ posting IN
    /\ handler' = [id \in Ids |->
           IF id \in posting THEN [handler[id] EXCEPT !.at = "last"]
           ELSE IF id \in leaving THEN NoHandler ELSE handler[id]]
    /\ registry' =
           [live |-> registry.live \ leaving,
            owner |-> [c \in Channels |->
                IF registry.owner[c] \in leaving THEN None ELSE registry.owner[c]],
            aborted |-> registry.aborted \ leaving]
    /\ latestRebuild' = None

\* The document's own callers of rebuild: the command and the reconcile loop.
DocumentRebuilds ==
    /\ generation < MaxGenerations
    /\ Rebuilding(TRUE)
    /\ UNCHANGED <<panel, toHost, toPanel, hostVars, generation, summaryDue,
                   classifying, unawaited>>

Callers == {id \in RebuildHandlers : id \notin registry.aborted}

\* The requests for the rebuild that the panel still waits with: the others were
\* made by a page that is gone, or before it was told of another generation.
Awaited == {id \in Callers : panel.pending[id] = [kind |-> "rebuild", gen |-> generation]}

\* Adoption and the OPENED of every caller, in the turn that resolves them.
RebuildAdopts ==
    /\ rebuild.at = "running"
    /\ generation < MaxGenerations
    /\ generation' = generation + 1
    /\ rebuild' = NoRebuild
    /\ unawaited' = IF Awaited = {} /\ ~rebuild.document
                    THEN unawaited \cup {generation'} ELSE unawaited
    /\ \E posts \in SetToSeqs(
              {Message("OPENED", "none", id, generation', generation', "controller")
                  : id \in Publishers}
              \cup (IF rebuild.document
                    THEN {Message("OPENED", "none", None, generation',
                                  generation', "document")}
                    ELSE {})) :
          Post(posts)
    /\ CallersResume(Publishers)
    /\ UNCHANGED <<panel, toHost, summaryDue, classifying>>

\* The candidate could not be opened.  The reconcile loop broadcasts an error
\* of its own; the command shows one outside the panel.
RebuildRejects ==
    /\ rebuild.at = "running"
    /\ rebuild' = NoRebuild
    /\ \E reconcile \in {FALSE, rebuild.document /\ Quiet} :
       \E posts \in SetToSeqs({Error(id, "controller") : id \in Callers}
              \cup (IF reconcile THEN {Error(None, "document")} ELSE {})) :
          Post(posts)
    /\ CallersResume(Callers)
    /\ UNCHANGED <<panel, toHost, generation, summaryDue, classifying, unawaited>>

\* The stable rebuild in flight, if any, has ended: those who wait behind it and
\* were not aborted meanwhile start the ordinary rebuild.
QueueMovesOn ==
    rebuild' = CASE rebuild.at # "queued" -> rebuild
                 [] rebuild.at = "queued" /\ (Callers # {} \/ rebuild.document) ->
                      [rebuild EXCEPT !.at = "running"]
                 [] OTHER -> NoRebuild

\* Mutant of RecoveryAdopts: the recovered generation is not published.
RecoveryAdoptsUnpublished ==
    /\ rebuild.at # "running"
    /\ generation < MaxGenerations
    /\ generation' = generation + 1
    /\ QueueMovesOn
    /\ UNCHANGED <<panel, toHost, toPanel, hostVars, summaryDue, classifying,
                   unawaited>>

\* Follow recovery adopts a candidate and publishes it.  It never does while an
\* ordinary candidate is opened; but one can be waiting behind it, since a run
\* that was forgotten is not aborted by resetRecovery (FollowRecovery).
RecoveryAdopts ==
    /\ rebuild.at # "running"
    /\ generation < MaxGenerations
    /\ generation' = generation + 1
    /\ Post(<<Message("OPENED", "none", None, generation', generation',
                      "document")>>)
    /\ QueueMovesOn
    /\ UNCHANGED <<panel, toHost, hostVars, summaryDue, classifying, unawaited>>

\* The candidate of follow recovery is not adopted.
RecoveryGivesUp ==
    /\ rebuild.at = "queued"
    /\ QueueMovesOn
    /\ UNCHANGED <<panel, toHost, toPanel, hostVars, generation, summaryDue,
                   classifying, unawaited>>
-----------------------------------------------------------------------------
(* Broadcasts of the document that are not answers *)

Broadcast(type, kind, of) ==
    Post(<<Message(type, kind, None, generation, of, "document")>>)

\* handleProgress, up to the delivery of PROFILE_CHANGED if there is one.
IndexingProgresses(profileChanged) ==
    /\ MayBroadcast
    /\ IF profileChanged
       THEN /\ summaryDue = None
            /\ Quiet
            /\ Broadcast("PROFILE_CHANGED", "none", generation)
            /\ summaryDue' = generation
       ELSE /\ Quiet
            /\ Broadcast("INDEX_PROGRESS", "none", generation)
            /\ UNCHANGED summaryDue
    /\ UNCHANGED <<panel, toHost, hostVars, generation, rebuild, classifying, unawaited>>

\* handleProgress goes on: broadcast labels the summary it was called with.
SummaryFollows ==
    /\ summaryDue # None
    /\ Broadcast("INDEX_PROGRESS", "none", summaryDue)
    /\ summaryDue' = None
    /\ UNCHANGED <<panel, toHost, hostVars, generation, rebuild, classifying, unawaited>>

ClassificationStarts ==
    /\ MayBroadcast
    /\ classifying = None
    /\ classifying' = generation
    /\ UNCHANGED <<panel, toHost, toPanel, hostVars, generation, rebuild,
                   summaryDue, unawaited>>

\* An unchanged source is not announced to the panel, nor one that follow mode
\* recovers (FollowRecovery) or rebuilds (DocumentRebuilds).
ClassificationEnds(reason) ==
    /\ classifying # None
    /\ classifying' = None
    /\ IF reason \in Reasons
       THEN Quiet /\ Broadcast("SOURCE_INVALIDATED", reason, classifying)
       ELSE UNCHANGED toPanel
    /\ UNCHANGED <<panel, toHost, hostVars, generation, rebuild, summaryDue, unawaited>>
-----------------------------------------------------------------------------
Init ==
    LET first == CHOOSE id \in Ids : TRUE IN
    /\ panel = [Page EXCEPT !.pending[first] = [kind |-> "ready", gen |-> 1]]
    /\ toHost = <<[type |-> "ready", id |-> first, gen |-> 1]>>
    /\ toPanel = <<>>
    /\ handler = [id \in Ids |-> NoHandler]
    /\ registry = [live |-> {}, owner |-> [c \in Channels |-> None],
                   aborted |-> {}]
    /\ latestRebuild = None
    /\ generation = 1
    /\ rebuild = NoRebuild
    /\ summaryDue = None
    /\ classifying = None
    /\ unawaited = {}

HostReceives ==
    HandleCancel \/ HandleStale \/ HandleReady \/ HandleRequest \/ HandleRebuild

HandlerRuns(id) ==
    \/ HandlerAnswers(id)
    \/ HandlerFails(id)
    \/ ProfileSummaryFollows(id)
    \/ HandlerEnds(id)
    \/ RebuildCallerLeaves(id)

RebuildEnds == RebuildAdopts \/ RebuildRejects \/ RecoveryGivesUp

Next ==
    \/ \E kind \in Kinds : SendRequest(kind)
    \/ Deliver
    \/ Hide
    \/ Show
    \/ HostReceives
    \/ \E id \in Ids : HandlerRuns(id)
    \/ RebuildEnds
    \/ DocumentRebuilds
    \/ RecoveryAdopts
    \/ \E profileChanged \in BOOLEAN : IndexingProgresses(profileChanged)
    \/ SummaryFollows
    \/ ClassificationStarts
    \/ \E reason \in Reasons \cup {"none"} : ClassificationEnds(reason)

\* Messages are received in order, an operation of the engine ends, with an
\* answer or an error, and so does a rebuild.  The user and the writer owe
\* nothing.
Fairness ==
    /\ WF_vars(Deliver)
    /\ WF_vars(HostReceives)
    /\ \A id \in Ids : WF_vars(HandlerRuns(id))
    /\ WF_vars(RebuildEnds)

Spec == Init /\ [][Next]_vars /\ Fairness
-----------------------------------------------------------------------------
(* Properties *)

Requests == [kind: Kinds \cup {"ready"}, gen: Generations]
Panels ==
    [live: BOOLEAN, view: Generations, retired: SUBSET Generations,
     accepted: Generations \cup {None}, reason: Reasons \cup {"none"},
     pending: [Ids -> {NoRequest} \cup Requests]]
HostMessages ==
    [type: Kinds \cup {"ready", "CANCEL"}, id: Ids, gen: Generations]
PanelMessages ==
    [type: {"OPENED", "ERROR", "DATA", "PROFILE_CHANGED", "INDEX_PROGRESS",
            "ROW_ORDER_CHANGED", "SOURCE_INVALIDATED"},
     kind: Kinds \cup Reasons \cup {"none"}, id: Ids \cup {None},
     label: Generations, of: Generations, from: {"controller", "document"}]
Handlers ==
    [Ids -> {NoHandler} \cup [at: Awaits, kind: Kinds, of: Generations]]
Registries ==
    [live: SUBSET Ids, owner: [Channels -> Ids \cup {None}],
     aborted: SUBSET Ids]

TypeOK ==
    /\ panel \in Panels
    /\ panel.view \notin panel.retired
    /\ toHost \in Seq(HostMessages)
    /\ toPanel \in Seq(PanelMessages)
    /\ handler \in Handlers
    /\ registry \in Registries
    /\ latestRebuild \in Ids \cup {None}
    /\ generation \in Generations
    /\ rebuild \in [at: Stages, document: BOOLEAN]
    /\ summaryDue \in Generations \cup {None}
    /\ classifying \in Generations \cup {None}
    /\ unawaited \subseteq Generations

\* "The registry never retains completed requests", and a channel has one
\* owner: exactly the running requests that were not aborted are registered,
\* at most one in a channel, and the channel's entry is that one.  It holds
\* across cancellations that arrive late, supersede, or cancel everything.
RegistryTracksWork ==
    /\ registry.live =
           {id \in Ids : /\ handler[id].kind \in Channels
                         /\ id \notin registry.aborted}
    /\ registry.aborted \subseteq {id \in Ids : handler[id] # NoHandler}
    /\ \A c \in Channels :
           {id \in registry.live : handler[id].kind = c}
               = {registry.owner[c]} \ {None}

\* A pending request was made for the generation the panel shows, so an answer
\* to it cannot be taken for one about another generation.
PendingIsForTheView ==
    \A id \in Ids :
        panel.pending[id] # NoRequest => panel.pending[id].gen = panel.view

\* What the panel takes from its controller was read from the generation the
\* panel shows, whichever rebuild was adopted between request and answer.
AnswersAreReadFromTheView ==
    [][(/\ toPanel # <<>>
        /\ panel'.live
        /\ toPanel' = Tail(toPanel)
        /\ Accepts(Head(toPanel))
        /\ Head(toPanel).from = "controller")
         => Head(toPanel).of = panel'.view]_vars

\* No answer is taken for one about another generation: neither one that was read
\* before an adoption (document-controller.ts:279-292), nor one to a request that
\* was made before OPENED (protocol-client.ts:189-200).
AnswersAreOfTheView == []PendingIsForTheView /\ AnswersAreReadFromTheView

\* Every request is answered, refused or withdrawn, unless the session has
\* gone on to a generation that the panel was not told of.
EveryRequestEnds ==
    \A id \in Ids :
        panel.pending[id] # NoRequest
            ~> panel.pending[id] = NoRequest \/ panel.view # generation

\* A panel is told of every generation: it shows the session's, sooner or later.
\* Not so, if it is hidden while its rebuild runs, or if follow recovery adopts a
\* generation that its rebuild has waited for.
PanelCatchesUp ==
    panel.live /\ panel.view # generation
        ~> ~panel.live \/ panel.view = generation

\* A panel shows the session's generation sooner or later, unless that was rebuilt
\* for the panel alone (no command, no reconcile loop, no recovery) and the panel,
\* hidden or told of another generation meanwhile, did not wait for it any more.
\* So every other adoption reaches it, whoever else shared the rebuild, cancelled,
\* was superseded by a later request, or had its answer overtaken.
AwaitedIsShown ==
    panel.live /\ panel.view # generation
        ~> ~panel.live \/ panel.view = generation \/ generation \in unawaited
=============================================================================
