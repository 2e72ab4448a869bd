-------------------------- MODULE SessionNavigator --------------------------
(***************************************************************************)
(* The session navigator (tree-provider.ts): the settings that authorize   *)
(* sources, the single refresh and the passes it repeats, Load More, the   *)
(* background hints, the removal and authorization of a source, and the    *)
(* reveal of a session.  They share the catalog, the status of each source *)
(* and a few flags, and each awaits the provider in the middle.            *)
(*                                                                         *)
(* A step ends at an await.  The answer of a scan is two steps, since the  *)
(* provider takes its fingerprint before it reads what the page lists.     *)
(* The user acts on what the catalog holds (the tree is drawn from it      *)
(* after every change); the catalog outlives the window.                   *)
(***************************************************************************)
EXTENDS SessionCatalog

CONSTANTS
    Sources,        \* 1..n, in the order of mergeSourceSettings
    Provider,       \* Provider[s]: "codex", "claude", "pi" or "generic"
    Defaults,       \* the sources that are detected, without being configured
    Configured,     \* the others that may be configured to begin with
    Loads,          \* Load More commands that may be in flight together
    MaxActs,        \* what the user does, and the ticks of the hint timer
    MaxTransient,   \* MAX_TRANSIENT_EMPTY_SCANS
    MaxInitialPages \* MAX_INITIAL_CLAUDE_PAGES

ASSUME SourcesAssumption ==
    /\ Sources \subseteq Nat \ {0}
    /\ Provider \in [Sources -> {"codex", "claude", "pi", "generic"}]
    /\ Defaults \subseteq Sources /\ Configured \subseteq Sources \ Defaults
ASSUME BoundsAssumption ==
    /\ MaxActs \in Nat /\ MaxTransient \in Nat /\ MaxInitialPages \in Nat \ {0}

VARIABLES
    version,    \* version[s]: what the provider would read now
    settings,   \* [enabled, configured, excluded]: configuration and globalState
    store,      \* "none", "opening", "open" or "closed"
    catalog,    \* the rows of the database, one for each source that has one
    view,       \* [visible, initialized, again, disposed]
    refresh,    \* the refresh in flight
    status,     \* #sourceStatus
    transient,  \* #transientEmptyScans
    loads,      \* Load More
    hint,       \* probeVisibleSources
    command,    \* removeSource or authorizeSourceSetting
    reveal,     \* reveal
    acts,
    past        \* history, [pages, dropped]: how the pages of a row were read, and
                \* whether the row of the reveal has been dropped meanwhile

vars == <<version, settings, store, catalog, view, refresh, status, transient,
          loads, hint, command, reveal, acts, past>>

-----------------------------------------------------------------------------
(* Records.                                                                *)

NoSource == 0

\* `at` is the fingerprint that was cached or read, `cursor` the continuation
\* that is being read, `pages` the pages read of this source.
NoRefresh ==
    [pc |-> "idle", todo |-> {}, aborted |-> FALSE, at |-> 0, cursor |-> NoCursor,
     pages |-> 0]
NoLoad == [pc |-> "idle", source |-> NoSource, at |-> 0, cursor |-> NoCursor]
NoHint == [todo |-> {}, at |-> 0]
NoCommand == [kind |-> "none", source |-> NoSource, pc |-> "idle"]
NoReveal ==
    [pc |-> "idle", source |-> NoSource, generation |-> 0, session |-> NoSession, of |-> 0]

\* settings()
Authorized ==
    IF settings.enabled
    THEN ((Defaults \cup settings.configured) \ settings.excluded)
    ELSE {}

\* The settings are gone through in their order.
First(todo) == Min(todo)

\* What refreshSources looks at after each await.
Stopped == refresh.aborted \/ view.disposed \/ ~settings.enabled

\* The scan that is running can be aborted: its controller is there.
HasController(r) == r.pc \notin {"idle", "begin"}

Aborted(r) == IF HasController(r) THEN [r EXCEPT !.aborted = TRUE] ELSE r

\* refresh(): joined when one is in flight.
Refreshing(r) == IF r.pc = "idle" THEN [r EXCEPT !.pc = "begin"] ELSE r

\* syncSources takes the rows of other sources out of the catalog.
Syncs(rows) ==
    /\ catalog' = rows
    /\ past' = [past EXCEPT !.dropped = @ \/ reveal.source \in DOMAIN catalog \ DOMAIN rows]

\* Whoever needs the store opens it.
NeedsStore == IF store = "none" THEN "opening" ELSE store

-----------------------------------------------------------------------------
Init ==
    /\ version = [s \in Sources |-> 1]
    /\ \E configured \in SUBSET Configured :
           settings = [enabled |-> TRUE, configured |-> configured, excluded |-> {}]
    /\ store = "none"
    /\ catalog = <<>>
    /\ view = [visible |-> FALSE, initialized |-> FALSE, again |-> FALSE, disposed |-> FALSE]
    /\ refresh = NoRefresh
    /\ status = [s \in Sources |-> "none"]
    /\ transient = [s \in Sources |-> 0]
    /\ loads = [l \in Loads |-> NoLoad]
    /\ hint = NoHint
    /\ command = NoCommand
    /\ reveal = NoReveal
    /\ acts = 0
    /\ past = [pages |-> [s \in Sources |-> "whole"], dropped |-> FALSE]

Act == acts < MaxActs /\ acts' = acts + 1

-----------------------------------------------------------------------------
(* Visibility and configuration.                                           *)

\* handleVisibility
ShownOrHidden(v, r, enabled, visible) ==
    IF visible /\ enabled
    THEN IF v.initialized
         THEN [view |-> [v EXCEPT !.visible = TRUE], refresh |-> r]
         ELSE [view |-> [v EXCEPT !.visible = TRUE, !.initialized = TRUE,
                                  !.again = @ \/ (HasController(r) /\ r.aborted)],
               refresh |-> Refreshing(r)]
    ELSE [view |-> [v EXCEPT !.visible = visible,
                             !.initialized = /\ @
                                             /\ ~HasController(r)
                                             /\ \A s \in Sources : status[s] # "error"],
          refresh |-> Aborted(r)]

ToggleVisible ==
    /\ Act
    /\ ~view.disposed
    /\ LET next == ShownOrHidden(view, refresh, settings.enabled, ~view.visible)
       IN view' = next.view /\ refresh' = next.refresh
    /\ UNCHANGED <<version, settings, store, catalog, status, transient, loads, hint,
                   command, reveal, past>>

\* onDidChangeConfiguration, for the sources or the switch.
Reconfigured(enabled) ==
    IF view.disposed THEN [view |-> view, refresh |-> refresh]
    ELSE ShownOrHidden([view EXCEPT !.again = TRUE, !.initialized = FALSE],
                       Aborted(refresh), enabled, view.visible)

\* Either no event is fired, or the listener runs.
ConfigurationChanges(new) ==
    /\ settings' = new
    /\ IF new.enabled = settings.enabled /\ new.configured = settings.configured
       THEN UNCHANGED <<view, refresh>>
       ELSE LET next == Reconfigured(new.enabled)
            IN view' = next.view /\ refresh' = next.refresh

ToggleEnabled ==
    /\ Act
    /\ ConfigurationChanges([settings EXCEPT !.enabled = ~@])
    /\ UNCHANGED <<version, store, catalog, status, transient, loads, hint, command, reveal,
                   past>>

\* getChildren of the root: the tree asks for its sources.
ListSources ==
    /\ ~view.disposed /\ settings.enabled /\ store = "open"
    /\ Syncs(Synced(catalog, Authorized))
    /\ IF ~view.initialized /\ view.visible /\ refresh.pc = "idle"
       THEN /\ status' = [s \in Sources |-> IF s \in Authorized THEN "loading" ELSE status[s]]
            /\ view' = [view EXCEPT !.initialized = TRUE]
            /\ refresh' = Refreshing(refresh)
       ELSE UNCHANGED <<status, view, refresh>>
    /\ UNCHANGED <<version, settings, store, transient, loads, hint, command, reveal, acts>>

RefreshCommand ==
    /\ Act
    /\ ~view.disposed /\ settings.enabled
    /\ refresh' = Refreshing(refresh)
    /\ UNCHANGED <<version, settings, store, catalog, view, status, transient, loads, hint,
                   command, reveal, past>>

\* openStore
StoreOpens ==
    /\ store = "opening"
    /\ IF view.disposed
       THEN store' = "closed" /\ Syncs(catalog)
       ELSE /\ store' = "open"
            /\ Syncs(IF settings.enabled THEN Synced(catalog, Authorized) ELSE catalog)
    /\ UNCHANGED <<version, settings, view, refresh, status, transient, loads, hint,
                   command, reveal, acts>>

-----------------------------------------------------------------------------
(* The refresh: runRefreshes and refreshSources.                           *)

\* The request for another pass is not taken back when the pass begins.
PassOverRemembers(stat, again) ==
    /\ status' = [s \in Sources |-> IF stat[s] = "loading" THEN "none" ELSE stat[s]]
    /\ view' = [view EXCEPT !.again = again]
    /\ refresh' = IF again /\ ~view.disposed /\ settings.enabled /\ view.visible
                  THEN [NoRefresh EXCEPT !.pc = "store"] ELSE NoRefresh

\* The end of refreshSources, and the loop around it.
PassOver(stat, again) ==
    /\ status' = [s \in Sources |-> IF stat[s] = "loading" THEN "none" ELSE stat[s]]
    /\ IF again /\ ~view.disposed /\ settings.enabled /\ view.visible
       THEN /\ view' = [view EXCEPT !.again = FALSE]
            /\ refresh' = [NoRefresh EXCEPT !.pc = "store"]
       ELSE /\ view' = [view EXCEPT !.again = again]
            /\ refresh' = NoRefresh

\* The settings are over, or the next one is looked at until it is awaited.
GoOn(todo, rows, stat, again) ==
    IF todo = {} \/ Stopped THEN PassOver(stat, again)
    ELSE LET s == First(todo)
             cached == IF s \in DOMAIN rows THEN rows[s].fingerprint ELSE 0
         IN /\ refresh' = [refresh EXCEPT !.todo = todo,
                                          !.pc = IF cached = 0 THEN "scan" ELSE "probe",
                                          !.at = cached, !.cursor = NoCursor, !.pages = 0]
            /\ status' = stat
            /\ view' = [view EXCEPT !.again = again]

\* What GoOn leaves of the rest alone.
RefreshOnly == UNCHANGED <<version, settings, store, loads, hint, command, reveal, acts>>

\* withProgress calls runRefreshes.
RefreshBegins ==
    /\ refresh.pc = "begin"
    /\ view' = [view EXCEPT !.again = FALSE]
    /\ refresh' = [refresh EXCEPT !.pc = "store"]
    /\ store' = NeedsStore
    /\ UNCHANGED <<version, settings, catalog, status, transient, loads, hint, command,
                   reveal, acts, past>>

\* The store is there, or will not be: openStore throws once disposed.
PassBegins ==
    /\ refresh.pc = "store" /\ store \in {"open", "closed"}
    /\ IF Stopped
       THEN PassOver(status, view.again) /\ Syncs(catalog) /\ UNCHANGED transient
       ELSE LET rows == Synced(catalog, Authorized)
            IN /\ Syncs(rows)
               /\ transient' = [s \in Sources |-> IF s \in Authorized THEN transient[s] ELSE 0]
               /\ GoOn(Authorized, rows,
                       [s \in Sources |-> IF s \in Authorized THEN "loading" ELSE "none"],
                       view.again)
    /\ RefreshOnly

Current == First(refresh.todo)
Others == refresh.todo \ {Current}

\* The cached projection is probed before the source is scanned again.
ProbeAnswers ==
    /\ refresh.pc = "probe"
    /\ IF Stopped
       THEN PassOver(status, view.again) /\ UNCHANGED <<catalog, transient>>
       ELSE LET same == version[Current] = refresh.at
            IN /\ catalog' = Marked(catalog, Current, ~same)
               /\ IF same
                  THEN /\ transient' = [transient EXCEPT ![Current] = 0]
                       /\ GoOn(Others, catalog', [status EXCEPT ![Current] = "none"],
                               view.again)
                  ELSE /\ refresh' = [refresh EXCEPT !.pc = "scan"]
                       /\ UNCHANGED <<transient, status, view>>
    /\ RefreshOnly /\ UNCHANGED past

\* The provider takes the fingerprint of the source; one that a continuation
\* is not bound to ends it (assertCursorFingerprint).
ScanTakesFingerprint ==
    /\ refresh.pc = "scan"
    /\ refresh.cursor # NoCursor => refresh.cursor.of = version[Current]
    /\ refresh' = [refresh EXCEPT !.pc = "read", !.at = version[Current]]
    /\ UNCHANGED <<version, settings, store, catalog, view, status, transient, loads, hint,
                   command, reveal, acts, past>>

\* What a scan may read of the files of a page: a Claude file may not be there
\* any more, or not be readable; the budget ends between two files.
Reads(s, v, offset) ==
    CASE Provider[s] \in {"codex", "generic"} -> {Range(Window(v, offset))}
      [] Provider[s] = "claude"              -> SUBSET Range(Window(v, offset))
      [] Provider[s] = "pi"                  -> {Range(w) : w \in Prefixes(Window(v, offset))}

Offset(cursor) == IF cursor = NoCursor THEN 0 ELSE cursor.offset

\* A first Claude page without a session is waited for.
Provisional(page) ==
    /\ Provider[Current] = "claude"
    /\ DOMAIN page.entities = {} /\ page.partial
    /\ transient[Current] < MaxTransient

\* History: a row is made of "whole" pages, each read to its end and continuing
\* the row, or the last of them is "short", or a page is missing in between.
InPlace(row, cursor) ==
    /\ row.fingerprint = cursor.of
    /\ row.cursor = NoCursor \/ cursor.offset =< row.cursor.offset

MadeOf(s, page, cursor) ==
    IF cursor = NoCursor \/ (past.pages[s] = "whole" /\ InPlace(catalog[s], cursor))
    THEN IF page.unread = {} THEN "whole" ELSE "short"
    ELSE "gap"

\* A page of the refresh is committed; Claude goes on to the next one.
Commit(rows, page, cursor) ==
    /\ catalog' = rows
    /\ past' = [past EXCEPT !.pages[Current] = MadeOf(Current, page, refresh.cursor)]
    /\ IF /\ Provider[Current] = "claude"
          /\ cursor # NoCursor
          /\ refresh.pages + 1 < MaxInitialPages
       THEN /\ refresh' = [refresh EXCEPT !.pc = "scan", !.cursor = cursor, !.pages = @ + 1]
            /\ UNCHANGED <<status, view>>
       ELSE GoOn(Others, rows, [status EXCEPT ![Current] = "none"], view.again)

FirstPageAnswers(page) ==
    LET cursor == CursorAfter(page, refresh.at, 0)
    IN CASE Current \notin Authorized ->
               /\ GoOn(Others, catalog, status, view.again)
               /\ UNCHANGED <<catalog, transient, past>>
         [] Current \in Authorized /\ Provisional(page) ->
               /\ transient' = [transient EXCEPT ![Current] = @ + 1]
               /\ GoOn(Others, catalog, status, TRUE)
               /\ UNCHANGED <<catalog, past>>
         [] Current \in Authorized /\ ~Provisional(page) ->
               /\ transient' = [transient EXCEPT ![Current] = 0]
               /\ IF Current \in DOMAIN catalog
                  THEN Commit([catalog EXCEPT ![Current] = Replaced(@, page, refresh.at, cursor)],
                              page, cursor)
                  ELSE /\ GoOn(Others, catalog,
                               [status EXCEPT ![Current] = "error"], view.again)
                       /\ UNCHANGED <<catalog, past>>

NextPageAnswers(page) ==
    LET cursor == CursorAfter(page, refresh.at, Offset(refresh.cursor))
    IN /\ UNCHANGED transient
       /\ CASE Current \notin Authorized ->
                  /\ GoOn(Others, catalog, [status EXCEPT ![Current] = "none"],
                          view.again)
                  /\ UNCHANGED <<catalog, past>>
            [] Current \in Authorized /\ Current \in DOMAIN catalog ->
                  Commit([catalog EXCEPT ![Current] = Appended(@, page, refresh.at, cursor)],
                         page, cursor)
            [] Current \in Authorized /\ Current \notin DOMAIN catalog ->
                  /\ GoOn(Others, catalog, [status EXCEPT ![Current] = "error"],
                          view.again)
                  /\ UNCHANGED <<catalog, past>>

ScanAnswers ==
    /\ refresh.pc = "read"
    /\ IF Stopped
       THEN PassOver(status, view.again) /\ UNCHANGED <<catalog, transient, past>>
       ELSE \E read \in Reads(Current, version[Current], Offset(refresh.cursor)) :
               LET page == PageOf(Provider[Current], version[Current], Offset(refresh.cursor), read)
               IN IF refresh.cursor = NoCursor THEN FirstPageAnswers(page) ELSE NextPageAnswers(page)
    /\ RefreshOnly

\* The provider throws: it cannot read, the cursor is of another fingerprint,
\* or the scan was aborted.
ProviderFails ==
    /\ refresh.pc \in {"probe", "scan", "read"}
    /\ IF refresh.aborted \/ view.disposed
       THEN PassOver(status, view.again)
       ELSE GoOn(Others, catalog, [status EXCEPT ![Current] = "error"], view.again)
    /\ UNCHANGED <<catalog, transient>>
    /\ RefreshOnly /\ UNCHANGED past

-----------------------------------------------------------------------------
(* Load More.                                                              *)

LoadMore(l, s) ==
    /\ Act
    /\ loads[l] = NoLoad
    /\ ~view.disposed /\ settings.enabled /\ refresh.pc = "idle" /\ store = "open"
    /\ s \in Authorized /\ s \in DOMAIN catalog
    /\ catalog[s].cursor # NoCursor
    /\ loads' = [loads EXCEPT ![l] = [pc |-> "scan", source |-> s, at |-> 0,
                                      cursor |-> catalog[s].cursor]]
    /\ status' = [status EXCEPT ![s] = "loading"]
    /\ UNCHANGED <<version, settings, store, catalog, view, refresh, transient, hint, command,
                   reveal, past>>

\* The continuation is read, whatever it is bound to.
LoadTakesAnyFingerprint(l) ==
    /\ loads[l].pc = "scan"
    /\ loads' = [loads EXCEPT ![l].pc = "read", ![l].at = version[loads[l].source]]
    /\ UNCHANGED <<version, settings, store, catalog, view, refresh, status, transient, hint,
                   command, reveal, acts, past>>

LoadTakesFingerprint(l) ==
    /\ loads[l].pc = "scan"
    /\ loads[l].cursor.of = version[loads[l].source]
    /\ loads' = [loads EXCEPT ![l].pc = "read", ![l].at = version[loads[l].source]]
    /\ UNCHANGED <<version, settings, store, catalog, view, refresh, status, transient, hint,
                   command, reveal, acts, past>>

\* The end of loadMore: the status goes, whatever it says.
LoadOver(l) ==
    /\ loads' = [loads EXCEPT ![l] = NoLoad]
    /\ status' = [status EXCEPT ![loads[l].source] = "none"]
    /\ UNCHANGED <<version, settings, store, view, refresh, transient, hint, command, reveal,
                   acts>>

LoadAnswers(l) ==
    /\ loads[l].pc = "read"
    /\ LET s == loads[l].source
           offset == loads[l].cursor.offset
       IN IF view.disposed \/ ~settings.enabled \/ s \notin DOMAIN catalog
          THEN UNCHANGED <<catalog, past>>
          ELSE \E read \in Reads(s, version[s], offset) :
                 LET page == PageOf(Provider[s], version[s], offset, read)
                 IN /\ catalog' = [catalog EXCEPT ![s] =
                           Appended(@, page, loads[l].at, CursorAfter(page, loads[l].at, offset))]
                    /\ past' = [past EXCEPT !.pages[s] = MadeOf(s, page, loads[l].cursor)]
    /\ LoadOver(l)

LoadFails(l) ==
    /\ loads[l].pc \in {"scan", "read"}
    /\ UNCHANGED <<catalog, past>>
    /\ LoadOver(l)

-----------------------------------------------------------------------------
(* Background hints: probeVisibleSources, one timer tick at a time.        *)

HintBegins ==
    /\ Act
    /\ hint = NoHint
    /\ ~view.disposed /\ view.visible /\ settings.enabled /\ store = "open"
    /\ hint' = [todo |-> Authorized, at |-> 0]
    /\ UNCHANGED <<version, settings, store, catalog, view, refresh, status, transient, loads,
                   command, reveal, past>>

HintTakesFingerprint ==
    /\ hint.todo # {} /\ hint.at = 0
    /\ hint' = [hint EXCEPT !.at = version[First(hint.todo)]]
    /\ UNCHANGED <<version, settings, store, catalog, view, refresh, status, transient, loads,
                   command, reveal, acts, past>>

HintAnswers ==
    /\ hint.todo # {} /\ hint.at # 0
    /\ IF view.disposed \/ ~settings.enabled \/ ~view.visible
       THEN hint' = NoHint /\ UNCHANGED catalog
       ELSE LET s == First(hint.todo)
                known == s \in DOMAIN catalog /\ catalog[s].fingerprint # 0
            IN /\ catalog' = IF known
                             THEN Marked(catalog, s, hint.at # catalog[s].fingerprint)
                             ELSE catalog
               /\ hint' = [todo |-> hint.todo \ {s}, at |-> 0]
    /\ UNCHANGED <<version, settings, store, view, refresh, status, transient, loads, command,
                   reveal, acts, past>>

-----------------------------------------------------------------------------
(* removeSource and authorizeSourceSetting.  globalState shows an update at*)
(* once, the configuration when its update has been carried out.           *)

RemoveSource(s) ==
    /\ Act
    /\ command = NoCommand
    /\ ~view.disposed /\ settings.enabled /\ store = "open" /\ s \in DOMAIN catalog
    /\ refresh' = Aborted(refresh)
    /\ settings' = [settings EXCEPT !.excluded = @ \cup {s}]
    /\ command' = [kind |-> "remove", source |-> s, pc |-> "configure"]
    /\ UNCHANGED <<version, store, catalog, view, status, transient, loads, hint, reveal,
                   past>>

RemoveConfigures ==
    /\ command.kind = "remove" /\ command.pc = "configure"
    /\ ConfigurationChanges([settings EXCEPT !.configured = @ \ {command.source}])
    /\ command' = [command EXCEPT !.pc = "forget"]
    /\ UNCHANGED <<version, store, catalog, status, transient, loads, hint, reveal, acts,
                   past>>

\* The row is left to the next refresh.
RemoveForgetsStatus ==
    /\ command.kind = "remove" /\ command.pc = "forget"
    /\ status' = [status EXCEPT ![command.source] = "none"]
    /\ command' = NoCommand
    /\ UNCHANGED <<version, settings, store, catalog, view, refresh, transient, loads, hint,
                   reveal, acts, past>>

RemoveForgets ==
    /\ command.kind = "remove" /\ command.pc = "forget"
    /\ Syncs(IF store = "open" THEN Synced(catalog, Authorized) ELSE catalog)
    /\ status' = [status EXCEPT ![command.source] = "none"]
    /\ command' = NoCommand
    /\ UNCHANGED <<version, settings, store, view, refresh, transient, loads, hint, reveal, acts>>

AuthorizeSource(s) ==
    /\ Act
    /\ command = NoCommand
    /\ ~view.disposed
    /\ s \notin (Defaults \cup settings.configured) \ settings.excluded
    /\ settings' = [settings EXCEPT !.excluded = @ \ {s}]
    /\ command' = [kind |-> "authorize", source |-> s, pc |-> "configure"]
    /\ UNCHANGED <<version, store, catalog, view, refresh, status, transient, loads, hint, reveal,
                   past>>

AuthorizeConfigures ==
    /\ command.kind = "authorize" /\ command.pc = "configure"
    /\ IF view.disposed
       THEN command' = NoCommand /\ UNCHANGED <<settings, view, refresh>>
       ELSE /\ ConfigurationChanges(
                   [settings EXCEPT !.configured = @ \cup ({command.source} \ Defaults)])
            /\ command' = [command EXCEPT !.pc = "enable"]
    /\ UNCHANGED <<version, store, catalog, status, transient, loads, hint, reveal, acts,
                   past>>

AuthorizeEnables ==
    /\ command.kind = "authorize" /\ command.pc = "enable"
    /\ IF view.disposed
       THEN command' = NoCommand /\ UNCHANGED <<settings, view, refresh>>
       ELSE /\ ConfigurationChanges([settings EXCEPT !.enabled = TRUE])
            /\ command' = [command EXCEPT !.pc = "refresh"]
    /\ UNCHANGED <<version, store, catalog, status, transient, loads, hint, reveal, acts,
                   past>>

AuthorizeRefreshes ==
    /\ command.kind = "authorize" /\ command.pc = "refresh"
    /\ refresh' = IF view.disposed \/ ~settings.enabled THEN refresh ELSE Refreshing(refresh)
    /\ command' = NoCommand
    /\ UNCHANGED <<version, settings, store, catalog, view, status, transient, loads, hint,
                   reveal, acts, past>>

-----------------------------------------------------------------------------
(* reveal                                                                  *)

HasLocation(s, generation, id) ==
    s \in DOMAIN catalog /\ catalog[s].generation = generation /\ id \in DOMAIN catalog[s].entities

RevealSession(s, id) ==
    /\ Act
    /\ reveal = NoReveal
    /\ ~view.disposed /\ settings.enabled /\ store = "open" /\ s \in Authorized
    /\ HasLocation(s, catalog[s].generation, id)
    /\ reveal' = [pc |-> "probe", source |-> s, generation |-> catalog[s].generation,
                  session |-> id, of |-> catalog[s].entities[id].of]
    /\ past' = [past EXCEPT !.dropped = FALSE]
    /\ UNCHANGED <<version, settings, store, catalog, view, refresh, status, transient, loads,
                   hint, command>>

RevealGoesOn(pc) ==
    /\ reveal' = IF pc = "idle" THEN NoReveal ELSE [reveal EXCEPT !.pc = pc]
    /\ UNCHANGED <<version, settings, store, view, refresh, status, transient, loads, hint,
                   command, acts, past>>

\* A source that has moved on is opened only at the start of a session file.
RevealProbed ==
    /\ reveal.pc = "probe"
    /\ LET s == reveal.source
           known == s \in DOMAIN catalog /\ catalog[s].fingerprint = version[s]
       IN \/ /\ view.disposed \/ ~settings.enabled
             /\ RevealGoesOn("idle") /\ UNCHANGED catalog
          \/ /\ ~view.disposed /\ settings.enabled /\ known
             /\ RevealGoesOn("files") /\ UNCHANGED catalog
          \/ /\ ~view.disposed /\ settings.enabled /\ ~known
             /\ Provider[s] \in {"codex", "claude", "pi"}
             /\ RevealGoesOn("files") /\ catalog' = Marked(catalog, s, TRUE)
          \/ /\ ~view.disposed /\ settings.enabled /\ ~known
             /\ Provider[s] \in {"codex", "generic"}
             /\ RevealGoesOn("idle") /\ UNCHANGED catalog

\* The probe throws, or the file is not there any more.
RevealFails ==
    /\ reveal.pc \in {"probe", "files"}
    /\ RevealGoesOn("idle") /\ UNCHANGED catalog

\* What was checked before the file system was asked is taken for granted.
RevealOpensUnchecked ==
    /\ reveal.pc = "files"
    /\ UNCHANGED catalog
    /\ RevealGoesOn(IF ~view.disposed THEN "opened" ELSE "idle")

RevealOpens ==
    /\ reveal.pc = "files"
    /\ UNCHANGED catalog
    /\ RevealGoesOn(
           IF /\ ~view.disposed /\ reveal.source \in Authorized
              /\ HasLocation(reveal.source, reveal.generation, reveal.session)
           THEN "opened" ELSE "idle")

\* The editor takes the intent, or it is cleared.
RevealTaken ==
    /\ reveal.pc = "opened"
    /\ RevealGoesOn("idle") /\ UNCHANGED catalog

-----------------------------------------------------------------------------
(* The sources, and the window.                                            *)

SourceChanges(s) ==
    /\ version[s] < Len(Files)
    /\ version' = [version EXCEPT ![s] = @ + 1]
    /\ UNCHANGED <<settings, store, catalog, view, refresh, status, transient, loads, hint,
                   command, reveal, acts, past>>

Dispose ==
    /\ Act
    /\ ~view.disposed
    /\ view' = [view EXCEPT !.disposed = TRUE]
    /\ refresh' = Aborted(refresh)
    /\ store' = IF store = "opening" THEN store ELSE "closed"
    /\ UNCHANGED <<version, settings, catalog, status, transient, loads, hint, command, reveal,
                   past>>

\* A new window: the catalog and the settings are what the last one left.
Restart ==
    /\ Act
    /\ view.disposed
    /\ store' = "none"
    /\ view' = [visible |-> FALSE, initialized |-> FALSE, again |-> FALSE, disposed |-> FALSE]
    /\ refresh' = NoRefresh
    /\ status' = [s \in Sources |-> "none"]
    /\ transient' = [s \in Sources |-> 0]
    /\ loads' = [l \in Loads |-> NoLoad]
    /\ hint' = NoHint
    /\ command' = NoCommand
    /\ reveal' = NoReveal
    /\ UNCHANGED <<version, settings, catalog, past>>

-----------------------------------------------------------------------------
RefreshStep ==
    RefreshBegins \/ PassBegins \/ ProbeAnswers \/ ScanTakesFingerprint \/ ScanAnswers \/ ProviderFails

CommandStep ==
    \/ RemoveConfigures \/ RemoveForgets
    \/ AuthorizeConfigures \/ AuthorizeEnables \/ AuthorizeRefreshes

LoadStep(l) == LoadTakesFingerprint(l) \/ LoadAnswers(l) \/ LoadFails(l)

Next ==
    \/ ToggleVisible \/ ToggleEnabled \/ ListSources \/ RefreshCommand
    \/ StoreOpens \/ RefreshStep \/ CommandStep
    \/ HintBegins \/ HintTakesFingerprint \/ HintAnswers
    \/ \E l \in Loads : LoadStep(l) \/ \E s \in Sources : LoadMore(l, s)
    \/ \E s \in Sources : RemoveSource(s) \/ AuthorizeSource(s) \/ SourceChanges(s)
    \/ \E s \in Sources, id \in Sessions : RevealSession(s, id)
    \/ RevealProbed \/ RevealFails \/ RevealOpens \/ RevealTaken
    \/ Dispose \/ Restart

\* Scans and probes have a time budget, and the updates of the configuration
\* and the database answer.
Fairness == WF_vars(StoreOpens) /\ WF_vars(RefreshStep) /\ WF_vars(CommandStep)

Spec == Init /\ [][Next]_vars /\ Fairness

-----------------------------------------------------------------------------
(* Properties.                                                             *)

Rows ==
    [generation : Nat, fingerprint : {0} \cup Versions, updateAvailable : BOOLEAN,
     cursor : Cursors \cup {NoCursor}, partial : BOOLEAN,
     entities : UNION {[ids -> [parent : Sessions \cup {NoSession}, of : Versions]] :
                          ids \in SUBSET Sessions},
     relations : SUBSET (Sessions \X Sessions)]

\* The variables have their types; pages and empty scans keep to their limits.
TypeOK ==
    /\ version \in [Sources -> Versions]
    /\ settings \in [enabled : BOOLEAN, configured : SUBSET Sources, excluded : SUBSET Sources]
    /\ store \in {"none", "opening", "open", "closed"}
    /\ DOMAIN catalog \subseteq Sources /\ \A s \in DOMAIN catalog : catalog[s] \in Rows
    /\ view \in [visible : BOOLEAN, initialized : BOOLEAN, again : BOOLEAN, disposed : BOOLEAN]
    /\ refresh.pc \in {"idle", "begin", "store", "probe", "scan", "read"}
    /\ refresh.pages < MaxInitialPages
    /\ refresh.pc \in {"probe", "scan", "read"} => refresh.todo # {}
    /\ status \in [Sources -> {"none", "loading", "error"}]
    /\ transient \in [Sources -> 0..MaxTransient]
    /\ \A l \in Loads : loads[l].pc \in {"idle", "scan", "read"}
    /\ reveal.pc \in {"idle", "probe", "files", "opened"}
    /\ acts \in 0..MaxActs
    /\ past \in [pages : [Sources -> {"whole", "short", "gap"}], dropped : BOOLEAN]

\* Every session that the catalog counts is under a root of the tree, in
\* whatever order pages bring children and parents.
EverySessionIsShown ==
    \A s \in DOMAIN catalog :
        Provider[s] \in {"claude", "codex"}
            => Unfolded(catalog[s]) = DOMAIN catalog[s].entities

IsTrustworthy(s) ==
    LET row == catalog[s]
    IN row.generation > 0 /\ ~row.partial /\ row.fingerprint = version[s]
         => DOMAIN row.entities = Range(Files[version[s]])

\* A count that is not called partial, of a source whose fingerprint is the
\* catalog's, is the number of sessions the source has, whatever the scans could
\* read and in whatever order pages arrive; unless a page was appended after one
\* that was not read to its end, or out of its place.  Of these nothing is kept:
\* the last page alone says whether the row is partial (appendSnapshot).
CountsAreTrustworthy ==
    \A s \in DOMAIN catalog : past.pages[s] # "gap" => IsTrustworthy(s)

\* "Partial status survives [...]; a bounded index count is never a claim about
\* the full archive" (ADR-031:16-18), of every row: not so.
EveryCountIsTrustworthy == \A s \in DOMAIN catalog : IsTrustworthy(s)

\* The sources that the settings name, whether or not the navigator is enabled.
Wanted == (Defaults \cup settings.configured) \ settings.excluded

RemovalIsCarriedOut(s) ==
    /\ command.kind = "remove" /\ command.source = s
    /\ command'.kind = "none" /\ store = "open"

\* A source that was removed has no row once its removal is over in an open
\* catalog, and whatever a scan, a page, another command or a later window still
\* writes, none appears for a source that is not wanted.
RemovedStaysRemoved ==
    [][\A s \in Sources :
          RemovalIsCarriedOut(s) \/ (s \notin Wanted' /\ s \notin DOMAIN catalog)
              => s \notin DOMAIN catalog']_vars

\* An intent that is registered points where the catalog then lists the
\* session, of a source that is authorized; and, unless the row has been dropped
\* meanwhile, whose generations start over, to what the user chose.
RevealIsCurrent ==
    [][reveal.pc = "files" /\ reveal'.pc = "opened"
         => /\ reveal.source \in Authorized
            /\ HasLocation(reveal.source, reveal.generation, reveal.session)
            /\ \/ past.dropped
               \/ catalog[reveal.source].entities[reveal.session].of = reveal.of]_vars

\* The generation that an intent names is the one the user chose from: not so,
\* the generations of a row start over when it is dropped and listed again.
GenerationsAreOfOneRow ==
    [][reveal.pc = "files" /\ reveal'.pc = "opened"
         => catalog[reveal.source].entities[reveal.session].of = reveal.of]_vars

\* A refresh ends, however often a provisional page or a change of the settings
\* makes it start over; until then Load More is refused.
RefreshEnds == refresh.pc # "idle" ~> refresh.pc = "idle"

\* While the view is shown, every authorized source is loaded or says why not.
SourcesAreLoaded ==
    \A s \in Sources :
        LET wanted == view.visible /\ ~view.disposed /\ s \in Authorized
            loaded == s \in DOMAIN catalog /\ catalog[s].generation > 0
        IN wanted ~> loaded \/ status[s] = "error" \/ ~wanted
=============================================================================
