--------------------------- MODULE FollowRecovery ---------------------------
(***************************************************************************)
(* The FollowRecoveryCoordinator of src/src/extension/follow-recovery.ts   *)
(* together with the callbacks that src/src/extension/extension.ts passes  *)
(* to it.  A run is started for a source whose classification is unknown,  *)
(* probes it twice around a quiet interval, opens a candidate generation   *)
(* and publishes it, or gives up within an attempt and a time budget.      *)
(*                                                                         *)
(* Every method of the class is an operator from the coordinator's fields  *)
(* to the coordinator's fields; every await splits an attempt into two     *)
(* actions.  An attempt that was cancelled while it waited is still there  *)
(* and runs its tail later, over whatever the fields hold by then.         *)
(***************************************************************************)
EXTENDS Naturals

CONSTANTS
    MaxAttempts,     \* options.maxAttempts
    MaxRuns,         \* bound: runs started in a behaviour
    MaxGenerations,  \* bound: generations adopted in a behaviour
    MaxTasks         \* bound: attempts in flight at once

ASSUME AttemptsAssumption == MaxAttempts \in Nat \ {0}
ASSUME BoundsAssumption ==
    /\ MaxRuns \in Nat \ {0}
    /\ MaxGenerations \in Nat \ {0}
    /\ MaxTasks \in Nat \ {0}

VARIABLES
    coord,         \* the fields of the coordinator
    expectedOf,    \* generation of the identity each run was started for
    started,       \* history: attempts each run has begun
    task,          \* attempts suspended at an await
    reporting,     \* exhaust and fail calls suspended before host.report
    generation,    \* generation the session has adopted
    followMode,    \* session.followMode
    rebuilding,    \* who waits for the session's ordinary rebuild in flight
    reconcileDue,  \* the document's reconcile timer is armed
    notice         \* latest SOURCE_INVALIDATED reason since the last OPENED

vars == <<coord, expectedOf, started, task, reporting, generation,
          followMode, rebuilding, reconcileDue, notice>>

\* What only the document, and not the coordinator, assigns.
hostVars == <<generation, followMode, rebuilding>>
-----------------------------------------------------------------------------
(* Values *)

NoRun == 0
Runs == 1..MaxRuns
Tasks == 1..MaxTasks
Generations == 1..MaxGenerations

Destructive == {"delete", "replace", "truncate"}
RefreshKinds == {"unchanged", "append", "unknown"} \cup Destructive
Gaps == {"missing", "not_file"}

\* What dispositionForProbe can make of a probe.  "moved" is a second probe
\* that is fit by itself but is not sameProbe as the first one.
Dispositions == Gaps \cup {"replace", "truncate", "unverifiable", "error", "ok"}
SecondDispositions == Dispositions \cup {"moved"}

\* How host.rebuildStable can reject: a FollowRecoveryTerminalError, a
\* FollowRecoveryTransientError or any other error.
Rejections == Destructive \cup {"transient", "other"}

Awaits == {"probe", "quiet", "reprobe", "queue", "rebuild", "publish"}
Idle == [at |-> "none", run |-> NoRun]

Coordinators ==
    [state: {"idle", "waiting", "recovering", "exhausted"},
     disposed: BOOLEAN,
     attemptTimer: BOOLEAN,
     deadlineTimer: BOOLEAN,
     windowElapsed: BOOLEAN,
     controller: Runs \cup {NoRun},
     aborted: SUBSET Runs,
     runs: 0..MaxRuns,
     attempts: 0..MaxAttempts,
     pendingEvent: BOOLEAN,
     deadlineReached: BOOLEAN,
     gap: Gaps \cup {"none"},
     gapCount: 0..1]

IsRunning(c) == c.controller # NoRun

\* The gap an exhausted run leaves behind decides the reason it reports.
ReasonOfGap(gap) ==
    CASE gap = "none" -> "unknown"
      [] gap = "missing" -> "delete"
      [] gap = "not_file" -> "replace"
-----------------------------------------------------------------------------
(* Methods of the coordinator, as functions of its fields *)

ResetGap(c) == [c EXCEPT !.gap = "none", !.gapCount = 0]

AbortCurrent(c) == [c EXCEPT !.aborted = @ \cup ({c.controller} \ {NoRun})]

\* Mutant of Detach: clearAttemptTimer instead of clearTimers.
DetachAttemptOnly(c) ==
    [c EXCEPT !.attemptTimer = FALSE,
              !.controller = NoRun,
              !.pendingEvent = FALSE]

\* clearTimers, and the assignments every ending makes.
Detach(c) ==
    [c EXCEPT !.attemptTimer = FALSE,
              !.deadlineTimer = FALSE,
              !.controller = NoRun,
              !.pendingEvent = FALSE]

ToIdleUnlessExhausted(c) ==
    [c EXCEPT !.state = IF c.disposed \/ c.state = "exhausted" THEN @ ELSE "idle"]

FinishCancelled(c) == ToIdleUnlessExhausted(Detach(c))

Cancel(c) ==
    ToIdleUnlessExhausted(
        [ResetGap(Detach(AbortCurrent(c))) EXCEPT !.deadlineReached = FALSE])

Reset(c) == [Cancel(c) EXCEPT !.state = IF c.disposed THEN @ ELSE "idle"]

Close(c) == [Cancel([c EXCEPT !.disposed = TRUE]) EXCEPT !.state = "exhausted"]

\* What terminate, exhaust and fail do to the fields.
Retire(c) ==
    [ResetGap(Detach(AbortCurrent(c))) EXCEPT !.state = "exhausted"]

FinishSuccess(c) ==
    [Detach(c) EXCEPT !.gap = "none", !.attempts = 0, !.state = "idle"]

\* Mutant of BeginRun: the run is started without its deadline timer.
BeginRunWithoutDeadline(c) ==
    [ResetGap(c) EXCEPT !.runs = @ + 1,
                        !.controller = c.runs + 1,
                        !.attempts = 0,
                        !.pendingEvent = FALSE,
                        !.deadlineReached = FALSE,
                        !.windowElapsed = FALSE,
                        !.state = "waiting",
                        !.attemptTimer = TRUE]

BeginRun(c) ==
    [ResetGap(c) EXCEPT !.runs = @ + 1,
                        !.controller = c.runs + 1,
                        !.attempts = 0,
                        !.pendingEvent = FALSE,
                        !.deadlineReached = FALSE,
                        !.windowElapsed = FALSE,
                        !.state = "waiting",
                        !.deadlineTimer = TRUE,
                        !.attemptTimer = TRUE]

BeginAttempt(c) == [c EXCEPT !.attempts = @ + 1, !.state = "recovering"]

ScheduleRetry(c) == [c EXCEPT !.state = "waiting", !.attemptTimer = TRUE]

NoteGap(c, gap) ==
    [c EXCEPT !.gap = IF c.gap = "none" \/ gap = "not_file" THEN gap ELSE @,
              !.gapCount = IF c.gap = "none" THEN 1 ELSE @ + 1]

\* Mutant of OutOfBudget: one attempt more than the budget is let through.
OutOfBudgetLate(c) == c.attempts > MaxAttempts \/ c.windowElapsed

OutOfBudget(c) == c.attempts >= MaxAttempts \/ c.windowElapsed

\* shouldNotifyFollowRecovery
ShouldNotify(follow, running, kind) ==
    \/ kind = "unknown"
    \/ ~follow /\ kind = "append"
    \/ follow /\ kind \in {"delete", "replace"}
    \/ follow /\ running /\ kind = "append"
-----------------------------------------------------------------------------
(* Endings and continuations of an attempt or of the deadline callback.    *)
(* Each assigns the coordinator, the calls that wait to report, the notice *)
(* the panels were sent and the reconcile timer.                           *)

Assign(c) == coord' = c /\ UNCHANGED <<reporting, notice, reconcileDue>>

\* host.invalidate(reason), then the await before host.report.  With follow
\* off an unknown source is not announced: the coordinator is made usable
\* again and the document classifies the source once more.
GiveUp(c, reason) ==
    /\ reporting' = reporting + 1
    /\ IF ~followMode /\ reason = "unknown"
       THEN /\ coord' = Reset(Retire(c))
            /\ reconcileDue' = (reconcileDue \/ ~c.disposed)
            /\ UNCHANGED notice
       ELSE /\ coord' = Retire(c)
            /\ notice' = IF c.disposed THEN notice ELSE reason
            /\ UNCHANGED reconcileDue

Exhaust(c) ==
    IF c.state = "exhausted" \/ c.disposed
    THEN Assign(FinishCancelled(c))
    ELSE GiveUp(c, ReasonOfGap(c.gap))

Terminate(c, reason) ==
    /\ coord' = Retire(c)
    /\ notice' = IF c.disposed THEN notice ELSE reason
    /\ UNCHANGED <<reporting, reconcileDue>>

Retry(c) ==
    IF /\ ~c.disposed
       /\ IsRunning(c)
       /\ c.controller \notin c.aborted
       /\ ~OutOfBudget(c)
    THEN Assign(ScheduleRetry(c))
    ELSE Exhaust(c)

HandleGap(c, gap) ==
    LET noted == NoteGap(c, gap) IN
    IF noted.gapCount >= 2
    THEN Terminate(noted, ReasonOfGap(noted.gap))
    ELSE Retry(noted)

Suspend(t, at) == task' = [task EXCEPT ![t].at = at]
Release(t) == task' = [task EXCEPT ![t] = Idle]

Aborted(t) == task[t].run \in coord.aborted

\* isExpectedIdentityCurrent
Current(t) == ~coord.disposed /\ expectedOf[task[t].run] = generation
-----------------------------------------------------------------------------
(* The attempt: runAttempt from the timer to its end *)

\* The timer's callback up to the first probe.  Bound: a slot in Tasks, the
\* lowest one that is free.
AttemptTimerFires(t) ==
    LET fired == [coord EXCEPT !.attemptTimer = FALSE] IN
    /\ coord.attemptTimer
    /\ task[t] = Idle
    /\ \A u \in 1..(t - 1) : task[u] # Idle
    /\ IF coord.disposed \/ ~IsRunning(coord)
       THEN Assign(FinishCancelled(fired)) /\ UNCHANGED <<task, started>>
       ELSE IF coord.deadlineReached \/ OutOfBudget(coord)
       THEN Exhaust(fired) /\ UNCHANGED <<task, started>>
       ELSE /\ Assign(BeginAttempt(fired))
            /\ task' = [task EXCEPT ![t] = [at |-> "probe", run |-> coord.controller]]
            /\ started' = [started EXCEPT ![coord.controller] = @ + 1]
    /\ UNCHANGED <<expectedOf, hostVars>>

\* The await was rejected by the abort, or the check after it sees the abort.
AttemptAborted(t) ==
    /\ task[t].at \in {"probe", "quiet", "reprobe", "queue", "rebuild"}
    /\ Aborted(t)
    /\ IF coord.deadlineReached
       THEN Exhaust(coord)
       ELSE Assign(FinishCancelled(coord))
    /\ Release(t)
    /\ UNCHANGED <<expectedOf, started, hostVars>>

\* A probe answers after another generation was adopted.
ProbeSuperseded(t) ==
    /\ task[t].at \in {"probe", "reprobe"}
    /\ ~Aborted(t)
    /\ ~Current(t)
    /\ Assign(FinishCancelled(coord))
    /\ Release(t)
    /\ UNCHANGED <<expectedOf, started, hostVars>>

\* Mutant of ProbeEndsAttempt: the signal is not looked at after the await.
ProbeEndsAttemptUnchecked(t, disposition) ==
    /\ task[t].at \in {"probe", "reprobe"}
    /\ Current(t)
    /\ disposition \in Destructive
    /\ Terminate(coord, disposition)
    /\ Release(t)
    /\ UNCHANGED <<expectedOf, started, hostVars>>

\* Either probe answers with something other than a fit, quiet source.
ProbeEndsAttempt(t, disposition) ==
    /\ task[t].at \in {"probe", "reprobe"}
    /\ ~Aborted(t)
    /\ Current(t)
    /\ \/ disposition \in Destructive /\ Terminate(coord, disposition)
       \/ disposition \in Gaps /\ HandleGap(coord, disposition)
       \/ disposition = "unverifiable" /\ Exhaust(ResetGap(coord))
       \/ disposition = "error" /\ Retry(ResetGap(coord))
       \/ /\ disposition = "moved"
          /\ task[t].at = "reprobe"
          /\ Retry(coord)
    /\ Release(t)
    /\ UNCHANGED <<expectedOf, started, hostVars>>

FirstProbeFits(t) ==
    /\ task[t].at = "probe"
    /\ ~Aborted(t)
    /\ Current(t)
    /\ Assign(ResetGap(coord))
    /\ Suspend(t, "quiet")
    /\ UNCHANGED <<expectedOf, started, hostVars>>

QuietElapses(t) ==
    /\ task[t].at = "quiet"
    /\ ~Aborted(t)
    /\ Assign(coord)
    /\ Suspend(t, "reprobe")
    /\ UNCHANGED <<expectedOf, started, hostVars>>

SecondProbeFits(t) ==
    /\ task[t].at = "reprobe"
    /\ ~Aborted(t)
    /\ Current(t)
    /\ Assign(coord)
    /\ Suspend(t, IF rebuilding = {} THEN "rebuild" ELSE "queue")
    /\ UNCHANGED <<expectedOf, started, hostVars>>

\* startRebuild never shares an ordinary rebuild with a stable one: the
\* later of the two waits until the other has ended.
RebuildQueueClears(t) ==
    /\ task[t].at = "queue"
    /\ ~Aborted(t)
    /\ rebuilding = {}
    /\ Assign(coord)
    /\ Suspend(t, "rebuild")
    /\ UNCHANGED <<expectedOf, started, hostVars>>

\* performRebuild finds that the session no longer has the snapshot the run
\* was started for: a terminal error, with the reason of a replaced file.
RebuildSuperseded(t) ==
    /\ task[t].at = "rebuild"
    /\ ~Aborted(t)
    /\ expectedOf[task[t].run] # generation
    /\ Terminate(coord, "replace")
    /\ Release(t)
    /\ UNCHANGED <<expectedOf, started, hostVars>>

RebuildRejects(t, why) ==
    /\ task[t].at = "rebuild"
    /\ ~Aborted(t)
    /\ expectedOf[task[t].run] = generation
    /\ \/ why \in Destructive /\ Terminate(coord, why)
       \/ why = "transient" /\ Retry(coord)
       \/ why = "other" /\ GiveUp(coord, "unknown")
    /\ Release(t)
    /\ UNCHANGED <<expectedOf, started, hostVars>>

\* The attempts that share the stable rebuild in flight.
Sharing(t) == task[t].at = "rebuild" /\ ~Aborted(t) /\ Current(t)

\* The candidate is adopted and, in the same turn of the event loop, its
\* OPENED is handed to the panels; whoever shares the rebuild waits for their
\* answer.
RebuildAdopts(t) ==
    /\ Sharing(t)
    /\ generation < MaxGenerations
    /\ generation' = generation + 1
    /\ notice' = "none"
    /\ task' = [u \in Tasks |-> IF Sharing(u)
                                THEN [at |-> "publish", run |-> task[u].run]
                                ELSE task[u]]
    /\ UNCHANGED <<coord, expectedOf, started, reporting, followMode,
                   rebuilding, reconcileDue>>

\* Mutant of PublishDelivered: a late delivery always ends in success.
PublishDeliveredUnchecked(t) ==
    /\ task[t].at = "publish"
    /\ coord' = FinishSuccess(coord)
    /\ reconcileDue' = (reconcileDue \/ coord.pendingEvent)
    /\ UNCHANGED <<reporting, notice>>
    /\ Release(t)
    /\ UNCHANGED <<expectedOf, started, hostVars>>

PublishDelivered(t) ==
    /\ task[t].at = "publish"
    /\ IF Aborted(t) \/ coord.controller # task[t].run
             \/ coord.state = "exhausted" \/ coord.disposed
       THEN Assign(coord)
       ELSE /\ coord' = FinishSuccess(coord)
            /\ reconcileDue' = (reconcileDue \/ coord.pendingEvent)
            /\ UNCHANGED <<reporting, notice>>
    /\ Release(t)
    /\ UNCHANGED <<expectedOf, started, hostVars>>
-----------------------------------------------------------------------------
(* The deadline, and the report that follows an announced ending *)

WindowElapses ==
    /\ IsRunning(coord)
    /\ ~coord.windowElapsed
    /\ coord' = [coord EXCEPT !.windowElapsed = TRUE]
    /\ UNCHANGED <<expectedOf, started, task, reporting, notice,
                   reconcileDue, hostVars>>

DeadlineFires ==
    LET fired == [AbortCurrent(coord) EXCEPT !.deadlineTimer = FALSE,
                                             !.deadlineReached = TRUE,
                                             !.attemptTimer = FALSE]
    IN
    /\ coord.deadlineTimer
    /\ coord.windowElapsed
    /\ IF IsRunning(coord) THEN Exhaust(fired) ELSE Assign(fired)
    /\ UNCHANGED <<expectedOf, started, task, hostVars>>

\* host.report: an ERROR message with follow on, another reset with it off.
Report ==
    /\ reporting > 0
    /\ reporting' = reporting - 1
    /\ IF followMode
       THEN UNCHANGED <<coord, reconcileDue>>
       ELSE /\ coord' = Reset(coord)
            /\ reconcileDue' = (reconcileDue \/ ~coord.disposed)
    /\ UNCHANGED <<expectedOf, started, task, notice, hostVars>>
-----------------------------------------------------------------------------
(* The document: reconcile loop, commands of the user, ordinary rebuilds *)

\* Mutant of NotifyUnknown: an event restarts the run instead of joining it.
NotifyUnknownRestarts ==
    IF coord.disposed \/ coord.state = "exhausted"
    THEN UNCHANGED <<coord, expectedOf>>
    ELSE /\ coord.runs < MaxRuns
         /\ coord' = BeginRun(coord)
         /\ expectedOf' = [expectedOf EXCEPT ![coord.runs + 1] = generation]

\* notifyUnknown.  Bound: no run is started beyond MaxRuns.
NotifyUnknown ==
    IF coord.disposed \/ coord.state = "exhausted"
    THEN UNCHANGED <<coord, expectedOf>>
    ELSE IF IsRunning(coord)
    THEN coord' = [coord EXCEPT !.pendingEvent = TRUE] /\ UNCHANGED expectedOf
    ELSE /\ coord.runs < MaxRuns
         /\ coord' = BeginRun(coord)
         /\ expectedOf' = [expectedOf EXCEPT ![coord.runs + 1] = generation]

\* reconcileSource, from the answer of classifyRefresh on.  It does not run
\* while its own rebuild is in flight.  What armed the timer may have come
\* before the classification or, as reconcilePending, during it.
Reconcile(kind) ==
    /\ ~coord.disposed
    /\ "follow" \notin rebuilding
    /\ reconcileDue' = FALSE \/ UNCHANGED reconcileDue
    /\ \/ /\ kind = "unchanged"
          /\ UNCHANGED <<coord, expectedOf, rebuilding, notice>>
       \/ /\ ShouldNotify(followMode, IsRunning(coord), kind)
          /\ NotifyUnknown
          /\ UNCHANGED <<rebuilding, notice>>
       \/ /\ kind = "append"
          /\ ~ShouldNotify(followMode, IsRunning(coord), kind)
          /\ rebuilding' = rebuilding \cup {"follow"}
          /\ UNCHANGED <<coord, expectedOf, notice>>
       \/ /\ kind \in Destructive
          /\ ~ShouldNotify(followMode, IsRunning(coord), kind)
          /\ coord' = IF IsRunning(coord) THEN Cancel(coord) ELSE coord
          /\ notice' = kind
          /\ UNCHANGED <<expectedOf, rebuilding>>
    /\ UNCHANGED <<started, task, reporting, generation, followMode>>

\* REBUILD_INDEX and the rebuild command reset recovery before they start.
RequestRebuild ==
    /\ ~coord.disposed
    /\ coord' = Reset(coord)
    /\ rebuilding' = rebuilding \cup {"user"}
    /\ UNCHANGED <<expectedOf, started, task, reporting, generation,
                   followMode, notice, reconcileDue>>

\* The ordinary rebuild ends; everyone who waits for it shares the outcome.  A
\* panel that was hidden or asked again meanwhile gets no OPENED for it.
RebuildEnds(adopted) ==
    /\ rebuilding # {}
    /\ \A t \in Tasks : task[t].at # "rebuild"
    /\ ~coord.disposed
    /\ rebuilding' = {}
    /\ IF adopted
       THEN /\ generation < MaxGenerations
            /\ generation' = generation + 1
            /\ \/ notice' = "none"
               \/ "follow" \notin rebuilding /\ UNCHANGED notice
       ELSE UNCHANGED <<generation, notice>>
    /\ UNCHANGED <<coord, expectedOf, started, task, reporting, followMode,
                   reconcileDue>>

SetFollowMode(enabled) ==
    /\ ~coord.disposed
    /\ enabled # followMode
    /\ followMode' = enabled
    /\ coord' = IF enabled THEN Reset(coord) ELSE Cancel(coord)
    /\ UNCHANGED <<expectedOf, started, task, reporting, generation,
                   rebuilding, notice, reconcileDue>>

DisposeDocument ==
    /\ ~coord.disposed
    /\ coord' = Close(coord)
    /\ reconcileDue' = FALSE
    /\ UNCHANGED <<expectedOf, started, task, reporting, notice, hostVars>>
-----------------------------------------------------------------------------
Init ==
    /\ coord = [state |-> "idle", disposed |-> FALSE,
                attemptTimer |-> FALSE, deadlineTimer |-> FALSE,
                windowElapsed |-> FALSE, controller |-> NoRun,
                aborted |-> {}, runs |-> 0, attempts |-> 0,
                pendingEvent |-> FALSE, deadlineReached |-> FALSE,
                gap |-> "none", gapCount |-> 0]
    /\ expectedOf = [r \in Runs |-> 1]
    /\ started = [r \in Runs |-> 0]
    /\ task = [t \in Tasks |-> Idle]
    /\ reporting = 0
    /\ generation = 1
    /\ followMode = FALSE
    /\ rebuilding = {}
    /\ reconcileDue = FALSE
    /\ notice = "none"

Attempt(t) ==
    \/ AttemptTimerFires(t)
    \/ AttemptAborted(t)
    \/ ProbeSuperseded(t)
    \/ \E d \in SecondDispositions : ProbeEndsAttempt(t, d)
    \/ FirstProbeFits(t)
    \/ QuietElapses(t)
    \/ SecondProbeFits(t)
    \/ RebuildQueueClears(t)
    \/ RebuildSuperseded(t)
    \/ \E why \in Rejections : RebuildRejects(t, why)
    \/ RebuildAdopts(t)
    \/ PublishDelivered(t)

Document ==
    \/ \E kind \in RefreshKinds : Reconcile(kind)
    \/ RequestRebuild
    \/ \E adopted \in BOOLEAN : RebuildEnds(adopted)
    \/ \E enabled \in BOOLEAN : SetFollowMode(enabled)
    \/ DisposeDocument

Next ==
    \/ \E t \in Tasks : Attempt(t)
    \/ WindowElapses
    \/ DeadlineFires
    \/ Report
    \/ Document

\* Only the clock and its timers are fair: a probe, a rebuild or a panel may
\* never answer, and nothing obliges the user or the writer to act.
Fairness == WF_vars(WindowElapses) /\ WF_vars(DeadlineFires)

Spec == Init /\ [][Next]_vars /\ Fairness
-----------------------------------------------------------------------------
(* Properties *)

TypeOK ==
    /\ coord \in Coordinators
    /\ expectedOf \in [Runs -> Generations]
    /\ started \in [Runs -> Nat]
    /\ task \in [Tasks -> {Idle} \cup [at: Awaits, run: Runs]]
    /\ reporting \in Nat
    /\ generation \in Generations
    /\ followMode \in BOOLEAN
    /\ rebuilding \in SUBSET {"user", "follow"}
    /\ reconcileDue \in BOOLEAN
    /\ notice \in (RefreshKinds \ {"unchanged", "append"}) \cup {"none"}

Armed(c) ==
    /\ c.deadlineTimer <=> IsRunning(c)
    /\ c.state \in {"waiting", "recovering"} <=> IsRunning(c)
    /\ c.attemptTimer \/ c.pendingEvent => IsRunning(c)
    /\ IsRunning(c) => c.controller = c.runs /\ c.controller \notin c.aborted
    /\ \A r \in c.aborted : r <= c.runs
    /\ c.disposed \/ c.deadlineReached => c.state = "exhausted"

\* A coordinator has a deadline exactly while it has a run, and neither a
\* timer nor a queued event without one, whichever attempt, deadline, command
\* or late tail wrote the fields last; the run it has is not aborted, nor is one it may
\* still start, and a coordinator past its deadline or its disposal is exhausted.
RunsAreArmed == Armed(coord)

\* No run begins more than maxAttempts candidate attempts, also when tails of
\* earlier runs schedule, reset or end in between.
AttemptBudget == \A r \in Runs : started[r] <= MaxAttempts

\* An attempt whose run was cancelled, reset or retired while it waited
\* neither announces, publishes, adopts nor reschedules anything.
RetiredAttemptsAreSilent ==
    [][\A t \in Tasks :
         Aborted(t) /\ task'[t] # task[t]
           => UNCHANGED <<generation, notice, reporting, reconcileDue>>]_vars

\* With follow on, an exhausted coordinator is made usable again only by a
\* rebuild the user asks for, and never by a late panel or probe.
ExhaustionIsSticky ==
    [][coord.state = "exhausted" /\ followMode /\ followMode'
         => coord'.state = "exhausted" \/ RequestRebuild]_vars

\* Every run ends although probes, rebuilds and panels may never answer.
EveryRunEnds == \A r \in Runs : coord.controller = r ~> coord.controller # r

PhaseOf(c) ==
    IF IsRunning(c) THEN "running"
    ELSE IF c.state = "exhausted" THEN "stopped" ELSE "idle"

Lifecycle == INSTANCE RecoveryLifecycle
    WITH phase <- PhaseOf(coord), run <- coord.runs, closed <- coord.disposed

\* The coordinator implements the promise of RecoveryLifecycle.
ImplementsLifecycle == Lifecycle!Spec
=============================================================================
