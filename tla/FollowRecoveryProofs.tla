----------------------- MODULE FollowRecoveryProofs -----------------------
(***************************************************************************)
(* Proofs about FollowRecovery, for every budget of attempts and every     *)
(* bound on runs, generations and suspended attempts.  They follow one     *)
(* argument: each method of the coordinator either lets the run go, with   *)
(* every timer and the queued event, or keeps the run it found (Steady);   *)
(* only notifyUnknown starts a run and only the attempt timer an attempt.  *)
(***************************************************************************)
EXTENDS FollowRecovery, TLAPS

\* The runs that c knows have been started.
Numbered(c) ==
    /\ c \in Coordinators
    /\ c.controller <= c.runs
    /\ \A r \in c.aborted : r <= c.runs

\* e is c up to what no invariant of a run depends on.
SameRun(c, e) ==
    /\ e.disposed <=> c.disposed
    /\ e.runs = c.runs
    /\ e.controller = c.controller
    /\ e.attempts = c.attempts

\* d is what a method makes of c when it lets the run of c go.
Ended(c, d) ==
    /\ d \in Coordinators
    /\ \A r \in d.aborted : r <= d.runs
    /\ ~IsRunning(d)
    /\ ~d.attemptTimer
    /\ ~d.deadlineTimer
    /\ ~d.pendingEvent
    /\ d.disposed <=> c.disposed
    /\ d.runs = c.runs

\* d is armed, and has no run that c did not have.
Steady(c, d) ==
    /\ d \in Coordinators
    /\ Armed(d)
    /\ d.disposed <=> c.disposed
    /\ d.runs = c.runs
    /\ IsRunning(d) => d.controller = c.controller /\ d.attempts = c.attempts
-----------------------------------------------------------------------------
(* The methods *)

LEMMA SteadyEnd ==
    ASSUME NEW c, NEW d, Ended(c, d),
           d.state \in {"idle", "exhausted"},
           d.disposed \/ d.deadlineReached => d.state = "exhausted"
    PROVE  Steady(c, d)
  BY DEF Ended, Steady, Armed

LEMMA ArmedIsNumbered ==
    ASSUME NEW c \in Coordinators, Armed(c)
    PROVE  Numbered(c)
  BY DEF Armed, Numbered, IsRunning, NoRun, Coordinators

LEMMA SteadySelf ==
    ASSUME NEW c \in Coordinators, Armed(c)
    PROVE  Steady(c, c)
  BY DEF Steady

LEMMA SteadySame ==
    ASSUME NEW c, NEW e, NEW d, SameRun(c, e), Steady(e, d)
    PROVE  Steady(c, d)
  BY DEF Steady, SameRun

LEMMA ResetGapFields ==
    ASSUME NEW c \in Coordinators
    PROVE  /\ ResetGap(c) \in Coordinators
           /\ SameRun(c, ResetGap(c))
           /\ ResetGap(c).state = c.state
           /\ ResetGap(c).aborted = c.aborted
           /\ ResetGap(c).attemptTimer <=> c.attemptTimer
           /\ ResetGap(c).deadlineTimer <=> c.deadlineTimer
           /\ ResetGap(c).pendingEvent <=> c.pendingEvent
           /\ ResetGap(c).deadlineReached <=> c.deadlineReached
<1>1. 0 \in 0..1 /\ "none" \in Gaps \cup {"none"}
  OBVIOUS
<1>2. ResetGap(c) \in Coordinators
  BY <1>1 DEF ResetGap, Coordinators
<1>3. SameRun(c, ResetGap(c))
  BY DEF ResetGap, Coordinators, SameRun
<1>4. /\ ResetGap(c).state = c.state
      /\ ResetGap(c).aborted = c.aborted
      /\ ResetGap(c).attemptTimer <=> c.attemptTimer
      /\ ResetGap(c).deadlineTimer <=> c.deadlineTimer
      /\ ResetGap(c).pendingEvent <=> c.pendingEvent
      /\ ResetGap(c).deadlineReached <=> c.deadlineReached
  BY DEF ResetGap, Coordinators
<1> QED
  BY <1>2, <1>3, <1>4

LEMMA AbortCurrentFields ==
    ASSUME NEW c, Numbered(c)
    PROVE  /\ Numbered(AbortCurrent(c))
           /\ SameRun(c, AbortCurrent(c))
           /\ AbortCurrent(c).state = c.state
           /\ AbortCurrent(c).deadlineReached <=> c.deadlineReached
<1>1. c \in Coordinators
  BY DEF Numbered
<1>2. c.aborted \cup ({c.controller} \ {NoRun}) \in SUBSET Runs
  BY <1>1 DEF Coordinators
<1>3. AbortCurrent(c) \in Coordinators
  BY <1>1, <1>2 DEF AbortCurrent, Coordinators
<1>4. /\ SameRun(c, AbortCurrent(c))
      /\ AbortCurrent(c).state = c.state
      /\ AbortCurrent(c).deadlineReached <=> c.deadlineReached
      /\ AbortCurrent(c).aborted = c.aborted \cup ({c.controller} \ {NoRun})
  BY <1>1 DEF AbortCurrent, Coordinators, SameRun
<1>5. Numbered(AbortCurrent(c))
  BY <1>3, <1>4 DEF Numbered, SameRun
<1> QED
  BY <1>4, <1>5

LEMMA DetachFields ==
    ASSUME NEW c, Numbered(c)
    PROVE  /\ Ended(c, Detach(c))
           /\ Detach(c).state = c.state
           /\ Detach(c).deadlineReached <=> c.deadlineReached
<1>1. c \in Coordinators
  BY DEF Numbered
<1>2. Detach(c) \in Coordinators
  BY <1>1 DEF Detach, Coordinators
<1>3. /\ ~IsRunning(Detach(c))
      /\ ~Detach(c).attemptTimer
      /\ ~Detach(c).deadlineTimer
      /\ ~Detach(c).pendingEvent
  BY <1>1 DEF Detach, Coordinators, IsRunning
<1>4. /\ Detach(c).state = c.state
      /\ Detach(c).disposed <=> c.disposed
      /\ Detach(c).deadlineReached <=> c.deadlineReached
      /\ Detach(c).runs = c.runs
      /\ Detach(c).aborted = c.aborted
  BY <1>1 DEF Detach, Coordinators
<1> QED
  BY <1>2, <1>3, <1>4 DEF Ended, Numbered

\* Assigning the state of an ended coordinator leaves it ended.
LEMMA EndedThenState ==
    ASSUME NEW c, NEW d, Ended(c, d),
           NEW s \in {"idle", "exhausted", "waiting", "recovering"},
           NEW e, e = [d EXCEPT !.state = s]
    PROVE  /\ Ended(c, e)
           /\ e.state = s
           /\ e.deadlineReached <=> d.deadlineReached
<1>1. d \in Coordinators
  BY DEF Ended
<1>2. e \in Coordinators
  BY <1>1 DEF Coordinators
<1>3. /\ e.controller = d.controller
      /\ e.aborted = d.aborted
      /\ e.attemptTimer <=> d.attemptTimer
      /\ e.deadlineTimer <=> d.deadlineTimer
      /\ e.pendingEvent <=> d.pendingEvent
      /\ e.disposed <=> d.disposed
      /\ e.runs = d.runs
  BY <1>1 DEF Coordinators
<1>4. /\ e.state = s
      /\ e.deadlineReached <=> d.deadlineReached
  BY <1>1 DEF Coordinators
<1> QED
  BY <1>2, <1>3, <1>4 DEF Ended, IsRunning

LEMMA ToIdleFields ==
    ASSUME NEW c, NEW d, Ended(c, d),
           NEW e, e = ToIdleUnlessExhausted(d)
    PROVE  /\ Ended(c, e)
           /\ e.state = IF d.state = "exhausted" \/ d.disposed
                         THEN d.state ELSE "idle"
           /\ e.deadlineReached <=> d.deadlineReached
<1>1. d.state \in {"idle", "exhausted", "waiting", "recovering"}
  BY DEF Ended, Coordinators
<1>2. PICK s \in {"idle", "exhausted", "waiting", "recovering"} :
         /\ s = IF d.state = "exhausted" \/ d.disposed THEN d.state ELSE "idle"
         /\ e = [d EXCEPT !.state = s]
  BY <1>1 DEF ToIdleUnlessExhausted
<1>3. /\ Ended(c, e)
      /\ e.state = s
      /\ e.deadlineReached <=> d.deadlineReached
  BY <1>2, EndedThenState
<1> QED
  BY <1>2, <1>3

LEMMA FinishCancelledSteady ==
    ASSUME NEW c, Numbered(c),
           c.disposed \/ c.deadlineReached => c.state = "exhausted"
    PROVE  /\ Steady(c, FinishCancelled(c))
           /\ ~IsRunning(FinishCancelled(c))
<1>1. /\ Ended(c, Detach(c))
      /\ Detach(c).state = c.state
      /\ Detach(c).deadlineReached <=> c.deadlineReached
  BY DetachFields
<1>2. Ended(c, FinishCancelled(c))
  BY <1>1, ToIdleFields DEF FinishCancelled
<1>3. /\ FinishCancelled(c).state \in {"idle", "exhausted"}
      /\ c.disposed \/ c.deadlineReached => FinishCancelled(c).state = "exhausted"
      /\ FinishCancelled(c).deadlineReached <=> c.deadlineReached
  BY <1>1, ToIdleFields DEF FinishCancelled, Ended
<1> QED
  BY <1>2, <1>3, SteadyEnd DEF Ended

LEMMA RetireFields ==
    ASSUME NEW c, Numbered(c)
    PROVE  /\ Ended(c, Retire(c))
           /\ Retire(c).state = "exhausted"
           /\ Steady(c, Retire(c))
<1> DEFINE a == AbortCurrent(c)
           d == Detach(a)
           g == ResetGap(d)
<1>1. Numbered(a) /\ SameRun(c, a)
  BY AbortCurrentFields
<1>2. Ended(a, d)
  BY <1>1, DetachFields
<1>3. d \in Coordinators
  BY <1>2 DEF Ended
<1>4. Ended(c, d)
  BY <1>1, <1>2 DEF Ended, SameRun
<1>5. Ended(c, g)
  BY <1>3, <1>4, ResetGapFields DEF Ended, SameRun, IsRunning
<1>6. Retire(c) = [g EXCEPT !.state = "exhausted"]
  BY DEF Retire
<1> HIDE DEF g
<1>7. Ended(c, Retire(c)) /\ Retire(c).state = "exhausted"
  BY <1>5, <1>6, EndedThenState
<1> QED
  BY <1>7, SteadyEnd

LEMMA CancelFields ==
    ASSUME NEW c, Numbered(c)
    PROVE  /\ Ended(c, Cancel(c))
           /\ ~Cancel(c).deadlineReached
           /\ Cancel(c).state = IF c.state = "exhausted" \/ c.disposed
                                 THEN c.state ELSE "idle"
<1> DEFINE a == AbortCurrent(c)
           d == Detach(a)
           g == ResetGap(d)
           e == [g EXCEPT !.deadlineReached = FALSE]
<1>1. Numbered(a) /\ SameRun(c, a) /\ a.state = c.state
  BY AbortCurrentFields
<1>2. Ended(a, d) /\ d.state = a.state
  BY <1>1, DetachFields
<1>3. d \in Coordinators
  BY <1>2 DEF Ended
<1>4. Ended(c, d)
  BY <1>1, <1>2 DEF Ended, SameRun
<1>5. Ended(c, g) /\ g.state = c.state
  BY <1>1, <1>2, <1>3, <1>4, ResetGapFields DEF Ended, SameRun, IsRunning
<1> HIDE DEF g
<1>6. g \in Coordinators
  BY <1>5 DEF Ended
<1>7. e \in Coordinators /\ ~e.deadlineReached /\ e.state = g.state
  BY <1>6 DEF Coordinators
<1>8. /\ e.controller = g.controller
      /\ e.aborted = g.aborted
      /\ e.attemptTimer <=> g.attemptTimer
      /\ e.deadlineTimer <=> g.deadlineTimer
      /\ e.pendingEvent <=> g.pendingEvent
      /\ e.disposed <=> g.disposed
      /\ e.runs = g.runs
  BY <1>6 DEF Coordinators
<1>9. Cancel(c) = ToIdleUnlessExhausted(e)
  BY DEF Cancel, g
<1> HIDE DEF e
<1>10. Ended(c, e)
  BY <1>5, <1>7, <1>8 DEF Ended, IsRunning
<1>11. e.state = c.state /\ (e.disposed <=> c.disposed)
  BY <1>5, <1>7, <1>10 DEF Ended
<1> QED
  BY <1>7, <1>9, <1>10, <1>11, ToIdleFields

LEMMA CancelSteady ==
    ASSUME NEW c, Numbered(c), c.disposed => c.state = "exhausted"
    PROVE  Steady(c, Cancel(c))
<1>1. Cancel(c).state \in {"idle", "exhausted"}
  BY CancelFields
<1>2. Cancel(c).disposed => Cancel(c).state = "exhausted"
  BY CancelFields DEF Ended
<1> QED
  BY <1>1, <1>2, CancelFields, SteadyEnd

LEMMA ResetFields ==
    ASSUME NEW c, Numbered(c), c.disposed => c.state = "exhausted"
    PROVE  /\ Steady(c, Reset(c))
           /\ ~IsRunning(Reset(c))
<1>1. c.state \in {"idle", "exhausted", "waiting", "recovering"}
  BY DEF Numbered, Coordinators
<1>2. /\ Ended(c, Cancel(c))
      /\ ~Cancel(c).deadlineReached
      /\ c.disposed => Cancel(c).state = "exhausted"
      /\ Cancel(c).state \in {"idle", "exhausted"}
  BY <1>1, CancelFields
<1>3. PICK s \in {"idle", "exhausted"} :
         /\ c.disposed => s = "exhausted"
         /\ Reset(c) = [Cancel(c) EXCEPT !.state = s]
  BY <1>2 DEF Reset
<1>4. /\ Ended(c, Reset(c))
      /\ Reset(c).state = s
      /\ ~Reset(c).deadlineReached
  BY <1>2, <1>3, EndedThenState
<1>5. Reset(c).disposed => Reset(c).state = "exhausted"
  BY <1>3, <1>4 DEF Ended
<1>6. ~IsRunning(Reset(c))
  BY <1>4 DEF Ended
<1> QED
  BY <1>3, <1>4, <1>5, <1>6, SteadyEnd

LEMMA FinishSuccessSteady ==
    ASSUME NEW c \in Coordinators, Armed(c), c.state # "exhausted"
    PROVE  Steady(c, FinishSuccess(c)) /\ ~IsRunning(FinishSuccess(c))
<1> DEFINE d == Detach(c)
           e == FinishSuccess(c)
<1>1. ~c.disposed /\ ~c.deadlineReached
  BY DEF Armed
<1>2. Ended(c, d) /\ (d.deadlineReached <=> c.deadlineReached)
  BY ArmedIsNumbered, DetachFields
<1>3. d \in Coordinators
  BY <1>2 DEF Ended
<1>4. e = [d EXCEPT !.gap = "none", !.attempts = 0, !.state = "idle"]
  BY DEF FinishSuccess
<1> HIDE DEF d, e
<1>5. "none" \in Gaps \cup {"none"} /\ 0 \in 0..MaxAttempts
  BY AttemptsAssumption
<1>6. e \in Coordinators
  BY <1>3, <1>4, <1>5 DEF Coordinators
<1>7. /\ e.controller = d.controller
      /\ e.aborted = d.aborted
      /\ e.attemptTimer <=> d.attemptTimer
      /\ e.deadlineTimer <=> d.deadlineTimer
      /\ e.pendingEvent <=> d.pendingEvent
      /\ e.disposed <=> d.disposed
      /\ e.deadlineReached <=> d.deadlineReached
      /\ e.runs = d.runs
  BY <1>3, <1>4 DEF Coordinators
<1>8. e.state = "idle"
  BY <1>3, <1>4 DEF Coordinators
<1>9. Ended(c, e) /\ ~e.disposed /\ ~e.deadlineReached
  BY <1>1, <1>2, <1>6, <1>7 DEF Ended, IsRunning
<1>10. Steady(c, e) /\ ~IsRunning(e)
  BY <1>8, <1>9, SteadyEnd DEF Ended
<1> QED
  BY <1>10 DEF e

LEMMA ScheduleRetrySteady ==
    ASSUME NEW c \in Coordinators, Armed(c), IsRunning(c)
    PROVE  Steady(c, ScheduleRetry(c))
<1> DEFINE e == ScheduleRetry(c)
<1>1. e \in Coordinators
  BY DEF ScheduleRetry, Coordinators
<1>2. /\ SameRun(c, e)
      /\ e.aborted = c.aborted
      /\ e.state = "waiting"
      /\ e.deadlineTimer <=> c.deadlineTimer
      /\ e.deadlineReached <=> c.deadlineReached
  BY DEF ScheduleRetry, Coordinators, SameRun
<1> HIDE DEF e
<1>3. c.state # "exhausted"
  BY DEF Armed
<1>4. Armed(e)
  BY <1>2, <1>3 DEF Armed, SameRun, IsRunning
<1>5. Steady(c, e)
  BY <1>1, <1>2, <1>4 DEF Steady, SameRun
<1> QED
  BY <1>5 DEF e

LEMMA ResetGapSteady ==
    ASSUME NEW c \in Coordinators, Armed(c)
    PROVE  Armed(ResetGap(c)) /\ Steady(c, ResetGap(c))
<1>1. Armed(ResetGap(c))
  BY ResetGapFields DEF Armed, SameRun, IsRunning
<1> QED
  BY <1>1, ResetGapFields DEF Steady, SameRun

\* Noting a gap disturbs nothing but the gap and its count.
LEMMA NoteGapFields ==
    ASSUME NEW c \in Coordinators, Armed(c), NEW gap \in Gaps,
           NoteGap(c, gap).gapCount < 2
    PROVE  /\ NoteGap(c, gap) \in Coordinators
           /\ Armed(NoteGap(c, gap))
           /\ SameRun(c, NoteGap(c, gap))
<1> DEFINE e == NoteGap(c, gap)
           g == IF c.gap = "none" \/ gap = "not_file" THEN gap ELSE c.gap
           n == IF c.gap = "none" THEN 1 ELSE c.gapCount + 1
<1>1. e = [c EXCEPT !.gap = g, !.gapCount = n]
  BY DEF NoteGap
<1>2. n \in Nat /\ g \in Gaps \cup {"none"} /\ e.gapCount = n
  BY <1>1 DEF Coordinators
<1> HIDE DEF g, n
<1>3. n \in 0..1
  BY <1>2
<1>4. /\ SameRun(c, e)
      /\ e.aborted = c.aborted
      /\ e.state = c.state
      /\ e.attemptTimer <=> c.attemptTimer
      /\ e.deadlineTimer <=> c.deadlineTimer
      /\ e.pendingEvent <=> c.pendingEvent
      /\ e.deadlineReached <=> c.deadlineReached
  BY <1>1 DEF Coordinators, SameRun
<1>5. e \in Coordinators
  BY <1>1, <1>2, <1>3 DEF Coordinators
<1> HIDE DEF e
<1>6. Armed(e)
  BY <1>4 DEF Armed, SameRun, IsRunning
<1>7. e \in Coordinators /\ Armed(e) /\ SameRun(c, e)
  BY <1>4, <1>5, <1>6
<1> QED
  BY <1>7 DEF e

LEMMA RetireForgetsGap ==
    ASSUME NEW c \in Coordinators, NEW gap
    PROVE  Retire(NoteGap(c, gap)) = Retire(c)
<1> DEFINE e == NoteGap(c, gap)
           X == c.aborted \cup ({c.controller} \ {NoRun})
<1>1. PICK g, n : e = [c EXCEPT !.gap = g, !.gapCount = n]
  BY DEF NoteGap
<1> HIDE DEF e
<1>2. e.aborted = c.aborted /\ e.controller = c.controller
  BY <1>1 DEF Coordinators
<1>3. /\ AbortCurrent(e) = [e EXCEPT !.aborted = X]
      /\ AbortCurrent(c) = [c EXCEPT !.aborted = X]
  BY <1>2 DEF AbortCurrent
<1> HIDE DEF X
<1>4. ResetGap(Detach([e EXCEPT !.aborted = X]))
        = ResetGap(Detach([c EXCEPT !.aborted = X]))
  BY <1>1, Zenon DEF ResetGap, Detach
<1>5. Retire(e) = Retire(c)
  BY <1>3, <1>4 DEF Retire
<1> QED
  BY <1>5 DEF e

LEMMA BeginRunFields ==
    ASSUME NEW c \in Coordinators, Armed(c), ~IsRunning(c),
           c.state # "exhausted", c.runs < MaxRuns
    PROVE  /\ BeginRun(c) \in Coordinators
           /\ Armed(BeginRun(c))
           /\ ~c.disposed
           /\ ~BeginRun(c).disposed
           /\ BeginRun(c).runs = c.runs + 1
           /\ BeginRun(c).controller = c.runs + 1
           /\ BeginRun(c).attempts = 0
<1> DEFINE g == ResetGap(c)
           e == BeginRun(c)
<1>1. /\ g \in Coordinators
      /\ g.runs = c.runs
      /\ g.aborted = c.aborted
      /\ g.disposed <=> c.disposed
  BY ResetGapFields DEF SameRun
<1>2. c.runs + 1 \in Runs /\ c.runs + 1 \in 0..MaxRuns /\ 0 \in 0..MaxAttempts
  BY AttemptsAssumption, BoundsAssumption DEF Coordinators, Runs
<1>3. e = [g EXCEPT !.runs = @ + 1,
                    !.controller = c.runs + 1,
                    !.attempts = 0,
                    !.pendingEvent = FALSE,
                    !.deadlineReached = FALSE,
                    !.windowElapsed = FALSE,
                    !.state = "waiting",
                    !.deadlineTimer = TRUE,
                    !.attemptTimer = TRUE]
  BY DEF BeginRun
<1> HIDE DEF g, e
<1>4. e \in Coordinators
  BY <1>1, <1>2, <1>3 DEF Coordinators
<1>5. /\ e.runs = c.runs + 1
      /\ e.controller = c.runs + 1
      /\ e.attempts = 0
      /\ e.aborted = c.aborted
      /\ e.state = "waiting"
  BY <1>1, <1>3 DEF Coordinators
<1>6. e.deadlineTimer /\ ~e.deadlineReached /\ (e.disposed <=> c.disposed)
  BY <1>1, <1>3 DEF Coordinators
<1>7. ~c.disposed
  BY DEF Armed
<1>8. c.runs + 1 # NoRun /\ c.runs + 1 \notin c.aborted
  BY DEF Armed, Coordinators, NoRun, Runs
<1>9. /\ IsRunning(e)
      /\ e.controller \notin e.aborted
      /\ \A r \in e.aborted : r <= e.runs
  BY <1>5, <1>8 DEF Armed, IsRunning, Coordinators, Runs
<1>10. Armed(e)
  BY <1>5, <1>6, <1>7, <1>9 DEF Armed
<1> QED
  BY <1>4, <1>5, <1>6, <1>7, <1>10 DEF e

LEMMA BeginAttemptFields ==
    ASSUME NEW c \in Coordinators, Armed(c), IsRunning(c), ~OutOfBudget(c),
           NEW e, e = BeginAttempt([c EXCEPT !.attemptTimer = FALSE])
    PROVE  /\ e \in Coordinators
           /\ Armed(e)
           /\ e.disposed <=> c.disposed
           /\ e.runs = c.runs
           /\ e.controller = c.controller
           /\ e.attempts = c.attempts + 1
<1>1. c.attempts + 1 \in 0..MaxAttempts
  BY AttemptsAssumption DEF OutOfBudget, Coordinators
<1>2. e \in Coordinators
  BY <1>1 DEF BeginAttempt, Coordinators
<1>3. /\ e.runs = c.runs
      /\ e.controller = c.controller
      /\ e.aborted = c.aborted
      /\ e.attempts = c.attempts + 1
      /\ e.state = "recovering"
  BY DEF BeginAttempt, Coordinators
<1>4. /\ e.disposed <=> c.disposed
      /\ e.deadlineTimer <=> c.deadlineTimer
      /\ e.deadlineReached <=> c.deadlineReached
  BY DEF BeginAttempt, Coordinators
<1>5. Armed(e)
  BY <1>3, <1>4 DEF Armed, IsRunning
<1> QED
  BY <1>2, <1>3, <1>4, <1>5

LEMMA CloseFields ==
    ASSUME NEW c \in Coordinators, Armed(c)
    PROVE  /\ Close(c) \in Coordinators
           /\ Armed(Close(c))
           /\ ~IsRunning(Close(c))
           /\ Close(c).disposed
           /\ Close(c).state = "exhausted"
           /\ Close(c).runs = c.runs
<1> DEFINE x == [c EXCEPT !.disposed = TRUE]
           d == Cancel(x)
<1>1. /\ x \in Coordinators
      /\ x.controller = c.controller
      /\ x.runs = c.runs
      /\ x.aborted = c.aborted
      /\ x.disposed
  BY DEF Coordinators
<1>2. Numbered(x)
  BY <1>1, ArmedIsNumbered DEF Numbered
<1> HIDE DEF x
<1>3. Ended(x, d)
  BY <1>2, CancelFields
<1> HIDE DEF d
<1>4. Close(c) = [d EXCEPT !.state = "exhausted"]
  BY DEF Close, d, x
<1>5. Ended(x, Close(c)) /\ Close(c).state = "exhausted"
  BY <1>3, <1>4, EndedThenState
<1>6. Steady(x, Close(c))
  BY <1>5, SteadyEnd
<1> QED
  BY <1>1, <1>5, <1>6 DEF Ended, Steady

\* The timer that has just called back is no longer armed.
LEMMA FiredFields ==
    ASSUME NEW c \in Coordinators, Armed(c),
           NEW e, e = [c EXCEPT !.attemptTimer = FALSE]
    PROVE  /\ e \in Coordinators
           /\ Armed(e)
           /\ SameRun(c, e)
<1>1. e \in Coordinators
  BY DEF Coordinators
<1>2. /\ SameRun(c, e)
      /\ e.aborted = c.aborted
      /\ e.state = c.state
      /\ ~e.attemptTimer
      /\ e.deadlineTimer <=> c.deadlineTimer
      /\ e.pendingEvent <=> c.pendingEvent
      /\ e.deadlineReached <=> c.deadlineReached
  BY DEF Coordinators, SameRun
<1>3. Armed(e)
  BY <1>2 DEF Armed, SameRun, IsRunning
<1> QED
  BY <1>1, <1>2, <1>3
-----------------------------------------------------------------------------
(* The endings *)

LEMMA GiveUpSteady ==
    ASSUME NEW c, Numbered(c), NEW reason, GiveUp(c, reason)
    PROVE  Steady(c, coord') /\ ~IsRunning(coord')
<1>1. CASE coord' = Retire(c)
  BY <1>1, RetireFields DEF Ended
<1>2. CASE coord' = Reset(Retire(c))
  <2>1. /\ Ended(c, Retire(c))
        /\ Retire(c).state = "exhausted"
    BY RetireFields
  <2>2. Numbered(Retire(c))
    BY <2>1 DEF Ended, Numbered, IsRunning, NoRun, Coordinators
  <2>3. /\ Steady(Retire(c), coord')
        /\ ~IsRunning(coord')
    BY <1>2, <2>1, <2>2, ResetFields
  <2> QED
    BY <2>1, <2>3 DEF Ended, Steady
<1> QED
  BY <1>1, <1>2 DEF GiveUp

LEMMA ExhaustSteady ==
    ASSUME NEW c, Numbered(c), c.disposed => c.state = "exhausted", Exhaust(c)
    PROVE  Steady(c, coord') /\ ~IsRunning(coord')
<1>1. CASE c.state = "exhausted"
  BY <1>1, FinishCancelledSteady DEF Exhaust, Assign, Numbered
<1>2. CASE c.state # "exhausted"
  BY <1>2, GiveUpSteady DEF Exhaust
<1> QED
  BY <1>1, <1>2

LEMMA TerminateSteady ==
    ASSUME NEW c, Numbered(c), NEW reason, Terminate(c, reason)
    PROVE  Steady(c, coord')
  BY RetireFields DEF Terminate

LEMMA RetrySteady ==
    ASSUME NEW c \in Coordinators, Armed(c), Retry(c)
    PROVE  Steady(c, coord')
<1>1. CASE IsRunning(c) /\ coord' = ScheduleRetry(c)
  BY <1>1, ScheduleRetrySteady
<1>2. CASE Exhaust(c)
  BY <1>2, ArmedIsNumbered, ExhaustSteady DEF Armed
<1> QED
  BY <1>1, <1>2 DEF Retry, Assign

LEMMA HandleGapSteady ==
    ASSUME NEW c \in Coordinators, Armed(c), NEW gap \in Gaps, HandleGap(c, gap)
    PROVE  Steady(c, coord')
<1> DEFINE e == NoteGap(c, gap)
<1>1. CASE e.gapCount >= 2
  <2>1. coord' = Retire(e)
    BY <1>1 DEF HandleGap, Terminate
  <2> QED
    BY <2>1, RetireForgetsGap, RetireFields, ArmedIsNumbered
<1>2. CASE ~(e.gapCount >= 2)
  <2>1. e.gapCount < 2
    <3>1. e.gapCount \in Nat
      BY DEF NoteGap, Coordinators
    <3> QED
      BY <1>2, <3>1
  <2>2. /\ e \in Coordinators
        /\ Armed(e)
        /\ SameRun(c, e)
    BY <2>1, NoteGapFields
  <2>3. Retry(e)
    BY <1>2 DEF HandleGap
  <2> HIDE DEF e
  <2>4. Steady(e, coord')
    BY <2>2, <2>3, RetrySteady
  <2> QED
    BY <2>2, <2>4, SteadySame
<1> QED
  BY <1>1, <1>2
-----------------------------------------------------------------------------
(* What a step may do to the coordinator *)

Settles == Steady(coord, coord') /\ UNCHANGED started

RunBegins ==
    /\ ~IsRunning(coord)
    /\ coord.state # "exhausted"
    /\ coord.runs < MaxRuns
    /\ coord' = BeginRun(coord)
    /\ UNCHANGED started

AttemptBegins ==
    /\ IsRunning(coord)
    /\ ~OutOfBudget(coord)
    /\ coord' = BeginAttempt([coord EXCEPT !.attemptTimer = FALSE])
    /\ started' = [started EXCEPT ![coord.controller] = @ + 1]

Closes ==
    /\ ~coord.disposed
    /\ coord' = Close(coord)
    /\ UNCHANGED started

CoordinatorStep == Settles \/ RunBegins \/ AttemptBegins \/ Closes

LEMMA NotifyUnknownStep ==
    ASSUME coord \in Coordinators, RunsAreArmed, NotifyUnknown, UNCHANGED started
    PROVE  Settles \/ RunBegins
<1> DEFINE e == [coord EXCEPT !.pendingEvent = TRUE]
<1>1. CASE UNCHANGED coord
  BY <1>1, SteadySelf DEF Settles, RunsAreArmed
<1>2. CASE IsRunning(coord) /\ coord' = e
  <2>1. e \in Coordinators
    BY DEF Coordinators
  <2>2. /\ SameRun(coord, e)
        /\ e.aborted = coord.aborted
        /\ e.state = coord.state
        /\ e.deadlineTimer <=> coord.deadlineTimer
        /\ e.deadlineReached <=> coord.deadlineReached
    BY DEF Coordinators, SameRun
  <2> HIDE DEF e
  <2>3. Armed(e)
    BY <1>2, <2>2 DEF RunsAreArmed, Armed, SameRun, IsRunning
  <2>4. Steady(coord, e)
    BY <2>1, <2>2, <2>3 DEF Steady, SameRun
  <2> QED
    BY <1>2, <2>4 DEF Settles
<1>3. CASE /\ coord.state # "exhausted"
           /\ ~IsRunning(coord)
           /\ coord.runs < MaxRuns
           /\ coord' = BeginRun(coord)
  BY <1>3 DEF RunBegins
<1> QED
  BY <1>1, <1>2, <1>3 DEF NotifyUnknown

LEMMA AttemptStep ==
    ASSUME coord \in Coordinators, RunsAreArmed, NEW t \in Tasks, Attempt(t)
    PROVE  CoordinatorStep
<1>1. /\ Numbered(coord)
      /\ coord.disposed => coord.state = "exhausted"
      /\ coord.disposed \/ coord.deadlineReached => coord.state = "exhausted"
  BY ArmedIsNumbered DEF RunsAreArmed, Armed
<1>2. Armed(coord)
  BY DEF RunsAreArmed
<1>3. FinishCancelled(coord) = coord' => Steady(coord, coord')
  BY <1>1, FinishCancelledSteady
<1>4. coord' = coord => Steady(coord, coord')
  BY <1>2, SteadySelf
<1>5. CASE AttemptTimerFires(t)
  <2> DEFINE fired == [coord EXCEPT !.attemptTimer = FALSE]
  <2>1. /\ fired \in Coordinators
        /\ Armed(fired)
        /\ SameRun(coord, fired)
    BY <1>2, FiredFields
  <2>2. CASE coord' = FinishCancelled(fired) /\ UNCHANGED started
    <3>1. fired.disposed \/ fired.deadlineReached => fired.state = "exhausted"
      BY <2>1 DEF Armed
    <3>2. Steady(fired, coord')
      BY <2>1, <2>2, <3>1, ArmedIsNumbered, FinishCancelledSteady
    <3> HIDE DEF fired
    <3> QED
      BY <2>1, <2>2, <3>2, SteadySame DEF CoordinatorStep, Settles
  <2>3. CASE Exhaust(fired) /\ UNCHANGED started
    <3>1. fired.disposed => fired.state = "exhausted"
      BY <2>1 DEF Armed
    <3>2. Steady(fired, coord')
      BY <2>1, <2>3, <3>1, ArmedIsNumbered, ExhaustSteady
    <3> HIDE DEF fired
    <3> QED
      BY <2>1, <2>3, <3>2, SteadySame DEF CoordinatorStep, Settles
  <2>4. CASE AttemptBegins
    BY <2>4 DEF CoordinatorStep
  <2> QED
    BY <1>5, <2>2, <2>3, <2>4 DEF AttemptTimerFires, Assign, AttemptBegins
<1>6. CASE AttemptAborted(t)
  <2>1. Exhaust(coord) => Steady(coord, coord')
    BY <1>1, ExhaustSteady
  <2> QED
    BY <1>3, <1>6, <2>1 DEF AttemptAborted, Assign, CoordinatorStep, Settles
<1>7. CASE ProbeSuperseded(t)
  BY <1>3, <1>7 DEF ProbeSuperseded, Assign, CoordinatorStep, Settles
<1>8. ASSUME NEW d \in SecondDispositions, ProbeEndsAttempt(t, d)
      PROVE  CoordinatorStep
  <2>1. Terminate(coord, d) => Steady(coord, coord')
    BY <1>1, TerminateSteady
  <2>2. d \in Gaps /\ HandleGap(coord, d) => Steady(coord, coord')
    BY <1>2, HandleGapSteady
  <2>3. Exhaust(ResetGap(coord)) => Steady(coord, coord')
    <3>1. /\ ResetGap(coord) \in Coordinators
          /\ Armed(ResetGap(coord))
          /\ SameRun(coord, ResetGap(coord))
      BY <1>2, ResetGapFields, ResetGapSteady
    <3>2. ResetGap(coord).disposed => ResetGap(coord).state = "exhausted"
      BY <3>1 DEF Armed
    <3> QED
      BY <3>1, <3>2, ArmedIsNumbered, ExhaustSteady, SteadySame
  <2>4. Retry(ResetGap(coord)) => Steady(coord, coord')
    BY <1>2, ResetGapFields, ResetGapSteady, RetrySteady, SteadySame
  <2>5. Retry(coord) => Steady(coord, coord')
    BY <1>2, RetrySteady
  <2> QED
    BY <1>8, <2>1, <2>2, <2>3, <2>4, <2>5
       DEF ProbeEndsAttempt, CoordinatorStep, Settles
<1>9. CASE FirstProbeFits(t)
  BY <1>2, <1>9, ResetGapSteady DEF FirstProbeFits, Assign, CoordinatorStep, Settles
<1>10. CASE QuietElapses(t) \/ SecondProbeFits(t) \/ RebuildQueueClears(t)
  BY <1>4, <1>10 DEF QuietElapses, SecondProbeFits, RebuildQueueClears, Assign,
                     CoordinatorStep, Settles
<1>11. CASE RebuildSuperseded(t)
  BY <1>1, <1>11, TerminateSteady DEF RebuildSuperseded, CoordinatorStep, Settles
<1>12. ASSUME NEW why \in Rejections, RebuildRejects(t, why)
       PROVE  CoordinatorStep
  <2>1. Terminate(coord, why) => Steady(coord, coord')
    BY <1>1, TerminateSteady
  <2>2. Retry(coord) => Steady(coord, coord')
    BY <1>2, RetrySteady
  <2>3. GiveUp(coord, "unknown") => Steady(coord, coord')
    BY <1>1, GiveUpSteady
  <2> QED
    BY <1>12, <2>1, <2>2, <2>3 DEF RebuildRejects, CoordinatorStep, Settles
<1>13. CASE RebuildAdopts(t)
  BY <1>4, <1>13 DEF RebuildAdopts, CoordinatorStep, Settles
<1>14. CASE PublishDelivered(t)
  <2>1. coord.state # "exhausted" /\ coord' = FinishSuccess(coord)
          => Steady(coord, coord')
    BY <1>2, FinishSuccessSteady
  <2> QED
    BY <1>4, <1>14, <2>1 DEF PublishDelivered, Assign, CoordinatorStep, Settles
<1> QED
  BY <1>5, <1>6, <1>7, <1>8, <1>9, <1>10, <1>11, <1>12, <1>13, <1>14 DEF Attempt

LEMMA ClockStep ==
    ASSUME coord \in Coordinators, RunsAreArmed, WindowElapses \/ DeadlineFires
    PROVE  CoordinatorStep
<1>1. Armed(coord) /\ Numbered(coord)
  BY ArmedIsNumbered DEF RunsAreArmed
<1>2. CASE WindowElapses
  <2> DEFINE e == [coord EXCEPT !.windowElapsed = TRUE]
  <2>1. e \in Coordinators
    BY DEF Coordinators
  <2>2. /\ SameRun(coord, e)
        /\ e.aborted = coord.aborted
        /\ e.state = coord.state
        /\ e.attemptTimer <=> coord.attemptTimer
        /\ e.deadlineTimer <=> coord.deadlineTimer
        /\ e.pendingEvent <=> coord.pendingEvent
        /\ e.deadlineReached <=> coord.deadlineReached
    BY DEF Coordinators, SameRun
  <2>3. coord' = e /\ UNCHANGED started
    BY <1>2 DEF WindowElapses
  <2> HIDE DEF e
  <2>4. Armed(e)
    BY <1>1, <2>2 DEF Armed, SameRun, IsRunning
  <2> QED
    BY <2>1, <2>2, <2>3, <2>4 DEF CoordinatorStep, Settles, Steady, SameRun
<1>3. CASE DeadlineFires
  <2> DEFINE a == AbortCurrent(coord)
             fired == [a EXCEPT !.deadlineTimer = FALSE,
                                !.deadlineReached = TRUE,
                                !.attemptTimer = FALSE]
  <2>1. /\ Numbered(a)
        /\ SameRun(coord, a)
        /\ a.state = coord.state
    BY <1>1, AbortCurrentFields
  <2>2. a \in Coordinators
    BY <2>1 DEF Numbered
  <2>3. IsRunning(coord) /\ Exhaust(fired) /\ UNCHANGED started
    BY <1>1, <1>3 DEF DeadlineFires, Armed
  <2> HIDE DEF a
  <2>4. /\ fired \in Coordinators
        /\ SameRun(a, fired)
        /\ fired.state = a.state
        /\ fired.aborted = a.aborted
    BY <2>2 DEF Coordinators, SameRun
  <2>5. ~fired.disposed
    BY <1>1, <2>1, <2>3, <2>4 DEF Armed, SameRun
  <2> HIDE DEF fired
  <2>6. Numbered(fired)
    BY <2>1, <2>4 DEF Numbered, SameRun
  <2>7. Steady(fired, coord') /\ ~IsRunning(coord')
    BY <2>3, <2>5, <2>6, ExhaustSteady
  <2>8. Steady(coord, coord')
    BY <2>1, <2>4, <2>7 DEF Steady, SameRun
  <2> QED
    BY <2>3, <2>8 DEF CoordinatorStep, Settles
<1> QED
  BY <1>2, <1>3

LEMMA DocumentStep ==
    ASSUME coord \in Coordinators, RunsAreArmed, Document \/ Report
    PROVE  CoordinatorStep
<1>1. Armed(coord) /\ Numbered(coord) /\ (coord.disposed => coord.state = "exhausted")
  BY ArmedIsNumbered DEF RunsAreArmed, Armed
<1>2. /\ coord' = coord => Steady(coord, coord')
      /\ coord' = Cancel(coord) => Steady(coord, coord')
      /\ coord' = Reset(coord) => Steady(coord, coord')
  BY <1>1, SteadySelf, CancelSteady, ResetFields
<1>3. ASSUME NEW kind \in RefreshKinds, Reconcile(kind)
      PROVE  CoordinatorStep
  <2>1. UNCHANGED started
    BY <1>3 DEF Reconcile
  <2>2. CASE NotifyUnknown
    BY <2>1, <2>2, NotifyUnknownStep DEF CoordinatorStep
  <2>3. CASE coord' = coord \/ coord' = Cancel(coord)
    BY <1>2, <2>1, <2>3 DEF CoordinatorStep, Settles
  <2> QED
    BY <1>3, <2>2, <2>3 DEF Reconcile
<1>4. CASE RequestRebuild
  BY <1>2, <1>4 DEF RequestRebuild, CoordinatorStep, Settles
<1>5. ASSUME NEW adopted \in BOOLEAN, RebuildEnds(adopted)
      PROVE  CoordinatorStep
  BY <1>2, <1>5 DEF RebuildEnds, CoordinatorStep, Settles
<1>6. ASSUME NEW enabled \in BOOLEAN, SetFollowMode(enabled)
      PROVE  CoordinatorStep
  BY <1>2, <1>6 DEF SetFollowMode, CoordinatorStep, Settles
<1>7. CASE DisposeDocument
  BY <1>7 DEF DisposeDocument, CoordinatorStep, Closes
<1>8. CASE Report
  BY <1>2, <1>8 DEF Report, CoordinatorStep, Settles
<1> QED
  BY <1>3, <1>4, <1>5, <1>6, <1>7, <1>8 DEF Document

LEMMA NextStep ==
    ASSUME coord \in Coordinators, RunsAreArmed, Next
    PROVE  CoordinatorStep
  BY AttemptStep, ClockStep, DocumentStep DEF Next

\* What every step leaves behind.
LEMMA StepIsArmed ==
    ASSUME coord \in Coordinators, RunsAreArmed, [Next]_vars
    PROVE  coord' \in Coordinators /\ RunsAreArmed'
<1>1. CASE UNCHANGED vars
  BY <1>1 DEF vars, RunsAreArmed
<1>2. CASE Settles
  BY <1>2 DEF Settles, Steady, RunsAreArmed
<1>3. CASE RunBegins
  BY <1>3, BeginRunFields DEF RunBegins, RunsAreArmed
<1>4. CASE AttemptBegins
  BY <1>4, BeginAttemptFields DEF AttemptBegins, RunsAreArmed
<1>5. CASE Closes
  BY <1>5, CloseFields DEF Closes, RunsAreArmed
<1> QED
  BY <1>1, <1>2, <1>3, <1>4, <1>5, NextStep DEF CoordinatorStep

\* Every step leaves the slots of the suspended attempts well-formed.
LEMMA TaskStep ==
    ASSUME coord \in Coordinators,
           task \in [Tasks -> {Idle} \cup [at: Awaits, run: Runs]],
           [Next]_vars
    PROVE  task' \in [Tasks -> {Idle} \cup [at: Awaits, run: Runs]]
<1> DEFINE Slot == {Idle} \cup [at: Awaits, run: Runs]
<1>1. CASE UNCHANGED task
  BY <1>1
<1>2. ASSUME NEW t \in Tasks, Release(t)
      PROVE  task' \in [Tasks -> Slot]
  BY <1>2 DEF Release
<1>3. ASSUME NEW t \in Tasks, NEW at \in Awaits, task[t] # Idle, Suspend(t, at)
      PROVE  task' \in [Tasks -> Slot]
  <2>1. [task[t] EXCEPT !.at = at] \in [at: Awaits, run: Runs]
    BY <1>3
  <2>2. task' = [task EXCEPT ![t] = [task[t] EXCEPT !.at = at]]
    BY <1>3 DEF Suspend
  <2> QED
    BY <2>1, <2>2
<1>4. ASSUME NEW t \in Tasks, Attempt(t)
      PROVE  task' \in [Tasks -> Slot]
  <2>1. CASE AttemptTimerFires(t)
    <3>1. CASE UNCHANGED task
      BY <3>1
    <3>2. CASE /\ IsRunning(coord)
               /\ task' = [task EXCEPT ![t] = [at |-> "probe", run |-> coord.controller]]
      <4>1. [at |-> "probe", run |-> coord.controller] \in [at: Awaits, run: Runs]
        BY <3>2 DEF IsRunning, Coordinators, Awaits
      <4> QED
        BY <3>2, <4>1
    <3> QED
      BY <2>1, <3>1, <3>2 DEF AttemptTimerFires
  <2>2. CASE Release(t)
    BY <1>2, <2>2
  <2>3. CASE \E at \in Awaits : task[t] # Idle /\ Suspend(t, at)
    BY <1>3, <2>3
  <2>4. task[t].at \in Awaits => task[t] # Idle
    BY DEF Idle, Awaits
  <2>5. CASE RebuildAdopts(t)
    <3>1. ASSUME NEW u \in Tasks
          PROVE  (IF Sharing(u) THEN [at |-> "publish", run |-> task[u].run]
                                ELSE task[u]) \in Slot
      <4>1. CASE Sharing(u)
        <5>1. task[u] # Idle
          BY <4>1 DEF Sharing, Idle
        <5>2. task[u].run \in Runs
          BY <5>1
        <5> QED
          BY <4>1, <5>2 DEF Awaits
      <4>2. CASE ~Sharing(u)
        BY <4>2
      <4> QED
        BY <4>1, <4>2
    <3> QED
      BY <2>5, <3>1 DEF RebuildAdopts
  <2> QED
    BY <1>4, <2>1, <2>2, <2>3, <2>4, <2>5
       DEF Attempt, AttemptAborted, ProbeSuperseded, ProbeEndsAttempt,
           FirstProbeFits, QuietElapses, SecondProbeFits, RebuildQueueClears,
           RebuildSuperseded, RebuildRejects, PublishDelivered, Awaits
<1>5. CASE WindowElapses \/ DeadlineFires \/ Report \/ Document
  BY <1>1, <1>5
     DEF WindowElapses, DeadlineFires, Report, Document, Reconcile,
         RequestRebuild, RebuildEnds, SetFollowMode, DisposeDocument
<1> QED
  BY <1>1, <1>4, <1>5 DEF Next, vars

Notices == (RefreshKinds \ {"unchanged", "append"}) \cup {"none"}

\* What the document assigns keeps its type.
LEMMA HostStep ==
    ASSUME TypeOK, [Next]_vars
    PROVE  /\ expectedOf' \in [Runs -> Generations]
           /\ generation' \in Generations
           /\ rebuilding' \in SUBSET {"user", "follow"}
           /\ followMode' \in BOOLEAN
<1>1. followMode' \in BOOLEAN
  <2>1. CASE UNCHANGED followMode
    BY <2>1 DEF TypeOK
  <2>2. CASE \E enabled \in BOOLEAN : followMode' = enabled
    BY <2>2
  <2> QED
    BY <2>1, <2>2
       DEF Next, vars, Attempt, AttemptTimerFires, AttemptAborted, ProbeSuperseded,
           ProbeEndsAttempt, FirstProbeFits, QuietElapses, SecondProbeFits,
           RebuildQueueClears, RebuildSuperseded, RebuildRejects, RebuildAdopts,
           PublishDelivered, WindowElapses, DeadlineFires, Report, Document,
           Reconcile, RequestRebuild, RebuildEnds, SetFollowMode,
           DisposeDocument, hostVars
<1>2. generation' \in Generations
  <2>1. CASE UNCHANGED generation
    BY <2>1 DEF TypeOK
  <2>2. CASE generation < MaxGenerations /\ generation' = generation + 1
    BY <2>2, BoundsAssumption DEF TypeOK, Generations
  <2> QED
    BY <2>1, <2>2
       DEF Next, vars, Attempt, AttemptTimerFires, AttemptAborted, ProbeSuperseded,
           ProbeEndsAttempt, FirstProbeFits, QuietElapses, SecondProbeFits,
           RebuildQueueClears, RebuildSuperseded, RebuildRejects, RebuildAdopts,
           PublishDelivered, WindowElapses, DeadlineFires, Report, Document,
           Reconcile, RequestRebuild, RebuildEnds, SetFollowMode,
           DisposeDocument, hostVars
<1>3. rebuilding' \in SUBSET {"user", "follow"}
  <2>1. CASE UNCHANGED rebuilding
    BY <2>1 DEF TypeOK
  <2>2. CASE \E who \in {"user", "follow"} : rebuilding' = rebuilding \cup {who}
    BY <2>2 DEF TypeOK
  <2>3. CASE rebuilding' = {}
    BY <2>3
  <2> QED
    BY <2>1, <2>2, <2>3
       DEF Next, vars, Attempt, AttemptTimerFires, AttemptAborted, ProbeSuperseded,
           ProbeEndsAttempt, FirstProbeFits, QuietElapses, SecondProbeFits,
           RebuildQueueClears, RebuildSuperseded, RebuildRejects, RebuildAdopts,
           PublishDelivered, WindowElapses, DeadlineFires, Report, Document,
           Reconcile, RequestRebuild, RebuildEnds, SetFollowMode,
           DisposeDocument, hostVars
<1>4. expectedOf' \in [Runs -> Generations]
  <2>1. CASE UNCHANGED expectedOf
    BY <2>1 DEF TypeOK
  <2>2. CASE NotifyUnknown
    BY <2>2 DEF NotifyUnknown, TypeOK
  <2> QED
    BY <2>1, <2>2
       DEF Next, vars, Attempt, AttemptTimerFires, AttemptAborted, ProbeSuperseded,
           ProbeEndsAttempt, FirstProbeFits, QuietElapses, SecondProbeFits,
           RebuildQueueClears, RebuildSuperseded, RebuildRejects, RebuildAdopts,
           PublishDelivered, WindowElapses, DeadlineFires, Report, Document,
           Reconcile, RequestRebuild, RebuildEnds, SetFollowMode,
           DisposeDocument
<1> QED
  BY <1>1, <1>2, <1>3, <1>4

Announced ==
    /\ reporting' \in Nat
    /\ notice' \in Notices
    /\ reconcileDue' \in BOOLEAN

Announcing ==
    /\ reporting \in Nat
    /\ notice \in Notices
    /\ reconcileDue \in BOOLEAN

LEMMA QuietAnnounces ==
    ASSUME Announcing, UNCHANGED <<reporting, notice, reconcileDue>>
    PROVE  Announced
  BY DEF Announcing, Announced

LEMMA DueIsBoolean ==
    ASSUME NEW p, reconcileDue' = (reconcileDue \/ p)
    PROVE  reconcileDue' \in BOOLEAN
  BY Zenon

LEMMA GiveUpAnnounces ==
    ASSUME Announcing, NEW c, NEW reason \in Destructive \cup {"unknown"},
           GiveUp(c, reason)
    PROVE  Announced
<1>1. reason \in Notices
  BY DEF Notices, RefreshKinds, Destructive
<1>2. reporting' \in Nat
  BY DEF GiveUp, Announcing
<1>3. notice' \in Notices
  BY <1>1 DEF GiveUp, Announcing
<1>4. reconcileDue' \in BOOLEAN
  <2>1. CASE UNCHANGED reconcileDue
    BY <2>1 DEF Announcing
  <2>2. CASE reconcileDue' = (reconcileDue \/ ~c.disposed)
    BY <2>2, DueIsBoolean
  <2> QED
    BY <2>1, <2>2, Zenon DEF GiveUp
<1> QED
  BY <1>2, <1>3, <1>4 DEF Announced

LEMMA ReasonOfGapIsKnown ==
    ASSUME NEW gap \in Gaps \cup {"none"}
    PROVE  ReasonOfGap(gap) \in Destructive \cup {"unknown"}
  BY DEF ReasonOfGap, Gaps, Destructive

LEMMA TerminateAnnounces ==
    ASSUME Announcing, NEW c, NEW reason \in Destructive \cup {"unknown"},
           Terminate(c, reason)
    PROVE  Announced
  BY DEF Terminate, Announcing, Announced, Notices, RefreshKinds, Destructive

LEMMA ExhaustAnnounces ==
    ASSUME Announcing, NEW c, c.gap \in Gaps \cup {"none"}, Exhaust(c)
    PROVE  Announced
  BY QuietAnnounces, GiveUpAnnounces, ReasonOfGapIsKnown DEF Exhaust, Assign

LEMMA RetryAnnounces ==
    ASSUME Announcing, NEW c, c.gap \in Gaps \cup {"none"}, Retry(c)
    PROVE  Announced
  BY QuietAnnounces, ExhaustAnnounces DEF Retry, Assign

LEMMA HandleGapAnnounces ==
    ASSUME Announcing, NEW c \in Coordinators, NEW gap \in Gaps, HandleGap(c, gap)
    PROVE  Announced
<1> DEFINE e == NoteGap(c, gap)
<1>1. e.gap \in Gaps \cup {"none"}
  BY DEF NoteGap, Coordinators
<1>2. HandleGap(c, gap) => Terminate(e, ReasonOfGap(e.gap)) \/ Retry(e)
  BY DEF HandleGap
<1> HIDE DEF e
<1> QED
  BY <1>1, <1>2, ReasonOfGapIsKnown, TerminateAnnounces, RetryAnnounces

\* What the panels and the reconcile loop are told keeps its type.
LEMMA AnnouncedStep ==
    ASSUME TypeOK, RunsAreArmed, [Next]_vars
    PROVE  Announced
<1>1. Announcing /\ coord \in Coordinators
  BY DEF TypeOK, Announcing, Notices
<1>2. coord.gap \in Gaps \cup {"none"}
  BY <1>1 DEF Coordinators
<1>3. /\ ResetGap(coord) \in Coordinators
      /\ ResetGap(coord).gap \in Gaps \cup {"none"}
  BY <1>1, ResetGapFields DEF Coordinators
<1>4. ASSUME NEW c, Assign(c)
      PROVE  Announced
  BY <1>1, <1>4, QuietAnnounces DEF Assign
<1>5. ASSUME NEW t \in Tasks, Attempt(t)
      PROVE  Announced
  <2>1. CASE AttemptTimerFires(t)
    <3> DEFINE fired == [coord EXCEPT !.attemptTimer = FALSE]
    <3>1. fired.gap \in Gaps \cup {"none"}
      BY <1>1 DEF Coordinators
    <3>2. (\E c : Assign(c)) \/ Exhaust(fired)
      BY <2>1 DEF AttemptTimerFires
    <3> HIDE DEF fired
    <3> QED
      BY <1>1, <1>4, <3>1, <3>2, ExhaustAnnounces
  <2>2. CASE AttemptAborted(t) \/ ProbeSuperseded(t)
    BY <1>1, <1>2, <1>4, <2>2, ExhaustAnnounces DEF AttemptAborted, ProbeSuperseded
  <2>3. ASSUME NEW d \in SecondDispositions, ProbeEndsAttempt(t, d)
        PROVE  Announced
    BY <1>1, <1>2, <1>3, <2>3, TerminateAnnounces, HandleGapAnnounces,
       ExhaustAnnounces, RetryAnnounces DEF ProbeEndsAttempt
  <2>4. CASE \/ FirstProbeFits(t) \/ QuietElapses(t) \/ SecondProbeFits(t)
             \/ RebuildQueueClears(t)
    BY <1>4, <2>4
       DEF FirstProbeFits, QuietElapses, SecondProbeFits, RebuildQueueClears
  <2>5. CASE RebuildSuperseded(t)
    BY <1>1, <2>5, TerminateAnnounces DEF RebuildSuperseded, Destructive
  <2>6. ASSUME NEW why \in Rejections, RebuildRejects(t, why)
        PROVE  Announced
    BY <1>1, <1>2, <2>6, TerminateAnnounces, RetryAnnounces, GiveUpAnnounces
       DEF RebuildRejects
  <2>7. CASE RebuildAdopts(t)
    BY <1>1, <2>7 DEF RebuildAdopts, Announcing, Announced, Notices
  <2>8. CASE PublishDelivered(t)
    <3>1. CASE Assign(coord)
      BY <1>4, <3>1
    <3>2. CASE /\ reconcileDue' = (reconcileDue \/ coord.pendingEvent)
               /\ UNCHANGED <<reporting, notice>>
      BY <1>1, <3>2, DueIsBoolean DEF Announcing, Announced
    <3> QED
      BY <2>8, <3>1, <3>2, Zenon DEF PublishDelivered
  <2> QED
    BY <1>5, <2>1, <2>2, <2>3, <2>4, <2>5, <2>6, <2>7, <2>8 DEF Attempt
<1>6. CASE WindowElapses
  BY <1>1, <1>6, QuietAnnounces DEF WindowElapses
<1>7. CASE DeadlineFires
  <2> DEFINE fired == [AbortCurrent(coord) EXCEPT !.deadlineTimer = FALSE,
                                                  !.deadlineReached = TRUE,
                                                  !.attemptTimer = FALSE]
  <2>1. fired.gap \in Gaps \cup {"none"}
    BY <1>1 DEF AbortCurrent, Coordinators
  <2>2. (\E c : Assign(c)) \/ Exhaust(fired)
    BY <1>7 DEF DeadlineFires
  <2> HIDE DEF fired
  <2> QED
    BY <1>1, <1>4, <2>1, <2>2, ExhaustAnnounces
<1>8. CASE Report
  <2>1. reporting' \in Nat /\ UNCHANGED notice
    BY <1>1, <1>8 DEF Report, Announcing
  <2>2. CASE UNCHANGED reconcileDue
    BY <1>1, <2>1, <2>2 DEF Announcing, Announced
  <2>3. CASE reconcileDue' = (reconcileDue \/ ~coord.disposed)
    BY <1>1, <2>1, <2>3, DueIsBoolean DEF Announcing, Announced
  <2> QED
    BY <1>8, <2>2, <2>3, Zenon DEF Report
<1>9. CASE Document
  <2>1. reporting' = reporting
    BY <1>9 DEF Document, Reconcile, RequestRebuild, RebuildEnds, SetFollowMode,
                DisposeDocument
  <2>2. notice' \in {notice, "none"} \cup Destructive
    BY <1>9 DEF Document, Reconcile, RequestRebuild, RebuildEnds, SetFollowMode,
                DisposeDocument
  <2>3. UNCHANGED reconcileDue \/ reconcileDue' = FALSE
    BY <1>9, Zenon DEF Document, Reconcile, RequestRebuild, RebuildEnds, SetFollowMode,
                DisposeDocument
  <2>4. reconcileDue' \in BOOLEAN
    <3>1. reconcileDue \in BOOLEAN
      BY <1>1 DEF Announcing
    <3> QED
      BY <2>3, <3>1, Zenon
  <2>5. notice' \in Notices
    BY <1>1, <2>2 DEF Announcing, Notices, RefreshKinds, Destructive
  <2> QED
    BY <1>1, <2>1, <2>4, <2>5 DEF Announcing, Announced
<1>10. CASE UNCHANGED vars
  BY <1>1, <1>10, QuietAnnounces DEF vars
<1> QED
  BY <1>5, <1>6, <1>7, <1>8, <1>9, <1>10 DEF Next
-----------------------------------------------------------------------------
(* Theorems *)

\* Whatever attempt, timer, command or late tail wrote the coordinator last,
\* it has a deadline exactly while it has a run and nothing else pending.
THEOREM AlwaysArmed == Spec => []RunsAreArmed
<1> DEFINE IInv == coord \in Coordinators /\ RunsAreArmed
<1>1. Init => IInv
  BY AttemptsAssumption, BoundsAssumption
     DEF Init, Coordinators, RunsAreArmed, Armed, IsRunning, NoRun
<1>2. IInv /\ [Next]_vars => IInv'
  BY StepIsArmed
<1> QED
  BY <1>1, <1>2, PTL DEF Spec

\* Every field keeps its type, the gap count and the attempts their bounds.
THEOREM TypeCorrect == Spec => []TypeOK
<1> DEFINE IInv == TypeOK /\ RunsAreArmed
<1>1. Init => IInv
  <2>1. Init => coord \in Coordinators /\ RunsAreArmed
    BY AttemptsAssumption, BoundsAssumption
       DEF Init, Coordinators, RunsAreArmed, Armed, IsRunning, NoRun
  <2>2. 1 \in Generations
    BY BoundsAssumption DEF Generations
  <2>3. Init => followMode \in BOOLEAN /\ reconcileDue \in BOOLEAN
    BY DEF Init
  <2>4. Init => /\ expectedOf \in [Runs -> Generations]
                /\ started \in [Runs -> Nat]
                /\ task \in [Tasks -> {Idle} \cup [at: Awaits, run: Runs]]
                /\ reporting \in Nat
                /\ generation \in Generations
                /\ rebuilding \in SUBSET {"user", "follow"}
                /\ notice \in Notices
    BY <2>2 DEF Init, Notices
  <2> QED
    BY <2>1, <2>3, <2>4 DEF TypeOK, Notices
<1>2. ASSUME IInv, [Next]_vars
      PROVE  IInv'
  <2>1. coord' \in Coordinators /\ RunsAreArmed'
    BY <1>2, StepIsArmed DEF TypeOK
  <2>2. task' \in [Tasks -> {Idle} \cup [at: Awaits, run: Runs]]
    BY <1>2, TaskStep DEF TypeOK
  <2>3. started' \in [Runs -> Nat]
    <3>1. CASE UNCHANGED started
      BY <1>2, <3>1 DEF TypeOK
    <3>2. CASE AttemptBegins
      <4>1. coord.controller \in Runs
        BY <1>2, <3>2 DEF TypeOK, AttemptBegins, IsRunning, Coordinators
      <4>2. started[coord.controller] + 1 \in Nat
        BY <1>2, <4>1 DEF TypeOK
      <4> QED
        BY <1>2, <3>2, <4>2 DEF TypeOK, AttemptBegins
    <3> QED
      BY <1>2, <3>1, <3>2, NextStep
         DEF TypeOK, CoordinatorStep, Settles, RunBegins, Closes, vars
  <2>4. expectedOf' \in [Runs -> Generations]
    BY <1>2, HostStep
  <2>5. generation' \in Generations /\ rebuilding' \in SUBSET {"user", "follow"}
    BY <1>2, HostStep
  <2>6. followMode' \in BOOLEAN
    BY <1>2, HostStep
  <2>7. reporting' \in Nat /\ notice' \in Notices /\ reconcileDue' \in BOOLEAN
    BY <1>2, AnnouncedStep DEF Announced
  <2> QED
    BY <2>1, <2>2, <2>3, <2>4, <2>5, <2>6, <2>7 DEF TypeOK, Notices
<1> QED
  BY <1>1, <1>2, PTL DEF Spec

\* No run begins more than maxAttempts candidate attempts: the coordinator's
\* own count is the number of attempts its run has begun.
THEOREM BudgetHolds == Spec => []AttemptBudget
<1> DEFINE Counted ==
             /\ started \in [Runs -> 0..MaxAttempts]
             /\ IsRunning(coord) => started[coord.controller] = coord.attempts
             /\ \A r \in Runs : r > coord.runs => started[r] = 0
           IInv == coord \in Coordinators /\ RunsAreArmed /\ Counted
<1>1. Init => IInv
  BY AttemptsAssumption, BoundsAssumption
     DEF Init, Coordinators, RunsAreArmed, Armed, IsRunning, NoRun, Runs
<1>2. ASSUME IInv, [Next]_vars
      PROVE  IInv'
  <2>1. coord' \in Coordinators /\ RunsAreArmed'
    BY <1>2, StepIsArmed
  <2>2. CASE UNCHANGED vars
    BY <1>2, <2>1, <2>2 DEF vars, IsRunning
  <2>3. CASE Settles
    BY <1>2, <2>1, <2>3 DEF Settles, Steady, IsRunning
  <2>4. CASE RunBegins
    <3>1. /\ coord'.runs = coord.runs + 1
          /\ coord'.controller = coord.runs + 1
          /\ coord'.attempts = 0
      BY <1>2, <2>4, BeginRunFields DEF RunBegins, RunsAreArmed
    <3>2. coord.runs + 1 \in Runs /\ coord.runs \in Nat
      BY <1>2, <2>4, BoundsAssumption DEF RunBegins, Coordinators, Runs
    <3>3. started[coord.runs + 1] = 0
      BY <1>2, <3>2
    <3>4. \A r \in Runs : r > coord.runs + 1 => r > coord.runs
      BY <3>2 DEF Runs
    <3> QED
      BY <1>2, <2>1, <2>4, <3>1, <3>3, <3>4 DEF RunBegins
  <2>5. CASE AttemptBegins
    <3>1. /\ coord'.runs = coord.runs
          /\ coord'.controller = coord.controller
          /\ coord'.attempts = coord.attempts + 1
      BY <1>2, <2>5, BeginAttemptFields DEF AttemptBegins, RunsAreArmed
    <3>2. coord.controller \in Runs /\ coord.controller = coord.runs
      BY <1>2, <2>5 DEF AttemptBegins, RunsAreArmed, Armed, IsRunning, Coordinators
    <3>3. started[coord.controller] + 1 \in 0..MaxAttempts
      BY <2>1, <1>2, <2>5, <3>1 DEF AttemptBegins, Coordinators
    <3>4. started' \in [Runs -> 0..MaxAttempts]
      BY <1>2, <2>5, <3>3 DEF AttemptBegins
    <3>5. started'[coord'.controller] = coord'.attempts
      BY <1>2, <2>5, <3>1, <3>2 DEF AttemptBegins
    <3>6. ASSUME NEW r \in Runs, r > coord'.runs
          PROVE  started'[r] = 0
      <4>1. coord.runs \in Nat /\ r \in Nat
        BY <1>2 DEF Coordinators, Runs
      <4>2. r # coord.controller /\ r > coord.runs
        BY <3>1, <3>2, <3>6, <4>1
      <4> QED
        BY <1>2, <2>5, <4>2 DEF AttemptBegins
    <3> QED
      BY <2>1, <3>4, <3>5, <3>6
  <2>6. CASE Closes
    <3>1. ~IsRunning(coord') /\ coord'.runs = coord.runs
      BY <1>2, <2>6, CloseFields DEF Closes, RunsAreArmed
    <3> QED
      BY <1>2, <2>1, <2>6, <3>1 DEF Closes
  <2> QED
    BY <1>2, <2>2, <2>3, <2>4, <2>5, <2>6, NextStep DEF CoordinatorStep
<1>3. IInv => AttemptBudget
  BY AttemptsAssumption DEF AttemptBudget
<1> QED
  BY <1>1, <1>2, <1>3, PTL DEF Spec

\* With follow on, only a rebuild the user asks for makes an exhausted
\* coordinator usable again; a late panel, probe or deadline does not.
THEOREM StickyHolds == Spec => ExhaustionIsSticky
<1> DEFINE IInv == coord \in Coordinators /\ RunsAreArmed
           Sticky == coord.state = "exhausted" /\ followMode /\ followMode'
                       => coord'.state = "exhausted" \/ RequestRebuild
<1>1. Init => IInv
  BY AttemptsAssumption, BoundsAssumption
     DEF Init, Coordinators, RunsAreArmed, Armed, IsRunning, NoRun
<1>2. IInv /\ [Next]_vars => IInv'
  BY StepIsArmed
<1>3. ASSUME IInv, Next, coord.state = "exhausted", followMode, followMode'
      PROVE  coord'.state = "exhausted" \/ RequestRebuild
  <2>1. /\ Numbered(coord)
        /\ Armed(coord)
        /\ ~IsRunning(coord)
        /\ ~coord.attemptTimer
        /\ ~coord.deadlineTimer
    BY <1>3, ArmedIsNumbered DEF RunsAreArmed, Armed
  <2>2. ASSUME NEW c \in {coord, ResetGap(coord)}
        PROVE  /\ Exhaust(c) => coord'.state = "exhausted"
               /\ Retry(c) => coord'.state = "exhausted"
    <3>1. Numbered(c) /\ ~IsRunning(c) /\ c.state = "exhausted"
      BY <1>3, <2>1, <2>2, ResetGapFields DEF Numbered, SameRun, IsRunning
    <3>2. FinishCancelled(c).state = "exhausted"
      BY <3>1, DetachFields, ToIdleFields DEF FinishCancelled
    <3> QED
      BY <3>1, <3>2 DEF Exhaust, Retry, Assign
  <2>3. ASSUME NEW reason
        PROVE  /\ GiveUp(coord, reason) => coord'.state = "exhausted"
               /\ Terminate(coord, reason) => coord'.state = "exhausted"
    BY <1>3, <2>1, RetireFields DEF GiveUp, Terminate
  <2>4. ASSUME NEW gap \in Gaps, HandleGap(coord, gap)
        PROVE  coord'.state = "exhausted"
    <3> DEFINE e == NoteGap(coord, gap)
    <3>1. CASE Terminate(e, ReasonOfGap(e.gap))
      BY <1>3, <2>1, <3>1, RetireForgetsGap, RetireFields DEF Terminate
    <3>2. CASE Retry(e) /\ e.gapCount < 2
      <4>1. e.state = "exhausted"
        BY <1>3 DEF NoteGap, Coordinators
      <4>2. /\ e \in Coordinators
            /\ Armed(e)
            /\ SameRun(coord, e)
        BY <1>3, <2>1, <3>2, NoteGapFields
      <4> HIDE DEF e
      <4>3. Numbered(e) /\ ~IsRunning(e)
        BY <2>1, <4>2, ArmedIsNumbered DEF SameRun, IsRunning
      <4>4. FinishCancelled(e).state = "exhausted"
        BY <4>1, <4>3, DetachFields, ToIdleFields DEF FinishCancelled
      <4> QED
        BY <3>2, <4>1, <4>3, <4>4 DEF Exhaust, Retry, Assign
    <3>3. e.gapCount \in Nat
      BY <1>3 DEF NoteGap, Coordinators
    <3> QED
      BY <2>4, <3>1, <3>2, <3>3 DEF HandleGap
  <2>5. FinishCancelled(coord).state = "exhausted"
    BY <1>3, <2>1, DetachFields, ToIdleFields DEF FinishCancelled
  <2>6. ResetGap(coord).state = "exhausted"
    BY <1>3, ResetGapFields
  <2>7. ASSUME NEW t \in Tasks, Attempt(t)
        PROVE  coord'.state = "exhausted"
    <3>1. CASE AttemptTimerFires(t)
      BY <2>1, <3>1 DEF AttemptTimerFires
    <3>2. CASE AttemptAborted(t) \/ ProbeSuperseded(t)
      BY <2>2, <2>5, <3>2 DEF AttemptAborted, ProbeSuperseded, Assign
    <3>3. ASSUME NEW d \in SecondDispositions, ProbeEndsAttempt(t, d)
          PROVE  coord'.state = "exhausted"
      BY <2>2, <2>3, <2>4, <3>3 DEF ProbeEndsAttempt
    <3>4. CASE \/ FirstProbeFits(t) \/ QuietElapses(t) \/ SecondProbeFits(t)
               \/ RebuildQueueClears(t) \/ RebuildAdopts(t)
      BY <1>3, <2>6, <3>4 DEF FirstProbeFits, QuietElapses, SecondProbeFits,
                              RebuildQueueClears, RebuildAdopts, Assign
    <3>5. CASE RebuildSuperseded(t)
      BY <2>3, <3>5 DEF RebuildSuperseded
    <3>6. ASSUME NEW why \in Rejections, RebuildRejects(t, why)
          PROVE  coord'.state = "exhausted"
      BY <2>2, <2>3, <3>6 DEF RebuildRejects
    <3>7. CASE PublishDelivered(t)
      BY <1>3, <3>7 DEF PublishDelivered, Assign
    <3> QED
      BY <2>7, <3>1, <3>2, <3>3, <3>4, <3>5, <3>6, <3>7 DEF Attempt
  <2>8. CASE WindowElapses \/ DeadlineFires
    BY <2>1, <2>8 DEF WindowElapses, DeadlineFires
  <2>9. CASE Report
    BY <1>3, <2>9 DEF Report
  <2>10. ASSUME NEW kind \in RefreshKinds, Reconcile(kind)
         PROVE  coord'.state = "exhausted"
    BY <1>3, <2>1, <2>10 DEF Reconcile, NotifyUnknown
  <2>11. ASSUME NEW adopted \in BOOLEAN, RebuildEnds(adopted)
         PROVE  coord'.state = "exhausted"
    BY <1>3, <2>11 DEF RebuildEnds
  <2>12. ASSUME NEW enabled \in BOOLEAN, SetFollowMode(enabled)
         PROVE  coord'.state = "exhausted"
    BY <1>3, <2>12, Zenon DEF SetFollowMode
  <2>13. CASE DisposeDocument
    BY <1>3, <2>1, <2>13, CloseFields DEF DisposeDocument
  <2> QED
    BY <1>3, <2>7, <2>8, <2>9, <2>10, <2>11, <2>12, <2>13 DEF Next, Document
<1>4. IInv /\ [Next]_vars => [Sticky]_vars
  BY <1>3
<1> QED
  BY <1>1, <1>2, <1>4, PTL DEF Spec, ExhaustionIsSticky

\* An attempt whose run was cancelled, reset or retired while it waited
\* announces, reports, publishes and adopts nothing when it resumes.
THEOREM RetiredSilentHolds == Spec => RetiredAttemptsAreSilent
<1> DEFINE Slots == task \in [Tasks -> {Idle} \cup [at: Awaits, run: Runs]]
           IInv == coord \in Coordinators /\ RunsAreArmed /\ Slots
           Silent == \A t \in Tasks :
                       Aborted(t) /\ task'[t] # task[t]
                         => UNCHANGED <<generation, notice, reporting, reconcileDue>>
<1>1. Init => IInv
  BY AttemptsAssumption, BoundsAssumption
     DEF Init, Coordinators, RunsAreArmed, Armed, IsRunning, NoRun
<1>2. ASSUME IInv, [Next]_vars
      PROVE  IInv'
  <2>1. coord' \in Coordinators /\ RunsAreArmed'
    BY <1>2, StepIsArmed
  <2>2. Slots'
    BY <1>2, TaskStep
  <2> QED
    BY <2>1, <2>2
<1>3. ASSUME IInv, Next, NEW t \in Tasks, Aborted(t), task'[t] # task[t]
      PROVE  UNCHANGED <<generation, notice, reporting, reconcileDue>>
  <2>1. task[t] # Idle
    BY <1>3 DEF Aborted, Idle, Coordinators, NoRun, Runs
  <2>2. coord.deadlineReached => coord.state = "exhausted"
    BY <1>3 DEF RunsAreArmed, Armed
  <2>3. ASSUME NEW u \in Tasks, Attempt(u)
        PROVE  u = t
    <3>1. CASE RebuildAdopts(u)
      <4>1. ~Sharing(t)
        BY <1>3 DEF Sharing
      <4> QED
        BY <1>3, <3>1, <4>1 DEF RebuildAdopts
    <3>2. CASE ~RebuildAdopts(u)
      <4>1. \A v \in Tasks \ {u} : task'[v] = task[v]
        BY <1>3, <2>3, <3>2
           DEF Attempt, AttemptTimerFires, AttemptAborted, ProbeSuperseded,
               ProbeEndsAttempt, FirstProbeFits, QuietElapses, SecondProbeFits,
               RebuildQueueClears, RebuildSuperseded, RebuildRejects,
               PublishDelivered, Suspend, Release
      <4> QED
        BY <1>3, <4>1
    <3> QED
      BY <3>1, <3>2
  <2>4. CASE Attempt(t)
    BY <1>3, <2>1, <2>2, <2>4
       DEF Attempt, AttemptTimerFires, AttemptAborted, ProbeSuperseded,
           ProbeEndsAttempt, FirstProbeFits, QuietElapses, SecondProbeFits,
           RebuildQueueClears, RebuildSuperseded, RebuildRejects,
           RebuildAdopts, Sharing, PublishDelivered, Exhaust, Assign, hostVars
  <2>5. UNCHANGED task => task'[t] = task[t]
    OBVIOUS
  <2>6. CASE WindowElapses \/ DeadlineFires \/ Report \/ Document
    BY <1>3, <2>5, <2>6
       DEF WindowElapses, DeadlineFires, Report, Document, Reconcile,
           RequestRebuild, RebuildEnds, SetFollowMode, DisposeDocument
  <2> QED
    BY <1>3, <2>3, <2>4, <2>6 DEF Next
<1>4. IInv /\ [Next]_vars => [Silent]_vars
  BY <1>3
<1> QED
  BY <1>1, <1>2, <1>4, PTL DEF Spec, RetiredAttemptsAreSilent

\* Recovery is a sequence of runs, one at a time, each started from rest:
\* every step of the coordinator is a step of RecoveryLifecycle or none.
THEOREM RefinesLifecycle ==
    Spec => Lifecycle!Init /\ [][Lifecycle!Next]_(Lifecycle!lifecycleVars)
<1> DEFINE IInv == coord \in Coordinators /\ RunsAreArmed
<1>1. Init => IInv /\ Lifecycle!Init
  BY AttemptsAssumption, BoundsAssumption
     DEF Init, Coordinators, RunsAreArmed, Armed, IsRunning, NoRun,
         Lifecycle!Init, PhaseOf
<1>2. IInv /\ [Next]_vars => IInv'
  BY StepIsArmed
<1>3. ASSUME IInv, [Next]_vars
      PROVE  [Lifecycle!Next]_(Lifecycle!lifecycleVars)
  <2>1. /\ coord.disposed \in BOOLEAN
        /\ coord.disposed => PhaseOf(coord) = "stopped"
        /\ PhaseOf(coord) = "running" <=> IsRunning(coord)
        /\ PhaseOf(coord) \in {"idle", "running", "stopped"}
    BY <1>3 DEF RunsAreArmed, Armed, PhaseOf, Coordinators
  <2>2. CASE UNCHANGED vars
    BY <2>2 DEF vars, Lifecycle!lifecycleVars
  <2>3. CASE Settles
    <3>1. /\ coord'.disposed = coord.disposed
          /\ coord'.runs = coord.runs
          /\ PhaseOf(coord') \in {"idle", "running", "stopped"}
          /\ PhaseOf(coord') = "running" => PhaseOf(coord) = "running"
          /\ coord.disposed => PhaseOf(coord') = "stopped"
      BY <1>3, <2>3
         DEF Settles, Steady, Armed, PhaseOf, IsRunning, Coordinators
    <3> QED
      BY <2>1, <3>1
         DEF Lifecycle!Next, Lifecycle!Settle, Lifecycle!Stop, Lifecycle!Resume,
             Lifecycle!lifecycleVars
  <2>4. CASE RunBegins
    <3>1. /\ coord'.runs = coord.runs + 1
          /\ coord'.controller = coord.runs + 1
          /\ ~coord.disposed
          /\ coord'.disposed = coord.disposed
          /\ coord' \in Coordinators
      BY <1>3, <2>4, BeginRunFields DEF RunBegins, RunsAreArmed, Coordinators
    <3>2. PhaseOf(coord) = "idle" /\ PhaseOf(coord') = "running"
      BY <1>3, <2>4, <3>1 DEF RunBegins, PhaseOf, IsRunning, NoRun, Coordinators
    <3> QED
      BY <3>1, <3>2 DEF Lifecycle!Next, Lifecycle!Start
  <2>5. CASE AttemptBegins
    <3>1. /\ coord'.runs = coord.runs
          /\ coord'.controller = coord.controller
          /\ coord'.disposed = coord.disposed
      BY <1>3, <2>5, BeginAttemptFields
         DEF AttemptBegins, RunsAreArmed, Coordinators
    <3>2. PhaseOf(coord') = PhaseOf(coord)
      BY <2>5, <3>1 DEF AttemptBegins, PhaseOf, IsRunning
    <3> QED
      BY <3>1, <3>2 DEF Lifecycle!lifecycleVars
  <2>6. CASE Closes
    <3>1. /\ coord'.disposed = TRUE
          /\ coord'.runs = coord.runs
          /\ PhaseOf(coord') = "stopped"
      BY <1>3, <2>6, CloseFields DEF Closes, RunsAreArmed, PhaseOf, Coordinators
    <3> QED
      BY <2>6, <3>1 DEF Closes, Lifecycle!Next, Lifecycle!Close
  <2> QED
    BY <1>3, <2>2, <2>3, <2>4, <2>5, <2>6, NextStep DEF CoordinatorStep
<1> QED
  BY <1>1, <1>2, <1>3, PTL DEF Spec
=============================================================================
