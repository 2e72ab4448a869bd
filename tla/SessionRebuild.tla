--------------------------- MODULE SessionRebuild ---------------------------
(***************************************************************************)
(* IntegratedJsonlSession of src/src/extension/integrated-session.ts: the  *)
(* one rebuild in flight that callers share, queue behind or are refused,  *)
(* its awaits up to the adoption of the candidate, background indexing of  *)
(* the engine shown, deferred profile detection with its tail pass, and    *)
(* disposal.  Every await of performRebuild splits it into two actions.    *)
(*                                                                         *)
(* The options are those of src/src/extension/extension.ts:107-116 (with   *)
(* automatic, deferred profile detection), and an engine is the life,      *)
(* the extent of the index and the background loops of one JsonlFileEngine.*)
(***************************************************************************)
EXTENDS Naturals

CONSTANTS
    FollowCallers,   \* rebuildStable calls, one per recovery run
    PanelCallers,    \* REBUILD_INDEX requests of panels
    CommandCallers,  \* rebuilds of the command, whose signal nobody aborts
    Profiles,        \* profiles of the registry
    Generic,         \* the profile of a session that has detected nothing
    MaxEngines       \* bound: engines opened in a behaviour

ASSUME ProfilesAssumption == Generic \in Profiles
ASSUME EnginesAssumption == MaxEngines \in Nat \ {0}
ASSUME CallersAssumption ==
    /\ FollowCallers \cap PanelCallers = {}
    /\ FollowCallers \cap CommandCallers = {}
    /\ PanelCallers \cap CommandCallers = {}

VARIABLES
    life,        \* life of each engine: "unopened", "open" or "disposed"
    indexed,     \* engines whose index is complete
    loops,       \* background indexing loops that have not settled
    engine,      \* this.engine
    background,  \* the engine of this.background, NoEngine if undefined
    op,          \* the rebuild in flight
    caller,      \* what has become of each caller
    profileId,
    chosen,      \* history: the profile the user has chosen, if any
    suggested,   \* the engine whose records this.suggestions were made of
    detection,   \* the deferred profile detection in flight
    tailPass,    \* history: how the tail pass of the engine shown has ended
    flags,       \* profileDetectionScheduled, tailDetection*, the immediate
    disposed

vars == <<life, indexed, loops, engine, background, op, caller, profileId,
          chosen, suggested, detection, tailPass, flags, disposed>>
engineVars == <<life, indexed, loops>>
detectionVars == <<profileId, chosen, suggested, detection, tailPass, flags>>
-----------------------------------------------------------------------------
(* Values *)

NoEngine == 0
Engines == 1..MaxEngines
Callers == FollowCallers \cup PanelCallers \cup CommandCallers
None == "none"

Loops == [of : Engines, cancelled : BOOLEAN]

\* "tail" is includeTail: the pass reads the end of a complete index, too.
Detections == [of : Engines, tail : BOOLEAN, aborted : BOOLEAN]
NoDetection == [of |-> NoEngine, tail |-> FALSE, aborted |-> FALSE]

Flags ==
    [scheduled : BOOLEAN,               \* profileDetectionScheduled
     tailOf : Engines \cup {NoEngine},  \* tailDetectionGeneration
     tailWanted : BOOLEAN,              \* tailDetectionRequested
     again : BOOLEAN]                   \* the immediate of the finally clause

Outcomes == {"ok", "failed", "cancelled"}
Awaits == {"proving", "opening", "detecting", "reproving", "checking",
           "disposing", "settling"}

\* The operation of performRebuild and the fields rebuildAbort,
\* rebuildInFlightRequiresStable and rebuildExpectedIdentityKey beside it.
Operations ==
    [at : Awaits, by : Callers, stable : BOOLEAN, aborted : BOOLEAN,
     expected : Engines \cup {NoEngine}, next : Engines \cup {NoEngine},
     saved : Profiles, found : Profiles, outcome : Outcomes \cup {None}]
NoOp ==
    [at |-> None, by |-> None, stable |-> FALSE, aborted |-> FALSE,
     expected |-> NoEngine, next |-> NoEngine,
     saved |-> Generic, found |-> Generic, outcome |-> None]

\* "queued" callers wait for another's operation in startRebuild and
\* "resuming" ones are about to try again; "sharing" callers take the
\* outcome of the operation in flight.
CallerStates == {"idle", "queued", "resuming", "sharing"} \cup Outcomes
CallerRecords ==
    [state : CallerStates, aborted : BOOLEAN,
     expected : Engines \cup {NoEngine}]
IdleCaller == [state |-> "idle", aborted |-> FALSE, expected |-> NoEngine]

Waiting == {"queued", "resuming", "sharing"}

TypeOK ==
    /\ life \in [Engines -> {"unopened", "open", "disposed"}]
    /\ indexed \subseteq Engines
    /\ loops \subseteq Loops
    /\ engine \in Engines
    /\ background \in Engines \cup {NoEngine}
    /\ op \in Operations \cup {NoOp}
    /\ caller \in [Callers -> CallerRecords]
    /\ profileId \in Profiles
    /\ chosen \in Profiles \cup {None}
    /\ suggested \in Engines \cup {NoEngine}
    /\ detection \in Detections \cup {NoDetection}
    /\ tailPass \in {"none", "taken", "lost"}
    /\ flags \in Flags
    /\ disposed \in BOOLEAN

\* IntegratedJsonlSession.open with deferred detection: the generic shell is
\* returned before anything is detected or indexed.
Init ==
    /\ life = [e \in Engines |-> IF e = 1 THEN "open" ELSE "unopened"]
    /\ indexed = {}
    /\ loops = {}
    /\ engine = 1
    /\ background = NoEngine
    /\ op = NoOp
    /\ caller = [c \in Callers |-> IdleCaller]
    /\ profileId = Generic
    /\ chosen = None
    /\ suggested = NoEngine
    /\ detection = NoDetection
    /\ tailPass = "none"
    /\ flags = [scheduled |-> FALSE, tailOf |-> NoEngine,
                tailWanted |-> FALSE, again |-> FALSE]
    /\ disposed = FALSE
-----------------------------------------------------------------------------
(* Background indexing and profile detection *)

\* this.profileExplicitlySelected.
Explicit == chosen # None

\* startBackgroundIndexing on engine e, over what background and the loops
\* are when it is called.
StartIndexing(e, bg, ls) ==
    IF disposed \/ bg # NoEngine
      THEN background' = bg /\ loops' = ls
      ELSE /\ background' = e
           /\ loops' = ls \cup {[of |-> e, cancelled |-> FALSE]}

CancelLoops(of, ls) ==
    {IF l.of = of THEN [l EXCEPT !.cancelled = TRUE] ELSE l : l \in ls}

\* startDeferredProfileDetection, over the set of complete indexes and the
\* flags it is called with.
StartDetection(complete, fl) ==
    LET tail == engine \in complete /\ fl.tailOf # engine
    IN  IF disposed
          THEN flags' = fl /\ UNCHANGED detection
        ELSE IF detection # NoDetection
          THEN /\ flags' = [fl EXCEPT !.tailWanted = @ \/ tail]
               /\ UNCHANGED detection
        ELSE IF ~tail /\ fl.tailOf = engine /\ ~fl.tailWanted
          THEN flags' = fl /\ UNCHANGED detection
        ELSE /\ detection' = [of |-> engine, tail |-> tail, aborted |-> FALSE]
             /\ flags' = IF tail
                           THEN [fl EXCEPT !.tailOf = engine,
                                           !.tailWanted = FALSE]
                           ELSE fl

\* getRows answers a page; reading may have completed the index.
\* scheduleDeferredProfileDetection arms one immediate.
PageRead ==
    /\ life[engine] = "open"
    /\ indexed' \in {indexed, indexed \cup {engine}}
    /\ flags' = [flags EXCEPT
                   !.scheduled = @ \/ (detection = NoDetection /\ ~disposed)]
    /\ UNCHANGED <<life, loops, engine, background, op, caller, profileId,
                   chosen, suggested, detection, tailPass, disposed>>

\* Mutant of ScheduledDetection: background indexing is not looked after.
ScheduledDetectionOnly ==
    /\ flags.scheduled
    /\ StartDetection(indexed, [flags EXCEPT !.scheduled = FALSE])
    /\ UNCHANGED <<engineVars, engine, background, op, caller, profileId,
                   chosen, suggested, tailPass, disposed>>

\* The immediate armed by scheduleDeferredProfileDetection.
ScheduledDetection ==
    /\ flags.scheduled
    /\ StartDetection(indexed, [flags EXCEPT !.scheduled = FALSE])
    /\ StartIndexing(engine, background, loops)
    /\ UNCHANGED <<life, indexed, engine, op, caller, profileId, chosen,
                   suggested, tailPass, disposed>>

\* The immediate armed by the finally clause of a detection.
RepeatedDetection ==
    /\ flags.again
    /\ StartDetection(indexed, [flags EXCEPT !.again = FALSE])
    /\ UNCHANGED <<engineVars, engine, background, op, caller, profileId,
                   chosen, suggested, tailPass, disposed>>

\* The detection in flight ends: its result is taken, or there is none.
Ended(how) ==
    /\ detection' = NoDetection
    /\ tailPass' = IF detection.tail /\ detection.of = engine
                     THEN how ELSE tailPass

\* Mutant of DetectionEnds: the result is taken whatever engine is shown.
DetectionOfAnyEngine ==
    /\ detection # NoDetection
    /\ suggested' = detection.of
    /\ Ended("taken")
    /\ UNCHANGED <<engineVars, engine, background, op, caller, profileId,
                   chosen, flags, disposed>>

\* Mutant of DetectionEnds: the tail pass asked for meanwhile is forgotten.
DetectionForgetsTail ==
    /\ detection # NoDetection
    /\ Ended("lost")
    /\ flags' = [flags EXCEPT !.tailWanted = FALSE]
    /\ UNCHANGED <<engineVars, engine, background, op, caller, profileId,
                   chosen, suggested, disposed>>

\* The then, catch and finally clauses of a detection.  A result is taken
\* unless the detection was aborted or another engine is shown; a failure is
\* swallowed.  A tail pass asked for meanwhile is started by another immediate.
DetectionEnds ==
    /\ detection # NoDetection
    /\ \/ \E p \in Profiles :
            /\ ~detection.aborted
            /\ ~disposed
            /\ detection.of = engine
            /\ profileId' = IF Explicit THEN profileId ELSE p
            /\ suggested' = detection.of
            /\ Ended("taken")
       \/ Ended("lost") /\ UNCHANGED <<profileId, suggested>>
    /\ flags' = IF flags.tailWanted /\ ~disposed
                  THEN [flags EXCEPT !.tailWanted = FALSE, !.again = TRUE]
                  ELSE flags
    /\ UNCHANGED <<engineVars, engine, background, op, caller, chosen,
                   disposed>>

\* A step of a background loop of the engine: indexMore, then onProgress of
\* the session.  A cancelled loop may still deliver the step it was in.
LoopStep(l) ==
    /\ l \in loops
    /\ life[l.of] = "open"
    /\ \E done \in {l.of \in indexed, TRUE} :
         /\ indexed' = IF done THEN indexed \cup {l.of} ELSE indexed
         /\ loops' = IF done \/ l.cancelled THEN loops \ {l} ELSE loops
         /\ IF done /\ l.of = engine /\ ~disposed
              THEN StartDetection(indexed', flags)
              ELSE UNCHANGED <<detection, flags>>
    /\ UNCHANGED <<life, engine, background, op, caller, profileId, chosen,
                   suggested, tailPass, disposed>>

\* A loop settles without progress: it was cancelled, its engine was disposed
\* of, or the source has changed under it.  this.background is left as it is.
LoopSettles(l) ==
    /\ l \in loops
    /\ loops' = loops \ {l}
    /\ UNCHANGED <<life, indexed, engine, background, op, caller,
                   detectionVars, disposed>>
-----------------------------------------------------------------------------
(* startRebuild and performRebuild *)

\* Mutant of MustWait: whatever rebuild is in flight is shared.
NobodyWaits(stable, expected) == FALSE

\* waitForExisting: a stable rebuild is shared by callers of the same
\* identity only, an ordinary one by ordinary callers.
MustWait(stable, expected) ==
    /\ op # NoOp
    /\ stable \/ op.stable
    /\ ~(stable /\ op.stable /\ op.expected = expected)

\* performRebuild up to its first await.  It aborts the detection in flight,
\* refuses a stable rebuild of a generation that is no longer shown, and asks
\* the old engine for a proof only when it has an exact baseline.
BeginRebuild(c, expected) ==
    LET stable == c \in FollowCallers
        begun == [NoOp EXCEPT !.by = c, !.stable = stable,
                              !.expected = expected]
    IN  /\ detection' = IF detection = NoDetection THEN detection
                        ELSE [detection EXCEPT !.aborted = TRUE]
        /\ IF stable /\ expected # engine
             THEN op' = [begun EXCEPT !.at = "settling", !.outcome = "failed"]
             ELSE \E at \in {"opening"} \cup (IF stable THEN {"proving"} ELSE {}) :
                    op' = [begun EXCEPT !.at = at]

\* startRebuild for a caller whose signal is not aborted.
StartRebuild(c, expected) ==
    LET stable == c \in FollowCallers
        enter(state) == caller' = [caller EXCEPT
                          ![c].state = state, ![c].expected = expected]
    IN  IF MustWait(stable, expected)
          THEN enter("queued") /\ UNCHANGED <<op, detection>>
        ELSE IF op # NoOp
          THEN enter("sharing") /\ UNCHANGED <<op, detection>>
        ELSE enter("sharing") /\ BeginRebuild(c, expected)

\* The coordinator asks for the generation it has just seen to be current, one
\* run at a time; a panel or the command asks for whatever there is.
Call(c) ==
    /\ caller[c].state = "idle"
    /\ ~disposed
    /\ c \in FollowCallers =>
         \A other \in FollowCallers : caller[other].state \notin Waiting
    /\ StartRebuild(c, IF c \in FollowCallers THEN engine ELSE NoEngine)
    /\ UNCHANGED <<engineVars, engine, background, profileId, chosen,
                   suggested, tailPass, flags, disposed>>

\* A caller that had to wait tries again once the other operation settled.
Resume(c) ==
    /\ caller[c].state = "resuming"
    /\ StartRebuild(c, caller[c].expected)
    /\ UNCHANGED <<engineVars, engine, background, profileId, chosen,
                   suggested, tailPass, flags, disposed>>

\* waitForOperation rejects at once when the caller's signal is aborted; the
\* signal of the caller that started a stable rebuild also aborts it.
Abandon(c) ==
    /\ caller[c].state \in Waiting
    /\ c \notin CommandCallers
    /\ caller' = [caller EXCEPT ![c].state = "cancelled",
                                ![c].aborted = TRUE]
    /\ op' = IF op.stable /\ op.by = c
               THEN [op EXCEPT !.aborted = TRUE] ELSE op
    /\ UNCHANGED <<engineVars, engine, background, detectionVars, disposed>>

\* The operation ends without adopting: a candidate is disposed of first.
Reject(outcome) ==
    /\ op' = [op EXCEPT
                !.at = IF op.next = NoEngine THEN "settling" ELSE "disposing",
                !.outcome = outcome]
    /\ UNCHANGED life

\* A classification that is not the wanted one, or the abort of the operation.
Refused ==
    \/ op.aborted /\ Reject("cancelled")
    \/ ~op.aborted /\ Reject("failed")

\* previous.classifyRefresh before the candidate is opened.
ProofAnswers ==
    /\ op.at = "proving"
    /\ \/ Refused
       \/ /\ ~op.aborted
          /\ op' = [op EXCEPT !.at = "opening"]
          /\ UNCHANGED life
    /\ UNCHANGED <<indexed, loops, engine, background, caller, detectionVars,
                   disposed>>

\* JsonlFileEngine.open takes no signal and completes whatever happened to
\* the callers.  The identity and size checks follow without an await.
CandidateOpens ==
    /\ op.at = "opening"
    /\ \E e \in Engines :
         /\ life[e] = "unopened"
         /\ \A lower \in 1..e - 1 : life[lower] # "unopened"
         /\ \/ /\ op' = [op EXCEPT !.at = "detecting", !.next = e,
                                   !.saved = profileId]
            \/ /\ op.stable
               /\ op' = [op EXCEPT !.at = "disposing", !.next = e,
                                   !.outcome = "failed"]
         /\ life' = [life EXCEPT ![e] = "open"]
    /\ UNCHANGED <<indexed, loops, engine, background, caller, detectionVars,
                   disposed>>

OpenFails ==
    /\ op.at = "opening"
    /\ Reject("failed")
    /\ UNCHANGED <<indexed, loops, engine, background, caller, detectionVars,
                   disposed>>

\* Mutant of Adopt: this.background still is that of the previous engine.
AdoptKeepsBackground(found) ==
    /\ ~op.aborted
    /\ engine' = op.next
    /\ profileId' = found
    /\ suggested' = op.next
    /\ tailPass' = "none"
    /\ StartIndexing(op.next, background, CancelLoops(background, loops))
    /\ life' = [life EXCEPT ![engine] = "disposed"]
    /\ op' = [op EXCEPT !.at = "settling", !.outcome = "ok"]

\* Mutant of Adopt: the previous engine is left open.
AdoptKeepsPrevious(found) ==
    /\ ~op.aborted
    /\ engine' = op.next
    /\ profileId' = found
    /\ suggested' = op.next
    /\ tailPass' = "none"
    /\ StartIndexing(op.next, NoEngine, CancelLoops(background, loops))
    /\ op' = [op EXCEPT !.at = "settling", !.outcome = "ok"]
    /\ UNCHANGED life

\* From background?.cancel() to startBackgroundIndexing(): the candidate is
\* shown and the previous engine disposed of, unless the operation has been
\* aborted.  The engine shown has lost its background loop by then.
Adopt(found) ==
    LET cancelled == CancelLoops(background, loops)
    IN  IF op.aborted
          THEN /\ Reject("cancelled")
               /\ background' = NoEngine
               /\ loops' = cancelled
               /\ UNCHANGED <<engine, profileId, suggested, tailPass>>
          ELSE /\ engine' = op.next
               /\ profileId' = found
               /\ suggested' = op.next
               /\ tailPass' = "none"
               /\ StartIndexing(op.next, NoEngine, cancelled)
               /\ life' = [life EXCEPT ![engine] = "disposed"]
               /\ op' = [op EXCEPT !.at = "settling", !.outcome = "ok"]

\* detectProfile of the candidate.  An ordinary rebuild adopts at once; a
\* stable one has the old and the new engine classified again first.
ProfileDetected ==
    /\ op.at = "detecting"
    /\ \/ /\ Refused
          /\ UNCHANGED <<engine, background, loops, profileId, suggested, tailPass>>
       \/ /\ ~op.aborted
          /\ \E p \in Profiles :
               LET found == IF Explicit THEN op.saved ELSE p
               IN  IF op.stable
                     THEN /\ \E at \in {"reproving", "checking"} :
                               op' = [op EXCEPT !.at = at, !.found = found]
                          /\ UNCHANGED <<life, engine, background, loops,
                                         profileId, suggested, tailPass>>
                     ELSE Adopt(found)
    /\ UNCHANGED <<indexed, caller, chosen, detection, flags, disposed>>

OldGenerationAnswers ==
    /\ op.at = "reproving"
    /\ \/ Refused
       \/ /\ ~op.aborted
          /\ op' = [op EXCEPT !.at = "checking"]
          /\ UNCHANGED life
    /\ UNCHANGED <<indexed, loops, engine, background, caller, detectionVars,
                   disposed>>

\* next.classifyRefresh: the abort of the operation is looked at again only
\* after background indexing has been cancelled.
CandidateAnswers ==
    /\ op.at = "checking"
    /\ \/ /\ Refused
          /\ UNCHANGED <<engine, background, loops, profileId, suggested, tailPass>>
       \/ Adopt(op.found)
    /\ UNCHANGED <<indexed, caller, chosen, detection, flags, disposed>>

CandidateDisposed ==
    /\ op.at = "disposing"
    /\ op' = [op EXCEPT !.at = "settling"]
    /\ life' = [life EXCEPT ![op.next] = "disposed"]
    /\ UNCHANGED <<indexed, loops, engine, background, caller, detectionVars,
                   disposed>>

\* Mutant of Settle: callers that queued are not woken.
SettleForSharers ==
    /\ op.at = "settling"
    /\ op' = NoOp
    /\ caller' = [c \in Callers |->
                    IF caller[c].state = "sharing"
                      THEN [caller[c] EXCEPT !.state = op.outcome]
                      ELSE caller[c]]
    /\ UNCHANGED <<engineVars, engine, background, detectionVars, disposed>>

\* The finally clause, and the callers that wait for the operation.
Settle ==
    /\ op.at = "settling"
    /\ op' = NoOp
    /\ caller' = [c \in Callers |->
                    CASE caller[c].state = "sharing" ->
                           [caller[c] EXCEPT !.state = op.outcome]
                      [] caller[c].state = "queued" ->
                           [caller[c] EXCEPT !.state = "resuming"]
                      [] OTHER -> caller[c]]
    /\ UNCHANGED <<engineVars, engine, background, detectionVars, disposed>>
-----------------------------------------------------------------------------
(* The user and the document *)

SetProfile(p) ==
    /\ ~disposed
    /\ chosen = None
    /\ profileId' = p
    /\ chosen' = p
    /\ UNCHANGED <<engineVars, engine, background, op, caller, suggested,
                   detection, tailPass, flags, disposed>>

\* The last panel closes: its requests and the recovery run are aborted, then
\* the session is disposed of (extension.ts:159-168, 406-411).
Dispose ==
    /\ ~disposed
    /\ disposed' = TRUE
    /\ op' = IF op = NoOp THEN op ELSE [op EXCEPT !.aborted = TRUE]
    /\ detection' = IF detection = NoDetection THEN detection
                    ELSE [detection EXCEPT !.aborted = TRUE]
    /\ loops' = CancelLoops(background, loops)
    /\ background' = NoEngine
    /\ life' = [life EXCEPT ![engine] = "disposed"]
    /\ caller' = [c \in Callers |->
                    IF caller[c].state \in Waiting /\ c \notin CommandCallers
                      THEN [caller[c] EXCEPT !.state = "cancelled",
                                             !.aborted = TRUE]
                      ELSE caller[c]]
    /\ UNCHANGED <<indexed, engine, profileId, chosen, suggested, tailPass,
                   flags>>

RebuildStep ==
    \/ ProofAnswers
    \/ CandidateOpens
    \/ OpenFails
    \/ ProfileDetected
    \/ OldGenerationAnswers
    \/ CandidateAnswers
    \/ CandidateDisposed
    \/ Settle

DetectionStep == ScheduledDetection \/ RepeatedDetection \/ DetectionEnds

Next ==
    \/ PageRead
    \/ DetectionStep
    \/ \E l \in Loops : LoopStep(l) \/ LoopSettles(l)
    \/ \E c \in Callers : Call(c) \/ Resume(c) \/ Abandon(c)
    \/ RebuildStep
    \/ \E p \in Profiles : SetProfile(p)
    \/ Dispose

\* Reads of a file and closing it are answered, and the event loop runs the
\* immediates and microtasks it was given.  Nobody has to call, read or choose.
Fairness ==
    /\ WF_vars(RebuildStep)
    /\ \A c \in Callers : WF_vars(Resume(c))
    /\ WF_vars(ScheduledDetection)
    /\ WF_vars(RepeatedDetection)
    /\ WF_vars(DetectionEnds)

Spec == Init /\ [][Next]_vars /\ Fairness
-----------------------------------------------------------------------------
(* Properties *)

\* Every engine that still reads the file is the one shown or the candidate
\* of the rebuild in flight, and background indexing that has not been
\* cancelled is that of the engine shown (integrated-session.ts:444-457).
EnginesAreAccountedFor ==
    /\ \A e \in Engines : life[e] = "open" => e \in {engine, op.next}
    /\ background \in {NoEngine, engine}
    /\ \A l \in loops : ~l.cancelled => l.of = background

\* The columns and suggestions shown were made of the generation shown: a
\* detection that outlives a rebuild is not told of the new one
\* (integrated-session.ts:624-632).
SuggestionsAreOfTheEngine == suggested \in {NoEngine, engine}

\* What a recovery run gets is a stable rebuild that replaces the generation the
\* run has named and no other, through any queueing and sharing
\* (integrated-session.ts:304-321, 353, 447).
StableReplacesTheNamed ==
    [][engine' # engine =>
         /\ ~op.aborted
         /\ \A c \in FollowCallers :
              caller[c].state = "sharing"
                => op.stable /\ caller[c].expected = engine]_vars

\* Every caller is told how its rebuild ended, however long it queued behind
\* rebuilds of others (integrated-session.ts:313-321, 342).
EveryCallerIsAnswered ==
    \A c \in Callers :
        caller[c].state \in Waiting ~> caller[c].state \in Outcomes

\* Tail detection asked for while another detection is in flight, perhaps of
\* an engine since replaced, is made for the engine that is complete, and its
\* result is taken; unless the pass itself fails, or a rebuild that begins
\* meanwhile aborts it and fails (integrated-session.ts:607-613, 639-648).
WantedTailPassIsMade ==
    \A e \in Engines :
        (flags.tailWanted /\ engine = e /\ e \in indexed)
          ~> (tailPass # "none" \/ engine # e \/ disposed)

\* Indexing that a failing rebuild has stopped is taken up again when a page is
\* read (integrated-session.ts:444-446, 599).
IndexingIsTakenUp ==
    flags.scheduled ~> (background = engine \/ disposed)

\* One generation is shown and one prepared, and what was given up stays so.
Register == INSTANCE GenerationRegister WITH
    Generations <- Engines,
    shown <- engine,
    candidate <- {e \in Engines : life[e] = "open" /\ e # engine},
    givenUp <- {e \in Engines : life[e] = "disposed"}
ImplementsRegister == Register!Spec
=============================================================================
