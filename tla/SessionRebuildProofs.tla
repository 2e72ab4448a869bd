------------------------ MODULE SessionRebuildProofs ------------------------
(***************************************************************************)
(* Proofs about SessionRebuild, for every set of callers and profiles and  *)
(* every number of engines.  They follow the candidate of the rebuild in   *)
(* flight: it is opened by one await of performRebuild, belongs to op.next *)
(* for as long as op.at is one of Preparing, and leaves that phase only    *)
(* adopted or disposed of (CandidateIsHeld).  What a stable rebuild was    *)
(* asked to replace is the engine shown until it settles (NamedIsShown).   *)
(***************************************************************************)
EXTENDS SessionRebuild, TLAPS

\* The awaits of performRebuild during which a candidate is open.
Preparing == {"detecting", "reproving", "checking", "disposing"}

\* An operation has an outcome by the time that its callers are told of it.
OutcomeIsKnown == op.at \in {"settling", "disposing"} => op.outcome # None

\* The candidate of the operation is open from its opening to its adoption
\* or disposal, and no other engine but the one shown is open.
CandidateIsHeld ==
    /\ life[engine] # "unopened"
    /\ op.at \in Preparing =>
         op.next \in Engines \ {engine} /\ life[op.next] = "open"
    /\ op.at \in {None, "proving", "opening"} => op.next = NoEngine
    /\ \A e \in Engines :
         life[e] = "open" /\ e # engine => op.at \in Preparing /\ e = op.next

\* Background indexing is of the engine shown, and so are the loops that have
\* not been cancelled.
IndexingIsHeld ==
    /\ background \in {NoEngine, engine}
    /\ \A l \in loops : ~l.cancelled => l.of = background

\* A stable rebuild is of the engine shown until it settles, and the recovery
\* runs that share a rebuild share a stable one of the engine they have named.
NamedIsShown ==
    /\ op.stable /\ op.at # "settling" => op.expected = engine
    /\ \A c \in FollowCallers :
         caller[c].state = "sharing" =>
           op.stable /\ caller[c].expected = op.expected

IInv ==
    /\ TypeOK
    /\ OutcomeIsKnown
    /\ CandidateIsHeld
    /\ IndexingIsHeld
    /\ NamedIsShown
-----------------------------------------------------------------------------
(* The operators *)

LEMMA CancelledLoops ==
    ASSUME NEW ls \in SUBSET Loops, NEW of
    PROVE  /\ CancelLoops(of, ls) \in SUBSET Loops
           /\ \A l \in CancelLoops(of, ls) :
                ~l.cancelled => l \in ls /\ l.of # of
  BY DEF CancelLoops, Loops

\* Indexing of e starts when no loop of another engine is uncancelled.
LEMMA StartedIndexing ==
    ASSUME NEW e \in Engines, NEW bg \in {NoEngine, e},
           NEW ls \in SUBSET Loops,
           \A l \in ls : ~l.cancelled => l.of = bg,
           StartIndexing(e, bg, ls)
    PROVE  /\ background' \in {NoEngine, e}
           /\ loops' \in SUBSET Loops
           /\ \A l \in loops' : ~l.cancelled => l.of = background'
<1>1. CASE disposed \/ bg # NoEngine
  BY <1>1 DEF StartIndexing
<1>2. CASE ~(disposed \/ bg # NoEngine)
  <2>1. \A l \in ls : l.cancelled \/ l.of = NoEngine
    BY <1>2
  <2>2. \A l \in Loops : l.of # NoEngine
    BY DEF Loops, Engines, NoEngine
  <2>3. [of |-> e, cancelled |-> FALSE] \in Loops
    BY DEF Loops
  <2>4. background' = e /\ loops' = ls \cup {[of |-> e, cancelled |-> FALSE]}
    BY <1>2 DEF StartIndexing
  <2>5. \A l \in ls : l.cancelled
    BY <2>1, <2>2
  <2>6. loops' \in SUBSET Loops
    BY <2>3, <2>4
  <2>7. \A l \in loops' : ~l.cancelled => l.of = background'
    BY <2>4, <2>5
  <2> QED
    BY <2>4, <2>6, <2>7
<1> QED
  BY <1>1, <1>2

\* Adopting e cancels the loop of the engine it replaces first.
LEMMA RestartedIndexing ==
    ASSUME NEW e \in Engines, loops \in SUBSET Loops,
           \A l \in loops : ~l.cancelled => l.of = background,
           StartIndexing(e, NoEngine, CancelLoops(background, loops))
    PROVE  /\ background' \in {NoEngine, e}
           /\ loops' \in SUBSET Loops
           /\ \A l \in loops' : ~l.cancelled => l.of = background'
  BY CancelledLoops, StartedIndexing

LEMMA StartedDetection ==
    ASSUME NEW fl \in Flags, NEW complete, StartDetection(complete, fl),
           engine \in Engines, detection \in Detections \cup {NoDetection}
    PROVE  /\ detection' \in Detections \cup {NoDetection}
           /\ flags' \in Flags
<1>1. \A tail \in BOOLEAN :
        [of |-> engine, tail |-> tail, aborted |-> FALSE] \in Detections
  BY DEF Detections
<1>2. (engine \in complete /\ fl.tailOf # engine) \in BOOLEAN
  OBVIOUS
<1> QED
  BY <1>1, <1>2 DEF StartDetection, Flags

LEMMA InFlight ==
    ASSUME TypeOK, op.at # None
    PROVE  op \in Operations
  BY DEF TypeOK, NoOp

LEMMA AbortedDetection ==
    ASSUME detection \in Detections \cup {NoDetection}
    PROVE  (IF detection = NoDetection THEN detection
             ELSE [detection EXCEPT !.aborted = TRUE])
             \in Detections \cup {NoDetection}
  BY DEF Detections
-----------------------------------------------------------------------------
(* Types *)

LEMMA TypeHolds ==
    ASSUME IInv, [Next]_vars
    PROVE  TypeOK'
<1> USE DEF IInv
<1>1. CASE PageRead
  BY <1>1 DEF TypeOK, PageRead, Flags
<1>2. CASE DetectionStep
  <2>1. [flags EXCEPT !.scheduled = FALSE] \in Flags
    BY DEF TypeOK, Flags
  <2>2. [flags EXCEPT !.again = FALSE] \in Flags
    BY DEF TypeOK, Flags
  <2>3. CASE ScheduledDetection
    <3>1. detection' \in Detections \cup {NoDetection} /\ flags' \in Flags
      BY <2>1, <2>3, StartedDetection DEF ScheduledDetection, TypeOK
    <3>2. background' \in {NoEngine, engine} /\ loops' \in SUBSET Loops
      BY <2>3, StartedIndexing DEF ScheduledDetection, TypeOK, IndexingIsHeld
    <3> QED
      BY <2>3, <3>1, <3>2 DEF ScheduledDetection, TypeOK
  <2>4. CASE RepeatedDetection
    <3>1. detection' \in Detections \cup {NoDetection} /\ flags' \in Flags
      BY <2>2, <2>4, StartedDetection DEF RepeatedDetection, TypeOK
    <3> QED
      BY <2>4, <3>1 DEF RepeatedDetection, TypeOK, engineVars
  <2>5. CASE DetectionEnds
    <3>1. flags' \in Flags
      BY <2>5 DEF DetectionEnds, TypeOK, Flags
    <3>2. detection.of \in Engines
      BY <2>5 DEF DetectionEnds, TypeOK, Detections
    <3>3. /\ profileId' \in Profiles /\ suggested' \in Engines \cup {NoEngine}
          /\ detection' = NoDetection /\ tailPass' \in {"none", "taken", "lost"}
      BY <2>5, <3>2 DEF DetectionEnds, Ended, TypeOK
    <3> QED
      BY <2>5, <3>1, <3>3 DEF DetectionEnds, TypeOK, engineVars
  <2> QED
    BY <1>2, <2>3, <2>4, <2>5 DEF DetectionStep
<1>3. ASSUME NEW l \in Loops, LoopStep(l)
      PROVE  TypeOK'
  <2>1. detection' \in Detections \cup {NoDetection} /\ flags' \in Flags
    BY <1>3, StartedDetection DEF LoopStep, TypeOK
  <2>2. indexed' \subseteq Engines /\ loops' \subseteq Loops
    BY <1>3 DEF LoopStep, TypeOK, Loops
  <2> QED
    BY <1>3, <2>1, <2>2 DEF LoopStep, TypeOK
<1>4. ASSUME NEW l \in Loops, LoopSettles(l)
      PROVE  TypeOK'
  BY <1>4 DEF LoopSettles, TypeOK, detectionVars
<1>5. ASSUME NEW c \in Callers, NEW expected \in Engines \cup {NoEngine},
             StartRebuild(c, expected)
      PROVE  /\ caller' \in [Callers -> CallerRecords]
             /\ op' \in Operations \cup {NoOp}
             /\ detection' \in Detections \cup {NoDetection}
  <2>1. \A state \in {"queued", "sharing"} :
          [caller EXCEPT ![c].state = state, ![c].expected = expected]
            \in [Callers -> CallerRecords]
    BY <1>5 DEF TypeOK, CallerRecords, CallerStates
  <2>2. caller' \in [Callers -> CallerRecords]
    BY <1>5, <2>1 DEF StartRebuild
  <2>3. CASE BeginRebuild(c, expected)
    <3>1. ASSUME NEW stable \in BOOLEAN,
                 NEW at \in {"proving", "opening", "settling"},
                 NEW outcome \in {"failed", None}
          PROVE  [[NoOp EXCEPT !.by = c, !.stable = stable,
                               !.expected = expected]
                    EXCEPT !.at = at, !.outcome = outcome] \in Operations
      BY <1>5, <3>1, ProfilesAssumption DEF NoOp, Operations, Awaits, Outcomes
    <3>2. ASSUME NEW stable \in BOOLEAN, NEW at \in {"proving", "opening"}
          PROVE  [[NoOp EXCEPT !.by = c, !.stable = stable,
                               !.expected = expected]
                    EXCEPT !.at = at] \in Operations
      BY <1>5, <3>2, ProfilesAssumption DEF NoOp, Operations, Awaits
    <3> DEFINE stable == c \in FollowCallers
               begun == [NoOp EXCEPT !.by = c, !.stable = stable,
                                     !.expected = expected]
    <3>3. \/ \E at \in {"proving", "opening"} : op' = [begun EXCEPT !.at = at]
          \/ op' = [begun EXCEPT !.at = "settling", !.outcome = "failed"]
      BY <2>3 DEF BeginRebuild
    <3>4. stable \in BOOLEAN
      OBVIOUS
    <3> HIDE DEF stable
    <3>5. op' \in Operations
      BY <3>1, <3>2, <3>3, <3>4
    <3> QED
      BY <2>2, <2>3, <3>5, AbortedDetection DEF BeginRebuild, TypeOK
  <2>4. CASE UNCHANGED <<op, detection>>
    BY <2>2, <2>4 DEF TypeOK
  <2> QED
    BY <1>5, <2>3, <2>4 DEF StartRebuild
<1>6. ASSUME NEW c \in Callers, Call(c)
      PROVE  TypeOK'
  <2>1. (IF c \in FollowCallers THEN engine ELSE NoEngine)
          \in Engines \cup {NoEngine}
    BY DEF TypeOK
  <2> QED
    BY <1>5, <1>6, <2>1 DEF Call, TypeOK, engineVars
<1>7. ASSUME NEW c \in Callers, Resume(c)
      PROVE  TypeOK'
  <2>1. caller[c].expected \in Engines \cup {NoEngine}
    BY DEF TypeOK, CallerRecords
  <2> QED
    BY <1>5, <1>7, <2>1 DEF Resume, TypeOK, engineVars
<1>8. ASSUME NEW c \in Callers, Abandon(c)
      PROVE  TypeOK'
  <2>1. caller' \in [Callers -> CallerRecords]
    BY <1>8 DEF Abandon, TypeOK, CallerRecords, CallerStates, Outcomes
  <2>2. op \in Operations => [op EXCEPT !.aborted = TRUE] \in Operations
    BY DEF Operations
  <2>3. op.stable => op \in Operations
    BY DEF TypeOK, NoOp
  <2>4. op' \in Operations \cup {NoOp}
    BY <1>8, <2>2, <2>3 DEF Abandon, TypeOK
  <2> QED
    BY <1>8, <2>1, <2>4 DEF Abandon, TypeOK, engineVars, detectionVars
<1>9. ASSUME op \in Operations, NEW outcome \in Outcomes, Reject(outcome)
      PROVE  op' \in Operations /\ life' = life
  BY <1>9 DEF Reject, Operations, Awaits
<1>10. CASE ProofAnswers \/ OldGenerationAnswers
  <2>1. op \in Operations
    BY <1>10, InFlight DEF ProofAnswers, OldGenerationAnswers, None
  <2>2. op' \in Operations /\ life' = life
    BY <1>9, <1>10, <2>1
       DEF ProofAnswers, OldGenerationAnswers, Refused, Outcomes, Operations,
           Awaits
  <2> QED
    BY <1>10, <2>2
       DEF ProofAnswers, OldGenerationAnswers, TypeOK, detectionVars
<1>11. CASE CandidateOpens
  <2>1. op \in Operations
    BY <1>11, InFlight DEF CandidateOpens, None
  <2>2. profileId \in Profiles
    BY DEF TypeOK
  <2>3. ASSUME NEW e \in Engines
        PROVE  /\ [op EXCEPT !.at = "detecting", !.next = e,
                             !.saved = profileId] \in Operations
               /\ [op EXCEPT !.at = "disposing", !.next = e,
                             !.outcome = "failed"] \in Operations
    BY <2>1, <2>2 DEF Operations, Awaits, Outcomes
  <2>4. op' \in Operations
    BY <1>11, <2>3 DEF CandidateOpens
  <2>5. life' \in [Engines -> {"unopened", "open", "disposed"}]
    BY <1>11 DEF CandidateOpens, TypeOK
  <2> QED
    BY <1>11, <2>4, <2>5 DEF CandidateOpens, TypeOK, detectionVars
<1>12. CASE OpenFails
  <2>1. op \in Operations
    BY <1>12, InFlight DEF OpenFails, None
  <2> QED
    BY <1>9, <1>12, <2>1 DEF OpenFails, Outcomes, TypeOK, detectionVars
<1>13. ASSUME op \in Operations, op.at \in Preparing,
              NEW found \in Profiles, Adopt(found),
              UNCHANGED <<indexed, caller, chosen, detection, flags, disposed>>
       PROVE  TypeOK'
  <2>1. op.next \in Engines
    BY <1>13 DEF CandidateIsHeld
  <2>2. CancelLoops(background, loops) \in SUBSET Loops
    BY CancelledLoops DEF TypeOK
  <2>3. CASE op.aborted
    BY <1>9, <1>13, <2>2, <2>3 DEF Adopt, TypeOK, Outcomes
  <2>4. CASE ~op.aborted
    <3>1. background' \in {NoEngine, op.next} /\ loops' \in SUBSET Loops
      BY <1>13, <2>1, <2>4, RestartedIndexing DEF Adopt, TypeOK, IndexingIsHeld
    <3>2. op' \in Operations
      BY <1>13, <2>4 DEF Adopt, Operations, Awaits, Outcomes
    <3>3. life' \in [Engines -> {"unopened", "open", "disposed"}]
      BY <1>13, <2>4 DEF Adopt, TypeOK
    <3> QED
      BY <1>13, <2>1, <2>4, <3>1, <3>2, <3>3 DEF Adopt, TypeOK
  <2> QED
    BY <2>3, <2>4
<1>14. CASE ProfileDetected
  <2>1. op \in Operations /\ op.at \in Preparing
    BY <1>14, InFlight DEF ProfileDetected, None, Preparing
  <2>2. CASE Refused /\ UNCHANGED <<engine, background, loops, profileId,
                                    suggested, tailPass>>
    BY <1>9, <1>14, <2>1, <2>2
       DEF Refused, Outcomes, ProfileDetected, TypeOK
  <2>3. ASSUME NEW p \in Profiles,
               op.stable,
               \E at \in {"reproving", "checking"} :
                 op' = [op EXCEPT !.at = at,
                          !.found = IF Explicit THEN op.saved ELSE p],
               UNCHANGED <<life, engine, background, loops, profileId,
                           suggested, tailPass>>
        PROVE  TypeOK'
    <3>1. op' \in Operations
      BY <2>1, <2>3 DEF Operations, Awaits
    <3> QED
      BY <1>14, <2>3, <3>1 DEF ProfileDetected, TypeOK
  <2>4. ASSUME NEW p \in Profiles,
               Adopt(IF Explicit THEN op.saved ELSE p)
        PROVE  TypeOK'
    <3>1. (IF Explicit THEN op.saved ELSE p) \in Profiles
      BY <2>1 DEF Operations
    <3> QED
      BY <1>13, <1>14, <2>1, <2>4, <3>1 DEF ProfileDetected
  <2> QED
    BY <1>14, <2>2, <2>3, <2>4 DEF ProfileDetected
<1>15. CASE CandidateAnswers
  <2>1. op \in Operations /\ op.at \in Preparing
    BY <1>15, InFlight DEF CandidateAnswers, None, Preparing
  <2>2. CASE Refused /\ UNCHANGED <<engine, background, loops, profileId,
                                    suggested, tailPass>>
    BY <1>9, <1>15, <2>1, <2>2
       DEF Refused, Outcomes, CandidateAnswers, TypeOK
  <2>3. CASE Adopt(op.found)
    BY <1>13, <1>15, <2>1, <2>3 DEF CandidateAnswers, Operations
  <2> QED
    BY <1>15, <2>2, <2>3 DEF CandidateAnswers
<1>16. CASE CandidateDisposed
  <2>1. op \in Operations
    BY <1>16, InFlight DEF CandidateDisposed, None
  <2>2. op' \in Operations
    BY <1>16, <2>1 DEF CandidateDisposed, Operations, Awaits
  <2> QED
    BY <1>16, <2>2 DEF CandidateDisposed, TypeOK, detectionVars
<1>17. CASE Settle
  <2>1. op.outcome \in Outcomes
    BY <1>17, InFlight DEF Settle, OutcomeIsKnown, Operations, None
  <2>2. caller' \in [Callers -> CallerRecords]
    BY <1>17, <2>1 DEF Settle, TypeOK, CallerRecords, CallerStates
  <2> QED
    BY <1>17, <2>2 DEF Settle, TypeOK, engineVars, detectionVars
<1>18. ASSUME NEW p \in Profiles, SetProfile(p)
       PROVE  TypeOK'
  BY <1>18 DEF SetProfile, TypeOK, engineVars
<1>19. CASE Dispose
  <2>1. op' \in Operations \cup {NoOp}
    BY <1>19 DEF Dispose, TypeOK, Operations
  <2>2. caller' \in [Callers -> CallerRecords]
    BY <1>19 DEF Dispose, TypeOK, CallerRecords, CallerStates, Outcomes
  <2>3. loops' \in SUBSET Loops
    BY <1>19, CancelledLoops DEF Dispose, TypeOK
  <2> QED
    BY <1>19, <2>1, <2>2, <2>3, AbortedDetection DEF Dispose, TypeOK
<1>20. CASE UNCHANGED vars
  BY <1>20 DEF vars, TypeOK
<1> QED
  BY <1>1, <1>2, <1>3, <1>4, <1>6, <1>7, <1>8, <1>10, <1>11, <1>12, <1>14,
     <1>15, <1>16, <1>17, <1>18, <1>19, <1>20 DEF Next, RebuildStep
-----------------------------------------------------------------------------
(* The candidate *)

\* A rebuild that rejects goes to the disposal of its candidate, if any.
LEMMA RejectedCandidate ==
    ASSUME IInv, op \in Operations, NEW outcome \in Outcomes, Reject(outcome),
           op.at # "settling", UNCHANGED engine
    PROVE  OutcomeIsKnown' /\ CandidateIsHeld'
<1>1. life' = life /\ op'.next = op.next /\ op'.outcome = outcome
  BY DEF Reject, Operations
<1>2. outcome # None
  BY DEF Outcomes, None
<1>3. op.at \in Preparing <=> op.next # NoEngine
  BY DEF IInv, CandidateIsHeld, Operations, Awaits, Preparing, None, Engines,
         NoEngine
<1>4. op'.at = IF op.next = NoEngine THEN "settling" ELSE "disposing"
  BY DEF Reject, Operations
<1> QED
  BY <1>1, <1>2, <1>3, <1>4
     DEF IInv, OutcomeIsKnown, CandidateIsHeld, Preparing, None

LEMMA AdoptedCandidate ==
    ASSUME IInv, op \in Operations, op.at \in Preparing, NEW found, Adopt(found)
    PROVE  OutcomeIsKnown' /\ CandidateIsHeld'
<1>1. CASE op.aborted
  BY <1>1, RejectedCandidate DEF Adopt, Outcomes, Preparing
<1>2. CASE ~op.aborted
  <2>1. /\ op'.at = "settling"
        /\ op'.outcome = "ok"
        /\ op'.next = op.next
    BY <1>2 DEF Adopt, Operations
  <2>2. /\ engine' = op.next
        /\ life' = [life EXCEPT ![engine] = "disposed"]
    BY <1>2 DEF Adopt
  <2> QED
    BY <2>1, <2>2
       DEF IInv, TypeOK, OutcomeIsKnown, CandidateIsHeld, Preparing, None
<1> QED
  BY <1>1, <1>2

LEMMA CandidateHolds ==
    ASSUME IInv, [Next]_vars
    PROVE  OutcomeIsKnown' /\ CandidateIsHeld'
<1> USE DEF IInv
<1>1. ASSUME UNCHANGED <<life, engine>>,
             op'.at = op.at, op'.next = op.next, op'.outcome = op.outcome
      PROVE  OutcomeIsKnown' /\ CandidateIsHeld'
  BY <1>1 DEF OutcomeIsKnown, CandidateIsHeld
<1>2. CASE PageRead \/ DetectionStep
  BY <1>1, <1>2
     DEF PageRead, DetectionStep, ScheduledDetection, RepeatedDetection,
         DetectionEnds, engineVars
<1>3. ASSUME NEW l \in Loops, LoopStep(l) \/ LoopSettles(l)
      PROVE  OutcomeIsKnown' /\ CandidateIsHeld'
  BY <1>1, <1>3 DEF LoopStep, LoopSettles
<1>4. ASSUME NEW c \in Callers, Call(c) \/ Resume(c)
      PROVE  OutcomeIsKnown' /\ CandidateIsHeld'
  <2>1. UNCHANGED <<life, engine>>
    BY <1>4 DEF Call, Resume, engineVars
  <2>2. PICK expected : StartRebuild(c, expected)
    BY <1>4 DEF Call, Resume
  <2>3. CASE op' = op
    BY <1>1, <2>1, <2>3
  <2>4. CASE op = NoOp /\ BeginRebuild(c, expected)
    <3>1. /\ op'.next = NoEngine
          /\ \/ op'.at \in {"proving", "opening"}
             \/ op'.at = "settling" /\ op'.outcome = "failed"
      BY <2>4 DEF BeginRebuild, NoOp
    <3>2. op.at = None
      BY <2>4 DEF NoOp
    <3> QED
      BY <2>1, <3>1, <3>2 DEF OutcomeIsKnown, CandidateIsHeld, Preparing, None
  <2> QED
    BY <2>2, <2>3, <2>4 DEF StartRebuild
<1>5. ASSUME NEW c \in Callers, Abandon(c)
      PROVE  OutcomeIsKnown' /\ CandidateIsHeld'
  <2>1. op'.at = op.at /\ op'.next = op.next /\ op'.outcome = op.outcome
    BY <1>5 DEF Abandon, TypeOK, Operations, NoOp
  <2> QED
    BY <1>1, <1>5, <2>1 DEF Abandon, engineVars
<1>6. ASSUME op \in Operations, Refused, UNCHANGED engine, op.at # "settling"
      PROVE  OutcomeIsKnown' /\ CandidateIsHeld'
  BY <1>6, RejectedCandidate DEF Refused, Outcomes
<1>7. CASE ProofAnswers
  <2>1. op \in Operations
    BY <1>7, InFlight DEF ProofAnswers, None
  <2>2. CASE op' = [op EXCEPT !.at = "opening"] /\ UNCHANGED life
    <3>1. op'.at = "opening" /\ op'.next = op.next
      BY <2>1, <2>2 DEF Operations
    <3> QED
      BY <1>7, <2>2, <3>1
         DEF ProofAnswers, OutcomeIsKnown, CandidateIsHeld, Preparing, None
  <2> QED
    BY <1>6, <1>7, <2>1, <2>2 DEF ProofAnswers
<1>8. CASE CandidateOpens
  <2>1. op \in Operations
    BY <1>8, InFlight DEF CandidateOpens, None
  <2>2. PICK e \in Engines :
          /\ life[e] = "unopened"
          /\ life' = [life EXCEPT ![e] = "open"]
          /\ \/ op' = [op EXCEPT !.at = "detecting", !.next = e,
                                !.saved = profileId]
             \/ op' = [op EXCEPT !.at = "disposing", !.next = e,
                                !.outcome = "failed"]
    BY <1>8 DEF CandidateOpens
  <2>3. /\ op'.at \in {"detecting", "disposing"}
        /\ op'.next = e
        /\ op'.at = "disposing" => op'.outcome = "failed"
    BY <2>1, <2>2 DEF Operations
  <2> QED
    BY <1>8, <2>2, <2>3
       DEF CandidateOpens, OutcomeIsKnown, CandidateIsHeld, TypeOK, Preparing,
           None
<1>9. CASE OpenFails
  <2>1. op \in Operations
    BY <1>9, InFlight DEF OpenFails, None
  <2> QED
    BY <1>9, <2>1, RejectedCandidate DEF OpenFails, Outcomes
<1>10. CASE ProfileDetected
  <2>1. op \in Operations /\ op.at \in Preparing
    BY <1>10, InFlight DEF ProfileDetected, None, Preparing
  <2>2. ASSUME NEW found, UNCHANGED <<life, engine>>,
               \E at \in {"reproving", "checking"} :
                 op' = [op EXCEPT !.at = at, !.found = found]
        PROVE  OutcomeIsKnown' /\ CandidateIsHeld'
    <3>1. op'.at \in {"reproving", "checking"} /\ op'.next = op.next
      BY <2>1, <2>2 DEF Operations
    <3> QED
      BY <2>1, <2>2, <3>1 DEF OutcomeIsKnown, CandidateIsHeld, Preparing, None
  <2> QED
    BY <1>6, <1>10, <2>1, <2>2, AdoptedCandidate DEF ProfileDetected
<1>11. CASE OldGenerationAnswers
  <2>1. op \in Operations
    BY <1>11, InFlight DEF OldGenerationAnswers, None
  <2>2. CASE op' = [op EXCEPT !.at = "checking"] /\ UNCHANGED life
    <3>1. op'.at = "checking" /\ op'.next = op.next
      BY <2>1, <2>2 DEF Operations
    <3> QED
      BY <1>11, <2>2, <3>1
         DEF OldGenerationAnswers, OutcomeIsKnown, CandidateIsHeld, Preparing,
             None
  <2> QED
    BY <1>6, <1>11, <2>1, <2>2 DEF OldGenerationAnswers
<1>12. CASE CandidateAnswers
  <2>1. op \in Operations /\ op.at \in Preparing
    BY <1>12, InFlight DEF CandidateAnswers, None, Preparing
  <2> QED
    BY <1>6, <1>12, <2>1, AdoptedCandidate DEF CandidateAnswers
<1>13. CASE CandidateDisposed
  <2>1. op \in Operations
    BY <1>13, InFlight DEF CandidateDisposed, None
  <2>2. /\ op'.at = "settling"
        /\ op'.next = op.next
        /\ op'.outcome = op.outcome
    BY <1>13, <2>1 DEF CandidateDisposed, Operations
  <2> QED
    BY <1>13, <2>2
       DEF CandidateDisposed, OutcomeIsKnown, CandidateIsHeld, TypeOK,
           Preparing, None
<1>14. CASE Settle
  BY <1>14
     DEF Settle, NoOp, OutcomeIsKnown, CandidateIsHeld, Preparing, None,
         engineVars
<1>15. ASSUME NEW p \in Profiles, SetProfile(p)
       PROVE  OutcomeIsKnown' /\ CandidateIsHeld'
  BY <1>1, <1>15 DEF SetProfile, engineVars
<1>16. CASE Dispose
  <2>1. op'.at = op.at /\ op'.next = op.next /\ op'.outcome = op.outcome
    BY <1>16 DEF Dispose, TypeOK, Operations
  <2> QED
    BY <1>16, <2>1 DEF Dispose, OutcomeIsKnown, CandidateIsHeld, TypeOK
<1>17. CASE UNCHANGED vars
  BY <1>1, <1>17 DEF vars
<1> QED
  BY <1>2, <1>3, <1>4, <1>5, <1>7, <1>8, <1>9, <1>10, <1>11, <1>12, <1>13,
     <1>14, <1>15, <1>16, <1>17 DEF Next, RebuildStep
-----------------------------------------------------------------------------
(* Indexing, and what is replaced *)

\* The engine shown changes when a candidate is adopted, and only then.
LEMMA EngineStep ==
    ASSUME IInv, [Next]_vars
    PROVE  \/ UNCHANGED engine
           \/ /\ op \in Operations
              /\ op.at \in Preparing
              /\ op'.at = "settling"
              /\ ~op.aborted
              /\ \E found : Adopt(found)
              /\ UNCHANGED <<indexed, caller, chosen, detection, flags,
                            disposed>>
<1>1. ASSUME NEW found, Adopt(found), op \in Operations
      PROVE  UNCHANGED engine \/ (~op.aborted /\ op'.at = "settling")
  BY <1>1 DEF Adopt, Operations
<1>2. CASE ProfileDetected
  <2>1. op \in Operations /\ op.at \in Preparing
    BY <1>2, InFlight DEF ProfileDetected, None, Preparing, IInv
  <2> QED
    BY <1>1, <1>2, <2>1 DEF ProfileDetected
<1>3. CASE CandidateAnswers
  <2>1. op \in Operations /\ op.at \in Preparing
    BY <1>3, InFlight DEF CandidateAnswers, None, Preparing, IInv
  <2> QED
    BY <1>1, <1>3, <2>1 DEF CandidateAnswers
<1>4. CASE ~ProfileDetected /\ ~CandidateAnswers
  BY <1>4
     DEF Next, vars, PageRead, DetectionStep, ScheduledDetection,
         RepeatedDetection, DetectionEnds, LoopStep, LoopSettles, Call, Resume,
         Abandon, RebuildStep, ProofAnswers, CandidateOpens, OpenFails,
         OldGenerationAnswers, CandidateDisposed, Settle, SetProfile, Dispose
<1> QED
  BY <1>2, <1>3, <1>4

LEMMA IndexingHolds ==
    ASSUME IInv, [Next]_vars
    PROVE  IndexingIsHeld'
<1> USE DEF IInv
<1>1. CASE UNCHANGED engine /\ UNCHANGED <<background, loops>>
  BY <1>1 DEF IndexingIsHeld
<1>2. ASSUME NEW found, Adopt(found), op.at \in Preparing
      PROVE  IndexingIsHeld'
  <2>1. CASE op.aborted
    BY <1>2, <2>1, CancelledLoops DEF Adopt, TypeOK, IndexingIsHeld
  <2>2. CASE ~op.aborted
    <3>1. op.next \in Engines
      BY <1>2 DEF CandidateIsHeld
    <3> QED
      BY <1>2, <2>2, <3>1, RestartedIndexing DEF Adopt, TypeOK, IndexingIsHeld
  <2> QED
    BY <2>1, <2>2
<1>3. CASE ScheduledDetection
  BY <1>3, StartedIndexing DEF ScheduledDetection, TypeOK, IndexingIsHeld
<1>4. ASSUME NEW l \in Loops, LoopStep(l) \/ LoopSettles(l)
      PROVE  IndexingIsHeld'
  BY <1>4 DEF LoopStep, LoopSettles, IndexingIsHeld
<1>5. CASE Dispose
  BY <1>5, CancelledLoops DEF Dispose, TypeOK, IndexingIsHeld
<1>6. CASE ProfileDetected
  BY <1>1, <1>2, <1>6 DEF ProfileDetected, Preparing
<1>7. CASE CandidateAnswers
  BY <1>1, <1>2, <1>7 DEF CandidateAnswers, Preparing
<1> QED
  BY <1>1, <1>3, <1>4, <1>5, <1>6, <1>7
     DEF Next, vars, PageRead, DetectionStep, RepeatedDetection, DetectionEnds,
         Call, Resume, Abandon, RebuildStep, ProofAnswers, CandidateOpens,
         OpenFails, OldGenerationAnswers, CandidateDisposed, Settle, SetProfile,
         engineVars

LEMMA NamedHolds ==
    ASSUME IInv, [Next]_vars
    PROVE  NamedIsShown'
<1> USE DEF IInv
<1>1. ASSUME UNCHANGED caller, op'.stable = op.stable,
             op'.expected = op.expected,
             \/ UNCHANGED engine /\ op.at # "settling"
             \/ UNCHANGED engine /\ op'.at = op.at
             \/ op'.at = "settling"
      PROVE  NamedIsShown'
  BY <1>1 DEF NamedIsShown
<1>2. ASSUME NEW c \in Callers, NEW expected, StartRebuild(c, expected),
             UNCHANGED engine
      PROVE  NamedIsShown'
  <2>1. \A d \in FollowCallers : d # c => caller'[d] = caller[d]
    BY <1>2 DEF StartRebuild, TypeOK, Callers
  <2>2. CASE MustWait(c \in FollowCallers, expected)
    <3>1. caller'[c].state = "queued" /\ op' = op
      BY <1>2, <2>2 DEF StartRebuild, TypeOK, CallerRecords
    <3> QED
      BY <1>2, <2>1, <3>1 DEF NamedIsShown
  <2>3. CASE ~MustWait(c \in FollowCallers, expected)
    <3>1. caller'[c].expected = expected
      BY <1>2, <2>3 DEF StartRebuild, TypeOK, CallerRecords
    <3>2. CASE op # NoOp
      <4>1. op' = op
        BY <1>2, <2>3, <3>2 DEF StartRebuild
      <4>2. c \in FollowCallers => op.stable /\ op.expected = expected
        BY <2>3, <3>2 DEF MustWait
      <4> QED
        BY <1>2, <2>1, <3>1, <4>1, <4>2 DEF NamedIsShown
    <3>3. CASE op = NoOp
      <4>1. BeginRebuild(c, expected)
        BY <1>2, <2>3, <3>3 DEF StartRebuild
      <4>2. /\ op'.stable = (c \in FollowCallers)
            /\ op'.expected = expected
            /\ c \in FollowCallers /\ expected # engine => op'.at = "settling"
        BY <4>1 DEF BeginRebuild, NoOp
      <4>3. \A d \in FollowCallers : caller[d].state # "sharing"
        BY <3>3 DEF NamedIsShown, NoOp
      <4> QED
        BY <1>2, <2>1, <3>1, <4>2, <4>3 DEF NamedIsShown
    <3> QED
      BY <3>2, <3>3
  <2> QED
    BY <2>2, <2>3
<1>3. ASSUME NEW c \in Callers, Call(c) \/ Resume(c)
      PROVE  NamedIsShown'
  BY <1>2, <1>3 DEF Call, Resume
<1>4. ASSUME NEW c \in Callers, Abandon(c)
      PROVE  NamedIsShown'
  <2>1. /\ op'.at = op.at
        /\ op'.stable = op.stable
        /\ op'.expected = op.expected
    BY <1>4 DEF Abandon, TypeOK, Operations, NoOp
  <2>2. \A d \in FollowCallers :
          caller'[d].state = "sharing" => caller'[d] = caller[d]
    BY <1>4 DEF Abandon, TypeOK, CallerRecords, Callers
  <2> QED
    BY <1>4, <2>1, <2>2 DEF Abandon, NamedIsShown
<1>5. ASSUME NEW outcome, Reject(outcome), op \in Operations
      PROVE  op'.stable = op.stable /\ op'.expected = op.expected
  BY <1>5 DEF Reject, Operations
<1>6. CASE ProofAnswers \/ OldGenerationAnswers
  <2>1. op \in Operations /\ op.at # "settling"
    BY <1>6, InFlight DEF ProofAnswers, OldGenerationAnswers, None
  <2>2. op'.stable = op.stable /\ op'.expected = op.expected
    BY <1>5, <1>6, <2>1
       DEF ProofAnswers, OldGenerationAnswers, Refused, Operations
  <2> QED
    BY <1>1, <1>6, <2>1, <2>2 DEF ProofAnswers, OldGenerationAnswers
<1>7. CASE CandidateOpens \/ OpenFails
  <2>1. op \in Operations /\ op.at # "settling"
    BY <1>7, InFlight DEF CandidateOpens, OpenFails, None
  <2>2. op'.stable = op.stable /\ op'.expected = op.expected
    BY <1>5, <1>7, <2>1 DEF CandidateOpens, OpenFails, Operations
  <2> QED
    BY <1>1, <1>7, <2>1, <2>2 DEF CandidateOpens, OpenFails
<1>8. ASSUME op \in Operations, op.at # "settling", UNCHANGED caller,
             NEW found, Adopt(found)
      PROVE  NamedIsShown'
  <2>1. CASE op.aborted
    BY <1>1, <1>5, <1>8, <2>1 DEF Adopt
  <2>2. CASE ~op.aborted
    <3>1. /\ op'.at = "settling"
          /\ op'.stable = op.stable
          /\ op'.expected = op.expected
      BY <1>8, <2>2 DEF Adopt, Operations
    <3> QED
      BY <1>1, <1>8, <3>1
  <2> QED
    BY <2>1, <2>2
<1>9. CASE ProfileDetected
  <2>1. op \in Operations /\ op.at # "settling" /\ UNCHANGED caller
    BY <1>9, InFlight DEF ProfileDetected, None
  <2>2. CASE Refused /\ UNCHANGED engine
    BY <1>1, <1>5, <2>1, <2>2 DEF Refused
  <2>3. ASSUME UNCHANGED engine, NEW at, NEW found,
               op' = [op EXCEPT !.at = at, !.found = found]
        PROVE  NamedIsShown'
    <3>1. op'.stable = op.stable /\ op'.expected = op.expected
      BY <2>1, <2>3 DEF Operations
    <3> QED
      BY <1>1, <2>1, <2>3, <3>1
  <2> QED
    BY <1>8, <1>9, <2>1, <2>2, <2>3 DEF ProfileDetected
<1>10. CASE CandidateAnswers
  <2>1. op \in Operations /\ op.at # "settling" /\ UNCHANGED caller
    BY <1>10, InFlight DEF CandidateAnswers, None
  <2>2. CASE Refused /\ UNCHANGED engine
    BY <1>1, <1>5, <2>1, <2>2 DEF Refused
  <2> QED
    BY <1>8, <1>10, <2>1, <2>2 DEF CandidateAnswers
<1>11. CASE CandidateDisposed
  <2>1. op \in Operations
    BY <1>11, InFlight DEF CandidateDisposed, None
  <2>2. op'.stable = op.stable /\ op'.expected = op.expected
    BY <1>11, <2>1 DEF CandidateDisposed, Operations
  <2> QED
    BY <1>1, <1>11, <2>2 DEF CandidateDisposed
<1>12. CASE Settle
  <2>1. op.outcome \in Outcomes
    BY <1>12, InFlight DEF Settle, OutcomeIsKnown, Operations, None
  <2>2. \A d \in FollowCallers : caller'[d].state # "sharing"
    BY <1>12, <2>1 DEF Settle, TypeOK, CallerRecords, Callers, Outcomes
  <2> QED
    BY <1>12, <2>2 DEF Settle, NamedIsShown, NoOp
<1>13. CASE Dispose
  <2>1. /\ op'.at = op.at
        /\ op'.stable = op.stable
        /\ op'.expected = op.expected
    BY <1>13 DEF Dispose, TypeOK, Operations
  <2>2. \A d \in FollowCallers :
          caller'[d].state = "sharing" => caller'[d] = caller[d]
    BY <1>13 DEF Dispose, TypeOK, CallerRecords, Callers
  <2> QED
    BY <1>13, <2>1, <2>2 DEF Dispose, NamedIsShown
<1>14. CASE UNCHANGED <<caller, op, engine>>
  BY <1>1, <1>14
<1> QED
  BY <1>3, <1>4, <1>6, <1>7, <1>9, <1>10, <1>11, <1>12, <1>13, <1>14
     DEF Next, vars, PageRead, DetectionStep, ScheduledDetection,
         RepeatedDetection, DetectionEnds, LoopStep, LoopSettles, RebuildStep,
         SetProfile
-----------------------------------------------------------------------------
(* The theorems *)

LEMMA InitialInvariant == Init => IInv
<1> SUFFICES ASSUME Init
             PROVE  IInv
  OBVIOUS
<1>1. 1 \in Engines
  BY EnginesAssumption DEF Engines
<1>2. IdleCaller \in CallerRecords
  BY DEF IdleCaller, CallerRecords, CallerStates
<1>3. TypeOK
  BY <1>1, <1>2, ProfilesAssumption DEF Init, TypeOK, Flags
<1> QED
  BY <1>1, <1>3, EnginesAssumption
     DEF Init, IInv, OutcomeIsKnown, CandidateIsHeld, IndexingIsHeld,
         NamedIsShown, Preparing, NoOp, None, IdleCaller, Callers

LEMMA StepInvariant == IInv /\ [Next]_vars => IInv'
  BY TypeHolds, CandidateHolds, IndexingHolds, NamedHolds DEF IInv

\* Every engine, rebuild, caller, loop and detection is of its type in every
\* reachable state, however many callers and engines there are.
THEOREM TypeCorrect == Spec => []TypeOK
<1>1. IInv => TypeOK
  BY DEF IInv
<1> QED
  BY <1>1, InitialInvariant, StepInvariant, PTL DEF Spec

\* No engine is left reading the file: what is open is the engine shown or the
\* candidate of the rebuild in flight, and background indexing follows the
\* engine shown.
THEOREM AccountedFor == Spec => []EnginesAreAccountedFor
<1>1. IInv => EnginesAreAccountedFor
  BY DEF IInv, CandidateIsHeld, IndexingIsHeld, EnginesAreAccountedFor
<1> QED
  BY <1>1, InitialInvariant, StepInvariant, PTL DEF Spec

\* A detection that outlives a rebuild never tells of the engine it replaced.
THEOREM SuggestionsHold == Spec => []SuggestionsAreOfTheEngine
<1>1. Init => SuggestionsAreOfTheEngine
  BY DEF Init, SuggestionsAreOfTheEngine
<1>2. ASSUME IInv, SuggestionsAreOfTheEngine, [Next]_vars
      PROVE  SuggestionsAreOfTheEngine'
  <2>1. CASE DetectionEnds
    BY <1>2, <2>1 DEF DetectionEnds, SuggestionsAreOfTheEngine
  <2>2. ASSUME NEW found, Adopt(found)
        PROVE  SuggestionsAreOfTheEngine'
    BY <1>2, <2>2 DEF Adopt, SuggestionsAreOfTheEngine
  <2>3. CASE UNCHANGED <<engine, suggested>>
    BY <1>2, <2>3 DEF SuggestionsAreOfTheEngine
  <2> QED
    BY <1>2, <2>1, <2>2, <2>3
       DEF Next, vars, PageRead, DetectionStep, ScheduledDetection,
           RepeatedDetection, LoopStep, LoopSettles, Call, Resume, Abandon,
           RebuildStep, ProofAnswers, CandidateOpens, OpenFails,
           ProfileDetected, OldGenerationAnswers, CandidateAnswers,
           CandidateDisposed, Settle, SetProfile, Dispose, detectionVars
<1> QED
  BY <1>1, <1>2, InitialInvariant, StepInvariant, PTL DEF Spec

\* A recovery run that is told of a rebuild is told of a stable one, and of
\* the generation it has named, through any queueing and sharing.
THEOREM StableHolds == Spec => StableReplacesTheNamed
<1> DEFINE Replaces ==
      engine' # engine =>
        /\ ~op.aborted
        /\ \A c \in FollowCallers :
             caller[c].state = "sharing"
               => op.stable /\ caller[c].expected = engine
<1>1. ASSUME IInv, [Next]_vars
      PROVE  [Replaces]_vars
  <2>1. engine' # engine => op.at \in Preparing /\ ~op.aborted
    BY <1>1, EngineStep
  <2> QED
    BY <1>1, <2>1 DEF IInv, NamedIsShown, Preparing
<1> QED
  BY <1>1, InitialInvariant, StepInvariant, PTL DEF Spec, StableReplacesTheNamed

\* One generation is shown and at most one prepared; a candidate replaces the
\* one shown or is given up, and what was given up is never shown again: every
\* step of a rebuild is a step of GenerationRegister or none.
THEOREM RefinesRegister == Spec => ImplementsRegister
<1> DEFINE candidate == {e \in Engines : life[e] = "open" /\ e # engine}
           givenUp == {e \in Engines : life[e] = "disposed"}
<1>1. Init => Register!Init
  BY EnginesAssumption DEF Init, Register!Init, Engines
<1>2. ASSUME IInv, [Next]_vars
      PROVE  [Register!Next]_(Register!registerVars)
  <2> USE DEF IInv
  <2>1. CASE UNCHANGED <<life, engine>>
    BY <2>1 DEF Register!registerVars
  <2>2. ASSUME op.at \in Preparing
        PROVE  candidate = {op.next}
    BY <1>2, <2>2 DEF CandidateIsHeld
  <2>3. ASSUME op.at \notin Preparing
        PROVE  candidate = {}
    BY <1>2, <2>3 DEF CandidateIsHeld
  <2>4. CASE CandidateOpens
    <3>1. PICK e \in Engines :
            /\ life[e] = "unopened"
            /\ life' = [life EXCEPT ![e] = "open"]
      BY <2>4 DEF CandidateOpens
    <3>2. op.at \notin Preparing /\ UNCHANGED engine
      BY <2>4 DEF CandidateOpens, Preparing
    <3>3. e \notin givenUp \cup {engine}
      BY <1>2, <3>1 DEF CandidateIsHeld
    <3>4. candidate = {} /\ candidate' = {e} /\ givenUp' = givenUp
      BY <1>2, <2>3, <3>1, <3>2, <3>3 DEF TypeOK
    <3> QED
      BY <3>2, <3>3, <3>4 DEF Register!Next, Register!Prepare
  <2>5. CASE CandidateDisposed
    <3>1. op.at \in Preparing /\ UNCHANGED engine
      BY <2>5 DEF CandidateDisposed, Preparing
    <3>2. life' = [life EXCEPT ![op.next] = "disposed"]
      BY <2>5 DEF CandidateDisposed
    <3>3. op.next \in Engines \ {engine} /\ candidate = {op.next}
      BY <1>2, <2>2, <3>1 DEF CandidateIsHeld
    <3>4. candidate' = {} /\ givenUp' = givenUp \cup candidate
      BY <1>2, <3>1, <3>2, <3>3 DEF TypeOK
    <3> QED
      BY <3>1, <3>3, <3>4 DEF Register!Next, Register!Reject
  <2>6. CASE Dispose
    <3>1. life' = [life EXCEPT ![engine] = "disposed"] /\ UNCHANGED engine
      BY <2>6 DEF Dispose
    <3>2. candidate' = candidate /\ givenUp' = givenUp \cup {engine}
      BY <1>2, <3>1 DEF TypeOK
    <3> QED
      BY <3>1, <3>2 DEF Register!Next, Register!Close
  <2>7. CASE ~UNCHANGED engine
    <3>1. op.at \in Preparing
      BY <1>2, <2>7, EngineStep
    <3>2. /\ engine' = op.next
          /\ life' = [life EXCEPT ![engine] = "disposed"]
      BY <1>2, <2>7, EngineStep DEF Adopt
    <3>3. op.next \in Engines \ {engine} /\ candidate = {op.next}
      BY <1>2, <2>2, <3>1 DEF CandidateIsHeld
    <3>4. candidate' = {} /\ givenUp' = givenUp \cup {engine}
      BY <1>2, <3>2, <3>3 DEF TypeOK
    <3> QED
      BY <3>2, <3>3, <3>4 DEF Register!Next, Register!Adopt
  <2>8. CASE ProfileDetected \/ CandidateAnswers
    <3>1. ASSUME NEW found, Adopt(found), op.at \in Preparing
          PROVE  UNCHANGED <<life, engine>> \/ ~UNCHANGED engine
      BY <1>2, <3>1 DEF Adopt, Reject, CandidateIsHeld
    <3>2. UNCHANGED <<life, engine>> \/ ~UNCHANGED engine
      BY <2>8, <3>1
         DEF ProfileDetected, CandidateAnswers, Refused, Reject, Preparing
    <3> QED
      BY <2>1, <2>7, <3>2
  <2>9. \/ CandidateOpens \/ CandidateDisposed \/ Dispose
        \/ ProfileDetected \/ CandidateAnswers
        \/ UNCHANGED <<life, engine>>
    BY <1>2
       DEF Next, vars, PageRead, DetectionStep, ScheduledDetection,
           RepeatedDetection, DetectionEnds, LoopStep, LoopSettles, Call,
           Resume, Abandon, RebuildStep, ProofAnswers, OpenFails,
           OldGenerationAnswers, Refused, Reject, Settle, SetProfile, engineVars
  <2> QED
    BY <2>1, <2>4, <2>5, <2>6, <2>8, <2>9
<1> QED
  BY <1>1, <1>2, InitialInvariant, StepInvariant, PTL
     DEF Spec, ImplementsRegister, Register!Spec
=============================================================================
