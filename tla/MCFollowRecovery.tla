------------------------- MODULE MCFollowRecovery -------------------------
(***************************************************************************)
(* Model checking of FollowRecovery, and the statements the sources make   *)
(* about recovery that its behaviours refute.  The bounds of the .cfg      *)
(* files let a second run start while an attempt of the first is still     *)
(* suspended, let either end by budget, gap, rebuild or supersession, and  *)
(* let an ordinary rebuild adopt a generation under a run.                 *)
(***************************************************************************)
EXTENDS FollowRecovery

\* A run that nobody aborted is let go only when another generation has taken
\* the place of its own: the coordinator does not return to idle "without
\* invalidating" (comment at the deadline callback of notifyUnknown).
NoRunIsForgotten ==
    [][IsRunning(coord) /\ ~IsRunning(coord')
         => \/ coord.controller \in coord'.aborted
            \/ expectedOf[coord.controller] # generation]_vars

\* A run that ends because another generation was adopted hands the event it
\* coalesced back: "Let the existing watcher/reconcile loop consume events
\* queued meanwhile" (FollowRecoveryHost.scheduleReconcile).  Tails of
\* cancelled attempts are left out: NoRunIsForgotten is about those.
CoalescedEventsSurvive ==
    [][(/\ coord.pendingEvent
        /\ ~coord'.pendingEvent
        /\ expectedOf[coord.controller] # generation
        /\ \A t \in Tasks : Aborted(t) => task'[t] = task[t])
         => coord.controller \in coord'.aborted \/ reconcileDue']_vars

\* While automatic recovery has stopped the panels show it: invalidate is to
\* "tell the UI that automatic follow stopped" (FollowRecoveryHost).
ExhaustionIsVisible ==
    coord.state = "exhausted" /\ ~coord.disposed => notice # "none"
=============================================================================
