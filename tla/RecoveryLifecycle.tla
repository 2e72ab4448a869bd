------------------------- MODULE RecoveryLifecycle -------------------------
(***************************************************************************)
(* What the follow-recovery coordinator promises to the document that owns *)
(* it, without timers, probes or promises: recovery is a sequence of       *)
(* numbered runs, one at a time, each of which is started from rest and    *)
(* ends.  A coordinator that has stopped takes no run until it is resumed, *)
(* and a closed one takes none at all.  FollowRecovery implements this.    *)
(***************************************************************************)
EXTENDS Naturals

VARIABLES
    phase,   \* "idle" at rest, "running" a run, "stopped" until resumed
    run,     \* number of the latest run, 0 before the first
    closed   \* the document has been disposed of

lifecycleVars == <<phase, run, closed>>

Phases == {"idle", "running", "stopped"}

Init ==
    /\ phase = "idle"
    /\ run = 0
    /\ closed = FALSE

\* A run starts only from rest, never over another run.
Start ==
    /\ ~closed
    /\ phase = "idle"
    /\ phase' = "running"
    /\ run' = run + 1
    /\ UNCHANGED closed

\* A run ends and the coordinator is ready for the next one.
Settle ==
    /\ phase = "running"
    /\ phase' = "idle"
    /\ UNCHANGED <<run, closed>>

\* The coordinator gives up and waits for the user.
Stop ==
    /\ phase # "stopped"
    /\ phase' = "stopped"
    /\ UNCHANGED <<run, closed>>

\* A rebuild or a follow toggle makes a stopped coordinator usable again.
Resume ==
    /\ ~closed
    /\ phase = "stopped"
    /\ phase' = "idle"
    /\ UNCHANGED <<run, closed>>

Close ==
    /\ ~closed
    /\ closed' = TRUE
    /\ phase' = "stopped"
    /\ UNCHANGED run

Next == Start \/ Settle \/ Stop \/ Resume \/ Close

EndRun == phase = "running" /\ (Settle \/ Stop \/ Close)

\* A run that has been started may not stay the current one for ever.
Spec == Init /\ [][Next]_lifecycleVars /\ WF_lifecycleVars(EndRun)
=============================================================================
