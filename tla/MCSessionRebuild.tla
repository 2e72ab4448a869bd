-------------------------- MODULE MCSessionRebuild --------------------------
(***************************************************************************)
(* Model checking of SessionRebuild, and the statements of its sources     *)
(* that its behaviours refute.                                             *)
(***************************************************************************)
EXTENDS SessionRebuild

\* "preserves an explicit profile across a new source generation".
ChosenProfileIsKept == chosen # None => profileId = chosen

\* "the caller's cancellation/identity proof belongs to one operation": a
\* caller is told of a cancellation only if it was its own.
CancellationIsOnesOwn ==
    \A c \in Callers : caller[c].state = "cancelled" => caller[c].aborted

\* "Once the physical index is complete, add a bounded newest suffix": what
\* WantedTailPassIsMade asks, without its exceptions.
WantedTailIsTaken ==
    \A e \in Engines :
        (flags.tailWanted /\ engine = e /\ e \in indexed)
          ~> (tailPass = "taken" \/ engine # e \/ disposed)
=============================================================================
