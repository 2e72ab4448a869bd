------------------------ MODULE GenerationRegister ------------------------
(***************************************************************************)
(* What a session promises about its generations: one is shown, at most    *)
(* one candidate is being prepared, and a candidate either takes the place *)
(* of the shown generation, which is then given up for good, or is given   *)
(* up itself.  SessionRebuild implements this.                             *)
(***************************************************************************)
EXTENDS Naturals, FiniteSets

CONSTANT Generations   \* every generation that can be opened

VARIABLES
    shown,      \* the generation that answers requests
    candidate,  \* set of the generation being prepared, if there is one
    givenUp     \* generations that were disposed of

registerVars == <<shown, candidate, givenUp>>

Init ==
    /\ shown \in Generations
    /\ candidate = {}
    /\ givenUp = {}

\* Only a generation never used before is opened.
Prepare(g) ==
    /\ candidate = {}
    /\ g \notin givenUp \cup {shown}
    /\ candidate' = {g}
    /\ UNCHANGED <<shown, givenUp>>

\* Show the candidate and give up the generation it replaces, in one step.
Adopt ==
    /\ candidate # {}
    /\ shown' \in candidate
    /\ candidate' = {}
    /\ givenUp' = givenUp \cup {shown}

\* A rejected candidate leaves the shown generation as it is.
Reject ==
    /\ candidate # {}
    /\ candidate' = {}
    /\ givenUp' = givenUp \cup candidate
    /\ UNCHANGED shown

\* The document is closed; the candidate is left to its own rejection.
Close ==
    /\ givenUp' = givenUp \cup {shown}
    /\ UNCHANGED <<shown, candidate>>

Next == (\E g \in Generations : Prepare(g)) \/ Adopt \/ Reject \/ Close

Spec == Init /\ [][Next]_registerVars
=============================================================================
