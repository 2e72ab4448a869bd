------------------------ MODULE MCSessionNavigator ------------------------
(***************************************************************************)
(* Model checking of SessionNavigator.  Version 1 of a source has a child, *)
(* another session and the child's parent, on three pages; version 2 has   *)
(* one session, on one page.  Both versions of the long files have three.  *)
(***************************************************************************)
EXTENDS SessionNavigator

MCFiles == <<<<2, 1, 3>>, <<1>>>>
MCLongFiles == <<<<2, 1, 3>>, <<3, 2, 1>>>>
MCParents == <<0, 3, 0>>
MCProvider == <<"claude", "codex">>
MCWholePages == <<"codex">>

\* The behaviours in which no source is removed.
WithoutRemoval == settings.excluded = {}
=============================================================================
