---------------------------- MODULE MCWorkspace ----------------------------
(***************************************************************************)
(* Model checking of Workspace.  The file has two records; after a rebuild *)
(* only the first of them is left.  In MCMoved it has moved as well.       *)
(***************************************************************************)
EXTENDS Workspace

MCStarts == << <<0, 4>>, <<0>> >>
MCMoved == << <<0, 4>>, <<0, 6>>, <<3>> >>
=============================================================================
