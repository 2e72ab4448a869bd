-------------------------- MODULE MCRequestChannel --------------------------
(***************************************************************************)
(* Model checking of RequestChannel, and the statements of the sources     *)
(* that its behaviours refute.  Two ids let a request be superseded,       *)
(* cancelled or overtaken by a rebuild while another one is in flight, and *)
(* are taken again as soon as nothing refers to them, so that behaviours   *)
(* make requests without end.                                              *)
(***************************************************************************)
EXTENDS RequestChannel

\* "Every public reference, request, and response belongs to one source
\* identity and generation": whatever the panel takes was read from the
\* generation it then shows.
MessagesAreOfTheView ==
    [][(/\ toPanel # <<>>
        /\ panel'.live
        /\ toPanel' = Tail(toPanel)
        /\ Accepts(Head(toPanel)))
         => Head(toPanel).of = panel'.view]_vars
=============================================================================
