----------------------------- MODULE MCRowQuery -----------------------------
(***************************************************************************)
(* Model checking of RowQuery.  The first generation has six records, of  *)
(* which one is heavy and one cannot be read; the second has two.          *)
(***************************************************************************)
EXTENDS RowQuery

MCUndefined == -1
Record(is, size) == [is |-> is, size |-> size]
MCFiles == <<[i \in 0..5 |-> <<Record("match", 1), Record("other", 3), Record("match", 1),
                               Record("unread", 1), Record("match", 1), Record("match", 1)>>[i + 1]],
             [i \in 0..1 |-> <<Record("match", 1), Record("other", 1)>>[i + 1]]>>
=============================================================================
