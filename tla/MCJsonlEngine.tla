--------------------------- MODULE MCJsonlEngine ---------------------------
(***************************************************************************)
(* JsonlEngine over two small files: one whose CRLF lies across the end of *)
(* a chunk and that is too large for a baseline at opening, and one with a *)
(* blank last line and an inline baseline.                                 *)
(***************************************************************************)
EXTENDS JsonlEngine

File(kinds) == [i \in DOMAIN kinds |-> [is |-> kinds[i], at |-> 0]]

MCContents == {File(<<"x", "cr", "lf", "x">>), File(<<"x", "lf", "lf">>)}

MCOneLine == {File(<<"x", "lf">>)}

Read(op, ordinal) == [op |-> op, ordinal |-> ordinal]
MCOperations ==
    {Read("row", 0), Read("row", 1), Read("detail", 0), Read("classify", 0)}
=============================================================================
