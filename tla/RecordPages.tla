---------------------------- MODULE RecordPages ----------------------------
(***************************************************************************)
(* What one read of rows answers: getRows and getOrdinalSortedRows of      *)
(* src/engine/jsonl-engine.ts.  A file is a function from ordinals to      *)
(* records; a record has a size, and the query finds it ("match"), does    *)
(* not ("other"), or cannot look into it ("unread").  Under a query a read *)
(* may run out of its time or record budget after any number of records.   *)
(***************************************************************************)
EXTENDS Integers, Sequences, SequencesExt, FiniteSets

CONSTANTS PageSize,    \* the limit of a read
          PageBytes,   \* pageHydrationMaxBytes
          Undefined    \* no ordinal, no number

ASSUME PagesAssumption ==
    /\ PageSize \in Nat \ {0} /\ PageBytes \in Nat \ {0}
    /\ Undefined \in Int \ Nat

Least(S) == CHOOSE n \in S : \A k \in S : n <= k
OneOf(a, b) == IF a # Undefined THEN a ELSE b

Total(file) == Cardinality(DOMAIN file)

\* A query looks for something, or it is empty and every record is found.
Queries == {"all", "some"}
Finds(file, query, i) == query = "all" \/ file[i].is = "match"

\* The members of a path that are in S, in its order.
Selected(path, S) ==
    LET upto[k \in 0..Len(path)] ==
            IF k = 0 THEN << >>
            ELSE IF path[k] \in S THEN Append(upto[k - 1], path[k]) ELSE upto[k - 1]
    IN upto[Len(path)]
Found(file, query, path) == Selected(path, {i \in DOMAIN file : Finds(file, query, i)})
Unseen(file, query, path) == query = "some" /\ \E i \in ToSet(path) : file[i].is = "unread"

Weight(file, path) == MapThenSumSet(LAMBDA i : file[i].size, ToSet(path))

\* The ordinals a physical read looks at, in its order; the anchor is not one of them.
Forward(file, anchor) ==
    LET first == IF anchor # Undefined /\ anchor < Total(file) THEN anchor + 1
                 ELSE IF anchor # Undefined THEN Total(file) ELSE 0
    IN [k \in 1..(Total(file) - first) |-> first + k - 1]
Backward(file, anchor) ==
    LET first == IF anchor # Undefined /\ anchor < Total(file) THEN anchor - 1 ELSE Total(file) - 1
    IN [k \in 1..(first + 1) |-> first + 1 - k]

\* How many records of the path are looked at, and whether something but the end
\* of the path or the page's being full ended it.
Heavy(file, query, path, i) ==
    LET found == Found(file, query, SubSeq(path, 1, i))
    IN /\ i < Len(path) /\ found # << >>
       /\ Weight(file, found) + file[path[i + 1]].size > PageBytes
Full(file, query, path, i) == Len(Found(file, query, SubSeq(path, 1, i))) > PageSize
\* Reading forwards, the clock is looked at before the end of the file is.
RanOut(query, path, direction, late, i) ==
    query = "some" /\ i >= late /\ (direction = "backward" => i < Len(path))
Examined(file, query, path, direction, late) ==
    Least({i \in 0..Len(path) : \/ i = Len(path)
                                \/ Full(file, query, path, i)
                                \/ RanOut(query, path, direction, late, i)
                                \/ Heavy(file, query, path, i)})
Interrupted(file, query, path, direction, late, i) ==
    /\ ~Full(file, query, path, i)
    /\ RanOut(query, path, direction, late, i) \/ Heavy(file, query, path, i)

CursorOfLastExamined(found, path, i) == IF i > 0 THEN path[i] ELSE Undefined  \* a mutant
\* The continuation cursor: the last row of a full page, else the last record looked at.
Cursor(found, path, i) ==
    IF Len(found) > PageSize THEN found[PageSize] ELSE IF i > 0 THEN path[i] ELSE Undefined

\* getRows without a sort.  known: the index is complete when the read ends.
PhysicalPage(file, query, anchor, direction, late, known) ==
    LET path == IF direction = "backward" THEN Backward(file, anchor) ELSE Forward(file, anchor)
        i == Examined(file, query, path, direction, late)
        seen == SubSeq(path, 1, i)
        found == Found(file, query, seen)
        cut == Interrupted(file, query, path, direction, late, i) \/ Unseen(file, query, seen)
        more == Len(found) > PageSize \/ cut
        taken == SubSeq(found, 1, IF Len(found) > PageSize THEN PageSize ELSE Len(found))
        rows == IF direction = "backward" THEN Reverse(taken) ELSE taken
        first == IF rows = << >> THEN Undefined ELSE Head(rows)
        last == IF rows = << >> THEN Undefined ELSE Last(rows)
    IN [rows   |-> rows,
        anchor |-> OneOf(IF direction = "backward" THEN first ELSE last, OneOf(anchor, 0)),
        before |-> IF direction = "backward" THEN more ELSE OneOf(first, anchor) > 0,
        after  |-> IF direction = "backward"
                   THEN IF last # Undefined THEN ~known \/ last + 1 < Total(file)
                        ELSE anchor # Undefined /\ anchor + 1 < Total(file)
                   ELSE more,
        cut    |-> IF cut THEN direction ELSE "no",
        cursor |-> Cursor(found, path, i),
        total  |-> IF known THEN Total(file) ELSE Undefined,
        offset |-> Undefined, next |-> Undefined, matched |-> Undefined]

\* A physical read has seen the end of the file.
SeesTheEnd(file, query, anchor, direction, late) ==
    IF direction = "backward" THEN anchor = Undefined \/ anchor >= Total(file)
    ELSE LET path == Forward(file, anchor)
             i == Examined(file, query, path, direction, late)
         IN /\ i = Len(path) /\ ~Full(file, query, path, i)
            /\ ~RanOut(query, path, direction, late, i)

\* What a read of the newest first looks at under a query: from the end, no
\* further than the first match past the page.  Without one it looks at its page.
NewestScan(file, query, offset, late) ==
    LET path == Backward(file, Undefined)
    IN SubSeq(path, 1, Least({i \in 0..Len(path) :
           \/ i = Len(path)
           \/ query = "some" /\ i >= late
           \/ Len(Found(file, query, SubSeq(path, 1, i))) > offset + PageSize}))

\* getOrdinalSortedRows, descending.  It finishes the index first.
NewestPage(file, query, offset, late) ==
    LET seen == NewestScan(file, query, offset, late)
        found == Found(file, query, seen)
        window == SubSeq(found, offset + 1,
                         IF Len(found) < offset + PageSize THEN Len(found) ELSE offset + PageSize)
        fitting == {n \in 0..Len(window) : n <= 1 \/ Weight(file, SubSeq(window, 1, n)) <= PageBytes}
        rows == SubSeq(window, 1, CHOOSE n \in fitting : \A k \in fitting : k <= n)
        trimmed == Len(rows) < Len(window)
        stopped == Len(seen) < Total(file) /\ Len(found) <= offset + PageSize
    IN [rows   |-> rows,
        anchor |-> IF rows = << >> THEN 0 ELSE Last(rows),
        before |-> offset > 0,
        after  |-> trimmed \/ Len(found) > offset + Len(rows),
        cut    |-> IF trimmed \/ stopped \/ Unseen(file, query, seen) THEN "backward" ELSE "no",
        cursor |-> IF trimmed THEN window[Len(rows) + 1] + 1
                   ELSE IF query = "some" /\ seen # << >> THEN Last(seen)
                   ELSE IF query = "all" /\ rows # << >> THEN Last(rows) ELSE Undefined,
        total  |-> Total(file),
        offset |-> offset,
        next   |-> IF trimmed THEN offset + Len(rows) ELSE Undefined,
        matched |-> IF query = "all" THEN Total(file) ELSE Len(found)]
=============================================================================
