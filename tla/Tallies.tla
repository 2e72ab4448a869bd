------------------------------ MODULE Tallies ------------------------------
(***************************************************************************)
(* CategoricalAggregator and TimeBucketAggregator of src/src/aggregation.  *)
(* Both count rows under at most Capacity values, the first ones they see, *)
(* and put the rest into reserved counters; they differ in what of a row   *)
(* they select and in the order of the result.                             *)
(***************************************************************************)
EXTENDS Integers, Sequences, SequencesExt

CONSTANTS Capacity,  \* exactCapacity: values counted one by one
          MaxRows,   \* maxRecords of an aggregator
          Width      \* bucketWidthMs

ASSUME TalliesAssumption ==
    Capacity \in Nat \ {0} /\ MaxRows \in Nat \ {0} /\ Width \in Nat \ {0}

\* What is selected of a row: a value, or that it is unknown or missing.
Value(v) == [state |-> "value", value |-> v]
Unknown == [state |-> "unknown", value |-> 0]
Missing == [state |-> "missing", value |-> 0]

\* The start of the bucket of a time; Math.floor rounds times before 1970 down.
Bucket(selected) ==
    IF selected.state = "value" THEN Value((selected.value \div Width) * Width) ELSE selected

EmptyTally == [exact |-> << >>, other |-> 0, unknown |-> 0, missing |-> 0,
               processed |-> 0, cut |-> FALSE]

Counted(tally, v) == {n \in DOMAIN tally.exact : tally.exact[n].value = v}

CountValue(tally, v) ==
    IF Counted(tally, v) # {}
      THEN [tally EXCEPT !.exact[CHOOSE n \in Counted(tally, v) : TRUE].count = @ + 1]
    ELSE IF Len(tally.exact) >= Capacity THEN [tally EXCEPT !.other = @ + 1]
    ELSE [tally EXCEPT !.exact = Append(@, [value |-> v, count |-> 1])]

\* add; cut is that it has answered false.
Add(tally, selected) ==
    IF tally.processed >= MaxRows THEN [tally EXCEPT !.cut = TRUE]
    ELSE LET next == [tally EXCEPT !.processed = @ + 1]
         IN CASE selected.state = "missing" -> [next EXCEPT !.missing = @ + 1]
              [] selected.state = "unknown" -> [next EXCEPT !.unknown = @ + 1]
              [] OTHER -> CountValue(next, selected.value)

\* The reserved counters are shown when they counted something.
Reserved(tally) ==
    SelectSeq(<<[kind |-> "other",   count |-> tally.other],
                [kind |-> "unknown", count |-> tally.unknown],
                [kind |-> "missing", count |-> tally.missing]>>,
              LAMBDA group : group.count > 0)

\* The counted values, in the given order of their places in the table.
InOrder(tally, order) ==
    [n \in DOMAIN order |-> [kind |-> "value"] @@ tally.exact[order[n]]] \o Reserved(tally)

\* finish: categories by count, then as first seen; buckets by time.
Categories(tally) ==
    LET before(m, n) == \/ tally.exact[m].count > tally.exact[n].count
                        \/ tally.exact[m].count = tally.exact[n].count /\ m < n
    IN InOrder(tally, SetToSortSeq(DOMAIN tally.exact, before))
Buckets(tally) ==
    LET before(m, n) == tally.exact[m].value < tally.exact[n].value
    IN InOrder(tally, SetToSortSeq(DOMAIN tally.exact, before))
=============================================================================
