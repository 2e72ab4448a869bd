--------------------------- MODULE MCRecordScans ---------------------------
(***************************************************************************)
(* RecordScans over every file of up to four records made of a few kinds   *)
(* of record.  Pages of two rows make every query longer than one page;    *)
(* heavy records fill a page or a budget before its number of rows does.   *)
(***************************************************************************)
EXTENDS RecordScans

FilesOf(records) == UNION {[0..(n - 1) -> records] : n \in 0..4}

MCUndefined == -1

\* One budget ends before the longest file does, one behind it.
MCBudgets == {[records |-> 3, bytes |-> 6], [records |-> 5, bytes |-> 7]}

None == [kind |-> "missing", value |-> 0]
Key(kind, value) == [kind |-> kind, value |-> value]
Row(is, size, group, time, key, problems) ==
    [is |-> is, size |-> size, group |-> group, time |-> time, key |-> key, problems |-> problems]

InsightRecords ==
    {Row("match", 1, Value(1), Value(0), None, 0),
     Row("match", 1, Value(2), Value(-1), None, 0),
     Row("match", 2, Value(3), Value(3), None, 0),
     Row("match", 1, Unknown, Missing, None, 0),
     Row("other", 1, Value(1), Unknown, None, 0),
     Row("unread", 1, Missing, Missing, None, 1)}

SortRecord(is, size, key) == Row(is, size, Missing, Missing, key, 0)
SortRecords ==
    {SortRecord("match", 1, Key("number", 1)), SortRecord("match", 1, Key("number", 2)),
     SortRecord("match", 3, Key("string", 1)), SortRecord("match", 1, None),
     SortRecord("other", 1, Key("boolean", 1)),
     Row("unread", 1, Missing, Missing, None, 1)}

ProblemRecord(size, problems) ==
    Row(IF problems = 0 THEN "other" ELSE "unread", size, Missing, Missing, None, problems)
ProblemRecords ==
    {ProblemRecord(1, 0), ProblemRecord(1, 1), ProblemRecord(3, 1), ProblemRecord(3, 2)}

MCFiles == [insights |-> FilesOf(InsightRecords), sorted |-> FilesOf(SortRecords),
            problems |-> FilesOf(ProblemRecords)]

\* A record larger than the budget of a problem scan.
MCHugeRecord == [problems |-> FilesOf({ProblemRecord(1, 0), ProblemRecord(9, 1)})]
MCInsights == [insights |-> FilesOf(InsightRecords)]
=============================================================================
