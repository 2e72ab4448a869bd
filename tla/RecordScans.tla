---------------------------- MODULE RecordScans ----------------------------
(***************************************************************************)
(* The bounded scans of an engine and those who ask for them: an insights  *)
(* query, which adds up the pages of getRows it asks for one after another *)
(* (src/src/extension/insight-query.ts); a reader of the records sorted by *)
(* a column, page after page (getSortedRows); and the Problems tab, which  *)
(* goes on where its last page ended (getProblems).  A behaviour has one   *)
(* of them: the executor runs their scans one at a time, and the only      *)
(* thing of the engine a scan depends on is how far the file is indexed.   *)
(* All scans read forwards, record by record, until the file, a budget,    *)
(* the page or the time is at its end.                                     *)
(***************************************************************************)
EXTENDS RecordPages, Tallies, TLC

CONSTANTS Files,       \* for each kind of reader, the files it is tried on
          Budgets,     \* maxExaminedRecords and maxExaminedBytes of a reader
          SortWindow   \* MAX_SORT_WINDOW

ASSUME ScansAssumption ==
    /\ DOMAIN Files \subseteq {"insights", "sorted", "problems"}
    /\ Budgets \subseteq [records : Nat \ {0}, bytes : Nat \ {0}]
    /\ SortWindow \in Nat \ {0}

VARIABLES
    file,      \* the snapshot
    request,   \* who asks, the query, the direction of a sort, the budget
    scan,      \* the scan under way, or read and not yet received
    place,     \* cursor of the next page, or offset of the next sorted page
    used,      \* records and bytes an insights query has paid for
    tally,     \* its aggregators
    page,      \* the problem page shown
    indexed,   \* whether the whole file is indexed
    outcome,   \* how the reader has ended
    reason,    \* truncatedReason of what it was told last
    given,     \* history: the records given to the reader so far, in order
    reaches    \* history: how far the sorted scans have come

vars == <<file, request, scan, place, used, tally, page, indexed,
          outcome, reason, given, reaches>>
-----------------------------------------------------------------------------
(* Values *)

NoScan == [at |-> "none"]
NewScan(first, records, bytes) ==
    [at |-> "reading", first |-> first, next |-> first, kept |-> << >>,
     records |-> records, volume |-> bytes, reason |-> "none"]

Everything == [k \in 1..Total(file) |-> k - 1]
Path(from, to) == [k \in 1..(to - from) |-> from + k - 1]

Insights == request.kind = "insights"
Sorted == request.kind = "sorted"
Problems == request.kind = "problems"
Reading == scan.at = "reading"
Read == scan.at = "read"
AtEnd == scan.next >= Total(file)
Covered == Path(scan.first, scan.next)
LastExamined == IF scan.next > scan.first THEN scan.next - 1 ELSE Undefined

\* A record with diagnostics may have several, which stay on one page.
Entries(path) == MapThenSumSet(LAMBDA i : file[i].problems, ToSet(path))

-----------------------------------------------------------------------------
(* Order of a sorted page *)

\* The kinds of JSON value in the order of their names; integers and other
\* numbers are compared as numbers.
KindRank == [array |-> 1, boolean |-> 2, number |-> 3, object |-> 4, string |-> 5]

Sign(n) == IF n < 0 THEN -1 ELSE IF n > 0 THEN 1 ELSE 0

\* For SortedPagesTile: a descending order turns missing values round, too.
CompareAllReversed(left, right, direction) ==
    LET l == IF left.kind = "missing" THEN 9 ELSE KindRank[left.kind]
        r == IF right.kind = "missing" THEN 9 ELSE KindRank[right.kind]
        result == IF l # r THEN Sign(l - r) ELSE Sign(left.value - right.value)
    IN IF direction = "asc" THEN result ELSE -result

\* "Missing/null values are placed last in either direction."
CompareSortValues(left, right, direction) ==
    LET absent == {k \in {left, right} : k.kind = "missing"}
        result == IF left.kind # right.kind
                    THEN Sign(KindRank[left.kind] - KindRank[right.kind])
                    ELSE Sign(left.value - right.value)
    IN IF absent = {} THEN IF direction = "asc" THEN result ELSE -result
       ELSE IF left.kind = right.kind THEN 0
       ELSE IF left.kind = "missing" THEN 1 ELSE -1

CompareSortCandidates(i, j) ==
    LET order == CompareSortValues(file[i].key, file[j].key, request.direction)
    IN IF order # 0 THEN order ELSE Sign(i - j)

\* The binary search of insertSortCandidate: how many candidates stay before i.
Position(candidates, i) ==
    LET search[low, high \in 0..Len(candidates)] ==
            IF low >= high THEN low
            ELSE LET middle == low + (high - low) \div 2
                 IN IF CompareSortCandidates(candidates[middle + 1], i) <= 0
                      THEN search[middle + 1, high] ELSE search[low, middle]
    IN search[0, Len(candidates)]

InsertSortCandidate(candidates, i, limit) ==
    LET longer == InsertAt(candidates, Position(candidates, i) + 1, i)
    IN IF Len(longer) > limit THEN Front(longer) ELSE longer

\* One more than the window is kept, to know whether a page comes after it.
RetainLimit == place + PageSize + 1
-----------------------------------------------------------------------------
(* One scan *)

PageIsFull == \/ Insights /\ Len(scan.kept) > PageSize
              \/ Problems /\ Entries(scan.kept) >= PageSize

BudgetIsSpent == Len(Covered) >= scan.records \/ Weight(file, Covered) >= scan.volume
ExceedsBudget == Weight(file, Covered) + file[scan.next].size > scan.volume
ExceedsPage == /\ Insights /\ scan.kept # << >>
               /\ Weight(file, scan.kept) + file[scan.next].size > PageBytes

Stop(why) ==
    /\ scan' = [scan EXCEPT !.at = "read", !.reason = why]
    /\ UNCHANGED <<file, request, place, used, tally, page, indexed,
                   outcome, reason, given, reaches>>

\* A problem scan looks at the clock before anything else has taken time.
DeadlinePasses ==
    /\ Reading /\ ~PageIsFull
    /\ Problems => Covered # << >>
    /\ Stop("time_limit")

\* Rows are asked for first and paid for then; problems the other way round.
BudgetEnds ==
    /\ Reading /\ ~PageIsFull
    /\ \/ ~AtEnd /\ (BudgetIsSpent \/ ExceedsBudget)
       \/ Problems /\ BudgetIsSpent
    /\ Stop(IF Len(Covered) >= scan.records THEN "record_limit" ELSE "byte_limit")

WithinBudget == ~AtEnd /\ ~BudgetIsSpent /\ ~ExceedsBudget

HydrationEnds ==
    /\ Reading /\ ~PageIsFull /\ WithinBudget /\ ExceedsPage
    /\ Stop("hydration_limit")

ScanEnds ==
    /\ Reading
    /\ PageIsFull \/ (AtEnd /\ (Problems => ~BudgetIsSpent))
    /\ Stop("none")

\* The body of the three loops.
Keep(i) ==
    IF Problems THEN IF file[i].problems > 0 THEN Append(scan.kept, i) ELSE scan.kept
    ELSE IF ~Finds(file, request.query, i) THEN scan.kept
    ELSE IF Sorted THEN InsertSortCandidate(scan.kept, i, RetainLimit)
    ELSE Append(scan.kept, i)

ExamineRecord ==
    /\ Reading /\ ~PageIsFull /\ WithinBudget /\ ~ExceedsPage
    /\ scan' = [scan EXCEPT !.next = @ + 1, !.kept = Keep(scan.next)]
    /\ UNCHANGED <<file, request, place, used, tally, page, indexed,
                   outcome, reason, given, reaches>>

\* truncatedReason of rows: a record that a query could not look into.
RowsReason ==
    IF scan.reason = "none" /\ Unseen(file, request.query, Covered)
      THEN "uninspectable_record" ELSE scan.reason
-----------------------------------------------------------------------------
(* An insights query *)

\* For SummaryIsOfTheFile: "returning the last examined ordinal would skip
\* that extra row".
CursorOfScan(rows) == LastExamined

\* continuationCursor of getRows
PageCursor(rows) == IF Len(scan.kept) > PageSize THEN Last(rows) ELSE LastExamined

\* One row in both aggregators; the second is not asked when the first refuses.
AddRow(both, i) ==
    LET groups == Add(both.groups, file[i].group)
    IN IF groups.cut THEN [both EXCEPT !.groups = groups]
       ELSE [groups |-> groups, buckets |-> Add(both.buckets, Bucket(file[i].time))]

End(how, why) == outcome' = how /\ reason' = why /\ UNCHANGED place

\* The head of the loop: what is left of the budget is given to the next page.
AskInsights ==
    /\ Insights /\ outcome = "running" /\ scan = NoScan
    /\ IF used.records >= request.budget.records THEN End("done", "record_limit") /\ UNCHANGED scan
       ELSE IF used.bytes >= request.budget.bytes THEN End("done", "byte_limit") /\ UNCHANGED scan
       ELSE /\ scan' = NewScan(IF place = Undefined THEN 0 ELSE place + 1,
                               request.budget.records - used.records, request.budget.bytes - used.bytes)
            /\ UNCHANGED <<place, outcome, reason>>
    /\ UNCHANGED <<file, request, used, tally, page, indexed, given, reaches>>

\* The rest of the loop: a page is added up, and the query goes on behind it.
ReceiveInsights ==
    /\ Insights /\ Read
    /\ scan' = NoScan
    /\ used' = [records |-> used.records + Len(Covered),
                bytes |-> used.bytes + Weight(file, Covered)]
    /\ LET full == Len(scan.kept) > PageSize
           rows == SubSeq(scan.kept, 1, IF full THEN PageSize ELSE Len(scan.kept))
           cursor == PageCursor(rows)
           counted == FoldLeft(AddRow, tally, rows)
           new == counted.groups.processed - tally.groups.processed
       IN /\ tally' = counted
          /\ given' = given \o SubSeq(rows, 1, new)
          /\ IF counted.groups.cut THEN End("done", "record_limit")
             ELSE IF RowsReason # "none" THEN End("done", RowsReason)
             ELSE IF ~full THEN End("done", "none")
             ELSE IF cursor = Undefined \/ Covered = << >> THEN End("stuck", "none")
             ELSE place' = cursor /\ UNCHANGED <<outcome, reason>>
    /\ UNCHANGED <<file, request, page, indexed, reaches>>
-----------------------------------------------------------------------------
(* Sorted pages *)

\* getSortedRows refuses a window that it could not keep.
AskSorted ==
    /\ Sorted /\ outcome = "running" /\ scan = NoScan
    /\ IF place + PageSize > SortWindow
         THEN End("refused", "none") /\ UNCHANGED scan
         ELSE scan' = NewScan(0, request.budget.records, request.budget.bytes) /\ UNCHANGED <<place, outcome, reason>>
    /\ UNCHANGED <<file, request, used, tally, page, indexed, given, reaches>>

\* How many of the window's records are read before the page is too heavy.
Fitting(window) ==
    LET sizes == {n \in 0..Len(window) : n <= 1 \/ Weight(file, SubSeq(window, 1, n)) <= PageBytes}
    IN CHOOSE n \in sizes : \A k \in sizes : k <= n

\* The page is cut out of the candidates, and the reader goes on behind it
\* with sortNextOffset or the offset after the window.
ReceiveSorted ==
    /\ Sorted /\ Read
    /\ scan' = NoScan
    /\ reaches' = reaches \cup {scan.next}
    /\ LET end == IF Len(scan.kept) < place + PageSize THEN Len(scan.kept) ELSE place + PageSize
           window == SubSeq(scan.kept, place + 1, end)
           size == Fitting(window)
           more == size < Len(window) \/ Len(scan.kept) > place + PageSize
           why == IF scan.reason = "none" /\ size < Len(window) THEN "hydration_limit" ELSE RowsReason
       IN /\ given' = given \o SubSeq(window, 1, size)
          /\ IF more THEN /\ place' = IF size < Len(window) THEN place + size ELSE place + PageSize
                          /\ reason' = why /\ UNCHANGED outcome
                     ELSE End("done", why)
    /\ UNCHANGED <<file, request, used, tally, page, indexed>>
-----------------------------------------------------------------------------
(* The Problems tab *)

AskProblems ==
    /\ Problems /\ outcome = "running" /\ scan = NoScan
    /\ scan' = NewScan(IF place = Undefined THEN 0 ELSE place + 1, request.budget.records, request.budget.bytes)
    /\ UNCHANGED <<file, request, place, used, tally, page, indexed,
                   outcome, reason, given, reaches>>

\* For ProblemsAreListed: a page that was asked for with an anchor is complete.
CompleteFromAnywhere(more) ==
    /\ scan.reason = "none"
    /\ ~PageIsFull \/ ~more
    /\ (AtEnd /\ ~PageIsFull) \/ (~more /\ LastExamined # Undefined)

\* complete of a ProblemPage
Complete(more) ==
    /\ scan.reason = "none"
    /\ ~PageIsFull \/ ~more
    /\ place = Undefined
    /\ (AtEnd /\ ~PageIsFull) \/ (~more /\ LastExamined # Undefined)

\* A page replaces the one before it, and Continue goes on from its cursor or,
\* without one, from its anchor.  Other reads and background indexing may have
\* indexed the file to its end; a scan that has met the end has.
ReceiveProblems ==
    /\ Problems /\ Read
    /\ scan' = NoScan
    /\ indexed' \in {known \in BOOLEAN :
           indexed \/ (AtEnd /\ ~PageIsFull /\ scan.reason = "none") => known}
    /\ LET more == scan.next < Total(file) \/ ~indexed'
       IN /\ page' = [items |-> scan.kept, complete |-> Complete(more)]
          /\ given' = given \o scan.kept
          /\ IF more THEN /\ place' = IF LastExamined # Undefined THEN LastExamined
                                      ELSE IF place # Undefined THEN place ELSE 0
                          /\ reason' = scan.reason /\ UNCHANGED outcome
                     ELSE End("done", scan.reason)
    /\ UNCHANGED <<file, request, used, tally, reaches>>
-----------------------------------------------------------------------------
(* The specification *)

\* The reader gives up: its signal aborts the scan, and a page that has been
\* read is not received.
Cancel ==
    /\ outcome = "running"
    /\ outcome' = "aborted"
    /\ scan' = NoScan
    /\ UNCHANGED <<file, request, place, used, tally, page, indexed, reason, given, reaches>>

Init ==
    /\ \E kind \in DOMAIN Files, query \in Queries, direction \in {"asc", "desc"},
          budget \in Budgets :
           /\ request = [kind |-> kind, query |-> query,
                         direction |-> direction, budget |-> budget]
           /\ kind # "sorted" => direction = "asc"
           /\ kind = "problems" => query = "all"
           /\ file \in Files[kind]
           /\ place = IF kind = "sorted" THEN 0 ELSE Undefined
    /\ scan = NoScan
    /\ used = [records |-> 0, bytes |-> 0]
    /\ tally = [groups |-> EmptyTally, buckets |-> EmptyTally]
    /\ page = [items |-> << >>, complete |-> FALSE]
    /\ indexed = FALSE
    /\ outcome = "running" /\ reason = "none"
    /\ given = << >> /\ reaches = {}

ScanStep == DeadlinePasses \/ BudgetEnds \/ HydrationEnds \/ ScanEnds \/ ExamineRecord

Next ==
    \/ ScanStep
    \/ AskInsights \/ ReceiveInsights
    \/ AskSorted \/ ReceiveSorted
    \/ AskProblems \/ ReceiveProblems
    \/ Cancel

Spec == Init /\ [][Next]_vars
-----------------------------------------------------------------------------
(* Properties *)

TypeOK ==
    /\ request.kind \in DOMAIN Files /\ file \in Files[request.kind]
    /\ scan.at \in {"none", "reading", "read"}
    /\ place \in Nat \cup {Undefined}
    /\ used.records \in 0..request.budget.records /\ used.bytes \in 0..request.budget.bytes
    /\ given \in Seq(DOMAIN file)
    /\ indexed \in BOOLEAN
    /\ outcome \in {"running", "done", "aborted", "stuck", "refused"}
    /\ reason \in {"none", "time_limit", "record_limit", "byte_limit",
                   "hydration_limit", "uninspectable_record"}

\* What an aggregator has to show after the rows of path: the values it saw
\* first are counted one by one, all other values together.
Kept(path, Of(_)) ==
    {v \in {Of(i).value : i \in {i \in ToSet(path) : Of(i).state = "value"}} :
        Cardinality({Of(path[n]).value : n \in
            {n \in DOMAIN path : /\ Of(path[n]).state = "value"
                                 /\ \A m \in 1..n : Of(path[m]) # Value(v)}}) < Capacity}

Shows(groups, path, Of(_)) ==
    /\ MapThenSumSet(LAMBDA n : groups[n].count, DOMAIN groups) = Len(path)
    /\ {groups[n].value : n \in {n \in DOMAIN groups : groups[n].kind = "value"}} = Kept(path, Of)
    /\ \A n \in DOMAIN groups :
           groups[n].count = Cardinality({i \in ToSet(path) :
               CASE groups[n].kind = "value" -> Of(i) = Value(groups[n].value)
                 [] groups[n].kind = "other" -> Of(i).state = "value" /\ Of(i).value \notin Kept(path, Of)
                 [] OTHER -> Of(i).state = groups[n].kind})

\* An insights query counts every record it finds once, over pages that share
\* a record, a budget that shrinks and aggregators that fill up; it does not
\* lose its cursor; its counts are those of the records it has come to; and one
\* that is not called truncated has come to all of them and could look into
\* each (insight-query.ts:76-141).
SummaryIsOfTheFile ==
    Insights =>
        LET found == Found(file, request.query, Everything)
        IN /\ IsPrefix(given, found)
           /\ outcome # "stuck"
           /\ outcome = "done" /\ reason = "none"
                => given = found /\ ~Unseen(file, request.query, Everything)
           /\ Shows(Categories(tally.groups), given, LAMBDA i : file[i].group)
           /\ Shows(Buckets(tally.buckets), given, LAMBDA i : Bucket(file[i].time))

\* The order sorted pages are to have: values by kind and size, in the
\* direction asked for, records without one last, and equal ones as in the file.
Precedes(i, j) ==
    LET absent(k) == file[k].key.kind = "missing"
        less(a, b) == \/ KindRank[a.kind] < KindRank[b.kind]
                      \/ a.kind = b.kind /\ a.value < b.value
    IN \/ ~absent(i) /\ absent(j)
       \/ file[i].key = file[j].key /\ i < j
       \/ /\ ~absent(i) /\ ~absent(j)
          /\ IF request.direction = "asc" THEN less(file[i].key, file[j].key)
                                          ELSE less(file[j].key, file[i].key)

\* Sorted pages, each cut out of a scan of its own and perhaps shortened by
\* its weight, follow one another without a gap or a record given twice, and
\* end when there is nothing more; as long as the scans came equally far
\* (jsonl-engine.ts:860-933).
SortedPagesTile ==
    Sorted /\ Cardinality(reaches) = 1 =>
        \A reach \in reaches :
            LET order == SetToSortSeq(ToSet(Found(file, request.query, Path(0, reach))), Precedes)
            IN /\ IsPrefix(given, order)
               /\ outcome = "done" => given = order

HasProblems(i) == file[i].problems > 0

\* The pages of the Problems tab list every record with problems that they
\* have come to, once and in order; the last one has come to the end; and a
\* page that calls itself complete has them all.  This is of files whose
\* records fit into the budget of a scan (jsonl-engine.ts:989-1051).
ProblemsAreListed ==
    Problems /\ (\A i \in DOMAIN file : file[i].size <= request.budget.bytes) =>
        /\ given = SelectSeq(Path(0, IF outcome = "done" THEN Total(file) ELSE place + 1), HasProblems)
        /\ page.complete => page.items = SelectSeq(Everything, HasProblems)

\* A problem page is continued where it ended, "avoiding a continuation cursor
\* that would duplicate or drop an entry" (jsonl-engine.ts:1017-1019), in any
\* file.
NoProblemIsSkipped ==
    Problems => given = SelectSeq(Path(0, IF outcome = "done" THEN Total(file) ELSE place + 1), HasProblems)

\* A summary is called truncated by its number of records only when the file
\* has more than the budget.
TruncationIsReal ==
    Insights /\ outcome = "done" /\ reason = "record_limit"
        => Total(file) > request.budget.records \/ Total(file) > MaxRows
=============================================================================
