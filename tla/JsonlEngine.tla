---------------------------- MODULE JsonlEngine ----------------------------
(***************************************************************************)
(* JsonlFileEngine of src/src/engine/jsonl-engine.ts over a file that      *)
(* other programs write while it is read: opening with its fingerprints,   *)
(* the snapshot checks around every read, indexing chunk by chunk,         *)
(* classification of a refresh, the serial executor, background indexing   *)
(* and disposal.  Every read and stat is an await, so each is an action    *)
(* and the writer may act between any two.                                 *)
(*                                                                         *)
(* A digest is the bytes it was made of (no two ranges collide), a stamp   *)
(* stands for mtime and ctime (no two writes share one), and a write never *)
(* puts back the bytes an earlier one replaced.  Device and inode numbers  *)
(* are available.                                                          *)
(***************************************************************************)
EXTENDS SegmentIndex

CONSTANTS
    Contents,          \* what the file may hold when it is opened
    FingerprintBytes,  \* DEFAULT_FINGERPRINT_BYTES
    InlineBytes,       \* INLINE_FULL_FINGERPRINT_BYTES
    ChunkBytes,        \* readChunkBytes
    MaxQueued,         \* maxQueuedOperations
    Operations,        \* operations the host asks for
    MaxOperations,     \* bound: how many of them
    Writes,            \* what other programs do to the file
    MaxWrites          \* bound: how many of them

ASSUME BytesAssumption ==
    /\ FingerprintBytes \in Nat
    /\ InlineBytes \in Nat
    /\ ChunkBytes \in Nat \ {0}
ASSUME ContentsAssumption ==
    \A bytes \in Contents : bytes \in Seq([is: Kinds, at: {0}])
ASSUME OperationsAssumption ==
    Operations \subseteq [op: {"index", "row", "detail", "classify"}, ordinal: Nat]
ASSUME QueueAssumption == MaxQueued \in Nat \ {0}
ASSUME WritesAssumption ==
    Writes \subseteq {"append", "rewrite", "touch", "truncate", "delete",
                      "replace", "directory", "restore"}

VARIABLES
    path,         \* what the path names: Source, Other, Directory or Nothing
    disk,         \* bytes and stamp of the two files
    writes,       \* writes so far, the next stamp
    damaged,      \* history: a write did more than append or touch
    snapshot,     \* what opening saw: bytes, size and the two fingerprints
    baseline,     \* fullFingerprint
    index,
    invalidated,
    run,          \* the operation of the executor that runs
    queue,        \* those that wait for it
    asked,        \* operations the host has asked for
    background,   \* the background indexing loop
    answer,       \* what the last operation gave
    closing,
    closed

vars == <<path, disk, writes, damaged, snapshot, baseline, index, invalidated,
          run, queue, asked, background, answer, closing, closed>>
fileVars == <<path, disk, writes, damaged>>
engineVars == <<snapshot, baseline, index, invalidated>>
hostVars == <<queue, asked, background, closing, closed>>
-----------------------------------------------------------------------------
(* Values *)

Source == 1
Other == 2
Directory == 3
Nothing == 0
Files == {Source, Other}

Size == snapshot.size
Content(f) == disk[f].bytes
Stat(f) ==
    IF f \in Files
      THEN [file |-> f, size |-> Len(disk[f].bytes), stamp |-> disk[f].stamp]
      ELSE [file |-> f, size |-> 0, stamp |-> 0]

\* The bytes of the snapshot that a file holds now.
OldRange(f) == BytesAt(Content(f), 0, Size)

\* fullFingerprint: not begun, known, or a baseline that cannot be had.
Lazy == [state |-> "lazy", bytes |-> <<>>]
Unavailable == [state |-> "unavailable", bytes |-> <<>>]
Known(bytes) == [state |-> "known", bytes |-> bytes]

\* An operation has a place, the places it goes on from when the snapshot
\* check returns and when the baseline is there, and what it has read.
Idle ==
    [op |-> "none", ordinal |-> 0, at |-> "idle", then |-> "idle",
     cont |-> "idle", file |-> Nothing, seen |-> [file |-> Nothing, size |-> 0, stamp |-> 0],
     read |-> <<>>, used |-> 0, load |-> <<>>, ref |-> <<>>, record |-> <<>>]
Starting(op) ==
    [Idle EXCEPT !.op = op.op, !.ordinal = op.ordinal, !.then = "scan",
        !.at = CASE op.op \in {"index", "background", "row"} -> "check-path"
                 [] op.op = "detail" -> "scan"
                 [] op.op = "classify" -> "classify-path"]

NoAnswer ==
    [op |-> "none", ordinal |-> 0, outcome |-> "none", ref |-> <<>>, bytes |-> <<>>]

Destructive == {"truncate", "replace", "delete"}
RefreshKinds == {"unchanged", "append", "unknown"} \cup Destructive
Outcomes == {"none", "ok", "failed"} \cup RefreshKinds
Reads == {"index", "background", "row", "detail"}

\* pending of SerialExecutor.
Pending == Len(queue) + (IF run.op \in {"none", "open"} THEN 0 ELSE 1)

TypeOK ==
    /\ path \in Files \cup {Directory, Nothing}
    /\ \A f \in Files :
        /\ disk[f].stamp \in 0..MaxWrites
        /\ \A i \in DOMAIN Content(f) :
            Content(f)[i].is \in Kinds /\ Content(f)[i].at \in 0..MaxWrites
    /\ writes \in 0..MaxWrites
    /\ damaged \in BOOLEAN
    /\ baseline.state \in {"lazy", "unavailable", "known"}
    /\ index.scanned \in 0..Size
    /\ index.complete => index.pending = <<>> /\ index.scanned = Size
    /\ Len(index.cache) <= CachedSegments
    /\ invalidated \in BOOLEAN
    /\ run.op \in Reads \cup {"none", "open", "classify"}
    /\ Pending <= MaxQueued
    /\ asked \in 0..MaxOperations
    /\ background \in {"off", "armed", "waiting", "settled"}
    /\ answer.outcome \in Outcomes
    /\ closing \in BOOLEAN /\ closed \in BOOLEAN

\* What opening sees of the file, the path and the handle being one file.
Init ==
    /\ \E bytes \in Contents :
        /\ disk = [f \in Files |->
                     [bytes |-> IF f = Source THEN bytes ELSE <<>>, stamp |-> 0]]
        /\ snapshot = [bytes |-> bytes, size |-> Len(bytes), prefix |-> <<>>, tail |-> <<>>]
    /\ path = Source
    /\ writes = 0
    /\ damaged = FALSE
    /\ baseline = Lazy
    /\ index = EmptyIndex
    /\ invalidated = FALSE
    /\ run = [Idle EXCEPT !.op = "open", !.at = "open-prefix"]
    /\ queue = <<>>
    /\ asked = 0
    /\ background = "off"
    /\ answer = NoAnswer
    /\ closing = FALSE
    /\ closed = FALSE
-----------------------------------------------------------------------------
(* Helpers of an operation's steps *)

\* The operation settles; a background loop goes on in a later turn.
Settle(result) ==
    /\ run' = Idle
    /\ answer' = result
    /\ background' =
        IF run.op # "background" THEN background
        ELSE IF result.outcome = "ok" /\ ~index.complete
          THEN "armed" ELSE "settled"
    /\ UNCHANGED <<queue, asked, closing, closed>>
Ends(outcome) ==
    Settle([NoAnswer EXCEPT !.op = run.op, !.ordinal = run.ordinal, !.outcome = outcome])

\* The guard of makeGuard throws once the engine is closing.
Aborted == closing
Fail == Ends("failed") /\ UNCHANGED engineVars

\* invalidateSnapshot, and the error that follows it.
LatchAndFail ==
    /\ invalidated' = TRUE
    /\ Ends("failed")
    /\ UNCHANGED <<snapshot, baseline, index>>

GoesOn == UNCHANGED <<hostVars, answer>>
Continue(next) == run' = next /\ GoesOn /\ UNCHANGED engineVars
Goto(place) == Continue([run EXCEPT !.at = place])

\* getFullFingerprint, which is read once: on at place when it is there.
WithBaseline(op, place) ==
    IF baseline.state = "lazy"
      THEN [op EXCEPT !.at = "base-stat", !.cont = place]
      ELSE [op EXCEPT !.at = place]

\* assertSnapshotUnchanged returns: to the body of the operation, or, after
\* the body, with the operation's answer.
Return ==
    IF run.then = "scan"
      THEN Continue([run EXCEPT !.at = "scan", !.seen = Idle.seen, !.read = <<>>])
      ELSE /\ Settle([op |-> run.op, ordinal |-> run.ordinal, outcome |-> "ok",
                      ref |-> run.ref, bytes |-> run.record])
           /\ UNCHANGED engineVars

\* The body is done and the snapshot is checked once more.
CheckLast ==
    Continue([run EXCEPT !.at = "check-path", !.then = "deliver",
                         !.load = <<>>, !.read = <<>>])
-----------------------------------------------------------------------------
(* Opening, and the baseline: fingerprintRange and fingerprintStableRange *)

PrefixLength == IF Size < FingerprintBytes THEN Size ELSE FingerprintBytes
PrefixOf(f) == BytesAt(Content(f), 0, PrefixLength)
TailOf(f) == BytesAt(Content(f), Size - PrefixLength, PrefixLength)

OpenPrefix ==
    /\ run.at = "open-prefix"
    /\ snapshot' = [snapshot EXCEPT !.prefix = PrefixOf(Source)]
    /\ run' = [run EXCEPT !.at = "open-tail"]
    /\ GoesOn /\ UNCHANGED <<baseline, index, invalidated>>

OpenTail ==
    /\ run.at = "open-tail"
    /\ snapshot' = [snapshot EXCEPT !.tail = TailOf(Source)]
    /\ run' = IF Size <= InlineBytes
                THEN [run EXCEPT !.at = "base-stat", !.cont = "idle"]
                ELSE Idle
    /\ GoesOn /\ UNCHANGED <<baseline, index, invalidated>>

SnapshotStat == [file |-> Source, size |-> Size, stamp |-> 0]

\* The baseline is there; the opening engine is ready with it.
BaselineIs(b) ==
    /\ baseline' = b
    /\ run' = IF run.cont = "idle" THEN Idle
              ELSE [run EXCEPT !.at = run.cont, !.cont = "idle", !.read = <<>>]
    /\ GoesOn /\ UNCHANGED <<snapshot, index, invalidated>>

BaseStat ==
    /\ run.at = "base-stat"
    /\ IF Stat(Source) = SnapshotStat
         THEN Goto("base-read")
         ELSE BaselineIs(Unavailable)

BaseRead ==
    /\ run.at = "base-read"
    /\ IF Aborted
         THEN BaselineIs(Unavailable)
         ELSE Continue([run EXCEPT !.at = "base-again", !.read = OldRange(Source)])

BaseAgain ==
    /\ run.at = "base-again"
    /\ IF Stat(Source) = SnapshotStat
         THEN BaselineIs(Known(run.read))
         ELSE BaselineIs(Unavailable)
-----------------------------------------------------------------------------
(* assertSnapshotUnchanged *)

CheckPath ==
    /\ run.at = "check-path"
    /\ IF Aborted \/ invalidated THEN Fail
       ELSE IF path # Source THEN LatchAndFail
       ELSE Goto("check-handle")

CheckHandle ==
    LET now == Stat(Source)
        grown == [run EXCEPT !.at = "check-prefix", !.seen = now]
    IN  /\ run.at = "check-handle"
        /\ IF Aborted THEN Fail
           ELSE IF now = SnapshotStat THEN Return
           ELSE IF now.size < Size THEN LatchAndFail
           ELSE IF now.size > Size THEN Continue(grown)
           ELSE Continue(WithBaseline([run EXCEPT !.seen = now], "check-whole"))

CheckPrefix ==
    /\ run.at = "check-prefix"
    /\ IF Aborted THEN Fail
       ELSE Continue([run EXCEPT !.at = "check-tail", !.read = PrefixOf(Source)])

CheckTail ==
    /\ run.at = "check-tail"
    /\ IF Aborted THEN Fail
       ELSE IF run.read = snapshot.prefix /\ TailOf(Source) = snapshot.tail
         THEN Continue(WithBaseline([run EXCEPT !.read = <<>>], "check-whole"))
         ELSE LatchAndFail

\* Without a baseline a file that has grown stays readable, one of the same
\* size does not.
CheckWhole ==
    /\ run.at = "check-whole"
    /\ IF baseline = Unavailable
         THEN IF run.seen.size > Size THEN Return ELSE Fail
       ELSE IF Aborted THEN Fail
       ELSE IF OldRange(Source) # baseline.bytes THEN LatchAndFail
       ELSE Goto("check-again")

CheckAgain ==
    /\ run.at = "check-again"
    /\ IF ~Aborted /\ Stat(Source) = run.seen THEN Return ELSE Fail
-----------------------------------------------------------------------------
(* Reading: scanNextChunk, getRecord, loadSegment and hydrate *)

\* indexMore has not used up its budget, or ensureOrdinal has not come to
\* the record yet.
WantsChunk ==
    /\ ~index.complete
    /\ IF run.op \in {"index", "background"}
         THEN run.used < ChunkBytes
         ELSE index.records <= run.ordinal

ReadAt(offset, end) ==
    BytesAt(Content(Source), offset,
            IF end - offset < ChunkBytes THEN end - offset ELSE ChunkBytes)

\* The end of the read that the budget of indexMore allows.
BudgetEnd ==
    LET end == index.scanned + ChunkBytes - run.used
    IN  IF run.op \in {"index", "background"} /\ end < Size THEN end ELSE Size

\* A read that ends an operation when it finds no bytes.
ReadChunk(chunk) ==
    IF Aborted \/ chunk = <<>> THEN Fail
    ELSE Continue([run EXCEPT !.at = "commit-path", !.read = chunk])

Scan ==
    /\ run.at = "scan"
    /\ WantsChunk
    /\ IF index.scanned < Size
         THEN ReadChunk(ReadAt(index.scanned, BudgetEnd))
         ELSE /\ index' = FinishAtEof(index, Size)
              /\ GoesOn /\ UNCHANGED <<run, snapshot, baseline, invalidated>>

\* For IndexIsOfTheSnapshot: the check after the body is left out.
IndexDoneUnchecked ==
    /\ run.at = "scan"
    /\ ~WantsChunk
    /\ run.op \in {"index", "background"}
    /\ Ends("ok")
    /\ UNCHANGED engineVars

IndexDone ==
    /\ run.at = "scan"
    /\ ~WantsChunk
    /\ run.op \in {"index", "background"}
    /\ CheckLast

\* getRecord has the reference, the cache is what it has left, and hydrate
\* begins; getDetail first compares it with the one it was asked for.
Found(ref, cache) ==
    /\ index' = [index EXCEPT !.cache = cache]
    /\ IF run.op = "detail" /\ ref # SplitLines(snapshot.bytes)[run.ordinal + 1]
         THEN Ends("failed")
         ELSE /\ run' = [run EXCEPT !.at = "hydrate", !.ref = <<ref>>, !.load = <<>>]
              /\ GoesOn
    /\ UNCHANGED <<snapshot, baseline, invalidated>>

FindRecord ==
    LET firstPending == index.records - Len(index.pending)
    IN  /\ run.at = "scan"
        /\ ~WantsChunk
        /\ run.op \in {"row", "detail"}
        /\ IF run.ordinal >= index.records
             THEN IF run.op = "detail" THEN Fail ELSE CheckLast
           ELSE IF run.ordinal >= firstPending
             THEN Found(index.pending[run.ordinal - firstPending + 1], index.cache)
           ELSE \E id \in SegmentsWith(index, run.ordinal) :
             IF Cached(index, id) = {}
               THEN Continue([run EXCEPT !.at = "load", !.load = <<StartLoad(index, id)>>])
               ELSE \E n \in Cached(index, id) :
                 Found(index.cache[n].refs[run.ordinal - index.segments[id + 1].first + 1],
                       PutCache(index.cache, id, index.cache[n].refs))

LoadSegment ==
    /\ run.at = "load"
    /\ LET load == run.load[1]
           meta == index.segments[load.id + 1]
           refs == LoadedRefs(index, load)
       IN  IF load.offset < meta.end THEN ReadChunk(ReadAt(load.offset, meta.end))
           ELSE IF Len(refs) # meta.count THEN Fail
           ELSE Found(refs[run.ordinal - meta.first + 1],
                      PutCache(index.cache, load.id, refs))

\* assertSnapshotMetadataUnchanged, before what was read may be committed.
CommitPath ==
    /\ run.at = "commit-path"
    /\ IF path = Nothing THEN LatchAndFail
       ELSE Continue([run EXCEPT !.at = "commit-handle", !.seen = Stat(path)])

MayCommit ==
    LET now == Stat(Source)
        truncated == run.seen.size < Size \/ now.size < Size
        rewritten == now.size = Size /\ now.stamp # 0
        divergent == run.seen.size # now.size
    IN  /\ run.seen.file = Source
        /\ ~truncated
        /\ ~rewritten
        /\ divergent => now.size > Size

CommitHandle ==
    /\ run.at = "commit-handle"
    /\ IF ~MayCommit THEN LatchAndFail
       ELSE IF Aborted THEN Fail
       ELSE IF run.load # <<>>
         THEN Continue([run EXCEPT !.at = "load", !.read = <<>>, !.seen = Idle.seen,
                                   !.load = <<LoadChunk(@[1], run.read)>>])
       ELSE /\ index' = CommitChunk(index, run.read, Size)
            /\ run' = [run EXCEPT !.at = "scan", !.read = <<>>, !.seen = Idle.seen,
                                  !.used = @ + Len(run.read)]
            /\ GoesOn /\ UNCHANGED <<snapshot, baseline, invalidated>>

\* readExactly, as many reads as the record takes.
Hydrate ==
    LET ref == run.ref[1]
        offset == ref.start + Len(run.record)
        bytes == ReadAt(offset, ref.end)
    IN  /\ run.at = "hydrate"
        /\ IF offset = ref.end THEN CheckLast
           ELSE IF Aborted \/ bytes = <<>> THEN Fail
           ELSE Continue([run EXCEPT !.record = @ \o bytes])
-----------------------------------------------------------------------------
(* classifyRefresh *)

Classified(kind) == Ends(kind) /\ UNCHANGED engineVars

ClassifyPath ==
    /\ run.at = "classify-path"
    /\ IF path = Nothing THEN Classified("delete")
       ELSE IF Aborted THEN Fail
       ELSE IF path # Source THEN Classified("replace")
       ELSE IF Stat(path).size < Size THEN Classified("truncate")
       ELSE Continue([run EXCEPT !.at = "classify-open", !.seen = Stat(path)])

ClassifyOpen ==
    /\ run.at = "classify-open"
    /\ \/ /\ path = Nothing
          /\ Classified("delete")
       \/ /\ path # Nothing
          /\ Continue([run EXCEPT !.at = "classify-prefix", !.file = path])
       \/ Classified("unknown")

\* A directory can be opened and not be read.
ClassifyPrefix ==
    /\ run.at = "classify-prefix"
    /\ IF run.file = Directory \/ Aborted THEN Fail
       ELSE IF PrefixOf(run.file) # snapshot.prefix THEN Classified("replace")
       ELSE Goto("classify-tail")

ClassifyTail ==
    /\ run.at = "classify-tail"
    /\ IF Aborted THEN Fail
       ELSE IF TailOf(run.file) # snapshot.tail THEN Classified("replace")
       ELSE Continue(WithBaseline(run, "classify-whole"))

\* For OnlyDamageIsDestructive: no baseline is taken for a mismatch.
ClassifyWholeGuesses ==
    /\ run.at = "classify-whole"
    /\ IF baseline = Unavailable THEN Classified("replace")
       ELSE IF Aborted THEN Fail
       ELSE IF OldRange(run.file) # baseline.bytes THEN Classified("replace")
       ELSE Goto("classify-again")

ClassifyWhole ==
    /\ run.at = "classify-whole"
    /\ IF baseline = Unavailable THEN Classified("unknown")
       ELSE IF Aborted THEN Fail
       ELSE IF OldRange(run.file) # baseline.bytes THEN Classified("replace")
       ELSE Goto("classify-again")

GrownOrNot == IF run.seen.size > Size THEN "append" ELSE "unchanged"

\* For ClassificationIsProof: the file is not looked at again.
ClassifyAgainUnchecked ==
    /\ run.at = "classify-again"
    /\ Classified(GrownOrNot)

ClassifyAgain ==
    /\ run.at = "classify-again"
    /\ IF path = Nothing THEN Classified("delete")
       ELSE IF path = Directory THEN Classified("replace")
       ELSE IF Stat(path) # run.seen THEN Classified("unknown")
       ELSE Classified(GrownOrNot)
-----------------------------------------------------------------------------
(* The executor, background indexing and disposal *)

\* SerialExecutor.run refuses what comes when its queue is full.
Enqueue(op) ==
    /\ Pending < MaxQueued
    /\ queue' = Append(queue, op)

Ask(op) ==
    /\ run.op # "open"
    /\ ~closing
    /\ asked < MaxOperations
    /\ asked' = asked + 1
    /\ op.op = "detail" => op.ordinal < Len(SplitLines(snapshot.bytes))
    /\ Enqueue(op)
    /\ UNCHANGED <<fileVars, engineVars, run, background, answer, closing, closed>>

\* The next operation begins, and ends at its first guard when the engine
\* has been closed meanwhile.
Dequeue ==
    /\ run = Idle
    /\ queue # <<>>
    /\ queue' = Tail(queue)
    /\ IF closing
         THEN /\ run' = Idle
              /\ answer' = [NoAnswer EXCEPT !.op = Head(queue).op, !.outcome = "failed"]
              /\ background' = IF Head(queue).op = "background" THEN "settled"
                               ELSE background
         ELSE /\ run' = Starting(Head(queue))
              /\ answer' = NoAnswer
              /\ UNCHANGED background
    /\ UNCHANGED <<fileVars, engineVars, asked, closing, closed>>

StartBackgroundIndexing ==
    /\ run.op # "open"
    /\ ~closing
    /\ background = "off"
    /\ background' = "armed"
    /\ UNCHANGED <<fileVars, engineVars, run, queue, asked, answer, closing, closed>>

\* For EverythingSettles: the loop does not notice that it was refused.
BackgroundStepDropped ==
    /\ background = "armed"
    /\ IF closing
         THEN background' = "settled" /\ UNCHANGED queue
         ELSE /\ background' = "waiting"
              /\ queue' = IF Pending < MaxQueued
                            THEN Append(queue, [op |-> "background", ordinal |-> 0])
                            ELSE queue
    /\ UNCHANGED <<fileVars, engineVars, run, asked, answer, closing, closed>>

\* step of startBackgroundIndexing; a full queue ends the loop.
BackgroundStep ==
    /\ background = "armed"
    /\ IF closing \/ Pending >= MaxQueued
         THEN background' = "settled" /\ UNCHANGED queue
         ELSE /\ background' = "waiting"
              /\ Enqueue([op |-> "background", ordinal |-> 0])
    /\ UNCHANGED <<fileVars, engineVars, run, asked, answer, closing, closed>>

\* For HandleOutlivesOperations: the file is closed without waiting.
DisposeAtOnce ==
    /\ run.op # "open"
    /\ ~closing
    /\ closing' = TRUE
    /\ closed' = TRUE
    /\ UNCHANGED <<fileVars, engineVars, run, queue, asked, background, answer>>

Dispose ==
    /\ run.op # "open"
    /\ ~closing
    /\ closing' = TRUE
    /\ UNCHANGED <<fileVars, engineVars, run, queue, asked, background, answer, closed>>

\* executor.idle() has been reached.
CloseHandle ==
    /\ closing
    /\ ~closed
    /\ run = Idle
    /\ queue = <<>>
    /\ closed' = TRUE
    /\ UNCHANGED <<fileVars, engineVars, run, queue, asked, background, answer, closing>>
-----------------------------------------------------------------------------
(* The programs that write the file *)

Byte(is) == [is |-> is, at |-> writes + 1]

\* A write of the source file, through its path or a handle on it.
Written(bytes) ==
    disk' = [disk EXCEPT ![Source] = [bytes |-> bytes, stamp |-> writes + 1]]

WriteSource(kind) ==
    LET old == Content(Source)
    IN  \/ /\ kind = "append"
           /\ \E is \in {"x", "lf"} : Written(Append(old, Byte(is)))
        \/ /\ kind = "touch"
           /\ Written(old)
        \/ /\ kind = "rewrite"
           /\ \E i \in DOMAIN old, is \in {"x", "lf"} : Written([old EXCEPT ![i] = Byte(is)])
        \/ /\ kind = "truncate"
           /\ \E n \in 0..Len(old) - 1 : Written(SubSeq(old, 1, n))

\* A rename over the path, with a copy of the source or with something else.
MovePath(kind) ==
    \/ /\ kind = "delete"
       /\ path # Nothing
       /\ path' = Nothing
       /\ UNCHANGED disk
    \/ /\ kind = "directory"
       /\ path' = Directory
       /\ UNCHANGED disk
    \/ /\ kind = "replace"
       /\ path' = Other
       /\ \E bytes \in {Content(Source), <<Byte("x")>>} :
            disk' = [disk EXCEPT ![Other] = [bytes |-> bytes, stamp |-> writes + 1]]
    \/ /\ kind = "restore"
       /\ path # Source
       /\ path' = Source
       /\ disk' = [disk EXCEPT ![Source].stamp = writes + 1]

Write(kind) ==
    /\ writes < MaxWrites
    /\ writes' = writes + 1
    /\ damaged' = (damaged \/ kind \notin {"append", "touch"})
    /\ \/ WriteSource(kind) /\ UNCHANGED path
       \/ MovePath(kind)
    /\ UNCHANGED <<engineVars, run, hostVars, answer>>
-----------------------------------------------------------------------------
Opening == OpenPrefix \/ OpenTail \/ BaseStat \/ BaseRead \/ BaseAgain
Checking ==
    \/ CheckPath \/ CheckHandle \/ CheckPrefix \/ CheckTail
    \/ CheckWhole \/ CheckAgain
Reading ==
    \/ Scan \/ IndexDone \/ FindRecord \/ LoadSegment
    \/ CommitPath \/ CommitHandle \/ Hydrate
Classifying ==
    \/ ClassifyPath \/ ClassifyOpen \/ ClassifyPrefix
    \/ ClassifyTail \/ ClassifyWhole \/ ClassifyAgain

OperationStep ==
    /\ Opening \/ Checking \/ Reading \/ Classifying
    /\ UNCHANGED fileVars
EngineStep == OperationStep \/ Dequeue \/ BackgroundStep \/ CloseHandle

Next ==
    \/ EngineStep
    \/ \E op \in Operations : Ask(op)
    \/ StartBackgroundIndexing
    \/ Dispose
    \/ \E kind \in Writes : Write(kind)

\* The event loop runs what is ready; nobody has to ask, write or close.
Spec == Init /\ [][Next]_vars /\ WF_vars(EngineStep)
-----------------------------------------------------------------------------
(* Properties *)

\* What can be said of an engine that has a baseline or may still get one.
Provable == baseline # Unavailable

\* A row or a detail that is answered is the record of the snapshot with that
\* ordinal, and an empty answer means that there is none, whatever has been
\* written to the file while it was looked up, rebuilt and read: JsonlFileEngine
\* getRows and getDetail with the snapshot checks before and after the read.
AnswersAreOfTheSnapshot ==
    LET lines == SplitLines(snapshot.bytes)
    IN  Provable /\ answer.op \in {"row", "detail"} /\ answer.outcome = "ok" =>
            IF answer.ordinal >= Len(lines) THEN answer.ref = <<>>
            ELSE LET line == lines[answer.ordinal + 1]
                 IN  /\ answer.ref = <<line>>
                     /\ answer.bytes =
                          BytesAt(snapshot.bytes, line.start, line.end - line.start)

\* The records the index has committed, its unfinished segment and the
\* segments in its cache are those of the snapshot's bytes: no record is cut
\* where a chunk ended, counted twice or taken from what was written later.
IndexAgrees ==
    LET lines == SplitLines(snapshot.bytes)
        segment(id) == index.segments[id + 1]
    IN  /\ IF index.complete THEN index.records = Len(lines)
           ELSE index.records <= Len(lines)
        /\ index.pending =
             SubSeq(lines, index.records - Len(index.pending) + 1, index.records)
        /\ \A n \in DOMAIN index.cache :
             LET meta == segment(index.cache[n].id)
             IN  index.cache[n].refs =
                   SubSeq(lines, meta.first + 1, meta.first + meta.count)

\* What an operation has answered from the index agreed with the snapshot:
\* scanNextChunk commits before the final snapshot check has been made.
IndexIsOfTheSnapshot ==
    Provable /\ answer.op \in Reads /\ answer.outcome = "ok" /\ run = Idle =>
        IndexAgrees

\* "append" and "unchanged" are proofs: at the last look at the path it named
\* the source, grown or not, with every byte of the snapshot in its place
\* (classifyRefresh).
ClassificationIsProof ==
    [][answer'.outcome \in {"append", "unchanged"} /\ answer' # answer =>
         /\ path = Source
         /\ OldRange(Source) = snapshot.bytes
         /\ (answer'.outcome = "append") <=> (Len(Content(Source)) > Size)]_vars

\* A source that other programs only appended to or touched is never called
\* truncated, replaced or deleted, which would block its panels.
OnlyDamageIsDestructive ==
    answer.outcome \in Destructive => damaged

\* The handle is closed only when no operation is left that could read it.
HandleOutlivesOperations == closed => run = Idle /\ queue = <<>>

\* Every operation that was accepted settles, the background loop included,
\* and an engine that is disposed of closes its file.
EverythingSettles ==
    []<>(/\ run = Idle /\ queue = <<>>
         /\ background \in {"off", "settled"}
         /\ closing => closed)

\* "The old engine is latched after a confirmed content mismatch" (ADR-002):
\* a file that was only appended to or touched leaves it readable.
LatchedOnMismatch == invalidated => damaged
=============================================================================
