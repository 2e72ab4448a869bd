---------------------------- MODULE SegmentIndex ----------------------------
(***************************************************************************)
(* AdaptiveSegmentIndex of src/src/engine/segment-index.ts: an index of    *)
(* the records of a snapshot that is built chunk by chunk, one summary per *)
(* finished segment, with the exact references of a few segments in a      *)
(* cache and those of the others rebuilt from the file.                    *)
(*                                                                         *)
(* Operators over an index value; JsonlEngine has the awaits between them. *)
(* A byte is a record [is, at]: what it is to the newline scanner, and the *)
(* write that put it there.  Offsets count from 0 and sequences from 1.    *)
(***************************************************************************)
EXTENDS Integers, Sequences, SequencesExt

CONSTANTS
    SegmentRecords,  \* segmentTargetRecords
    SegmentBytes,    \* segmentTargetBytes
    CachedSegments   \* exactCacheSegments

ASSUME SegmentAssumption ==
    /\ SegmentRecords \in Nat \ {0}
    /\ SegmentBytes \in Nat \ {0}
    /\ CachedSegments \in Nat \ {0}

Kinds == {"x", "cr", "lf"}

\* length bytes of a file from an offset on, as many as there are.
BytesAt(bytes, offset, length) ==
    SubSeq(bytes, offset + 1, IF offset + length < Len(bytes)
                                THEN offset + length ELSE Len(bytes))

PhysicalEnd(ref) == ref.end + ref.delimiter
LineStartAfter(refs, lineStart) ==
    IF refs = <<>> THEN lineStart ELSE PhysicalEnd(Last(refs))

\* What NewlineScanner.scan finds in a chunk, in order.
IsLineFeed(byte) == byte.is = "lf"

\* The references of the lines that end in a chunk read at base, the first
\* of which began at lineStart; previous is the byte before the chunk.
ChunkRefs(base, lineStart, previous, chunk) ==
    LET before(n) == IF n = 1 THEN previous ELSE chunk[n - 1].is
        delimiter(n) == IF before(n) = "cr" THEN 2 ELSE 1
        ended[n \in 0..Len(chunk)] ==
            IF n = 0 THEN <<>>
            ELSE IF ~IsLineFeed(chunk[n]) THEN ended[n - 1]
            ELSE Append(ended[n - 1],
                    [start |-> LineStartAfter(ended[n - 1], lineStart),
                     end |-> base + n - delimiter(n),
                     delimiter |-> delimiter(n)])
    IN  ended[Len(chunk)]

\* What follows the last line feed of a range that ends at an offset.
UnendedLine(lineStart, at) ==
    IF lineStart < at
      THEN <<[start |-> lineStart, end |-> at, delimiter |-> 0]>>
      ELSE <<>>

\* The definition of the records of a file that the index has to agree with.
SplitLines(bytes) ==
    LET refs == ChunkRefs(0, 0, "none", bytes)
    IN  refs \o UnendedLine(LineStartAfter(refs, 0), Len(bytes))
-----------------------------------------------------------------------------
(* The index *)

EmptyIndex ==
    [scanned |-> 0,        \* scanOffset
     lineStart |-> 0,
     previous |-> "none",  \* previousByte
     records |-> 0,        \* nextOrdinal
     complete |-> FALSE,
     segments |-> <<>>,    \* their summaries
     pending |-> <<>>,     \* pendingRefs
     cache |-> <<>>]       \* exactCache, least recently used first

\* putCache, which makes the segment the most recently used one.
PutCache(cache, id, refs) ==
    LET old == {n \in DOMAIN cache : cache[n].id = id}
        others == IF old = {} THEN cache ELSE RemoveAt(cache, CHOOSE n \in old : TRUE)
        kept == Append(others, [id |-> id, refs |-> refs])
    IN  IF Len(kept) > CachedSegments THEN Tail(kept) ELSE kept

FinalizePending(ix) ==
    IF ix.pending = <<>> THEN ix
    ELSE LET id == Len(ix.segments)
             count == Len(ix.pending)
         IN  [ix EXCEPT
                !.segments = Append(@,
                    [first |-> ix.records - count, count |-> count,
                     start |-> Head(ix.pending).start,
                     end |-> PhysicalEnd(Last(ix.pending))]),
                !.cache = PutCache(@, id, ix.pending),
                !.pending = <<>>]

EmitRecord(ix, ref) ==
    LET emitted == [ix EXCEPT !.pending = Append(@, ref),
                              !.records = @ + 1,
                              !.lineStart = PhysicalEnd(ref)]
        bytes == PhysicalEnd(ref) - Head(emitted.pending).start
    IN  IF Len(emitted.pending) >= SegmentRecords \/ bytes >= SegmentBytes
          THEN FinalizePending(emitted)
          ELSE emitted

EmitRecords(ix, refs) ==
    LET emitted[n \in 0..Len(refs)] ==
            IF n = 0 THEN ix ELSE EmitRecord(emitted[n - 1], refs[n])
    IN  emitted[Len(refs)]

FinishAtEof(ix, size) ==
    LET last == EmitRecords(ix, UnendedLine(ix.lineStart, size))
    IN  [FinalizePending(last) EXCEPT !.complete = TRUE]

\* The rest of scanNextChunk once the chunk has been validated.
CommitChunk(ix, chunk, size) ==
    LET refs == ChunkRefs(ix.scanned, ix.lineStart, ix.previous, chunk)
        moved == [EmitRecords(ix, refs) EXCEPT
                    !.previous = Last(chunk).is,
                    !.scanned = ix.scanned + Len(chunk)]
    IN  IF moved.scanned >= size THEN FinishAtEof(moved, size) ELSE moved

\* findFinalizedSegment: the ids of the segments that hold a record.
SegmentsWith(ix, ordinal) ==
    {id \in 0..Len(ix.segments) - 1 :
        /\ ix.segments[id + 1].first <= ordinal
        /\ ordinal < ix.segments[id + 1].first + ix.segments[id + 1].count}

Cached(ix, id) == {n \in 1..Len(ix.cache) : ix.cache[n].id = id}
-----------------------------------------------------------------------------
(* A segment that is being rebuilt *)

StartLoad(ix, id) ==
    LET meta == ix.segments[id + 1]
    IN  [id |-> id, offset |-> meta.start, lineStart |-> meta.start,
         previous |-> "none", refs |-> <<>>]

\* For AnswersAreOfTheSnapshot of JsonlEngine: every chunk is taken for the
\* first one.
LoadChunkForgetsByte(load, chunk) ==
    LET refs == ChunkRefs(load.offset, load.lineStart, "none", chunk)
    IN  [load EXCEPT !.refs = @ \o refs,
                     !.lineStart = LineStartAfter(refs, @),
                     !.offset = @ + Len(chunk)]

LoadChunk(load, chunk) ==
    LET refs == ChunkRefs(load.offset, load.lineStart, load.previous, chunk)
    IN  [load EXCEPT !.refs = @ \o refs,
                     !.lineStart = LineStartAfter(refs, @),
                     !.previous = Last(chunk).is,
                     !.offset = @ + Len(chunk)]

LoadedRefs(ix, load) ==
    load.refs \o UnendedLine(load.lineStart, ix.segments[load.id + 1].end)
=============================================================================
