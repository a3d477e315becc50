----------------------------- MODULE StreamRange -----------------------------
(***************************************************************************)
(* Serving a byte range of a file that is still downloading: the range     *)
(* parser, the wait for the pieces under a chunk, the path the bytes are   *)
(* read from, which the engine may change at any moment, and the copy of   *)
(* growing chunks; a probe of the media head goes the same way.            *)
(*                                                                         *)
(* Bytes, pieces and chunk sizes are small numbers; the file starts inside *)
(* a piece.  The lease that keeps the download from being removed is in    *)
(* ManagedDownloads.  Left out: the transcoding of the compatibility       *)
(* stream, whose ffmpeg is a client of this one.                           *)
(***************************************************************************)
EXTENDS Integers, FiniteSets

CONSTANTS
    Length,      \* bytes of the file
    FileOffset,  \* where it starts in the torrent
    PieceSize,
    FirstChunk,  \* StreamStartBytes
    ReadAhead,   \* ReadAheadBytes
    Reader       \* bound: requests at once

VARIABLES
    done,      \* complete pieces
    place,     \* where the engine keeps the content: temp or final
    reads      \* per reader: its request, position, chunk and path

rangeVars == <<done, place, reads>>

Min(a, b) == IF a < b THEN a ELSE b

\* A Range header: absent, a suffix, or a start with or without an end.
None == -1
Header == [first : None..Length, last : None..Length + 1]

\* parseRange: <<start, end>>, or the empty set of answers for a 416.
ParseRange(h) ==
    IF h.first = None /\ h.last = None THEN {<<0, Length - 1>>}
    ELSE
    CASE h.first = None -> {<<Length - Min(h.last, Length), Length - 1>> : ok \in {h.last} \ {0}}
      [] h.last = None -> {<<h.first, Length - 1>> : ok \in {h.first} \cap (0..Length - 1)}
      [] OTHER -> {<<h.first, Min(h.last, Length - 1)>> :
                      ok \in {h.first} \cap (0..Min(h.last, Length - 1))}

\* The pieces under count bytes at start; the first definition of the last is a
\* mutant that forgets where the file starts.
FirstPiece(start) == (FileOffset + start) \div PieceSize
LastPieceOfFile(start, count) == (start + count - 1) \div PieceSize
LastPiece(start, count) == (FileOffset + start + count - 1) \div PieceSize
Pieces == FirstPiece(0)..LastPiece(0, Length)

Idle == [pc |-> "idle", kind |-> "stream", local |-> FALSE, start |-> 0, end |-> 0, pos |-> 0, chunk |-> 0,
         path |-> "temp"]

RangeInit ==
    /\ done \in SUBSET Pieces
    /\ place = IF done = Pieces THEN "final" ELSE "temp"
    /\ reads = [r \in Reader |-> Idle]

\* completedLocalFile: the row, read once per request, may lag behind the engine.
Local == {FALSE} \cup (IF done = Pieces THEN {TRUE} ELSE {})

\* stream: the first chunk is the smaller of the startup slice and the range.
Request(r) ==
    /\ reads[r].pc = "idle"
    /\ \E h \in Header, local \in Local : \E range \in ParseRange(h) :
          reads' = [reads EXCEPT ![r] =
              [pc |-> IF local THEN "copy" ELSE "path", kind |-> "stream", local |-> local,
               start |-> range[1], end |-> range[2], pos |-> range[1],
               chunk |-> Min(FirstChunk, range[2] - range[1] + 1), path |-> place]]
    /\ UNCHANGED <<done, place>>

\* MediaInfo reads the head of the file as one chunk.
Probe(r) ==
    /\ reads[r].pc = "idle"
    /\ \E local \in Local :
          reads' = [reads EXCEPT ![r] =
              [pc |-> IF local THEN "copy" ELSE "path", kind |-> "probe", local |-> local,
               start |-> 0, end |-> Min(FirstChunk, Length) - 1, pos |-> 0,
               chunk |-> Min(FirstChunk, Length), path |-> place]]
    /\ UNCHANGED <<done, place>>

\* The chunk of the loop: no larger than the read-ahead or what is left.
ChunkOf(q) == Min(Min(q.chunk, ReadAhead), q.end - q.pos + 1)
Count(q) == IF q.pos = q.start THEN q.chunk ELSE ChunkOf(q)

\* safeQBContentPath from a fresh status, then PrepareRange.
ResolvePath(r) ==
    /\ reads[r].pc = "path"
    /\ reads' = [reads EXCEPT ![r].pc = "wait", ![r].path = place]
    /\ UNCHANGED <<done, place>>

\* WaitRange: every piece under the chunk is complete.
RangeReady(start, count) == FirstPiece(start)..LastPiece(start, count) \subseteq done

WaitRange(r) ==
    /\ reads[r].pc = "wait"
    /\ RangeReady(reads[r].pos, Count(reads[r]))
    /\ reads' = [reads EXCEPT ![r].pc = "open"]
    /\ UNCHANGED <<done, place>>

\* The last byte is read from the path; a stale path is replaced and tried again.
TryOpen(r) ==
    /\ reads[r].pc = "open"
    /\ reads' = IF reads[r].path = place THEN [reads EXCEPT ![r].pc = "copy"]
                ELSE [reads EXCEPT ![r].path = place]
    /\ UNCHANGED <<done, place>>

\* copyRange and the next chunk; content that moved after the check ends the stream.
CopyRange(r) ==
    LET q == reads[r]  n == ChunkOf(q) IN
    /\ q.pc = "copy"
    /\ reads' = [reads EXCEPT ![r] =
          IF q.path # place THEN Idle
          ELSE IF q.pos + n > q.end THEN [q EXCEPT !.pos = @ + n, !.pc = "sent"]
          ELSE [q EXCEPT !.pos = @ + n, !.chunk = n * 2,
                         !.pc = IF q.local THEN "copy" ELSE "path"]]
    /\ UNCHANGED <<done, place>>

\* A timeout of the wait, a client that leaves, or the end of the response.
Over(r) ==
    /\ reads[r].pc # "idle"
    /\ reads' = [reads EXCEPT ![r] = Idle]
    /\ UNCHANGED <<done, place>>

\* The swarm completes pieces in any order; a complete file may be moved.
CompletePiece ==
    /\ \E p \in Pieces \ done : done' = done \cup {p}
    /\ UNCHANGED <<place, reads>>

MoveContent ==
    /\ place = "temp" /\ done = Pieces
    /\ place' = "final"
    /\ UNCHANGED <<done, reads>>

ReadStep(r) == ResolvePath(r) \/ WaitRange(r) \/ TryOpen(r) \/ CopyRange(r)

RangeNext ==
    \/ CompletePiece \/ MoveContent
    \/ \E r \in Reader : Request(r) \/ Probe(r) \/ ReadStep(r) \/ Over(r)

RangeSpec == RangeInit /\ [][RangeNext]_rangeVars

---------------------------------------------------------------------------
RangeTypeOK ==
    /\ done \subseteq Pieces /\ place \in {"temp", "final"}
    /\ \A r \in Reader :
          /\ reads[r].pc \in {"idle", "path", "wait", "open", "copy", "sent"}
          /\ reads[r].start \in 0..Length - 1 /\ reads[r].end \in 0..Length - 1
          /\ reads[r].pos \in 0..Length /\ reads[r].chunk \in 0..2 * Length
          /\ reads[r].path \in {"temp", "final"}

\* What was sent is the requested range so far and no byte of it came from a
\* piece that was not complete, across every chunk boundary and file offset.
SentIsComplete ==
    \A r \in Reader :
        LET q == reads[r] IN
        q.pc # "idle" =>
            /\ q.pos <= q.end + 1
            /\ \A b \in q.start..q.pos - 1 : (FileOffset + b) \div PieceSize \in done
            /\ q.pc = "sent" => q.pos = q.end + 1
=============================================================================
