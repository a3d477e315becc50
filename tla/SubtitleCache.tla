---------------------------- MODULE SubtitleCache ----------------------------
(***************************************************************************)
(* The cache of prepared subtitles: calls that look an asset up, fetch and *)
(* convert it, write the file, prune the directory and save the row, with  *)
(* no lock between them; writes that fail half way, and crashes.           *)
(*                                                                         *)
(* An asset is one candidate of one download in one format, and its file   *)
(* has one content: whole, cut off, or old (prepared before the cues were  *)
(* positioned).  The directory lists files by modification time.  Left     *)
(* out: the search, whose answers cache nothing, unpacking and conversion, *)
(* and the temporary file an embedded track is extracted to, which lies in *)
(* the same directory.                                                     *)
(***************************************************************************)
EXTENDS Sequences, FiniteSetsExt

CONSTANTS
    Subtitle,  \* assets, and their files
    Web,       \* the assets in WebVTT, which are positioned again on a hit
    Preparer,  \* goroutines
    Size,      \* bytes of each file
    Maximum    \* subtitleCacheMaxBytes

VARIABLES
    cache,   \* the directory, oldest first: file and content
    rows,    \* assets with a row
    prep,    \* per goroutine: position, asset, listing and total of its prune
    due,     \* history: a file was left or rewritten without a prune that saw it
    cut      \* history: files whose writer failed or died half way

subtitleVars == <<cache, rows, prep, due, cut>>

NoPrep == [pc |-> "idle", asset |-> CHOOSE a \in Subtitle : TRUE, list |-> <<>>, total |-> 0,
           disturbed |-> FALSE]

Files(dir) == {dir[i].name : i \in 1..Len(dir)}

\* A file that is being written, or was cut off, is shorter: nothing here.
Bytes(x) == IF x.content = "part" THEN 0 ELSE Size[x.name]
Total(dir) == MapThenSumSet(Bytes, {dir[i] : i \in 1..Len(dir)})
Without(f) ==
    LET i == CHOOSE j \in 1..Len(cache) : cache[j].name = f IN
    IF f \in Files(cache) THEN SubSeq(cache, 1, i - 1) \o SubSeq(cache, i + 1, Len(cache)) ELSE cache
Written(f, content) == Append(Without(f), [name |-> f, content |-> content])
Content(f) == {cache[i].content : i \in {j \in 1..Len(cache) : cache[j].name = f}}

\* Files of an earlier version may be in the cache, with their rows.
SubtitleInit ==
    /\ \E old \in SUBSET Web :
          /\ rows = old
          /\ cache \in {s \in [1..Cardinality(old) -> [name : old, content : {"old"}]] :
                           Files(s) = old}
          /\ due = (Total(cache) > Maximum)
    /\ prep = [u \in Preparer |-> NoPrep]
    /\ cut = {}

\* Another call than u's is in the middle of writing file f.
BeingWritten(u, f) ==
    \E v \in Preparer \ {u} : prep[v].pc \in {"writing", "restamping"} /\ prep[v].asset = f

Goes(u, pc) == prep' = [prep EXCEPT ![u].pc = pc]

\* A write or a removal of file f concerns the others that prepare it.
Touched(u, f, p) ==
    [v \in Preparer |-> [p[v] EXCEPT !.disturbed = @ \/ (v # u /\ p[v].pc # "idle" /\ p[v].asset = f)]]

---------------------------------------------------------------------------
(* Looking up.                                                             *)

\* A row whose file is there is a hit, whatever is in the file.
LookUp(u) ==
    /\ prep[u].pc = "idle"
    /\ \E a \in Subtitle :
          prep' = [prep EXCEPT ![u] =
              [NoPrep EXCEPT !.pc = IF a \in rows /\ a \in Files(cache)
                                    THEN IF a \in Web THEN "stamp" ELSE "served"
                                    ELSE "fetch",
                             !.asset = a, !.disturbed = BeingWritten(u, a)]]
    /\ UNCHANGED <<cache, rows, due, cut>>

\* restampWebVTTCuePositioning reads the file and rewrites an old one.
ReadStamp(u) ==
    /\ prep[u].pc = "stamp"
    /\ Goes(u, IF Content(prep[u].asset) = {"old"} THEN "restamp" ELSE "served")
    /\ UNCHANGED <<cache, rows, due, cut>>

\* os.WriteFile creates or truncates the file, so one that was pruned comes back.
BeginFile(u, f, from, to) ==
    /\ prep[u].pc = from
    /\ cache' = Written(f, "part")
    /\ prep' = Touched(u, f, [prep EXCEPT ![u].pc = to])
    /\ UNCHANGED <<rows, due, cut>>

\* The write ends, or fails and leaves what it wrote; the bytes written to a file
\* that was pruned meanwhile are lost with it.  No prune follows a restamp.
FinishFile(u, f, to, Failed) ==
    /\ \/ /\ cache' = IF f \notin Files(cache) THEN cache
                      ELSE Written(f, IF BeingWritten(u, f) THEN "part" ELSE "whole")
          /\ cut' = cut \ {f}
          /\ prep' = Touched(u, f, [prep EXCEPT ![u].pc = to])
          /\ due' = (due \/ prep[u].pc = "restamping")
       \/ /\ cut' = cut \cup {f}
          /\ due' = TRUE
          /\ Failed /\ UNCHANGED cache
    /\ UNCHANGED rows

Restamp(u) ==
    \/ BeginFile(u, prep[u].asset, "restamp", "restamping")
    \/ prep[u].pc = "restamping" /\ FinishFile(u, prep[u].asset, "served", Goes(u, "served"))

---------------------------------------------------------------------------
(* Preparing.                                                              *)

Ends(u) == prep' = [prep EXCEPT ![u] = NoPrep]

\* The provider, the torrent's file, the track of the media file or the
\* conversion has nothing to write.
FetchFails(u) ==
    /\ prep[u].pc = "fetch"
    /\ Ends(u)
    /\ UNCHANGED <<cache, rows, due, cut>>

WriteAsset(u) ==
    \/ BeginFile(u, prep[u].asset, "fetch", "writing")
    \/ prep[u].pc = "writing" /\ FinishFile(u, prep[u].asset, "list", Ends(u))

\* pruneSubtitleCache: a listing with its total, then the oldest go.
ListFiles(u) ==
    /\ prep[u].pc = "list"
    /\ prep' = [prep EXCEPT ![u].pc = "prune", ![u].list = cache, ![u].total = Total(cache)]
    /\ due' = FALSE
    /\ UNCHANGED <<cache, rows, cut>>

\* Mutant of Over: the file that is kept is left out of the total.
OverWithoutKept(total, kept) == total - Size[kept] > Maximum

Over(total, kept) == total > Maximum

\* The kept file is passed over, and so is one that somebody else removed: the
\* total keeps its bytes.
PruneOne(u) ==
    LET x == Head(prep[u].list)
        rest == [prep EXCEPT ![u].list = Tail(@)] IN
    /\ prep[u].pc = "prune"
    /\ prep[u].list # <<>> /\ Over(prep[u].total, prep[u].asset)
    /\ IF x.name # prep[u].asset /\ x.name \in Files(cache)
       THEN /\ cache' = Without(x.name)
            /\ prep' = Touched(u, x.name, [rest EXCEPT ![u].total = @ - Bytes(x)])
       ELSE prep' = rest /\ UNCHANGED cache
    /\ UNCHANGED <<rows, due, cut>>

SaveAsset(u) ==
    /\ prep[u].pc = "prune"
    /\ prep[u].list = <<>> \/ ~Over(prep[u].total, prep[u].asset)
    /\ \/ /\ rows' = rows \cup {prep[u].asset}
          /\ prep' = [prep EXCEPT ![u].pc = "served", ![u].list = <<>>, ![u].total = 0]
       \/ UNCHANGED rows /\ Ends(u)
    /\ UNCHANGED <<cache, due, cut>>

Return(u) ==
    /\ prep[u].pc = "served"
    /\ Ends(u)
    /\ UNCHANGED <<cache, rows, due, cut>>

\* The process ends: half-written files stay.
Die ==
    /\ prep' = [u \in Preparer |-> NoPrep]
    /\ due' = (due \/ \E u \in Preparer : prep[u].pc # "idle")
    /\ cut' = cut \cup {prep[u].asset : u \in {v \in Preparer : prep[v].pc \in {"writing", "restamping"}}}
    /\ UNCHANGED <<cache, rows>>

SubtitleNext ==
    \/ Die
    \/ \E u \in Preparer :
          \/ LookUp(u) \/ ReadStamp(u) \/ Restamp(u)
          \/ FetchFails(u) \/ WriteAsset(u)
          \/ ListFiles(u) \/ PruneOne(u) \/ SaveAsset(u) \/ Return(u)

SubtitleSpec == SubtitleInit /\ [][SubtitleNext]_subtitleVars

---------------------------------------------------------------------------
SubtitleTypeOK ==
    /\ Files(cache) \subseteq Subtitle /\ Cardinality(Files(cache)) = Len(cache)
    /\ rows \subseteq Subtitle /\ cut \subseteq Subtitle /\ due \in BOOLEAN
    /\ \A u \in Preparer :
          /\ prep[u].pc \in {"idle", "stamp", "restamp", "restamping", "fetch", "writing",
                             "list", "prune", "served"}
          /\ prep[u].asset \in Subtitle /\ prep[u].total \in Nat

\* When the last call has returned the cache is within its limit or holds the
\* one file that exceeds it alone, however the calls pruned each other's files;
\* what a crash, a failed write or a file that came back left above the limit
\* is taken back by the next prune.
CacheBounded ==
    (\A u \in Preparer : prep[u].pc = "idle") /\ ~due =>
        Total(cache) <= Maximum \/ Len(cache) = 1

\* An asset that is returned has its whole file, unless another call wrote or
\* pruned that file meanwhile or an earlier write of it was cut off.
ServedWhole ==
    \A u \in Preparer :
        LET a == prep[u].asset IN
        prep[u].pc = "served" /\ ~prep[u].disturbed /\ a \notin cut => Content(a) = {"whole"}
=============================================================================
