------------------------------- MODULE DirPatch -------------------------------
(***************************************************************************)
(* The directory around a diff (dirDiffPatch/dir_patch): hpatch_dir rebuilds *)
(* the directory of the new package from the directory of the old one.     *)
(*                                                                         *)
(* The old files the diff refers to are read as one stream (ref_stream.c)  *)
(* through a limited number of open files (res_handle_limit.c). The new    *)
(* paths are made one after the other (new_stream.c, new_dir_output.c):    *)
(* directories and empty files as they come, files equal to an old one by  *)
(* copying it, and the others from the stream the diff is decoded to.      *)
(*                                                                         *)
(* The decoder in between is PatchStream: here it reads any range of the   *)
(* old stream at any time, and writes the new one in consecutive pieces.   *)
(* Opening, reading, writing, copying and closing a file may fail, and     *)
(* what is read may not be what the diff was made from.                    *)
(***************************************************************************)
EXTENDS Naturals, Sequences, FiniteSets, SequencesExt

CONSTANTS
    MaxOpen,        \* _limitMaxOpenCount
    PieceSizes,     \* sizes of the reads and writes of the decoder
    Wrong,          \* a byte that occurs in no file
    MaxReads        \* bound: reads of the old stream

LimitAssumption ==
    MaxOpen \in Nat \ {0} /\ PieceSizes \subseteq Nat \ {0} /\ MaxReads \in Nat

VARIABLES
    patch,      \* [old: the contents of the old files, paths: the new entries in order];
                \* the job's input, of which Init says nothing
    pc,         \* "ready" (_file_append_ready), "patch" (the decoder), "read", "write", "end"
    path,       \* _curPathIndex, counted from 1
    files,      \* what the entries before "path", and the one being written, contain
    new,        \* [end, pos, piece, finished]: _curWriteToPosEnd, _curWriteToPos, the
                \* rest of the piece being written, isFinish
    sums,       \* [ref, copy]: the data the two checksums have seen
    handles,    \* [open, count, hit, clock]: the old files' handles
    read,       \* [pos, left, data, range, kept]: the read being made, the range it
                \* is at and _curRangeIndex
    reads,      \* reads made
    result      \* "running", "ok" or "failed"

vars == <<patch, pc, path, files, new, sums, handles, read, reads, result>>

Lesser(a, b) == IF a < b THEN a ELSE b

(***************************************************************************)
(* A new entry is [kind, data]: a "dir", an "empty" file, a "same" file    *)
(* copied from the old directory, or a "ref" file, a part of the new       *)
(* stream. A "ref" without data is listed like the others and made empty.  *)
(***************************************************************************)
Paths == patch.paths
OfKind(kind, i, data) == IF Paths[i].kind = kind THEN data ELSE <<>>
DataOf(kind) == FlattenSeq([i \in DOMAIN Paths |-> OfKind(kind, i, Paths[i].data)])
Target(p) == [i \in DOMAIN p.paths |-> p.paths[i].data]
RefData == DataOf("ref")
SameData == DataOf("same")

OldData == FlattenSeq(patch.old)
\* _rangeEndList, with the 0 that stands before it.
RangeEnd(i) == Len(FlattenSeq(SubSeq(patch.old, 1, i)))

Init ==
    /\ pc = "ready"
    /\ path = 1
    /\ files = <<>>
    /\ new = [end |-> 0, pos |-> 0, piece |-> <<>>, finished |-> FALSE]
    /\ sums = [ref |-> <<>>, copy |-> <<>>]
    /\ handles = [open |-> {}, count |-> 0, clock |-> 0, hit |-> [i \in DOMAIN patch.old |-> 0]]
    /\ read = [pos |-> 0, left |-> 0, data |-> <<>>, range |-> 1, kept |-> 1]
    /\ reads = 0
    /\ result = "running"

\* TDirPatcher_patch and hpatch_dir end: every handle is closed on every way out.
Ends(answer) ==
    /\ pc' = "end"
    /\ result' = answer
    /\ handles' = [handles EXCEPT !.open = {}, !.count = 0]

Fail == Ends("failed") /\ UNCHANGED <<patch, path, files, new, sums, read, reads>>

(***************************************************************************)
(* _file_append_ready: entries up to the next one the decoder writes.      *)
(***************************************************************************)
Ready(kinds) == pc = "ready" /\ path <= Len(Paths) /\ Paths[path].kind \in kinds

MakeNewDirOrEmptyFile ==
    /\ Ready({"dir", "empty", "ref"})
    /\ Paths[path].data = <<>>
    /\ files' = Append(files, <<>>)
    /\ path' = path + 1
    /\ UNCHANGED <<patch, pc, new, sums, handles, read, reads, result>>

\* The old file may have changed since the package was installed.
CopySameFile ==
    /\ Ready({"same"})
    /\ \E data \in {Paths[path].data, [i \in DOMAIN Paths[path].data |-> Wrong]} :
        /\ files' = Append(files, data)
        /\ sums' = [sums EXCEPT !.copy = @ \o data]
    /\ path' = path + 1
    /\ UNCHANGED <<patch, pc, new, handles, read, reads, result>>

OpenNewFile ==
    /\ Ready({"ref"})
    /\ Paths[path].data # <<>>
    /\ files' = Append(files, <<>>)
    /\ new' = [new EXCEPT !.end = @ + Len(Paths[path].data)]
    /\ pc' = "write"
    /\ UNCHANGED <<patch, path, sums, handles, read, reads, result>>

\* faulty variant: only the checksum of the decoded files is compared.
ChecksumsOfRefOnly == sums.ref = RefData

\* _writedFinish: a checksum stands for the data it was computed from.
ChecksumsMatch == sums.ref = RefData /\ sums.copy = SameData

FileEntryEnd ==
    /\ pc = "ready"
    /\ path > Len(Paths)
    /\ IF new.finished \/ ~ChecksumsMatch THEN Fail
       ELSE /\ new' = [new EXCEPT !.finished = TRUE]
            /\ pc' = "write"
            /\ UNCHANGED <<patch, path, files, sums, handles, read, reads, result>>

MakingFails == pc = "ready" /\ path <= Len(Paths) /\ Fail

(***************************************************************************)
(* _TNewStream_write: a piece is spread over the files it belongs to.      *)
(***************************************************************************)
WritePiece ==
    /\ pc = "patch"
    /\ new.pos < Len(RefData)
    /\ \E n \in PieceSizes :
        LET data == SubSeq(RefData, new.pos + 1, Lesser(new.pos + n, Len(RefData)))
        IN \E piece \in {data, [i \in DOMAIN data |-> Wrong]} :
            /\ new' = [new EXCEPT !.piece = piece]
            /\ sums' = [sums EXCEPT !.ref = @ \o piece]
    /\ pc' = "write"
    /\ UNCHANGED <<patch, path, files, handles, read, reads, result>>

Part == Lesser(Len(new.piece), new.end - new.pos)

WritePart ==
    /\ pc = "write"
    /\ new.piece # <<>>
    /\ IF new.finished \/ new.pos >= new.end THEN Fail
       ELSE LET full == new.pos + Part = new.end
            IN /\ files' = [files EXCEPT ![path] = @ \o SubSeq(new.piece, 1, Part)]
               /\ new' = [new EXCEPT !.pos = @ + Part,
                                     !.piece = SubSeq(@, Part + 1, Len(@))]
               /\ path' = IF full THEN path + 1 ELSE path
               /\ pc' = IF full THEN "ready" ELSE "write"
               /\ UNCHANGED <<patch, sums, handles, read, reads, result>>

WriteDone ==
    /\ pc = "write"
    /\ new.piece = <<>>
    /\ pc' = "patch"
    /\ UNCHANGED <<patch, path, files, new, sums, handles, read, reads, result>>

WriteFails == pc = "write" /\ new.piece # <<>> /\ Fail

(***************************************************************************)
(* _refStream_read. The files are open only while there is room for them:  *)
(* the one with the fewest and oldest reads makes room for the next.       *)
(***************************************************************************)
BeginRead ==
    /\ pc = "patch"
    /\ reads < MaxReads
    /\ \E pos \in 0 .. Len(OldData) - 1, n \in PieceSizes :
        /\ pos + n <= Len(OldData)
        /\ read' = [read EXCEPT !.pos = pos, !.left = n, !.data = <<>>, !.range = read.kept]
    /\ reads' = reads + 1
    /\ pc' = "read"
    /\ UNCHANGED <<patch, path, files, new, sums, handles, result>>

\* The first range that ends behind the position.
FindRange(pos) ==
    CHOOSE i \in DOMAIN patch.old :
        pos < RangeEnd(i) /\ \A j \in 1 .. i - 1 : pos >= RangeEnd(j)

InRange(i, pos) == RangeEnd(i - 1) <= pos /\ pos <= RangeEnd(i)

SeekRange ==
    /\ pc = "read"
    /\ read.left > 0
    /\ ~InRange(read.range, read.pos)
    /\ read' = [read EXCEPT !.range = FindRange(read.pos)]
    /\ UNCHANGED <<patch, pc, path, files, new, sums, handles, reads, result>>

Oldest == CHOOSE i \in handles.open : \A j \in handles.open : handles.hit[i] <= handles.hit[j]

\* faulty variant: one file more than the limit is opened.
NoRoomPastLimit == handles.count > MaxOpen

NoRoom == handles.count >= MaxOpen

\* _TResHandleLimit_read: the handles after a read of file i.
Opened(i) ==
    LET hit == [handles EXCEPT !.clock = @ + 1, !.hit[i] = handles.clock + 1]
    IN IF i \in handles.open THEN hit
       ELSE IF NoRoom THEN [hit EXCEPT !.open = (@ \ {Oldest}) \cup {i}]
       ELSE [hit EXCEPT !.open = @ \cup {i}, !.count = @ + 1]

ReadPart ==
    /\ pc = "read"
    /\ read.left > 0
    /\ InRange(read.range, read.pos)
    /\ LET i == read.range
           n == Lesser(read.left, RangeEnd(i) - read.pos)
           at == read.pos - RangeEnd(i - 1)
           leaves == read.pos + read.left > RangeEnd(i)
       IN /\ handles' = IF n > 0 THEN Opened(i) ELSE handles
          /\ read' = [read EXCEPT !.data = @ \o SubSeq(patch.old[i], at + 1, at + n),
                                  !.pos = @ + n, !.left = @ - n,
                                  !.range = IF leaves THEN @ + 1 ELSE @]
    /\ UNCHANGED <<patch, pc, path, files, new, sums, reads, result>>

ReadDone ==
    /\ pc = "read"
    /\ read.left = 0
    /\ read' = [read EXCEPT !.kept = read.range]
    /\ pc' = "patch"
    /\ UNCHANGED <<patch, path, files, new, sums, handles, reads, result>>

ReadFails == pc = "read" /\ read.left > 0 /\ Fail

(***************************************************************************)
(* The decoder's answer: a patch that wrote all of the new stream, or an   *)
(* error; a handle that does not close makes an error of both.             *)
(***************************************************************************)
PatchEnds ==
    /\ pc = "patch"
    /\ \E answer \in {"ok", "failed"} :
        /\ answer = "ok" => new.pos = Len(RefData)
        /\ Ends(answer)
    /\ UNCHANGED <<patch, path, files, new, sums, read, reads>>

Next ==
    \/ MakeNewDirOrEmptyFile \/ CopySameFile \/ OpenNewFile \/ FileEntryEnd \/ MakingFails
    \/ WritePiece \/ WritePart \/ WriteDone \/ WriteFails
    \/ BeginRead \/ SeekRange \/ ReadPart \/ ReadDone \/ ReadFails
    \/ PatchEnds

Spec == Init /\ [][Next]_vars /\ WF_vars(Next)

-----------------------------------------------------------------------------
\* "ok" is answered only over the whole directory of the new package, each file
\* with its own bytes: wherever the pieces cut the files, and although a copied or
\* decoded file may have been wrong on the way.
OkMeansWholeDirectory == result = "ok" => files = Target(patch)

\* What the decoder reads is the old stream, across files, backwards and after
\* their handles were closed for others; and no more files are open than allowed.
ReadsOldData ==
    /\ read.data = SubSeq(OldData, read.pos - Len(read.data) + 1, read.pos)
    /\ Cardinality(handles.open) <= MaxOpen
    /\ handles.count = Cardinality(handles.open)
=============================================================================
