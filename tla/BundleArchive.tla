----------------------------- MODULE BundleArchive -----------------------------
(***************************************************************************)
(* The tar profile of a full bundle: the server writes the files of a      *)
(* bundle (materializeBundleArchive.ts), the device extracts them          *)
(* (codemagic_patch_extract_tar_file, codemagic_patch_artifacts.c) and     *)
(* walks the tree it made (codemagic_patch_validate_contents_tree). The    *)
(* two are written apart, from one page of PROTOCOL.md.                    *)
(*                                                                         *)
(* A path is a sequence of characters, "/" among them. The sizes of the    *)
(* format are constants: the code's are 512, 100, 155, 4096, 512, 255,     *)
(* 1023 and 128 KiB. A tar is a sequence of cells, one for each byte; the  *)
(* first cell of a header block stands for its fields.                     *)
(***************************************************************************)
EXTENDS Integers, Sequences, SequencesExt

CONSTANTS
    Block,          \* size of a tar block
    NameField, PrefixField, MaxLongName,
    MaxDevicePath, MaxSegment,  \* the server's caps on a path and on its segments
    ValidatorPath,  \* longest path of the device's walk over the tree
    Buffer          \* CODEMAGIC_PATCH_IO_BUFFER_SIZE

ProfileAssumption ==
    /\ Block \in Nat \ {0} /\ Buffer \in Nat \ {0}
    /\ {NameField, PrefixField, MaxLongName, MaxDevicePath, MaxSegment, ValidatorPath} \subseteq Nat
    /\ MaxDevicePath <= ValidatorPath
    /\ MaxDevicePath <= MaxLongName

VARIABLES
    bundle,     \* sequence of files [path, bytes]: the job's input
    tar, complete,  \* its archive, and whether all of it arrived
    pc,         \* "header", "longName", "entry", "data", "padding", "walk", "end"
    at,         \* cells read
    header,     \* the fields of the entry being read
    longName,   \* the path of a long-name record that has no entry yet
    left,       \* bytes of the entry still to copy
    bytes,      \* what the entry's file holds
    out,        \* the files extracted
    result,     \* "running", "ok" or "failed"
    ioFailed    \* history: a read or a write has failed

vars == <<bundle, tar, complete, pc, at, header, longName, left, bytes, out, result, ioFailed>>

(***************************************************************************)
(* The writer.                                                             *)
(***************************************************************************)
Zero == [kind |-> "zero", value |-> 0]
Byte(b) == [kind |-> "byte", value |-> b]
Zeros(n) == [i \in 1 .. n |-> Zero]
Cells(seq) == [i \in DOMAIN seq |-> Byte(seq[i])]
Padding(n) == (-n) % Block

Header(name, prefix, size, type) ==
    [i \in 1 .. Block |->
        IF i > 1 THEN Zero
        ELSE [kind |-> "header",
              value |-> [name |-> name, prefix |-> prefix, size |-> size, type |-> type]]]

Slashes(path) == {i \in DOMAIN path : path[i] = "/"}
SegmentEnds(path) == Slashes(path) \cup {Len(path) + 1}
Prefix(path, i) == SubSeq(path, 1, i - 1)
Name(path, i) == SubSeq(path, i + 1, Len(path))

\* splitTarPath: the last "/" that leaves both parts room, or the whole path.
SplitsAt(path) ==
    {i \in Slashes(path) : i - 1 <= PrefixField /\ Len(path) - i <= NameField}
Splits(path) == Len(path) <= NameField \/ SplitsAt(path) # {}

RegularHeader(path, size) ==
    LET i == CHOOSE j \in SplitsAt(path) : \A k \in SplitsAt(path) : k <= j
    IN IF Len(path) <= NameField THEN Header(path, <<>>, size, "0")
       ELSE IF SplitsAt(path) # {} THEN Header(Name(path, i), Prefix(path, i), size, "0")
       ELSE Header(SubSeq(path, 1, NameField), <<>>, size, "0")

\* faulty variant: a record holds the path without the byte that ends it.
LongNameUnterminated(path) ==
    Header(<<"@">>, <<>>, Len(path), "L") \o Cells(path) \o Zeros(Padding(Len(path)))

LongNameRecord(path) ==
    Header(<<"@">>, <<>>, Len(path) + 1, "L") \o Cells(path) \o <<Zero>>
    \o Zeros(Padding(Len(path) + 1))

\* The server refuses a path that no device could make.
Representable(path) ==
    /\ Len(path) <= MaxDevicePath
    /\ \A i, j \in {0} \cup SegmentEnds(path) :
          i < j /\ SegmentEnds(path) \cap i + 1 .. j - 1 = {} => j - i - 1 <= MaxSegment
    /\ Splits(path) \/ Len(path) <= MaxLongName

EntryCells(file) ==
    (IF Splits(file.path) THEN <<>> ELSE LongNameRecord(file.path))
    \o RegularHeader(file.path, Len(file.bytes))
    \o Cells(file.bytes) \o Zeros(Padding(Len(file.bytes)))

Archive(files) == FlattenSeq([i \in DOMAIN files |-> EntryCells(files[i])]) \o Zeros(2 * Block)

(***************************************************************************)
(* The extractor.                                                          *)
(***************************************************************************)
Init ==
    /\ \A i \in DOMAIN bundle : Representable(bundle[i].path)
    /\ \E whole \in {Archive(bundle)} :
        /\ tar \in {SubSeq(whole, 1, n) : n \in 0 .. Len(whole)}
        /\ complete = (tar = whole)
    /\ pc = "header"
    /\ at = 0
    /\ header = [name |-> <<>>, prefix |-> <<>>, size |-> 0, type |-> "0"]
    /\ longName = <<>>
    /\ left = 0
    /\ bytes = <<>>
    /\ out = <<>>
    /\ result = "running"
    /\ ioFailed = FALSE

Fail ==
    /\ pc' = "end"
    /\ result' = "failed"
    /\ UNCHANGED <<bundle, tar, complete, at, header, longName, left, bytes, out, ioFailed>>

\* fread of n bytes: fewer make an error.
Readable(n) == at + n <= Len(tar)
NextCells(n) == SubSeq(tar, at + 1, at + n)

IsZeroBlock(block) == \A i \in DOMAIN block : block[i] = Zero

ReadHeader ==
    /\ pc = "header"
    /\ IF ~Readable(Block) THEN Fail
       ELSE /\ at' = at + Block
            /\ IF IsZeroBlock(NextCells(Block))
               THEN /\ pc' = IF longName = <<>> THEN "walk" ELSE "end"
                    /\ result' = IF longName = <<>> THEN result ELSE "failed"
                    /\ UNCHANGED header
               ELSE IF Head(NextCells(Block)).kind # "header"
               THEN pc' = "end" /\ result' = "failed" /\ UNCHANGED header
               ELSE /\ header' = Head(NextCells(Block)).value
                    /\ pc' = IF header'.type = "L" THEN "longName" ELSE "entry"
                    /\ UNCHANGED result
            /\ UNCHANGED <<bundle, tar, complete, longName, left, bytes, out, ioFailed>>

ReadLongName ==
    /\ pc = "longName"
    /\ LET n == header.size
           name == NextCells(n)
       IN IF \/ longName # <<>> \/ n < 2 \/ n > MaxLongName + 1
             \/ ~Readable(n + Padding(n))
             \/ name[n] # Zero \/ \E i \in 1 .. n - 1 : name[i] = Zero
          THEN Fail
          ELSE /\ longName' = [i \in 1 .. n - 1 |-> name[i].value]
               /\ at' = at + n + Padding(n)
               /\ pc' = "header"
               /\ UNCHANGED <<bundle, tar, complete, header, left, bytes, out, result, ioFailed>>

\* faulty variant: the placeholder of the header is taken for the path.
HeaderPathOnly == IF header.prefix = <<>> THEN header.name ELSE header.prefix \o <<"/">> \o header.name

EntryPath ==
    IF longName # <<>> THEN longName
    ELSE IF header.prefix # <<>> THEN header.prefix \o <<"/">> \o header.name
    ELSE header.name

\* codemagic_patch_validate_relative_path: every segment has a name.
ValidRelativePath(path) ==
    /\ path # <<>>
    /\ \A i \in SegmentEnds(path) : i > 1 /\ path[i - 1] # "/"

\* A device makes no name longer than its file system allows.
OpenEntry ==
    /\ pc = "entry"
    /\ IF ~ValidRelativePath(EntryPath) THEN Fail
       ELSE /\ pc' = "data"
            /\ header' = [header EXCEPT !.name = EntryPath]
            /\ longName' = <<>>
            /\ left' = header.size
            /\ bytes' = <<>>
            /\ UNCHANGED <<bundle, tar, complete, at, out, result, ioFailed>>

CopyChunk ==
    /\ pc = "data"
    /\ left > 0
    /\ LET n == IF left > Buffer THEN Buffer ELSE left
       IN IF ~Readable(n) THEN Fail
          ELSE /\ bytes' = bytes \o [i \in 1 .. n |-> NextCells(n)[i].value]
               /\ at' = at + n
               /\ left' = left - n
               /\ UNCHANGED <<bundle, tar, complete, pc, header, longName, out, result, ioFailed>>

CloseEntry ==
    /\ pc = "data"
    /\ left = 0
    /\ IF ~Readable(Padding(header.size)) THEN Fail
       ELSE /\ out' = Append(out, [path |-> header.name, bytes |-> bytes])
            /\ at' = at + Padding(header.size)
            /\ pc' = "header"
            /\ UNCHANGED <<bundle, tar, complete, header, longName, left, bytes, result, ioFailed>>

\* validate_contents_tree: every file, by the path it was extracted to.
WalkTree ==
    /\ pc = "walk"
    /\ pc' = "end"
    /\ result' = IF \A i \in DOMAIN out : Len(out[i].path) <= ValidatorPath
                                          /\ ValidRelativePath(out[i].path)
                 THEN "ok" ELSE "failed"
    /\ UNCHANGED <<bundle, tar, complete, at, header, longName, left, bytes, out, ioFailed>>

IoFails ==
    /\ pc # "end"
    /\ ioFailed' = TRUE
    /\ pc' = "end"
    /\ result' = "failed"
    /\ UNCHANGED <<bundle, tar, complete, at, header, longName, left, bytes, out>>

Next ==
    \/ ReadHeader \/ ReadLongName \/ OpenEntry \/ CopyChunk \/ CloseEntry \/ WalkTree
    \/ IoFails

Spec == Init /\ [][Next]_vars /\ WF_vars(Next)

-----------------------------------------------------------------------------
\* What the server accepts, every device can install: an archive that arrived whole
\* is refused only when the disk fails. The two sides agree on where a path is split,
\* when it needs a long-name record, and how far a record reaches.
AcceptedBundleInstalls == complete /\ result = "failed" => ioFailed

\* Extraction is a decoder like the others (see Rebuild), file by file: each under
\* its own path, all of them when it answers "ok", whatever part of the archive is
\* missing.
Rebuilds == INSTANCE Rebuild WITH target <- bundle
ImplementsRebuild == Rebuilds!Spec
=============================================================================
