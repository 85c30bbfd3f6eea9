----------------------------- MODULE MCZstdStream -----------------------------
(***************************************************************************)
(* Files for ZstdStream: one or two frames of every kind of block, with    *)
(* and without content size and checksum, whole or cut short.              *)
(***************************************************************************)
EXTENDS ZstdFrame

Raw(tokens) == [type |-> "raw", csize |-> Len(tokens), tokens |-> tokens]
Rle(tokens) == [type |-> "rle", csize |-> 1, tokens |-> tokens]
Compressed(csize, tokens) == [type |-> "compressed", csize |-> csize, tokens |-> tokens]
Empty == Raw(<<>>)

\* Long enough to go around the buffer, copying from as far back as the window lets it.
Long == <<Raw(<<1, 2>>), Compressed(1, <<3, -3>>), Compressed(2, <<-3, 4>>), Raw(<<5, 6>>),
          Compressed(1, <<-3, -3>>), Compressed(1, <<-3, -3>>), Compressed(1, <<7, -3>>),
          Compressed(1, <<-3, -3>>), Raw(<<8>>), Compressed(1, <<-3, -2>>)>>
Short == <<Compressed(3, <<1, 2>>), Rle(<<3, 3>>), Empty>>
Tiny == <<Raw(<<4, 5>>)>>

WithBlocks(allBlocks, checksums) ==
    {[contentSizeKnown |-> known, checksum |-> sum, window |-> 3, blocks |-> blocks] :
        known \in BOOLEAN, sum \in checksums, blocks \in allBlocks}

OneFrame == {<<f>> : f \in WithBlocks({Long, Short, Tiny, <<Empty>>}, BOOLEAN)}
TwoFrames == {<<f, g>> : f, g \in WithBlocks({Short, Tiny}, {FALSE})}

TotalSize(frames) ==
    LET upTo[n \in 0 .. Len(frames)] ==
            IF n = 0 THEN 0 ELSE upTo[n - 1] + FrameSize(frames[n])
    IN upTo[Len(frames)]

Whole(frames) == [frames |-> frames, size |-> TotalSize(frames), complete |-> TRUE]
CutShort(file_) == {[file_ EXCEPT !.size = n, !.complete = FALSE] : n \in 0 .. file_.size - 1}

AllFiles ==
    {Whole(frames) : frames \in OneFrame \cup TwoFrames}
    \cup UNION {CutShort(Whole(frames)) : frames \in OneFrame}
=============================================================================
