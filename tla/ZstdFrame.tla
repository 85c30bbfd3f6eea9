------------------------------- MODULE ZstdFrame -------------------------------
(***************************************************************************)
(* zstd files, as zstd_decompress.c takes them apart: the pieces it asks   *)
(* for one after the other, and the content they stand for.                *)
(*                                                                         *)
(* A file is a sequence of frames. A frame is a header, blocks (a header   *)
(* and a body of "csize" bytes each) and an optional checksum. What a      *)
(* block decodes to is a sequence of tokens: a byte, or a distance d > 0   *)
(* back in the frame, written -d, of the byte to copy. How a body spells   *)
(* its tokens (literals, Huffman and FSE codes) is left out.               *)
(***************************************************************************)
EXTENDS Integers, Sequences

HeaderSize == 2
BlockHeaderSize == 1
ChecksumSize == 2

\* An empty block is its header only.
BlockPieces(b) ==
    <<[kind |-> "header", size |-> BlockHeaderSize]>>
    \o (IF b.csize = 0 THEN <<>>
        ELSE <<[kind |-> b.type, size |-> b.csize, tokens |-> b.tokens]>>)

Pieces(f) ==
    LET upTo[n \in 0 .. Len(f.blocks)] ==
            IF n = 0 THEN <<>> ELSE upTo[n - 1] \o BlockPieces(f.blocks[n])
    IN upTo[Len(f.blocks)]
       \o (IF f.checksum THEN <<[kind |-> "checksum", size |-> ChecksumSize]>> ELSE <<>>)

FrameSize(f) ==
    LET p == Pieces(f)
        sum[n \in 0 .. Len(p)] == IF n = 0 THEN HeaderSize ELSE sum[n - 1] + p[n].size
    IN sum[Len(p)]

Tokens(f) ==
    LET upTo[n \in 0 .. Len(f.blocks)] ==
            IF n = 0 THEN <<>> ELSE upTo[n - 1] \o f.blocks[n].tokens
    IN upTo[Len(f.blocks)]

FrameContent(f) ==
    LET t == Tokens(f)
        byte[i \in 1 .. Len(t)] == IF t[i] > 0 THEN t[i] ELSE byte[i + t[i]]
    IN [i \in 1 .. Len(t) |-> byte[i]]

Content(frames) ==
    LET upTo[n \in 0 .. Len(frames)] ==
            IF n = 0 THEN <<>> ELSE upTo[n - 1] \o FrameContent(frames[n])
    IN upTo[Len(frames)]
=============================================================================
