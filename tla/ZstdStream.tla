------------------------------ MODULE ZstdStream ------------------------------
(***************************************************************************)
(* A downloaded archive is decompressed piece by piece:                    *)
(* codemagic_patch_decompress_zstd_file (codemagic_patch_artifacts.c)      *)
(* feeds buffers of the file to ZSTD_decompressStream (zstd_decompress.c), *)
(* until the file is read, and keeps the output if the last call said that *)
(* a frame had ended.                                                      *)
(***************************************************************************)
EXTENDS ZstdFrame

CONSTANTS
    InSizes,        \* sizes tried for the client's input buffer, ZSTD_DStreamInSize
    OutSizes,       \* sizes tried for its output buffer, ZSTD_DStreamOutSize
    BlockMax,       \* fParams.blockSizeMax
    Overlength      \* WILDCOPY_OVERLENGTH

SizesAssumption ==
    InSizes \subseteq Nat \ {0} /\ OutSizes \subseteq Nat \ {0}
    /\ BlockMax \in Nat \ {0} /\ Overlength \in Nat

VARIABLES
    file,       \* [frames, size, complete]: the job's input, of which Init says nothing
    inSize, outSize,  \* sizes of the client's buffers
    pc,         \* "fread", the stages of ZSTD_decompressStream, "return", "end"
    filePos,    \* bytes read from the file
    in,         \* ZSTD_inBuffer: [size, pos], and start, its pos when the call began
    moved,      \* ZSTD_outBuffer: the bytes this call has put into it
    zds,        \* the stream: [stage, lhSize, inPos, outStart, outEnd, hostage]
    dctx,       \* the frame: [frame, piece, left, at, prefixStart, prefixAt, dictEnd]
    outBuff,    \* zds->outBuff
    lastStatus, \* what the last call returned: 0 when a frame had ended
    out,        \* what the output file holds
    result,     \* "running", "ok" or "failed"; a failure unlinks the output
    ioFailed    \* history: a read or a write has failed

vars == <<file, inSize, outSize, pc, filePos, in, moved, zds, dctx, outBuff,
          lastStatus, out, result, ioFailed>>

Smaller(a, b) == IF a < b THEN a ELSE b

\* The frame being decoded, its next piece, and what the decoder expects of it.
Frame == file.frames[dctx.frame]
FramePieces == Pieces(Frame)
FrameEnded == dctx.piece > Len(FramePieces)
Piece == FramePieces[dctx.piece]
Expected == IF FrameEnded THEN 0 ELSE Piece.size - dctx.left

\* ZSTD_nextSrcSizeToDecompressWithInputSize: only a raw block can be streamed.
NeededWith(inputSize) ==
    IF FrameEnded \/ Piece.kind # "raw" THEN Expected
    ELSE IF inputSize < 1 THEN 1 ELSE Smaller(inputSize, Expected)

\* faulty variant: room for one block only.
DecodingBufferSizeOneBlock(f) == f.window + BlockMax

\* ZSTD_decodingBufferSize_internal: the window, a block that may start at the
\* beginning of the buffer before the window behind it is no longer needed, and a
\* block that the literals of the next one may be kept in.
DecodingBufferSize(f) ==
    LET ring == f.window + 2 * BlockMax + 2 * Overlength
    IN IF f.contentSizeKnown THEN Smaller(Len(Tokens(f)), ring) ELSE ring

BufferSize == DecodingBufferSize(Frame)

(***************************************************************************)
(* The client's loop.                                                      *)
(***************************************************************************)
FreshStream == [stage |-> "init", lhSize |-> 0, inPos |-> 0, outStart |-> 0,
                outEnd |-> 0, hostage |-> FALSE]
FreshFrame(n) == [frame |-> n, piece |-> 1, left |-> 0, at |-> 0,
                  prefixStart |-> 0, prefixAt |-> 0, prefixEnd |-> 0, dictEnd |-> 0]

Init ==
    /\ inSize \in InSizes /\ outSize \in OutSizes
    /\ pc = "fread"
    /\ filePos = 0
    /\ in = [size |-> 0, pos |-> 0, start |-> 0]
    /\ moved = <<>>
    /\ zds = FreshStream
    /\ dctx = FreshFrame(0)
    /\ outBuff = <<>>
    /\ lastStatus = 1
    /\ out = <<>>
    /\ result = "running"
    /\ ioFailed = FALSE

Fails ==
    /\ pc' = "end"
    /\ result' = "failed"
    /\ out' = <<>>
    /\ UNCHANGED <<file, inSize, outSize, filePos, in, moved, zds, dctx, outBuff, lastStatus>>

Fread ==
    /\ pc = "fread"
    /\ UNCHANGED ioFailed
    /\ LET n == Smaller(inSize, file.size - filePos)
       IN IF n = 0
          THEN IF lastStatus # 0 THEN Fails
               ELSE /\ pc' = "end"
                    /\ result' = "ok"
                    /\ UNCHANGED <<file, inSize, outSize, filePos, in, moved, zds, dctx,
                                   outBuff, lastStatus, out>>
          ELSE /\ filePos' = filePos + n
               /\ in' = [size |-> n, pos |-> 0, start |-> 0]
               /\ pc' = "call"
               /\ UNCHANGED <<file, inSize, outSize, moved, zds, dctx, outBuff, lastStatus,
                              out, result>>

\* One turn of "while (in.pos < in.size)", with an empty output buffer.
MoreInput == in.pos < in.size

Call ==
    /\ pc = "call"
    /\ IF MoreInput
       THEN /\ pc' = "work"
            /\ in' = [in EXCEPT !.start = in.pos]
            /\ moved' = <<>>
       ELSE pc' = "fread" /\ UNCHANGED <<in, moved>>
    /\ UNCHANGED <<file, inSize, outSize, filePos, zds, dctx, outBuff, lastStatus, out, result, ioFailed>>

IoFails ==
    /\ pc = "fread" \/ (pc = "written" /\ moved # <<>>)
    /\ ioFailed' = TRUE
    /\ Fails

(***************************************************************************)
(* The stages of ZSTD_decompressStream.                                    *)
(***************************************************************************)
Working(stage) == pc = "work" /\ zds.stage = stage
Rest == in.size - in.pos
Room == outSize - Len(moved)

StageInit ==
    /\ Working("init")
    /\ zds' = [FreshStream EXCEPT !.stage = "loadHeader"]
    /\ dctx' = FreshFrame(dctx.frame + 1)
    /\ UNCHANGED <<file, inSize, outSize, pc, filePos, in, moved, outBuff, lastStatus, out, result, ioFailed>>

\* The header may be spread over several inputs; a call that cannot complete it
\* takes all of its input and returns at once.
LoadPartOfHeader ==
    /\ Working("loadHeader")
    /\ HeaderSize - zds.lhSize > Rest
    /\ zds' = [zds EXCEPT !.lhSize = @ + Rest]
    /\ in' = [in EXCEPT !.pos = in.size]
    /\ lastStatus' = 1
    /\ pc' = "written"
    /\ UNCHANGED <<file, inSize, outSize, filePos, moved, dctx, outBuff, out, result, ioFailed>>

\* The whole frame is in the input, its header included, and the output has room.
SinglePass ==
    /\ Frame.contentSizeKnown
    /\ Room >= Len(Tokens(Frame))
    /\ zds.lhSize = 0
    /\ in.start + FrameSize(Frame) <= in.size

LoadHeader ==
    /\ Working("loadHeader")
    /\ HeaderSize - zds.lhSize <= Rest
    /\ IF SinglePass
       THEN /\ in' = [in EXCEPT !.pos = in.start + FrameSize(Frame)]
            /\ moved' = moved \o FrameContent(Frame)
            /\ zds' = [zds EXCEPT !.stage = "init"]
            /\ dctx' = [dctx EXCEPT !.piece = Len(FramePieces) + 1]
            /\ pc' = "return"
            /\ UNCHANGED outBuff
       ELSE /\ in' = [in EXCEPT !.pos = @ + HeaderSize - zds.lhSize]
            /\ zds' = [zds EXCEPT !.lhSize = HeaderSize, !.stage = "read"]
            /\ outBuff' = [i \in 1 .. BufferSize |-> 0]
            /\ UNCHANGED <<dctx, moved, pc>>
    /\ UNCHANGED <<file, inSize, outSize, filePos, lastStatus, out, result, ioFailed>>

(***************************************************************************)
(* ZSTD_decompressContinue on n bytes of the next piece, into outBuff at   *)
(* outStart. Indices count from 0 as the code's pointers do. The bytes     *)
(* before prefixStart of a frame are the old segment that ends at dictEnd. *)
(***************************************************************************)
AtBuffer(buff, i) == buff[i + 1]

\* ZSTD_checkContinuity: a block that does not follow the last one makes what was
\* decoded so far the old segment.
Continued ==
    IF zds.outStart = dctx.prefixEnd THEN dctx
    ELSE [dctx EXCEPT !.dictEnd = dctx.prefixEnd, !.prefixStart = zds.outStart,
                      !.prefixAt = dctx.at, !.prefixEnd = zds.outStart]

\* Decoding a block may use all of the room a block can take, and a little more,
\* before its own bytes are in place.
Scratched ==
    [i \in DOMAIN outBuff |->
        IF i > zds.outStart /\ i <= zds.outStart + BlockMax + Overlength THEN 0 ELSE outBuff[i]]

Decoded(tokens) ==
    LET d == Continued
        old == IF Piece.kind = "compressed" THEN Scratched ELSE outBuff
        byte[i \in 1 .. Len(tokens)] ==
            LET from == d.at + i - 1 + tokens[i]
            IN IF tokens[i] > 0 THEN tokens[i]
               ELSE IF from >= d.at THEN byte[from - d.at + 1]
               ELSE IF from >= d.prefixAt THEN AtBuffer(old, d.prefixStart + from - d.prefixAt)
               ELSE AtBuffer(old, d.dictEnd - (d.prefixAt - from))
    IN [i \in DOMAIN outBuff |->
           IF i > zds.outStart /\ i <= zds.outStart + Len(tokens)
           THEN byte[i - zds.outStart] ELSE old[i]]

PieceTokens(n) ==
    CASE Piece.kind = "raw" -> SubSeq(Piece.tokens, dctx.left + 1, dctx.left + n)
      [] Piece.kind \in {"compressed", "rle"} -> Piece.tokens
      [] OTHER -> <<>>

\* ZSTD_decompressContinueStream.
DecompressContinue(n) ==
    LET tokens == PieceTokens(n)
        done == dctx.left + n = Piece.size
        next == [Continued EXCEPT !.left = IF done THEN 0 ELSE dctx.left + n,
                                  !.piece = IF done THEN @ + 1 ELSE @,
                                  !.at = @ + Len(tokens),
                                  !.prefixEnd = @ + Len(tokens)]
    IN /\ dctx' = IF Piece.kind \in {"header", "checksum"}
                  THEN [dctx EXCEPT !.left = 0, !.piece = @ + 1]
                  ELSE next
       /\ outBuff' = IF tokens = <<>> THEN outBuff ELSE Decoded(tokens)
       /\ zds' = [zds EXCEPT !.inPos = 0,
                             !.outEnd = IF tokens = <<>> THEN @ ELSE zds.outStart + Len(tokens),
                             !.stage = IF tokens = <<>> THEN "read" ELSE "flush"]

ReadEndOfFrame ==
    /\ Working("read")
    /\ NeededWith(Rest) = 0
    /\ zds' = [zds EXCEPT !.stage = "init"]
    /\ pc' = "return"
    /\ UNCHANGED <<file, inSize, outSize, filePos, in, moved, dctx, outBuff, lastStatus, out, result, ioFailed>>

\* The input holds what is needed: it is decoded where it is.
ReadDirect ==
    /\ Working("read")
    /\ NeededWith(Rest) > 0
    /\ Rest >= NeededWith(Rest)
    /\ DecompressContinue(NeededWith(Rest))
    /\ in' = [in EXCEPT !.pos = @ + NeededWith(Rest)]
    /\ UNCHANGED <<file, inSize, outSize, pc, filePos, moved, lastStatus, out, result, ioFailed>>

ReadTooLittle ==
    /\ Working("read")
    /\ Rest < NeededWith(Rest)
    /\ IF Rest = 0 THEN pc' = "return" /\ UNCHANGED zds
       ELSE zds' = [zds EXCEPT !.stage = "load"] /\ UNCHANGED pc
    /\ UNCHANGED <<file, inSize, outSize, filePos, in, moved, dctx, outBuff, lastStatus, out, result, ioFailed>>

\* The input is collected until it holds what is needed.
Load ==
    /\ Working("load")
    /\ LET toLoad == Expected - zds.inPos
           n == Smaller(toLoad, Rest)
       IN /\ in' = [in EXCEPT !.pos = @ + n]
          /\ IF n < toLoad
             THEN /\ zds' = [zds EXCEPT !.inPos = @ + n]
                  /\ pc' = "return"
                  /\ UNCHANGED <<dctx, outBuff>>
             ELSE DecompressContinue(Expected) /\ UNCHANGED pc
    /\ UNCHANGED <<file, inSize, outSize, filePos, moved, lastStatus, out, result, ioFailed>>

Flush ==
    /\ Working("flush")
    /\ LET n == Smaller(zds.outEnd - zds.outStart, Room)
           flushed == zds.outStart + n
           complete == flushed = zds.outEnd
           restart == /\ complete
                      /\ ~Frame.contentSizeKnown \/ BufferSize < Len(Tokens(Frame))
                      /\ flushed + BlockMax > BufferSize
       IN /\ moved' = moved \o SubSeq(outBuff, zds.outStart + 1, flushed)
          /\ zds' = [zds EXCEPT !.outStart = IF restart THEN 0 ELSE flushed,
                                !.outEnd = IF restart THEN 0 ELSE @,
                                !.stage = IF complete THEN "read" ELSE @]
          /\ pc' = IF complete THEN "work" ELSE "return"
    /\ UNCHANGED <<file, inSize, outSize, filePos, in, dctx, outBuff, lastStatus, out, result, ioFailed>>

(***************************************************************************)
(* The end of a call. When the frame is decoded but not flushed, the last  *)
(* byte of the input is kept as a hostage: it makes the caller come back.  *)
(***************************************************************************)
\* faulty variant: the last byte is given up at once.
KeepHostageNever == [in |-> in, zds |-> zds]

KeepHostage ==
    IF zds.hostage THEN [in |-> in, zds |-> zds]
    ELSE [in |-> [in EXCEPT !.pos = @ - 1], zds |-> [zds EXCEPT !.hostage = TRUE]]

Return ==
    /\ pc = "return"
    /\ pc' = "written"
    /\ IF ~FrameEnded THEN lastStatus' = 1 /\ UNCHANGED <<in, zds>>
       ELSE IF zds.outEnd # zds.outStart
       THEN /\ lastStatus' = 1
            /\ in' = KeepHostage.in
            /\ zds' = KeepHostage.zds
       ELSE IF zds.hostage /\ in.pos >= in.size
       THEN /\ lastStatus' = 1
            /\ zds' = [zds EXCEPT !.stage = "read"]
            /\ UNCHANGED in
       ELSE /\ lastStatus' = 0
            /\ in' = IF zds.hostage THEN [in EXCEPT !.pos = @ + 1] ELSE in
            /\ UNCHANGED zds
    /\ UNCHANGED <<file, inSize, outSize, filePos, moved, dctx, outBuff, out, result, ioFailed>>

\* fwrite of what the call has produced.
Fwrite ==
    /\ pc = "written"
    /\ out' = out \o moved
    /\ moved' = <<>>
    /\ pc' = "call"
    /\ UNCHANGED <<file, inSize, outSize, filePos, in, zds, dctx, outBuff, lastStatus, result, ioFailed>>

Next ==
    \/ Fread \/ Call \/ StageInit \/ LoadPartOfHeader \/ LoadHeader
    \/ ReadEndOfFrame \/ ReadDirect \/ ReadTooLittle \/ Load \/ Flush
    \/ Return \/ Fwrite \/ IoFails

Spec == Init /\ [][Next]_vars /\ WF_vars(Next)

-----------------------------------------------------------------------------
\* An archive that arrived whole is decompressed unless the disk fails: wherever
\* the input buffers cut its frames, all of it is asked for and all of the last
\* block is flushed before the end of the file is answered.
CompleteFileDecompresses == file.complete /\ result = "failed" => ioFailed

\* The decompressed file is a decoder's output (see Rebuild): never a wrong byte,
\* although blocks overwrite the buffer that later blocks copy from, and never
\* accepted when the download was cut short.
Rebuilds == INSTANCE Rebuild WITH target <- Content(file.frames)
ImplementsRebuild == Rebuilds!Spec
=============================================================================
