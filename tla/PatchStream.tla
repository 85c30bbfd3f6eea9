----------------------------- MODULE PatchStream -----------------------------
(***************************************************************************)
(* The device's side of a diff: patch_single_stream_diff (patch.c) rebuilds *)
(* the new data from the old data and the uncompressed body of a single    *)
(* compressed diff, reading both through bounded buffers.                  *)
(*                                                                         *)
(* A diff is a record with the old and the new data, the bytes of the body *)
(* that can really be read, and the numbers of the header. One action is   *)
(* one turn of a loop of the code; a read of the diff or of the old data,  *)
(* and a write of the new data, may fail each time it is made.             *)
(***************************************************************************)
EXTENDS PackedUInt

CONSTANT
    CacheSize       \* cache_size: of the diff's buffer, of a piece of old data and of
                    \* the output's buffer

CacheSizeAssumption == CacheSize \in Nat /\ CacheSize >= MaxPackedUIntBytes

VARIABLES
    diff,       \* the diff being applied: the job's input, of which Init says nothing
    pc,         \* the loop the code is in
    clip,       \* inClip: [pos, buf], the next byte to fetch and the bytes in the buffer
    size,       \* [cover, rle]: bytes of the step's covers and run lengths
    covers,     \* [code, cover, lastOldEnd, lastNewEnd] of the step
    rle,        \* rle0_decoder: [code, len0, lenv, need0]
    coverCount, \* covers still to apply
    job,        \* [kind, left, oldPos]: the copy or the addition being made
    chunk,      \* [data, done]: the bytes in hand, and how many are decoded
    out,        \* [written, cache]: the output, and what its buffer holds
    result,     \* "running", "ok" or "failed"
    ioFailed    \* history: a read or a write has failed

vars == <<diff, pc, clip, size, covers, rle, coverCount, job, chunk, out, result, ioFailed>>

Smaller(a, b) == IF a < b THEN a ELSE b
Skip(seq, n) == SubSeq(seq, n + 1, Len(seq))

NoCover == [oldPos |-> 0, newPos |-> 0, length |-> 0]
NoChunk == [data |-> <<>>, done |-> 0]

(***************************************************************************)
(* TStreamCacheClip. A fetch is refused when the stream has fewer bytes    *)
(* than the header declares; a clip is [ok, pos, buf].                     *)
(***************************************************************************)
BadClip == [ok |-> FALSE, pos |-> 0, buf |-> <<>>]
LeaveSize(c) == diff.uncompressedSize - c.pos + Len(c.buf)

\* faulty variant: the bytes still in the buffer are not counted.
FetchSizeWholeBuffer(c) == Smaller(CacheSize, diff.uncompressedSize - c.pos)

FetchSize(c) == Smaller(CacheSize - Len(c.buf), diff.uncompressedSize - c.pos)

UpdateCache(c) ==
    LET n == FetchSize(c)
    IN IF c.pos + n > Len(diff.body) THEN BadClip
       ELSE [ok |-> TRUE, pos |-> c.pos + n,
             buf |-> c.buf \o SubSeq(diff.body, c.pos + 1, c.pos + n)]

AccessData(c, n) ==
    LET a == IF n > Len(c.buf) THEN UpdateCache(c) ELSE c
    IN IF a.ok /\ n <= Len(a.buf) THEN a ELSE BadClip

SkipData(c, n) == [c EXCEPT !.buf = Skip(@, n)]

\* _clip_unpackUIntTo: [ok, value, clip].
UnpackFromClip(c) ==
    LET n == Smaller(MaxPackedUIntBytes, LeaveSize(c))
        a == AccessData(c, n)
        u == UnpackUInt(SubSeq(a.buf, 1, n), 1)
    IN IF ~c.ok \/ ~a.ok \/ ~u.ok THEN [ok |-> FALSE, value |-> 0, clip |-> BadClip]
       ELSE [ok |-> TRUE, value |-> u.value, clip |-> SkipData(a, u.next - 1)]

\* _TStreamCacheClip_readDataTo: what the buffer holds first, then a refill
\* of the buffer for a short rest, or a direct read for a long one.
ReadDataTo(c, n) ==
    LET have == Smaller(Len(c.buf), n)
        rest == n - have
        got == SubSeq(c.buf, 1, have)
        refilled == UpdateCache(SkipData(c, have))
    IN IF rest = 0 THEN [data |-> got, clip |-> SkipData(c, have)]
       ELSE IF rest < CacheSize \div 2
       THEN IF ~refilled.ok \/ rest > Len(refilled.buf) THEN [data |-> <<>>, clip |-> BadClip]
            ELSE [data |-> got \o SubSeq(refilled.buf, 1, rest), clip |-> SkipData(refilled, rest)]
       ELSE IF c.pos + rest > Len(diff.body) THEN [data |-> <<>>, clip |-> BadClip]
       ELSE [data |-> got \o SubSeq(diff.body, c.pos + 1, c.pos + rest),
             clip |-> [ok |-> TRUE, pos |-> c.pos + rest, buf |-> <<>>]]

(***************************************************************************)
(* The step loop.                                                          *)
(***************************************************************************)
Init ==
    /\ pc = "header"
    /\ clip = [ok |-> TRUE, pos |-> 0, buf |-> <<>>]
    /\ size = [cover |-> 0, rle |-> 0]
    /\ covers = [code |-> <<>>, cover |-> NoCover, lastOldEnd |-> 0, lastNewEnd |-> 0]
    /\ rle = [code |-> <<>>, len0 |-> 0, lenv |-> 0, need0 |-> TRUE]
    /\ coverCount = diff.coverCount
    /\ job = [kind |-> "none", left |-> 0, oldPos |-> 0]
    /\ chunk = NoChunk
    /\ out = [written |-> <<>>, cache |-> <<>>]
    /\ result = "running"
    /\ ioFailed = FALSE

Fail ==
    /\ pc' = "end"
    /\ result' = "failed"
    /\ UNCHANGED <<diff, clip, size, covers, rle, coverCount, job, chunk, out, ioFailed>>

\* getSingleCompressedDiffInfo: the step memory is no larger than the body.
CheckHeader ==
    /\ pc = "header"
    /\ IF diff.stepMemSize > diff.uncompressedSize THEN Fail
       ELSE /\ pc' = "step"
            /\ UNCHANGED <<diff, clip, size, covers, rle, coverCount, job, chunk, out, result, ioFailed>>

\* The sizes of the covers and of the run lengths, then both into the step memory.
ReadCoverSize ==
    /\ pc = "step"
    /\ coverCount # 0
    /\ LET u == UnpackFromClip(clip)
       IN IF ~u.ok THEN Fail
          ELSE /\ clip' = u.clip
               /\ size' = [cover |-> u.value, rle |-> 0]
               /\ pc' = "rleSize"
               /\ UNCHANGED <<diff, covers, rle, coverCount, job, chunk, out, result, ioFailed>>

ReadRleSize ==
    /\ pc = "rleSize"
    /\ LET u == UnpackFromClip(clip)
       IN IF ~u.ok \/ size.cover + u.value > diff.stepMemSize THEN Fail
          ELSE /\ clip' = u.clip
               /\ size' = [size EXCEPT !.rle = u.value]
               /\ pc' = "stepData"
               /\ UNCHANGED <<diff, covers, rle, coverCount, job, chunk, out, result, ioFailed>>

\* faulty variant: a new step goes on with the turn of zeros or values of the last one.
StepRleKeepsTurn(code) == [code |-> code, len0 |-> 0, lenv |-> 0, need0 |-> rle.need0]

\* _rle0_decoder_init: a step's run lengths start with zeros.
StepRle(code) == [code |-> code, len0 |-> 0, lenv |-> 0, need0 |-> TRUE]

ReadStepData ==
    /\ pc = "stepData"
    /\ LET mem == ReadDataTo(clip, size.cover + size.rle)
       IN IF ~mem.clip.ok THEN Fail
          ELSE /\ clip' = mem.clip
               /\ covers' = [covers EXCEPT !.code = SubSeq(mem.data, 1, size.cover)]
               /\ rle' = StepRle(Skip(mem.data, size.cover))
               /\ pc' = "cover"
               /\ UNCHANGED <<diff, size, coverCount, job, chunk, out, result, ioFailed>>

\* sspatch_covers_nextCover: [ok, cover, code].
UnpackedCover ==
    LET backward == covers.code[1] >= Radix
        o == UnpackUIntWithTag(covers.code, 1, 1)
        n == UnpackUInt(covers.code, o.next)
        l == UnpackUInt(covers.code, n.next)
        lastOldEnd == covers.cover.oldPos + covers.cover.length
        lastNewEnd == covers.cover.newPos + covers.cover.length
    IN IF ~(o.ok /\ n.ok /\ l.ok) THEN [ok |-> FALSE, covers |-> covers]
       ELSE [ok |-> TRUE,
             covers |-> [code |-> Skip(covers.code, l.next - 1),
                         cover |-> [oldPos |-> (IF backward THEN lastOldEnd - o.value
                                                ELSE lastOldEnd + o.value) % 2 ^ UIntBits,
                                    newPos |-> (lastNewEnd + n.value) % 2 ^ UIntBits,
                                    length |-> l.value],
                         lastOldEnd |-> lastOldEnd, lastNewEnd |-> lastNewEnd]]

\* A cover opens with the copy of the new bytes before it, if there are any.
NextCover ==
    /\ pc = "cover"
    /\ covers.code # <<>>
    /\ IF ~UnpackedCover.ok THEN Fail
       ELSE /\ covers' = UnpackedCover.covers
            /\ job' = [kind |-> "copy", oldPos |-> 0,
                       left |-> IF covers'.cover.newPos > covers'.lastNewEnd
                                THEN covers'.cover.newPos - covers'.lastNewEnd ELSE 0]
            /\ pc' = "copy"
            /\ UNCHANGED <<diff, clip, size, rle, coverCount, chunk, out, result, ioFailed>>

LeaveCoverLoop ==
    /\ pc = "cover"
    /\ covers.code = <<>>
    /\ pc' = "step"
    /\ UNCHANGED <<diff, clip, size, covers, rle, coverCount, job, chunk, out, result, ioFailed>>

\* One turn of _TOutStreamCache_copyFromClip.
CopyFromClip ==
    /\ pc = "copy"
    /\ job.left > 0
    /\ LET n == Smaller(CacheSize, job.left)
           a == AccessData(clip, n)
       IN IF ~a.ok THEN Fail
          ELSE /\ clip' = SkipData(a, n)
               /\ chunk' = [data |-> SubSeq(a.buf, 1, n), done |-> n]
               /\ job' = [job EXCEPT !.left = @ - n]
               /\ pc' = "write"
               /\ UNCHANGED <<diff, size, covers, rle, coverCount, out, result, ioFailed>>

\* After the copy: a cover that is empty must be the last one.
BeginCover ==
    /\ pc = "copy"
    /\ job.left = 0
    /\ LET left == (coverCount - 1) % 2 ^ UIntBits
           c == covers.cover
       IN IF \/ c.length = 0 /\ left # 0
             \/ c.length > 0 /\ c.oldPos + c.length > Len(diff.old)
          THEN Fail
          ELSE /\ coverCount' = left
               /\ job' = [kind |-> "add", left |-> c.length, oldPos |-> c.oldPos]
               /\ pc' = "add"
               /\ UNCHANGED <<diff, clip, size, covers, rle, chunk, out, result, ioFailed>>

(***************************************************************************)
(* _patch_add_old_with_rle0: pieces of the old data, the differences added *)
(* to each from the run lengths.                                           *)
(***************************************************************************)
ReadOld ==
    /\ pc = "add"
    /\ job.left > 0
    /\ LET n == Smaller(CacheSize, job.left)
       IN /\ chunk' = [data |-> SubSeq(diff.old, job.oldPos + 1, job.oldPos + n), done |-> 0]
          /\ job' = [job EXCEPT !.left = @ - n, !.oldPos = @ + n]
    /\ pc' = "rle"
    /\ UNCHANGED <<diff, clip, size, covers, rle, coverCount, out, result, ioFailed>>

EndCover ==
    /\ pc = "add"
    /\ job.left = 0
    /\ pc' = "cover"
    /\ UNCHANGED <<diff, clip, size, covers, rle, coverCount, job, chunk, out, result, ioFailed>>

Undecoded == Len(chunk.data) - chunk.done

\* A run of zeros: the piece keeps the bytes of the old data.
ZeroRun ==
    /\ pc = "rle"
    /\ Undecoded > 0
    /\ rle.len0 > 0
    /\ LET n == Smaller(rle.len0, Undecoded)
       IN /\ rle' = [rle EXCEPT !.len0 = @ - n]
          /\ chunk' = [chunk EXCEPT !.done = @ + n]
    /\ UNCHANGED <<diff, pc, clip, size, covers, coverCount, job, out, result, ioFailed>>

\* A run of other differences: addData, in the arithmetic of bytes.
ValueRun ==
    /\ pc = "rle"
    /\ Undecoded > 0
    /\ rle.len0 = 0
    /\ rle.lenv > 0
    /\ LET n == Smaller(rle.lenv, Undecoded)
           sum(i) == IF i > chunk.done /\ i <= chunk.done + n
                     THEN (chunk.data[i] + rle.code[i - chunk.done]) % (2 * Radix)
                     ELSE chunk.data[i]
       IN /\ rle' = [rle EXCEPT !.lenv = @ - n, !.code = Skip(@, n)]
          /\ chunk' = [data |-> [i \in 1 .. Len(chunk.data) |-> sum(i)], done |-> chunk.done + n]
    /\ UNCHANGED <<diff, pc, clip, size, covers, coverCount, job, out, result, ioFailed>>

\* The length of the next run; a run of values must lie in the step memory.
DecodeRun ==
    /\ pc = "rle"
    /\ Undecoded > 0
    /\ rle.len0 = 0
    /\ rle.lenv = 0
    /\ LET u == UnpackUInt(rle.code, 1)
           rest == Skip(rle.code, u.next - 1)
       IN IF ~u.ok \/ (~rle.need0 /\ u.value > Len(rest)) THEN Fail
          ELSE /\ rle' = [code |-> rest, need0 |-> ~rle.need0,
                          len0 |-> IF rle.need0 THEN u.value ELSE 0,
                          lenv |-> IF rle.need0 THEN 0 ELSE u.value]
               /\ UNCHANGED <<diff, pc, clip, size, covers, coverCount, job, chunk, out, result, ioFailed>>

PieceDecoded ==
    /\ pc = "rle"
    /\ Undecoded = 0
    /\ pc' = "write"
    /\ UNCHANGED <<diff, clip, size, covers, rle, coverCount, job, chunk, out, result, ioFailed>>

(***************************************************************************)
(* _TOutStreamCache. The output refuses a write past the size of the new   *)
(* data.                                                                   *)
(***************************************************************************)
Fits(bytes) == Len(out.written) + Len(bytes) <= Len(diff.new)

\* faulty variant: a whole piece overtakes the bytes in the buffer.
GoesDirectPastCache == Len(chunk.data) >= CacheSize

GoesDirect == Len(chunk.data) >= CacheSize /\ out.cache = <<>>

WriteDirect ==
    /\ pc = "write"
    /\ chunk.data # <<>>
    /\ GoesDirect
    /\ IF ~Fits(chunk.data) THEN Fail
       ELSE /\ out' = [out EXCEPT !.written = @ \o chunk.data]
            /\ chunk' = NoChunk
            /\ UNCHANGED <<diff, pc, clip, size, covers, rle, coverCount, job, result, ioFailed>>

WriteCached ==
    /\ pc = "write"
    /\ chunk.data # <<>>
    /\ ~GoesDirect
    /\ LET n == Smaller(CacheSize - Len(out.cache), Len(chunk.data))
           cache == out.cache \o SubSeq(chunk.data, 1, n)
           full == Len(cache) = CacheSize
       IN IF full /\ ~Fits(cache) THEN Fail
          ELSE /\ out' = IF full THEN [written |-> out.written \o cache, cache |-> <<>>]
                         ELSE [out EXCEPT !.cache = cache]
               /\ chunk' = [data |-> Skip(chunk.data, n), done |-> 0]
               /\ UNCHANGED <<diff, pc, clip, size, covers, rle, coverCount, job, result, ioFailed>>

PieceWritten ==
    /\ pc = "write"
    /\ chunk.data = <<>>
    /\ pc' = job.kind
    /\ UNCHANGED <<diff, clip, size, covers, rle, coverCount, job, chunk, out, result, ioFailed>>

(***************************************************************************)
(* The end: flush the output, then everything must have been used up.      *)
(***************************************************************************)
Finish ==
    /\ pc = "step"
    /\ coverCount = 0
    /\ IF ~Fits(out.cache) THEN Fail
       ELSE /\ out' = [written |-> out.written \o out.cache, cache |-> <<>>]
            /\ pc' = "end"
            /\ result' = IF LeaveSize(clip) = 0 /\ Len(out'.written) = Len(diff.new)
                         THEN "ok" ELSE "failed"
            /\ UNCHANGED <<diff, clip, size, covers, rle, coverCount, job, chunk, ioFailed>>

\* The steps that read the diff or the old data, or write the output.
MakesIo ==
    \/ /\ (pc = "step" /\ coverCount # 0) \/ pc = "rleSize"
       /\ Smaller(MaxPackedUIntBytes, LeaveSize(clip)) > Len(clip.buf)
    \/ pc = "stepData" /\ size.cover + size.rle > Len(clip.buf)
    \/ pc = "step" /\ coverCount = 0 /\ out.cache # <<>>
    \/ pc = "copy" /\ job.left > Len(clip.buf)
    \/ pc = "add" /\ job.left > 0
    \/ pc = "write" /\ chunk.data # <<>> /\ Len(out.cache) + Len(chunk.data) >= CacheSize

IoFails ==
    /\ MakesIo
    /\ ioFailed' = TRUE
    /\ pc' = "end"
    /\ result' = "failed"
    /\ UNCHANGED <<diff, clip, size, covers, rle, coverCount, job, chunk, out>>

Next ==
    \/ CheckHeader \/ ReadCoverSize \/ ReadRleSize \/ ReadStepData
    \/ NextCover \/ LeaveCoverLoop \/ CopyFromClip \/ BeginCover
    \/ ReadOld \/ EndCover \/ ZeroRun \/ ValueRun \/ DecodeRun \/ PieceDecoded
    \/ WriteDirect \/ WriteCached \/ PieceWritten \/ Finish \/ IoFails

Spec == Init /\ [][Next]_vars /\ WF_vars(Next)

-----------------------------------------------------------------------------
Prefix(s, t) == Len(s) <= Len(t) /\ s = SubSeq(t, 1, Len(s))

\* The step being decoded lies in the step memory, the diff's bytes in the
\* buffer, the output's bytes in the output's buffer.
TypeOK ==
    /\ pc \in {"header", "step", "rleSize", "stepData", "cover", "copy", "add", "rle", "write", "end"}
    /\ clip.pos \in 0 .. Len(diff.body) /\ Len(clip.buf) <= CacheSize
    /\ Len(covers.code) + Len(rle.code) <= diff.stepMemSize
    /\ rle.lenv <= Len(rle.code)
    /\ Len(chunk.data) <= CacheSize /\ chunk.done <= Len(chunk.data)
    /\ Len(out.cache) <= CacheSize
    /\ coverCount \in StreamPos
    /\ result \in {"running", "ok", "failed"} /\ (pc = "end" <=> result # "running")

\* A diff that hdiffz wrote and no byte of which was lost is refused only
\* because a read or a write failed: the steps, the clipped covers, the step
\* memory and the sizes the writer declared are those the reader needs.
CompleteDiffApplies == diff.complete /\ result = "failed" => ioFailed

\* At every moment the output, its buffer included, is the beginning of the new
\* data: no piece is lost, repeated or written out of place.
OutputIsNewData == Prefix(out.written \o out.cache, diff.new)

\* patch_single_stream_diff is a decoder like the others: see Rebuild.
Rebuilds == INSTANCE Rebuild WITH target <- diff.new, out <- out.written
ImplementsRebuild == Rebuilds!Spec
=============================================================================
