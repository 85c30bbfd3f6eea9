------------------------------ MODULE DiffStream ------------------------------
(***************************************************************************)
(* What hdiffz writes for one pair of streams: the uncompressed body of a  *)
(* single compressed diff (TStepStream, stream_serialize.cpp) and the      *)
(* numbers of its header.                                                  *)
(*                                                                         *)
(* The new data is described by covers: "length" bytes at newPos of the    *)
(* new data are the bytes at oldPos of the old data plus a difference.     *)
(* The body is a sequence of steps; a step holds its covers, the run       *)
(* lengths of their differences (the part a patching device keeps in       *)
(* memory, at most patchStepMemSize bytes) and the new bytes that no cover *)
(* describes. A cover whose differences do not fit the step is clipped in  *)
(* two, or the step is flushed and the cover opens the next one.           *)
(***************************************************************************)
EXTENDS PackedUInt

CONSTANT MaxRleLen      \* kMaxBytesRleLen: the longest run of one code

MaxRleLenAssumption == MaxRleLen \in Nat \ {0}

Cover(oldPos, newPos, length) == [oldPos |-> oldPos, newPos |-> newPos, length |-> length]

(***************************************************************************)
(* TSingleStreamRLE0: lengths of runs of zeros and of other bytes, in      *)
(* turn, the other bytes following their length.                           *)
(***************************************************************************)
EmptyRle == [fixed |-> <<>>, raw |-> <<>>, len0 |-> 0]

ZeroCode(len0) ==
    LET code[n \in Nat] == IF n > MaxRleLen
                           THEN PackUInt(MaxRleLen) \o PackUInt(0) \o code[n - MaxRleLen]
                           ELSE PackUInt(n)
    IN code[len0]

RawCode(raw) ==
    LET code[from \in 0 .. Len(raw)] ==
            IF Len(raw) - from > MaxRleLen
            THEN PackUInt(MaxRleLen) \o SubSeq(raw, from + 1, from + MaxRleLen)
                 \o PackUInt(0) \o code[from + MaxRleLen]
            ELSE PackUInt(Len(raw) - from) \o SubSeq(raw, from + 1, Len(raw))
    IN code[0]

RleAppendByte(rle, byte) ==
    IF byte = 0
    THEN [fixed |-> IF rle.raw = <<>> THEN rle.fixed ELSE rle.fixed \o RawCode(rle.raw),
          raw |-> <<>>, len0 |-> rle.len0 + 1]
    ELSE [fixed |-> IF rle.raw = <<>> THEN rle.fixed \o ZeroCode(rle.len0) ELSE rle.fixed,
          raw |-> Append(rle.raw, byte), len0 |-> 0]

RleAppend(rle, bytes) ==
    LET after[n \in 0 .. Len(bytes)] ==
            IF n = 0 THEN rle ELSE RleAppendByte(after[n - 1], bytes[n])
    IN after[Len(bytes)]

\* maxCodeSize: the size of the code if it ended after these bytes.
RleSize(rle, bytes) ==
    LET r == RleAppend(rle, bytes)
    IN Len(r.fixed) + (IF r.raw # <<>> THEN Len(RawCode(r.raw)) ELSE 0)
                    + (IF r.len0 > 0 THEN Len(ZeroCode(r.len0)) ELSE 0)

RleFinish(rle) ==
    rle.fixed \o (IF rle.fixed = <<>> \/ rle.len0 > 0 THEN ZeroCode(rle.len0) ELSE <<>>)
              \o (IF rle.raw # <<>> THEN RawCode(rle.raw) ELSE <<>>)

(***************************************************************************)
(* TStepStream. "todo" holds the covers still to write, the clipped halves *)
(* of one first; "cover" and "rle" are the step being filled, "gap" its    *)
(* bytes of new data without a cover.                                      *)
(***************************************************************************)
SubDiff(old, new, c) ==
    [i \in 1 .. c.length |-> (new[c.newPos + i] - old[c.oldPos + i]) % (2 * Radix)]

\* beginStep: a closing cover of length 0 says that new data follows the last one.
CoversToWrite(new, covers) ==
    IF covers = <<>> THEN <<Cover(0, Len(new), 0)>>
    ELSE LET back == covers[Len(covers)]
         IN IF back.newPos + back.length < Len(new)
            THEN Append(covers, Cover(back.oldPos + back.length, Len(new), 0))
            ELSE covers

BeginStep(new, covers) ==
    [todo |-> CoversToWrite(new, covers), lastOldEnd |-> 0, lastNewEnd |-> 0,
     cover |-> <<>>, rle |-> EmptyRle, gap |-> <<>>,
     body |-> <<>>, declared |-> 0, coverCount |-> 0, maxStepMem |-> 0,
     thrown |-> FALSE]

CoverCode(s, c) ==
    (IF c.oldPos >= s.lastOldEnd
     THEN PackUIntWithTag(c.oldPos - s.lastOldEnd, 0, 1)
     ELSE PackUIntWithTag(s.lastOldEnd - c.oldPos, 1, 1))
    \o PackUInt(c.newPos - s.lastNewEnd) \o PackUInt(c.length)

\* faulty variant: the header declares the memory of the last step, not of the largest.
MaxStepMemOfLast(s, stepMem) == stepMem

MaxStepMem(s, stepMem) == IF s.maxStepMem < stepMem THEN stepMem ELSE s.maxStepMem

FlushStep(s) ==
    LET rle == RleFinish(s.rle)
        stepMem == Len(s.cover) + Len(rle)
    IN [s EXCEPT
            !.body = @ \o PackUInt(Len(s.cover)) \o PackUInt(Len(rle))
                       \o s.cover \o rle \o s.gap,
            !.declared = @ + PackUIntSize(Len(s.cover), 0) + PackUIntSize(Len(rle), 0)
                           + stepMem + Len(s.gap),
            !.maxStepMem = MaxStepMem(s, stepMem),
            !.cover = <<>>, !.rle = EmptyRle, !.gap = <<>>]

\* The lengths tried for the left half of a clipped cover: 3/4, 9/16, ...; 0 when
\* none fits, the "stepMemSize error" the code throws.
ClipLength(s, c, code, old, new, stepMemSize) ==
    LET try[n \in Nat] ==
            IF n = 0 \/ Len(code) + RleSize(s.rle, SubDiff(old, new, Cover(c.oldPos, c.newPos, n)))
                   <= stepMemSize
            THEN n ELSE try[(n * 3) \div 4]
    IN try[(c.length * 3) \div 4]

DoStep(s, old, new, stepMemSize) ==
    LET c == Head(s.todo)
        code == s.cover \o CoverCode(s, c)
        sub == SubDiff(old, new, c)
        left == ClipLength(s, c, code, old, new, stepMemSize)
    IN IF Len(code) + RleSize(s.rle, sub) <= stepMemSize
       THEN [s EXCEPT !.cover = code, !.rle = RleAppend(@, sub),
                      !.gap = @ \o SubSeq(new, s.lastNewEnd + 1, c.newPos),
                      !.lastOldEnd = c.oldPos + c.length, !.lastNewEnd = c.newPos + c.length,
                      !.coverCount = @ + 1, !.todo = Tail(@)]
       ELSE IF Len(s.cover) + RleSize(s.rle, <<>>) >= stepMemSize \div 2
       THEN FlushStep(s)
       ELSE IF left = 0 THEN [s EXCEPT !.todo = <<>>, !.thrown = TRUE]
       ELSE [s EXCEPT !.todo = <<Cover(c.oldPos, c.newPos, left),
                                 Cover(c.oldPos + left, c.newPos + left, c.length - left)>>
                               \o Tail(@)]

Turn(s, old, new, stepMemSize) ==
    IF s.todo = <<>> THEN s ELSE DoStep(s, old, new, stepMemSize)

\* A turn writes a cover, halves one or flushes: no more turns than these.
MaxTurns(new, covers) == 4 * (Len(new) + Len(covers) + 1)

\* The state after the last turn.
Turns(s, old, new, covers, stepMemSize) ==
    LET after[n \in 0 .. MaxTurns(new, covers)] ==
            IF n = 0 THEN s ELSE Turn(after[n - 1], old, new, stepMemSize)
    IN after[MaxTurns(new, covers)]

EndStep(s) == IF s.cover # <<>> THEN FlushStep(s) ELSE s

Steps(old, new, covers, stepMemSize) ==
    EndStep(Turns(BeginStep(new, covers), old, new, covers, stepMemSize))

\* serialize_single_compressed_diff: the body, and the numbers of the header.
\* "complete": no byte of the body has been lost since.
DiffOf(s, old, new) ==
    [old |-> old, new |-> new, body |-> s.body, coverCount |-> s.coverCount,
     stepMemSize |-> s.maxStepMem, uncompressedSize |-> s.declared,
     thrown |-> s.thrown, complete |-> TRUE]

Diff(old, new, covers, stepMemSize) == DiffOf(Steps(old, new, covers, stepMemSize), old, new)
=============================================================================
