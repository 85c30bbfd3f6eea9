---------------------------- MODULE MCPackedUInt -----------------------------
(***************************************************************************)
(* PackedUInt on every value of a small machine, one value per state.      *)
(***************************************************************************)
EXTENDS PackedUInt

VARIABLES value, tagBits, tag

Init == value = 0 /\ tagBits \in 0 .. 2 /\ tag \in 0 .. (2 ^ tagBits - 1)

NextValue == value + 1 \in StreamPos /\ value' = value + 1 /\ UNCHANGED <<tagBits, tag>>

Spec == Init /\ [][NextValue]_<<value, tagBits, tag>>

Code == PackUIntWithTag(value, tag, tagBits)
IsByte(b) == b \in Byte

\* A value is read back whatever bytes follow its code, the reader stopping at the
\* first of them, and its tag is read back from the highest bits of the first byte.
ReadBack ==
    \A after \in {<<>>, <<0>>, <<2 * Radix - 1, 1>>} :
        /\ UnpackUIntWithTag(Code \o after, 1, tagBits)
               = [ok |-> TRUE, value |-> value, next |-> Len(Code) + 1]
        /\ Code[1] \div 2 ^ (ByteBits - tagBits) = tag
        /\ \A i \in 1 .. Len(Code) : IsByte(Code[i])

\* The size the writer computes before it writes is the size of the code, and no
\* code is longer than the buffers made for one.
SizeIsKnown == Len(Code) = PackUIntSize(value, tagBits) /\ Len(Code) <= MaxPackedUIntBytes

\* A code cut short is refused. Two codes joined into one by the continuation bit
\* are the value of their groups, refused exactly when that loses bits: no number
\* comes out smaller than it was written.
Joined(w) == [Code EXCEPT ![Len(Code)] = @ + Radix] \o PackUInt(w)
Exact(w) == value * 2 ^ ((ByteBits - 1) * Len(PackUInt(w))) + w

IncompleteOrTooLargeRefused ==
    /\ \A n \in 0 .. Len(Code) - 1 : ~UnpackUIntWithTag(SubSeq(Code, 1, n), 1, tagBits).ok
    /\ tagBits = 0 =>
        \A w \in {0, 1, Radix, value} :
            LET u == UnpackUInt(Joined(w), 1)
            IN IF Exact(w) \in StreamPos THEN u.ok /\ u.value = Exact(w) ELSE ~u.ok
=============================================================================
