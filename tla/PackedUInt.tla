------------------------------ MODULE PackedUInt ------------------------------
(***************************************************************************)
(* The variable-length integers of an HDiffPatch diff (patch.c): a value   *)
(* is cut into groups of ByteBits-1 bits, high group first, every byte but *)
(* the last carries a continuation bit, and the first byte may give up     *)
(* its highest bits to a tag.                                              *)
(*                                                                         *)
(* A byte has ByteBits bits (8 in the code) and a hpatch_StreamPos_t has   *)
(* UIntBits bits (64 in the code), so that the model checker can go        *)
(* through all the values of a small machine.                              *)
(***************************************************************************)
EXTENDS Integers, Sequences

CONSTANTS ByteBits, UIntBits

ByteBitsAssumption == ByteBits \in Nat /\ ByteBits > 2
UIntBitsAssumption == UIntBits \in Nat /\ UIntBits > ByteBits

\* Number of values of one group of bits: the code's 1<<7.
Radix == 2 ^ (ByteBits - 1)

Byte == 0 .. (2 * Radix - 1)
StreamPos == 0 .. (2 ^ UIntBits - 1)

\* The bound the buffers of the code are sized by, hpatch_kMaxPackedUIntBytes.
MaxPackedUIntBytes == ((UIntBits + ByteBits - 2) \div (ByteBits - 1)) + 1

\* faulty variant of the writer: the first byte's tag is forgotten when the groups are cut.
GroupsUntagged(value, tagBits) ==
    LET groups[v \in Nat] ==
            IF v < Radix THEN <<v>> ELSE Append(groups[v \div Radix], v % Radix)
    IN groups[value]

\* The groups of a value, highest first; the first byte leaves room for a tag.
Groups(value, tagBits) ==
    LET groups[v \in Nat] ==
            IF v < 2 ^ (ByteBits - 1 - tagBits) THEN <<v>>
            ELSE Append(groups[v \div Radix], v % Radix)
    IN groups[value]

PackUIntWithTag(value, tag, tagBits) ==
    LET g == Groups(value, tagBits)
        more(i) == IF i = Len(g) THEN 0
                   ELSE IF i = 1 THEN 2 ^ (ByteBits - 1 - tagBits) ELSE Radix
    IN [i \in 1 .. Len(g) |->
            g[i] + more(i) + (IF i = 1 THEN tag * 2 ^ (ByteBits - tagBits) ELSE 0)]

PackUInt(value) == PackUIntWithTag(value, 0, 0)

\* faulty variant: the size of the untagged code, whatever the tag.
PackUIntSizeUntagged(value, tagBits) ==
    LET size[v \in Nat] == IF v < Radix THEN 1 ELSE 1 + size[v \div Radix]
    IN size[value]

\* hpatch_packUIntWithTag_size: the length, from the value alone.
PackUIntSize(value, tagBits) ==
    LET size[v \in Nat] ==
            IF v < 2 ^ (ByteBits - 1 - tagBits) THEN 1 ELSE 1 + size[v \div Radix]
    IN size[value]

(***************************************************************************)
(* Reading: "next" is the position of the next byte to read. A value that  *)
(* would lose bits and a code that ends too early are refused.             *)
(***************************************************************************)
Refused == [ok |-> FALSE, value |-> 0, next |-> 0]

\* faulty variant: one bit too many is let through.
KeepsAllButOneBit(value) == value < 2 ^ (UIntBits - (ByteBits - 1) + 1)

\* Room for one more group: the code's "cannot save 7bit".
KeepsAllBits(value) == value < 2 ^ (UIntBits - (ByteBits - 1))

UnpackUIntWithTag(code, from, tagBits) ==
    LET rest[s \in (1 .. Len(code) + 1) \X Nat] ==
            LET at == s[1]  value == s[2]
                more == (value * Radix) + (code[at] % Radix)
            IN IF ~KeepsAllBits(value) \/ at > Len(code) THEN Refused
               ELSE IF code[at] >= Radix THEN rest[<<at + 1, more>>]
                    ELSE [ok |-> TRUE, value |-> more, next |-> at + 1]
        flag == 2 ^ (ByteBits - 1 - tagBits)
    IN IF from > Len(code) THEN Refused
       ELSE IF (code[from] \div flag) % 2 = 1 THEN rest[<<from + 1, code[from] % flag>>]
       ELSE [ok |-> TRUE, value |-> code[from] % flag, next |-> from + 1]

UnpackUInt(code, from) == UnpackUIntWithTag(code, from, 0)
=============================================================================
