----------------------- MODULE MCClientArtifacts_proofs -----------------------
(***************************************************************************)
(* The native jobs of MCClientArtifacts: making a directory from a diff,   *)
(* where what was proved of DirPatch holds, for any sizes of pieces and    *)
(* any limit of open files; extracting a bundle, proved here for any       *)
(* limits of the format and any files the server accepts; the packed       *)
(* integers of a diff, for any width of a byte and of an integer; the      *)
(* buffers of the diff's decoder, for any diff and so for those hdiffz     *)
(* writes, whose header counts its body; downloaded archives, which are    *)
(* decompressed to their end; and the directory and the bundle as the      *)
(* decoder that Rebuild is.                                                *)
(***************************************************************************)
EXTENDS MCClientArtifacts, TLAPS, SequenceTheorems, FiniteSetTheorems

DirInv == kind = "dir" => Dir!WInv /\ Dir!RInv

\* The directory diffs that are checked are such as the theorems speak of.
LEMMA InputsArePatches == PatchInputs!AllPatches \subseteq Dir!Patches
<1> SUFFICES ASSUME NEW p \in PatchInputs!AllPatches PROVE p \in Dir!Patches
  OBVIOUS
<1>1. /\ PatchInputs!Old \in Seq(Seq(PatchInputs!FileBytes))
      /\ p.old = PatchInputs!Old /\ p = [old |-> p.old, paths |-> p.paths]
  BY DEF PatchInputs!Old, PatchInputs!AllPatches, PatchInputs!FileBytes
<1>2. p.paths \in Seq(Dir!Entry)
  <2> DEFINE E(k, d) == PatchInputs!Entry(k, d)
  <2>1. /\ \A k \in {"dir", "empty"} : E(k, <<>>) \in Dir!Entry
        /\ \A k \in {"same", "ref"}, d \in Seq(PatchInputs!FileBytes) : E(k, d) \in Dir!Entry
    BY EmptySeq DEF PatchInputs!Entry, Dir!Entry
  <2>2. {<<>>, <<1, 7>>, <<8>>, <<4, 5, 9>>, <<3>>, <<2>>, <<5, 6>>, <<1, 2>>}
           \subseteq Seq(PatchInputs!FileBytes)
    BY DEF PatchInputs!FileBytes
  <2>3. /\ {E("dir", <<>>), E("ref", <<1, 7>>), E("same", <<8>>), E("ref", <<4, 5, 9>>)}
              \subseteq Dir!Entry
        /\ {E("ref", <<>>), E("ref", <<3>>), E("ref", <<2>>), E("empty", <<>>),
            E("same", <<5, 6>>)} \subseteq Dir!Entry
        /\ {E("same", <<1, 2>>), E("dir", <<>>)} \subseteq Dir!Entry
    BY <2>1, <2>2
  <2> HIDE DEF E
  <2>4. p.paths \in
           {<<E("dir", <<>>), E("ref", <<1, 7>>), E("same", <<8>>), E("ref", <<4, 5, 9>>)>>,
            <<E("ref", <<>>), E("ref", <<3>>), E("ref", <<2>>), E("empty", <<>>),
              E("same", <<5, 6>>)>>,
            <<E("same", <<1, 2>>), E("dir", <<>>)>>}
    BY DEF PatchInputs!AllPatches, E
  <2> DEFINE D == E("dir", <<>>)  R1 == E("ref", <<1, 7>>)
             S1 == E("same", <<8>>)  R2 == E("ref", <<4, 5, 9>>)
             R3 == E("ref", <<>>)  R4 == E("ref", <<3>>)  R5 == E("ref", <<2>>)
             N == E("empty", <<>>)  S2 == E("same", <<5, 6>>)
             S3 == E("same", <<1, 2>>)  Entries == Dir!Entry
  <2>5. /\ D \in Entries /\ R1 \in Entries /\ S1 \in Entries /\ R2 \in Entries
        /\ R3 \in Entries /\ R4 \in Entries /\ R5 \in Entries /\ N \in Entries
        /\ S2 \in Entries /\ S3 \in Entries
        /\ p.paths \in {<<D, R1, S1, R2>>, <<R3, R4, R5, N, S2>>, <<S3, D>>}
    BY <2>3, <2>4
  <2> HIDE DEF D, R1, S1, R2, R3, R4, R5, N, S2, S3, Entries
  <2>6. /\ <<D, R1, S1, R2>> \in Seq(Entries)
        /\ <<R3, R4, R5, N, S2>> \in Seq(Entries)
        /\ <<S3, D>> \in Seq(Entries)
    BY <2>5
  <2>7. p.paths \in Seq(Entries)
    BY <2>5, <2>6, Zenon
  <2> QED
    BY <2>7 DEF Entries
<1> QED
  BY <1>1, <1>2 DEF Dir!Patches

LEMMA DirStart == ASSUME Dir!LimitAssumption, Init PROVE DirInv
<1> SUFFICES ASSUME kind = "dir" PROVE Dir!WInv /\ Dir!RInv
  BY DEF DirInv
<1>1. input \in Dir!Patches /\ Dir!Init
  BY InputsArePatches DEF Init
<1> QED
  BY <1>1, Dir!WInvInit, Dir!RInvInit

LEMMA DirStep == ASSUME Dir!LimitAssumption, DirInv, [Next]_vars PROVE DirInv'
<1> SUFFICES ASSUME kind' = "dir" PROVE Dir!WInv' /\ Dir!RInv'
  BY DEF DirInv
<1>1. kind = "dir" /\ Dir!WInv /\ Dir!RInv
  BY DEF DirInv, Next, vars
<1>2. [Dir!Next]_(Dir!vars)
  BY <1>1 DEF Next, vars, Dir!vars
<1> QED
  BY <1>1, <1>2, Dir!WInvNext, Dir!RInvNext

LEMMA DirHolds == ASSUME Dir!LimitAssumption PROVE Spec => []DirInv
<1>1. Init => DirInv
  BY Dir!LimitAssumption, DirStart
<1>2. DirInv /\ [Next]_vars => DirInv'
  BY Dir!LimitAssumption, DirStep
<1> QED
  BY <1>1, <1>2, PTL DEF Spec

\* hpatch_dir answers "ok" only over the whole new directory, byte for byte
\* (TDirPatcher_patch, _writedFinish).
THEOREM WholeDirectoryOnly ==
    ASSUME Dir!LimitAssumption
    PROVE  Spec => []OkMeansWholeDirectory
<1>1. DirInv => OkMeansWholeDirectory
  BY DEF DirInv, Dir!WInv, OkMeansWholeDirectory
<1> QED
  BY <1>1, DirHolds, PTL

\* The old files are read as one stream, through no more handles than allowed
\* (_refStream_read, _TResHandleLimit_read).
THEOREM OldStreamIsRead ==
    ASSUME Dir!LimitAssumption
    PROVE  Spec => []ReadsOldData
<1>1. DirInv => ReadsOldData
  BY DEF DirInv, Dir!RInv, Dir!ReadInv, Dir!HandleInv, Dir!ReadsOldData, ReadsOldData
<1> QED
  BY <1>1, DirHolds, PTL
-----------------------------------------------------------------------------
(* BundleArchive: the cells of an archive                                   *)

\* Any string may stand for a character; those named here are in STRING too, whose
\* members the provers do not know.
Character == {"/", "@", "a", "b", "c", "d", "e", "f", "g", "h"} \cup STRING
File == [path : {p \in Seq(Character) : Tar!ValidRelativePath(p)}, bytes : Seq(Nat)]
\* What the server writes an archive of.
Bundles == {b \in Seq(File) : \A i \in DOMAIN b : Tar!Representable(b[i].path)}

Fields == [name : Seq(Character), prefix : Seq(Character), size : Nat, type : {"0", "L"}]
Cell == {Tar!Zero} \cup {Tar!Byte(b) : b \in Nat \cup Character}
            \cup {[kind |-> "header", value |-> h] : h \in Fields}

\* s is a followed by b.
IsCat(s, a, b) == s = a \o b

LEMMA CatTwo ==
    ASSUME NEW S, NEW a \in Seq(S), NEW b \in Seq(S), NEW s, IsCat(s, a, b)
    PROVE  /\ s \in Seq(S) /\ Len(a) \in Nat /\ Len(b) \in Nat /\ Len(s) = Len(a) + Len(b)
           /\ \A i \in 1 .. Len(a) : s[i] = a[i]
           /\ \A i \in 1 .. Len(b) : s[Len(a) + i] = b[i]
BY Dir!Cat DEF IsCat

LEMMA CatThree ==
    ASSUME NEW S, NEW a \in Seq(S), NEW b \in Seq(S), NEW c \in Seq(S),
           NEW ab, IsCat(ab, a, b), NEW s, IsCat(s, ab, c)
    PROVE  /\ s \in Seq(S) /\ Len(a) \in Nat /\ Len(b) \in Nat /\ Len(c) \in Nat
           /\ Len(s) = Len(a) + Len(b) + Len(c)
           /\ \A i \in 1 .. Len(a) : s[i] = a[i]
           /\ \A i \in 1 .. Len(b) : s[Len(a) + i] = b[i]
           /\ \A i \in 1 .. Len(c) : s[Len(a) + Len(b) + i] = c[i]
<1>1. /\ ab \in Seq(S) /\ Len(a) \in Nat /\ Len(b) \in Nat /\ Len(ab) = Len(a) + Len(b)
      /\ \A i \in 1 .. Len(a) : ab[i] = a[i]
      /\ \A i \in 1 .. Len(b) : ab[Len(a) + i] = b[i]
  BY CatTwo
<1>2. /\ s \in Seq(S) /\ Len(c) \in Nat /\ Len(s) = Len(ab) + Len(c)
      /\ \A i \in 1 .. Len(ab) : s[i] = ab[i]
      /\ \A i \in 1 .. Len(c) : s[Len(ab) + i] = c[i]
  BY <1>1, CatTwo
<1>3. /\ \A i \in 1 .. Len(a) : i \in 1 .. Len(ab)
      /\ \A i \in 1 .. Len(b) : Len(a) + i \in 1 .. Len(ab)
  BY <1>1
<1> QED
  BY <1>1, <1>2, <1>3

LEMMA PaddingType ==
    ASSUME Tar!ProfileAssumption, NEW n \in Nat
    PROVE  Tar!Padding(n) \in Nat
BY DEF Tar!Padding, Tar!ProfileAssumption

LEMMA ZerosType ==
    ASSUME NEW n \in Nat
    PROVE  /\ Tar!Zeros(n) \in Seq(Cell) /\ Len(Tar!Zeros(n)) = n
           /\ \A i \in 1 .. n : Tar!Zeros(n)[i] = Tar!Zero
BY DEF Tar!Zeros, Cell

LEMMA CellsType ==
    ASSUME NEW S, S \subseteq Nat \cup Character, NEW s \in Seq(S)
    PROVE  /\ Tar!Cells(s) \in Seq(Cell) /\ Len(Tar!Cells(s)) = Len(s)
           /\ \A i \in 1 .. Len(s) : Tar!Cells(s)[i] = Tar!Byte(s[i])
<1>1. DOMAIN s = 1 .. Len(s) /\ Len(s) \in Nat /\ \A i \in 1 .. Len(s) : s[i] \in S
  BY LenProperties, ElementOfSeq
<1>2. \A i \in 1 .. Len(s) : Tar!Byte(s[i]) \in Cell
  BY <1>1 DEF Cell
<1>3. Tar!Cells(s) = [i \in 1 .. Len(s) |-> Tar!Byte(s[i])]
  BY <1>1 DEF Tar!Cells
<1> QED
  BY <1>1, <1>2, <1>3, Dir!IsASeq

LEMMA HeaderType ==
    ASSUME Tar!ProfileAssumption, NEW name \in Seq(Character), NEW prefix \in Seq(Character),
           NEW size \in Nat, NEW type \in {"0", "L"}
    PROVE  LET h == Tar!Header(name, prefix, size, type)
           IN  /\ h \in Seq(Cell) /\ Len(h) = Block
               /\ h[1] = [kind |-> "header",
                          value |-> [name |-> name, prefix |-> prefix, size |-> size,
                                     type |-> type]]
<1> DEFINE v == [name |-> name, prefix |-> prefix, size |-> size, type |-> type]
           c == [kind |-> "header", value |-> v]
           h == Tar!Header(name, prefix, size, type)
<1>1. v \in Fields
  BY DEF Fields
<1>2. c \in Cell /\ Tar!Zero \in Cell
  BY <1>1 DEF Cell
<1>3. Block \in Nat \ {0}
  BY DEF Tar!ProfileAssumption
<1> HIDE DEF v, c
<1>4. h = [i \in 1 .. Block |-> IF i > 1 THEN Tar!Zero ELSE c]
  BY DEF Tar!Header, v, c
<1>5. \A i \in 1 .. Block : (IF i > 1 THEN Tar!Zero ELSE c) \in Cell
  BY <1>2
<1> HIDE DEF h
<1>6. h \in Seq(Cell) /\ Len(h) = Block /\ h[1] = c
  BY <1>3, <1>4, <1>5
<1> QED
  BY <1>6 DEF h, c, v

\* The long-name record of a path: a header block, the path, what ends it.
LEMMA LongNameCells ==
    ASSUME Tar!ProfileAssumption, NEW p \in Seq(Character)
    PROVE  LET r == Tar!LongNameRecord(p)  n == Len(p) + 1
           IN  /\ r \in Seq(Cell) /\ Len(r) = Block + n + Tar!Padding(n)
               /\ r[1] = [kind |-> "header",
                          value |-> [name |-> <<"@">>, prefix |-> <<>>, size |-> n, type |-> "L"]]
               /\ \A i \in 1 .. Len(p) : r[Block + i] = Tar!Byte(p[i])
               /\ r[Block + n] = Tar!Zero
<1> DEFINE n == Len(p) + 1  h == Tar!Header(<<"@">>, <<>>, n, "L")  c == Tar!Cells(p)
           z == <<Tar!Zero>>  o == Tar!Zeros(Tar!Padding(n))
           hc == h \o c  hcz == hc \o z  r == hcz \o o
<1>1. Len(p) \in Nat /\ n \in Nat /\ Block \in Nat \ {0}
  BY LenProperties DEF Tar!ProfileAssumption
<1>2. /\ h \in Seq(Cell) /\ Len(h) = Block
      /\ h[1] = [kind |-> "header",
                 value |-> [name |-> <<"@">>, prefix |-> <<>>, size |-> n, type |-> "L"]]
  <2> HIDE DEF n
  <2>0. "@" \in Character
    BY DEF Character
  <2>1. <<"@">> \in Seq(Character) /\ <<>> \in Seq(Character) /\ "L" \in {"0", "L"}
    BY <2>0
  <2> QED
    BY <1>1, <2>1, HeaderType
<1>3. /\ c \in Seq(Cell) /\ Len(c) = Len(p) /\ \A i \in 1 .. Len(p) : c[i] = Tar!Byte(p[i])
  BY CellsType
<1>4. z \in Seq(Cell) /\ Len(z) = 1 /\ z[1] = Tar!Zero
  BY DEF Cell
<1>5. o \in Seq(Cell) /\ Len(o) = Tar!Padding(n) /\ Tar!Padding(n) \in Nat
  BY <1>1, PaddingType, ZerosType
<1>6. r = Tar!LongNameRecord(p)
  BY DEF Tar!LongNameRecord
<1> HIDE DEF n, h, c, z, o, hc, hcz, r
<1>7. IsCat(hc, h, c) /\ IsCat(hcz, hc, z) /\ IsCat(r, hcz, o)
  BY DEF hc, hcz, r, IsCat
<1>8. /\ hcz \in Seq(Cell) /\ Len(hcz) = Len(h) + Len(c) + Len(z)
      /\ \A i \in 1 .. Len(h) : hcz[i] = h[i]
      /\ \A i \in 1 .. Len(c) : hcz[Len(h) + i] = c[i]
      /\ \A i \in 1 .. Len(z) : hcz[Len(h) + Len(c) + i] = z[i]
  <2>1. h \in Seq(Cell) /\ c \in Seq(Cell) /\ z \in Seq(Cell)
    BY <1>2, <1>3, <1>4
  <2> QED
    BY <1>7, <2>1, CatThree
<1>9. /\ r \in Seq(Cell) /\ Len(r) = Len(hcz) + Len(o)
      /\ \A i \in 1 .. Len(hcz) : r[i] = hcz[i]
  <2>1. hcz \in Seq(Cell) /\ o \in Seq(Cell)
    BY <1>5, <1>8
  <2> QED
    BY <1>7, <2>1, CatTwo
<1>10. Len(r) = Block + n + Tar!Padding(n) /\ Len(hcz) = Block + n
  <2>1. /\ Len(h) = Block /\ Len(c) = Len(p) /\ Len(z) = 1 /\ Len(o) = Tar!Padding(n)
        /\ Len(hcz) = Len(h) + Len(c) + Len(z) /\ Len(r) = Len(hcz) + Len(o)
    BY <1>2, <1>3, <1>4, <1>5, <1>8, <1>9
  <2> QED
    BY <1>1, <1>5, <2>1 DEF n
<1>11. r[1] = h[1]
  BY <1>1, <1>2, <1>8, <1>9, <1>10 DEF n
<1>12. \A i \in 1 .. Len(p) : r[Block + i] = Tar!Byte(p[i])
  BY <1>1, <1>2, <1>3, <1>8, <1>9, <1>10 DEF n
<1>13. r[Block + n] = Tar!Zero
  BY <1>1, <1>2, <1>3, <1>4, <1>8, <1>9, <1>10 DEF n
<1> QED
  BY <1>2, <1>6, <1>9, <1>10, <1>11, <1>12, <1>13 DEF n

\* n cells from a on.
LEMMA Window ==
    ASSUME NEW S, NEW s \in Seq(S), NEW a \in Nat, NEW n \in Nat, a + n <= Len(s),
           NEW t, t = SubSeq(s, a + 1, a + n)
    PROVE  t \in Seq(S) /\ Len(t) = n /\ \A i \in 1 .. n : t[i] = s[a + i]
<1> DEFINE from == a + 1  end == a + n
<1>1. from \in Int /\ end \in Int /\ from = a + 1 /\ end = a + n /\ Len(s) \in Nat
  BY LenProperties
<1>2. t = SubSeq(s, from, end) /\ from \in Int /\ end \in Int
  BY <1>1
<1> HIDE DEF from, end
<1>3. \A i \in from .. end : s[i] \in S
  <2>1. \A i \in from .. end : i \in 1 .. Len(s)
    BY <1>1
  <2> QED
    BY <2>1, ElementOfSeq
<1>4. /\ t \in Seq(S) /\ Len(t) = (IF from <= end THEN end - from + 1 ELSE 0)
      /\ \A i \in 1 .. end - from + 1 : t[i] = s[from + i - 1]
  BY <1>2, <1>3, Dir!SubSeqIs
<1>5. Len(t) = n
  BY <1>1, <1>4
<1>6. ASSUME NEW i \in 1 .. n PROVE t[i] = s[a + i]
  <2>1. i \in 1 .. end - from + 1 /\ from + i - 1 = a + i
    BY <1>1
  <2> QED
    BY <1>4, <2>1
<1> QED
  BY <1>4, <1>5, <1>6

\* The last of the places where a path can be split.
LEMMA LastSplit ==
    ASSUME NEW p \in Seq(Character), Tar!SplitsAt(p) # {}
    PROVE  \E i \in Tar!SplitsAt(p) : \A k \in Tar!SplitsAt(p) : k <= i
<1> DEFINE n == Len(p)  S == Tar!SplitsAt(p)  below == {n - k : k \in S}
<1>1. n \in Nat /\ S \subseteq 1 .. n
  BY LenProperties DEF Tar!SplitsAt, Tar!Slashes
<1> HIDE DEF n, S
<1>2. below \subseteq Nat /\ below # {}
  BY <1>1 DEF S
<1> HIDE DEF below
<1>3. PICK m \in below : \A k \in below : m <= k
  BY <1>2, Dir!LeastOf
<1>4. PICK i \in S : m = n - i
  BY <1>3 DEF below
<1>5. ASSUME NEW k \in S PROVE k <= i
  <2>1. n - k \in below
    BY DEF below
  <2> QED
    BY <1>1, <1>3, <1>4, <2>1
<1> QED
  BY <1>4, <1>5 DEF S

\* A path that is cut at a "/" is joined there.
LEMMA CutAndJoined ==
    ASSUME NEW p \in Seq(Character), NEW i \in 1 .. Len(p), p[i] = "/"
    PROVE  /\ Tar!Prefix(p, i) \in Seq(Character) /\ Tar!Name(p, i) \in Seq(Character)
           /\ i > 1 => Tar!Prefix(p, i) # <<>>
           /\ Tar!Prefix(p, i) \o <<"/">> \o Tar!Name(p, i) = p
<1> DEFINE n == Len(p)  l == Tar!Prefix(p, i)  r == Tar!Name(p, i)  slash == <<"/">>
           ls == l \o slash  lsr == ls \o r
<1>1. n = Len(p) /\ n \in Nat /\ i \in 1 .. n /\ p \in [1 .. n -> Character]
  BY LenProperties
<1>2. /\ l \in Seq(Character) /\ Len(l) = i - 1
      /\ \A j \in 1 .. i - 1 : l[j] = p[j]
  BY <1>1, SubSeqProperties DEF Tar!Prefix
<1>3. /\ r \in Seq(Character) /\ Len(r) = n - i
      /\ \A j \in 1 .. n - i : r[j] = p[i + j]
  <2> DEFINE m == n - i
  <2>1. i \in Nat /\ m \in Nat /\ i + m = n /\ i + m <= Len(p)
    BY <1>1
  <2>2. r = SubSeq(p, i + 1, i + m)
    BY <2>1 DEF Tar!Name
  <2> HIDE DEF r, m
  <2>3. r \in Seq(Character) /\ Len(r) = m /\ \A j \in 1 .. m : r[j] = p[i + j]
    BY <2>1, <2>2, Window
  <2> QED
    BY <2>3 DEF m
<1>4. slash \in Seq(Character) /\ Len(slash) = 1 /\ slash[1] = "/"
  BY DEF Character
<1>5. IsCat(ls, l, slash) /\ IsCat(lsr, ls, r)
  BY DEF IsCat
<1>6. l # <<>> \/ ~ i > 1
  BY <1>1, <1>2
<1> HIDE DEF l, r, slash, ls, lsr, n
<1>7. /\ lsr \in Seq(Character) /\ Len(lsr) = Len(l) + Len(slash) + Len(r)
      /\ \A j \in 1 .. Len(l) : lsr[j] = l[j]
      /\ \A j \in 1 .. Len(slash) : lsr[Len(l) + j] = slash[j]
      /\ \A j \in 1 .. Len(r) : lsr[Len(l) + Len(slash) + j] = r[j]
  <2>1. l \in Seq(Character) /\ slash \in Seq(Character) /\ r \in Seq(Character)
    BY <1>2, <1>3, <1>4
  <2>2. IsCat(ls, l, slash)
    BY <1>5
  <2>3. IsCat(lsr, ls, r)
    BY <1>5
  <2> QED
    BY <2>1, <2>2, <2>3, CatThree
<1>8. Len(lsr) = n
  BY <1>1, <1>2, <1>3, <1>4, <1>7
<1>9. ASSUME NEW j \in 1 .. n PROVE lsr[j] = p[j]
  <2>1. CASE j < i
    <3>1. j \in 1 .. i - 1
      BY <1>1, <2>1
    <3> QED
      BY <1>2, <1>7, <3>1
  <2>2. CASE j = i
    <3>1. lsr[Len(l) + 1] = "/"
      BY <1>4, <1>7
    <3>2. Len(l) + 1 = i
      BY <1>1, <1>2
    <3> QED
      BY <2>2, <3>1, <3>2
  <2>3. CASE j > i
    <3>1. j - i \in 1 .. n - i /\ Len(l) + Len(slash) + (j - i) = j
      BY <1>1, <1>2, <1>4, <2>3
    <3>2. lsr[Len(l) + Len(slash) + (j - i)] = r[j - i]
      BY <1>3, <1>7, <3>1
    <3>3. r[j - i] = p[i + (j - i)] /\ i + (j - i) = j
      BY <1>1, <1>3, <3>1
    <3> QED
      BY <3>1, <3>2, <3>3
  <2> QED
    BY <1>1, <2>1, <2>2, <2>3
<1>10. lsr = p
  BY <1>1, <1>7, <1>8, <1>9, SeqEqual
<1> QED
  BY <1>2, <1>3, <1>6, <1>10 DEF l, r, slash, ls, lsr

\* The path that the fields of a header give.
FieldsPath(h) == IF h.prefix # <<>> THEN h.prefix \o <<"/">> \o h.name ELSE h.name

HeaderCell(h) == [kind |-> "header", value |-> h]

\* The header of a regular file gives its path, if the path fits its fields.
LEMMA RegularCells ==
    ASSUME Tar!ProfileAssumption, NEW p \in Seq(Character), Tar!ValidRelativePath(p),
           NEW n \in Nat
    PROVE  LET r == Tar!RegularHeader(p, n)
           IN  /\ r \in Seq(Cell) /\ Len(r) = Block
               /\ \E h \in Fields : /\ r[1] = HeaderCell(h) /\ h.size = n /\ h.type = "0"
                                    /\ Tar!Splits(p) => FieldsPath(h) = p
<1> DEFINE r == Tar!RegularHeader(p, n)
           f(x, y) == [name |-> x, prefix |-> y, size |-> n, type |-> "0"]
           S == Tar!SplitsAt(p)
           i == CHOOSE j \in S : \A k \in S : k <= j
<1> SUFFICES \E x, y \in Seq(Character) : /\ r = Tar!Header(x, y, n, "0")
                                          /\ Tar!Splits(p) => FieldsPath(f(x, y)) = p
  <2> SUFFICES ASSUME NEW x \in Seq(Character), NEW y \in Seq(Character),
                      r = Tar!Header(x, y, n, "0"), Tar!Splits(p) => FieldsPath(f(x, y)) = p
               PROVE  /\ r \in Seq(Cell) /\ Len(r) = Block
                      /\ \E h \in Fields : /\ r[1] = HeaderCell(h) /\ h.size = n /\ h.type = "0"
                                           /\ Tar!Splits(p) => FieldsPath(h) = p
    OBVIOUS
  <2>1. "0" \in {"0", "L"}
    OBVIOUS
  <2>2. r \in Seq(Cell) /\ Len(r) = Block /\ r[1] = [kind |-> "header", value |-> f(x, y)]
    <3> HIDE DEF r
    <3> QED
      BY <2>1, HeaderType
  <2>3. f(x, y) \in Fields /\ f(x, y).size = n /\ f(x, y).type = "0"
    BY DEF Fields
  <2> HIDE DEF r, f
  <2> QED
    BY <2>2, <2>3 DEF HeaderCell
<1>0. <<>> \in Seq(Character) /\ Len(p) \in Nat /\ NameField \in Nat
  BY LenProperties DEF Tar!ProfileAssumption
<1>1. CASE Len(p) <= NameField
  <2>1. r = Tar!Header(p, <<>>, n, "0")
    BY <1>1 DEF Tar!RegularHeader
  <2>2. FieldsPath(f(p, <<>>)) = p
    BY DEF FieldsPath
  <2> HIDE DEF r, f
  <2> QED
    BY <1>0, <2>1, <2>2
<1>2. CASE ~ Len(p) <= NameField /\ S # {}
  <2> DEFINE x == Tar!Name(p, i)  y == Tar!Prefix(p, i)
  <2>1. i \in S
    <3>1. \E j \in S : \A k \in S : k <= j
      BY <1>2, LastSplit
    <3> HIDE DEF S
    <3> QED
      BY <3>1
  <2>2. i \in 1 .. Len(p) /\ p[i] = "/"
    <3> HIDE DEF i
    <3> QED
      BY <2>1, LenProperties DEF Tar!SplitsAt, Tar!Slashes
  <2>3. i > 1
    <3> HIDE DEF i
    <3> QED
      BY <2>1 DEF Tar!SplitsAt, Tar!SegmentEnds, Tar!ValidRelativePath
  <2>4. r = Tar!Header(x, y, n, "0")
    BY <1>2 DEF Tar!RegularHeader
  <2> HIDE DEF i
  <2>5. /\ x \in Seq(Character) /\ y \in Seq(Character) /\ y # <<>>
        /\ y \o <<"/">> \o x = p
    BY <2>2, <2>3, CutAndJoined
  <2> HIDE DEF x, y
  <2>6. FieldsPath(f(x, y)) = p
    BY <2>5 DEF FieldsPath
  <2> HIDE DEF r, f
  <2> QED
    BY <2>4, <2>5, <2>6
<1>3. CASE ~ Len(p) <= NameField /\ S = {}
  <2> DEFINE x == SubSeq(p, 1, NameField)
  <2>1. r = Tar!Header(x, <<>>, n, "0") /\ ~ Tar!Splits(p)
    BY <1>3 DEF Tar!RegularHeader, Tar!Splits
  <2>2. x \in Seq(Character)
    <3>1. 0 + NameField <= Len(p) /\ x = SubSeq(p, 0 + 1, 0 + NameField) /\ 0 \in Nat
      BY <1>0, <1>3
    <3> HIDE DEF x
    <3> QED
      BY <1>0, <3>1, Window
  <2> HIDE DEF x, r, f
  <2> QED
    BY <1>0, <2>1, <2>2
<1> QED
  BY <1>1, <1>2, <1>3

\* Where the header of an entry begins: behind the record of a long name.
LongNameLength(p) == Block + (Len(p) + 1) + Tar!Padding(Len(p) + 1)
Lead(p) == IF Tar!Splits(p) THEN 0 ELSE LongNameLength(p)
LongNameFields(p) == [name |-> <<"@">>, prefix |-> <<>>, size |-> Len(p) + 1, type |-> "L"]

\* c is the entry of a file.
LongNameIs(c, p) ==
    /\ c[1] = HeaderCell(LongNameFields(p))
    /\ \A i \in 1 .. Len(p) : c[Block + i] = Tar!Byte(p[i])
    /\ c[Block + (Len(p) + 1)] = Tar!Zero

HeaderIs(c, file) ==
    \E h \in Fields : /\ c[Lead(file.path) + 1] = HeaderCell(h)
                      /\ h.size = Len(file.bytes) /\ h.type = "0"
                      /\ Tar!Splits(file.path) => FieldsPath(h) = file.path

EntryIs(c, file) ==
    /\ c \in Seq(Cell) /\ Lead(file.path) \in Nat /\ Len(file.bytes) \in Nat
    /\ Tar!Padding(Len(file.bytes)) \in Nat
    /\ Len(c) = Lead(file.path) + Block + Len(file.bytes) + Tar!Padding(Len(file.bytes))
    /\ ~ Tar!Splits(file.path) => LongNameIs(c, file.path)
    /\ HeaderIs(c, file)
    /\ \A i \in 1 .. Len(file.bytes) : c[Lead(file.path) + Block + i] = Tar!Byte(file.bytes[i])

LEMMA FileType ==
    ASSUME NEW file \in File
    PROVE  /\ file.path \in Seq(Character) /\ Tar!ValidRelativePath(file.path)
           /\ file.bytes \in Seq(Nat) /\ Len(file.path) \in Nat /\ Len(file.bytes) \in Nat
           /\ Len(file.path) # 0 /\ file = [path |-> file.path, bytes |-> file.bytes]
<1>1. /\ file.path \in Seq(Character) /\ Tar!ValidRelativePath(file.path)
      /\ file.bytes \in Seq(Nat) /\ file = [path |-> file.path, bytes |-> file.bytes]
  BY DEF File
<1>2. file.path # <<>>
  BY <1>1 DEF Tar!ValidRelativePath
<1> QED
  BY <1>1, <1>2, EmptySeq, LenProperties

LEMMA LeadIs ==
    ASSUME Tar!ProfileAssumption, NEW p \in Seq(Character)
    PROVE  LET a == IF Tar!Splits(p) THEN <<>> ELSE Tar!LongNameRecord(p)
           IN  /\ a \in Seq(Cell) /\ Len(a) = Lead(p) /\ Lead(p) \in Nat
               /\ ~ Tar!Splits(p) => /\ LongNameIs(a, p) /\ Len(a) >= Block + (Len(p) + 1)
<1>0. Len(p) \in Nat /\ Len(p) + 1 \in Nat /\ Block \in Nat
  BY LenProperties DEF Tar!ProfileAssumption
<1>1. CASE Tar!Splits(p)
  BY <1>1, EmptySeq DEF Lead
<1>2. CASE ~ Tar!Splits(p)
  <2> DEFINE a == Tar!LongNameRecord(p)  n == Len(p) + 1
  <2>1. /\ a \in Seq(Cell) /\ Len(a) = Block + n + Tar!Padding(n)
        /\ a[1] = [kind |-> "header",
                   value |-> [name |-> <<"@">>, prefix |-> <<>>, size |-> n, type |-> "L"]]
        /\ \A i \in 1 .. Len(p) : a[Block + i] = Tar!Byte(p[i])
        /\ a[Block + n] = Tar!Zero
    BY LongNameCells
  <2>2. Tar!Padding(n) \in Nat
    BY <1>0, PaddingType
  <2> HIDE DEF a
  <2>3. LongNameIs(a, p)
    BY <2>1 DEF LongNameIs, LongNameFields, HeaderCell
  <2>4. Len(a) = Lead(p) /\ Lead(p) \in Nat /\ Len(a) >= Block + n
    BY <1>0, <1>2, <2>1, <2>2 DEF Lead, LongNameLength
  <2> QED
    BY <1>2, <2>1, <2>3, <2>4 DEF a
<1> QED
  BY <1>1, <1>2

LEMMA EntryWritten ==
    ASSUME Tar!ProfileAssumption, NEW file \in File
    PROVE  EntryIs(Tar!EntryCells(file), file)
<1> DEFINE p == file.path  d == file.bytes  n == Len(d)
           u == IF Tar!Splits(p) THEN <<>> ELSE Tar!LongNameRecord(p)
           v == Tar!RegularHeader(p, n)  w == Tar!Cells(d)  z == Tar!Zeros(Tar!Padding(n))
           uv == u \o v  uvw == uv \o w  c == uvw \o z
<1>1. /\ p \in Seq(Character) /\ Tar!ValidRelativePath(p) /\ d \in Seq(Nat) /\ n \in Nat
      /\ Len(p) \in Nat /\ Block \in Nat \ {0}
  BY FileType DEF Tar!ProfileAssumption
<1>2. c = Tar!EntryCells(file)
  BY DEF Tar!EntryCells
<1>3. IsCat(uv, u, v) /\ IsCat(uvw, uv, w) /\ IsCat(c, uvw, z)
  BY DEF IsCat
<1> HIDE DEF p, d, n
<1>4. /\ u \in Seq(Cell) /\ Len(u) = Lead(p) /\ Lead(p) \in Nat
      /\ ~ Tar!Splits(p) => /\ LongNameIs(u, p) /\ Len(u) >= Block + (Len(p) + 1)
  BY <1>1, LeadIs
<1>5. /\ v \in Seq(Cell) /\ Len(v) = Block
      /\ \E h \in Fields : /\ v[1] = HeaderCell(h) /\ h.size = n /\ h.type = "0"
                           /\ Tar!Splits(p) => FieldsPath(h) = p
  BY <1>1, RegularCells
<1>6. w \in Seq(Cell) /\ Len(w) = n /\ \A i \in 1 .. n : w[i] = Tar!Byte(d[i])
  <2>1. Nat \subseteq Nat \cup Character
    OBVIOUS
  <2>2. w \in Seq(Cell) /\ Len(w) = Len(d) /\ \A i \in 1 .. Len(d) : w[i] = Tar!Byte(d[i])
    BY <1>1, <2>1, CellsType
  <2> QED
    BY <2>2 DEF n
<1>7. z \in Seq(Cell) /\ Len(z) = Tar!Padding(n) /\ Tar!Padding(n) \in Nat
  BY <1>1, PaddingType, ZerosType
<1> HIDE DEF u, v, w, z, uv, uvw, c
<1>8. /\ uvw \in Seq(Cell) /\ Len(uvw) = Len(u) + Len(v) + Len(w)
      /\ \A i \in 1 .. Len(u) : uvw[i] = u[i]
      /\ \A i \in 1 .. Len(v) : uvw[Len(u) + i] = v[i]
      /\ \A i \in 1 .. Len(w) : uvw[Len(u) + Len(v) + i] = w[i]
  <2>1. u \in Seq(Cell) /\ v \in Seq(Cell) /\ w \in Seq(Cell)
    BY <1>4, <1>5, <1>6
  <2>2. IsCat(uv, u, v)
    BY <1>3
  <2>3. IsCat(uvw, uv, w)
    BY <1>3
  <2> QED
    BY <2>1, <2>2, <2>3, CatThree
<1>9. /\ c \in Seq(Cell) /\ Len(c) = Len(uvw) + Len(z)
      /\ \A i \in 1 .. Len(uvw) : c[i] = uvw[i]
  <2>1. uvw \in Seq(Cell) /\ z \in Seq(Cell) /\ IsCat(c, uvw, z)
    BY <1>3, <1>7, <1>8
  <2> QED
    BY <2>1, CatTwo
<1>10. /\ Len(uvw) = Lead(p) + Block + n
       /\ Len(c) = Lead(p) + Block + n + Tar!Padding(n)
  BY <1>1, <1>4, <1>5, <1>6, <1>7, <1>8, <1>9
<1>11. /\ \A i \in 1 .. Lead(p) : c[i] = u[i]
       /\ c[Lead(p) + 1] = v[1]
       /\ \A i \in 1 .. n : c[Lead(p) + Block + i] = w[i]
  <2>1. ASSUME NEW i \in 1 .. Lead(p) PROVE c[i] = u[i]
    BY <1>1, <1>4, <1>8, <1>9, <1>10
  <2>2. c[Lead(p) + 1] = v[1]
    <3>1. Lead(p) + 1 \in 1 .. Len(uvw) /\ 1 \in 1 .. Len(v)
      BY <1>1, <1>4, <1>5, <1>10
    <3> QED
      BY <1>4, <1>8, <1>9, <3>1
  <2>3. ASSUME NEW i \in 1 .. n PROVE c[Lead(p) + Block + i] = w[i]
    <3>1. Lead(p) + Block + i \in 1 .. Len(uvw) /\ i \in 1 .. Len(w)
      BY <1>1, <1>4, <1>6, <1>10
    <3> QED
      BY <1>4, <1>5, <1>8, <1>9, <3>1
  <2> QED
    BY <2>1, <2>2, <2>3
<1>12. ~ Tar!Splits(p) => LongNameIs(c, p)
  <2> SUFFICES ASSUME ~ Tar!Splits(p) PROVE LongNameIs(c, p)
    OBVIOUS
  <2>1. /\ 1 \in 1 .. Lead(p) /\ Block + (Len(p) + 1) \in 1 .. Lead(p)
        /\ \A i \in 1 .. Len(p) : Block + i \in 1 .. Lead(p)
    BY <1>1, <1>4
  <2> QED
    BY <1>4, <1>11, <2>1 DEF LongNameIs
<1>13. HeaderIs(c, file)
  BY <1>5, <1>11 DEF HeaderIs, p, d, n
<1>14. \A i \in 1 .. n : c[Lead(p) + Block + i] = Tar!Byte(d[i])
  BY <1>6, <1>11
<1> QED
  BY <1>1, <1>2, <1>4, <1>7, <1>9, <1>10, <1>12, <1>13, <1>14 DEF EntryIs, p, d, n

(* The archive: where each entry begins, and what follows the last.         *)
Entries(b) == [i \in DOMAIN b |-> Tar!EntryCells(b[i])]
Start(b, k) == Len(Dir!Upto(Entries(b), k))

LEMMA BundleType ==
    ASSUME NEW b \in Bundles
    PROVE  /\ b \in Seq(File) /\ Len(b) \in Nat /\ DOMAIN b = 1 .. Len(b)
           /\ \A k \in 1 .. Len(b) : b[k] \in File /\ Tar!Representable(b[k].path)
<1>1. b \in Seq(File) /\ \A i \in DOMAIN b : Tar!Representable(b[i].path)
  BY DEF Bundles
<1> QED
  BY <1>1, LenProperties, ElementOfSeq

LEMMA EntriesType ==
    ASSUME Tar!ProfileAssumption, NEW b \in Bundles
    PROVE  /\ Entries(b) \in Seq(Seq(Cell)) /\ Len(Entries(b)) = Len(b)
           /\ \A k \in 1 .. Len(b) : Entries(b)[k] = Tar!EntryCells(b[k])
<1>1. /\ Len(b) \in Nat /\ DOMAIN b = 1 .. Len(b)
      /\ \A k \in 1 .. Len(b) : b[k] \in File
  BY BundleType
<1>2. \A k \in 1 .. Len(b) : Tar!EntryCells(b[k]) \in Seq(Cell)
  BY <1>1, EntryWritten DEF EntryIs
<1>3. Entries(b) = [i \in 1 .. Len(b) |-> Tar!EntryCells(b[i])]
  BY <1>1 DEF Entries
<1> QED
  BY <1>1, <1>2, <1>3

\* What an archive holds from the beginning of each entry on.
EntryAt(whole, b, k) ==
    LET c == Tar!EntryCells(b[k + 1])
    IN  /\ Start(b, k) \in Nat /\ Start(b, k + 1) = Start(b, k) + Len(c)
        /\ Start(b, k + 1) <= Start(b, Len(b))
        /\ \A i \in 1 .. Len(c) : whole[Start(b, k) + i] = c[i]

ArchiveIs(whole, b) ==
    /\ whole \in Seq(Cell) /\ Start(b, 0) = 0 /\ Start(b, Len(b)) \in Nat
    /\ Len(whole) = Start(b, Len(b)) + 2 * Block
    /\ \A k \in 0 .. Len(b) - 1 : EntryAt(whole, b, k)
    /\ \A i \in 1 .. 2 * Block : whole[Start(b, Len(b)) + i] = Tar!Zero

LEMMA ArchiveWritten ==
    ASSUME Tar!ProfileAssumption, NEW b \in Bundles
    PROVE  ArchiveIs(Tar!Archive(b), b)
<1> DEFINE s == Entries(b)  f == Dir!FlattenSeq(s)  z == Tar!Zeros(2 * Block)
           whole == Tar!Archive(b)  N == Len(b)
<1>1. /\ s \in Seq(Seq(Cell)) /\ Len(s) = N /\ N \in Nat /\ 2 * Block \in Nat
      /\ \A k \in 1 .. N : s[k] = Tar!EntryCells(b[k])
  BY EntriesType, BundleType DEF Tar!ProfileAssumption
<1>2. IsCat(whole, f, z)
  <2>1. Tar!FlattenSeq(s) = f
    BY DEF Tar!FlattenSeq, Dir!FlattenSeq
  <2>2. whole = Tar!FlattenSeq(s) \o z
    BY DEF Tar!Archive, Entries
  <2> QED
    BY <2>1, <2>2 DEF IsCat
<1> HIDE DEF s, f, z, whole, N
<1>3. f \in Seq(Cell)
  BY <1>1, Dir!FlattenType DEF f
<1>4. z \in Seq(Cell) /\ Len(z) = 2 * Block /\ \A i \in 1 .. 2 * Block : z[i] = Tar!Zero
  BY <1>1, ZerosType DEF z
<1>5. /\ whole \in Seq(Cell) /\ Len(f) \in Nat /\ Len(whole) = Len(f) + Len(z)
      /\ \A i \in 1 .. Len(f) : whole[i] = f[i]
      /\ \A i \in 1 .. Len(z) : whole[Len(f) + i] = z[i]
  BY <1>2, <1>3, <1>4, CatTwo
<1>6. Start(b, N) = Len(f)
  <2>1. Dir!Upto(s, Len(s)) = f
    BY <1>1, Dir!UptoFull DEF f
  <2> QED
    BY <1>1, <2>1 DEF Start, s
<1>7. Start(b, 0) = 0
  <2>1. Dir!Upto(s, 0) = <<>>
    BY Dir!UptoZero
  <2> QED
    BY <2>1, EmptySeq DEF Start, s
<1>8. ASSUME NEW k \in 0 .. N - 1 PROVE EntryAt(whole, b, k)
  <2> DEFINE j == k + 1
  <2>1. j \in 1 .. Len(s) /\ j - 1 = k /\ j = k + 1
    BY <1>1
  <2> HIDE DEF j
  <2>2. /\ Len(Dir!Upto(s, j - 1)) \in Nat /\ Len(s[j]) \in Nat
        /\ Len(Dir!Upto(s, j)) = Len(Dir!Upto(s, j - 1)) + Len(s[j])
        /\ Len(Dir!Upto(s, j)) <= Len(f)
        /\ \A i \in 1 .. Len(s[j]) : f[Len(Dir!Upto(s, j - 1)) + i] = s[j][i]
    BY <1>1, <2>1, Dir!UptoHolds DEF f
  <2>3. s[j] = Tar!EntryCells(b[j])
    BY <1>1, <2>1
  <2>4. /\ Start(b, k) \in Nat /\ Len(s[j]) \in Nat /\ Start(b, j) = Start(b, k) + Len(s[j])
        /\ Start(b, j) <= Len(f)
        /\ \A i \in 1 .. Len(s[j]) : f[Start(b, k) + i] = s[j][i]
    BY <2>1, <2>2 DEF Start, s
  <2>5. \A i \in 1 .. Len(s[j]) : Start(b, k) + i \in 1 .. Len(f)
    BY <1>5, <2>4
  <2>6. \A i \in 1 .. Len(s[j]) : whole[Start(b, k) + i] = s[j][i]
    BY <1>5, <2>4, <2>5
  <2> QED
    BY <1>6, <2>1, <2>3, <2>4, <2>6 DEF EntryAt, N
<1>9. \A i \in 1 .. 2 * Block : whole[Start(b, N) + i] = Tar!Zero
  BY <1>4, <1>5, <1>6
<1> QED
  BY <1>4, <1>5, <1>6, <1>7, <1>8, <1>9 DEF ArchiveIs, N, whole

(* The invariant: which file is next, and how far into its entry the        *)
(* extractor has read. Variables as in Tar: r1 is the archive, r2 whether   *)
(* it is complete, r3 at, r4 header, r5 longName, r6 left, r7 bytes.        *)
Whole == Tar!Archive(input)
NextFile == input[Len(out) + 1]
NextPath == NextFile.path
NextSize == Len(NextFile.bytes)
Begin == Start(input, Len(out))
More == Len(out) < Len(input)

TarInput ==
    /\ input \in Bundles /\ r1 \in Seq(Cell) /\ Len(r1) <= Len(Whole)
    /\ \A i \in 1 .. Len(r1) : r1[i] = Whole[i]
    /\ r2 => r1 = Whole

TarOut ==
    /\ out \in Seq(File) /\ Len(out) <= Len(input)
    /\ \A i \in 1 .. Len(out) : out[i] = input[i]

AtFirstHeader == r5 = <<>> /\ r3 = Begin
AtSecondHeader ==
    /\ More /\ ~ Tar!Splits(NextPath) /\ r5 = NextPath
    /\ r3 = Begin + LongNameLength(NextPath)
AtLongName ==
    /\ More /\ ~ Tar!Splits(NextPath) /\ r5 = <<>>
    /\ r4 = LongNameFields(NextPath) /\ r3 = Begin + Block
AtEntry ==
    /\ More /\ r5 = (IF Tar!Splits(NextPath) THEN <<>> ELSE NextPath)
    /\ r4 \in Fields /\ r4.size = NextSize
    /\ Tar!Splits(NextPath) => FieldsPath(r4) = NextPath
    /\ r3 = Begin + Lead(NextPath) + Block
AtData ==
    /\ More /\ r5 = <<>> /\ r4 \in Fields /\ r4.size = NextSize /\ r4.name = NextPath
    /\ r6 \in 0 .. NextSize /\ r7 \in Seq(Nat) /\ Len(r7) = NextSize - r6
    /\ \A i \in 1 .. Len(r7) : r7[i] = NextFile.bytes[i]
    /\ r3 = Begin + Lead(NextPath) + Block + Len(r7)
AtEnd ==
    /\ result \in {"ok", "failed"}
    /\ result = "ok" => ~ More
    /\ r2 /\ result = "failed" => ioFailed

TarPlace ==
    \/ pc = "header" /\ result = "running" /\ (AtFirstHeader \/ AtSecondHeader)
    \/ pc = "longName" /\ result = "running" /\ AtLongName
    \/ pc = "entry" /\ result = "running" /\ AtEntry
    \/ pc = "data" /\ result = "running" /\ AtData
    \/ pc = "walk" /\ result = "running" /\ ~ More
    \/ pc = "end" /\ AtEnd

TInv == TarInput /\ TarOut /\ TarPlace

\* What of the archive belongs to the next file.
LEMMA NextEntry ==
    ASSUME Tar!ProfileAssumption, TarInput, TarOut, More
    PROVE  /\ Begin \in Nat /\ Len(out) \in Nat /\ NextFile \in File
           /\ Tar!Representable(NextPath)
           /\ Start(input, Len(out) + 1) = Begin + Lead(NextPath) + Block + NextSize
                                           + Tar!Padding(NextSize)
           /\ Start(input, Len(out) + 1) <= Len(Whole)
           /\ Lead(NextPath) \in Nat /\ NextSize \in Nat /\ Tar!Padding(NextSize) \in Nat
           /\ ~ Tar!Splits(NextPath) =>
                 /\ Whole[Begin + 1] = HeaderCell(LongNameFields(NextPath))
                 /\ \A i \in 1 .. Len(NextPath) : Whole[Begin + (Block + i)] = Tar!Byte(NextPath[i])
                 /\ Whole[Begin + (Block + (Len(NextPath) + 1))] = Tar!Zero
           /\ \E h \in Fields : /\ Whole[Begin + (Lead(NextPath) + 1)] = HeaderCell(h)
                                /\ h.size = NextSize /\ h.type = "0"
                                /\ Tar!Splits(NextPath) => FieldsPath(h) = NextPath
           /\ \A i \in 1 .. NextSize :
                 Whole[Begin + (Lead(NextPath) + Block + i)] = Tar!Byte(NextFile.bytes[i])
<1> DEFINE k == Len(out)  N == Len(input)  c == Tar!EntryCells(NextFile)  W == Whole
           p == NextPath  n == NextSize  B == Begin  l == Lead(p)  m == Tar!Padding(n)
           d == NextFile.bytes
<1>1. /\ k \in Nat /\ N \in Nat /\ k \in 0 .. N - 1 /\ k + 1 \in 1 .. N /\ Block \in Nat \ {0}
  BY BundleType, LenProperties DEF TarInput, TarOut, More, Tar!ProfileAssumption
<1>2. NextFile \in File /\ Tar!Representable(p)
  BY <1>1, BundleType DEF TarInput, NextFile, NextPath
<1>3. EntryIs(c, NextFile)
  BY <1>2, EntryWritten
<1>4. ArchiveIs(W, input)
  BY ArchiveWritten DEF TarInput, Whole
<1>5. /\ B \in Nat /\ Start(input, k + 1) = B + Len(c) /\ Start(input, k + 1) <= Start(input, N)
      /\ \A i \in 1 .. Len(c) : W[B + i] = c[i]
  BY <1>1, <1>4 DEF ArchiveIs, EntryAt, Begin, NextFile
<1>6. Start(input, N) <= Len(W)
  BY <1>1, <1>4 DEF ArchiveIs
<1>7. /\ Start(input, N) \in Nat /\ Len(W) \in Nat
  BY <1>1, <1>4, LenProperties DEF ArchiveIs
<1>8. /\ c \in Seq(Cell) /\ l \in Nat /\ n \in Nat /\ m \in Nat
      /\ Len(c) = l + Block + n + m
      /\ ~ Tar!Splits(p) => LongNameIs(c, p)
      /\ \E h \in Fields : /\ c[l + 1] = HeaderCell(h) /\ h.size = n /\ h.type = "0"
                           /\ Tar!Splits(p) => FieldsPath(h) = p
      /\ \A i \in 1 .. n : c[l + Block + i] = Tar!Byte(d[i])
  BY <1>3 DEF EntryIs, HeaderIs, NextPath, NextSize
<1>9. Len(p) \in Nat /\ (~ Tar!Splits(p) => l >= Block + (Len(p) + 1))
  <2>1. p \in Seq(Character) /\ Len(p) \in Nat
    BY <1>2, FileType DEF NextPath
  <2> HIDE DEF p
  <2>2. Tar!Padding(Len(p) + 1) \in Nat
    BY <2>1, PaddingType
  <2> QED
    BY <1>1, <2>1, <2>2 DEF Lead, LongNameLength
<1> HIDE DEF k, N, c, W, p, n, B, l, m, d
<1>10. Start(input, k + 1) = B + l + Block + n + m /\ Start(input, k + 1) <= Len(W)
  BY <1>1, <1>5, <1>6, <1>7, <1>8
<1>11. ~ Tar!Splits(p) =>
          /\ W[B + 1] = HeaderCell(LongNameFields(p))
          /\ \A i \in 1 .. Len(p) : W[B + (Block + i)] = Tar!Byte(p[i])
          /\ W[B + (Block + (Len(p) + 1))] = Tar!Zero
  <2> SUFFICES ASSUME ~ Tar!Splits(p)
               PROVE  /\ W[B + 1] = HeaderCell(LongNameFields(p))
                      /\ \A i \in 1 .. Len(p) : W[B + (Block + i)] = Tar!Byte(p[i])
                      /\ W[B + (Block + (Len(p) + 1))] = Tar!Zero
    OBVIOUS
  <2>1. /\ 1 \in 1 .. Len(c) /\ Block + (Len(p) + 1) \in 1 .. Len(c)
        /\ \A i \in 1 .. Len(p) : Block + i \in 1 .. Len(c)
    BY <1>1, <1>8, <1>9
  <2> QED
    BY <1>5, <1>8, <2>1 DEF LongNameIs
<1>12. \E h \in Fields : /\ W[B + (l + 1)] = HeaderCell(h) /\ h.size = n /\ h.type = "0"
                         /\ Tar!Splits(p) => FieldsPath(h) = p
  <2>1. l + 1 \in 1 .. Len(c)
    BY <1>1, <1>8
  <2> QED
    BY <1>5, <1>8, <2>1
<1>13. \A i \in 1 .. n : W[B + (l + Block + i)] = Tar!Byte(d[i])
  <2>1. \A i \in 1 .. n : l + Block + i \in 1 .. Len(c)
    BY <1>1, <1>8
  <2> QED
    BY <1>5, <1>8, <2>1
<1> QED
  BY <1>1, <1>2, <1>5, <1>8, <1>10, <1>11, <1>12, <1>13 DEF k, p, n, B, l, m, d, W

\* Behind the last entry there are two blocks of zeros.
LEMMA NoEntry ==
    ASSUME Tar!ProfileAssumption, TarInput, TarOut, ~ More
    PROVE  /\ Begin \in Nat /\ Begin + 2 * Block <= Len(Whole) /\ Len(out) = Len(input)
           /\ \A i \in 1 .. Block : Whole[Begin + i] = Tar!Zero
<1>1. Len(out) = Len(input) /\ Block \in Nat
  BY BundleType, LenProperties DEF TarInput, TarOut, More, Tar!ProfileAssumption
<1>2. ArchiveIs(Whole, input)
  BY ArchiveWritten DEF TarInput, Whole
<1> HIDE DEF Whole
<1> QED
  BY <1>1, <1>2 DEF ArchiveIs, Begin

\* The next n cells are the archive's; they are missing only if it was cut short.
LEMMA CellsRead ==
    ASSUME TarInput, NEW n \in Nat, r3 \in Nat, Tar!Readable(n),
           NEW s, s = Tar!NextCells(n)
    PROVE  s \in Seq(Cell) /\ Len(s) = n /\ \A i \in 1 .. n : s[i] = Whole[r3 + i]
<1> DEFINE a == r3  W == Whole
<1>1. r1 \in Seq(Cell) /\ Len(r1) \in Nat /\ \A i \in 1 .. Len(r1) : r1[i] = W[i]
  BY LenProperties DEF TarInput
<1>2. a \in Nat /\ a + n <= Len(r1) /\ s = SubSeq(r1, a + 1, a + n)
  BY DEF Tar!Readable, Tar!NextCells
<1> HIDE DEF a, W
<1>3. s \in Seq(Cell) /\ Len(s) = n /\ \A i \in 1 .. n : s[i] = r1[a + i]
  BY <1>1, <1>2, Window
<1>4. \A i \in 1 .. n : a + i \in 1 .. Len(r1)
  BY <1>1, <1>2
<1> QED
  BY <1>1, <1>3, <1>4 DEF a, W

LEMMA CellsMissing ==
    ASSUME TarInput, NEW n \in Nat, r3 \in Nat, ~ Tar!Readable(n), r3 + n <= Len(Whole)
    PROVE  ~ r2
BY DEF TarInput, Tar!Readable

LEMMA TarFails ==
    ASSUME TarInput, TarOut, Tar!Fail, ~ r2
    PROVE  TInv'
<1>1. UNCHANGED <<input, r1, r2, r3, r4, r5, r6, r7, out, ioFailed>> /\ pc' = "end"
      /\ result' = "failed"
  BY DEF Tar!Fail
<1>2. TarInput'
  BY <1>1 DEF TarInput, Whole
<1>3. TarOut'
  BY <1>1 DEF TarOut
<1>4. TarPlace'
  BY <1>1 DEF TarPlace, AtEnd
<1> QED
  BY <1>2, <1>3, <1>4 DEF TInv

LEMMA TarRests ==
    ASSUME TarInput, TarOut, UNCHANGED <<input, r1, r2, out>>
    PROVE  TarInput' /\ TarOut'
BY DEF TarInput, TarOut, Whole

LEMMA HeaderRead ==
    ASSUME Tar!ProfileAssumption, TarInput, r3 \in Nat, Tar!ReadHeader, Tar!Readable(Block),
           NEW h \in Fields, Whole[r3 + 1] = HeaderCell(h)
    PROVE  /\ r3' = r3 + Block /\ r4' = h /\ pc' = (IF h.type = "L" THEN "longName" ELSE "entry")
           /\ UNCHANGED <<input, r1, r2, r5, r6, r7, out, result, ioFailed>>
<1> DEFINE s == Tar!NextCells(Block)
<1>1. Block \in Nat \ {0}
  BY DEF Tar!ProfileAssumption
<1>2. s \in Seq(Cell) /\ Len(s) = Block /\ \A i \in 1 .. Block : s[i] = Whole[r3 + i]
  <2> HIDE DEF s
  <2>1. s = Tar!NextCells(Block)
    BY DEF s
  <2> QED
    BY <1>1, <2>1, CellsRead
<1> HIDE DEF s
<1>3. s[1] = HeaderCell(h) /\ 1 \in DOMAIN s
  BY <1>1, <1>2, LenProperties
<1>4. ~ Tar!IsZeroBlock(s)
  <2>1. HeaderCell(h) # Tar!Zero
    BY DEF HeaderCell, Tar!Zero
  <2> QED
    BY <1>3, <2>1 DEF Tar!IsZeroBlock
<1>5. Head(s) = HeaderCell(h)
  <2>1. Head(s) = s[1]
    BY <1>1, <1>2
  <2> QED
    BY <1>3, <2>1
<1>6. Head(s).kind = "header" /\ Head(s).value = h
  BY <1>5 DEF HeaderCell
<1> QED
  BY <1>4, <1>6 DEF Tar!ReadHeader, s

LEMMA ReadHeaderKeeps ==
    ASSUME Tar!ProfileAssumption, TInv, Tar!ReadHeader
    PROVE  TInv'
<1>1. TarInput /\ TarOut /\ pc = "header" /\ result = "running"
      /\ (AtFirstHeader \/ AtSecondHeader)
  BY DEF TInv, TarPlace, Tar!ReadHeader
<1>2. Block \in Nat \ {0} /\ Len(Whole) \in Nat
  <2>1. Len(Whole) \in Nat
    BY <1>1, ArchiveWritten, LenProperties DEF TarInput, Whole, ArchiveIs
  <2> QED
    BY <2>1 DEF Tar!ProfileAssumption
<1>3. CASE AtFirstHeader /\ ~ More
  <2>1. /\ Begin \in Nat /\ Begin + 2 * Block <= Len(Whole)
        /\ \A i \in 1 .. Block : Whole[Begin + i] = Tar!Zero
    BY <1>1, <1>3, NoEntry
  <2>2. r3 \in Nat /\ r3 = Begin /\ r3 + Block <= Len(Whole) /\ r5 = <<>>
    BY <1>2, <1>3, <2>1 DEF AtFirstHeader
  <2>3. CASE ~ Tar!Readable(Block)
    <3>1. Tar!Fail
      BY <2>3 DEF Tar!ReadHeader
    <3>2. ~ r2
      BY <1>1, <1>2, <2>2, <2>3, CellsMissing
    <3> QED
      BY <1>1, <3>1, <3>2, TarFails
  <2>4. CASE Tar!Readable(Block)
    <3> DEFINE s == Tar!NextCells(Block)
    <3>1. s = Tar!NextCells(Block)
      OBVIOUS
    <3> HIDE DEF s
    <3>2. s \in Seq(Cell) /\ Len(s) = Block /\ \A i \in 1 .. Block : s[i] = Whole[r3 + i]
      BY <1>1, <1>2, <2>2, <2>4, <3>1, CellsRead
    <3>3. Tar!IsZeroBlock(s)
      BY <2>1, <2>2, <3>2, LenProperties DEF Tar!IsZeroBlock
    <3>4. pc' = "walk" /\ result' = result /\ UNCHANGED <<input, r1, r2, out>>
      BY <2>2, <2>4, <3>1, <3>3 DEF Tar!ReadHeader
    <3>5. ~ More'
      BY <1>3, <3>4 DEF More
    <3>6. TarPlace'
      BY <1>1, <3>4, <3>5 DEF TarPlace
    <3> QED
      BY <1>1, <3>4, <3>6, TarRests DEF TInv
  <2> QED
    BY <2>3, <2>4
<1>4. CASE More
  <2> DEFINE p == NextPath
  <2>1. /\ Begin \in Nat /\ NextFile \in File /\ Lead(p) \in Nat /\ NextSize \in Nat
        /\ Begin + Lead(p) + Block <= Len(Whole)
        /\ ~ Tar!Splits(p) => Whole[Begin + 1] = HeaderCell(LongNameFields(p))
        /\ \E h \in Fields : /\ Whole[Begin + (Lead(p) + 1)] = HeaderCell(h)
                             /\ h.size = NextSize /\ h.type = "0"
                             /\ Tar!Splits(p) => FieldsPath(h) = p
    <3>1. /\ Begin \in Nat /\ NextFile \in File /\ Lead(p) \in Nat /\ NextSize \in Nat
          /\ Start(input, Len(out) + 1) = Begin + Lead(p) + Block + NextSize
                                          + Tar!Padding(NextSize)
          /\ Start(input, Len(out) + 1) <= Len(Whole) /\ Tar!Padding(NextSize) \in Nat
      BY <1>1, <1>4, NextEntry
    <3>2. Begin + Lead(p) + Block <= Len(Whole)
      BY <1>2, <3>1
    <3> QED
      BY <1>1, <1>4, <3>1, <3>2, NextEntry
  <2>2. p \in Seq(Character) /\ p # <<>> /\ Len(p) \in Nat
    BY <2>1, FileType, EmptySeq DEF NextPath
  <2> HIDE DEF p
  <2>3. Tar!Splits(p) => Lead(p) = 0
    BY DEF Lead
  <2>4. ~ Tar!Splits(p) => Lead(p) = LongNameLength(p) /\ Lead(p) >= Block
    <3> SUFFICES ASSUME ~ Tar!Splits(p) PROVE Lead(p) = LongNameLength(p) /\ Lead(p) >= Block
      OBVIOUS
    <3>1. Tar!Padding(Len(p) + 1) \in Nat
      BY <2>2, PaddingType
    <3> QED
      BY <1>2, <2>2, <3>1 DEF Lead, LongNameLength
  <2>5. CASE AtFirstHeader /\ ~ Tar!Splits(p)
    <3>1. r3 \in Nat /\ r3 = Begin /\ r3 + Block <= Len(Whole) /\ r5 = <<>>
      BY <1>2, <2>1, <2>4, <2>5 DEF AtFirstHeader
    <3>2. CASE ~ Tar!Readable(Block)
      <4>1. Tar!Fail
        BY <3>2 DEF Tar!ReadHeader
      <4>2. ~ r2
        BY <1>1, <1>2, <3>1, <3>2, CellsMissing
      <4> QED
        BY <1>1, <4>1, <4>2, TarFails
    <3>3. CASE Tar!Readable(Block)
      <4> DEFINE h == LongNameFields(p)
      <4>1. h \in Fields /\ h.type = "L"
        <5>1. <<"@">> \in Seq(Character) /\ <<>> \in Seq(Character) /\ Len(p) + 1 \in Nat
          <6>1. "@" \in Character
            BY DEF Character
          <6> QED
            BY <2>2, <6>1
        <5> QED
          BY <5>1 DEF LongNameFields, Fields
      <4>2. Whole[r3 + 1] = HeaderCell(h)
        BY <2>1, <2>5, <3>1
      <4> HIDE DEF h
      <4>3. /\ r3' = r3 + Block /\ r4' = h /\ pc' = "longName"
            /\ UNCHANGED <<input, r1, r2, r5, r6, r7, out, result, ioFailed>>
        BY <1>1, <3>1, <3>3, <4>1, <4>2, HeaderRead
      <4>4. AtLongName'
        BY <1>4, <2>5, <3>1, <4>3 DEF AtLongName, More, NextPath, NextFile, Begin, h, p
      <4>5. TarPlace'
        BY <1>1, <4>3, <4>4 DEF TarPlace
      <4> QED
        BY <1>1, <4>3, <4>5, TarRests DEF TInv
    <3> QED
      BY <3>2, <3>3
  <2>6. CASE AtSecondHeader \/ Tar!Splits(p)
    <3>1. /\ r3 \in Nat /\ r3 = Begin + Lead(p) /\ r3 + Block <= Len(Whole)
          /\ r5 = (IF Tar!Splits(p) THEN <<>> ELSE p)
      BY <1>1, <1>2, <2>1, <2>3, <2>4, <2>6 DEF AtFirstHeader, AtSecondHeader, p
    <3>2. CASE ~ Tar!Readable(Block)
      <4>1. Tar!Fail
        BY <3>2 DEF Tar!ReadHeader
      <4>2. ~ r2
        BY <1>1, <1>2, <3>1, <3>2, CellsMissing
      <4> QED
        BY <1>1, <4>1, <4>2, TarFails
    <3>3. CASE Tar!Readable(Block)
      <4>1. PICK h \in Fields : /\ Whole[Begin + (Lead(p) + 1)] = HeaderCell(h)
                                /\ h.size = NextSize /\ h.type = "0"
                                /\ Tar!Splits(p) => FieldsPath(h) = p
        BY <2>1
      <4>2. Whole[r3 + 1] = HeaderCell(h)
        <5>1. r3 + 1 = Begin + (Lead(p) + 1)
          BY <2>1, <3>1
        <5> QED
          BY <4>1, <5>1
      <4>3. /\ r3' = r3 + Block /\ r4' = h /\ pc' = "entry"
            /\ UNCHANGED <<input, r1, r2, r5, r6, r7, out, result, ioFailed>>
        BY <1>1, <3>1, <3>3, <4>1, <4>2, HeaderRead
      <4>4. AtEntry'
        BY <1>4, <3>1, <4>1, <4>3
           DEF AtEntry, More, NextPath, NextFile, NextSize, Begin, p
      <4>5. TarPlace'
        BY <1>1, <4>3, <4>4 DEF TarPlace
      <4> QED
        BY <1>1, <4>3, <4>5, TarRests DEF TInv
    <3> QED
      BY <3>2, <3>3
  <2> QED
    BY <1>1, <2>5, <2>6
<1>5. AtSecondHeader => More
  BY DEF AtSecondHeader
<1> QED
  BY <1>1, <1>3, <1>4, <1>5

LEMMA ReadLongNameKeeps ==
    ASSUME Tar!ProfileAssumption, TInv, Tar!ReadLongName
    PROVE  TInv'
<1> DEFINE p == NextPath  n == Len(p) + 1  m == Tar!Padding(n)  s == Tar!NextCells(n)
<1>1. TarInput /\ TarOut /\ pc = "longName" /\ result = "running" /\ AtLongName
  BY DEF TInv, TarPlace, Tar!ReadLongName
<1>2. More /\ ~ Tar!Splits(p) /\ r5 = <<>> /\ r4.size = n /\ r3 = Begin + Block
  BY <1>1 DEF AtLongName, LongNameFields
<1>3. Block \in Nat \ {0} /\ Len(Whole) \in Nat /\ MaxLongName \in Nat
  <2>1. Len(Whole) \in Nat
    BY <1>1, ArchiveWritten, LenProperties DEF TarInput, Whole, ArchiveIs
  <2> QED
    BY <2>1 DEF Tar!ProfileAssumption
<1>4. /\ Begin \in Nat /\ NextFile \in File /\ Tar!Representable(p) /\ Lead(p) \in Nat
      /\ Start(input, Len(out) + 1) = Begin + Lead(p) + Block + NextSize + Tar!Padding(NextSize)
      /\ Start(input, Len(out) + 1) <= Len(Whole)
      /\ NextSize \in Nat /\ Tar!Padding(NextSize) \in Nat
      /\ \A i \in 1 .. Len(p) : Whole[Begin + (Block + i)] = Tar!Byte(p[i])
      /\ Whole[Begin + (Block + n)] = Tar!Zero
  BY <1>1, <1>2, NextEntry
<1>5. p \in Seq(Character) /\ p # <<>> /\ Len(p) \in Nat /\ Len(p) # 0
  BY <1>4, FileType, EmptySeq DEF NextPath
<1>6. Len(p) <= MaxLongName
  BY <1>2, <1>4 DEF Tar!Representable
<1> HIDE DEF p
<1>7. n \in Nat /\ m \in Nat /\ n >= 2 /\ n <= MaxLongName + 1 /\ n - 1 = Len(p)
      /\ Lead(p) = Block + n + m
  <2>1. n \in Nat /\ n >= 2 /\ n <= MaxLongName + 1 /\ n - 1 = Len(p)
    BY <1>3, <1>5, <1>6
  <2>2. m \in Nat
    <3> HIDE DEF n
    <3> QED
      BY <2>1, PaddingType
  <2> QED
    BY <1>2, <2>1, <2>2 DEF Lead, LongNameLength
<1> HIDE DEF n, m, s
<1>8. r3 \in Nat /\ r3 + (n + m) <= Len(Whole) /\ r3 + n <= Len(Whole)
  BY <1>2, <1>3, <1>4, <1>7
<1>9. CASE ~ Tar!Readable(n + m)
  <2>1. Tar!Fail
    BY <1>2, <1>9 DEF Tar!ReadLongName, m
  <2>2. ~ r2
    <3>1. n + m \in Nat
      BY <1>7
    <3> QED
      BY <1>1, <1>8, <1>9, <3>1, CellsMissing
  <2> QED
    BY <1>1, <2>1, <2>2, TarFails
<1>10. CASE Tar!Readable(n + m)
  <2>1. Tar!Readable(n)
    BY <1>1, <1>7, <1>8, <1>10, LenProperties DEF Tar!Readable, TarInput
  <2>2. s \in Seq(Cell) /\ Len(s) = n /\ \A i \in 1 .. n : s[i] = Whole[r3 + i]
    <3>1. s = Tar!NextCells(n)
      BY DEF s
    <3> QED
      BY <1>1, <1>7, <1>8, <2>1, <3>1, CellsRead
  <2>3. s[n] = Tar!Zero
    <3>1. n \in 1 .. n /\ r3 + n = Begin + (Block + n)
      BY <1>2, <1>3, <1>4, <1>7
    <3> QED
      BY <1>4, <2>2, <3>1 DEF n
  <2>4. \A i \in 1 .. n - 1 : s[i] = Tar!Byte(p[i])
    <3> SUFFICES ASSUME NEW i \in 1 .. n - 1 PROVE s[i] = Tar!Byte(p[i])
      OBVIOUS
    <3>1. i \in 1 .. n /\ i \in 1 .. Len(p) /\ r3 + i = Begin + (Block + i)
      BY <1>2, <1>3, <1>4, <1>7
    <3> QED
      BY <1>4, <2>2, <3>1
  <2>5. \A i \in 1 .. n - 1 : s[i] # Tar!Zero /\ s[i].value = p[i]
    <3> SUFFICES ASSUME NEW i \in 1 .. n - 1 PROVE s[i] # Tar!Zero /\ s[i].value = p[i]
      OBVIOUS
    <3>1. s[i] = [kind |-> "byte", value |-> p[i]]
      BY <2>4 DEF Tar!Byte
    <3>2. s[i].kind = "byte" /\ s[i].value = p[i] /\ Tar!Zero.kind = "zero"
      BY <3>1 DEF Tar!Zero
    <3> QED
      BY <3>2
  <2>6. /\ r5' = [i \in 1 .. n - 1 |-> s[i].value] /\ r3' = r3 + n + m /\ pc' = "header"
        /\ UNCHANGED <<input, r1, r2, r4, r6, r7, out, result, ioFailed>>
    <3>1. ~ (\/ r5 # <<>> \/ n < 2 \/ n > MaxLongName + 1 \/ ~ Tar!Readable(n + m)
             \/ s[n] # Tar!Zero \/ \E i \in 1 .. n - 1 : s[i] = Tar!Zero)
      BY <1>2, <1>3, <1>7, <1>10, <2>3, <2>5
    <3> QED
      BY <1>2, <3>1 DEF Tar!ReadLongName, m, s
  <2>7. r5' = p
    <3>1. p = [i \in 1 .. Len(p) |-> p[i]]
      BY <1>5, LenProperties
    <3>2. r5' = [i \in 1 .. n - 1 |-> p[i]]
      BY <2>5, <2>6
    <3> QED
      BY <1>7, <3>1, <3>2
  <2>8. AtSecondHeader'
    <3>1. r3' = Begin + LongNameLength(p)
      BY <1>2, <1>3, <1>4, <1>7, <2>6 DEF Lead
    <3> QED
      BY <1>2, <2>6, <2>7, <3>1 DEF AtSecondHeader, More, NextPath, NextFile, Begin, p
  <2>9. TarPlace'
    BY <1>1, <2>6, <2>8 DEF TarPlace
  <2> QED
    BY <1>1, <2>6, <2>9, TarRests DEF TInv
<1> QED
  BY <1>9, <1>10

LEMMA OpenEntryKeeps ==
    ASSUME Tar!ProfileAssumption, TInv, Tar!OpenEntry
    PROVE  TInv'
<1> DEFINE p == NextPath
<1>1. TarInput /\ TarOut /\ pc = "entry" /\ result = "running" /\ AtEntry /\ More
  BY DEF TInv, TarPlace, Tar!OpenEntry, AtEntry
<1>2. NextFile \in File /\ Begin \in Nat /\ Lead(p) \in Nat /\ Block \in Nat /\ NextSize \in Nat
  BY <1>1, NextEntry DEF Tar!ProfileAssumption
<1>3. p \in Seq(Character) /\ Tar!ValidRelativePath(p) /\ p # <<>>
  BY <1>2, FileType, EmptySeq DEF NextPath
<1>4. Tar!EntryPath = p
  BY <1>1, <1>3 DEF AtEntry, Tar!EntryPath, FieldsPath
<1>5. /\ pc' = "data" /\ r4' = [r4 EXCEPT !.name = p] /\ r5' = <<>> /\ r6' = r4.size /\ r7' = <<>>
      /\ UNCHANGED <<input, r1, r2, r3, out, result, ioFailed>>
  BY <1>3, <1>4 DEF Tar!OpenEntry
<1>6. r4' \in Fields /\ r4'.size = NextSize /\ r4'.name = p
  BY <1>1, <1>3, <1>5 DEF AtEntry, Fields
<1>7. /\ r6' \in 0 .. NextSize /\ r7' \in Seq(Nat) /\ Len(r7') = NextSize - r6'
      /\ \A i \in 1 .. Len(r7') : r7'[i] = NextFile.bytes[i]
  BY <1>1, <1>2, <1>5, EmptySeq DEF AtEntry
<1>8. r3' = Begin + Lead(p) + Block + Len(r7')
  BY <1>1, <1>2, <1>5, EmptySeq DEF AtEntry
<1>9. AtData'
  BY <1>1, <1>5, <1>6, <1>7, <1>8 DEF AtData, More, NextPath, NextFile, NextSize, Begin
<1>10. TarPlace'
  BY <1>1, <1>5, <1>9 DEF TarPlace
<1> QED
  BY <1>1, <1>5, <1>10, TarRests DEF TInv

LEMMA CopyChunkKeeps ==
    ASSUME Tar!ProfileAssumption, TInv, Tar!CopyChunk
    PROVE  TInv'
<1> DEFINE p == NextPath  d == NextFile.bytes  size == NextSize
           n == IF r6 > Buffer THEN Buffer ELSE r6  s == Tar!NextCells(n)
           c == [i \in 1 .. n |-> s[i].value]
<1>1. TarInput /\ TarOut /\ pc = "data" /\ result = "running" /\ AtData /\ More /\ r6 > 0
  BY DEF TInv, TarPlace, Tar!CopyChunk, AtData
<1>2. /\ Begin \in Nat /\ NextFile \in File /\ Lead(p) \in Nat
      /\ Start(input, Len(out) + 1) = Begin + Lead(p) + Block + size + Tar!Padding(size)
      /\ Start(input, Len(out) + 1) <= Len(Whole)
      /\ size \in Nat /\ Tar!Padding(size) \in Nat
      /\ \A i \in 1 .. size : Whole[Begin + (Lead(p) + Block + i)] = Tar!Byte(d[i])
  BY <1>1, NextEntry
<1>3. Block \in Nat \ {0} /\ Len(Whole) \in Nat /\ Buffer \in Nat \ {0}
  <2>1. Len(Whole) \in Nat
    BY <1>1, ArchiveWritten, LenProperties DEF TarInput, Whole, ArchiveIs
  <2> QED
    BY <2>1 DEF Tar!ProfileAssumption
<1>4. /\ r6 \in 0 .. size /\ r7 \in Seq(Nat) /\ Len(r7) = size - r6
      /\ \A i \in 1 .. Len(r7) : r7[i] = d[i]
      /\ r3 = Begin + Lead(p) + Block + Len(r7)
  BY <1>1 DEF AtData
<1>5. d \in Seq(Nat) /\ Len(d) = size
  BY <1>2, FileType DEF NextSize
<1> HIDE DEF p, d, size
<1>6. n \in 1 .. r6 /\ n \in Nat
  BY <1>1, <1>3, <1>4
<1> HIDE DEF n, s, c
<1>7. /\ r3 \in Nat /\ r3 + n <= Len(Whole) /\ Len(r7) \in Nat /\ r6 \in Nat
      /\ Len(r7) + n <= size
  <2>1. r6 \in Nat /\ r6 <= size /\ size \in Nat /\ Len(r7) = size - r6 /\ n \in Nat /\ n <= r6
    BY <1>2, <1>4, <1>6
  <2>2. Len(r7) \in Nat /\ Len(r7) + n <= size
    BY <2>1
  <2>3. Begin + Lead(p) + Block + size <= Len(Whole)
    <3> DEFINE m == Tar!Padding(size)
    <3>1. /\ m \in Nat /\ Start(input, Len(out) + 1) = Begin + Lead(p) + Block + size + m
          /\ Start(input, Len(out) + 1) <= Len(Whole)
      BY <1>2
    <3> HIDE DEF m
    <3> QED
      BY <1>2, <1>3, <3>1
  <2>4. r3 = Begin + Lead(p) + Block + Len(r7) /\ Begin \in Nat /\ Lead(p) \in Nat
    BY <1>2, <1>4
  <2>5. r3 \in Nat /\ r3 + n <= Len(Whole)
    BY <1>3, <2>1, <2>2, <2>3, <2>4
  <2> QED
    BY <2>1, <2>2, <2>5
<1>8. CASE ~ Tar!Readable(n)
  <2>1. Tar!Fail
    BY <1>8 DEF Tar!CopyChunk, n
  <2>2. ~ r2
    BY <1>1, <1>6, <1>7, <1>8, CellsMissing
  <2> QED
    BY <1>1, <2>1, <2>2, TarFails
<1>9. CASE Tar!Readable(n)
  <2>1. s \in Seq(Cell) /\ Len(s) = n /\ \A i \in 1 .. n : s[i] = Whole[r3 + i]
    <3>1. s = Tar!NextCells(n)
      BY DEF s
    <3> QED
      BY <1>1, <1>6, <1>7, <1>9, <3>1, CellsRead
  <2>2. \A i \in 1 .. n : s[i].value = d[Len(r7) + i] /\ d[Len(r7) + i] \in Nat
    <3> SUFFICES ASSUME NEW i \in 1 .. n
                 PROVE  s[i].value = d[Len(r7) + i] /\ d[Len(r7) + i] \in Nat
      OBVIOUS
    <3> DEFINE j == Len(r7) + i  b == Begin  q == Lead(p)  l == Len(r7)
    <3>0. j = l + i /\ b = Begin /\ q = Lead(p) /\ l = Len(r7)
      OBVIOUS
    <3> HIDE DEF j, b, q, l
    <3>1. j \in 1 .. size /\ r3 + i = b + (q + Block + j)
      <4>1. i \in Nat /\ 1 <= i /\ i <= n /\ n \in Nat
        BY <1>6
      <4>2. b \in Nat /\ q \in Nat /\ Block \in Nat /\ size \in Nat
        BY <1>2, <1>3, <3>0
      <4>3. r3 = b + q + Block + l
        BY <1>4, <3>0
      <4>4. l \in Nat /\ l + n <= size
        BY <1>7, <3>0
      <4>5. j \in 1 .. size
        BY <3>0, <4>1, <4>2, <4>4
      <4>6. r3 + i = b + (q + Block + j)
        <5>1. r3 \in Nat /\ j = l + i /\ i \in Nat /\ l \in Nat
          BY <1>7, <3>0, <4>1, <4>4
        <5> QED
          BY <4>2, <4>3, <5>1
      <4> QED
        BY <4>5, <4>6
    <3>2. s[i] = Tar!Byte(d[j])
      BY <1>2, <2>1, <3>0, <3>1
    <3>3. d[j] \in Nat
      BY <1>5, <3>1, ElementOfSeq
    <3> QED
      BY <3>0, <3>2, <3>3 DEF Tar!Byte
  <2>3. c \in Seq(Nat) /\ Len(c) = n /\ \A i \in 1 .. n : c[i] = d[Len(r7) + i]
    BY <1>6, <2>2 DEF c
  <2>4. /\ r7' = r7 \o c /\ r3' = r3 + n /\ r6' = r6 - n
        /\ UNCHANGED <<input, r1, r2, pc, r4, r5, out, result, ioFailed>>
    BY <1>9 DEF Tar!CopyChunk, n, s, c
  <2>5. /\ r7' \in Seq(Nat) /\ Len(r7') = Len(r7) + n
        /\ \A i \in 1 .. Len(r7) : r7'[i] = r7[i]
        /\ \A i \in 1 .. n : r7'[Len(r7) + i] = c[i]
    <3> DEFINE both == r7 \o c
    <3>1. IsCat(both, r7, c) /\ r7' = both
      BY <2>4 DEF IsCat
    <3> HIDE DEF both
    <3>2. r7 \in Seq(Nat) /\ c \in Seq(Nat)
      BY <1>4, <2>3
    <3>3. /\ both \in Seq(Nat) /\ Len(both) = Len(r7) + Len(c)
          /\ \A i \in 1 .. Len(r7) : both[i] = r7[i]
          /\ \A i \in 1 .. Len(c) : both[Len(r7) + i] = c[i]
      BY <3>1, <3>2, CatTwo
    <3> QED
      BY <2>3, <3>1, <3>3
  <2>6. \A i \in 1 .. Len(r7') : r7'[i] = d[i]
    <3> SUFFICES ASSUME NEW i \in 1 .. Len(r7') PROVE r7'[i] = d[i]
      OBVIOUS
    <3>1. CASE i <= Len(r7)
      BY <1>4, <1>7, <2>5, <3>1
    <3>2. CASE i > Len(r7)
      <4> DEFINE j == i - Len(r7)
      <4>1. j \in 1 .. n /\ Len(r7) + j = i
        BY <1>6, <1>7, <2>5, <3>2
      <4> HIDE DEF j
      <4> QED
        BY <2>3, <2>5, <4>1
    <3> QED
      BY <1>7, <2>5, <3>1, <3>2
  <2>7. r6' \in 0 .. size /\ Len(r7') = size - r6' /\ r3' = Begin + Lead(p) + Block + Len(r7')
    <3>1. /\ Begin \in Nat /\ Lead(p) \in Nat /\ Block \in Nat /\ size \in Nat
          /\ r3 = Begin + Lead(p) + Block + Len(r7) /\ r6 \in Nat /\ Len(r7) = size - r6
          /\ n \in Nat /\ n <= r6 /\ Len(r7) \in Nat
      BY <1>2, <1>3, <1>4, <1>6, <1>7
    <3>2. r3' = r3 + n /\ r6' = r6 - n /\ Len(r7') = Len(r7) + n
      BY <2>4, <2>5
    <3> QED
      BY <3>1, <3>2
  <2>8. AtData'
    <3>1. UNCHANGED <<NextFile, Begin, More>>
      BY <2>4 DEF NextFile, Begin, More
    <3> QED
      BY <1>1, <2>4, <2>5, <2>6, <2>7, <3>1 DEF AtData, NextPath, NextSize, p, d, size
  <2>9. TarPlace'
    BY <1>1, <2>4, <2>8 DEF TarPlace
  <2> QED
    BY <1>1, <2>4, <2>9, TarRests DEF TInv
<1> QED
  BY <1>8, <1>9

LEMMA CloseEntryKeeps ==
    ASSUME Tar!ProfileAssumption, TInv, Tar!CloseEntry
    PROVE  TInv'
<1> DEFINE p == NextPath  d == NextFile.bytes  size == NextSize  m == Tar!Padding(size)
           k == Len(out)
<1>1. TarInput /\ TarOut /\ pc = "data" /\ result = "running" /\ AtData /\ More /\ r6 = 0
  BY DEF TInv, TarPlace, Tar!CloseEntry, AtData
<1>2. /\ Begin \in Nat /\ NextFile \in File /\ Lead(p) \in Nat /\ k \in Nat
      /\ Start(input, k + 1) = Begin + Lead(p) + Block + size + m
      /\ Start(input, k + 1) <= Len(Whole) /\ size \in Nat /\ m \in Nat
  BY <1>1, NextEntry
<1>3. Block \in Nat \ {0} /\ Len(Whole) \in Nat
  <2>1. Len(Whole) \in Nat
    BY <1>1, ArchiveWritten, LenProperties DEF TarInput, Whole, ArchiveIs
  <2> QED
    BY <2>1 DEF Tar!ProfileAssumption
<1>4. /\ r7 \in Seq(Nat) /\ Len(r7) = size /\ \A i \in 1 .. Len(r7) : r7[i] = d[i]
      /\ r3 = Begin + Lead(p) + Block + size /\ r4.size = size /\ r4.name = p /\ r5 = <<>>
  BY <1>1, <1>2 DEF AtData
<1>5. d \in Seq(Nat) /\ Len(d) = size /\ NextFile = [path |-> p, bytes |-> d]
  BY <1>2, FileType DEF NextSize, NextPath
<1>6. r7 = d
  BY <1>4, <1>5, SeqEqual
<1> HIDE DEF p, d, size, m, k
<1>7. r3 \in Nat /\ r3 + m <= Len(Whole)
  BY <1>2, <1>3, <1>4
<1>8. CASE ~ Tar!Readable(m)
  <2>1. Tar!Fail
    BY <1>4, <1>8 DEF Tar!CloseEntry, m
  <2>2. ~ r2
    BY <1>1, <1>2, <1>7, <1>8, CellsMissing
  <2> QED
    BY <1>1, <2>1, <2>2, TarFails
<1>9. CASE Tar!Readable(m)
  <2>1. /\ out' = Append(out, NextFile) /\ r3' = r3 + m /\ pc' = "header"
        /\ UNCHANGED <<input, r1, r2, r4, r5, r6, r7, result, ioFailed>>
    BY <1>4, <1>5, <1>6, <1>9 DEF Tar!CloseEntry, m
  <2>2. TarInput'
    BY <1>1, <2>1 DEF TarInput, Whole
  <2>3. /\ out' \in Seq(File) /\ Len(out') = k + 1 /\ out'[k + 1] = NextFile
        /\ \A i \in 1 .. k : out'[i] = out[i]
    BY <1>1, <1>2, <2>1, AppendProperties DEF TarOut, k
  <2>4. TarOut'
    <3>1. Len(out') <= Len(input')
      BY <1>1, <1>2, <2>1, <2>3, BundleType DEF More, TarInput, k
    <3>2. \A i \in 1 .. Len(out') : out'[i] = input'[i]
      <4> SUFFICES ASSUME NEW i \in 1 .. k + 1 PROVE out'[i] = input[i]
        BY <2>1, <2>3
      <4>1. CASE i = k + 1
        BY <2>3, <4>1 DEF NextFile, k
      <4>2. CASE i # k + 1
        <5>1. i \in 1 .. k
          BY <1>2, <4>2
        <5> QED
          BY <1>1, <2>3, <5>1 DEF TarOut, k
      <4> QED
        BY <4>1, <4>2
    <3> QED
      BY <2>3, <3>1, <3>2 DEF TarOut
  <2>5. AtFirstHeader'
    <3>1. Begin' = Start(input, k + 1)
      BY <2>1, <2>3 DEF Begin
    <3>2. r3' = Start(input, k + 1)
      BY <1>2, <1>3, <1>4, <2>1
    <3> QED
      BY <1>4, <2>1, <3>1, <3>2 DEF AtFirstHeader
  <2>6. TarPlace'
    BY <1>1, <2>1, <2>5 DEF TarPlace
  <2> QED
    BY <2>2, <2>4, <2>6 DEF TInv
<1> QED
  BY <1>8, <1>9

LEMMA WalkTreeKeeps ==
    ASSUME Tar!ProfileAssumption, TInv, Tar!WalkTree
    PROVE  TInv'
<1>1. TarInput /\ TarOut /\ pc = "walk" /\ result = "running" /\ ~ More
  BY DEF TInv, TarPlace, Tar!WalkTree
<1>2. \A i \in DOMAIN out : Len(out[i].path) <= ValidatorPath /\ Tar!ValidRelativePath(out[i].path)
  <2> SUFFICES ASSUME NEW i \in DOMAIN out
               PROVE  Len(out[i].path) <= ValidatorPath /\ Tar!ValidRelativePath(out[i].path)
    OBVIOUS
  <2>1. i \in 1 .. Len(out) /\ i \in 1 .. Len(input) /\ out[i] = input[i]
    BY <1>1, BundleType, LenProperties DEF TarOut, TarInput
  <2>2. input[i] \in File /\ Tar!Representable(input[i].path)
    BY <1>1, <2>1, BundleType DEF TarInput
  <2>3. Len(input[i].path) \in Nat /\ Len(input[i].path) <= MaxDevicePath
        /\ Tar!ValidRelativePath(input[i].path)
    BY <2>2, FileType DEF Tar!Representable
  <2>4. MaxDevicePath \in Nat /\ ValidatorPath \in Nat /\ MaxDevicePath <= ValidatorPath
    BY DEF Tar!ProfileAssumption
  <2> QED
    BY <2>1, <2>3, <2>4
<1>3. result' = "ok" /\ pc' = "end" /\ UNCHANGED <<input, r1, r2, out>>
  BY <1>2 DEF Tar!WalkTree
<1>4. ~ More'
  BY <1>1, <1>3 DEF More
<1>5. TarPlace'
  BY <1>3, <1>4 DEF TarPlace, AtEnd
<1> QED
  BY <1>1, <1>3, <1>5, TarRests DEF TInv

LEMMA TarIoFails == ASSUME TInv, Tar!IoFails PROVE TInv'
<1>1. /\ UNCHANGED <<input, r1, r2, out>> /\ pc' = "end" /\ result' = "failed"
      /\ ioFailed' = TRUE
  BY DEF Tar!IoFails
<1>2. TarPlace'
  BY <1>1 DEF TarPlace, AtEnd
<1> QED
  BY <1>1, <1>2, TarRests DEF TInv

LEMMA TInvNext == ASSUME Tar!ProfileAssumption, TInv, [Tar!Next]_(Tar!vars) PROVE TInv'
<1>1. CASE UNCHANGED Tar!vars
  <2>1. UNCHANGED <<input, r1, r2, pc, r3, r4, r5, r6, r7, out, result, ioFailed>>
    BY <1>1 DEF Tar!vars
  <2>2. TarInput' /\ TarOut'
    BY <2>1, TarRests DEF TInv
  <2>3. UNCHANGED <<More, NextFile, NextPath, NextSize, Begin>>
    BY <2>1 DEF More, NextFile, NextPath, NextSize, Begin
  <2>4. TarPlace'
    BY <2>1, <2>3
       DEF TInv, TarPlace, AtFirstHeader, AtSecondHeader, AtLongName, AtEntry, AtData, AtEnd
  <2> QED
    BY <2>2, <2>4 DEF TInv
<1>2. CASE Tar!ReadHeader
  BY <1>2, ReadHeaderKeeps
<1>3. CASE Tar!ReadLongName
  BY <1>3, ReadLongNameKeeps
<1>4. CASE Tar!OpenEntry
  BY <1>4, OpenEntryKeeps
<1>5. CASE Tar!CopyChunk
  BY <1>5, CopyChunkKeeps
<1>6. CASE Tar!CloseEntry
  BY <1>6, CloseEntryKeeps
<1>7. CASE Tar!WalkTree
  BY <1>7, WalkTreeKeeps
<1>8. CASE Tar!IoFails
  BY <1>8, TarIoFails
<1> QED
  BY <1>1, <1>2, <1>3, <1>4, <1>5, <1>6, <1>7, <1>8 DEF Tar!Next

LEMMA TInvInit == ASSUME Tar!ProfileAssumption, input \in Bundles, Tar!Init PROVE TInv
<1>1. /\ pc = "header" /\ r3 = 0 /\ r5 = <<>> /\ out = <<>> /\ result = "running"
      /\ \E n \in 0 .. Len(Whole) : r1 = SubSeq(Whole, 1, n)
      /\ r2 = (r1 = Whole)
  BY DEF Tar!Init, Whole
<1>2. ArchiveIs(Whole, input)
  BY ArchiveWritten DEF Whole
<1>3. Whole \in Seq(Cell) /\ Len(Whole) \in Nat /\ Start(input, 0) = 0
  BY <1>2, LenProperties DEF ArchiveIs
<1>4. TarInput
  <2> DEFINE W == Whole
  <2>1. PICK n \in 0 .. Len(W) : r1 = SubSeq(W, 1, n)
    BY <1>1
  <2> HIDE DEF W
  <2>2. W \in Seq(Cell) /\ Len(W) \in Nat
    BY <1>3 DEF W
  <2>3. n \in Nat /\ 0 \in Nat /\ 0 + n <= Len(W) /\ r1 = SubSeq(W, 0 + 1, 0 + n)
    BY <2>1, <2>2
  <2>4. r1 \in Seq(Cell) /\ Len(r1) = n /\ \A i \in 1 .. n : r1[i] = W[0 + i]
    BY <2>2, <2>3, Window
  <2>5. Len(r1) <= Len(W) /\ \A i \in 1 .. Len(r1) : r1[i] = W[i]
    BY <2>2, <2>3, <2>4
  <2> QED
    BY <1>1, <2>4, <2>5 DEF TarInput, W
<1>5. TarOut
  BY <1>1, BundleType, EmptySeq DEF TarOut
<1>6. TarPlace
  BY <1>1, <1>3, EmptySeq DEF TarPlace, AtFirstHeader, Begin
<1> QED
  BY <1>4, <1>5, <1>6 DEF TInv

-----------------------------------------------------------------------------
(* The extraction among the native jobs                                     *)

\* A path all of whose segments have a name, by its characters.
LEMMA PathIsValid ==
    ASSUME NEW p \in Seq(Character), NEW n \in Nat, n = Len(p), n > 0,
           \A i \in 1 .. n : p[i] = "/" => i > 1 /\ p[i - 1] # "/",
           p[n] # "/"
    PROVE  p \in {q \in Seq(Character) : Tar!ValidRelativePath(q)}
<1>1. p # <<>> /\ DOMAIN p = 1 .. n
  BY EmptySeq, LenProperties
<1>2. ASSUME NEW i \in Tar!SegmentEnds(p) PROVE i > 1 /\ p[i - 1] # "/"
  BY <1>1, <1>2 DEF Tar!SegmentEnds, Tar!Slashes
<1> QED
  BY <1>1, <1>2 DEF Tar!ValidRelativePath

LEMMA PathsAreValid ==
    \A p \in BundleInputs!AllPaths : p \in {q \in Seq(Character) : Tar!ValidRelativePath(q)}
<1> SUFFICES ASSUME NEW p \in BundleInputs!AllPaths
             PROVE  p \in {q \in Seq(Character) : Tar!ValidRelativePath(q)}
  OBVIOUS
<1>1. p \in Seq(Character)
  <2> DEFINE C == Character
  <2>1. {"/", "a", "b", "c", "d", "e", "f", "g", "h"} \subseteq C
    BY DEF Character
  <2> HIDE DEF C
  <2>2. BundleInputs!AllPaths \subseteq Seq(C)
    BY <2>1 DEF BundleInputs!AllPaths
  <2> QED
    BY <2>2 DEF C
<1>2. Len(p) \in 1 .. 9
  BY DEF BundleInputs!AllPaths
<1>3. p[Len(p)] # "/"
  <2>1. Len(p) = 1 => p[1] # "/"
    BY DEF BundleInputs!AllPaths
  <2>2. Len(p) = 2 => p[2] # "/"
    BY DEF BundleInputs!AllPaths
  <2>3. Len(p) = 3 => p[3] # "/"
    BY DEF BundleInputs!AllPaths
  <2>4. Len(p) = 4 => p[4] # "/"
    BY DEF BundleInputs!AllPaths
  <2>5. Len(p) = 5 => p[5] # "/"
    BY DEF BundleInputs!AllPaths
  <2>6. Len(p) = 6 => p[6] # "/"
    BY DEF BundleInputs!AllPaths
  <2>7. Len(p) = 7 => p[7] # "/"
    BY DEF BundleInputs!AllPaths
  <2>8. Len(p) = 8 => p[8] # "/"
    BY DEF BundleInputs!AllPaths
  <2>9. Len(p) = 9 => p[9] # "/"
    BY DEF BundleInputs!AllPaths
  <2> QED
    BY <1>2, <2>1, <2>2, <2>3, <2>4, <2>5, <2>6, <2>7, <2>8, <2>9
<1>4. \A i \in 1 .. Len(p) : p[i] = "/" => i > 1 /\ p[i - 1] # "/"
  BY DEF BundleInputs!AllPaths
<1> QED
  BY <1>1, <1>2, <1>3, <1>4, PathIsValid

\* The bundles that are checked consist of such files as the theorem speaks of.
LEMMA InputsAreFiles == BundleInputs!AllBundles \subseteq Seq(File)
<1> DEFINE P == BundleInputs!AllPaths  C == BundleInputs!Contents  F(p, b) == BundleInputs!File(p, b)
<1>1. C \subseteq Seq(Nat)
  BY DEF BundleInputs!Contents
<1>2. \A p \in P, b \in Seq(Nat) : F(p, b) \in File
  BY PathsAreValid DEF BundleInputs!File, File
<1>3. <<1, 2, 3, 4>> \in Seq(Nat) /\ <<5>> \in Seq(Nat)
  OBVIOUS
<1> SUFFICES ASSUME NEW s \in BundleInputs!AllBundles PROVE s \in Seq(File)
  OBVIOUS
<1>4. \/ s = <<>>
      \/ \E p \in P, b \in C : s = <<F(p, b)>>
      \/ \E p, q \in P : s = <<F(p, <<1, 2, 3, 4>>), F(q, <<5>>)>>
  BY DEF BundleInputs!AllBundles
<1>5. CASE s = <<>>
  BY <1>5
<1> HIDE DEF P, C, F
<1>6. CASE \E p \in P, b \in C : s = <<F(p, b)>>
  <2>1. PICK x \in File : s = <<x>>
    BY <1>1, <1>2, <1>6
  <2> QED
    BY <2>1
<1>7. CASE \E p, q \in P : s = <<F(p, <<1, 2, 3, 4>>), F(q, <<5>>)>>
  <2>1. PICK x, y \in File : s = <<x, y>>
    BY <1>2, <1>3, <1>7
  <2> QED
    BY <2>1
<1> QED
  BY <1>4, <1>5, <1>6, <1>7

TarInv == kind = "tar" => TInv

LEMMA TarHolds == ASSUME Tar!ProfileAssumption PROVE Spec => []TarInv
<1>1. Init => TarInv
  <2> SUFFICES ASSUME Init, kind = "tar" PROVE TInv
    BY DEF TarInv
  <2>1. input \in Bundles /\ Tar!Init
    BY InputsAreFiles DEF Init, Tar!Init, Bundles
  <2> QED
    BY <2>1, TInvInit, Tar!ProfileAssumption
<1>2. TarInv /\ [Next]_vars => TarInv'
  <2> SUFFICES ASSUME TarInv, [Next]_vars, kind' = "tar" PROVE TInv'
    BY DEF TarInv
  <2>1. kind = "tar" /\ TInv
    BY DEF TarInv, Next, vars
  <2>2. [Tar!Next]_(Tar!vars)
    BY <2>1 DEF Next, vars, Tar!vars
  <2> QED
    BY <2>1, <2>2, TInvNext, Tar!ProfileAssumption
<1> QED
  BY <1>1, <1>2, PTL DEF Spec

\* The device's extractor takes every archive that the server's writer makes of files it
\* accepts (materializeBundleArchive.ts, codemagic_patch_extract_tar_file): long names,
\* split paths and padding are read where they were written.
THEOREM AcceptedBundlesInstall ==
    ASSUME Tar!ProfileAssumption
    PROVE  Spec => []AcceptedBundleInstalls
<1>1. TarInv => AcceptedBundleInstalls
  BY DEF TarInv, TInv, TarPlace, AtEnd, AcceptedBundleInstalls, Tar!AcceptedBundleInstalls
<1> QED
  BY <1>1, TarHolds, PTL

-----------------------------------------------------------------------------
(* Numbers: the powers of two                                               *)

LEMMA PowZero == 2 ^ 0 = 1
<1>1. 2 ^ Cardinality({}) = Cardinality(SUBSET {})
  BY FS_SUBSET, FS_EmptySet
<1>2. Cardinality({}) = 0 /\ SUBSET {} = {{}} /\ Cardinality({{}}) = 1
  BY FS_EmptySet, FS_Singleton
<1> QED
  BY <1>1, <1>2

\* A set of n + 1 numbers has twice the subsets of one of n.
LEMMA PowNext == ASSUME NEW n \in Nat PROVE 2 ^ n \in Nat /\ 2 ^ (n + 1) = 2 * 2 ^ n
<1> DEFINE x == n + 1  S == 1 .. n  T == 1 .. x  A == SUBSET S  B == {U \cup {x} : U \in A}
<1>1. IsFiniteSet(S) /\ Cardinality(S) = n /\ IsFiniteSet(T) /\ Cardinality(T) = n + 1
  <2>1. 1 \in Int /\ n \in Int /\ x \in Int /\ ~(1 > x) /\ x - 1 + 1 = n + 1
        /\ (IF 1 > n THEN 0 ELSE n - 1 + 1) = n
    OBVIOUS
  <2> QED
    BY <2>1, FS_Interval
<1>2. T = S \cup {x} /\ x \notin S
  OBVIOUS
<1>3. /\ IsFiniteSet(A) /\ Cardinality(A) = 2 ^ n /\ Cardinality(A) \in Nat
      /\ Cardinality(SUBSET T) = 2 ^ (n + 1)
  BY <1>1, FS_SUBSET, FS_CardinalityType
<1> HIDE DEF x, S, T
<1>4. ExistsBijection(A, B)
  <2> DEFINE f == [U \in A |-> U \cup {x}]
  <2>1. f \in [A -> B]
    OBVIOUS
  <2>2. \A U, W \in A : f[U] = f[W] => U = W
    <3> SUFFICES ASSUME NEW U \in A, NEW W \in A, f[U] = f[W] PROVE U = W
      OBVIOUS
    <3>1. U \cup {x} = W \cup {x} /\ x \notin U /\ x \notin W
      BY <1>2
    <3> QED
      BY <3>1
  <2>3. \A y \in B : \E U \in A : f[U] = y
    OBVIOUS
  <2>4. DOMAIN f = A
    OBVIOUS
  <2> HIDE DEF f, A, B
  <2>5. f \in Injection(A, B)
    BY <2>1, <2>2, <2>4 DEF Injection, IsInjective
  <2>6. f \in Surjection(A, B)
    BY <2>1, <2>3 DEF Surjection
  <2> QED
    BY <2>5, <2>6 DEF ExistsBijection, Bijection
<1>5. IsFiniteSet(B) /\ Cardinality(B) = Cardinality(A)
  BY <1>3, <1>4, FS_Bijection
<1>6. A \cap B = {} /\ A \cup B = SUBSET T
  <2>1. \A W \in SUBSET T : W \in A \/ W \in B
    <3> SUFFICES ASSUME NEW W \in SUBSET T, W \notin A PROVE W \in B
      OBVIOUS
    <3>1. x \in W /\ W \ {x} \in A /\ W = (W \ {x}) \cup {x}
      BY <1>2
    <3> QED
      BY <3>1
  <2> QED
    BY <1>2, <2>1
<1>7. Cardinality(A \cup B) = Cardinality(A) + Cardinality(B) - Cardinality(A \cap B)
  BY <1>3, <1>5, FS_Union
<1>8. Cardinality(A \cap B) = 0
  BY <1>6, FS_EmptySet
<1> DEFINE c == Cardinality(A)
<1>9. c \in Nat /\ 2 ^ n = c /\ 2 ^ (n + 1) = c + c - 0
  BY <1>3, <1>5, <1>6, <1>7, <1>8
<1> HIDE DEF c
<1> QED
  BY <1>9

LEMMA PowType == ASSUME NEW n \in Nat PROVE 2 ^ n \in Nat \ {0}
<1> DEFINE G == {k \in Nat : 2 ^ k \in Nat \ {0}}
<1>1. 0 \in G
  BY PowZero
<1>2. \A k \in 0 .. n - 1 : k \in G => k + 1 \in G
  BY PowNext
<1> HIDE DEF G
<1>3. n \in G
  BY <1>1, <1>2, Dir!Reaches
<1> QED
  BY <1>3 DEF G

LEMMA PowSum == ASSUME NEW a \in Nat, NEW b \in Nat PROVE 2 ^ (a + b) = 2 ^ a * 2 ^ b
<1> DEFINE G == {k \in Nat : 2 ^ (a + k) = 2 ^ a * 2 ^ k}
<1>1. 0 \in G
  <2>1. 2 ^ a \in Nat /\ a + 0 = a
    BY PowType
  <2> QED
    BY <2>1, PowZero
<1>2. ASSUME NEW k \in 0 .. b - 1, k \in G PROVE k + 1 \in G
  <2>1. k \in Nat /\ a + k \in Nat /\ a + (k + 1) = (a + k) + 1
    OBVIOUS
  <2>2. 2 ^ ((a + k) + 1) = 2 * 2 ^ (a + k) /\ 2 ^ (k + 1) = 2 * 2 ^ k
    BY <2>1, PowNext
  <2> DEFINE p == 2 ^ a  q == 2 ^ k
  <2>3. p \in Nat /\ q \in Nat /\ 2 ^ (a + k) = p * q
    BY <1>2, <2>1, PowType
  <2>4. 2 ^ (a + (k + 1)) = 2 * (p * q) /\ 2 ^ (k + 1) = 2 * q
    BY <2>1, <2>2, <2>3
  <2> HIDE DEF p, q
  <2>5. 2 * (p * q) = p * (2 * q)
    BY <2>3
  <2> QED
    BY <2>1, <2>4, <2>5 DEF p
<1> HIDE DEF G
<1>3. b \in G
  BY <1>1, <1>2, Dir!Reaches
<1> QED
  BY <1>3 DEF G

-----------------------------------------------------------------------------
(* Numbers: division, and the machine's sizes                               *)

LEMMA QuotientIs ==
    ASSUME NEW r \in Nat \ {0}, NEW q \in Nat, NEW k \in 0 .. r - 1, NEW v, v = q * r + k
    PROVE  v \in Nat /\ v \div r = q /\ v % r = k
OBVIOUS

LEMMA Parts ==
    ASSUME NEW r \in Nat \ {0}, NEW v \in Nat
    PROVE  v \div r \in Nat /\ v % r \in 0 .. r - 1 /\ v = (v \div r) * r + (v % r)
OBVIOUS

\* What r goes into b times at most is below b * r.
LEMMA QuotientBelow ==
    ASSUME NEW r \in Nat \ {0}, NEW v \in Nat, NEW b \in Nat
    PROVE  v \div r < b <=> v < b * r
<1> DEFINE q == v \div r  k == v % r
<1>1. q \in Nat /\ k \in 0 .. r - 1 /\ v = q * r + k
  BY Parts
<1> HIDE DEF q, k
<1>2. CASE q < b
  <2>1. (q + 1) * r <= b * r
    BY <1>1, <1>2
  <2> QED
    BY <1>1, <1>2, <2>1 DEF q
<1>3. CASE ~ (q < b)
  <2>1. b * r <= q * r
    BY <1>1, <1>3
  <2> QED
    BY <1>1, <1>3, <2>1 DEF q
<1> QED
  BY <1>2, <1>3

LEMMA QuotientLess ==
    ASSUME NEW r \in Nat, r > 1, NEW v \in Nat, v > 0
    PROVE  v \div r \in Nat /\ v \div r < v
OBVIOUS

LEMMA QuotientSmall ==
    ASSUME NEW r \in Nat \ {0}, NEW v \in Nat
    PROVE  v \div r \in Nat /\ v \div r <= v
OBVIOUS

LEMMA PowOrder == ASSUME NEW a \in Nat, NEW b \in Nat, a <= b PROVE 2 ^ a <= 2 ^ b
<1> DEFINE d == b - a  p == 2 ^ a  q == 2 ^ d
<1>1. d \in Nat /\ a + d = b
  OBVIOUS
<1>2. p \in Nat \ {0} /\ q \in Nat \ {0} /\ 2 ^ b = p * q
  BY <1>1, PowType, PowSum
<1> HIDE DEF p, q
<1>3. p <= p * q
  BY <1>2
<1> QED
  BY <1>2, <1>3 DEF p

NumberAssumption == Number!ByteBitsAssumption /\ Number!UIntBitsAssumption

\* What the first byte's part of a value is below, with t bits of the byte for a tag.
Flag(t) == 2 ^ (NumberByteBits - 1 - t)
Least == 2 ^ (NumberUIntBits - (NumberByteBits - 1))

LEMMA Sizes ==
    ASSUME NumberAssumption, NEW t \in 0 .. 2
    PROVE  /\ Number!Radix \in Nat /\ Number!Radix >= 4
           /\ Flag(t) \in Nat /\ 1 <= Flag(t) /\ Flag(t) <= Number!Radix
           /\ 2 ^ (NumberByteBits - t) = 2 * Flag(t) /\ Flag(t) * 2 ^ t = Number!Radix
           /\ Least \in Nat \ {0} /\ 2 ^ NumberUIntBits = Least * Number!Radix
           /\ Number!Radix <= Least * Number!Radix
<1> DEFINE b == NumberByteBits - 1  c == NumberByteBits - 1 - t
           d == NumberUIntBits - (NumberByteBits - 1)
<1>1. /\ NumberByteBits \in Nat /\ NumberUIntBits \in Nat
      /\ b \in Nat /\ c \in Nat /\ d \in Nat /\ c <= b /\ 2 <= b
      /\ NumberByteBits - t = c + 1 /\ c + t = b /\ d + b = NumberUIntBits
      /\ b = NumberByteBits - 1 /\ t \in Nat
  BY DEF NumberAssumption, Number!ByteBitsAssumption, Number!UIntBitsAssumption
<1>2. Number!Radix = 2 ^ b /\ Flag(t) = 2 ^ c /\ Least = 2 ^ d
  BY DEF Number!Radix, Flag, Least
<1> HIDE DEF b, c, d
<1>3. 2 ^ b \in Nat \ {0} /\ 2 ^ c \in Nat \ {0} /\ 2 ^ d \in Nat \ {0} /\ 2 ^ t \in Nat \ {0}
  BY <1>1, PowType
<1>4. 2 ^ 2 = 4
  <2>1. 0 \in Nat /\ 1 \in Nat /\ 0 + 1 = 1 /\ 1 + 1 = 2
    OBVIOUS
  <2>2. 2 ^ (0 + 1) = 2 * 2 ^ 0 /\ 2 ^ (1 + 1) = 2 * 2 ^ 1
    BY <2>1, PowNext
  <2> QED
    BY <2>1, <2>2, PowZero
<1>5. 4 <= 2 ^ b /\ 2 ^ c <= 2 ^ b
  BY <1>1, <1>4, PowOrder
<1>6. 2 ^ (c + 1) = 2 * 2 ^ c /\ 2 ^ (c + t) = 2 ^ c * 2 ^ t /\ 2 ^ (d + b) = 2 ^ d * 2 ^ b
  BY <1>1, PowNext, PowSum
<1>7. 2 ^ b <= 2 ^ d * 2 ^ b
  <2> DEFINE p == 2 ^ d  q == 2 ^ b
  <2>1. p \in Nat \ {0} /\ q \in Nat
    BY <1>3
  <2> HIDE DEF p, q
  <2>2. q <= p * q
    BY <2>1
  <2> QED
    BY <2>2 DEF p, q
<1>8. Number!Radix \in Nat /\ Number!Radix >= 4 /\ Least \in Nat \ {0}
  BY <1>2, <1>3, <1>5
<1>9. Flag(t) \in Nat /\ 1 <= Flag(t) /\ Flag(t) <= Number!Radix
  BY <1>2, <1>3, <1>5
<1>10. 2 ^ (NumberByteBits - t) = 2 * Flag(t) /\ Flag(t) * 2 ^ t = Number!Radix
  BY <1>1, <1>2, <1>6
<1>11. 2 ^ NumberUIntBits = Least * Number!Radix
  BY <1>1, <1>2, <1>6
<1> QED
  BY <1>2, <1>7, <1>8, <1>9, <1>10, <1>11

-----------------------------------------------------------------------------
(* Numbers: functions defined by recursion                                  *)

\* What f says of x: a value of its own, or one made of f's for an earlier argument.
Says(f, x, stop, base, before, step) ==
    IF x \in stop THEN base[x] ELSE step[<<f[before[x]], x>>]

\* The argument before another one has a smaller rank.
Descends(D, V, rank, stop, base, before, step) ==
    /\ rank \in [D -> Nat] /\ base \in [D -> V]
    /\ before \in [D -> D] /\ step \in [V \X D -> V]
    /\ \A x \in D : x \notin stop => rank[before[x]] < rank[x]

\* f is as the recursion says for the arguments of rank n at most.
Agrees(f, n, rank, stop, base, before, step) ==
    \A x \in DOMAIN rank :
        rank[x] <= n => f[x] = Says(f, x, stop, base, before, step)

\* What holds of an argument when it holds of those of smaller ranks holds of all.
LEMMA RankInduction ==
    ASSUME NEW D, NEW rank \in [D -> Nat], NEW G,
           \A x \in D : (\A y \in D : rank[y] < rank[x] => y \in G) => x \in G
    PROVE  \A x \in D : x \in G
<1> DEFINE B == {k \in Nat : \E x \in D : rank[x] = k /\ x \notin G}
<1> SUFFICES ASSUME B # {} PROVE FALSE
  <2> SUFFICES ASSUME NEW x \in D, x \notin G PROVE rank[x] \in B
    OBVIOUS
  <2> QED
    OBVIOUS
<1>1. PICK k \in B : \A i \in B : k <= i
  <2>1. B \subseteq Nat
    OBVIOUS
  <2> HIDE DEF B
  <2> QED
    BY <2>1, Dir!LeastOf
<1>2. PICK x \in D : rank[x] = k /\ x \notin G
  BY <1>1
<1>3. ASSUME NEW y \in D, rank[y] < rank[x] PROVE y \in G
  BY <1>1, <1>2, <1>3
<1> QED
  BY <1>2, <1>3

LEMMA RecursionAgrees ==
    ASSUME NEW D, NEW V, NEW rank, NEW stop, NEW base, NEW before, NEW step,
           Descends(D, V, rank, stop, base, before, step),
           NEW n \in Nat
    PROVE  \E f \in [D -> V] : Agrees(f, n, rank, stop, base, before, step)
<1> DEFINE A(f, k) == Agrees(f, k, rank, stop, base, before, step)
           S(f, x) == Says(f, x, stop, base, before, step)
           G == {k \in Nat : \E f \in [D -> V] : A(f, k)}
<1> USE DEF Descends
<1>1. \A f \in [D -> V], x \in D : S(f, x) \in V
  BY DEF Says
<1>2. 0 \in G
  <2>1. \A x \in D : rank[x] <= 0 => x \in stop
    OBVIOUS
  <2>2. A(base, 0)
    BY <2>1 DEF Agrees, Says
  <2> QED
    BY <2>2
<1>3. ASSUME NEW k \in 0 .. n - 1, k \in G PROVE k + 1 \in G
  <2>1. PICK f \in [D -> V] : A(f, k)
    BY <1>3
  <2> DEFINE g == [x \in D |-> S(f, x)]
  <2>2. g \in [D -> V]
    BY <1>1
  <2>3. ASSUME NEW x \in D, rank[x] <= k + 1 PROVE g[x] = S(g, x)
    <3>1. CASE x \in stop
      BY <3>1 DEF Says
    <3>2. CASE x \notin stop
      <4>1. before[x] \in D /\ rank[before[x]] <= k
        BY <2>3, <3>2
      <4>2. f[before[x]] = S(f, before[x])
        BY <2>1, <4>1 DEF Agrees
      <4>3. g[before[x]] = f[before[x]]
        BY <4>1, <4>2
      <4> QED
        BY <3>2, <4>3 DEF Says
    <3> QED
      BY <3>1, <3>2
  <2> HIDE DEF g
  <2>4. A(g, k + 1)
    BY <2>3 DEF Agrees
  <2> QED
    BY <2>2, <2>4
<1> HIDE DEF G
<1>4. \A k \in 0 .. n - 1 : k \in G => k + 1 \in G
  BY <1>3
<1>5. \A k \in 0 .. n : k \in G
  BY <1>2, <1>4, Dir!Reaches
<1>6. n \in G
  BY <1>5
<1> QED
  BY <1>6 DEF G

LEMMA RecursionUnique ==
    ASSUME NEW D, NEW V, NEW rank, NEW stop, NEW base, NEW before, NEW step,
           Descends(D, V, rank, stop, base, before, step),
           NEW n \in Nat, NEW f, NEW g,
           Agrees(f, n, rank, stop, base, before, step),
           Agrees(g, n, rank, stop, base, before, step)
    PROVE  \A x \in D : rank[x] <= n => f[x] = g[x]
<1> USE DEF Descends
<1> DEFINE B == {k \in 0 .. n : \E x \in D : rank[x] = k /\ f[x] # g[x]}
<1> SUFFICES ASSUME B # {} PROVE FALSE
  <2> SUFFICES ASSUME NEW x \in D, rank[x] <= n, f[x] # g[x] PROVE rank[x] \in B
    OBVIOUS
  <2> QED
    OBVIOUS
<1>1. PICK k \in B : \A i \in B : k <= i
  <2>1. B \subseteq Nat
    OBVIOUS
  <2> HIDE DEF B
  <2> QED
    BY <2>1, Dir!LeastOf
<1>2. PICK x \in D : rank[x] = k /\ f[x] # g[x]
  BY <1>1
<1>3. f[x] = Says(f, x, stop, base, before, step) /\ g[x] = Says(g, x, stop, base, before, step)
  BY <1>1, <1>2 DEF Agrees
<1>4. x \notin stop
  BY <1>2, <1>3 DEF Says
<1>5. before[x] \in D /\ rank[before[x]] < k /\ f[before[x]] = g[before[x]]
  BY <1>1, <1>2, <1>4
<1> QED
  BY <1>2, <1>3, <1>4, <1>5 DEF Says

\* There is a function as the recursion says, when ranks descend.
LEMMA RecursionExists ==
    ASSUME NEW D, NEW V, NEW rank, NEW stop, NEW base, NEW before, NEW step,
           Descends(D, V, rank, stop, base, before, step)
    PROVE  \E f \in [D -> V] : \A x \in D : f[x] = Says(f, x, stop, base, before, step)
<1> DEFINE A(f, k) == Agrees(f, k, rank, stop, base, before, step)
           S(f, x) == Says(f, x, stop, base, before, step)
           c(k) == CHOOSE f \in [D -> V] : A(f, k)
           h == [x \in D |-> c(rank[x])[x]]
<1>0. /\ rank \in [D -> Nat] /\ before \in [D -> D]
      /\ \A x \in D : x \notin stop => rank[before[x]] < rank[x]
  BY DEF Descends
<1>1. \A k \in Nat : c(k) \in [D -> V] /\ A(c(k), k)
  <2> SUFFICES ASSUME NEW k \in Nat PROVE c(k) \in [D -> V] /\ A(c(k), k)
    OBVIOUS
  <2>1. \E f \in [D -> V] : A(f, k)
    BY RecursionAgrees
  <2> QED
    BY <2>1
<1> HIDE DEF c
<1>2. h \in [D -> V]
  BY <1>0, <1>1
<1>3. ASSUME NEW x \in D PROVE h[x] = S(h, x)
  <2> DEFINE k == rank[x]
  <2>1. k \in Nat /\ h[x] = c(k)[x] /\ c(k)[x] = S(c(k), x)
    BY <1>0, <1>1 DEF Agrees
  <2>2. CASE x \in stop
    BY <2>1, <2>2 DEF Says
  <2>3. CASE x \notin stop
    <3> DEFINE y == before[x]  j == rank[y]
    <3>1. y \in D /\ j \in Nat /\ j < k
      BY <1>0, <2>3
    <3>2. A(c(k), j) /\ A(c(j), j)
      BY <1>0, <1>1, <2>1, <3>1 DEF Agrees
    <3> DEFINE u == c(k)  w == c(j)
    <3>3. A(u, j) /\ A(w, j)
      BY <3>2
    <3> HIDE DEF u, w, j
    <3>4. u[y] = w[y]
      <4>1. \A z \in D : rank[z] <= j => u[z] = w[z]
        BY <3>1, <3>3, RecursionUnique
      <4> QED
        BY <3>1, <4>1 DEF j
    <3>5. h[y] = c(k)[y]
      <4>1. h[y] = c(j)[y]
        BY <3>1 DEF j
      <4> QED
        BY <3>4, <4>1 DEF u, w
    <3> QED
      BY <2>1, <2>3, <3>5 DEF Says
  <2> QED
    BY <2>2, <2>3
<1> QED
  BY <1>2, <1>3

-----------------------------------------------------------------------------
(* Numbers: the groups of a value                                           *)

\* The groups of radix r of each value, the first one below f.
GroupsFrom(g, r, f) ==
    [v \in Nat |-> IF v < f THEN <<v>> ELSE Append(g[v \div r], v % r)]
GroupsOf(r, f) == CHOOSE g : g = GroupsFrom(g, r, f)

LEMMA GroupsExist ==
    ASSUME NEW r \in Nat \ {0}, r > 1, NEW f \in Nat \ {0}
    PROVE  \E g \in [Nat -> Seq(Nat)] : g = GroupsFrom(g, r, f)
<1> DEFINE stop == {v \in Nat : v < f}
           rank == [v \in Nat |-> v]  base == [v \in Nat |-> <<v>>]
           before == [v \in Nat |-> v \div r]
           step == [x \in Seq(Nat) \X Nat |-> Append(x[1], x[2] % r)]
<1>1. rank \in [Nat -> Nat] /\ base \in [Nat -> Seq(Nat)] /\ before \in [Nat -> Nat]
  OBVIOUS
<1>2. step \in [Seq(Nat) \X Nat -> Seq(Nat)]
  <2>1. ASSUME NEW x \in Seq(Nat) \X Nat PROVE Append(x[1], x[2] % r) \in Seq(Nat)
    <3>1. x[1] \in Seq(Nat) /\ x[2] % r \in Nat
      OBVIOUS
    <3> QED
      BY <3>1, AppendProperties
  <2> QED
    BY <2>1
<1>3. \A v \in Nat : v \notin stop => rank[before[v]] < rank[v]
  <2> SUFFICES ASSUME NEW v \in Nat, v \notin stop PROVE rank[before[v]] < rank[v]
    OBVIOUS
  <2>1. v > 0
    OBVIOUS
  <2> QED
    BY <2>1, QuotientLess
<1>4. Descends(Nat, Seq(Nat), rank, stop, base, before, step)
  BY <1>1, <1>2, <1>3 DEF Descends
<1> HIDE DEF stop, rank, base, before, step
<1>5. PICK g \in [Nat -> Seq(Nat)] :
         \A v \in Nat : g[v] = Says(g, v, stop, base, before, step)
  BY <1>4, RecursionExists
<1>6. ASSUME NEW v \in Nat
      PROVE  g[v] = IF v < f THEN <<v>> ELSE Append(g[v \div r], v % r)
  <2>1. v \div r \in Nat
    BY Parts
  <2>2. g[v \div r] \in Seq(Nat)
    BY <2>1
  <2>3. g[v] = Says(g, v, stop, base, before, step)
    BY <1>5
  <2> QED
    BY <2>1, <2>2, <2>3 DEF Says, stop, base, before, step
<1>7. g = GroupsFrom(g, r, f)
  BY <1>6 DEF GroupsFrom
<1> QED
  BY <1>7

LEMMA GroupsOfAre ==
    ASSUME NEW r \in Nat \ {0}, r > 1, NEW f \in Nat \ {0},
           NEW g, g = GroupsOf(r, f), NEW v \in Nat
    PROVE  /\ g[v] \in Seq(Nat)
           /\ g[v] = IF v < f THEN <<v>> ELSE Append(g[v \div r], v % r)
<1>1. g = GroupsFrom(g, r, f)
  BY GroupsExist DEF GroupsOf
<1>2. \A n \in Nat : g[n] = IF n < f THEN <<n>> ELSE Append(g[n \div r], n % r)
  BY <1>1 DEF GroupsFrom
<1>3. \A n \in Nat : g[n] \in Seq(Nat)
  <2> DEFINE B == {n \in Nat : g[n] \notin Seq(Nat)}
  <2> SUFFICES ASSUME B # {} PROVE FALSE
    OBVIOUS
  <2>1. PICK m \in B : \A k \in B : m <= k
    <3>1. B \subseteq Nat
      OBVIOUS
    <3> HIDE DEF B
    <3> QED
      BY <3>1, Dir!LeastOf
  <2>2. m \in Nat /\ g[m] \notin Seq(Nat) /\ \A k \in Nat : g[k] \notin Seq(Nat) => m <= k
    BY <2>1
  <2> HIDE DEF B
  <2>3. g[m] = IF m < f THEN <<m>> ELSE Append(g[m \div r], m % r)
    BY <1>2, <2>2
  <2>4. CASE m < f
    BY <2>2, <2>3, <2>4
  <2>5. CASE ~ (m < f)
    <3>1. m > 0
      BY <2>2, <2>5
    <3> DEFINE q == m \div r  k == m % r
    <3>2. q \in Nat /\ q < m
      BY <2>2, <3>1, QuotientLess
    <3>3. k \in Nat
      BY <2>2, Parts
    <3>4. g[m] = Append(g[q], k)
      BY <2>3, <2>5
    <3> HIDE DEF q, k
    <3>5. g[q] \in Seq(Nat)
      BY <2>2, <3>2
    <3> QED
      BY <2>2, <3>3, <3>4, <3>5, AppendProperties
  <2> QED
    BY <2>4, <2>5
<1> QED
  BY <1>2, <1>3

\* The number of groups, counted as they are made.
SizeFrom(s, r, f) == [v \in Nat |-> IF v < f THEN 1 ELSE 1 + s[v \div r]]
SizeOf(r, f) == CHOOSE s : s = SizeFrom(s, r, f)

LEMMA SizeOfIs ==
    ASSUME NEW r \in Nat \ {0}, r > 1, NEW f \in Nat \ {0}, NEW v \in Nat
    PROVE  SizeOf(r, f)[v] = Len(GroupsOf(r, f)[v])
<1> DEFINE g == GroupsOf(r, f)  l == [n \in Nat |-> Len(g[n])]  s == SizeOf(r, f)
<1>1. ASSUME NEW n \in Nat
      PROVE  /\ l[n] = IF n < f THEN 1 ELSE 1 + l[n \div r]
             /\ ~ (n < f) => n \div r \in Nat /\ n \div r < n
  <2> HIDE DEF g
  <2>1. g[n] = IF n < f THEN <<n>> ELSE Append(g[n \div r], n % r)
    BY GroupsOfAre DEF g
  <2>2. CASE n < f
    BY <2>1, <2>2
  <2>3. CASE ~ (n < f)
    <3> DEFINE q == n \div r  k == n % r
    <3>1. n > 0
      BY <2>3
    <3>2. q \in Nat /\ q < n
      BY <3>1, QuotientLess
    <3>3. k \in Nat
      BY Parts
    <3>4. g[n] = Append(g[q], k)
      BY <2>1, <2>3
    <3> HIDE DEF q, k
    <3>5. g[q] \in Seq(Nat) /\ Len(g[q]) \in Nat
      BY <3>2, GroupsOfAre, LenProperties DEF g
    <3>6. Len(g[n]) = Len(g[q]) + 1
      BY <3>3, <3>4, <3>5, AppendProperties
    <3>7. l[n] = 1 + l[q]
      BY <3>2, <3>5, <3>6
    <3> QED
      BY <2>3, <3>2, <3>7 DEF q
  <2> QED
    BY <2>2, <2>3
<1>2. l = SizeFrom(l, r, f)
  BY <1>1 DEF SizeFrom
<1>3. s = SizeFrom(s, r, f)
  <2> HIDE DEF l
  <2> QED
    BY <1>2 DEF SizeOf
<1> HIDE DEF s, l
<1>4. \A n \in Nat : s[n] = IF n < f THEN 1 ELSE 1 + s[n \div r]
  BY <1>3 DEF SizeFrom
<1>5. s[v] = l[v]
  <2> DEFINE B == {n \in Nat : s[n] # l[n]}
  <2> SUFFICES ASSUME B # {} PROVE FALSE
    OBVIOUS
  <2>1. PICK m \in B : \A k \in B : m <= k
    <3>1. B \subseteq Nat
      OBVIOUS
    <3> HIDE DEF B
    <3> QED
      BY <3>1, Dir!LeastOf
  <2>2. m \in Nat /\ s[m] # l[m] /\ \A k \in Nat : k < m => s[k] = l[k]
    BY <2>1
  <2> HIDE DEF B
  <2> QED
    BY <1>1, <1>4, <2>2
<1> QED
  BY <1>5 DEF l, s

LEMMA GroupsAre ==
    ASSUME NumberAssumption, NEW t \in 0 .. 2, NEW v \in Nat
    PROVE  /\ Number!Groups(v, t) \in Seq(Nat)
           /\ v < Flag(t) => Number!Groups(v, t) = <<v>>
           /\ v >= Flag(t) => Number!Groups(v, t)
                  = Append(Number!Groups(v \div Number!Radix, t), v % Number!Radix)
<1> DEFINE r == Number!Radix  f == Flag(t)  g == GroupsOf(r, f)
<1>1. r \in Nat \ {0} /\ r > 1 /\ f \in Nat \ {0}
  <2>1. Number!Radix \in Nat /\ Number!Radix >= 4 /\ Flag(t) \in Nat /\ 1 <= Flag(t)
    BY Sizes
  <2> QED
    BY <2>1
<1>2. \A n : Number!Groups(n, t) = g[n]
  BY DEF Number!Groups, GroupsOf, GroupsFrom, Flag
<1> HIDE DEF r, f
<1>3. g[v] \in Seq(Nat) /\ g[v] = IF v < f THEN <<v>> ELSE Append(g[v \div r], v % r)
  BY <1>1, GroupsOfAre
<1>4. v < f <=> ~ (v >= f)
  BY <1>1
<1> HIDE DEF g
<1> QED
  BY <1>2, <1>3, <1>4 DEF r, f

LEMMA OneGroup ==
    ASSUME NumberAssumption, NEW t \in 0 .. 2, NEW v \in Nat, v < Flag(t)
    PROVE  /\ Number!Groups(v, t) \in Seq(Nat)
           /\ Len(Number!Groups(v, t)) = 1 /\ Number!Groups(v, t)[1] = v
<1>1. Number!Groups(v, t) = <<v>>
  BY GroupsAre
<1> QED
  BY <1>1

\* The last group is a remainder, the others are those of the quotient.
LEMMA MoreGroups ==
    ASSUME NumberAssumption, NEW t \in 0 .. 2, NEW v \in Nat, ~ (v < Flag(t)),
           NEW q, q = v \div Number!Radix
    PROVE  /\ v > 0 /\ q \in Nat /\ q < v
           /\ Number!Groups(v, t) \in Seq(Nat) /\ Number!Groups(q, t) \in Seq(Nat)
           /\ Len(Number!Groups(q, t)) \in Nat
           /\ Len(Number!Groups(v, t)) = Len(Number!Groups(q, t)) + 1
           /\ Number!Groups(v, t)[Len(Number!Groups(q, t)) + 1] = v % Number!Radix
           /\ \A i \in 1 .. Len(Number!Groups(q, t)) :
                 Number!Groups(v, t)[i] = Number!Groups(q, t)[i]
<1> DEFINE r == Number!Radix  k == v % r  f == Number!Groups(v, t)  h == Number!Groups(q, t)
<1>1. r \in Nat /\ r >= 4 /\ Flag(t) \in Nat /\ 1 <= Flag(t)
  BY Sizes
<1>2. f \in Seq(Nat) /\ f = Append(h, k)
  <2>1. v >= Flag(t)
    BY <1>1
  <2> QED
    BY <2>1, GroupsAre
<1>3. q = v \div r /\ k = v % r
  OBVIOUS
<1> HIDE DEF r, k
<1>4. r \in Nat \ {0} /\ r > 1 /\ v > 0
  BY <1>1
<1>5. q \in Nat /\ q < v
  BY <1>3, <1>4, QuotientLess
<1>6. k \in Nat
  BY <1>3, <1>4, Parts
<1>7. h \in Seq(Nat) /\ Len(h) \in Nat
  BY <1>5, GroupsAre, LenProperties
<1> HIDE DEF f, h
<1>8. Len(f) = Len(h) + 1 /\ f[Len(h) + 1] = k /\ \A i \in 1 .. Len(h) : f[i] = h[i]
  BY <1>2, <1>6, <1>7, AppendProperties
<1> QED
  BY <1>2, <1>3, <1>4, <1>5, <1>7, <1>8 DEF r, f, h

\* The first group leaves room for a tag, and every other one for its flag.
LEMMA GroupsFit ==
    ASSUME NumberAssumption, NEW t \in 0 .. 2, NEW v \in Nat
    PROVE  /\ Len(Number!Groups(v, t)) >= 1 /\ Number!Groups(v, t)[1] < Flag(t)
           /\ \A i \in 2 .. Len(Number!Groups(v, t)) :
                 Number!Groups(v, t)[i] < Number!Radix
<1> DEFINE Fits(h) == /\ Len(h) >= 1 /\ h[1] < Flag(t)
                      /\ \A i \in 2 .. Len(h) : h[i] < Number!Radix
           B == {n \in Nat : ~ Fits(Number!Groups(n, t))}
<1> SUFFICES ASSUME B # {} PROVE FALSE
  OBVIOUS
<1>1. PICK m \in B : \A k \in B : m <= k
  <2>1. B \subseteq Nat
    OBVIOUS
  <2> HIDE DEF B
  <2> QED
    BY <2>1, Dir!LeastOf
<1> DEFINE f == Number!Groups(m, t)
<1>2. m \in Nat /\ ~ Fits(f) /\ \A k \in Nat : k < m => Fits(Number!Groups(k, t))
  BY <1>1
<1> HIDE DEF B
<1>3. Flag(t) \in Nat /\ Number!Radix \in Nat \ {0}
  <2>1. Number!Radix \in Nat /\ Number!Radix >= 4 /\ Flag(t) \in Nat
    BY Sizes
  <2> QED
    BY <2>1
<1>4. CASE m < Flag(t)
  <2>1. Len(f) = 1 /\ f[1] = m
    BY <1>2, <1>4, OneGroup
  <2> QED
    BY <1>2, <1>4, <2>1
<1>5. CASE ~ (m < Flag(t))
  <2> DEFINE q == m \div Number!Radix  h == Number!Groups(q, t)
  <2>1. m \in Nat /\ q = m \div Number!Radix
    BY <1>2
  <2> HIDE DEF q
  <2>2. /\ q \in Nat /\ q < m /\ Len(h) \in Nat
        /\ Len(f) = Len(h) + 1 /\ f[Len(h) + 1] = m % Number!Radix
    BY <1>5, <2>1, MoreGroups
  <2>3. \A i \in 1 .. Len(h) : f[i] = h[i]
    BY <1>5, <2>1, MoreGroups
  <2>4. Fits(h)
    BY <1>2, <2>2
  <2>5. m % Number!Radix < Number!Radix
    BY <1>2, <1>3, Parts
  <2> HIDE DEF h, f
  <2>6. f[1] < Flag(t) /\ Len(f) >= 1
    BY <2>2, <2>3, <2>4
  <2>7. ASSUME NEW i \in 2 .. Len(f) PROVE f[i] < Number!Radix
    <3>1. i = Len(h) + 1 \/ (i \in 2 .. Len(h) /\ i \in 1 .. Len(h))
      BY <2>2
    <3> QED
      BY <2>2, <2>3, <2>4, <2>5, <3>1
  <2> QED
    BY <1>2, <2>6, <2>7
<1> QED
  BY <1>4, <1>5

\* hpatch_packUIntWithTag_size counts the groups.
LEMMA SizeCounts ==
    ASSUME NumberAssumption, NEW t \in 0 .. 2, NEW v \in Nat
    PROVE  Number!PackUIntSize(v, t) = Len(Number!Groups(v, t))
<1> DEFINE r == Number!Radix  f == Flag(t)
<1>1. r \in Nat \ {0} /\ r > 1 /\ f \in Nat \ {0}
  <2>1. Number!Radix \in Nat /\ Number!Radix >= 4 /\ Flag(t) \in Nat /\ 1 <= Flag(t)
    BY Sizes
  <2> QED
    BY <2>1
<1>2. Number!PackUIntSize(v, t) = SizeOf(r, f)[v]
  BY DEF Number!PackUIntSize, SizeOf, SizeFrom, Flag
<1>3. Number!Groups(v, t) = GroupsOf(r, f)[v]
  BY DEF Number!Groups, GroupsOf, GroupsFrom, Flag
<1> HIDE DEF r, f
<1> QED
  BY <1>1, <1>2, <1>3, SizeOfIs

\* What k groups of the radix and a first one hold.
Capacity(k) == 2 ^ ((NumberByteBits - 1) * k)

LEMMA CapacityNext ==
    ASSUME NumberAssumption, NEW k \in Nat
    PROVE  /\ Capacity(k) \in Nat \ {0} /\ Capacity(0) = 1
           /\ Capacity(k + 1) = Capacity(k) * Number!Radix
<1> DEFINE b == NumberByteBits - 1
<1>1. b \in Nat /\ b * 0 = 0
  BY DEF NumberAssumption, Number!ByteBitsAssumption
<1>2. Number!Radix = 2 ^ b /\ Capacity(k) = 2 ^ (b * k) /\ Capacity(0) = 2 ^ (b * 0)
      /\ Capacity(k + 1) = 2 ^ (b * (k + 1))
  BY DEF Number!Radix, Capacity
<1> HIDE DEF b
<1>3. b * k \in Nat /\ b * (k + 1) = b * k + b
  BY <1>1
<1>4. 2 ^ (b * k) \in Nat \ {0} /\ 2 ^ (b * k + b) = 2 ^ (b * k) * 2 ^ b
  BY <1>1, <1>3, PowType, PowSum
<1> QED
  BY <1>1, <1>2, <1>3, <1>4, PowZero

\* The number of groups is bounded by the value.
LEMMA GroupsBound ==
    ASSUME NumberAssumption, NEW t \in 0 .. 2, NEW k \in Nat
    PROVE  \A v \in Nat : v < Flag(t) * Capacity(k) => Len(Number!Groups(v, t)) <= k + 1
<1> DEFINE Bound(j) == \A v \in Nat : v < Flag(t) * Capacity(j)
                                          => Len(Number!Groups(v, t)) <= j + 1
           G == {j \in Nat : Bound(j)}
<1>1. Flag(t) \in Nat /\ Number!Radix \in Nat \ {0}
  <2>1. Number!Radix \in Nat /\ Number!Radix >= 4 /\ Flag(t) \in Nat
    BY Sizes
  <2> QED
    BY <2>1
<1>2. 0 \in G
  <2>1. Flag(t) * Capacity(0) = Flag(t)
    BY <1>1, CapacityNext
  <2>2. ASSUME NEW v \in Nat, v < Flag(t) PROVE Len(Number!Groups(v, t)) = 1
    BY <2>2, OneGroup
  <2>3. Bound(0)
    <3> SUFFICES ASSUME NEW v \in Nat, v < Flag(t) * Capacity(0)
                 PROVE  Len(Number!Groups(v, t)) <= 0 + 1
      OBVIOUS
    <3>1. Len(Number!Groups(v, t)) = 1
      BY <2>1, <2>2
    <3> QED
      BY <3>1
  <2> QED
    BY <2>3
<1>3. ASSUME NEW j \in 0 .. k - 1, j \in G PROVE j + 1 \in G
  <2> SUFFICES ASSUME NEW v \in Nat, v < Flag(t) * Capacity(j + 1)
               PROVE  Len(Number!Groups(v, t)) <= (j + 1) + 1
    OBVIOUS
  <2>1. j \in Nat /\ Bound(j)
    BY <1>3
  <2>2. CASE v < Flag(t)
    <3>1. Len(Number!Groups(v, t)) = 1
      BY <2>2, OneGroup
    <3> QED
      BY <2>1, <3>1
  <2>3. CASE ~ (v < Flag(t))
    <3> DEFINE q == v \div Number!Radix  r == Number!Radix  c == Capacity(j)  f == Flag(t)
    <3>1. /\ q \in Nat /\ Len(Number!Groups(q, t)) \in Nat
          /\ Len(Number!Groups(v, t)) = Len(Number!Groups(q, t)) + 1
      BY <2>3, MoreGroups
    <3>2. r \in Nat \ {0} /\ c \in Nat /\ f \in Nat /\ v < f * (c * r)
      BY <1>1, <2>1, CapacityNext
    <3>3. q = v \div r
      OBVIOUS
    <3> HIDE DEF q, r, c, f
    <3>4. f * c \in Nat /\ v < (f * c) * r
      BY <3>2
    <3>5. q < f * c
      BY <3>2, <3>3, <3>4, QuotientBelow
    <3>6. Len(Number!Groups(q, t)) <= j + 1
      BY <2>1, <3>1, <3>5 DEF c, f
    <3> QED
      BY <2>1, <3>1, <3>6
  <2> QED
    BY <2>2, <2>3
<1> HIDE DEF G
<1>4. \A j \in 0 .. k - 1 : j \in G => j + 1 \in G
  BY <1>3
<1>5. \A j \in 0 .. k : j \in G
  BY <1>2, <1>4, Dir!Reaches
<1>6. k \in G
  BY <1>5
<1> QED
  BY <1>6 DEF G

LEMMA GroupsFitBuffers ==
    ASSUME NumberAssumption, NEW t \in 0 .. 2, NEW v \in Number!StreamPos
    PROVE  Len(Number!Groups(v, t)) <= Number!MaxPackedUIntBytes
<1> DEFINE u == NumberUIntBits  b == NumberByteBits - 1  k == (u + b - 1) \div b  r == (u + b - 1) % b
<1>1. u \in Nat /\ b \in Nat \ {0} /\ u + b - 1 \in Nat /\ b - 1 \in Nat
  BY DEF NumberAssumption, Number!ByteBitsAssumption, Number!UIntBitsAssumption
<1>2. /\ Number!MaxPackedUIntBytes = k + 1 /\ Number!StreamPos = 0 .. (2 ^ u - 1)
      /\ Capacity(k) = 2 ^ (b * k)
  <2>1. NumberUIntBits + NumberByteBits - 2 = u + b - 1
    BY DEF NumberAssumption, Number!ByteBitsAssumption, Number!UIntBitsAssumption
  <2> QED
    BY <2>1 DEF Number!MaxPackedUIntBytes, Number!StreamPos, Capacity
<1> HIDE DEF u, b
<1>3. k \in Nat /\ r \in 0 .. b - 1 /\ u + b - 1 = k * b + r
  BY <1>1, Parts
<1> HIDE DEF k, r
<1>4. b * k \in Nat /\ u <= b * k
  BY <1>1, <1>3
<1>5. 2 ^ u \in Nat /\ 2 ^ (b * k) \in Nat /\ 2 ^ u <= 2 ^ (b * k)
  BY <1>1, <1>4, PowType, PowOrder
<1>6. v \in Nat /\ v < Capacity(k)
  BY <1>2, <1>5
<1>7. v < Flag(t) * Capacity(k)
  <2> DEFINE f == Flag(t)  c == Capacity(k)
  <2>1. f \in Nat /\ 1 <= f /\ c \in Nat /\ v < c
    BY <1>3, <1>6, Sizes, CapacityNext
  <2> HIDE DEF f, c
  <2>2. c <= f * c
    BY <2>1
  <2> QED
    BY <1>6, <2>1, <2>2 DEF f, c
<1> QED
  BY <1>2, <1>3, <1>6, <1>7, GroupsBound

-----------------------------------------------------------------------------
(* Numbers: the code of a value                                             *)

\* The bytes of the code of v with the tag w of t bits; v has n groups.
IsCode(c, n, v, w, t) ==
    /\ c \in Seq(Nat) /\ Len(c) = n /\ n \in Nat /\ n >= 1
    /\ \A i \in 1 .. n : c[i] \in Number!Byte
    /\ c[1] \div 2 ^ (NumberByteBits - t) = w
    /\ c[1] % Flag(t) = Number!Groups(v, t)[1]
    /\ (c[1] \div Flag(t)) % 2 = IF n = 1 THEN 0 ELSE 1
    /\ \A i \in 2 .. n : /\ c[i] % Number!Radix = Number!Groups(v, t)[i]
                         /\ c[i] >= Number!Radix <=> i # n

LEMMA CodeIs ==
    ASSUME NumberAssumption, NEW t \in 0 .. 2, NEW v \in Nat, NEW w \in 0 .. 2 ^ t - 1,
           NEW c, c = Number!PackUIntWithTag(v, w, t), NEW n, n = Len(Number!Groups(v, t))
    PROVE  IsCode(c, n, v, w, t)
<1> DEFINE g == Number!Groups(v, t)  r == Number!Radix  f == Flag(t)
           more(i) == IF i = n THEN 0 ELSE IF i = 1 THEN f ELSE r
           d(i) == g[i] + more(i) + (IF i = 1 THEN w * 2 ^ (NumberByteBits - t) ELSE 0)
<1>1. /\ r \in Nat /\ r >= 4 /\ f \in Nat /\ 1 <= f /\ f <= r
      /\ 2 ^ (NumberByteBits - t) = 2 * f /\ f * 2 ^ t = r
  BY Sizes
<1>2. 2 ^ t \in Nat
  BY PowType
<1>3. g \in Seq(Nat) /\ n = Len(g) /\ n \in Nat /\ DOMAIN g = 1 .. n
  BY GroupsAre, LenProperties
<1>4. n >= 1 /\ g[1] < f /\ \A i \in 2 .. n : g[i] < r
  BY GroupsFit
<1>5. c = [i \in 1 .. n |-> d(i)]
  BY DEF Number!PackUIntWithTag, Flag
<1> HIDE DEF g, r, f
<1>6. \A i \in 1 .. n : g[i] \in Nat
  BY <1>3, ElementOfSeq
<1> DEFINE e == IF n = 1 THEN 0 ELSE 1  first == g[1]
<1>7. first \in 0 .. f - 1 /\ e \in 0 .. 1
  BY <1>1, <1>3, <1>4, <1>6
<1>8. c[1] = first + e * f + w * (2 * f)
  <2>1. c[1] = d(1)
    BY <1>3, <1>4, <1>5
  <2>2. more(1) = e * f
    BY <1>1, <1>3
  <2> QED
    BY <1>1, <2>1, <2>2
<1> HIDE DEF e, first
<1>9. c[1] = (2 * w + e) * f + first /\ c[1] = w * (2 * f) + (e * f + first)
  BY <1>1, <1>7, <1>8
<1>10. (c[1] \div f) % 2 = e /\ c[1] % f = first
  <2> DEFINE q == 2 * w + e
  <2>1. q \in Nat /\ w \in Nat /\ f \in Nat \ {0} /\ c[1] = q * f + first
    BY <1>1, <1>2, <1>7, <1>9
  <2> HIDE DEF q
  <2>2. c[1] \div f = q /\ c[1] % f = first
    BY <1>7, <2>1, QuotientIs
  <2>3. q % 2 = e
    BY <1>2, <1>7 DEF q
  <2> QED
    BY <2>2, <2>3
<1>11. c[1] \div (2 * f) = w
  <2> DEFINE p == 2 * f  k == e * f + first
  <2>1. p \in Nat \ {0} /\ k \in 0 .. p - 1 /\ w \in Nat
    BY <1>1, <1>2, <1>7
  <2>2. c[1] = w * p + k
    BY <1>9
  <2> HIDE DEF p, k
  <2>3. c[1] \div p = w
    BY <2>1, <2>2, QuotientIs
  <2> QED
    BY <2>3 DEF p
<1>12. c[1] \in 0 .. 2 * r - 1
  <2> DEFINE z == 2 ^ t
  <2>1. z \in Nat /\ w \in Nat /\ w + 1 <= z /\ r = f * z
    BY <1>1, <1>2
  <2> HIDE DEF z
  <2>2. (w + 1) * (2 * f) <= z * (2 * f)
    BY <1>1, <2>1
  <2>3. z * (2 * f) = 2 * r /\ (w + 1) * (2 * f) = w * (2 * f) + 2 * f /\ w * (2 * f) \in Nat
    BY <1>1, <2>1
  <2> DEFINE y == w * (2 * f)
  <2>4. y \in Nat /\ y + 2 * f <= 2 * r /\ c[1] = y + (e * f + first)
    BY <1>9, <2>2, <2>3
  <2> HIDE DEF y
  <2>5. e * f + first \in 0 .. 2 * f - 1
    BY <1>1, <1>7
  <2> QED
    BY <1>1, <2>4, <2>5
<1>13. ASSUME NEW i \in 2 .. n
       PROVE  c[i] \in 0 .. 2 * r - 1 /\ c[i] % r = g[i] /\ (c[i] >= r <=> i # n)
  <2>1. i \in 1 .. n /\ i # 1
    BY <1>3
  <2> DEFINE b == IF i = n THEN 0 ELSE 1  k == g[i]
  <2>2. k \in 0 .. r - 1 /\ b \in 0 .. 1
    BY <1>1, <1>4, <1>6, <2>1
  <2>3. c[i] = b * r + k
    <3>1. c[i] = k + more(i) + 0
      BY <1>5, <2>1
    <3>2. more(i) = b * r
      BY <1>1, <2>1
    <3> QED
      BY <1>1, <2>2, <3>1, <3>2
  <2> HIDE DEF b, k
  <2>4. c[i] % r = k
    <3> DEFINE x == c[i]
    <3>1. r \in Nat \ {0} /\ b \in Nat /\ k \in 0 .. r - 1 /\ x = b * r + k
      BY <1>1, <2>2, <2>3
    <3> HIDE DEF x
    <3>2. x % r = k
      BY <3>1, QuotientIs
    <3> QED
      BY <3>2 DEF x
  <2>5. c[i] \in 0 .. 2 * r - 1 /\ (c[i] >= r <=> b = 1)
    BY <1>1, <2>2, <2>3
  <2> QED
    BY <2>4, <2>5 DEF b, k
<1>14. \A i \in 1 .. n : c[i] \in 0 .. 2 * r - 1
  <2> SUFFICES ASSUME NEW i \in 1 .. n PROVE c[i] \in 0 .. 2 * r - 1
    OBVIOUS
  <2>1. i = 1 \/ i \in 2 .. n
    BY <1>3
  <2> QED
    BY <1>12, <1>13, <2>1
<1>15. c \in Seq(Nat) /\ Len(c) = n
  <2> HIDE DEF d
  <2>1. \A i \in 1 .. n : d(i) \in Nat
    BY <1>1, <1>5, <1>14
  <2> QED
    BY <1>3, <1>5, <2>1, IsASeq
<1>16. Number!Byte = 0 .. 2 * r - 1
  BY DEF Number!Byte, r
<1> QED
  BY <1>1, <1>3, <1>4, <1>10, <1>11, <1>13, <1>14, <1>15, <1>16 DEF g, r, f, e, first, IsCode

-----------------------------------------------------------------------------
(* Numbers: reading                                                         *)

\* What is read from position s[1] on, s[2] having been read before it: groups of the
\* radix r, as long as what was read is below least.
Rests(c) == (1 .. Len(c) + 1) \X Nat
Readings(c) == {Number!Refused} \cup [ok : {TRUE}, value : Nat, next : 1 .. Len(c) + 1]
RestFrom(f, c, r, least) ==
    [s \in (1 .. Len(c) + 1) \X Nat |->
        IF ~ (s[2] < least) \/ s[1] > Len(c) THEN Number!Refused
        ELSE IF c[s[1]] >= r THEN f[<<s[1] + 1, (s[2] * r) + (c[s[1]] % r)>>]
        ELSE [ok |-> TRUE, value |-> (s[2] * r) + (c[s[1]] % r), next |-> s[1] + 1]]
RestIn(c, r, least) == CHOOSE f : f = RestFrom(f, c, r, least)
RestOf(c) == RestIn(c, Number!Radix, Least)

LEMMA UnpackIs ==
    ASSUME NEW c, NEW t
    PROVE  Number!UnpackUIntWithTag(c, 1, t)
               = IF 1 > Len(c) THEN Number!Refused
                 ELSE IF (c[1] \div Flag(t)) % 2 = 1 THEN RestOf(c)[<<1 + 1, c[1] % Flag(t)>>]
                 ELSE [ok |-> TRUE, value |-> c[1] % Flag(t), next |-> 1 + 1]
BY DEF Number!UnpackUIntWithTag, RestOf, RestIn, RestFrom, Flag, Number!KeepsAllBits, Least

LEMMA RestExists ==
    ASSUME NEW c \in Seq(Nat), NEW r \in Nat \ {0}, NEW least
    PROVE  \E f \in [Rests(c) -> Readings(c)] : f = RestFrom(f, c, r, least)
<1> DEFINE l == Len(c)  D == (1 .. l + 1) \X Nat
           V == {Number!Refused} \cup [ok : {TRUE}, value : Nat, next : 1 .. l + 1]
           m(s) == (s[2] * r) + (c[s[1]] % r)
           rank == [s \in D |-> l + 1 - s[1]]
           stop == {s \in D : ~ (s[2] < least) \/ s[1] > l \/ ~ (c[s[1]] >= r)}
           base == [s \in D |-> IF ~ (s[2] < least) \/ s[1] > l THEN Number!Refused
                                ELSE [ok |-> TRUE, value |-> m(s), next |-> s[1] + 1]]
           before == [s \in D |-> IF s[1] > l THEN s ELSE <<s[1] + 1, m(s)>>]
           step == [y \in V \X D |-> y[1]]
<1>1. r \in Nat \ {0} /\ l \in Nat
  BY LenProperties
<1>2. \A i \in 1 .. l : c[i] \in Nat
  BY ElementOfSeq
<1> HIDE DEF l
<1>3. ASSUME NEW s \in D
      PROVE  /\ s[1] \in 1 .. l + 1 /\ s[2] \in Nat /\ s = <<s[1], s[2]>>
             /\ ~ (s[1] > l) => m(s) \in Nat /\ s[1] + 1 \in 1 .. l + 1
  <2>1. s[1] \in 1 .. l + 1 /\ s[2] \in Nat /\ s = <<s[1], s[2]>>
    OBVIOUS
  <2>2. ASSUME ~ (s[1] > l) PROVE m(s) \in Nat /\ s[1] + 1 \in 1 .. l + 1
    <3> DEFINE a == s[1]  x == s[2]  d == c[a]
    <3>1. a \in 1 .. l /\ x \in Nat /\ a + 1 \in 1 .. l + 1
      BY <1>1, <2>1, <2>2
    <3>2. d \in Nat
      BY <1>2, <3>1
    <3> HIDE DEF d
    <3>3. d % r \in Nat
      BY <1>1, <3>2, Parts
    <3>4. x * r \in Nat
      BY <1>1, <3>1
    <3> QED
      BY <3>1, <3>3, <3>4 DEF d
  <2> QED
    BY <2>1, <2>2
<1>4. rank \in [D -> Nat]
  BY <1>1, <1>3
<1> HIDE DEF D, m
<1>5. base \in [D -> V]
  <2> SUFFICES ASSUME NEW s \in D, ~ (s[1] > l)
               PROVE  [ok |-> TRUE, value |-> m(s), next |-> s[1] + 1] \in V
    OBVIOUS
  <2>1. m(s) \in Nat /\ s[1] + 1 \in 1 .. l + 1
    BY <1>1, <1>3
  <2> QED
    BY <2>1
<1>6. before \in [D -> D]
  <2> SUFFICES ASSUME NEW s \in D, ~ (s[1] > l) PROVE <<s[1] + 1, m(s)>> \in D
    OBVIOUS
  <2>1. m(s) \in Nat /\ s[1] + 1 \in 1 .. l + 1
    BY <1>3
  <2> QED
    BY <2>1 DEF D
<1>7. step \in [V \X D -> V]
  OBVIOUS
<1>8. \A s \in D : s \notin stop => rank[before[s]] < rank[s]
  <2> SUFFICES ASSUME NEW s \in D, ~ (s[1] > l) PROVE rank[before[s]] < rank[s]
    OBVIOUS
  <2> DEFINE z == <<s[1] + 1, m(s)>>
  <2>1. before[s] = z /\ z \in D /\ z[1] = s[1] + 1 /\ s[1] \in Nat
    BY <1>3, <1>6
  <2>2. rank[z] = l + 1 - (s[1] + 1) /\ rank[s] = l + 1 - s[1]
    BY <2>1
  <2> HIDE DEF z, rank, before
  <2> QED
    BY <1>1, <2>1, <2>2
<1>9. Descends(D, V, rank, stop, base, before, step)
  <2> HIDE DEF V, rank, stop, base, before, step
  <2> QED
    BY <1>4, <1>5, <1>6, <1>7, <1>8 DEF Descends
<1>10. PICK f \in [D -> V] : \A s \in D : f[s] = Says(f, s, stop, base, before, step)
  <2> HIDE DEF V, rank, stop, base, before, step
  <2> QED
    BY <1>9, RecursionExists
<1>11. ASSUME NEW s \in D
       PROVE  f[s] = IF ~ (s[2] < least) \/ s[1] > l THEN Number!Refused
                     ELSE IF c[s[1]] >= r THEN f[<<s[1] + 1, m(s)>>]
                     ELSE [ok |-> TRUE, value |-> m(s), next |-> s[1] + 1]
  <2>1. f[s] = IF s \in stop THEN base[s] ELSE step[<<f[before[s]], s>>]
    BY <1>10 DEF Says
  <2>2. CASE s \in stop
    BY <2>1, <2>2
  <2>3. CASE s \notin stop
    <3>1. before[s] \in D /\ before[s] = <<s[1] + 1, m(s)>>
      BY <1>6, <2>3
    <3>2. f[before[s]] \in V
      BY <1>10, <3>1
    <3>3. f[s] = f[<<s[1] + 1, m(s)>>]
      BY <2>1, <2>3, <3>1, <3>2
    <3> QED
      BY <2>3, <3>3
  <2> QED
    BY <2>2, <2>3
<1>12. f = RestFrom(f, c, r, least)
  <2>1. f = [s \in D |-> f[s]]
    OBVIOUS
  <2> QED
    BY <1>11, <2>1 DEF RestFrom, D, m, l
<1> QED
  BY <1>10, <1>12 DEF Rests, Readings, D, l

LEMMA KeepsIs == ASSUME NEW x PROVE Number!KeepsAllBits(x) <=> x < Least
BY DEF Number!KeepsAllBits, Least

LEMMA RestIs ==
    ASSUME NumberAssumption, NEW c \in Seq(Nat), NEW a \in 1 .. Len(c) + 1, NEW x \in Nat
    PROVE  /\ ~ Number!KeepsAllBits(x) \/ a > Len(c) => RestOf(c)[<<a, x>>] = Number!Refused
           /\ Number!KeepsAllBits(x) /\ ~ (a > Len(c)) =>
                IF c[a] >= Number!Radix
                THEN RestOf(c)[<<a, x>>]
                        = RestOf(c)[<<a + 1, (x * Number!Radix) + (c[a] % Number!Radix)>>]
                ELSE RestOf(c)[<<a, x>>]
                        = [ok |-> TRUE, value |-> (x * Number!Radix) + (c[a] % Number!Radix),
                           next |-> a + 1]
<1> DEFINE f == RestOf(c)  s == <<a, x>>  r == Number!Radix
<1>1. f = RestFrom(f, c, r, Least)
  <2>1. r \in Nat \ {0}
    <3>1. 0 \in 0 .. 2
      OBVIOUS
    <3>2. r \in Nat /\ r >= 4
      BY <3>1, Sizes
    <3> QED
      BY <3>2
  <2> HIDE DEF r
  <2>2. \E h : h = RestFrom(h, c, r, Least)
    BY <2>1, RestExists
  <2> QED
    BY <2>2 DEF RestOf, RestIn, r
<1>2. s \in (1 .. Len(c) + 1) \X Nat /\ s[1] = a /\ s[2] = x
  OBVIOUS
<1> HIDE DEF f, s
<1>3. f[s] = IF ~ (s[2] < Least) \/ s[1] > Len(c) THEN Number!Refused
             ELSE IF c[s[1]] >= r THEN f[<<s[1] + 1, (s[2] * r) + (c[s[1]] % r)>>]
             ELSE [ok |-> TRUE, value |-> (s[2] * r) + (c[s[1]] % r), next |-> s[1] + 1]
  BY <1>1, <1>2 DEF RestFrom
<1> QED
  BY <1>2, <1>3, KeepsIs DEF f, s, r

\* Byte i of c holds the group d, and more follow it.
Carries(c, i, t, d) ==
    IF i = 1 THEN (c[1] \div Flag(t)) % 2 = 1 /\ c[1] % Flag(t) = d
    ELSE c[i] >= Number!Radix /\ c[i] % Number!Radix = d

\* The groups of v are the first of c, and more follow them.
Begins(c, v, t) ==
    \A i \in 1 .. Len(Number!Groups(v, t)) :
        i <= Len(c) /\ Carries(c, i, t, Number!Groups(v, t)[i])

LEMMA ReadsGroups ==
    ASSUME NumberAssumption, NEW t \in 0 .. 2, NEW c \in Seq(Nat)
    PROVE  \A v \in Nat : Begins(c, v, t) /\ (~ (v < Flag(t)) => v \div Number!Radix < Least)
                => Number!UnpackUIntWithTag(c, 1, t)
                       = RestOf(c)[<<Len(Number!Groups(v, t)) + 1, v>>]
<1> DEFINE r == Number!Radix  g(v) == Number!Groups(v, t)
           Fits(v) == ~ (v < Flag(t)) => v \div r < Least
           Reads(v) == Number!UnpackUIntWithTag(c, 1, t) = RestOf(c)[<<Len(g(v)) + 1, v>>]
           B == {v \in Nat : Begins(c, v, t) /\ Fits(v) /\ ~ Reads(v)}
<1> SUFFICES ASSUME B # {} PROVE FALSE
  OBVIOUS
<1>1. PICK m \in B : \A k \in B : m <= k
  <2>1. B \subseteq Nat
    OBVIOUS
  <2> HIDE DEF B
  <2> QED
    BY <2>1, Dir!LeastOf
<1>2. /\ m \in Nat /\ Begins(c, m, t) /\ Fits(m) /\ ~ Reads(m)
      /\ \A k \in Nat : k < m /\ Begins(c, k, t) /\ Fits(k) => Reads(k)
  BY <1>1
<1> HIDE DEF B
<1>3. Len(c) \in Nat
  BY LenProperties
<1>4. CASE m < Flag(t)
  <2>1. Len(g(m)) = 1 /\ g(m)[1] = m
    BY <1>2, <1>4, OneGroup
  <2>2. 1 <= Len(c) /\ Carries(c, 1, t, m)
    BY <1>2, <2>1 DEF Begins
  <2>3. ~ (1 > Len(c)) /\ (c[1] \div Flag(t)) % 2 = 1 /\ c[1] % Flag(t) = m
    BY <1>3, <2>2 DEF Carries
  <2>4. Reads(m)
    BY <2>1, <2>3, UnpackIs
  <2> QED
    BY <1>2, <2>4
<1>5. CASE ~ (m < Flag(t))
  <2> DEFINE q == m \div r  a == Len(g(q)) + 1
  <2>1. m \in Nat /\ q = m \div Number!Radix /\ r \in Nat \ {0}
    <3>1. Number!Radix \in Nat /\ Number!Radix >= 4
      BY Sizes
    <3> QED
      BY <1>2, <3>1
  <2>2. q < Least
    BY <1>2, <1>5
  <2> HIDE DEF q
  <2>0. m \in Nat /\ q = m \div Number!Radix
    BY <2>1
  <2>3. /\ q \in Nat /\ q < m /\ Len(g(q)) \in Nat /\ Len(g(m)) = a /\ g(m)[a] = m % r
    BY <1>5, <2>0, MoreGroups
  <2>4. \A i \in 1 .. Len(g(q)) : g(m)[i] = g(q)[i]
    <3> HIDE DEF a, Fits, Reads
    <3> QED
      BY <1>5, <2>0, MoreGroups
  <2>5. Begins(c, q, t)
    <3>1. \A i \in 1 .. Len(g(q)) : i \in 1 .. Len(g(m))
      BY <2>3
    <3> QED
      BY <1>2, <2>4, <3>1 DEF Begins
  <2>6. Fits(q)
    <3>1. q \div r < Least
      <4>1. q \div r <= q /\ q \div r \in Nat
        BY <2>1, <2>3, QuotientSmall
      <4>2. Least \in Nat
        BY Sizes
      <4> QED
        BY <2>2, <2>3, <4>1, <4>2
    <3> QED
      BY <3>1
  <2>7. Number!UnpackUIntWithTag(c, 1, t) = RestOf(c)[<<a, q>>]
    BY <1>2, <2>3, <2>5, <2>6
  <2>8. Len(g(q)) >= 1
    BY <2>3, GroupsFit
  <2>9. a \in 1 .. Len(g(m)) /\ a # 1
    BY <2>3, <2>8
  <2>10. a <= Len(c) /\ c[a] >= r /\ c[a] % r = m % r
    BY <1>2, <2>3, <2>9 DEF Begins, Carries
  <2>11. a \in 1 .. Len(c) + 1 /\ ~ (a > Len(c)) /\ Number!KeepsAllBits(q)
    BY <1>3, <2>2, <2>3, <2>10, KeepsIs
  <2> HIDE DEF a
  <2>12. RestOf(c)[<<a, q>>] = RestOf(c)[<<a + 1, (q * r) + (c[a] % r)>>]
    BY <2>3, <2>10, <2>11, RestIs
  <2>13. (q * r) + (m % r) = m
    BY <1>2, <2>1, Parts
  <2>14. Reads(m)
    BY <2>3, <2>7, <2>10, <2>12, <2>13
  <2> QED
    BY <1>2, <2>14
<1> QED
  BY <1>4, <1>5

\* A code that ends where more is to follow is refused.
LEMMA CutRefused ==
    ASSUME NumberAssumption, NEW t \in 0 .. 2, NEW c \in Seq(Nat), 1 <= Len(c)
    PROVE  \A v \in Nat : /\ v < Least * Number!Radix
                          /\ Len(c) <= Len(Number!Groups(v, t))
                          /\ \A i \in 1 .. Len(c) : Carries(c, i, t, Number!Groups(v, t)[i])
                => Number!UnpackUIntWithTag(c, 1, t) = Number!Refused
<1> DEFINE r == Number!Radix  g(v) == Number!Groups(v, t)
           Cut(v) == /\ v < Least * r /\ Len(c) <= Len(g(v))
                     /\ \A i \in 1 .. Len(c) : Carries(c, i, t, g(v)[i])
           B == {v \in Nat : Cut(v)}
<1> SUFFICES ASSUME B # {} PROVE Number!UnpackUIntWithTag(c, 1, t) = Number!Refused
  OBVIOUS
<1>1. PICK m \in B : \A k \in B : m <= k
  <2>1. B \subseteq Nat
    OBVIOUS
  <2> HIDE DEF B
  <2> QED
    BY <2>1, Dir!LeastOf
<1>2. m \in Nat /\ Cut(m) /\ \A k \in Nat : k < m => ~ Cut(k)
  BY <1>1
<1> HIDE DEF B
<1> DEFINE q == m \div r
<1>3. r \in Nat \ {0} /\ Least \in Nat /\ Len(c) \in Nat
  <2>1. Number!Radix \in Nat /\ Number!Radix >= 4 /\ Least \in Nat
    BY Sizes
  <2> QED
    BY <2>1, LenProperties
<1>4. m \in Nat /\ q = m \div Number!Radix /\ q < Least
  BY <1>2, <1>3, QuotientBelow
<1> HIDE DEF q
<1>5. Len(c) = Len(g(m))
  <2> SUFFICES ASSUME Len(c) # Len(g(m)) PROVE FALSE
    OBVIOUS
  <2>1. ~ (m < Flag(t))
    <3> SUFFICES ASSUME m < Flag(t) PROVE FALSE
      OBVIOUS
    <3>1. Len(g(m)) = 1
      BY <1>2, OneGroup
    <3>2. Len(c) <= 1
      BY <1>2, <3>1
    <3>3. Len(c) = 1
      BY <1>3, <3>2
    <3> QED
      BY <3>1, <3>3
  <2>2. /\ q \in Nat /\ q < m /\ Len(g(q)) \in Nat /\ Len(g(m)) = Len(g(q)) + 1
    BY <1>4, <2>1, MoreGroups
  <2>3. \A i \in 1 .. Len(g(q)) : g(m)[i] = g(q)[i]
    BY <1>4, <2>1, MoreGroups
  <2>4. Len(c) <= Len(g(q)) /\ \A i \in 1 .. Len(c) : i \in 1 .. Len(g(q))
    BY <1>2, <1>3, <2>2
  <2>5. q < Least * r
    <3>1. Least * r \in Nat /\ m < Least * r
      BY <1>2, <1>3
    <3> QED
      BY <1>2, <2>2, <3>1
  <2>6. Cut(q)
    BY <1>2, <2>3, <2>4, <2>5
  <2> QED
    BY <1>2, <2>2, <2>6
<1>6. Begins(c, m, t)
  BY <1>2, <1>3, <1>5 DEF Begins
<1>7. Number!UnpackUIntWithTag(c, 1, t) = RestOf(c)[<<Len(g(m)) + 1, m>>]
  BY <1>2, <1>4, <1>6, ReadsGroups
<1> DEFINE a == Len(g(m)) + 1
<1>8. a \in 1 .. Len(c) + 1 /\ a > Len(c)
  BY <1>3, <1>5
<1> HIDE DEF a
<1>9. RestOf(c)[<<a, m>>] = Number!Refused
  BY <1>2, <1>8, RestIs
<1> QED
  BY <1>7, <1>9 DEF a

\* Byte i of c holds the group d, and is the last.
Ends(c, i, t, d) ==
    IF i = 1 THEN (c[1] \div Flag(t)) % 2 = 0 /\ c[1] % Flag(t) = d
    ELSE ~ (c[i] >= Number!Radix) /\ c[i] % Number!Radix = d

LEMMA ReadsValue ==
    ASSUME NumberAssumption, NEW t \in 0 .. 2, NEW c \in Seq(Nat),
           NEW v \in Nat, v < Least * Number!Radix,
           NEW n, n = Len(Number!Groups(v, t)), n <= Len(c),
           \A i \in 1 .. n - 1 : Carries(c, i, t, Number!Groups(v, t)[i]),
           Ends(c, n, t, Number!Groups(v, t)[n])
    PROVE  Number!UnpackUIntWithTag(c, 1, t) = [ok |-> TRUE, value |-> v, next |-> n + 1]
<1> DEFINE r == Number!Radix  g(k) == Number!Groups(k, t)
<1>1. r \in Nat \ {0} /\ Least \in Nat /\ Len(c) \in Nat
  <2>1. Number!Radix \in Nat /\ Number!Radix >= 4 /\ Least \in Nat
    BY Sizes
  <2> QED
    BY <2>1, LenProperties
<1>2. CASE v < Flag(t)
  <2>1. n = 1 /\ g(v)[1] = v
    BY <1>2, OneGroup
  <2>2. ~ (1 > Len(c)) /\ (c[1] \div Flag(t)) % 2 = 0 /\ c[1] % Flag(t) = v
    BY <1>1, <2>1 DEF Ends
  <2>3. /\ ~ ((c[1] \div Flag(t)) % 2 = 1) /\ 1 + 1 = n + 1
    BY <2>1, <2>2
  <2>4. Number!UnpackUIntWithTag(c, 1, t)
            = [ok |-> TRUE, value |-> c[1] % Flag(t), next |-> 1 + 1]
    BY <2>2, <2>3, UnpackIs
  <2> QED
    BY <2>2, <2>3, <2>4
<1>3. CASE ~ (v < Flag(t))
  <2> DEFINE q == v \div r
  <2>1. q = v \div Number!Radix
    OBVIOUS
  <2>2. q < Least
    BY <1>1, QuotientBelow
  <2> HIDE DEF q
  <2>3. q \in Nat /\ q < v /\ Len(g(q)) \in Nat /\ n = Len(g(q)) + 1 /\ g(v)[n] = v % r
    BY <1>3, <2>1, MoreGroups
  <2>4. \A i \in 1 .. Len(g(q)) : g(v)[i] = g(q)[i]
    BY <1>3, <2>1, MoreGroups
  <2>5. Len(g(q)) = n - 1 /\ \A i \in 1 .. Len(g(q)) : i <= Len(c)
    BY <1>1, <2>3
  <2>6. Begins(c, q, t)
    BY <2>4, <2>5 DEF Begins
  <2>7. q \div r < Least
    <3>1. q \div r <= q /\ q \div r \in Nat
      BY <1>1, <2>3, QuotientSmall
    <3> QED
      BY <1>1, <2>2, <2>3, <3>1
  <2>8. Number!UnpackUIntWithTag(c, 1, t) = RestOf(c)[<<n, q>>]
    BY <2>3, <2>6, <2>7, ReadsGroups
  <2>9. Len(g(q)) >= 1
    BY <2>3, GroupsFit
  <2>10. n # 1 /\ n \in 1 .. Len(c) + 1 /\ ~ (n > Len(c))
    BY <1>1, <2>3, <2>9
  <2>11. ~ (c[n] >= r) /\ c[n] % r = v % r
    BY <2>3, <2>10 DEF Ends
  <2>12. Number!KeepsAllBits(q)
    BY <2>2, KeepsIs
  <2>13. RestOf(c)[<<n, q>>] = [ok |-> TRUE, value |-> (q * r) + (c[n] % r), next |-> n + 1]
    BY <2>3, <2>10, <2>11, <2>12, RestIs
  <2>14. (q * r) + (v % r) = v
    BY <1>1, <2>1, Parts
  <2> QED
    BY <2>8, <2>11, <2>13, <2>14
<1> QED
  BY <1>2, <1>3

LEMMA CodeCarries ==
    ASSUME NumberAssumption, NEW t \in 0 .. 2, NEW v \in Nat, NEW w \in 0 .. 2 ^ t - 1,
           NEW c, c = Number!PackUIntWithTag(v, w, t), NEW n, n = Len(Number!Groups(v, t))
    PROVE  /\ \A i \in 1 .. n - 1 : Carries(c, i, t, Number!Groups(v, t)[i])
           /\ Ends(c, n, t, Number!Groups(v, t)[n])
<1> DEFINE g == Number!Groups(v, t)
<1>0. IsCode(c, n, v, w, t)
  BY CodeIs
<1>1. n \in Nat /\ n >= 1
  BY <1>0 DEF IsCode
<1>2. c[1] % Flag(t) = g[1] /\ (c[1] \div Flag(t)) % 2 = IF n = 1 THEN 0 ELSE 1
  BY <1>0 DEF IsCode
<1>3. \A i \in 2 .. n : c[i] % Number!Radix = g[i] /\ (c[i] >= Number!Radix <=> i # n)
  BY <1>0 DEF IsCode
<1> HIDE DEF g
<1>4. ASSUME NEW i \in 1 .. n - 1 PROVE Carries(c, i, t, g[i])
  <2>1. CASE i = 1
    <3>1. n # 1
      BY <1>1, <2>1
    <3> QED
      BY <1>2, <2>1, <3>1 DEF Carries
  <2>2. CASE i # 1
    <3>1. i \in 2 .. n /\ i # n
      BY <1>1, <2>2
    <3> QED
      BY <1>3, <2>2, <3>1 DEF Carries
  <2> QED
    BY <2>1, <2>2
<1>5. Ends(c, n, t, g[n])
  <2>1. CASE n = 1
    BY <1>2, <2>1 DEF Ends
  <2>2. CASE n # 1
    <3>1. n \in 2 .. n
      BY <1>1, <2>2
    <3> QED
      BY <1>3, <2>2, <3>1 DEF Ends
  <2> QED
    BY <2>1, <2>2
<1> QED
  BY <1>4, <1>5 DEF g

\* The values are those that are read without losing bits.
LEMMA StreamPosIs ==
    ASSUME NumberAssumption, NEW x \in Nat
    PROVE  x \in Number!StreamPos <=> x < Least * Number!Radix
<1>1. 2 ^ NumberUIntBits = Least * Number!Radix /\ Least \in Nat /\ Number!Radix \in Nat
  BY Sizes
<1> DEFINE y == Least * Number!Radix
<1>2. y \in Nat /\ Number!StreamPos = 0 .. y - 1
  BY <1>1 DEF Number!StreamPos
<1> HIDE DEF y
<1>3. x \in Number!StreamPos <=> x < y
  BY <1>2
<1> QED
  BY <1>3 DEF y

LEMMA CodeIsReadBack ==
    ASSUME NumberAssumption, NEW t \in 0 .. 2, NEW v \in Number!StreamPos,
           NEW w \in 0 .. 2 ^ t - 1, NEW c, c = Number!PackUIntWithTag(v, w, t),
           NEW after \in Seq(Nat)
    PROVE  Number!UnpackUIntWithTag(c \o after, 1, t)
               = [ok |-> TRUE, value |-> v, next |-> Len(c) + 1]
<1> DEFINE n == Len(Number!Groups(v, t))  d == c \o after
<1>1. v \in Nat
  BY DEF Number!StreamPos
<1>2. v < Least * Number!Radix
  BY <1>1, StreamPosIs
<1>3. c \in Seq(Nat) /\ Len(c) = n /\ n \in Nat /\ n >= 1
  <2>1. IsCode(c, n, v, w, t)
    BY <1>1, CodeIs
  <2> QED
    BY <2>1 DEF IsCode
<1>4. /\ \A i \in 1 .. n - 1 : Carries(c, i, t, Number!Groups(v, t)[i])
      /\ Ends(c, n, t, Number!Groups(v, t)[n])
  BY <1>1, CodeCarries
<1>5. n = Len(Number!Groups(v, t))
  OBVIOUS
<1> HIDE DEF n, d
<1>6. /\ d \in Seq(Nat) /\ Len(after) \in Nat /\ Len(d) = n + Len(after)
      /\ \A i \in 1 .. n : d[i] = c[i]
  BY <1>3, Dir!Cat DEF d
<1>7. n <= Len(d)
  BY <1>3, <1>6
<1>8. d[1] = c[1] /\ d[n] = c[n] /\ \A i \in 1 .. n - 1 : d[i] = c[i]
  BY <1>3, <1>6
<1>9. /\ \A i \in 1 .. n - 1 : Carries(d, i, t, Number!Groups(v, t)[i])
      /\ Ends(d, n, t, Number!Groups(v, t)[n])
  BY <1>4, <1>8 DEF Carries, Ends
<1>10. Number!UnpackUIntWithTag(d, 1, t) = [ok |-> TRUE, value |-> v, next |-> n + 1]
  BY <1>1, <1>2, <1>5, <1>6, <1>7, <1>9, ReadsValue
<1> QED
  BY <1>3, <1>10 DEF d

\* A code cut short is refused.
LEMMA CutCodeRefused ==
    ASSUME NumberAssumption, NEW t \in 0 .. 2, NEW v \in Number!StreamPos,
           NEW w \in 0 .. 2 ^ t - 1, NEW c, c = Number!PackUIntWithTag(v, w, t),
           NEW k \in 0 .. Len(c) - 1
    PROVE  Number!UnpackUIntWithTag(SubSeq(c, 1, k), 1, t) = Number!Refused
<1> DEFINE n == Len(Number!Groups(v, t))  d == SubSeq(c, 1, k)
<1>1. v \in Nat
  BY DEF Number!StreamPos
<1>2. v < Least * Number!Radix
  BY <1>1, StreamPosIs
<1>3. c \in Seq(Nat) /\ Len(c) = n /\ n \in Nat /\ n >= 1
  <2>1. IsCode(c, n, v, w, t)
    BY <1>1, CodeIs
  <2> QED
    BY <2>1 DEF IsCode
<1>4. \A i \in 1 .. n - 1 : Carries(c, i, t, Number!Groups(v, t)[i])
  BY <1>1, CodeCarries
<1>5. n = Len(Number!Groups(v, t))
  OBVIOUS
<1> HIDE DEF n
<1>6. k \in Nat /\ k <= n - 1
  BY <1>3
<1>7. /\ d \in Seq(Nat) /\ Len(d) = (IF 1 <= k THEN k - 1 + 1 ELSE 0)
      /\ \A i \in 1 .. k - 1 + 1 : d[i] = c[1 + i - 1]
  <2>1. \A i \in 1 .. k : c[i] \in Nat
    BY <1>3, <1>6, ElementOfSeq
  <2>2. 1 \in Int /\ k \in Int
    BY <1>6
  <2> HIDE DEF d
  <2> QED
    BY <2>1, <2>2, Dir!SubSeqIs DEF d
<1> HIDE DEF d
<1>8. Len(d) = k /\ \A i \in 1 .. k : d[i] = c[i]
  <2>1. Len(d) = k /\ k - 1 + 1 = k
    BY <1>6, <1>7
  <2>2. \A i \in 1 .. k : 1 + i - 1 = i
    OBVIOUS
  <2> QED
    BY <1>7, <2>1, <2>2
<1>9. CASE k = 0
  <2>1. 1 > Len(d)
    BY <1>8, <1>9
  <2>2. Number!UnpackUIntWithTag(d, 1, t) = Number!Refused
    BY <2>1, UnpackIs
  <2> QED
    BY <2>2 DEF d
<1>10. CASE k # 0
  <2>1. 1 <= Len(d) /\ Len(d) <= Len(Number!Groups(v, t))
    BY <1>3, <1>5, <1>6, <1>8, <1>10
  <2>2. \A i \in 1 .. k : i \in 1 .. n - 1 /\ d[i] = c[i] /\ d[1] = c[1]
    BY <1>3, <1>6, <1>8, <1>10
  <2>3. \A i \in 1 .. Len(d) : Carries(d, i, t, Number!Groups(v, t)[i])
    BY <1>4, <1>8, <2>2 DEF Carries
  <2>4. Number!UnpackUIntWithTag(d, 1, t) = Number!Refused
    BY <1>1, <1>2, <1>7, <2>1, <2>3, CutRefused
  <2> QED
    BY <2>4 DEF d
<1> QED
  BY <1>9, <1>10

-----------------------------------------------------------------------------
(* Numbers: two codes joined into one                                       *)

LEMMA NoTag ==
    ASSUME NumberAssumption
    PROVE  Flag(0) = Number!Radix /\ 0 \in 0 .. 2 /\ 0 .. 2 ^ 0 - 1 = {0}
<1>1. NumberByteBits - 1 - 0 = NumberByteBits - 1
  BY DEF NumberAssumption, Number!ByteBitsAssumption
<1>2. Flag(0) = Number!Radix
  BY <1>1 DEF Flag, Number!Radix
<1>3. 0 .. 2 ^ 0 - 1 = {0}
  <2>1. 0 .. 1 - 1 = {0}
    OBVIOUS
  <2> QED
    BY <2>1, PowZero
<1> QED
  BY <1>2, <1>3

\* The bytes of the code c of v, which has n groups and no tag.
IsPlainCode(c, n, v) ==
    /\ c \in Seq(Nat) /\ Len(c) = n /\ n \in Nat /\ n >= 1
    /\ \A i \in 1 .. n : /\ c[i] \in Nat /\ c[i] < 2 * Number!Radix
                         /\ c[i] % Number!Radix = Number!Groups(v, 0)[i]
                         /\ c[i] >= Number!Radix <=> i # n

LEMMA Odd ==
    ASSUME NEW r \in Nat \ {0}, NEW x \in Nat, x < 2 * r
    PROVE  (x \div r) % 2 = IF x >= r THEN 1 ELSE 0
<1>1. CASE x >= r
  <2>1. r \in Nat \ {0} /\ 1 \in Nat /\ x - r \in 0 .. r - 1 /\ x = 1 * r + (x - r)
    BY <1>1
  <2>2. x \div r = 1
    BY <2>1, QuotientIs
  <2> QED
    BY <1>1, <2>2
<1>2. CASE ~ (x >= r)
  <2>1. r \in Nat \ {0} /\ 0 \in Nat /\ x \in 0 .. r - 1 /\ x = 0 * r + x
    BY <1>2
  <2>2. x \div r = 0
    BY <2>1, QuotientIs
  <2> QED
    BY <1>2, <2>2
<1> QED
  BY <1>1, <1>2

LEMMA PlainCodeIs ==
    ASSUME NumberAssumption, NEW v \in Nat,
           NEW c, c = Number!PackUIntWithTag(v, 0, 0), NEW n, n = Len(Number!Groups(v, 0))
    PROVE  IsPlainCode(c, n, v)
<1> DEFINE r == Number!Radix  g == Number!Groups(v, 0)
<1>1. r \in Nat \ {0}
  <2>1. 0 \in 0 .. 2
    OBVIOUS
  <2>2. r \in Nat /\ r >= 4
    BY <2>1, Sizes
  <2> QED
    BY <2>2
<1>2. IsCode(c, n, v, 0, 0)
  <2>1. 0 \in 0 .. 2 /\ 0 \in 0 .. 2 ^ 0 - 1
    BY NoTag
  <2> QED
    BY <2>1, CodeIs
<1>3. c \in Seq(Nat) /\ Len(c) = n /\ n \in Nat /\ n >= 1
  BY <1>2 DEF IsCode
<1>4. \A i \in 1 .. n : c[i] \in Nat /\ c[i] < 2 * r
  <2>1. Number!Byte = 0 .. 2 * r - 1
    BY DEF Number!Byte
  <2>2. \A i \in 1 .. n : c[i] \in Number!Byte
    BY <1>2 DEF IsCode
  <2> HIDE DEF r
  <2> QED
    BY <1>1, <2>1, <2>2
<1>5. c[1] % r = g[1] /\ (c[1] \div r) % 2 = IF n = 1 THEN 0 ELSE 1
  BY <1>2, NoTag DEF IsCode
<1>6. \A i \in 2 .. n : c[i] % r = g[i] /\ (c[i] >= r <=> i # n)
  BY <1>2 DEF IsCode
<1> HIDE DEF r, g
<1>7. c[1] >= r <=> 1 # n
  <2> DEFINE x == c[1]
  <2>1. x \in Nat /\ x < 2 * r
    BY <1>3, <1>4
  <2> HIDE DEF x
  <2>2. (x \div r) % 2 = IF x >= r THEN 1 ELSE 0
    BY <1>1, <2>1, Odd
  <2> QED
    BY <1>5, <2>2 DEF x
<1>8. \A i \in 1 .. n : c[i] % r = g[i] /\ (c[i] >= r <=> i # n)
  <2>1. \A i \in 1 .. n : i = 1 \/ i \in 2 .. n
    BY <1>3
  <2> QED
    BY <1>5, <1>6, <1>7, <2>1
<1> QED
  BY <1>3, <1>4, <1>8 DEF IsPlainCode, r, g

LEMMA RemainderIs == ASSUME NEW r \in Nat \ {0}, NEW v \in 0 .. r - 1 PROVE v % r = v
OBVIOUS

\* What the groups of w are read as after a.
After(a, w) == a * Capacity(Len(Number!Groups(w, 0))) + w

LEMMA AfterIs ==
    ASSUME NumberAssumption, NEW a \in Nat, NEW w \in Nat
    PROVE  /\ After(a, w) \in Nat /\ After(a, w) \div Number!Radix \in Nat
           /\ After(a, w) = (After(a, w) \div Number!Radix) * Number!Radix + (w % Number!Radix)
           /\ After(a, w) \div Number!Radix
                  = IF w < Number!Radix THEN a ELSE After(a, w \div Number!Radix)
<1> DEFINE r == Number!Radix  m == Len(Number!Groups(w, 0))
<1>0. r \in Nat \ {0} /\ 0 \in 0 .. 2 /\ Flag(0) = r
  <2>1. 0 \in 0 .. 2
    OBVIOUS
  <2>2. r \in Nat /\ r >= 4
    BY <2>1, Sizes
  <2> QED
    BY <2>1, <2>2, NoTag
<1>1. w \div r \in Nat /\ w % r \in 0 .. r - 1 /\ w = (w \div r) * r + (w % r)
  BY <1>0, Parts
<1> DEFINE b == IF w < r THEN a ELSE After(a, w \div r)
<1>2. b \in Nat /\ After(a, w) = b * r + (w % r)
  <2>1. CASE w < r
    <3>1. Len(Number!Groups(w, 0)) = 1
      BY <1>0, <2>1, OneGroup
    <3>2. Capacity(0 + 1) = Capacity(0) * Number!Radix /\ Capacity(0) = 1
      BY CapacityNext
    <3>3. Capacity(1) = r
      BY <1>0, <3>2
    <3>4. After(a, w) = a * r + w
      BY <3>1, <3>3 DEF After
    <3>5. w \in 0 .. r - 1
      BY <1>0, <2>1
    <3>6. w % r = w
      BY <1>0, <3>5, RemainderIs
    <3> QED
      BY <2>1, <3>4, <3>6
  <2>2. CASE ~ (w < r)
    <3> DEFINE q == w \div r  l == Len(Number!Groups(q, 0))  k == Capacity(l)
    <3>1. q \in Nat /\ q = w \div Number!Radix
      BY <1>1
    <3>2. ~ (w < Flag(0))
      BY <1>0, <2>2
    <3>3. l \in Nat /\ Len(Number!Groups(w, 0)) = l + 1
      BY <1>0, <3>1, <3>2, MoreGroups
    <3>4. Capacity(l + 1) = k * r /\ k \in Nat
      BY <3>3, CapacityNext
    <3>5. After(a, q) = a * k + q
      BY DEF After
    <3>6. After(a, w) = a * (k * r) + w
      BY <3>3, <3>4 DEF After
    <3>7. b = After(a, q)
      BY <2>2
    <3>8. w = q * r + (w % r) /\ w % r \in Nat
      BY <1>1
    <3> DEFINE d == w % r
    <3>9. After(a, w) = a * (k * r) + (q * r + d) /\ d \in Nat /\ b = a * k + q
      BY <3>5, <3>6, <3>7, <3>8
    <3> HIDE DEF b, q, l, k, r, d
    <3>10. a * k \in Nat /\ a * (k * r) = (a * k) * r
      BY <1>0, <3>4
    <3> DEFINE e == a * k
    <3>11. e \in Nat /\ After(a, w) = e * r + (q * r + d) /\ b = e + q
      BY <3>9, <3>10
    <3> HIDE DEF e
    <3>12. b \in Nat /\ (e + q) * r = e * r + q * r /\ e * r \in Nat /\ q * r \in Nat
      BY <1>0, <3>1, <3>11
    <3>13. After(a, w) = b * r + d
      BY <3>9, <3>11, <3>12
    <3> QED
      BY <3>12, <3>13 DEF d
  <2> QED
    BY <2>1, <2>2
<1> DEFINE x == After(a, w)  d == w % r
<1>3. x = b * r + d /\ b \in Nat /\ d \in 0 .. r - 1
  BY <1>1, <1>2
<1> HIDE DEF x, b, d, r
<1>4. x \in Nat /\ x \div r = b
  BY <1>0, <1>3, QuotientIs
<1> QED
  BY <1>3, <1>4 DEF x, b, d, r

\* The bytes of c from position l + 1 on are those of the groups of w; more may follow.
Follows(c, l, w) ==
    /\ l + Len(Number!Groups(w, 0)) <= Len(c)
    /\ \A i \in 1 .. Len(Number!Groups(w, 0)) :
          c[l + i] % Number!Radix = Number!Groups(w, 0)[i]
    /\ \A i \in 1 .. Len(Number!Groups(w, 0)) - 1 : c[l + i] >= Number!Radix

\* What is read of them, a having been read before.
IsReadOn(c, l, a, w) ==
    IF After(a, w) \div Number!Radix < Least
    THEN IF c[l + Len(Number!Groups(w, 0))] >= Number!Radix
         THEN RestOf(c)[<<l + 1, a>>]
                 = RestOf(c)[<<l + Len(Number!Groups(w, 0)) + 1, After(a, w)>>]
         ELSE RestOf(c)[<<l + 1, a>>]
                 = [ok |-> TRUE, value |-> After(a, w),
                    next |-> l + Len(Number!Groups(w, 0)) + 1]
    ELSE RestOf(c)[<<l + 1, a>>] = Number!Refused

\* What is read from position k on, x having been read before it and y with it.
IsByteRead(c, k, x, y) ==
    /\ ~ (x < Least) => RestOf(c)[<<k, x>>] = Number!Refused
    /\ x < Least => IF c[k] >= Number!Radix THEN RestOf(c)[<<k, x>>] = RestOf(c)[<<k + 1, y>>]
                    ELSE RestOf(c)[<<k, x>>] = [ok |-> TRUE, value |-> y, next |-> k + 1]

LEMMA ByteRead ==
    ASSUME NumberAssumption, NEW c \in Seq(Nat), NEW k \in 1 .. Len(c) + 1, ~ (k > Len(c)),
           NEW x \in Nat, NEW y, y = x * Number!Radix + (c[k] % Number!Radix)
    PROVE  IsByteRead(c, k, x, y)
BY RestIs, KeepsIs DEF IsByteRead

\* g is h and the group d after it.
Grows(g, h, d) ==
    /\ Len(h) \in Nat /\ Len(g) = Len(h) + 1 /\ g[Len(h) + 1] = d
    /\ \A i \in 1 .. Len(h) : g[i] = h[i]

LEMMA PlainGroupsGrow ==
    ASSUME NumberAssumption, NEW v \in Nat, ~ (v < Number!Radix),
           NEW q, q = v \div Number!Radix
    PROVE  /\ q \in Nat /\ q < v
           /\ Grows(Number!Groups(v, 0), Number!Groups(q, 0), v % Number!Radix)
<1> DEFINE t == 0
<1>1. t \in 0 .. 2 /\ ~ (v < Flag(t))
  BY NoTag
<1> HIDE DEF t
<1>2. q \in Nat /\ q < v /\ Len(Number!Groups(q, t)) \in Nat
      /\ Len(Number!Groups(v, t)) = Len(Number!Groups(q, t)) + 1
      /\ Number!Groups(v, t)[Len(Number!Groups(q, t)) + 1] = v % Number!Radix
  BY <1>1, MoreGroups
<1>3. \A i \in 1 .. Len(Number!Groups(q, t)) :
          Number!Groups(v, t)[i] = Number!Groups(q, t)[i]
  BY <1>1, MoreGroups
<1> QED
  BY <1>2, <1>3 DEF Grows, t

LEMMA OneGroupReadOn ==
    ASSUME NumberAssumption, NEW c \in Seq(Nat), NEW l \in Nat, NEW a \in Nat, NEW w \in Nat,
           w < Number!Radix, Follows(c, l, w)
    PROVE  IsReadOn(c, l, a, w)
<1> DEFINE r == Number!Radix  x == After(a, w)
<1>1. Flag(0) = r /\ 0 \in 0 .. 2
  BY NoTag
<1>2. Len(Number!Groups(w, 0)) = 1 /\ Number!Groups(w, 0)[1] = w
  BY <1>1, OneGroup
<1>3. Len(c) \in Nat
  BY LenProperties
<1>4. l + 1 <= Len(c) /\ c[l + 1] % r = w
  BY <1>2 DEF Follows
<1>5. l + 1 \in 1 .. Len(c) + 1 /\ ~ (l + 1 > Len(c))
  BY <1>3, <1>4
<1>6. x \div r = a /\ x = (x \div r) * r + (w % r)
  BY AfterIs
<1>7. w % r = w
  <2>1. r \in Nat /\ r >= 4
    BY <1>1, Sizes
  <2>2. r \in Nat \ {0} /\ w \in 0 .. r - 1
    BY <2>1
  <2> HIDE DEF r
  <2> QED
    BY <2>2, RemainderIs
<1>8. x = a * r + (c[l + 1] % r)
  BY <1>4, <1>6, <1>7
<1> DEFINE k == l + 1  d == c[k]
<1>9. /\ ~ (a < Least) => RestOf(c)[<<k, a>>] = Number!Refused
      /\ a < Least => IF d >= r THEN RestOf(c)[<<k, a>>] = RestOf(c)[<<k + 1, x>>]
                      ELSE RestOf(c)[<<k, a>>] = [ok |-> TRUE, value |-> x, next |-> k + 1]
  <2>1. k \in 1 .. Len(c) + 1 /\ ~ (k > Len(c)) /\ x = a * Number!Radix + (c[k] % Number!Radix)
    BY <1>5, <1>8
  <2> HIDE DEF k, x
  <2>2. IsByteRead(c, k, a, x)
    BY <2>1, ByteRead
  <2> QED
    BY <2>2 DEF IsByteRead
<1> QED
  BY <1>2, <1>6, <1>9 DEF IsReadOn

LEMMA MoreGroupsReadOn ==
    ASSUME NumberAssumption, NEW c \in Seq(Nat), NEW l \in Nat, NEW a \in Nat, NEW w \in Nat,
           ~ (w < Number!Radix), Follows(c, l, w),
           NEW q, q = w \div Number!Radix,
           Follows(c, l, q) => IsReadOn(c, l, a, q)
    PROVE  IsReadOn(c, l, a, w)
<1> DEFINE r == Number!Radix  x == After(a, w)  y == After(a, q)
           h(v) == Number!Groups(v, 0)  k == l + Len(h(w))
<1>1. Flag(0) = r /\ 0 \in 0 .. 2 /\ r \in Nat \ {0} /\ Least \in Nat
  <2>1. 0 \in 0 .. 2 /\ Flag(0) = r
    BY NoTag
  <2>2. r \in Nat /\ r >= 4 /\ Least \in Nat
    BY <2>1, Sizes
  <2> QED
    BY <2>1, <2>2
<1>2. q \in Nat /\ Grows(h(w), h(q), w % r)
  BY PlainGroupsGrow
<1>3. q \in Nat /\ Len(h(q)) \in Nat /\ Len(h(w)) = Len(h(q)) + 1 /\ h(w)[Len(h(q)) + 1] = w % r
  BY <1>2 DEF Grows
<1>4. \A i \in 1 .. Len(h(q)) : h(w)[i] = h(q)[i]
  BY <1>2 DEF Grows
<1>5. Len(h(q)) >= 1
  BY <1>1, <1>3, GroupsFit
<1>6. Len(c) \in Nat
  BY LenProperties
<1>7. /\ k <= Len(c) /\ \A i \in 1 .. Len(h(w)) : c[l + i] % r = h(w)[i]
      /\ \A i \in 1 .. Len(h(w)) - 1 : c[l + i] >= r
  BY DEF Follows
<1> HIDE DEF h, k
<1>8. k = l + Len(h(q)) + 1 /\ k \in 1 .. Len(c) + 1 /\ ~ (k > Len(c))
  BY <1>3, <1>6, <1>7 DEF k
<1>9. c[k] % r = w % r
  <2>1. Len(h(q)) + 1 \in 1 .. Len(h(w)) /\ k = l + (Len(h(q)) + 1)
    BY <1>3, <1>8
  <2> QED
    BY <1>3, <1>7, <2>1
<1>10. Follows(c, l, q)
  <2>1. l + Len(h(q)) <= Len(c)
    BY <1>3, <1>6, <1>8
  <2>2. \A i \in 1 .. Len(h(q)) : i \in 1 .. Len(h(w)) /\ i \in 1 .. Len(h(w)) - 1
    BY <1>3
  <2>3. \A i \in 1 .. Len(h(q)) - 1 : i \in 1 .. Len(h(q))
    BY <1>3
  <2> QED
    BY <1>4, <1>7, <2>1, <2>2, <2>3 DEF Follows, h
<1>11. c[l + Len(h(q))] >= r
  <2>1. Len(h(q)) \in 1 .. Len(h(w)) - 1
    BY <1>3, <1>5
  <2> QED
    BY <1>7, <2>1
<1>12. /\ y \in Nat /\ y \div r \in Nat /\ x \div r = y /\ x = y * r + (c[k] % r)
  <2>1. y \in Nat /\ y \div r \in Nat
    BY <1>3, AfterIs
  <2>2. x \div r = y /\ x = (x \div r) * r + (w % r)
    BY AfterIs
  <2> QED
    BY <1>9, <2>1, <2>2
<1> HIDE DEF x
<1>13. IF y \div r < Least THEN RestOf(c)[<<l + 1, a>>] = RestOf(c)[<<k, y>>]
       ELSE RestOf(c)[<<l + 1, a>>] = Number!Refused
  BY <1>8, <1>10, <1>11 DEF IsReadOn, h
<1> HIDE DEF y
<1>14. /\ ~ (y < Least) => RestOf(c)[<<k, y>>] = Number!Refused
       /\ y < Least => IF c[k] >= r THEN RestOf(c)[<<k, y>>] = RestOf(c)[<<k + 1, x>>]
                       ELSE RestOf(c)[<<k, y>>] = [ok |-> TRUE, value |-> x, next |-> k + 1]
  <2>1. y \in Nat /\ k \in 1 .. Len(c) + 1 /\ ~ (k > Len(c))
        /\ x = y * Number!Radix + (c[k] % Number!Radix)
    BY <1>8, <1>12
  <2>2. IsByteRead(c, k, y, x)
    BY <2>1, ByteRead
  <2> QED
    BY <2>2 DEF IsByteRead
<1>15. y < Least => y \div r < Least
  <2>1. y \div r <= y
    BY <1>1, <1>12, QuotientSmall
  <2> QED
    BY <1>1, <1>12, <2>1
<1>16. IF x \div r < Least
       THEN IF c[k] >= r THEN RestOf(c)[<<l + 1, a>>] = RestOf(c)[<<k + 1, x>>]
            ELSE RestOf(c)[<<l + 1, a>>] = [ok |-> TRUE, value |-> x, next |-> k + 1]
       ELSE RestOf(c)[<<l + 1, a>>] = Number!Refused
  BY <1>12, <1>13, <1>14, <1>15
<1> QED
  BY <1>16 DEF IsReadOn, x, k, h

LEMMA ReadOn ==
    ASSUME NumberAssumption, NEW c \in Seq(Nat), NEW l \in Nat, NEW a \in Nat
    PROVE  \A w \in Nat : Follows(c, l, w) => IsReadOn(c, l, a, w)
<1> DEFINE B == {w \in Nat : Follows(c, l, w) /\ ~ IsReadOn(c, l, a, w)}
<1> SUFFICES ASSUME B # {} PROVE FALSE
  OBVIOUS
<1>1. PICK m \in B : \A k \in B : m <= k
  <2>1. B \subseteq Nat
    OBVIOUS
  <2> HIDE DEF B
  <2> QED
    BY <2>1, Dir!LeastOf
<1>2. /\ m \in Nat /\ Follows(c, l, m) /\ ~ IsReadOn(c, l, a, m)
      /\ \A k \in Nat : k < m /\ Follows(c, l, k) => IsReadOn(c, l, a, k)
  BY <1>1
<1> HIDE DEF B
<1>3. ~ (m < Number!Radix)
  BY <1>2, OneGroupReadOn
<1> DEFINE q == m \div Number!Radix
<1>4. q \in Nat /\ q < m
  <2>1. 0 \in 0 .. 2
    OBVIOUS
  <2>2. Number!Radix \in Nat /\ Number!Radix >= 4
    BY <2>1, Sizes
  <2>3. m > 0 /\ Number!Radix > 1
    BY <1>2, <1>3, <2>2
  <2> QED
    BY <1>2, <2>2, <2>3, QuotientLess
<1>5. q = m \div Number!Radix /\ (Follows(c, l, q) => IsReadOn(c, l, a, q))
  BY <1>2, <1>4
<1> HIDE DEF q
<1>6. IsReadOn(c, l, a, m)
  BY <1>2, <1>3, <1>5, MoreGroupsReadOn
<1> QED
  BY <1>2, <1>6

\* The first of two joined codes: every byte is flagged.
IsContinued(d, n, v) ==
    /\ d \in Seq(Nat) /\ Len(d) = n
    /\ \A i \in 1 .. n : /\ d[i] \in Nat /\ d[i] < 2 * Number!Radix
                         /\ d[i] >= Number!Radix
                         /\ d[i] % Number!Radix = Number!Groups(v, 0)[i]

LEMMA JoinedFirst ==
    ASSUME NumberAssumption, NEW v \in Nat, NEW c, NEW n, IsPlainCode(c, n, v),
           NEW d, d = [c EXCEPT ![Len(c)] = @ + Number!Radix]
    PROVE  IsContinued(d, n, v)
<1> DEFINE r == Number!Radix  g == Number!Groups(v, 0)
<1>1. r \in Nat \ {0}
  <2>1. 0 \in 0 .. 2
    OBVIOUS
  <2>2. r \in Nat /\ r >= 4
    BY <2>1, Sizes
  <2> QED
    BY <2>2
<1>2. c \in Seq(Nat) /\ Len(c) = n /\ n \in Nat /\ n >= 1
  BY DEF IsPlainCode
<1>3. \A i \in 1 .. n : c[i] \in Nat /\ c[i] < 2 * r /\ c[i] % r = g[i] /\ (c[i] >= r <=> i # n)
  BY DEF IsPlainCode
<1> HIDE DEF r, g
<1>4. DOMAIN c = 1 .. n
  BY <1>2, LenProperties
<1>5. d = [c EXCEPT ![n] = c[n] + r]
  BY <1>2, <1>4 DEF r
<1>6. d = [i \in 1 .. n |-> IF i = n THEN c[n] + r ELSE c[i]]
  BY <1>4, <1>5
<1>7. ASSUME NEW i \in 1 .. n
      PROVE  d[i] \in Nat /\ d[i] < 2 * r /\ d[i] >= r /\ d[i] % r = g[i]
  <2>1. CASE i = n
    <3> DEFINE x == c[n]  y == d[n]
    <3>1. x \in Nat /\ ~ (x >= r) /\ x % r = g[n]
      BY <1>2, <1>3
    <3>2. y = x + r
      BY <1>2, <1>6
    <3> HIDE DEF x, y
    <3>3. x \in 0 .. r - 1 /\ y \in Nat /\ y < 2 * r /\ y >= r /\ 1 \in Nat /\ y = 1 * r + x
      BY <1>1, <3>1, <3>2
    <3>4. y % r = x
      BY <1>1, <3>3, QuotientIs
    <3>5. x % r = x
      BY <1>1, <3>3, RemainderIs
    <3> QED
      BY <2>1, <3>1, <3>3, <3>4, <3>5 DEF y
  <2>2. CASE i # n
    BY <1>3, <1>6, <2>2
  <2> QED
    BY <2>1, <2>2
<1>8. d \in Seq(Nat) /\ Len(d) = n
  BY <1>2, <1>6, <1>7, IsASeq
<1> QED
  BY <1>7, <1>8 DEF IsContinued, r, g

\* The codes c of v and p of w, joined, are read as what their groups are, if it fits.
JoinIsRead(c, p, v, w) ==
    LET x == v * Capacity(Len(p)) + w
        u == Number!UnpackUIntWithTag([c EXCEPT ![Len(c)] = @ + Number!Radix] \o p, 1, 0)
    IN IF x \in Number!StreamPos THEN u.ok /\ u.value = x ELSE ~ u.ok

LEMMA JoinedRead ==
    ASSUME NumberAssumption, NEW v \in Number!StreamPos, NEW w \in Nat,
           NEW c, c = Number!PackUIntWithTag(v, 0, 0),
           NEW p, p = Number!PackUIntWithTag(w, 0, 0)
    PROVE  JoinIsRead(c, p, v, w)
<1> SUFFICES ASSUME NEW d, d = [c EXCEPT ![Len(c)] = @ + Number!Radix],
                    NEW j, j = d \o p, NEW x, x = v * Capacity(Len(p)) + w,
                    NEW u, u = Number!UnpackUIntWithTag(j, 1, 0)
             PROVE  IF x \in Number!StreamPos THEN u.ok /\ u.value = x ELSE ~ u.ok
  BY DEF JoinIsRead
<1> DEFINE r == Number!Radix  n == Len(Number!Groups(v, 0))  m == Len(Number!Groups(w, 0))
<1>1. r \in Nat \ {0} /\ Least \in Nat
  <2>1. 0 \in 0 .. 2
    OBVIOUS
  <2>2. r \in Nat /\ r >= 4 /\ Least \in Nat
    BY <2>1, Sizes
  <2> QED
    BY <2>2
<1>2. v \in Nat /\ v < Least * r
  <2>1. v \in Nat
    BY DEF Number!StreamPos
  <2> QED
    BY <2>1, StreamPosIs
<1>3. IsPlainCode(c, n, v) /\ IsPlainCode(p, m, w)
  BY <1>2, PlainCodeIs
<1>4. n \in Nat /\ n >= 1 /\ m \in Nat /\ m >= 1 /\ p \in Seq(Nat) /\ Len(p) = m
  BY <1>3 DEF IsPlainCode
<1>5. /\ d \in Seq(Nat) /\ Len(d) = n
      /\ \A i \in 1 .. n : /\ d[i] \in Nat /\ d[i] < 2 * r /\ d[i] >= r
                           /\ d[i] % r = Number!Groups(v, 0)[i]
  <2>1. v \in Nat /\ IsPlainCode(c, n, v)
    BY <1>2, <1>3
  <2>2. IsContinued(d, n, v)
    <3> HIDE DEF n
    <3> QED
      BY <2>1, JoinedFirst
  <2> QED
    BY <2>2 DEF IsContinued
<1>6. /\ j \in Seq(Nat) /\ Len(j) = n + m
      /\ \A i \in 1 .. n : j[i] = d[i]
      /\ \A i \in 1 .. m : j[n + i] = p[i]
  <2> HIDE DEF n, m
  <2>1. /\ j \in Seq(Nat) /\ Len(j) = Len(d) + Len(p)
        /\ \A i \in 1 .. Len(d) : j[i] = d[i]
        /\ \A i \in 1 .. Len(p) : j[Len(d) + i] = p[i]
    BY <1>4, <1>5, Dir!Cat
  <2> QED
    BY <1>4, <1>5, <2>1
<1>7. Begins(j, v, 0)
  <2> SUFFICES ASSUME NEW i \in 1 .. n
               PROVE  i <= Len(j) /\ Carries(j, i, 0, Number!Groups(v, 0)[i])
    BY DEF Begins
  <2> HIDE DEF n, m
  <2>1. i <= Len(j)
    BY <1>4, <1>6
  <2>2. j[i] \in Nat /\ j[i] < 2 * r /\ j[i] >= r /\ j[i] % r = Number!Groups(v, 0)[i]
    BY <1>5, <1>6
  <2>3. (j[i] \div r) % 2 = 1
    <3> DEFINE y == j[i]
    <3>1. y \in Nat /\ y < 2 * r /\ y >= r
      BY <2>2
    <3> HIDE DEF y, r
    <3>2. (y \div r) % 2 = 1
      BY <1>1, <3>1, Odd
    <3> QED
      BY <3>2 DEF y
  <2> QED
    BY <2>1, <2>2, <2>3, NoTag DEF Carries
<1>8. Number!UnpackUIntWithTag(j, 1, 0) = RestOf(j)[<<n + 1, v>>]
  <2> DEFINE t == 0
  <2>1. t \in 0 .. 2 /\ Begins(j, v, t)
    BY <1>7
  <2>2. v \div Number!Radix < Least
    BY <1>1, <1>2, QuotientBelow
  <2> HIDE DEF t
  <2>3. Number!UnpackUIntWithTag(j, 1, t) = RestOf(j)[<<Len(Number!Groups(v, t)) + 1, v>>]
    BY <1>2, <1>6, <2>1, <2>2, ReadsGroups
  <2> QED
    BY <2>3 DEF t
<1>9. \A i \in 1 .. m : p[i] % r = Number!Groups(w, 0)[i] /\ (p[i] >= r <=> i # m)
  BY <1>3 DEF IsPlainCode
<1>10. Follows(j, n, w)
  <2>1. n + m <= Len(j)
    BY <1>4, <1>6
  <2>2. \A i \in 1 .. m : j[n + i] % r = Number!Groups(w, 0)[i]
    BY <1>6, <1>9
  <2>3. \A i \in 1 .. m - 1 : j[n + i] >= r
    <3>1. \A i \in 1 .. m - 1 : i \in 1 .. m /\ i # m
      <4>1. m \in Nat
        BY <1>4
      <4> HIDE DEF m
      <4> QED
        BY <4>1
    <3> QED
      BY <1>6, <1>9, <3>1
  <2> HIDE DEF n
  <2> QED
    BY <2>1, <2>2, <2>3 DEF Follows
<1>11. ~ (j[n + m] >= r)
  <2>1. m \in 1 .. m
    BY <1>4
  <2>2. j[n + m] = p[m]
    BY <1>6, <2>1
  <2>3. ~ (p[m] >= r)
    BY <1>9, <2>1
  <2> QED
    BY <2>2, <2>3
<1>12. x = After(v, w) /\ x \in Nat
  <2>1. x = After(v, w)
    BY <1>4 DEF After
  <2> QED
    BY <1>2, <2>1, AfterIs
<1>13. IsReadOn(j, n, v, w)
  <2> HIDE DEF n
  <2> QED
    BY <1>2, <1>4, <1>6, <1>10, ReadOn
<1>14. IF x \div r < Least THEN u = [ok |-> TRUE, value |-> x, next |-> n + m + 1]
       ELSE u = Number!Refused
  BY <1>8, <1>11, <1>12, <1>13 DEF IsReadOn
<1>15. x \div r < Least <=> x \in Number!StreamPos
  BY <1>1, <1>12, QuotientBelow, StreamPosIs
<1>16. ~ Number!Refused.ok
  BY DEF Number!Refused
<1> QED
  BY <1>14, <1>15, <1>16

-----------------------------------------------------------------------------
(* Numbers: the theorems                                                    *)

\* A number's state is a value with a tag.
NumberInv ==
    kind = "number" => input \in Number!StreamPos /\ r1 \in 0 .. 2 /\ r2 \in 0 .. 2 ^ r1 - 1

LEMMA NumberHolds == ASSUME NumberAssumption PROVE Spec => []NumberInv
<1>1. 0 \in Number!StreamPos
  <2>1. 0 \in 0 .. 2
    OBVIOUS
  <2>2. Number!Radix \in Nat /\ Number!Radix >= 4 /\ Least \in Nat \ {0}
    BY <2>1, Sizes
  <2> DEFINE r == Number!Radix  l == Least
  <2>3. r \in Nat /\ r >= 4 /\ l \in Nat \ {0}
    BY <2>2
  <2> HIDE DEF r, l
  <2>4. 0 < l * r
    BY <2>3
  <2> QED
    BY <2>4, StreamPosIs DEF r, l
<1>2. Init => NumberInv
  BY <1>1 DEF Init, Number!Init, NumberInv
<1>3. NumberInv /\ [Next]_vars => NumberInv'
  <2> SUFFICES ASSUME NumberInv, [Next]_vars, kind' = "number"
               PROVE  input' \in Number!StreamPos /\ r1' \in 0 .. 2 /\ r2' \in 0 .. 2 ^ r1' - 1
    BY DEF NumberInv
  <2>1. kind = "number" /\ [Number!NextValue]_<<input, r1, r2>>
    BY DEF Next, vars
  <2>2. input \in Number!StreamPos /\ r1 \in 0 .. 2 /\ r2 \in 0 .. 2 ^ r1 - 1
    BY <2>1 DEF NumberInv
  <2>3. r1' = r1 /\ r2' = r2 /\ (input' = input \/ input' \in Number!StreamPos)
    BY <2>1 DEF Number!NextValue
  <2> QED
    BY <2>2, <2>3
<1> QED
  BY <1>2, <1>3, PTL DEF Spec

\* Writer and reader of a packed integer agree (hpatch_packUIntWithTag,
\* hpatch_unpackUIntWithTag): every value of every width is read back with its tag,
\* and the reader stops at the first byte after its code.
THEOREM NumbersAreReadBack ==
    ASSUME Number!ByteBitsAssumption, Number!UIntBitsAssumption
    PROVE  Spec => []NumberReadBack
<1>0. NumberAssumption
  BY Number!ByteBitsAssumption, Number!UIntBitsAssumption DEF NumberAssumption
<1>1. NumberInv => NumberReadBack
  <2> SUFFICES ASSUME NumberInv, kind = "number" PROVE Number!ReadBack
    BY DEF NumberReadBack
  <2> DEFINE v == input  t == r1  w == r2  c == Number!Code  n == Len(Number!Groups(v, t))
             Afters == {<<>>, <<0>>, <<2 * Number!Radix - 1, 1>>}
  <2>1. v \in Number!StreamPos /\ t \in 0 .. 2 /\ w \in 0 .. 2 ^ t - 1 /\ v \in Nat
    BY DEF NumberInv, Number!StreamPos
  <2>2. c = Number!PackUIntWithTag(v, w, t)
    BY DEF Number!Code
  <2> HIDE DEF v, t, w, c
  <2>3. \A after \in Afters : after \in Seq(Nat)
    <3>1. Number!Radix \in Nat /\ Number!Radix >= 4
      BY <1>0, <2>1, Sizes
    <3> DEFINE x == 2 * Number!Radix - 1
    <3>2. x \in Nat
      BY <3>1
    <3> HIDE DEF x
    <3>3. <<>> \in Seq(Nat) /\ <<0>> \in Seq(Nat) /\ <<x, 1>> \in Seq(Nat)
      BY <3>2
    <3> QED
      BY <3>3 DEF x
  <2>4. \A after \in Seq(Nat) : Number!UnpackUIntWithTag(c \o after, 1, t)
                                    = [ok |-> TRUE, value |-> v, next |-> Len(c) + 1]
    BY <1>0, <2>1, <2>2, CodeIsReadBack
  <2>5. IsCode(c, n, v, w, t)
    BY <1>0, <2>1, <2>2, CodeIs
  <2>6. c[1] \div 2 ^ (NumberByteBits - t) = w /\ \A i \in 1 .. Len(c) : c[i] \in Number!Byte
    BY <2>5 DEF IsCode
  <2>7. \A after \in Afters :
           /\ Number!UnpackUIntWithTag(c \o after, 1, t)
                  = [ok |-> TRUE, value |-> v, next |-> Len(c) + 1]
           /\ c[1] \div 2 ^ (NumberByteBits - t) = w
           /\ \A i \in 1 .. Len(c) : c[i] \in Number!Byte
    BY <2>3, <2>4, <2>6
  <2> QED
    BY <2>7 DEF Number!ReadBack, Number!IsByte, v, t, w, c
<1> QED
  BY <1>0, <1>1, NumberHolds, PTL

\* hpatch_packUIntWithTag_size counts the bytes that hpatch_packUIntWithTag writes, and
\* hpatch_kMaxPackedUIntBytes is enough for every value of the width it is computed from.
THEOREM NumberSizesAreKnown ==
    ASSUME Number!ByteBitsAssumption, Number!UIntBitsAssumption
    PROVE  Spec => []NumberSizeIsKnown
<1>0. NumberAssumption
  BY Number!ByteBitsAssumption, Number!UIntBitsAssumption DEF NumberAssumption
<1>1. NumberInv => NumberSizeIsKnown
  <2> SUFFICES ASSUME NumberInv, kind = "number" PROVE Number!SizeIsKnown
    BY DEF NumberSizeIsKnown
  <2> DEFINE v == input  t == r1  w == r2  c == Number!Code  n == Len(Number!Groups(v, t))
  <2>1. v \in Number!StreamPos /\ t \in 0 .. 2 /\ w \in 0 .. 2 ^ t - 1 /\ v \in Nat
    BY DEF NumberInv, Number!StreamPos
  <2>2. c = Number!PackUIntWithTag(v, w, t)
    BY DEF Number!Code
  <2> HIDE DEF v, t, w, c
  <2>3. IsCode(c, n, v, w, t)
    BY <1>0, <2>1, <2>2, CodeIs
  <2>4. Len(c) = n
    BY <2>3 DEF IsCode
  <2>5. Number!PackUIntSize(v, t) = n
    BY <1>0, <2>1, SizeCounts
  <2>6. n <= Number!MaxPackedUIntBytes
    BY <1>0, <2>1, GroupsFitBuffers
  <2> QED
    BY <2>4, <2>5, <2>6 DEF Number!SizeIsKnown, v, t, w, c
<1> QED
  BY <1>0, <1>1, NumberHolds, PTL

\* hpatch_unpackUIntWithTag refuses a code that is cut short, and of two codes joined
\* into one it refuses exactly those whose value loses bits: no number comes out smaller
\* than it was written.
THEOREM BadNumbersAreRefused ==
    ASSUME Number!ByteBitsAssumption, Number!UIntBitsAssumption
    PROVE  Spec => []BadNumberRefused
<1>0. NumberAssumption
  BY Number!ByteBitsAssumption, Number!UIntBitsAssumption DEF NumberAssumption
<1>1. NumberInv => BadNumberRefused
  <2> SUFFICES ASSUME NumberInv, kind = "number" PROVE Number!IncompleteOrTooLargeRefused
    BY DEF BadNumberRefused
  <2> DEFINE v == input  t == r1  w == r2  c == Number!Code
             Others == {0, 1, Number!Radix, v}
  <2>1. v \in Number!StreamPos /\ t \in 0 .. 2 /\ w \in 0 .. 2 ^ t - 1 /\ v \in Nat
    BY DEF NumberInv, Number!StreamPos
  <2>2. c = Number!PackUIntWithTag(v, w, t)
    BY DEF Number!Code
  <2>3. ASSUME NEW k \in 0 .. Len(c) - 1
        PROVE  ~ Number!UnpackUIntWithTag(SubSeq(c, 1, k), 1, t).ok
    <3> HIDE DEF v, t, w, c
    <3>1. Number!UnpackUIntWithTag(SubSeq(c, 1, k), 1, t) = Number!Refused
      BY <1>0, <2>1, <2>2, CutCodeRefused
    <3> QED
      BY <3>1 DEF Number!Refused
  <2>4. ASSUME t = 0, NEW o \in Others
        PROVE  IF Number!Exact(o) \in Number!StreamPos
               THEN /\ Number!UnpackUInt(Number!Joined(o), 1).ok
                    /\ Number!UnpackUInt(Number!Joined(o), 1).value = Number!Exact(o)
               ELSE ~ Number!UnpackUInt(Number!Joined(o), 1).ok
    <3> DEFINE p == Number!PackUInt(o)
    <3>1. w = 0 /\ o \in Nat
      <4>1. Number!Radix \in Nat
        BY <1>0, <2>1, Sizes
      <4> QED
        BY <1>0, <2>1, <2>4, <4>1, NoTag
    <3>2. c = Number!PackUIntWithTag(v, 0, 0) /\ p = Number!PackUIntWithTag(o, 0, 0)
      BY <2>2, <2>4, <3>1 DEF Number!PackUInt
    <3> HIDE DEF Others
    <3>3. JoinIsRead(c, p, v, o)
      <4> HIDE DEF v, t, w, c, p
      <4> QED
        BY <1>0, <2>1, <3>1, <3>2, JoinedRead
    <3> QED
      BY <3>3 DEF JoinIsRead, Number!Exact, Number!Joined, Number!UnpackUInt, Capacity
  <2>5. t = 0 =>
          \A o \in Others :
              LET u == Number!UnpackUInt(Number!Joined(o), 1)
              IN IF Number!Exact(o) \in Number!StreamPos
                 THEN u.ok /\ u.value = Number!Exact(o) ELSE ~ u.ok
    BY <2>4
  <2> QED
    BY <2>3, <2>5 DEF Number!IncompleteOrTooLargeRefused
<1> QED
  BY <1>0, <1>1, NumberHolds, PTL

-----------------------------------------------------------------------------
(* Diffs: the buffers of the diff's decoder, whatever the diff says         *)

PatchAssumption ==
    Patch!ByteBitsAssumption /\ Patch!UIntBitsAssumption /\ Patch!CacheSizeAssumption

\* What may arrive as a diff: the bytes are any, and so are the numbers of the header,
\* but the stream ends no later than it declares. (_TStreamCacheClip_readDataTo reads a
\* long rest without comparing it with that end: it relies on the stream to refuse.)
IsReceived(d) ==
    /\ d.old \in Seq(Nat) /\ d.new \in Seq(Nat) /\ d.body \in Seq(Nat)
    /\ d.coverCount \in Patch!StreamPos /\ d.stepMemSize \in Nat /\ d.uncompressedSize \in Nat
    /\ Len(d.body) <= d.uncompressedSize

LEMMA PatchSizes ==
    ASSUME PatchAssumption, NEW t \in 0 .. 1
    PROVE  /\ Patch!Radix \in Nat \ {0} /\ 2 ^ UIntBits \in Nat \ {0}
           /\ 2 ^ (ByteBits - 1 - t) \in Nat \ {0}
           /\ CacheSize \in Nat /\ Patch!MaxPackedUIntBytes \in Nat
<1>1. ByteBits \in Nat /\ ByteBits > 2 /\ UIntBits \in Nat /\ UIntBits > ByteBits /\ CacheSize \in Nat
  BY DEF PatchAssumption, Patch!ByteBitsAssumption, Patch!UIntBitsAssumption,
         Patch!CacheSizeAssumption
<1>2. ByteBits - 1 - t \in Nat /\ ByteBits - 1 \in Nat \ {0} /\ UIntBits + ByteBits - 2 \in Nat
  BY <1>1
<1>3. 2 ^ UIntBits \in Nat \ {0} /\ 2 ^ (ByteBits - 1 - t) \in Nat \ {0}
      /\ 2 ^ (ByteBits - 1) \in Nat \ {0}
  BY <1>1, <1>2, PowType
<1>4. (UIntBits + ByteBits - 2) \div (ByteBits - 1) \in Nat
  BY <1>2, Parts
<1> QED
  BY <1>1, <1>3, <1>4 DEF Patch!Radix, Patch!MaxPackedUIntBytes

LEMMA RestType ==
    ASSUME NEW c \in Seq(Nat), NEW r \in Nat \ {0}, NEW least, NEW f,
           f = RestFrom(f, c, r, least)
    PROVE  \A s \in Rests(c) : f[s] \in Readings(c)
<1> DEFINE l == Len(c)  V == Readings(c)
           B == {k \in Nat : \E s \in Rests(c) : l + 1 - s[1] = k /\ f[s] \notin V}
<1>1. l \in Nat /\ \A i \in 1 .. l : c[i] \in Nat
  BY LenProperties, ElementOfSeq
<1>2. \A s \in Rests(c) : s[1] \in 1 .. l + 1 /\ s[2] \in Nat
  BY DEF Rests
<1> SUFFICES ASSUME NEW z \in Rests(c), f[z] \notin V PROVE FALSE
  OBVIOUS
<1>3. PICK m \in B : \A k \in B : m <= k
  <2>1. B \subseteq Nat
    OBVIOUS
  <2>2. l + 1 - z[1] \in B
    BY <1>1, <1>2
  <2> HIDE DEF B
  <2> QED
    BY <2>1, <2>2, Dir!LeastOf
<1>4. PICK s \in Rests(c) : l + 1 - s[1] = m /\ f[s] \notin V
  BY <1>3
<1> DEFINE a == s[1]  x == s[2]  y == (x * r) + (c[a] % r)
<1>5. a \in 1 .. l + 1 /\ x \in Nat
  BY <1>2
<1>6. f[s] = IF ~ (x < least) \/ a > l THEN Number!Refused
             ELSE IF c[a] >= r THEN f[<<a + 1, y>>]
             ELSE [ok |-> TRUE, value |-> y, next |-> a + 1]
  BY DEF RestFrom, Rests
<1>7. ~ (a > l)
  BY <1>4, <1>6 DEF Readings
<1>8. a + 1 \in 1 .. l + 1 /\ y \in Nat
  <2> DEFINE d == c[a]
  <2>1. a \in 1 .. l /\ d \in Nat
    BY <1>1, <1>5, <1>7
  <2> HIDE DEF d
  <2>2. d % r \in Nat
    BY <2>1, Parts
  <2>3. x * r \in Nat
    BY <1>5
  <2> DEFINE p == x * r  q == d % r
  <2>4. p \in Nat /\ q \in Nat
    BY <2>2, <2>3
  <2> HIDE DEF p, q
  <2>5. p + q \in Nat /\ a + 1 \in 1 .. l + 1
    BY <1>1, <2>1, <2>4
  <2> QED
    BY <2>5 DEF d, p, q
<1> DEFINE e == [ok |-> TRUE, value |-> y, next |-> a + 1]
<1>9. e \in V
  <2> HIDE DEF y
  <2> QED
    BY <1>8 DEF Readings
<1> HIDE DEF e
<1>10. f[s] = f[<<a + 1, y>>]
  <2>1. Number!Refused \in V
    BY DEF Readings
  <2> HIDE DEF V
  <2> QED
    BY <1>4, <1>6, <1>9, <2>1 DEF e
<1> HIDE DEF y
<1> DEFINE n == <<a + 1, y>>
<1>11. n \in Rests(c) /\ n[1] = a + 1
  BY <1>8 DEF Rests
<1>12. f[n] \notin V
  BY <1>4, <1>10
<1> HIDE DEF n, V, a
<1>13. l + 1 - (a + 1) \in B
  <2>1. l + 1 - (a + 1) \in Nat
    BY <1>1, <1>5, <1>7
  <2> QED
    BY <1>11, <1>12, <2>1
<1> HIDE DEF B
<1>14. m <= l + 1 - (a + 1) /\ m = l + 1 - a
  BY <1>3, <1>4, <1>13 DEF a
<1> QED
  BY <1>1, <1>5, <1>14

LEMMA PatchUnpackIs ==
    ASSUME NEW c, NEW k, NEW t
    PROVE  Patch!UnpackUIntWithTag(c, k, t)
               = IF k > Len(c) THEN Number!Refused
                 ELSE IF (c[k] \div 2 ^ (ByteBits - 1 - t)) % 2 = 1
                      THEN RestIn(c, Patch!Radix, 2 ^ (UIntBits - (ByteBits - 1)))
                                [<<k + 1, c[k] % 2 ^ (ByteBits - 1 - t)>>]
                 ELSE [ok |-> TRUE, value |-> c[k] % 2 ^ (ByteBits - 1 - t), next |-> k + 1]
BY DEF Patch!UnpackUIntWithTag, Patch!KeepsAllBits, Patch!Refused, Number!Refused, RestIn, RestFrom

\* What is read is a number, and what follows it begins within the code or behind it.
LEMMA PatchUnpacks ==
    ASSUME PatchAssumption, NEW c \in Seq(Nat), NEW k \in Nat \ {0}, NEW t \in 0 .. 1,
           NEW u, u = Patch!UnpackUIntWithTag(c, k, t), u.ok
    PROVE  u.value \in Nat /\ u.next \in Nat /\ u.next \in 1 .. Len(c) + 1
<1> DEFINE l == Len(c)  f == 2 ^ (ByteBits - 1 - t)  r == Patch!Radix
           least == 2 ^ (UIntBits - (ByteBits - 1))  h == RestIn(c, r, least)  x == c[k] % f
           e == [ok |-> TRUE, value |-> x, next |-> k + 1]
           V == Readings(c)
<1>1. l \in Nat /\ r \in Nat \ {0} /\ f \in Nat \ {0}
  BY LenProperties, PatchSizes
<1>2. u = IF k > l THEN Number!Refused
          ELSE IF (c[k] \div f) % 2 = 1 THEN h[<<k + 1, x>>] ELSE e
  BY PatchUnpackIs
<1>3. \A s \in Rests(c) : h[s] \in V
  <2> HIDE DEF least, r, V
  <2>1. h = RestFrom(h, c, r, least)
    <3>1. \E g : g = RestFrom(g, c, r, least)
      BY <1>1, RestExists
    <3> QED
      BY <3>1 DEF RestIn
  <2> HIDE DEF h
  <2> QED
    BY <1>1, <2>1, RestType DEF V
<1> HIDE DEF h, e
<1>4. u \in V
  <2>1. CASE k > l
    BY <1>2, <2>1 DEF Readings
  <2>2. CASE ~ (k > l)
    <3>1. k \in 1 .. l /\ k + 1 \in 1 .. l + 1
      BY <1>1, <2>2
    <3>2. c[k] \in Nat
      BY <3>1, ElementOfSeq
    <3>3. x \in Nat
      <4> DEFINE y == c[k]
      <4>0. y \in Nat
        BY <3>2
      <4> HIDE DEF y, f
      <4>1. y % f \in Nat
        BY <1>1, <4>0, Parts
      <4> QED
        BY <4>1 DEF y
    <3> HIDE DEF x
    <3>4. <<k + 1, x>> \in Rests(c)
      BY <3>1, <3>3 DEF Rests
    <3>5. e \in V
      BY <3>1, <3>3 DEF Readings, e
    <3> HIDE DEF V
    <3> QED
      BY <1>2, <1>3, <2>2, <3>4, <3>5
  <2> QED
    BY <2>1, <2>2
<1>5. ~ Number!Refused.ok
  BY DEF Number!Refused
<1>6. u # Number!Refused
  BY <1>5
<1>7. u \in [ok : {TRUE}, value : Nat, next : 1 .. l + 1]
  BY <1>4, <1>6 DEF Readings
<1> HIDE DEF l
<1>8. u.value \in Nat /\ u.next \in 1 .. l + 1
  BY <1>7
<1> QED
  BY <1>1, <1>8 DEF l

\* The diff's buffer: where the next byte is to be fetched, and the bytes fetched.
IsClip(c) ==
    /\ c \in [ok : BOOLEAN, pos : Nat, buf : Seq(Nat)]
    /\ c.ok /\ c.pos <= Len(input.body) /\ Len(c.buf) <= CacheSize

LEMMA SmallerIs ==
    ASSUME NEW a \in Nat, NEW b \in Nat, NEW n, n = Patch!Smaller(a, b)
    PROVE  n \in Nat /\ n <= a /\ n <= b /\ (n = a \/ n = b)
BY DEF Patch!Smaller

LEMMA SkipIs ==
    ASSUME NEW S, NEW s \in Seq(S), NEW n \in 0 .. Len(s), NEW t, t = Patch!Skip(s, n)
    PROVE  t \in Seq(S) /\ Len(t) = Len(s) - n
<1> DEFINE l == Len(s)  k == l - n
<1>1. l \in Nat /\ n \in Nat /\ k \in Nat /\ n + k = l
  BY LenProperties
<1>2. t = SubSeq(s, n + 1, l)
  BY DEF Patch!Skip
<1> HIDE DEF k
<1>3. t = SubSeq(s, n + 1, n + k) /\ n + k <= Len(s)
  BY <1>1, <1>2
<1>4. t \in Seq(S) /\ Len(t) = k
  BY <1>1, <1>3, Window
<1> QED
  BY <1>4 DEF k

LEMMA FirstOf ==
    ASSUME NEW S, NEW s \in Seq(S), NEW n \in 0 .. Len(s), NEW t, t = SubSeq(s, 1, n)
    PROVE  t \in Seq(S) /\ Len(t) = n
<1>1. Len(s) \in Nat
  BY LenProperties
<1>2. 0 \in Nat /\ n \in Nat /\ 0 + n <= Len(s) /\ 0 + 1 = 1 /\ 0 + n = n
  BY <1>1
<1>3. t = SubSeq(s, 0 + 1, 0 + n)
  BY <1>2
<1> QED
  BY <1>2, <1>3, Window

LEMMA ClipUpdated ==
    ASSUME PatchAssumption, IsReceived(input), NEW c, IsClip(c),
           NEW a, a = Patch!UpdateCache(c), a.ok
    PROVE  IsClip(a)
<1> DEFINE l == Len(c.buf)  p == c.pos  b == Len(input.body)
           n == Patch!FetchSize(c)  w == SubSeq(input.body, p + 1, p + n)
<1>1. /\ c.buf \in Seq(Nat) /\ input.body \in Seq(Nat) /\ p \in Nat /\ p <= b /\ l <= CacheSize
      /\ input.uncompressedSize \in Nat /\ b <= input.uncompressedSize
  BY DEF IsClip, IsReceived
<1>2. CacheSize \in Nat /\ l \in Nat /\ b \in Nat
  <2>1. 0 \in 0 .. 1
    OBVIOUS
  <2> QED
    BY <1>1, <2>1, PatchSizes, LenProperties
<1>3. n \in Nat /\ n <= CacheSize - l
  <2>1. CacheSize - l \in Nat /\ input.uncompressedSize - p \in Nat
    BY <1>1, <1>2
  <2>2. n = Patch!Smaller(CacheSize - l, input.uncompressedSize - p)
    BY DEF Patch!FetchSize
  <2> HIDE DEF n, l, p
  <2> QED
    BY <2>1, <2>2, SmallerIs
<1>4. a = IF p + n > b THEN Patch!BadClip
          ELSE [ok |-> TRUE, pos |-> p + n, buf |-> c.buf \o w]
  BY DEF Patch!UpdateCache
<1>5. ~ Patch!BadClip.ok
  BY DEF Patch!BadClip
<1> HIDE DEF n, p, b, l, w
<1>6. p + n <= b /\ a = [ok |-> TRUE, pos |-> p + n, buf |-> c.buf \o w]
  <2>1. ~ (p + n > b)
    BY <1>4, <1>5
  <2> QED
    BY <1>1, <1>2, <1>3, <1>4, <2>1
<1>7. w \in Seq(Nat) /\ Len(w) = n
  <2> DEFINE t == input.body
  <2>1. t \in Seq(Nat) /\ p \in Nat /\ n \in Nat /\ p + n <= Len(t)
    BY <1>1, <1>3, <1>6 DEF b
  <2>2. w = SubSeq(t, p + 1, p + n)
    BY DEF w
  <2> HIDE DEF t
  <2> QED
    BY <2>1, <2>2, Window
<1>8. c.buf \o w \in Seq(Nat) /\ Len(c.buf \o w) = l + n
  BY <1>1, <1>7, Dir!Cat DEF l
<1>9. p + n \in Nat /\ l + n <= CacheSize
  BY <1>1, <1>2, <1>3
<1> QED
  BY <1>6, <1>8, <1>9 DEF IsClip, b

LEMMA ClipAccessed ==
    ASSUME PatchAssumption, IsReceived(input), NEW c, IsClip(c), NEW n,
           NEW a, a = Patch!AccessData(c, n), a.ok
    PROVE  IsClip(a) /\ n <= Len(a.buf)
<1> DEFINE e == IF n > Len(c.buf) THEN Patch!UpdateCache(c) ELSE c
<1>1. a = IF e.ok /\ n <= Len(e.buf) THEN e ELSE Patch!BadClip
  BY DEF Patch!AccessData
<1>2. ~ Patch!BadClip.ok
  BY DEF Patch!BadClip
<1> HIDE DEF e
<1>3. a = e /\ e.ok /\ n <= Len(e.buf)
  BY <1>1, <1>2
<1>4. CASE n > Len(c.buf)
  <2>1. e = Patch!UpdateCache(c)
    BY <1>4 DEF e
  <2> QED
    BY <1>3, <2>1, ClipUpdated
<1>5. CASE ~ (n > Len(c.buf))
  BY <1>3, <1>5 DEF e
<1> QED
  BY <1>3, <1>4, <1>5

LEMMA ClipSkipped ==
    ASSUME PatchAssumption, NEW c, IsClip(c), NEW n \in 0 .. Len(c.buf), NEW a, a = Patch!SkipData(c, n)
    PROVE  IsClip(a) /\ Len(a.buf) = Len(c.buf) - n
<1> DEFINE w == Patch!Skip(c.buf, n)
<1>1. c \in [ok : BOOLEAN, pos : Nat, buf : Seq(Nat)]
      /\ c.ok /\ c.pos <= Len(input.body) /\ Len(c.buf) <= CacheSize
  BY DEF IsClip
<1>2. w \in Seq(Nat) /\ Len(w) = Len(c.buf) - n
  BY <1>1, SkipIs
<1>3. a = [c EXCEPT !.buf = w]
  BY DEF Patch!SkipData
<1>4. Len(c.buf) \in Nat /\ CacheSize \in Nat
  <2>1. 0 \in 0 .. 1
    OBVIOUS
  <2> QED
    BY <1>1, <2>1, PatchSizes, LenProperties
<1> HIDE DEF w
<1>5. Len(w) <= CacheSize
  BY <1>1, <1>2, <1>4
<1>6. a.buf = w /\ a.pos = c.pos /\ a.ok = c.ok /\ a \in [ok : BOOLEAN, pos : Nat, buf : Seq(Nat)]
  BY <1>1, <1>2, <1>3
<1> QED
  BY <1>1, <1>2, <1>5, <1>6 DEF IsClip

\* A number read from the buffer.
LEMMA ClipUnpacks ==
    ASSUME PatchAssumption, IsReceived(input), NEW c, IsClip(c),
           NEW u, u = Patch!UnpackFromClip(c), u.ok
    PROVE  u.value \in Nat /\ IsClip(u.clip)
<1> DEFINE n == Patch!Smaller(Patch!MaxPackedUIntBytes, Patch!LeaveSize(c))
           a == Patch!AccessData(c, n)  w == SubSeq(a.buf, 1, n)  v == Patch!UnpackUInt(w, 1)
           none == [ok |-> FALSE, value |-> 0, clip |-> Patch!BadClip]
<1>1. u = IF ~ c.ok \/ ~ a.ok \/ ~ v.ok THEN none
          ELSE [ok |-> TRUE, value |-> v.value, clip |-> Patch!SkipData(a, v.next - 1)]
  BY DEF Patch!UnpackFromClip
<1>2. n \in Nat
  <2>1. /\ c.buf \in Seq(Nat) /\ input.body \in Seq(Nat) /\ c.pos \in Nat
        /\ c.pos <= Len(input.body) /\ input.uncompressedSize \in Nat
        /\ Len(input.body) <= input.uncompressedSize
    BY DEF IsClip, IsReceived
  <2>2. Len(c.buf) \in Nat /\ Len(input.body) \in Nat
    BY <2>1, LenProperties
  <2>3. Patch!LeaveSize(c) \in Nat
    BY <2>1, <2>2 DEF Patch!LeaveSize
  <2>4. 0 \in 0 .. 1
    OBVIOUS
  <2>5. Patch!MaxPackedUIntBytes \in Nat
    BY <2>4, PatchSizes
  <2> QED
    BY <2>3, <2>5, SmallerIs
<1> HIDE DEF n, a, v
<1>3. a.ok /\ v.ok /\ u = [ok |-> TRUE, value |-> v.value, clip |-> Patch!SkipData(a, v.next - 1)]
  BY <1>1
<1>4. IsClip(a) /\ n <= Len(a.buf)
  BY <1>3, ClipAccessed DEF a
<1>5. a.buf \in Seq(Nat) /\ Len(a.buf) \in Nat
  BY <1>4, LenProperties DEF IsClip
<1>6. w \in Seq(Nat) /\ Len(w) = n
  <2>1. n \in 0 .. Len(a.buf)
    BY <1>2, <1>4, <1>5
  <2> QED
    BY <1>5, <2>1, FirstOf
<1> HIDE DEF w
<1>7. v.value \in Nat /\ v.next \in 1 .. n + 1
  <2>1. v = Patch!UnpackUIntWithTag(w, 1, 0) /\ 0 \in 0 .. 1 /\ 1 \in Nat \ {0}
    BY DEF v, Patch!UnpackUInt
  <2>2. v.value \in Nat /\ v.next \in 1 .. Len(w) + 1
    BY <1>3, <1>6, <2>1, PatchUnpacks
  <2> QED
    BY <1>6, <2>2
<1> DEFINE k == v.next - 1
<1>8. k \in 0 .. Len(a.buf)
  BY <1>2, <1>4, <1>5, <1>7
<1> HIDE DEF k
<1>9. IsClip(Patch!SkipData(a, k))
  BY <1>4, <1>8, ClipSkipped
<1> QED
  BY <1>3, <1>7, <1>9 DEF k

\* Bytes read through the buffer.
LEMMA ClipReads ==
    ASSUME PatchAssumption, IsReceived(input), NEW c, IsClip(c), NEW n \in Nat,
           NEW m, m = Patch!ReadDataTo(c, n), m.clip.ok
    PROVE  m.data \in Seq(Nat) /\ Len(m.data) = n /\ IsClip(m.clip)
<1> DEFINE l == Len(c.buf)  have == Patch!Smaller(l, n)  rest == n - have
           got == SubSeq(c.buf, 1, have)  s == Patch!SkipData(c, have)
           e == Patch!UpdateCache(s)  short == SubSeq(e.buf, 1, rest)
           p == c.pos  direct == SubSeq(input.body, p + 1, p + rest)
           none == [data |-> <<>>, clip |-> Patch!BadClip]
<1>1. m = IF rest = 0 THEN [data |-> got, clip |-> s]
          ELSE IF rest < CacheSize \div 2
          THEN IF ~ e.ok \/ rest > Len(e.buf) THEN none
               ELSE [data |-> got \o short, clip |-> Patch!SkipData(e, rest)]
          ELSE IF p + rest > Len(input.body) THEN none
          ELSE [data |-> got \o direct, clip |-> [ok |-> TRUE, pos |-> p + rest, buf |-> <<>>]]
  BY DEF Patch!ReadDataTo
<1>2. ~ none.clip.ok
  BY DEF Patch!BadClip
<1>3. c.buf \in Seq(Nat) /\ input.body \in Seq(Nat) /\ p \in Nat /\ l \in Nat
      /\ Len(input.body) \in Nat
  BY LenProperties DEF IsClip, IsReceived
<1> HIDE DEF none, l, p
<1>4. have \in 0 .. l /\ have <= n
  <2>1. l \in Nat /\ n \in Nat /\ have = Patch!Smaller(l, n)
    BY <1>3
  <2> HIDE DEF have
  <2>2. have \in Nat /\ have <= l /\ have <= n
    BY <2>1, SmallerIs
  <2> QED
    BY <2>1, <2>2
<1> HIDE DEF have
<1>5. rest \in Nat /\ have + rest = n /\ have \in Nat
  BY <1>3, <1>4
<1>6. got \in Seq(Nat) /\ Len(got) = have
  BY <1>3, <1>4, FirstOf DEF l
<1>7. IsClip(s)
  BY <1>4, ClipSkipped DEF l
<1> HIDE DEF got, s, e, short, direct, rest
<1>8. CASE rest = 0
  <2>1. m = [data |-> got, clip |-> s] /\ have = n
    BY <1>1, <1>3, <1>4, <1>5, <1>8
  <2> QED
    BY <1>6, <1>7, <2>1
<1>9. CASE rest # 0 /\ rest < CacheSize \div 2
  <2>1. /\ e.ok /\ ~ (rest > Len(e.buf))
        /\ m = [data |-> got \o short, clip |-> Patch!SkipData(e, rest)]
    BY <1>1, <1>2, <1>9
  <2>2. IsClip(e)
    BY <1>7, <2>1, ClipUpdated DEF e
  <2>3. e.buf \in Seq(Nat) /\ Len(e.buf) \in Nat
    BY <2>2, LenProperties DEF IsClip
  <2>4. rest \in 0 .. Len(e.buf)
    BY <1>5, <2>1, <2>3
  <2>5. short \in Seq(Nat) /\ Len(short) = rest
    BY <2>3, <2>4, FirstOf DEF short
  <2>6. IsClip(Patch!SkipData(e, rest))
    BY <2>2, <2>4, ClipSkipped
  <2>7. got \o short \in Seq(Nat) /\ Len(got \o short) = have + rest
    BY <1>6, <2>5, Dir!Cat
  <2> QED
    BY <1>5, <2>1, <2>6, <2>7
<1>10. CASE rest # 0 /\ ~ (rest < CacheSize \div 2)
  <2>1. /\ ~ (p + rest > Len(input.body))
        /\ m = [data |-> got \o direct, clip |-> [ok |-> TRUE, pos |-> p + rest, buf |-> <<>>]]
    BY <1>1, <1>2, <1>10
  <2>2. p + rest <= Len(input.body) /\ p + rest \in Nat
    BY <1>3, <1>5, <2>1
  <2>3. direct \in Seq(Nat) /\ Len(direct) = rest
    BY <1>3, <1>5, <2>2, Window DEF direct
  <2>4. got \o direct \in Seq(Nat) /\ Len(got \o direct) = have + rest
    BY <1>6, <2>3, Dir!Cat
  <2>5. CacheSize \in Nat
    <3>1. 0 \in 0 .. 1
      OBVIOUS
    <3> QED
      BY <3>1, PatchSizes
  <2>6. IsClip([ok |-> TRUE, pos |-> p + rest, buf |-> <<>>])
    BY <2>2, <2>5 DEF IsClip
  <2> QED
    BY <1>5, <2>1, <2>4, <2>6
<1> QED
  BY <1>8, <1>9, <1>10

(* The invariant: what the buffers and the step memory hold, and what is left of    *)
(* the step, the cover and the piece in hand. Variables as in Patch: r1 is the clip, *)
(* r2 size, r3 covers, r4 rle, r5 coverCount, r6 job, r7 chunk.                      *)
Covers == [code : Seq(Nat), cover : [oldPos : Nat, newPos : Nat, length : Nat],
           lastOldEnd : Nat, lastNewEnd : Nat]
Runs == [code : Seq(Nat), len0 : Nat, lenv : Nat, need0 : BOOLEAN]

PatchBuffer == IsReceived(input) /\ IsClip(r1)
\* The covers and the run lengths share the step memory; a run of values lies in it.
PatchStep ==
    /\ r3 \in Covers /\ r4 \in Runs
    /\ Len(r3.code) + Len(r4.code) <= input.stepMemSize /\ r4.lenv <= Len(r4.code)
\* An addition stays within the old data.
PatchJob ==
    /\ r6 \in [kind : {"none", "copy", "add"}, left : Nat, oldPos : Nat]
    /\ r6.kind = "add" /\ r6.left > 0 => r6.oldPos + r6.left <= Len(input.old)
PatchChunk ==
    /\ r7 \in [data : Seq(Nat), done : Nat]
    /\ Len(r7.data) <= CacheSize /\ r7.done <= Len(r7.data)
PatchOut == out \in [written : Seq(Nat), cache : Seq(Nat)] /\ Len(out.cache) <= CacheSize
PatchPlace ==
    /\ pc \in {"header", "step", "rleSize", "stepData", "cover", "copy", "add", "rle", "write", "end"}
    /\ result \in {"running", "ok", "failed"} /\ (pc = "end" <=> result # "running")
    /\ r2 \in [cover : Nat, rle : Nat] /\ r5 \in Patch!StreamPos
    /\ pc = "stepData" => r2.cover + r2.rle <= input.stepMemSize
    /\ pc = "copy" => r6.kind = "copy"
    /\ pc \in {"add", "rle"} => r6.kind = "add"
    /\ pc = "write" => r6.kind \in {"copy", "add"}

PInv == PatchBuffer /\ PatchStep /\ PatchJob /\ PatchChunk /\ PatchOut /\ PatchPlace

LEMMA PInvTypes == ASSUME PInv PROVE Patch!TypeOK
<1>1. r1.pos \in Nat /\ r1.pos <= Len(input.body) /\ Len(r1.buf) <= CacheSize
      /\ Len(input.body) \in Nat
  BY LenProperties DEF PInv, PatchBuffer, IsClip, IsReceived
<1>2. r1.pos \in 0 .. Len(input.body)
  BY <1>1
<1> QED
  BY <1>1, <1>2 DEF PInv, PatchStep, PatchChunk, PatchOut, PatchPlace, Patch!TypeOK

LEMMA PInvInit ==
    ASSUME PatchAssumption, IsReceived(input), Patch!Init
    PROVE  PInv
<1>1. CacheSize \in Nat
  <2>1. 0 \in 0 .. 1
    OBVIOUS
  <2> QED
    BY <2>1, PatchSizes
<1>2. Len(input.body) \in Nat /\ input.stepMemSize \in Nat /\ r5 \in Patch!StreamPos
  BY LenProperties DEF IsReceived, Patch!Init
<1> DEFINE none == <<>>
<1>3. none \in Seq(Nat) /\ Len(none) = 0
  OBVIOUS
<1> HIDE DEF none
<1>4. r1 = [ok |-> TRUE, pos |-> 0, buf |-> none]
  BY DEF Patch!Init, none
<1>5. IsClip(r1)
  BY <1>1, <1>2, <1>3, <1>4 DEF IsClip
<1>6. /\ r3 = [code |-> none, cover |-> [oldPos |-> 0, newPos |-> 0, length |-> 0],
               lastOldEnd |-> 0, lastNewEnd |-> 0]
      /\ r4 = [code |-> none, len0 |-> 0, lenv |-> 0, need0 |-> TRUE]
  BY DEF Patch!Init, Patch!NoCover, none
<1>7. PatchStep
  BY <1>2, <1>3, <1>6 DEF PatchStep, Covers, Runs
<1>8. PatchJob
  BY DEF PatchJob, Patch!Init
<1>9. r7 = [data |-> none, done |-> 0] /\ out = [written |-> none, cache |-> none]
  BY DEF Patch!Init, Patch!NoChunk, none
<1>10. PatchChunk /\ PatchOut
  BY <1>1, <1>3, <1>9 DEF PatchChunk, PatchOut
<1>11. PatchPlace
  BY <1>2 DEF PatchPlace, Patch!Init
<1> QED
  BY <1>5, <1>7, <1>8, <1>10, <1>11 DEF PInv, PatchBuffer

\* What a step leaves alone.
LEMMA PatchRests ==
    ASSUME PInv, UNCHANGED input
    PROVE  /\ UNCHANGED r1 => PatchBuffer'
           /\ UNCHANGED <<r3, r4>> => PatchStep'
           /\ UNCHANGED r6 => PatchJob'
           /\ UNCHANGED r7 => PatchChunk'
           /\ UNCHANGED out => PatchOut'
BY DEF PInv, PatchBuffer, PatchStep, PatchJob, PatchChunk, PatchOut, IsReceived, IsClip

LEMMA PatchFails ==
    ASSUME PInv, pc' = "end", result' = "failed",
           UNCHANGED <<input, r1, r2, r3, r4, r5, r6, r7, out>>
    PROVE  PInv'
<1>1. PatchPlace'
  BY DEF PInv, PatchPlace
<1> QED
  BY <1>1, PatchRests DEF PInv

LEMMA CheckHeaderKeeps == ASSUME PInv, Patch!CheckHeader PROVE PInv'
<1>1. CASE Patch!Fail
  BY <1>1, PatchFails DEF Patch!Fail
<1>2. CASE ~ Patch!Fail
  <2>1. pc = "header" /\ pc' = "step" /\ UNCHANGED <<input, r1, r2, r3, r4, r5, r6, r7, out, result>>
    BY <1>2 DEF Patch!CheckHeader
  <2>2. PatchPlace'
    BY <2>1 DEF PInv, PatchPlace
  <2> QED
    BY <2>1, <2>2, PatchRests DEF PInv
<1> QED
  BY <1>1, <1>2

LEMMA ReadCoverSizeKeeps ==
    ASSUME PatchAssumption, PInv, Patch!ReadCoverSize PROVE PInv'
<1> DEFINE u == Patch!UnpackFromClip(r1)
<1>1. CASE Patch!Fail
  BY <1>1, PatchFails DEF Patch!Fail
<1>2. CASE ~ Patch!Fail
  <2>1. /\ u.ok /\ pc = "step" /\ pc' = "rleSize" /\ r1' = u.clip
        /\ r2' = [cover |-> u.value, rle |-> 0]
        /\ UNCHANGED <<input, r3, r4, r5, r6, r7, out, result>>
    BY <1>2 DEF Patch!ReadCoverSize
  <2>2. IsReceived(input) /\ IsClip(r1)
    BY DEF PInv, PatchBuffer
  <2> HIDE DEF u
  <2>3. u.value \in Nat /\ IsClip(u.clip)
    BY <2>1, <2>2, ClipUnpacks DEF u
  <2>4. PatchBuffer'
    BY <2>1, <2>2, <2>3 DEF PatchBuffer, IsReceived, IsClip
  <2>5. PatchPlace'
    BY <2>1, <2>3 DEF PInv, PatchPlace
  <2> QED
    BY <2>1, <2>4, <2>5, PatchRests DEF PInv
<1> QED
  BY <1>1, <1>2

LEMMA ReadRleSizeKeeps ==
    ASSUME PatchAssumption, PInv, Patch!ReadRleSize PROVE PInv'
<1> DEFINE u == Patch!UnpackFromClip(r1)
<1>1. CASE Patch!Fail
  BY <1>1, PatchFails DEF Patch!Fail
<1>2. CASE ~ Patch!Fail
  <2>1. /\ u.ok /\ ~ (r2.cover + u.value > input.stepMemSize)
        /\ pc = "rleSize" /\ pc' = "stepData" /\ r1' = u.clip
        /\ r2' = [r2 EXCEPT !.rle = u.value]
        /\ UNCHANGED <<input, r3, r4, r5, r6, r7, out, result>>
    BY <1>2 DEF Patch!ReadRleSize
  <2>2. IsReceived(input) /\ IsClip(r1)
    BY DEF PInv, PatchBuffer
  <2> HIDE DEF u
  <2>3. u.value \in Nat /\ IsClip(u.clip)
    BY <2>1, <2>2, ClipUnpacks DEF u
  <2>4. PatchBuffer'
    BY <2>1, <2>2, <2>3 DEF PatchBuffer, IsReceived, IsClip
  <2>5. PatchPlace'
    <3>1. r2 \in [cover : Nat, rle : Nat] /\ input.stepMemSize \in Nat
      BY <2>2 DEF PInv, PatchPlace, IsReceived
    <3>2. r2' \in [cover : Nat, rle : Nat] /\ r2'.cover + r2'.rle <= input'.stepMemSize
      BY <2>1, <2>3, <3>1
    <3> QED
      BY <2>1, <3>2 DEF PInv, PatchPlace
  <2> QED
    BY <2>1, <2>4, <2>5, PatchRests DEF PInv
<1> QED
  BY <1>1, <1>2

LEMMA ReadStepDataKeeps ==
    ASSUME PatchAssumption, PInv, Patch!ReadStepData PROVE PInv'
<1> DEFINE a == r2.cover  b == r2.rle  n == a + b  m == Patch!ReadDataTo(r1, n)  d == m.data
           v == SubSeq(d, 1, a)  w == Patch!Skip(d, a)
<1>1. CASE Patch!Fail
  BY <1>1, PatchFails DEF Patch!Fail
<1>2. CASE ~ Patch!Fail
  <2>1. /\ m.clip.ok /\ pc = "stepData" /\ pc' = "cover" /\ r1' = m.clip
        /\ r3' = [r3 EXCEPT !.code = v]
        /\ r4' = [code |-> w, len0 |-> 0, lenv |-> 0, need0 |-> TRUE]
        /\ UNCHANGED <<input, r2, r5, r6, r7, out, result>>
    BY <1>2 DEF Patch!ReadStepData, Patch!StepRle
  <2>2. IsReceived(input) /\ IsClip(r1)
    BY DEF PInv, PatchBuffer
  <2>3. a \in Nat /\ b \in Nat /\ n \in Nat /\ a + b <= input.stepMemSize
    BY <2>1 DEF PInv, PatchPlace
  <2>4. d \in Seq(Nat) /\ Len(d) = n /\ IsClip(m.clip)
    <3> HIDE DEF n, m
    <3> QED
      BY <2>1, <2>2, <2>3, ClipReads DEF m
  <2> HIDE DEF m
  <2>5. PatchBuffer'
    BY <2>1, <2>2, <2>4 DEF PatchBuffer, IsReceived, IsClip
  <2>6. v \in Seq(Nat) /\ Len(v) = a /\ w \in Seq(Nat) /\ Len(w) = b
    <3>1. a \in 0 .. Len(d) /\ Len(d) - a = b
      BY <2>3, <2>4
    <3> HIDE DEF a, b, d
    <3>2. v \in Seq(Nat) /\ Len(v) = a
      BY <2>4, <3>1, FirstOf
    <3>3. w \in Seq(Nat) /\ Len(w) = Len(d) - a
      BY <2>4, <3>1, SkipIs
    <3> QED
      BY <3>1, <3>2, <3>3
  <2> HIDE DEF v, w, a, b
  <2>7. PatchStep'
    <3>1. r3 \in Covers
      BY DEF PInv, PatchStep
    <3>2. r3' \in Covers /\ r3'.code = v
      BY <2>1, <2>6, <3>1 DEF Covers
    <3>3. r4' \in Runs /\ r4'.code = w /\ r4'.lenv = 0
      BY <2>1, <2>6 DEF Runs
    <3>4. Len(w) \in Nat
      BY <2>3, <2>6
    <3>5. Len(r3'.code) = a /\ Len(r4'.code) = b /\ input' = input
      BY <2>1, <2>6, <3>2, <3>3
    <3>6. Len(r3'.code) + Len(r4'.code) <= input'.stepMemSize /\ r4'.lenv <= Len(r4'.code)
      BY <2>3, <3>3, <3>5
    <3> QED
      BY <3>2, <3>3, <3>6 DEF PatchStep
  <2>8. PatchPlace'
    BY <2>1 DEF PInv, PatchPlace
  <2> QED
    BY <2>1, <2>5, <2>7, <2>8, PatchRests DEF PInv
<1> QED
  BY <1>1, <1>2

\* A cover as the step memory holds it: three numbers, and the code behind them.
LEMMA CoverUnpacked ==
    ASSUME PatchAssumption, r3 \in Covers, NEW u, u = Patch!UnpackedCover, u.ok
    PROVE  u.covers \in Covers /\ Len(u.covers.code) <= Len(r3.code)
<1> DEFINE c == r3.code  l == Len(c)  x == r3.cover  M == 2 ^ UIntBits
           o == Patch!UnpackUIntWithTag(c, 1, 1)
           n == Patch!UnpackUInt(c, o.next)  e == Patch!UnpackUInt(c, n.next)
           oldEnd == x.oldPos + x.length  newEnd == x.newPos + x.length
           old == (IF c[1] >= Patch!Radix THEN oldEnd - o.value ELSE oldEnd + o.value) % M
           new == (newEnd + n.value) % M
           w == Patch!Skip(c, e.next - 1)
<1>1. u = IF ~ (o.ok /\ n.ok /\ e.ok) THEN [ok |-> FALSE, covers |-> r3]
          ELSE [ok |-> TRUE,
                covers |-> [code |-> w,
                            cover |-> [oldPos |-> old, newPos |-> new, length |-> e.value],
                            lastOldEnd |-> oldEnd, lastNewEnd |-> newEnd]]
  BY DEF Patch!UnpackedCover
<1>2. o.ok /\ n.ok /\ e.ok
  <2> HIDE DEF o, n, e, w, old, new
  <2> QED
    BY <1>1
<1>3. c \in Seq(Nat) /\ l \in Nat /\ x \in [oldPos : Nat, newPos : Nat, length : Nat]
  BY LenProperties DEF Covers
<1>4. 1 \in 0 .. 1 /\ 0 \in 0 .. 1 /\ 1 \in Nat \ {0}
  OBVIOUS
<1> HIDE DEF c, x
<1>5. o.value \in Nat /\ o.next \in Nat \ {0}
  <2> HIDE DEF o
  <2>1. o = Patch!UnpackUIntWithTag(c, 1, 1)
    BY DEF o
  <2>2. o.value \in Nat /\ o.next \in 1 .. Len(c) + 1
    BY <1>2, <1>3, <1>4, <2>1, PatchUnpacks
  <2> QED
    BY <1>3, <2>2
<1> HIDE DEF o
<1>6. n.value \in Nat /\ n.next \in Nat \ {0}
  <2> HIDE DEF n
  <2> DEFINE k == o.next
  <2>1. n = Patch!UnpackUIntWithTag(c, k, 0) /\ k \in Nat \ {0}
    BY <1>5 DEF n, Patch!UnpackUInt
  <2> HIDE DEF k
  <2>2. n.value \in Nat /\ n.next \in 1 .. Len(c) + 1
    BY <1>2, <1>3, <1>4, <2>1, PatchUnpacks
  <2> QED
    BY <1>3, <2>2
<1> HIDE DEF n
<1>7. e.value \in Nat /\ e.next - 1 \in 0 .. l
  <2> HIDE DEF e
  <2> DEFINE k == n.next
  <2>1. e = Patch!UnpackUIntWithTag(c, k, 0) /\ k \in Nat \ {0}
    BY <1>6 DEF e, Patch!UnpackUInt
  <2> HIDE DEF k
  <2>2. e.value \in Nat /\ e.next \in 1 .. Len(c) + 1
    BY <1>2, <1>3, <1>4, <2>1, PatchUnpacks
  <2> QED
    BY <1>3, <2>2
<1> HIDE DEF e
<1>8. w \in Seq(Nat) /\ Len(w) <= l
  <2> DEFINE k == e.next - 1
  <2>1. k \in 0 .. Len(c)
    BY <1>7
  <2> HIDE DEF k
  <2>2. Patch!Skip(c, k) \in Seq(Nat) /\ Len(Patch!Skip(c, k)) = Len(c) - k
    BY <1>3, <2>1, SkipIs
  <2> QED
    BY <1>3, <2>1, <2>2 DEF k
<1>9. oldEnd \in Nat /\ newEnd \in Nat
  BY <1>3
<1>10. old \in Nat /\ new \in Nat
  <2>1. M \in Nat \ {0}
    BY <1>4, PatchSizes
  <2> HIDE DEF M, oldEnd, newEnd
  <2>2. \A i \in Int : i % M \in Nat
    BY <2>1
  <2>3. oldEnd - o.value \in Int /\ oldEnd + o.value \in Int /\ newEnd + n.value \in Int
    BY <1>5, <1>6, <1>9
  <2> QED
    BY <2>2, <2>3
<1> HIDE DEF w, old, new, oldEnd, newEnd, l
<1>11. u.covers = [code |-> w, cover |-> [oldPos |-> old, newPos |-> new, length |-> e.value],
                   lastOldEnd |-> oldEnd, lastNewEnd |-> newEnd]
  BY <1>1, <1>2
<1> QED
  BY <1>7, <1>8, <1>9, <1>10, <1>11 DEF Covers, l, c

LEMMA NextCoverKeeps ==
    ASSUME PatchAssumption, PInv, Patch!NextCover PROVE PInv'
<1> DEFINE u == Patch!UnpackedCover  v == u.covers
           left == IF v.cover.newPos > v.lastNewEnd THEN v.cover.newPos - v.lastNewEnd ELSE 0
<1>1. CASE Patch!Fail
  BY <1>1, PatchFails DEF Patch!Fail
<1>2. CASE ~ Patch!Fail
  <2>1. /\ u.ok /\ pc = "cover" /\ pc' = "copy" /\ r3' = v
        /\ r6' = [kind |-> "copy", oldPos |-> 0, left |-> left]
        /\ UNCHANGED <<input, r1, r2, r4, r5, r7, out, result>>
    BY <1>2 DEF Patch!NextCover
  <2>2. /\ r3 \in Covers /\ r4 \in Runs /\ r4.lenv <= Len(r4.code)
        /\ Len(r3.code) + Len(r4.code) <= input.stepMemSize /\ input.stepMemSize \in Nat
    BY DEF PInv, PatchStep, PatchBuffer, IsReceived
  <2> HIDE DEF u
  <2>3. v \in Covers /\ Len(v.code) <= Len(r3.code)
    BY <2>1, <2>2, CoverUnpacked DEF u
  <2>4. PatchStep'
    <3>1. Len(r3.code) \in Nat /\ Len(v.code) \in Nat /\ Len(r4.code) \in Nat
      BY <2>2, <2>3, LenProperties DEF Covers, Runs
    <3> DEFINE i == Len(r3.code)  j == Len(v.code)  k == Len(r4.code)  m == input.stepMemSize
    <3>2. j + k <= m
      <4>1. i \in Nat /\ j \in Nat /\ k \in Nat /\ m \in Nat /\ i + k <= m /\ j <= i
        BY <2>2, <2>3, <3>1
      <4> HIDE DEF i, j, k, m
      <4> QED
        BY <4>1
    <3> QED
      BY <2>1, <2>2, <2>3, <3>2 DEF PatchStep
  <2>5. left \in Nat
    BY <2>3 DEF Covers
  <2>6. PatchJob'
    BY <2>1, <2>5 DEF PatchJob
  <2>7. PatchPlace'
    BY <2>1 DEF PInv, PatchPlace
  <2> QED
    BY <2>1, <2>4, <2>6, <2>7, PatchRests DEF PInv
<1> QED
  BY <1>1, <1>2

LEMMA LeaveCoverLoopKeeps == ASSUME PInv, Patch!LeaveCoverLoop PROVE PInv'
<1>1. pc = "cover" /\ pc' = "step" /\ UNCHANGED <<input, r1, r2, r3, r4, r5, r6, r7, out, result>>
  BY DEF Patch!LeaveCoverLoop
<1>2. PatchPlace'
  BY <1>1 DEF PInv, PatchPlace
<1> QED
  BY <1>1, <1>2, PatchRests DEF PInv

LEMMA CopyFromClipKeeps ==
    ASSUME PatchAssumption, PInv, Patch!CopyFromClip PROVE PInv'
<1> DEFINE left == r6.left  n == Patch!Smaller(CacheSize, left)  a == Patch!AccessData(r1, n)
           w == SubSeq(a.buf, 1, n)  s == Patch!SkipData(a, n)
<1>1. CASE Patch!Fail
  BY <1>1, PatchFails DEF Patch!Fail
<1>2. CASE ~ Patch!Fail
  <2>1. /\ a.ok /\ pc = "copy" /\ pc' = "write" /\ r1' = s /\ r7' = [data |-> w, done |-> n]
        /\ r6' = [r6 EXCEPT !.left = left - n]
        /\ UNCHANGED <<input, r2, r3, r4, r5, out, result>>
    BY <1>2 DEF Patch!CopyFromClip
  <2>2. IsReceived(input) /\ IsClip(r1)
    BY DEF PInv, PatchBuffer
  <2>3. r6 \in [kind : {"none", "copy", "add"}, left : Nat, oldPos : Nat] /\ r6.kind = "copy"
    BY <2>1 DEF PInv, PatchJob, PatchPlace
  <2>4. n \in Nat /\ n <= CacheSize /\ n <= left /\ left \in Nat
    <3>1. 0 \in 0 .. 1
      OBVIOUS
    <3>2. CacheSize \in Nat /\ left \in Nat
      BY <2>3, <3>1, PatchSizes
    <3> HIDE DEF left
    <3> QED
      BY <3>2, SmallerIs
  <2> HIDE DEF n
  <2>5. IsClip(a) /\ n <= Len(a.buf)
    <3> HIDE DEF a
    <3> QED
      BY <2>1, <2>2, ClipAccessed DEF a
  <2> HIDE DEF a
  <2>6. a.buf \in Seq(Nat) /\ Len(a.buf) \in Nat
    BY <2>5, LenProperties DEF IsClip
  <2>7. n \in 0 .. Len(a.buf)
    BY <2>4, <2>5, <2>6
  <2>8. w \in Seq(Nat) /\ Len(w) = n
    BY <2>6, <2>7, FirstOf
  <2>9. IsClip(s)
    BY <2>5, <2>7, ClipSkipped
  <2> HIDE DEF w, s, left
  <2>10. PatchBuffer'
    BY <2>1, <2>2, <2>9 DEF PatchBuffer, IsReceived, IsClip
  <2>11. left - n \in Nat
    BY <2>4
  <2>12. PatchJob' /\ r6'.kind = "copy"
    BY <2>1, <2>3, <2>11 DEF PatchJob
  <2>13. PatchChunk'
    BY <2>1, <2>4, <2>8 DEF PatchChunk
  <2>14. PatchPlace'
    BY <2>1, <2>12 DEF PInv, PatchPlace
  <2> QED
    BY <2>1, <2>10, <2>12, <2>13, <2>14, PatchRests DEF PInv
<1> QED
  BY <1>1, <1>2

LEMMA BeginCoverKeeps ==
    ASSUME PatchAssumption, PInv, Patch!BeginCover PROVE PInv'
<1> DEFINE M == 2 ^ UIntBits  left == (r5 - 1) % M  c == r3.cover
<1>1. CASE Patch!Fail
  BY <1>1, PatchFails DEF Patch!Fail
<1>2. CASE ~ Patch!Fail
  <2>1. /\ ~ (c.length > 0 /\ c.oldPos + c.length > Len(input.old))
        /\ pc = "copy" /\ pc' = "add" /\ r5' = left
        /\ r6' = [kind |-> "add", left |-> c.length, oldPos |-> c.oldPos]
        /\ UNCHANGED <<input, r1, r2, r3, r4, r7, out, result>>
    <3> HIDE DEF left
    <3> QED
      BY <1>2 DEF Patch!BeginCover, left
  <2>2. left \in Patch!StreamPos
    <3>1. r5 \in Patch!StreamPos
      BY DEF PInv, PatchPlace
    <3>2. 0 \in 0 .. 1
      OBVIOUS
    <3>3. M \in Nat \ {0} /\ Patch!StreamPos = 0 .. M - 1
      BY <3>2, PatchSizes DEF Patch!StreamPos
    <3> HIDE DEF M
    <3> QED
      BY <3>1, <3>3
  <2> HIDE DEF left
  <2>3. c \in [oldPos : Nat, newPos : Nat, length : Nat]
    BY DEF PInv, PatchStep, Covers
  <2>4. input.old \in Seq(Nat) /\ Len(input.old) \in Nat
    BY LenProperties DEF PInv, PatchBuffer, IsReceived
  <2> HIDE DEF c
  <2>5. PatchJob' /\ r6'.kind = "add"
    <3>1. r6' \in [kind : {"none", "copy", "add"}, left : Nat, oldPos : Nat]
      BY <2>1, <2>3
    <3>2. r6'.left > 0 => r6'.oldPos + r6'.left <= Len(input'.old)
      BY <2>1, <2>3, <2>4
    <3> QED
      BY <2>1, <3>1, <3>2 DEF PatchJob
  <2>6. PatchPlace'
    BY <2>1, <2>2, <2>5 DEF PInv, PatchPlace
  <2> QED
    BY <2>1, <2>5, <2>6, PatchRests DEF PInv
<1> QED
  BY <1>1, <1>2

LEMMA CacheIsNat == ASSUME PatchAssumption PROVE CacheSize \in Nat
<1>1. 0 \in 0 .. 1
  OBVIOUS
<1> QED
  BY <1>1, PatchSizes

LEMMA ReadOldKeeps ==
    ASSUME PatchAssumption, PInv, Patch!ReadOld PROVE PInv'
<1> DEFINE left == r6.left  p == r6.oldPos  n == Patch!Smaller(CacheSize, left)
           w == SubSeq(input.old, p + 1, p + n)
<1>1. /\ left > 0 /\ pc = "add" /\ pc' = "rle" /\ r7' = [data |-> w, done |-> 0]
      /\ r6' = [r6 EXCEPT !.left = left - n, !.oldPos = p + n]
      /\ UNCHANGED <<input, r1, r2, r3, r4, r5, out, result>>
  BY DEF Patch!ReadOld
<1>2. r6 \in [kind : {"none", "copy", "add"}, left : Nat, oldPos : Nat] /\ r6.kind = "add"
      /\ p + left <= Len(input.old)
  BY <1>1 DEF PInv, PatchJob, PatchPlace
<1>3. input.old \in Seq(Nat) /\ Len(input.old) \in Nat
  BY LenProperties DEF PInv, PatchBuffer, IsReceived
<1>4. n \in Nat /\ n <= CacheSize /\ n <= left /\ left \in Nat /\ p \in Nat
  <2>1. CacheSize \in Nat /\ left \in Nat /\ p \in Nat
    BY <1>2, CacheIsNat
  <2> HIDE DEF left
  <2> QED
    BY <2>1, SmallerIs
<1> HIDE DEF n
<1>5. left - n \in Nat /\ p + n \in Nat /\ p + n + (left - n) <= Len(input.old)
      /\ p + n <= Len(input.old)
  <2> DEFINE l == Len(input.old)
  <2>1. l \in Nat /\ p + left <= l
    BY <1>2, <1>3
  <2> HIDE DEF left, p, l
  <2>2. left - n \in Nat /\ p + n \in Nat /\ p + n + (left - n) <= l /\ p + n <= l
    BY <1>4, <2>1
  <2> QED
    BY <2>2 DEF l
<1>6. w \in Seq(Nat) /\ Len(w) = n
  <2> DEFINE t == input.old
  <2>1. t \in Seq(Nat) /\ p + n <= Len(t) /\ w = SubSeq(t, p + 1, p + n)
    BY <1>3, <1>5
  <2> HIDE DEF t, p, w
  <2> QED
    BY <1>4, <2>1, Window
<1> HIDE DEF w, left, p
<1>7. PatchJob' /\ r6'.kind = "add"
  <2>1. r6' \in [kind : {"none", "copy", "add"}, left : Nat, oldPos : Nat]
        /\ r6'.kind = "add" /\ r6'.oldPos = p + n /\ r6'.left = left - n /\ input' = input
    BY <1>1, <1>2, <1>5
  <2> QED
    BY <1>5, <2>1 DEF PatchJob
<1>8. PatchChunk'
  <2>1. r7' \in [data : Seq(Nat), done : Nat] /\ Len(r7'.data) = n /\ r7'.done = 0
    BY <1>1, <1>6
  <2> QED
    BY <1>4, <2>1 DEF PatchChunk
<1>9. PatchPlace'
  BY <1>1, <1>7 DEF PInv, PatchPlace
<1> QED
  BY <1>1, <1>7, <1>8, <1>9, PatchRests DEF PInv

LEMMA EndCoverKeeps == ASSUME PInv, Patch!EndCover PROVE PInv'
<1>1. pc = "add" /\ pc' = "cover" /\ UNCHANGED <<input, r1, r2, r3, r4, r5, r6, r7, out, result>>
  BY DEF Patch!EndCover
<1>2. PatchPlace'
  BY <1>1 DEF PInv, PatchPlace
<1> QED
  BY <1>1, <1>2, PatchRests DEF PInv

\* The piece in hand, and the run lengths that are to be decoded for it.
LEMMA RunsAre ==
    ASSUME PInv
    PROVE  /\ r3 \in Covers /\ r4 \in Runs /\ r7 \in [data : Seq(Nat), done : Nat]
           /\ r4.code \in Seq(Nat) /\ r7.data \in Seq(Nat) /\ r7.done \in Nat
           /\ r4.len0 \in Nat /\ r4.lenv \in Nat
           /\ Len(r3.code) \in Nat /\ Len(r4.code) \in Nat /\ Len(r7.data) \in Nat
           /\ input.stepMemSize \in Nat
           /\ Len(r3.code) + Len(r4.code) <= input.stepMemSize /\ r4.lenv <= Len(r4.code)
           /\ Len(r7.data) <= CacheSize /\ r7.done <= Len(r7.data)
<1>1. /\ r3 \in Covers /\ r4 \in Runs /\ r7 \in [data : Seq(Nat), done : Nat]
      /\ input.stepMemSize \in Nat
      /\ Len(r3.code) + Len(r4.code) <= input.stepMemSize /\ r4.lenv <= Len(r4.code)
      /\ Len(r7.data) <= CacheSize /\ r7.done <= Len(r7.data)
  BY DEF PInv, PatchStep, PatchChunk, PatchBuffer, IsReceived
<1>2. r3.code \in Seq(Nat) /\ r4.code \in Seq(Nat) /\ r4.len0 \in Nat /\ r4.lenv \in Nat
  BY <1>1 DEF Covers, Runs
<1>3. r7.data \in Seq(Nat) /\ r7.done \in Nat
  BY <1>1
<1> QED
  BY <1>1, <1>2, <1>3, LenProperties

\* Run lengths that are no longer than before stay in the step memory.
LEMMA RunsShrink ==
    ASSUME PInv, UNCHANGED <<input, r3>>, r4' \in Runs, r4'.lenv <= Len(r4'.code),
           NEW n \in Nat, Len(r4'.code) = Len(r4.code) - n
    PROVE  PatchStep'
<1> DEFINE a == Len(r3.code)  b == Len(r4.code)  m == input.stepMemSize  d == Len(r4'.code)
<1>1. /\ r3 \in Covers /\ a \in Nat /\ b \in Nat /\ m \in Nat /\ a + b <= m /\ d = b - n
  BY RunsAre
<1>2. r3' = r3 /\ input'.stepMemSize = m
  OBVIOUS
<1>3. Len(r3'.code) = a
  BY <1>2
<1> HIDE DEF a, b, m, d
<1>4. a + d <= m
  BY <1>1
<1> QED
  BY <1>1, <1>2, <1>3, <1>4 DEF PatchStep, d

LEMMA ZeroRunKeeps == ASSUME PInv, Patch!ZeroRun PROVE PInv'
<1> DEFINE z == r4.len0  l == Len(r7.data)  d == r7.done  n == Patch!Smaller(z, l - d)
<1>1. /\ pc = "rle" /\ r4' = [r4 EXCEPT !.len0 = z - n] /\ r7' = [r7 EXCEPT !.done = d + n]
      /\ UNCHANGED <<input, pc, r1, r2, r3, r5, r6, out, result>>
  BY DEF Patch!ZeroRun, Patch!Undecoded
<1>2. /\ r4 \in Runs /\ r7 \in [data : Seq(Nat), done : Nat] /\ z \in Nat /\ l \in Nat /\ d \in Nat
      /\ d <= l /\ l <= CacheSize /\ r4.lenv <= Len(r4.code) /\ Len(r4.code) \in Nat
  BY RunsAre
<1>3. n \in Nat /\ n <= z /\ n <= l - d
  <2>1. z \in Nat /\ l - d \in Nat
    BY <1>2
  <2> HIDE DEF z, l, d
  <2> QED
    BY <2>1, SmallerIs
<1> HIDE DEF n
<1>4. z - n \in Nat /\ d + n \in Nat /\ d + n <= l
  <2>1. z \in Nat /\ l \in Nat /\ d \in Nat
    BY <1>2
  <2> HIDE DEF z, l, d
  <2> QED
    BY <1>3, <2>1
<1>5. r4' \in Runs /\ r4'.code = r4.code /\ r4'.lenv = r4.lenv
  BY <1>1, <1>2, <1>4 DEF Runs
<1>6. PatchStep'
  <2>1. 0 \in Nat /\ Len(r4'.code) = Len(r4.code) - 0 /\ r4'.lenv <= Len(r4'.code)
    BY <1>2, <1>5
  <2> QED
    BY <1>1, <1>5, <2>1, RunsShrink
<1>7. PatchChunk'
  <2>1. r7' \in [data : Seq(Nat), done : Nat] /\ r7'.data = r7.data /\ r7'.done = d + n
    BY <1>1, <1>2, <1>4
  <2> QED
    BY <1>2, <1>4, <2>1 DEF PatchChunk
<1>8. PatchPlace'
  BY <1>1 DEF PInv, PatchPlace
<1> QED
  BY <1>1, <1>6, <1>7, <1>8, PatchRests DEF PInv

LEMMA ValueRunKeeps == ASSUME PatchAssumption, PInv, Patch!ValueRun PROVE PInv'
<1> DEFINE z == r4.lenv  l == Len(r7.data)  d == r7.done  n == Patch!Smaller(z, l - d)
           s == r7.data  c == r4.code  R == 2 * Patch!Radix
           sum(i) == IF i > d /\ i <= d + n THEN (s[i] + c[i - d]) % R ELSE s[i]
           t == [i \in 1 .. l |-> sum(i)]  w == Patch!Skip(c, n)
<1>1. /\ pc = "rle" /\ r4' = [r4 EXCEPT !.lenv = z - n, !.code = w]
      /\ r7' = [data |-> t, done |-> d + n]
      /\ UNCHANGED <<input, pc, r1, r2, r3, r5, r6, out, result>>
  BY DEF Patch!ValueRun, Patch!Undecoded
<1>2. /\ r4 \in Runs /\ r7 \in [data : Seq(Nat), done : Nat] /\ z \in Nat /\ l \in Nat /\ d \in Nat
      /\ d <= l /\ l <= CacheSize /\ z <= Len(c) /\ Len(c) \in Nat
      /\ c \in Seq(Nat) /\ s \in Seq(Nat)
  BY RunsAre
<1>3. n \in Nat /\ n <= z /\ n <= l - d
  <2>1. z \in Nat /\ l - d \in Nat
    BY <1>2
  <2> HIDE DEF z, l, d
  <2> QED
    BY <2>1, SmallerIs
<1> HIDE DEF n
<1>4. z - n \in Nat /\ d + n \in Nat /\ d + n <= l /\ n <= Len(c) /\ z - n <= Len(c) - n
  <2> DEFINE b == Len(c)
  <2>1. z \in Nat /\ l \in Nat /\ d \in Nat /\ b \in Nat /\ z <= b
    BY <1>2
  <2> HIDE DEF z, l, d, b
  <2>2. z - n \in Nat /\ d + n \in Nat /\ d + n <= l /\ n <= b /\ z - n <= b - n
    BY <1>3, <2>1
  <2> QED
    BY <2>2 DEF b
<1>5. w \in Seq(Nat) /\ Len(w) = Len(c) - n
  <2>1. n \in 0 .. Len(c)
    BY <1>2, <1>3, <1>4
  <2> HIDE DEF c
  <2> QED
    BY <1>2, <2>1, SkipIs
<1>6. t \in Seq(Nat) /\ Len(t) = l
  <2>1. ASSUME NEW i \in 1 .. l PROVE sum(i) \in Nat
    <3>1. s[i] \in Nat
      BY <1>2, <2>1, ElementOfSeq
    <3>2. CASE i > d /\ i <= d + n
      <4>1. i - d \in 1 .. Len(c)
        BY <1>2, <1>3, <1>4, <2>1, <3>2
      <4> DEFINE x == s[i]  y == c[i - d]
      <4>2. x \in Nat /\ y \in Nat
        BY <1>2, <3>1, <4>1, ElementOfSeq
      <4>3. R \in Nat \ {0}
        <5>1. 0 \in 0 .. 1
          OBVIOUS
        <5> QED
          BY <5>1, PatchSizes
      <4>4. sum(i) = (x + y) % R
        BY <3>2
      <4> HIDE DEF x, y, R
      <4>5. x + y \in Nat
        BY <4>2
      <4>6. (x + y) % R \in Nat
        BY <4>3, <4>5
      <4> QED
        BY <4>4, <4>6
    <3>3. CASE ~ (i > d /\ i <= d + n)
      BY <3>1, <3>3
    <3> QED
      BY <3>2, <3>3
  <2> HIDE DEF sum, l
  <2>2. t \in [1 .. l -> Nat]
    BY <2>1
  <2> HIDE DEF t
  <2> QED
    BY <1>2, <2>2
<1> HIDE DEF t, w
<1>7. r4' \in Runs /\ r4'.code = w /\ r4'.lenv = z - n
  BY <1>1, <1>2, <1>4, <1>5 DEF Runs
<1>8. PatchStep'
  <2>1. Len(r4'.code) = Len(r4.code) - n /\ r4'.lenv <= Len(r4'.code)
    BY <1>4, <1>5, <1>7
  <2> QED
    BY <1>1, <1>3, <1>7, <2>1, RunsShrink
<1>9. PatchChunk'
  <2>1. r7' \in [data : Seq(Nat), done : Nat] /\ r7'.data = t /\ r7'.done = d + n
    BY <1>1, <1>4, <1>6
  <2> QED
    BY <1>2, <1>4, <1>6, <2>1 DEF PatchChunk
<1>10. PatchPlace'
  BY <1>1 DEF PInv, PatchPlace
<1> QED
  BY <1>1, <1>8, <1>9, <1>10, PatchRests DEF PInv

LEMMA DecodeRunKeeps == ASSUME PatchAssumption, PInv, Patch!DecodeRun PROVE PInv'
<1> DEFINE c == r4.code  u == Patch!UnpackUInt(c, 1)  w == Patch!Skip(c, u.next - 1)
           n == IF r4.need0 THEN u.value ELSE 0  v == IF r4.need0 THEN 0 ELSE u.value
<1>1. CASE Patch!Fail
  BY <1>1, PatchFails DEF Patch!Fail
<1>2. CASE ~ Patch!Fail
  <2>1. /\ u.ok /\ ~ (~ r4.need0 /\ u.value > Len(w)) /\ pc = "rle"
        /\ r4' = [code |-> w, need0 |-> ~ r4.need0, len0 |-> n, lenv |-> v]
        /\ UNCHANGED <<input, pc, r1, r2, r3, r5, r6, r7, out, result>>
    BY <1>2 DEF Patch!DecodeRun
  <2>2. c \in Seq(Nat) /\ Len(c) \in Nat /\ r4.need0 \in BOOLEAN
    BY RunsAre DEF Runs
  <2> HIDE DEF c
  <2>3. u.value \in Nat /\ u.next \in 1 .. Len(c) + 1
    <3> HIDE DEF u
    <3>1. u = Patch!UnpackUIntWithTag(c, 1, 0) /\ 0 \in 0 .. 1 /\ 1 \in Nat \ {0}
      BY DEF u, Patch!UnpackUInt
    <3> QED
      BY <2>1, <2>2, <3>1, PatchUnpacks
  <2> HIDE DEF u
  <2> DEFINE k == u.next - 1
  <2>4. k \in 0 .. Len(c) /\ k \in Nat
    BY <2>2, <2>3
  <2>5. w \in Seq(Nat) /\ Len(w) = Len(c) - k /\ Len(w) \in Nat
    <3> HIDE DEF k
    <3>1. Patch!Skip(c, k) \in Seq(Nat) /\ Len(Patch!Skip(c, k)) = Len(c) - k
      BY <2>2, <2>4, SkipIs
    <3> QED
      BY <3>1, LenProperties DEF k
  <2> HIDE DEF w, k
  <2>6. n \in Nat /\ v \in Nat /\ v <= Len(w)
    BY <2>1, <2>2, <2>3, <2>5
  <2> HIDE DEF n, v
  <2>7. r4' \in Runs /\ r4'.code = w /\ r4'.lenv = v
    BY <2>1, <2>2, <2>5, <2>6 DEF Runs
  <2>8. PatchStep'
    <3>1. Len(r4'.code) = Len(r4.code) - k /\ r4'.lenv <= Len(r4'.code)
      BY <2>5, <2>6, <2>7 DEF c
    <3> QED
      BY <2>1, <2>4, <2>7, <3>1, RunsShrink
  <2>9. PatchPlace'
    BY <2>1 DEF PInv, PatchPlace
  <2> QED
    BY <2>1, <2>8, <2>9, PatchRests DEF PInv
<1> QED
  BY <1>1, <1>2

LEMMA PieceDecodedKeeps == ASSUME PInv, Patch!PieceDecoded PROVE PInv'
<1>1. pc = "rle" /\ pc' = "write" /\ UNCHANGED <<input, r1, r2, r3, r4, r5, r6, r7, out, result>>
  BY DEF Patch!PieceDecoded
<1>2. PatchPlace'
  BY <1>1 DEF PInv, PatchPlace
<1> QED
  BY <1>1, <1>2, PatchRests DEF PInv

LEMMA WriteDirectKeeps == ASSUME PatchAssumption, PInv, Patch!WriteDirect PROVE PInv'
<1> DEFINE d == r7.data  w == out.written \o d
<1>1. CASE Patch!Fail
  BY <1>1, PatchFails DEF Patch!Fail
<1>2. CASE ~ Patch!Fail
  <2>1. /\ pc = "write" /\ out' = [out EXCEPT !.written = w]
        /\ r7' = [data |-> <<>>, done |-> 0]
        /\ UNCHANGED <<input, pc, r1, r2, r3, r4, r5, r6, result>>
    BY <1>2 DEF Patch!WriteDirect, Patch!NoChunk
  <2>2. out \in [written : Seq(Nat), cache : Seq(Nat)] /\ Len(out.cache) <= CacheSize
        /\ d \in Seq(Nat)
    BY RunsAre DEF PInv, PatchOut
  <2>3. w \in Seq(Nat)
    BY <2>2, Dir!Cat
  <2> HIDE DEF w
  <2>4. PatchOut'
    BY <2>1, <2>2, <2>3 DEF PatchOut
  <2>5. PatchChunk'
    <3> DEFINE none == <<>>
    <3>1. none \in Seq(Nat) /\ Len(none) = 0 /\ r7' = [data |-> none, done |-> 0]
      BY <2>1
    <3> HIDE DEF none
    <3> QED
      BY <3>1, CacheIsNat DEF PatchChunk
  <2>6. PatchPlace'
    BY <2>1 DEF PInv, PatchPlace
  <2> QED
    BY <2>1, <2>4, <2>5, <2>6, PatchRests DEF PInv
<1> QED
  BY <1>1, <1>2

LEMMA WriteCachedKeeps == ASSUME PatchAssumption, PInv, Patch!WriteCached PROVE PInv'
<1> DEFINE d == r7.data  c == out.cache  a == Len(c)  b == Len(d)
           n == Patch!Smaller(CacheSize - a, b)  part == SubSeq(d, 1, n)  cache == c \o part
           full == Len(cache) = CacheSize  w == Patch!Skip(d, n)  all == out.written \o cache
           none == <<>>
<1>1. CASE Patch!Fail
  BY <1>1, PatchFails DEF Patch!Fail
<1>2. CASE ~ Patch!Fail
  <2>1. /\ pc = "write"
        /\ out' = IF full THEN [written |-> all, cache |-> none]
                  ELSE [out EXCEPT !.cache = cache]
        /\ r7' = [data |-> w, done |-> 0]
        /\ UNCHANGED <<input, pc, r1, r2, r3, r4, r5, r6, result>>
    BY <1>2 DEF Patch!WriteCached
  <2>2. /\ out \in [written : Seq(Nat), cache : Seq(Nat)] /\ a <= CacheSize
        /\ d \in Seq(Nat) /\ b \in Nat /\ b <= CacheSize
    BY RunsAre DEF PInv, PatchOut
  <2>3. c \in Seq(Nat) /\ a \in Nat /\ out.written \in Seq(Nat)
    BY <2>2, LenProperties
  <2>4. none \in Seq(Nat) /\ Len(none) = 0
    OBVIOUS
  <2> HIDE DEF none
  <2>5. n \in Nat /\ n <= CacheSize - a /\ n <= b
    <3>1. CacheSize - a \in Nat
      BY <2>2, <2>3, CacheIsNat
    <3> HIDE DEF a, b
    <3> QED
      BY <2>2, <3>1, SmallerIs
  <2> HIDE DEF n
  <2>6. n \in 0 .. Len(d)
    BY <2>2, <2>5
  <2> HIDE DEF d, c
  <2>7. part \in Seq(Nat) /\ Len(part) = n
    BY <2>2, <2>6, FirstOf
  <2>8. w \in Seq(Nat) /\ Len(w) = b - n
    BY <2>2, <2>6, SkipIs
  <2> HIDE DEF part, w
  <2>9. cache \in Seq(Nat) /\ Len(cache) = a + n
    BY <2>3, <2>7, Dir!Cat
  <2> HIDE DEF cache
  <2>10. all \in Seq(Nat)
    BY <2>3, <2>9, Dir!Cat
  <2> HIDE DEF all
  <2>11. Len(cache) <= CacheSize /\ b - n \in Nat /\ b - n <= CacheSize
    <3> HIDE DEF a, b
    <3> QED
      BY <2>2, <2>3, <2>5, <2>9, CacheIsNat
  <2>12. PatchOut'
    <3>1. CASE full
      <4>1. out' = [written |-> all, cache |-> none]
        BY <2>1, <3>1
      <4> QED
        BY <2>4, <2>10, <4>1, CacheIsNat DEF PatchOut
    <3>2. CASE ~ full
      <4>1. out' = [out EXCEPT !.cache = cache]
        BY <2>1, <3>2
      <4> QED
        BY <2>2, <2>9, <2>11, <4>1 DEF PatchOut
    <3> QED
      BY <3>1, <3>2
  <2>13. PatchChunk'
    BY <2>1, <2>8, <2>11 DEF PatchChunk
  <2>14. PatchPlace'
    BY <2>1 DEF PInv, PatchPlace
  <2> QED
    BY <2>1, <2>12, <2>13, <2>14, PatchRests DEF PInv
<1> QED
  BY <1>1, <1>2

LEMMA PieceWrittenKeeps == ASSUME PInv, Patch!PieceWritten PROVE PInv'
<1>1. pc = "write" /\ pc' = r6.kind /\ UNCHANGED <<input, r1, r2, r3, r4, r5, r6, r7, out, result>>
  BY DEF Patch!PieceWritten
<1>2. PatchPlace'
  BY <1>1 DEF PInv, PatchPlace
<1> QED
  BY <1>1, <1>2, PatchRests DEF PInv

LEMMA FinishKeeps == ASSUME PatchAssumption, PInv, Patch!Finish PROVE PInv'
<1> DEFINE all == out.written \o out.cache  none == <<>>
<1>1. CASE Patch!Fail
  BY <1>1, PatchFails DEF Patch!Fail
<1>2. CASE ~ Patch!Fail
  <2>1. /\ pc = "step" /\ out' = [written |-> all, cache |-> none]
        /\ pc' = "end" /\ result' \in {"ok", "failed"}
        /\ UNCHANGED <<input, r1, r2, r3, r4, r5, r6, r7>>
    BY <1>2 DEF Patch!Finish
  <2>2. out.written \in Seq(Nat) /\ out.cache \in Seq(Nat)
    BY DEF PInv, PatchOut
  <2>3. all \in Seq(Nat)
    BY <2>2, Dir!Cat
  <2>4. none \in Seq(Nat) /\ Len(none) = 0
    OBVIOUS
  <2> HIDE DEF all, none
  <2>5. PatchOut'
    BY <2>1, <2>3, <2>4, CacheIsNat DEF PatchOut
  <2>6. PatchPlace'
    BY <2>1 DEF PInv, PatchPlace
  <2> QED
    BY <2>1, <2>5, <2>6, PatchRests DEF PInv
<1> QED
  BY <1>1, <1>2

LEMMA PatchIoFails == ASSUME PInv, Patch!IoFails PROVE PInv'
BY PatchFails DEF Patch!IoFails

LEMMA PInvNext == ASSUME PatchAssumption, PInv, [Patch!Next]_(Patch!vars) PROVE PInv'
<1>1. CASE UNCHANGED Patch!vars
  <2>1. UNCHANGED <<input, pc, r1, r2, r3, r4, r5, r6, r7, out, result>>
    BY <1>1 DEF Patch!vars
  <2>2. PatchPlace'
    BY <2>1 DEF PInv, PatchPlace
  <2> QED
    BY <2>1, <2>2, PatchRests DEF PInv
<1>2. CASE \/ Patch!CheckHeader \/ Patch!ReadCoverSize \/ Patch!ReadRleSize \/ Patch!ReadStepData
           \/ Patch!NextCover \/ Patch!LeaveCoverLoop \/ Patch!CopyFromClip \/ Patch!BeginCover
  BY <1>2, CheckHeaderKeeps, ReadCoverSizeKeeps, ReadRleSizeKeeps, ReadStepDataKeeps,
     NextCoverKeeps, LeaveCoverLoopKeeps, CopyFromClipKeeps, BeginCoverKeeps
<1>3. CASE \/ Patch!ReadOld \/ Patch!EndCover \/ Patch!ZeroRun \/ Patch!ValueRun
           \/ Patch!DecodeRun \/ Patch!PieceDecoded
  BY <1>3, ReadOldKeeps, EndCoverKeeps, ZeroRunKeeps, ValueRunKeeps, DecodeRunKeeps,
     PieceDecodedKeeps
<1>4. CASE \/ Patch!WriteDirect \/ Patch!WriteCached \/ Patch!PieceWritten \/ Patch!Finish
           \/ Patch!IoFails
  BY <1>4, WriteDirectKeeps, WriteCachedKeeps, PieceWrittenKeeps, FinishKeeps, PatchIoFails
<1> QED
  BY <1>1, <1>2, <1>3, <1>4 DEF Patch!Next

-----------------------------------------------------------------------------
(* Diffs: what hdiffz writes is such a diff                                 *)

WriterAssumption == PatchAssumption /\ DiffInputs!MaxRleLenAssumption

LEMMA WriterSizes ==
    ASSUME PatchAssumption, NEW t \in 0 .. 1
    PROVE  /\ DiffInputs!Radix \in Nat \ {0} /\ DiffInputs!Radix > 1
           /\ 2 ^ (ByteBits - 1 - t) \in Nat \ {0} /\ 2 ^ (ByteBits - t) \in Nat
<1>1. ByteBits \in Nat /\ ByteBits > 2
  BY DEF PatchAssumption, Patch!ByteBitsAssumption
<1>2. ByteBits - 2 \in Nat /\ ByteBits - 2 + 1 = ByteBits - 1 /\ ByteBits - t \in Nat
      /\ ByteBits - 1 - t \in Nat
  BY <1>1
<1>3. 2 ^ (ByteBits - 2) \in Nat \ {0} /\ 2 ^ (ByteBits - 1) = 2 * 2 ^ (ByteBits - 2)
  BY <1>2, PowType, PowNext
<1>4. 2 ^ (ByteBits - 1 - t) \in Nat \ {0} /\ 2 ^ (ByteBits - t) \in Nat
  BY <1>2, PowType
<1> DEFINE p == 2 ^ (ByteBits - 2)  q == 2 ^ (ByteBits - 1)
<1>5. p \in Nat \ {0} /\ q = 2 * p
  BY <1>3
<1> HIDE DEF p
<1>6. q \in Nat \ {0} /\ q > 1
  <2> HIDE DEF q
  <2> QED
    BY <1>5
<1> QED
  BY <1>4, <1>6 DEF DiffInputs!Radix

\* A packed integer is a sequence of bytes, of the size computed for it.
LEMMA CodeType ==
    ASSUME PatchAssumption, NEW v \in Nat, NEW w \in Nat, NEW t \in 0 .. 1,
           NEW c, c = DiffInputs!PackUIntWithTag(v, w, t)
    PROVE  c \in Seq(Nat) /\ Len(c) = DiffInputs!PackUIntSize(v, t)
<1> DEFINE r == DiffInputs!Radix  f == 2 ^ (ByteBits - 1 - t)  h == 2 ^ (ByteBits - t)
           g == GroupsOf(r, f)[v]  l == Len(g)
           more(i) == IF i = l THEN 0 ELSE IF i = 1 THEN f ELSE r
           d(i) == g[i] + more(i) + (IF i = 1 THEN w * h ELSE 0)
<1>1. r \in Nat \ {0} /\ r > 1 /\ f \in Nat \ {0} /\ h \in Nat
  BY WriterSizes
<1>2. DiffInputs!Groups(v, t) = g
  BY DEF DiffInputs!Groups, GroupsOf, GroupsFrom
<1>3. DiffInputs!PackUIntSize(v, t) = SizeOf(r, f)[v]
  BY DEF DiffInputs!PackUIntSize, SizeOf, SizeFrom
<1>4. c = [i \in 1 .. l |-> d(i)]
  BY <1>2 DEF DiffInputs!PackUIntWithTag
<1> HIDE DEF r, f, h
<1>5. g \in Seq(Nat) /\ SizeOf(r, f)[v] = l
  BY <1>1, GroupsOfAre, SizeOfIs
<1> HIDE DEF g
<1>6. l \in Nat
  BY <1>5, LenProperties
<1>7. ASSUME NEW i \in 1 .. l PROVE d(i) \in Nat
  <2> DEFINE x == g[i]  y == w * h
  <2>1. x \in Nat
    BY <1>5, ElementOfSeq
  <2>2. y \in Nat
    BY <1>1
  <2>3. d(i) = x + more(i) + (IF i = 1 THEN y ELSE 0) /\ more(i) \in Nat
    BY <1>1
  <2> HIDE DEF x, y, more, d
  <2> QED
    BY <2>1, <2>2, <2>3
<1> HIDE DEF d, l
<1>8. c \in [1 .. l -> Nat]
  BY <1>4, <1>7
<1>9. c \in Seq(Nat) /\ Len(c) = l
  BY <1>6, <1>8
<1> QED
  BY <1>3, <1>5, <1>9

LEMMA PlainType ==
    ASSUME PatchAssumption, NEW v \in Nat, NEW c, c = DiffInputs!PackUInt(v)
    PROVE  c \in Seq(Nat) /\ Len(c) = DiffInputs!PackUIntSize(v, 0)
<1>1. c = DiffInputs!PackUIntWithTag(v, 0, 0) /\ 0 \in Nat /\ 0 \in 0 .. 1
  BY DEF DiffInputs!PackUInt
<1> QED
  BY <1>1, CodeType

ZeroFrom(f) ==
    [n \in Nat |-> IF n > MaxRleLen
                   THEN DiffInputs!PackUInt(MaxRleLen) \o DiffInputs!PackUInt(0) \o f[n - MaxRleLen]
                   ELSE DiffInputs!PackUInt(n)]

LEMMA ZeroCodeType ==
    ASSUME WriterAssumption, NEW n \in Nat
    PROVE  DiffInputs!ZeroCode(n) \in Seq(Nat)
<1> DEFINE m == MaxRleLen  P(k) == DiffInputs!PackUInt(k)  lead == P(m) \o P(0)
           z == CHOOSE f : f = ZeroFrom(f)
           stop == {k \in Nat : ~ (k > m)}  rank == [k \in Nat |-> k]
           base == [k \in Nat |-> P(k)]
           before == [k \in Nat |-> IF k > m THEN k - m ELSE 0]
           step == [x \in Seq(Nat) \X Nat |-> lead \o x[1]]
<1>1. DiffInputs!ZeroCode(n) = z[n]
  BY DEF DiffInputs!ZeroCode, ZeroFrom
<1>2. m \in Nat \ {0} /\ PatchAssumption
  BY DEF WriterAssumption, DiffInputs!MaxRleLenAssumption
<1>3. \A k \in Nat : P(k) \in Seq(Nat)
  BY <1>2, PlainType
<1> HIDE DEF m, P
<1>4. lead \in Seq(Nat)
  BY <1>2, <1>3, Dir!Cat
<1>5. ASSUME NEW f, NEW k \in Nat, k > m, f[k - m] \in Seq(Nat)
      PROVE  lead \o f[k - m] \in Seq(Nat) /\ P(m) \o P(0) \o f[k - m] = lead \o f[k - m]
  BY <1>4, <1>5, Dir!Cat
<1> HIDE DEF lead
<1>6. \E f : f = ZeroFrom(f)
  <2>1. Descends(Nat, Seq(Nat), rank, stop, base, before, step)
    <3>1. rank \in [Nat -> Nat] /\ base \in [Nat -> Seq(Nat)] /\ before \in [Nat -> Nat]
      BY <1>2, <1>3
    <3>2. step \in [Seq(Nat) \X Nat -> Seq(Nat)]
      <4>1. ASSUME NEW x \in Seq(Nat) \X Nat PROVE lead \o x[1] \in Seq(Nat)
        <5>1. x[1] \in Seq(Nat)
          OBVIOUS
        <5> QED
          BY <1>4, <5>1, Dir!Cat
      <4> QED
        BY <4>1
    <3>3. \A k \in Nat : k \notin stop => rank[before[k]] < rank[k]
      BY <1>2
    <3> QED
      BY <3>1, <3>2, <3>3 DEF Descends
  <2> HIDE DEF rank, stop, base, before, step
  <2>2. PICK f \in [Nat -> Seq(Nat)] : \A k \in Nat : f[k] = Says(f, k, stop, base, before, step)
    BY <2>1, RecursionExists
  <2>3. ASSUME NEW k \in Nat
        PROVE  f[k] = IF k > m THEN P(m) \o P(0) \o f[k - m] ELSE P(k)
    <3>1. f[k] = Says(f, k, stop, base, before, step)
      BY <2>2
    <3>2. CASE k > m
      <4>1. k - m \in Nat
        BY <1>2, <3>2
      <4>2. f[k - m] \in Seq(Nat)
        BY <4>1
      <4>3. f[k] = lead \o f[k - m]
        BY <3>1, <3>2, <4>1, <4>2 DEF Says, stop, before, step
      <4> QED
        BY <1>5, <3>2, <4>2, <4>3
    <3>3. CASE ~ (k > m)
      BY <3>1, <3>3 DEF Says, stop, base
    <3> QED
      BY <3>2, <3>3
  <2>4. f = ZeroFrom(f)
    BY <2>3 DEF ZeroFrom, P, m
  <2> QED
    BY <2>4
<1>7. z = ZeroFrom(z)
  BY <1>6
<1> HIDE DEF z
<1>8. \A k \in Nat : z[k] = IF k > m THEN P(m) \o P(0) \o z[k - m] ELSE P(k)
  BY <1>7 DEF ZeroFrom, P, m
<1> DEFINE G == {k \in Nat : z[k] \in Seq(Nat)}
<1>9. ASSUME NEW k \in Nat, \A j \in Nat : rank[j] < rank[k] => j \in G
      PROVE  k \in G
  <2>1. CASE k > m
    <3>1. k - m \in Nat /\ rank[k - m] < rank[k]
      BY <1>2, <2>1
    <3>2. z[k - m] \in Seq(Nat)
      BY <1>9, <3>1
    <3> QED
      BY <1>5, <1>8, <2>1, <3>2
  <2>2. CASE ~ (k > m)
    BY <1>3, <1>8, <2>2
  <2> QED
    BY <2>1, <2>2
<1>10. rank \in [Nat -> Nat]
  OBVIOUS
<1> HIDE DEF G, rank
<1>11. n \in G
  BY <1>9, <1>10, RankInduction
<1> QED
  BY <1>1, <1>11 DEF G

RawFrom(f, raw) ==
    [from \in 0 .. Len(raw) |->
        IF Len(raw) - from > MaxRleLen
        THEN DiffInputs!PackUInt(MaxRleLen) \o SubSeq(raw, from + 1, from + MaxRleLen)
             \o DiffInputs!PackUInt(0) \o f[from + MaxRleLen]
        ELSE DiffInputs!PackUInt(Len(raw) - from) \o SubSeq(raw, from + 1, Len(raw))]

LEMMA RawCodeType ==
    ASSUME WriterAssumption, NEW raw \in Seq(Nat)
    PROVE  DiffInputs!RawCode(raw) \in Seq(Nat)
<1> DEFINE m == MaxRleLen  l == Len(raw)  D == 0 .. l  P(k) == DiffInputs!PackUInt(k)
           FirstRun(k) == P(m) \o SubSeq(raw, k + 1, k + m) \o P(0)
           Last(k) == P(l - k) \o SubSeq(raw, k + 1, l)
           z == CHOOSE f : f = RawFrom(f, raw)
           stop == {k \in D : ~ (l - k > m)}  rank == [k \in D |-> l - k]
           base == [k \in D |-> Last(k)]
           before == [k \in D |-> IF l - k > m THEN k + m ELSE k]
           step == [x \in Seq(Nat) \X D |-> IF l - x[2] > m THEN FirstRun(x[2]) \o x[1] ELSE <<>>]
<1>1. DiffInputs!RawCode(raw) = z[0]
  BY DEF DiffInputs!RawCode, RawFrom
<1>2. m \in Nat \ {0} /\ PatchAssumption /\ l \in Nat
  BY LenProperties DEF WriterAssumption, DiffInputs!MaxRleLenAssumption
<1>3. \A k \in Nat : P(k) \in Seq(Nat)
  BY <1>2, PlainType
<1> HIDE DEF m, P
<1>4. ASSUME NEW k \in D, l - k > m PROVE FirstRun(k) \in Seq(Nat) /\ k + m \in D /\ l - (k + m) < l - k
  <2> DEFINE part == SubSeq(raw, k + 1, k + m)
  <2>1. k \in Nat /\ m \in Nat /\ k + m <= l /\ k + m \in D /\ l - (k + m) < l - k
    BY <1>2, <1>4
  <2>2. part \in Seq(Nat)
    BY <2>1, Window
  <2>3. P(m) \in Seq(Nat) /\ P(0) \in Seq(Nat)
    BY <1>2, <1>3
  <2> HIDE DEF part
  <2>4. P(m) \o part \in Seq(Nat)
    BY <2>2, <2>3, Dir!Cat
  <2>5. (P(m) \o part) \o P(0) \in Seq(Nat)
    BY <2>3, <2>4, Dir!Cat
  <2> QED
    BY <2>1, <2>5 DEF part
<1>5. ASSUME NEW k \in D PROVE Last(k) \in Seq(Nat)
  <2> DEFINE n == l - k  part == SubSeq(raw, k + 1, l)
  <2>1. n \in Nat /\ k \in Nat /\ k + n = l /\ k + n <= Len(raw)
    BY <1>2
  <2>2. part \in Seq(Nat)
    <3>1. part = SubSeq(raw, k + 1, k + n)
      BY <2>1
    <3> HIDE DEF part, n
    <3> QED
      BY <2>1, <3>1, Window
  <2>3. P(n) \in Seq(Nat)
    BY <1>3, <2>1
  <2> HIDE DEF part, n
  <2>4. P(n) \o part \in Seq(Nat)
    BY <2>2, <2>3, Dir!Cat
  <2> QED
    BY <2>4 DEF part, n
<1> HIDE DEF FirstRun, Last
<1>6. ASSUME NEW k \in D, l - k > m, NEW y \in Seq(Nat)
      PROVE  FirstRun(k) \o y \in Seq(Nat)
  BY <1>4, <1>6, Dir!Cat
<1>7. \E f : f = RawFrom(f, raw)
  <2>1. Descends(D, Seq(Nat), rank, stop, base, before, step)
    <3>1. rank \in [D -> Nat] /\ base \in [D -> Seq(Nat)] /\ before \in [D -> D]
      BY <1>2, <1>4, <1>5
    <3>2. step \in [Seq(Nat) \X D -> Seq(Nat)]
      <4>1. ASSUME NEW x \in Seq(Nat) \X D
            PROVE  (IF l - x[2] > m THEN FirstRun(x[2]) \o x[1] ELSE <<>>) \in Seq(Nat)
        <5>1. x[1] \in Seq(Nat) /\ x[2] \in D
          OBVIOUS
        <5> HIDE DEF D
        <5> QED
          BY <1>6, <5>1
      <4> QED
        BY <4>1
    <3>3. \A k \in D : k \notin stop => rank[before[k]] < rank[k]
      BY <1>2, <1>4
    <3> QED
      BY <3>1, <3>2, <3>3 DEF Descends
  <2> HIDE DEF rank, stop, base, before, step
  <2>2. PICK f \in [D -> Seq(Nat)] : \A k \in D : f[k] = Says(f, k, stop, base, before, step)
    <3> HIDE DEF D
    <3> QED
      BY <2>1, RecursionExists
  <2>3. ASSUME NEW k \in D
        PROVE  f[k] = IF l - k > m THEN FirstRun(k) \o f[k + m] ELSE Last(k)
    <3>1. f[k] = Says(f, k, stop, base, before, step)
      BY <2>2
    <3>2. CASE l - k > m
      <4>1. k + m \in D
        BY <1>4, <3>2
      <4>2. f[k + m] \in Seq(Nat)
        BY <4>1
      <4> HIDE DEF D
      <4> QED
        BY <3>1, <3>2, <4>1, <4>2 DEF Says, stop, before, step
    <3>3. CASE ~ (l - k > m)
      BY <3>1, <3>3 DEF Says, stop, base
    <3> QED
      BY <3>2, <3>3
  <2>4. f = RawFrom(f, raw)
    BY <2>3 DEF RawFrom, P, m, FirstRun, Last
  <2> QED
    BY <2>4
<1>8. z = RawFrom(z, raw)
  BY <1>7
<1> HIDE DEF z
<1>9. \A k \in D : z[k] = IF l - k > m THEN FirstRun(k) \o z[k + m] ELSE Last(k)
  BY <1>8 DEF RawFrom, P, m, FirstRun, Last
<1> DEFINE G == {k \in D : z[k] \in Seq(Nat)}
<1>10. ASSUME NEW k \in D, \A j \in D : rank[j] < rank[k] => j \in G
       PROVE  k \in G
  <2>1. CASE l - k > m
    <3>1. k + m \in D /\ rank[k + m] < rank[k]
      BY <1>4, <2>1
    <3>2. z[k + m] \in Seq(Nat)
      BY <1>10, <3>1
    <3> QED
      BY <1>6, <1>9, <2>1, <3>2
  <2>2. CASE ~ (l - k > m)
    BY <1>5, <1>9, <2>2
  <2> QED
    BY <2>1, <2>2
<1>11. rank \in [D -> Nat] /\ 0 \in D
  BY <1>2
<1> HIDE DEF G, rank, D
<1>12. 0 \in G
  BY <1>10, <1>11, RankInduction
<1> QED
  BY <1>1, <1>12 DEF G

\* The run lengths of a step, as they are collected.
Rles == [fixed : Seq(Nat), raw : Seq(Nat), len0 : Nat]

LEMMA RleByteType ==
    ASSUME WriterAssumption, NEW r \in Rles, NEW b \in Nat
    PROVE  DiffInputs!RleAppendByte(r, b) \in Rles
<1> DEFINE z == r.fixed \o DiffInputs!ZeroCode(r.len0)  w == r.fixed \o DiffInputs!RawCode(r.raw)
           more == Append(r.raw, b)  n == r.len0 + 1  none == <<>>
           x == IF r.raw = <<>> THEN r.fixed ELSE w
           y == IF r.raw = <<>> THEN z ELSE r.fixed
<1>1. r.fixed \in Seq(Nat) /\ r.raw \in Seq(Nat) /\ r.len0 \in Nat
  BY DEF Rles
<1>2. DiffInputs!ZeroCode(r.len0) \in Seq(Nat) /\ DiffInputs!RawCode(r.raw) \in Seq(Nat)
  BY <1>1, ZeroCodeType, RawCodeType
<1>3. z \in Seq(Nat) /\ w \in Seq(Nat)
  BY <1>1, <1>2, Dir!Cat
<1>4. more \in Seq(Nat) /\ n \in Nat /\ none \in Seq(Nat) /\ 0 \in Nat
  BY <1>1, AppendProperties
<1>5. DiffInputs!RleAppendByte(r, b)
        = IF b = 0 THEN [fixed |-> x, raw |-> none, len0 |-> n]
          ELSE [fixed |-> y, raw |-> more, len0 |-> 0]
  BY DEF DiffInputs!RleAppendByte
<1> HIDE DEF z, w, more, n, none
<1>6. x \in Seq(Nat) /\ y \in Seq(Nat)
  BY <1>1, <1>3
<1> HIDE DEF x, y
<1> QED
  BY <1>4, <1>5, <1>6 DEF Rles

RleFrom(f, r, bytes) ==
    [n \in 0 .. Len(bytes) |->
        IF n = 0 THEN r ELSE DiffInputs!RleAppendByte(f[n - 1], bytes[n])]

LEMMA RleType ==
    ASSUME WriterAssumption, NEW r \in Rles, NEW bytes \in Seq(Nat)
    PROVE  DiffInputs!RleAppend(r, bytes) \in Rles
<1> DEFINE l == Len(bytes)  D == 0 .. l  A(q, b) == DiffInputs!RleAppendByte(q, b)
           z == CHOOSE f : f = RleFrom(f, r, bytes)
           stop == {0}  rank == [k \in D |-> k]  base == [k \in D |-> r]
           before == [k \in D |-> IF k = 0 THEN 0 ELSE k - 1]
           step == [x \in Rles \X D |-> IF x[2] = 0 THEN r ELSE A(x[1], bytes[x[2]])]
<1>1. DiffInputs!RleAppend(r, bytes) = z[l]
  BY DEF DiffInputs!RleAppend, RleFrom
<1>2. l \in Nat
  BY LenProperties
<1>3. ASSUME NEW q \in Rles, NEW k \in D, k # 0 PROVE A(q, bytes[k]) \in Rles
  <2>1. k \in 1 .. l
    BY <1>2, <1>3
  <2>2. bytes[k] \in Nat
    BY <2>1, ElementOfSeq
  <2> QED
    BY <2>2, RleByteType
<1> HIDE DEF A
<1>4. ASSUME NEW k \in D, k # 0 PROVE k - 1 \in D /\ k - 1 < k
  BY <1>2, <1>4
<1>5. \E f : f = RleFrom(f, r, bytes)
  <2>1. Descends(D, Rles, rank, stop, base, before, step)
    <3>1. rank \in [D -> Nat] /\ base \in [D -> Rles] /\ before \in [D -> D]
      BY <1>2, <1>4
    <3>2. step \in [Rles \X D -> Rles]
      <4>1. ASSUME NEW x \in Rles \X D
            PROVE  (IF x[2] = 0 THEN r ELSE A(x[1], bytes[x[2]])) \in Rles
        <5>1. x[1] \in Rles /\ x[2] \in D
          OBVIOUS
        <5> HIDE DEF D
        <5> QED
          BY <1>3, <5>1
      <4> QED
        BY <4>1
    <3>3. \A k \in D : k \notin stop => rank[before[k]] < rank[k]
      BY <1>4
    <3> QED
      BY <3>1, <3>2, <3>3 DEF Descends
  <2> HIDE DEF rank, stop, base, before, step
  <2>2. PICK f \in [D -> Rles] : \A k \in D : f[k] = Says(f, k, stop, base, before, step)
    <3> HIDE DEF D
    <3> QED
      BY <2>1, RecursionExists
  <2>3. ASSUME NEW k \in D
        PROVE  f[k] = IF k = 0 THEN r ELSE A(f[k - 1], bytes[k])
    <3>1. f[k] = Says(f, k, stop, base, before, step)
      BY <2>2
    <3>2. CASE k # 0
      <4>1. k - 1 \in D
        BY <1>4, <3>2
      <4>2. f[k - 1] \in Rles
        BY <4>1
      <4> HIDE DEF D
      <4> QED
        BY <3>1, <3>2, <4>1, <4>2 DEF Says, stop, before, step
    <3>3. CASE k = 0
      BY <3>1, <3>3 DEF Says, stop, base
    <3> QED
      BY <3>2, <3>3
  <2>4. f = RleFrom(f, r, bytes)
    BY <2>3 DEF RleFrom, A
  <2> QED
    BY <2>4
<1>6. z = RleFrom(z, r, bytes)
  BY <1>5
<1> HIDE DEF z
<1>7. \A k \in D : z[k] = IF k = 0 THEN r ELSE A(z[k - 1], bytes[k])
  BY <1>6 DEF RleFrom, A
<1> DEFINE G == {k \in D : z[k] \in Rles}
<1>8. ASSUME NEW k \in D, \A j \in D : rank[j] < rank[k] => j \in G
      PROVE  k \in G
  <2>1. CASE k # 0
    <3>1. k - 1 \in D /\ rank[k - 1] < rank[k]
      BY <1>4, <2>1
    <3>2. z[k - 1] \in Rles
      BY <1>8, <3>1
    <3> QED
      BY <1>3, <1>7, <2>1, <3>2
  <2>2. CASE k = 0
    BY <1>7, <2>2
  <2> QED
    BY <2>1, <2>2
<1>9. rank \in [D -> Nat] /\ l \in D
  BY <1>2
<1> HIDE DEF G, rank, D
<1>10. l \in G
  BY <1>8, <1>9, RankInduction
<1> QED
  BY <1>1, <1>10 DEF G

LEMMA RleFinishType ==
    ASSUME WriterAssumption, NEW r \in Rles
    PROVE  DiffInputs!RleFinish(r) \in Seq(Nat)
<1> DEFINE z == DiffInputs!ZeroCode(r.len0)  w == DiffInputs!RawCode(r.raw)  none == <<>>
           x == IF r.fixed = <<>> \/ r.len0 > 0 THEN z ELSE none
           y == IF r.raw # <<>> THEN w ELSE none
<1>1. r.fixed \in Seq(Nat) /\ r.raw \in Seq(Nat) /\ r.len0 \in Nat
  BY DEF Rles
<1>2. z \in Seq(Nat) /\ w \in Seq(Nat) /\ none \in Seq(Nat)
  BY <1>1, ZeroCodeType, RawCodeType
<1>3. DiffInputs!RleFinish(r) = (r.fixed \o x) \o y
  BY DEF DiffInputs!RleFinish
<1> HIDE DEF z, w, none
<1>4. x \in Seq(Nat) /\ y \in Seq(Nat)
  BY <1>2
<1> HIDE DEF x, y
<1>5. r.fixed \o x \in Seq(Nat)
  BY <1>1, <1>4, Dir!Cat
<1> QED
  BY <1>3, <1>4, <1>5, Dir!Cat

\* The lengths tried for the left half of a cover fall.
TryFrom(f, fits) == [n \in Nat |-> IF n = 0 \/ fits[n] THEN n ELSE f[(n * 3) \div 4]]

LEMMA ClipLengthIs ==
    ASSUME NEW s, NEW c, NEW code, NEW old, NEW new, NEW m, c.length \in Nat,
           NEW n, n = DiffInputs!ClipLength(s, c, code, old, new, m)
    PROVE  n \in Nat /\ n <= c.length /\ (n > 0 => n < c.length)
<1> DEFINE fits == [k \in Nat |-> Len(code) + DiffInputs!RleSize(s.rle,
                       DiffInputs!SubDiff(old, new, DiffInputs!Cover(c.oldPos, c.newPos, k))) <= m]
           z == CHOOSE f : f = TryFrom(f, fits)
           less(k) == (k * 3) \div 4
           stop == {k \in Nat : k = 0 \/ fits[k]}  rank == [k \in Nat |-> k]
           before == [k \in Nat |-> less(k)]
           step == [x \in Nat \X Nat |-> x[1]]
<1>1. n = z[less(c.length)]
  <2> DEFINE g(k) == Len(code) + DiffInputs!RleSize(s.rle,
                       DiffInputs!SubDiff(old, new, DiffInputs!Cover(c.oldPos, c.newPos, k))) <= m
  <2>1. n = (CHOOSE f : f = [k \in Nat |-> IF k = 0 \/ g(k) THEN k ELSE f[less(k)]])[less(c.length)]
    BY DEF DiffInputs!ClipLength
  <2>2. \A k \in Nat : fits[k] = g(k)
    OBVIOUS
  <2> HIDE DEF g, fits, less
  <2>3. \A f : TryFrom(f, fits) = [k \in Nat |-> IF k = 0 \/ g(k) THEN k ELSE f[less(k)]]
    BY <2>2 DEF TryFrom, less
  <2> QED
    BY <2>1, <2>3
<1> HIDE DEF fits
<1>2. ASSUME NEW k \in Nat
      PROVE  less(k) \in Nat /\ less(k) <= k /\ (k # 0 => less(k) < k)
  OBVIOUS
<1> HIDE DEF less
<1>3. \E f : f = TryFrom(f, fits)
  <2>1. Descends(Nat, Nat, rank, stop, rank, before, step)
    <3>1. rank \in [Nat -> Nat] /\ before \in [Nat -> Nat] /\ step \in [Nat \X Nat -> Nat]
      BY <1>2
    <3>2. \A k \in Nat : k \notin stop => rank[before[k]] < rank[k]
      BY <1>2
    <3> QED
      BY <3>1, <3>2 DEF Descends
  <2> HIDE DEF rank, stop, before, step
  <2>2. PICK f \in [Nat -> Nat] : \A k \in Nat : f[k] = Says(f, k, stop, rank, before, step)
    BY <2>1, RecursionExists
  <2>3. ASSUME NEW k \in Nat
        PROVE  f[k] = IF k = 0 \/ fits[k] THEN k ELSE f[less(k)]
    <3>1. f[k] = Says(f, k, stop, rank, before, step)
      BY <2>2
    <3>2. less(k) \in Nat
      BY <1>2
    <3>3. f[less(k)] \in Nat
      BY <3>2
    <3> QED
      BY <3>1, <3>2, <3>3 DEF Says, stop, rank, before, step
  <2>4. f = TryFrom(f, fits)
    BY <2>3 DEF TryFrom, less
  <2> QED
    BY <2>4
<1>4. z = TryFrom(z, fits)
  BY <1>3
<1> HIDE DEF z
<1>5. \A k \in Nat : z[k] = IF k = 0 \/ fits[k] THEN k ELSE z[less(k)]
  BY <1>4 DEF TryFrom, less
<1> DEFINE G == {k \in Nat : z[k] \in Nat /\ z[k] <= k}
<1>6. ASSUME NEW k \in Nat, \A j \in Nat : rank[j] < rank[k] => j \in G
      PROVE  k \in G
  <2>1. CASE k = 0 \/ fits[k]
    BY <1>5, <2>1
  <2>2. CASE ~ (k = 0 \/ fits[k])
    <3>1. less(k) \in Nat /\ less(k) < k /\ z[k] = z[less(k)]
      BY <1>2, <1>5, <2>2
    <3> DEFINE j == less(k)
    <3>2. j \in Nat /\ rank[j] < rank[k] /\ z[k] = z[j] /\ j < k
      BY <3>1
    <3> HIDE DEF j
    <3>3. z[j] \in Nat /\ z[j] <= j
      BY <1>6, <3>2
    <3> QED
      BY <3>2, <3>3
  <2> QED
    BY <2>1, <2>2
<1>7. rank \in [Nat -> Nat]
  OBVIOUS
<1> HIDE DEF rank
<1>8. \A k \in Nat : z[k] \in Nat /\ z[k] <= k
  <2> HIDE DEF G
  <2>1. \A k \in Nat : k \in G
    BY <1>6, <1>7, RankInduction
  <2> QED
    BY <2>1 DEF G
<1> DEFINE k == less(c.length)  l == c.length
<1>9. k \in Nat /\ k <= l /\ (l # 0 => k < l) /\ l \in Nat
  BY <1>2
<1>10. n = z[k]
  BY <1>1
<1> HIDE DEF k, l, G
<1>11. n \in Nat /\ n <= k
  BY <1>8, <1>9, <1>10
<1>12. n \in Nat /\ n <= l /\ (n > 0 => n < l)
  BY <1>9, <1>11
<1> QED
  BY <1>12 DEF l

(* The covers still to write: apart from each other, in the order of the new data,   *)
(* within both streams, and only the last one may be empty.                          *)
OneCover == [oldPos : Nat, newPos : Nat, length : Nat]
CoverStart(t, from, i) == IF i = 1 THEN from ELSE t[i - 1].newPos + t[i - 1].length
Placed(c, start, last, old, new) ==
    /\ c \in OneCover /\ start <= c.newPos
    /\ c.newPos + c.length <= Len(new) /\ c.oldPos + c.length <= Len(old)
    /\ last \/ c.length > 0
InOrder(t, from, old, new) ==
    /\ t \in Seq(OneCover)
    /\ \A i \in 1 .. Len(t) : Placed(t[i], CoverStart(t, from, i), i = Len(t), old, new)

LEMMA RestInOrder ==
    ASSUME NEW old, NEW new, NEW from, NEW t, InOrder(t, from, old, new), t # <<>>,
           NEW c, c = Head(t), NEW e, e = c.newPos + c.length
    PROVE  /\ Placed(c, from, Tail(t) = <<>>, old, new)
           /\ InOrder(Tail(t), e, old, new)
<1> DEFINE l == Len(t)  s == Tail(t)  m == Len(s)
<1>1. /\ t \in Seq(OneCover) /\ l \in Nat /\ l >= 1 /\ c = t[1]
      /\ s \in Seq(OneCover) /\ m = l - 1 /\ m \in Nat
      /\ \A i \in 1 .. m : s[i] = t[i + 1]
  BY HeadTailProperties, LenProperties, EmptySeq DEF InOrder
<1>2. \A i \in 1 .. l : Placed(t[i], CoverStart(t, from, i), i = l, old, new)
  BY DEF InOrder
<1>3. s = <<>> <=> l = 1
  <2>1. s = <<>> <=> m = 0
    <3> HIDE DEF s
    <3> QED
      BY <1>1, EmptySeq
  <2> HIDE DEF s, l, m
  <2> QED
    BY <1>1, <2>1
<1> HIDE DEF l, m, s
<1>4. Placed(c, from, s = <<>>, old, new)
  <2>1. 1 \in 1 .. l /\ CoverStart(t, from, 1) = from
    BY <1>1 DEF CoverStart
  <2>2. Placed(t[1], from, 1 = l, old, new)
    BY <1>2, <2>1
  <2> QED
    BY <1>1, <1>3, <2>2 DEF Placed
<1>5. ASSUME NEW i \in 1 .. m
      PROVE  Placed(s[i], CoverStart(s, e, i), i = m, old, new)
  <2>1. i + 1 \in 1 .. l /\ (i + 1 = l <=> i = m) /\ s[i] = t[i + 1]
    BY <1>1
  <2>2. Placed(t[i + 1], CoverStart(t, from, i + 1), i + 1 = l, old, new)
    BY <1>2, <2>1
  <2>3. CoverStart(t, from, i + 1) = CoverStart(s, e, i)
    <3>1. i + 1 # 1 /\ i + 1 - 1 = i
      BY <1>1
    <3>2. CoverStart(t, from, i + 1) = t[i].newPos + t[i].length
      BY <3>1 DEF CoverStart
    <3>3. CASE i = 1
      BY <1>1, <3>2, <3>3 DEF CoverStart
    <3>4. CASE i # 1
      <4>1. i - 1 \in 1 .. m /\ i - 1 + 1 = i
        BY <1>1, <3>4
      <4>2. s[i - 1] = t[i]
        BY <1>1, <4>1
      <4> QED
        BY <3>2, <3>4, <4>2 DEF CoverStart
    <3> QED
      BY <3>3, <3>4
  <2> QED
    BY <2>1, <2>2, <2>3 DEF Placed
<1> QED
  BY <1>1, <1>4, <1>5 DEF InOrder, s, m

LEMMA OneAndOne == ASSUME NEW S, NEW a \in S, NEW b \in S PROVE <<a>> \o <<b>> = <<a, b>>
<1> DEFINE x == <<a>>  y == <<b>>  s == x \o y  t == <<a, b>>
<1>1. x \in Seq(S) /\ Len(x) = 1 /\ x[1] = a /\ y \in Seq(S) /\ Len(y) = 1 /\ y[1] = b
  OBVIOUS
<1>2. t \in Seq(S) /\ Len(t) = 2 /\ t[1] = a /\ t[2] = b
  OBVIOUS
<1> HIDE DEF x, y, t
<1>3. s \in Seq(S) /\ Len(s) = Len(x) + Len(y)
      /\ (\A i \in 1 .. Len(x) : s[i] = x[i]) /\ (\A i \in 1 .. Len(y) : s[Len(x) + i] = y[i])
  BY <1>1, Dir!Cat
<1> HIDE DEF s
<1>4. Len(s) = Len(t) /\ \A i \in 1 .. Len(s) : s[i] = t[i]
  <2>1. s[1] = a /\ s[2] = b /\ Len(s) = 2
    BY <1>1, <1>3
  <2>2. \A i \in 1 .. 2 : i = 1 \/ i = 2
    OBVIOUS
  <2> QED
    BY <1>2, <2>1, <2>2
<1>5. s = t
  BY <1>2, <1>3, <1>4, SeqEqual
<1> QED
  BY <1>5 DEF s, t, x, y

LEMMA MoreInOrder ==
    ASSUME NEW old, NEW new, NEW from, NEW c, NEW s, NEW e, e = c.newPos + c.length,
           Placed(c, from, s = <<>>, old, new), InOrder(s, e, old, new)
    PROVE  <<c>> \o s # <<>> /\ InOrder(<<c>> \o s, from, old, new)
<1> DEFINE one == <<c>>  t == one \o s  m == Len(s)  l == Len(t)
<1>1. one \in Seq(OneCover) /\ Len(one) = 1 /\ one[1] = c /\ s \in Seq(OneCover)
  BY DEF InOrder, Placed
<1> HIDE DEF one
<1>2. /\ t \in Seq(OneCover) /\ m \in Nat /\ l = 1 + m /\ t[1] = c
      /\ \A i \in 1 .. m : t[1 + i] = s[i]
  <2>1. /\ t \in Seq(OneCover) /\ m \in Nat /\ l = Len(one) + m
        /\ \A i \in 1 .. Len(one) : t[i] = one[i]
        /\ \A i \in 1 .. m : t[Len(one) + i] = s[i]
    <3> DEFINE d == s
    <3>1. one \in Seq(OneCover) /\ d \in Seq(OneCover)
      BY <1>1
    <3> HIDE DEF d
    <3>2. /\ one \o d \in Seq(OneCover) /\ Len(d) \in Nat /\ Len(one \o d) = Len(one) + Len(d)
          /\ \A i \in 1 .. Len(one) : (one \o d)[i] = one[i]
          /\ \A i \in 1 .. Len(d) : (one \o d)[Len(one) + i] = d[i]
      BY <3>1, Dir!Cat
    <3> QED
      BY <3>2 DEF d
  <2> HIDE DEF t, m, l
  <2> QED
    BY <1>1, <2>1
<1>3. \A i \in 1 .. m : Placed(s[i], CoverStart(s, e, i), i = m, old, new)
  BY DEF InOrder
<1>4. s = <<>> <=> m = 0
  BY <1>1, EmptySeq
<1>5. t # <<>>
  BY <1>2, EmptySeq
<1> HIDE DEF t, l, m
<1>6. ASSUME NEW i \in 1 .. l
      PROVE  Placed(t[i], CoverStart(t, from, i), i = l, old, new)
  <2>1. CASE i = 1
    <3>1. t[i] = c /\ CoverStart(t, from, i) = from /\ (i = l <=> s = <<>>)
      BY <1>2, <1>4, <2>1 DEF CoverStart
    <3> QED
      BY <3>1 DEF Placed
  <2>2. CASE i # 1
    <3> DEFINE j == i - 1
    <3>1. j \in 1 .. m /\ i = 1 + j /\ (i = l <=> j = m) /\ i - 1 = j /\ i # 1
      BY <1>2, <2>2
    <3> HIDE DEF j
    <3>2. t[i] = s[j] /\ Placed(s[j], CoverStart(s, e, j), j = m, old, new)
      BY <1>2, <1>3, <3>1
    <3>3. CoverStart(t, from, i) = CoverStart(s, e, j)
      <4>1. CoverStart(t, from, i) = t[j].newPos + t[j].length
        BY <3>1 DEF CoverStart
      <4>2. CASE j = 1
        BY <1>2, <4>1, <4>2 DEF CoverStart
      <4>3. CASE j # 1
        <5>1. j - 1 \in 1 .. m /\ 1 + (j - 1) = j
          BY <1>2, <3>1, <4>3
        <5>2. t[j] = s[j - 1]
          BY <1>2, <5>1
        <5> QED
          BY <4>1, <4>3, <5>2 DEF CoverStart
      <4> QED
        BY <4>2, <4>3
    <3> QED
      BY <3>1, <3>2, <3>3 DEF Placed
  <2> QED
    BY <2>1, <2>2
<1> QED
  BY <1>2, <1>5, <1>6 DEF InOrder, t, l, one

\* Halving the first cover leaves the covers in order.
LEMMA HalvesInOrder ==
    ASSUME NEW old \in Seq(Nat), NEW new \in Seq(Nat), NEW from \in Nat,
           NEW c, NEW s, Placed(c, from, s = <<>>, old, new),
           InOrder(s, c.newPos + c.length, old, new),
           NEW n \in Nat, n > 0, n < c.length, NEW a, NEW b,
           a = DiffInputs!Cover(c.oldPos, c.newPos, n),
           b = DiffInputs!Cover(c.oldPos + n, c.newPos + n, c.length - n)
    PROVE  <<a, b>> \o s # <<>> /\ InOrder(<<a, b>> \o s, from, old, new)
<1> DEFINE p == c.oldPos  q == c.newPos  l == c.length  x == Len(old)  y == Len(new)
           t == <<b>> \o s
<1>1. p \in Nat /\ q \in Nat /\ l \in Nat /\ x \in Nat /\ y \in Nat
      /\ q + l <= y /\ p + l <= x /\ from <= q
  BY LenProperties DEF Placed, OneCover
<1>2. a = [oldPos |-> p, newPos |-> q, length |-> n]
      /\ b = [oldPos |-> p + n, newPos |-> q + n, length |-> l - n]
  BY DEF DiffInputs!Cover
<1>3. n < l
  OBVIOUS
<1> HIDE DEF p, q, l, x, y
<1>4. /\ l - n \in Nat /\ p + n \in Nat /\ q + n \in Nat /\ l - n > 0
      /\ q + n + (l - n) = q + l /\ p + n + (l - n) = p + l /\ q + n <= y /\ p + n <= x
  BY <1>1, <1>3
<1>5. a \in OneCover /\ a.oldPos = p /\ a.newPos = q /\ a.length = n
  BY <1>1, <1>2 DEF OneCover
<1>6. b \in OneCover /\ b.oldPos = p + n /\ b.newPos = q + n /\ b.length = l - n
  BY <1>1, <1>2, <1>4 DEF OneCover
<1>7. Placed(b, q + n, s = <<>>, old, new)
  <2>1. /\ q + n <= b.newPos /\ b.newPos + b.length <= y /\ b.oldPos + b.length <= x
        /\ b.length > 0
    BY <1>1, <1>4, <1>6
  <2> QED
    BY <1>6, <2>1 DEF Placed, x, y
<1>8. b.newPos + b.length = c.newPos + c.length
  BY <1>4, <1>6 DEF q, l
<1>9. t # <<>> /\ InOrder(t, q + n, old, new)
  <2> DEFINE e == b.newPos + b.length
  <2>1. InOrder(s, e, old, new) /\ e = b.newPos + b.length
    BY <1>8
  <2> HIDE DEF e
  <2> QED
    BY <1>7, <2>1, MoreInOrder
<1> HIDE DEF t
<1>10. Placed(a, from, t = <<>>, old, new)
  BY <1>1, <1>4, <1>5 DEF Placed, x, y
<1>11. <<a>> \o t # <<>> /\ InOrder(<<a>> \o t, from, old, new)
  <2> DEFINE e == a.newPos + a.length
  <2>1. InOrder(t, e, old, new) /\ e = a.newPos + a.length
    BY <1>5, <1>9
  <2> HIDE DEF e
  <2> QED
    BY <1>10, <2>1, MoreInOrder
<1>12. <<a>> \o t = <<a, b>> \o s
  <2>1. s \in Seq(OneCover)
    BY DEF InOrder
  <2>2. <<a>> \in Seq(OneCover) /\ <<b>> \in Seq(OneCover)
    BY <1>5, <1>6
  <2>3. <<a>> \o (<<b>> \o s) = (<<a>> \o <<b>>) \o s
    BY <2>1, <2>2, ConcatAssociative
  <2>4. <<a>> \o <<b>> = <<a, b>>
    BY <1>5, <1>6, OneAndOne
  <2> QED
    BY <2>3, <2>4 DEF t
<1> QED
  BY <1>11, <1>12

LEMMA Joined ==
    ASSUME NEW a \in Seq(Nat), NEW b \in Seq(Nat), NEW c \in Seq(Nat), NEW d \in Seq(Nat),
           NEW e \in Seq(Nat), NEW f \in Seq(Nat), NEW t, t = a \o b \o c \o d \o e \o f
    PROVE  t \in Seq(Nat)
           /\ Len(t) = Len(a) + Len(b) + Len(c) + (Len(d) + Len(e)) + Len(f) /\ Len(t) \in Nat
<1> DEFINE x == a \o b  y == x \o c  z == y \o d  w == z \o e  v == w \o f
<1>1. x \in Seq(Nat) /\ Len(x) = Len(a) + Len(b)
  BY Dir!Cat
<1>2. t = v
  OBVIOUS
<1> HIDE DEF x
<1>3. y \in Seq(Nat) /\ Len(y) = Len(x) + Len(c)
  BY <1>1, Dir!Cat
<1> HIDE DEF y
<1>4. z \in Seq(Nat) /\ Len(z) = Len(y) + Len(d)
  BY <1>3, Dir!Cat
<1> HIDE DEF z
<1>5. w \in Seq(Nat) /\ Len(w) = Len(z) + Len(e)
  BY <1>4, Dir!Cat
<1> HIDE DEF w
<1>6. v \in Seq(Nat) /\ Len(v) = Len(w) + Len(f)
  BY <1>5, Dir!Cat
<1> HIDE DEF v
<1>7. /\ Len(a) \in Nat /\ Len(b) \in Nat /\ Len(c) \in Nat /\ Len(d) \in Nat /\ Len(e) \in Nat
      /\ Len(f) \in Nat
  BY LenProperties
<1>8. Len(v) = Len(a) + Len(b) + Len(c) + (Len(d) + Len(e)) + Len(f) /\ Len(v) \in Nat
  BY <1>1, <1>3, <1>4, <1>5, <1>6, <1>7
<1> QED
  BY <1>2, <1>6, <1>8

LEMMA SubDiffType ==
    ASSUME PatchAssumption, NEW old \in Seq(Nat), NEW new \in Seq(Nat), NEW c \in OneCover,
           c.newPos + c.length <= Len(new), c.oldPos + c.length <= Len(old)
    PROVE  DiffInputs!SubDiff(old, new, c) \in Seq(Nat)
<1> DEFINE p == c.oldPos  q == c.newPos  l == c.length  M == 2 * DiffInputs!Radix
           d(i) == (new[q + i] - old[p + i]) % M
           s == DiffInputs!SubDiff(old, new, c)
<1>1. s = [i \in 1 .. l |-> d(i)]
  BY DEF DiffInputs!SubDiff
<1>2. p \in Nat /\ q \in Nat /\ l \in Nat /\ Len(new) \in Nat /\ Len(old) \in Nat
      /\ q + l <= Len(new) /\ p + l <= Len(old)
  BY LenProperties DEF OneCover
<1>3. M \in Nat \ {0}
  <2>1. 0 \in 0 .. 1
    OBVIOUS
  <2>2. DiffInputs!Radix \in Nat \ {0}
    BY <2>1, WriterSizes
  <2> QED
    BY <2>2
<1> HIDE DEF p, q, l, M, s
<1>4. ASSUME NEW i \in 1 .. l PROVE d(i) \in Nat
  <2>1. q + i \in 1 .. Len(new) /\ p + i \in 1 .. Len(old)
    BY <1>2
  <2> DEFINE x == new[q + i]  y == old[p + i]
  <2>2. x \in Nat /\ y \in Nat
    BY <2>1, ElementOfSeq
  <2> HIDE DEF x, y
  <2>3. x - y \in Int
    BY <2>2
  <2> DEFINE z == x - y
  <2>4. z \in Int
    BY <2>3
  <2> HIDE DEF z
  <2>5. z % M \in Nat
    BY <1>3, <2>4
  <2> QED
    BY <2>5 DEF z, x, y
<1> HIDE DEF d
<1>5. s \in [1 .. l -> Nat]
  BY <1>1, <1>4
<1>6. s \in Seq(Nat)
  BY <1>2, <1>5
<1> QED
  BY <1>6 DEF s

\* The writer at work on a pair of streams: no cover is out of order, the header
\* counts the bytes of the body, and a cover written took new data, but for the last.
Writers == [todo : Seq(OneCover), lastOldEnd : Nat, lastNewEnd : Nat, cover : Seq(Nat),
            rle : Rles, gap : Seq(Nat), body : Seq(Nat), declared : Nat, coverCount : Nat,
            maxStepMem : Nat, thrown : BOOLEAN]
Good(s, old, new) ==
    /\ s \in Writers /\ InOrder(s.todo, s.lastNewEnd, old, new)
    /\ s.lastNewEnd <= Len(new) /\ Len(s.body) = s.declared
    /\ s.coverCount + (IF s.todo = <<>> THEN 0 ELSE 1) <= s.lastNewEnd + 1

LEMMA WriterFields ==
    ASSUME NEW s \in Writers
    PROVE  /\ s.todo \in Seq(OneCover) /\ s.lastOldEnd \in Nat /\ s.lastNewEnd \in Nat
           /\ s.cover \in Seq(Nat) /\ s.rle \in Rles /\ s.gap \in Seq(Nat) /\ s.body \in Seq(Nat)
           /\ s.declared \in Nat /\ s.coverCount \in Nat /\ s.maxStepMem \in Nat
           /\ s.thrown \in BOOLEAN
BY DEF Writers

LEMMA FlushIsGood ==
    ASSUME WriterAssumption, NEW old, NEW new, NEW s, Good(s, old, new)
    PROVE  Good(DiffInputs!FlushStep(s), old, new)
<1> DEFINE r == DiffInputs!RleFinish(s.rle)  k == Len(s.cover)  n == Len(r)
           a == DiffInputs!PackUInt(k)  b == DiffInputs!PackUInt(n)
           body == s.body \o a \o b \o s.cover \o r \o s.gap
           declared == s.declared + DiffInputs!PackUIntSize(k, 0)
                       + DiffInputs!PackUIntSize(n, 0) + (k + n) + Len(s.gap)
           mem == DiffInputs!MaxStepMem(s, k + n)  none == <<>>  empty == DiffInputs!EmptyRle
           t == DiffInputs!FlushStep(s)
<1>1. t = [s EXCEPT !.body = body, !.declared = declared, !.maxStepMem = mem,
                    !.cover = none, !.rle = empty, !.gap = none]
  BY DEF DiffInputs!FlushStep
<1>2. s \in Writers /\ s.cover \in Seq(Nat) /\ s.rle \in Rles /\ s.gap \in Seq(Nat)
      /\ s.body \in Seq(Nat) /\ s.declared \in Nat /\ s.maxStepMem \in Nat
      /\ Len(s.body) = s.declared
  BY WriterFields DEF Good
<1>3. r \in Seq(Nat)
  BY <1>2, RleFinishType
<1>4. PatchAssumption
  BY DEF WriterAssumption
<1> HIDE DEF r
<1>5. k \in Nat /\ n \in Nat /\ Len(s.gap) \in Nat
  BY <1>2, <1>3, LenProperties
<1> HIDE DEF k, n
<1>6. a \in Seq(Nat) /\ Len(a) = DiffInputs!PackUIntSize(k, 0)
      /\ b \in Seq(Nat) /\ Len(b) = DiffInputs!PackUIntSize(n, 0)
  BY <1>4, <1>5, PlainType
<1> HIDE DEF a, b
<1>7. body \in Seq(Nat) /\ Len(body) = declared /\ declared \in Nat
  <2> DEFINE x == s.body  c == s.cover  g == s.gap  d == s.declared
  <2>1. /\ x \in Seq(Nat) /\ c \in Seq(Nat) /\ g \in Seq(Nat) /\ d \in Nat
        /\ Len(x) = d /\ Len(c) = k /\ Len(r) = n
    BY <1>2 DEF k, n
  <2>2. body = x \o a \o b \o c \o r \o g /\ declared = d + Len(a) + Len(b) + (k + n) + Len(g)
    BY <1>6
  <2> HIDE DEF x, c, g, d, body, declared
  <2>3. body \in Seq(Nat) /\ Len(body) = Len(x) + Len(a) + Len(b) + (Len(c) + Len(r)) + Len(g)
        /\ Len(body) \in Nat
    <3>1. /\ x \in Seq(Nat) /\ a \in Seq(Nat) /\ b \in Seq(Nat) /\ c \in Seq(Nat)
          /\ r \in Seq(Nat) /\ g \in Seq(Nat)
      BY <1>3, <1>6, <2>1
    <3>2. body = x \o a \o b \o c \o r \o g
      BY <2>2
    <3> QED
      BY <3>1, <3>2, Joined
  <2> QED
    BY <2>1, <2>2, <2>3
<1>8. mem \in Nat
  BY <1>2, <1>5 DEF DiffInputs!MaxStepMem
<1>9. none \in Seq(Nat) /\ empty \in Rles
  BY DEF DiffInputs!EmptyRle, Rles
<1> HIDE DEF body, declared, mem, none, empty, t
<1>10. /\ t \in Writers /\ t.todo = s.todo /\ t.lastNewEnd = s.lastNewEnd /\ t.body = body
       /\ t.declared = declared /\ t.coverCount = s.coverCount
  BY <1>1, <1>2, <1>7, <1>8, <1>9 DEF Writers
<1>11. Good(t, old, new)
  BY <1>7, <1>10 DEF Good
<1> QED
  BY <1>11 DEF t

LEMMA DoStepIsGood ==
    ASSUME WriterAssumption, NEW old \in Seq(Nat), NEW new \in Seq(Nat), NEW m,
           NEW s, Good(s, old, new), s.todo # <<>>
    PROVE  Good(DiffInputs!DoStep(s, old, new, m), old, new)
<1> DEFINE c == Head(s.todo)  code == s.cover \o DiffInputs!CoverCode(s, c)
           sub == DiffInputs!SubDiff(old, new, c)  rest == Tail(s.todo)
           left == DiffInputs!ClipLength(s, c, code, old, new, m)
           runs == DiffInputs!RleAppend(s.rle, sub)
           gap == s.gap \o SubSeq(new, s.lastNewEnd + 1, c.newPos)
           oldEnd == c.oldPos + c.length  newEnd == c.newPos + c.length  n == s.coverCount + 1
           a == DiffInputs!Cover(c.oldPos, c.newPos, left)
           b == DiffInputs!Cover(c.oldPos + left, c.newPos + left, c.length - left)
           halves == <<a, b>> \o rest  none == <<>>
           t == DiffInputs!DoStep(s, old, new, m)
           fits == Len(code) + DiffInputs!RleSize(s.rle, sub) <= m
           full == Len(s.cover) + DiffInputs!RleSize(s.rle, <<>>) >= m \div 2
<1>1. t = IF fits
          THEN [s EXCEPT !.cover = code, !.rle = runs, !.gap = gap, !.lastOldEnd = oldEnd,
                         !.lastNewEnd = newEnd, !.coverCount = n, !.todo = rest]
          ELSE IF full THEN DiffInputs!FlushStep(s)
          ELSE IF left = 0 THEN [s EXCEPT !.todo = none, !.thrown = TRUE]
          ELSE [s EXCEPT !.todo = halves]
  BY DEF DiffInputs!DoStep
<1>2. /\ s \in Writers /\ InOrder(s.todo, s.lastNewEnd, old, new)
      /\ s.lastNewEnd <= Len(new) /\ Len(s.body) = s.declared
      /\ s.coverCount + 1 <= s.lastNewEnd + 1
  BY DEF Good
<1>3. /\ s.todo \in Seq(OneCover) /\ s.lastOldEnd \in Nat /\ s.lastNewEnd \in Nat
      /\ s.cover \in Seq(Nat) /\ s.rle \in Rles /\ s.gap \in Seq(Nat) /\ s.coverCount \in Nat
  BY <1>2, WriterFields
<1>4. Placed(c, s.lastNewEnd, rest = <<>>, old, new) /\ InOrder(rest, newEnd, old, new)
  <2> DEFINE e == newEnd
  <2>1. e = c.newPos + c.length
    OBVIOUS
  <2> HIDE DEF e, c
  <2>2. Placed(c, s.lastNewEnd, Tail(s.todo) = <<>>, old, new) /\ InOrder(Tail(s.todo), e, old, new)
    BY <1>2, <2>1, RestInOrder DEF c
  <2> QED
    BY <2>2 DEF e
<1>5. /\ c \in OneCover /\ c.oldPos \in Nat /\ c.newPos \in Nat /\ c.length \in Nat
      /\ s.lastNewEnd <= c.newPos /\ c.newPos + c.length <= Len(new)
      /\ c.oldPos + c.length <= Len(old) /\ (rest = <<>> \/ c.length > 0)
      /\ Len(new) \in Nat /\ Len(old) \in Nat
  BY <1>4, LenProperties DEF Placed, OneCover
<1>6. PatchAssumption
  BY DEF WriterAssumption
<1>7. rest \in Seq(OneCover)
  BY <1>4 DEF InOrder
<1> HIDE DEF c, rest, left, fits, full, t
<1>8. CASE fits
  <2>1. t = [s EXCEPT !.cover = code, !.rle = runs, !.gap = gap, !.lastOldEnd = oldEnd,
                      !.lastNewEnd = newEnd, !.coverCount = n, !.todo = rest]
    BY <1>1, <1>8
  <2>2. code \in Seq(Nat)
    <3> DEFINE back == s.lastOldEnd - c.oldPos  on == c.oldPos - s.lastOldEnd
               q == c.newPos - s.lastNewEnd  l == c.length
               x == IF c.oldPos >= s.lastOldEnd THEN DiffInputs!PackUIntWithTag(on, 0, 1)
                    ELSE DiffInputs!PackUIntWithTag(back, 1, 1)
               y == DiffInputs!PackUInt(q)  z == DiffInputs!PackUInt(l)
    <3>1. DiffInputs!CoverCode(s, c) = (x \o y) \o z
      BY DEF DiffInputs!CoverCode
    <3>2. q \in Nat /\ l \in Nat /\ 0 \in Nat /\ 1 \in Nat /\ 1 \in 0 .. 1
      BY <1>3, <1>5
    <3>3. x \in Seq(Nat)
      <4>1. CASE c.oldPos >= s.lastOldEnd
        <5>1. on \in Nat
          BY <1>3, <1>5, <4>1
        <5> HIDE DEF on
        <5>2. DiffInputs!PackUIntWithTag(on, 0, 1) \in Seq(Nat)
          BY <1>6, <3>2, <5>1, CodeType
        <5> QED
          BY <4>1, <5>2
      <4>2. CASE ~ (c.oldPos >= s.lastOldEnd)
        <5>1. back \in Nat
          BY <1>3, <1>5, <4>2
        <5> HIDE DEF back
        <5>2. DiffInputs!PackUIntWithTag(back, 1, 1) \in Seq(Nat)
          BY <1>6, <3>2, <5>1, CodeType
        <5> QED
          BY <4>2, <5>2
      <4> QED
        BY <4>1, <4>2
    <3> HIDE DEF x, q, l
    <3>4. y \in Seq(Nat) /\ z \in Seq(Nat)
      BY <1>6, <3>2, PlainType
    <3> HIDE DEF y, z
    <3>5. x \o y \in Seq(Nat)
      BY <3>3, <3>4, Dir!Cat
    <3>6. (x \o y) \o z \in Seq(Nat)
      BY <3>4, <3>5, Dir!Cat
    <3> QED
      BY <1>3, <3>1, <3>6, Dir!Cat
  <2>3. runs \in Rles
    <3>1. sub \in Seq(Nat)
      BY <1>5, <1>6, SubDiffType
    <3> HIDE DEF sub
    <3> QED
      BY <1>3, <3>1, RleType
  <2>4. gap \in Seq(Nat)
    <3> DEFINE p == s.lastNewEnd  k == c.newPos - p  part == SubSeq(new, p + 1, c.newPos)
    <3>1. p \in Nat /\ k \in Nat /\ p + k = c.newPos /\ p + k <= Len(new)
      BY <1>3, <1>5
    <3>2. part = SubSeq(new, p + 1, p + k)
      BY <3>1
    <3> HIDE DEF p, k, part
    <3>3. part \in Seq(Nat)
      BY <3>1, <3>2, Window
    <3>4. s.gap \o part \in Seq(Nat)
      BY <1>3, <3>3, Dir!Cat
    <3> QED
      BY <3>4 DEF part, p
  <2>5. oldEnd \in Nat /\ newEnd \in Nat /\ n \in Nat /\ newEnd <= Len(new)
        /\ n + (IF rest = <<>> THEN 0 ELSE 1) <= newEnd + 1
    <3> DEFINE x == s.lastNewEnd  y == s.coverCount  q == c.newPos  l == c.length  z == Len(new)
    <3>1. /\ x \in Nat /\ y \in Nat /\ q \in Nat /\ l \in Nat /\ c.oldPos \in Nat /\ z \in Nat
          /\ x <= q /\ q + l <= z /\ (rest = <<>> \/ l > 0) /\ y + 1 <= x + 1
      BY <1>2, <1>3, <1>5
    <3>2. oldEnd = c.oldPos + l /\ newEnd = q + l /\ n = y + 1
      OBVIOUS
    <3> HIDE DEF x, y, q, l, z, oldEnd, newEnd, n
    <3>3. oldEnd \in Nat /\ newEnd \in Nat /\ n \in Nat /\ newEnd <= z
      BY <3>1, <3>2
    <3>4. n + (IF rest = <<>> THEN 0 ELSE 1) <= newEnd + 1
      <4>1. CASE rest = <<>>
        <5>1. n + 0 <= newEnd + 1
          BY <3>1, <3>2
        <5> QED
          BY <4>1, <5>1
      <4>2. CASE rest # <<>>
        <5>1. l > 0
          BY <3>1, <4>2
        <5>2. n + 1 <= newEnd + 1
          BY <3>1, <3>2, <5>1
        <5> QED
          BY <4>2, <5>2
      <4> QED
        BY <4>1, <4>2
    <3> QED
      BY <3>3, <3>4 DEF z
  <2> HIDE DEF code, runs, gap, oldEnd, newEnd, n
  <2>6. /\ t \in Writers /\ t.todo = rest /\ t.lastNewEnd = newEnd /\ t.body = s.body
        /\ t.declared = s.declared /\ t.coverCount = n
    BY <1>2, <1>7, <2>1, <2>2, <2>3, <2>4, <2>5 DEF Writers
  <2>7. Good(t, old, new)
    BY <1>2, <1>4, <2>5, <2>6 DEF Good
  <2> QED
    BY <2>7 DEF t
<1>9. CASE ~ fits /\ full
  <2>1. t = DiffInputs!FlushStep(s)
    BY <1>1, <1>9
  <2>2. Good(t, old, new)
    BY <2>1, FlushIsGood
  <2> QED
    BY <2>2 DEF t
<1>10. CASE ~ fits /\ ~ full /\ left = 0
  <2>1. t = [s EXCEPT !.todo = none, !.thrown = TRUE]
    BY <1>1, <1>10
  <2>2. none \in Seq(OneCover) /\ Len(none) = 0
    OBVIOUS
  <2>3. none = <<>>
    OBVIOUS
  <2> HIDE DEF none
  <2>4. /\ t \in Writers /\ t.todo = none /\ t.lastNewEnd = s.lastNewEnd /\ t.body = s.body
        /\ t.declared = s.declared /\ t.coverCount = s.coverCount
    BY <1>2, <2>1, <2>2 DEF Writers
  <2>5. InOrder(t.todo, t.lastNewEnd, old, new)
    BY <2>2, <2>4 DEF InOrder
  <2>6. t.coverCount + 0 <= t.lastNewEnd + 1
    <3>1. s.coverCount + 0 <= s.lastNewEnd + 1
      BY <1>2, <1>3
    <3> QED
      BY <2>4, <3>1
  <2>7. Good(t, old, new)
    BY <1>2, <2>3, <2>4, <2>5, <2>6 DEF Good
  <2> QED
    BY <2>7 DEF t
<1>11. CASE ~ fits /\ ~ full /\ left # 0
  <2>1. t = [s EXCEPT !.todo = halves]
    BY <1>1, <1>11
  <2>2. left \in Nat /\ left > 0 /\ left < c.length
    <3>1. left \in Nat /\ (left > 0 => left < c.length)
      BY <1>5, ClipLengthIs DEF left
    <3> QED
      BY <1>11, <3>1
  <2>3. halves # <<>> /\ InOrder(halves, s.lastNewEnd, old, new)
    <3> DEFINE from == s.lastNewEnd
    <3>1. /\ Placed(c, from, rest = <<>>, old, new)
          /\ InOrder(rest, c.newPos + c.length, old, new) /\ from \in Nat
      BY <1>3, <1>4
    <3>2. /\ a = DiffInputs!Cover(c.oldPos, c.newPos, left)
          /\ b = DiffInputs!Cover(c.oldPos + left, c.newPos + left, c.length - left)
      OBVIOUS
    <3> HIDE DEF from, a, b
    <3>3. <<a, b>> \o rest # <<>> /\ InOrder(<<a, b>> \o rest, from, old, new)
      BY <2>2, <3>1, <3>2, HalvesInOrder
    <3> QED
      BY <3>3 DEF from
  <2> HIDE DEF halves
  <2>4. halves \in Seq(OneCover)
    BY <2>3 DEF InOrder
  <2>5. /\ t \in Writers /\ t.todo = halves /\ t.lastNewEnd = s.lastNewEnd /\ t.body = s.body
        /\ t.declared = s.declared /\ t.coverCount = s.coverCount
    BY <1>2, <2>1, <2>4 DEF Writers
  <2>6. Good(t, old, new)
    BY <1>2, <2>3, <2>5 DEF Good
  <2> QED
    BY <2>6 DEF t
<1> QED
  BY <1>8, <1>9, <1>10, <1>11 DEF t

TurnsFrom(f, s, old, new, covers, m) ==
    [n \in 0 .. DiffInputs!MaxTurns(new, covers) |->
        IF n = 0 THEN s ELSE DiffInputs!Turn(f[n - 1], old, new, m)]

LEMMA TurnsAreGood ==
    ASSUME WriterAssumption, NEW old \in Seq(Nat), NEW new \in Seq(Nat), NEW m, NEW covers,
           DiffInputs!MaxTurns(new, covers) \in Nat, NEW s, Good(s, old, new)
    PROVE  Good(DiffInputs!Turns(s, old, new, covers, m), old, new)
<1> DEFINE l == DiffInputs!MaxTurns(new, covers)  D == 0 .. l  T(q) == DiffInputs!Turn(q, old, new, m)
           V == {q \in Writers : Good(q, old, new)}
           z == CHOOSE f : f = TurnsFrom(f, s, old, new, covers, m)
           stop == {0}  rank == [k \in D |-> k]  base == [k \in D |-> s]
           before == [k \in D |-> IF k = 0 THEN 0 ELSE k - 1]
           step == [x \in V \X D |-> T(x[1])]
<1>1. DiffInputs!Turns(s, old, new, covers, m) = z[l]
  BY DEF DiffInputs!Turns, TurnsFrom
<1>2. l \in Nat
  OBVIOUS
<1> HIDE DEF l
<1>3. s \in V
  BY DEF Good
<1>4. ASSUME NEW q \in V PROVE T(q) \in V
  <2>1. Good(q, old, new)
    OBVIOUS
  <2>2. Good(T(q), old, new)
    <3>1. CASE q.todo = <<>>
      BY <2>1, <3>1 DEF DiffInputs!Turn
    <3>2. CASE q.todo # <<>>
      <4>1. Good(DiffInputs!DoStep(q, old, new, m), old, new)
        BY <2>1, <3>2, DoStepIsGood
      <4>2. T(q) = DiffInputs!DoStep(q, old, new, m)
        BY <3>2 DEF DiffInputs!Turn
      <4> QED
        BY <4>1, <4>2
    <3> QED
      BY <3>1, <3>2
  <2> HIDE DEF T
  <2>3. T(q) \in Writers
    BY <2>2 DEF Good
  <2> QED
    BY <2>2, <2>3
<1>5. ASSUME NEW q \in V PROVE Good(q, old, new)
  OBVIOUS
<1> HIDE DEF T, V
<1>6. ASSUME NEW k \in D, k # 0 PROVE k - 1 \in D /\ k - 1 < k
  BY <1>2, <1>6
<1>7. \E f : f = TurnsFrom(f, s, old, new, covers, m)
  <2>1. Descends(D, V, rank, stop, base, before, step)
    <3>1. rank \in [D -> Nat] /\ base \in [D -> V] /\ before \in [D -> D]
      BY <1>2, <1>3, <1>6
    <3>2. step \in [V \X D -> V]
      BY <1>4
    <3>3. \A k \in D : k \notin stop => rank[before[k]] < rank[k]
      BY <1>6
    <3> QED
      BY <3>1, <3>2, <3>3 DEF Descends
  <2> HIDE DEF rank, stop, base, before, step
  <2>2. PICK f \in [D -> V] : \A k \in D : f[k] = Says(f, k, stop, base, before, step)
    <3> HIDE DEF D
    <3> QED
      BY <2>1, RecursionExists
  <2>3. ASSUME NEW k \in D
        PROVE  f[k] = IF k = 0 THEN s ELSE T(f[k - 1])
    <3>1. f[k] = Says(f, k, stop, base, before, step)
      BY <2>2
    <3>2. CASE k # 0
      <4>1. k - 1 \in D
        BY <1>6, <3>2
      <4>2. f[k - 1] \in V
        BY <4>1
      <4> HIDE DEF D
      <4> QED
        BY <3>1, <3>2, <4>1, <4>2 DEF Says, stop, before, step
    <3>3. CASE k = 0
      BY <3>1, <3>3 DEF Says, stop, base
    <3> QED
      BY <3>2, <3>3
  <2>4. f = TurnsFrom(f, s, old, new, covers, m)
    BY <2>3 DEF TurnsFrom, T, l
  <2> QED
    BY <2>4
<1>8. z = TurnsFrom(z, s, old, new, covers, m)
  BY <1>7
<1> HIDE DEF z
<1>9. \A k \in D : z[k] = IF k = 0 THEN s ELSE T(z[k - 1])
  BY <1>8 DEF TurnsFrom, T, l
<1> DEFINE G == {k \in D : z[k] \in V}
<1>10. ASSUME NEW k \in D, \A j \in D : rank[j] < rank[k] => j \in G
       PROVE  k \in G
  <2>1. CASE k # 0
    <3>1. k - 1 \in D /\ rank[k - 1] < rank[k]
      BY <1>6, <2>1
    <3>2. z[k - 1] \in V
      BY <1>10, <3>1
    <3> QED
      BY <1>4, <1>9, <2>1, <3>2
  <2>2. CASE k = 0
    BY <1>3, <1>9, <2>2
  <2> QED
    BY <2>1, <2>2
<1>11. rank \in [D -> Nat] /\ l \in D
  BY <1>2
<1> HIDE DEF G, rank, D
<1>12. l \in G
  BY <1>10, <1>11, RankInduction
<1>13. z[l] \in V
  BY <1>12 DEF G
<1> QED
  BY <1>1, <1>5, <1>13

\* Covers of some length each, in order, within both streams.
Listed(t, old, new) ==
    /\ t \in Seq(OneCover)
    /\ \A i \in 1 .. Len(t) : Placed(t[i], CoverStart(t, 0, i), FALSE, old, new)

LEMMA ListsAreListed ==
    ASSUME NEW old \in Seq(Nat), NEW new \in Seq(Nat),
           NEW t \in DiffInputs!CoverLists(old, new)
    PROVE  Listed(t, old, new)
<1> DEFINE one == {DiffInputs!Cover(o, n, k) : o \in {0, 1, 4}, n \in 0 .. Len(new), k \in {2, 5, 8}}
           inside == {c \in one : c.oldPos + c.length <= Len(old) /\ c.newPos + c.length <= Len(new)}
           follows(c, d) == c.newPos + c.length <= d.newPos
           pairs == {cd \in inside \X inside : follows(cd[1], cd[2])}
           three == {cde \in inside \X inside \X inside :
                        follows(cde[1], cde[2]) /\ follows(cde[2], cde[3])}
<1>1. \/ t = <<>>
      \/ \E c \in inside : t = <<c>>
      \/ t \in pairs
      \/ t \in three
  <2> DEFINE two == IF MaxCovers < 2 THEN {} ELSE pairs  all == IF MaxCovers < 3 THEN {} ELSE three
             ones == {<<c>> : c \in inside}
  <2>1. DiffInputs!CoverLists(old, new) = {<<>>} \cup ones \cup two \cup all
    BY DEF DiffInputs!CoverLists
  <2> HIDE DEF pairs, three
  <2>2. t = <<>> \/ t \in ones \/ t \in two \/ t \in all
    <3> HIDE DEF ones, two, all
    <3> QED
      BY <2>1
  <2>3. (t \in two => t \in pairs) /\ (t \in all => t \in three)
    OBVIOUS
  <2>4. t \in ones => \E c \in inside : t = <<c>>
    OBVIOUS
  <2> HIDE DEF ones, two, all, inside
  <2> QED
    BY <2>2, <2>3, <2>4
<1>2. ASSUME NEW c \in inside, NEW from, from <= c.newPos
      PROVE  c \in OneCover /\ Placed(c, from, FALSE, old, new)
  <2>1. PICK o \in {0, 1, 4}, n \in 0 .. Len(new), k \in {2, 5, 8} : c = DiffInputs!Cover(o, n, k)
    OBVIOUS
  <2>2. c.oldPos = o /\ c.newPos = n /\ c.length = k /\ c = [oldPos |-> o, newPos |-> n, length |-> k]
    BY <2>1 DEF DiffInputs!Cover
  <2>3. o \in Nat /\ n \in Nat /\ k \in Nat /\ k > 0
    BY LenProperties
  <2>4. c \in OneCover
    BY <2>2, <2>3 DEF OneCover
  <2>5. c.oldPos + c.length <= Len(old) /\ c.newPos + c.length <= Len(new)
    OBVIOUS
  <2> QED
    BY <1>2, <2>2, <2>3, <2>4, <2>5 DEF Placed
<1>3. ASSUME NEW c \in inside PROVE 0 <= c.newPos
  <2>1. PICK o \in {0, 1, 4}, n \in 0 .. Len(new), k \in {2, 5, 8} : c = DiffInputs!Cover(o, n, k)
    OBVIOUS
  <2> QED
    BY <2>1, LenProperties DEF DiffInputs!Cover
<1> DEFINE I == inside
<1>4. \/ t = <<>>
      \/ \E a \in I : t = <<a>>
      \/ \E a, b \in I : t = <<a, b>> /\ follows(a, b)
      \/ \E a, b, c \in I : t = <<a, b, c>> /\ follows(a, b) /\ follows(b, c)
  <2>1. t \in pairs => \E a, b \in I : t = <<a, b>> /\ follows(a, b)
    <3> HIDE DEF inside
    <3> SUFFICES ASSUME t \in pairs PROVE \E a, b \in I : t = <<a, b>> /\ follows(a, b)
      OBVIOUS
    <3>1. t[1] \in I /\ t[2] \in I /\ t = <<t[1], t[2]>> /\ follows(t[1], t[2])
      BY DEF I
    <3> QED
      BY <3>1
  <2>2. t \in three => \E a, b, c \in I : t = <<a, b, c>> /\ follows(a, b) /\ follows(b, c)
    <3> HIDE DEF inside
    <3> SUFFICES ASSUME t \in three
                 PROVE  \E a, b, c \in I : t = <<a, b, c>> /\ follows(a, b) /\ follows(b, c)
      OBVIOUS
    <3>1. /\ t[1] \in I /\ t[2] \in I /\ t[3] \in I /\ t = <<t[1], t[2], t[3]>>
          /\ follows(t[1], t[2]) /\ follows(t[2], t[3])
      BY DEF I
    <3> QED
      BY <3>1
  <2> HIDE DEF pairs, three
  <2> QED
    BY <1>1, <2>1, <2>2
<1> HIDE DEF inside, I, pairs, three
<1>5. CASE t = <<>>
  <2>1. t \in Seq(OneCover) /\ Len(t) = 0
    BY <1>5
  <2> QED
    BY <2>1 DEF Listed
<1>6. ASSUME NEW a \in I, t = <<a>> PROVE Listed(t, old, new)
  <2>1. a \in OneCover /\ Placed(a, 0, FALSE, old, new)
    BY <1>2, <1>3 DEF I
  <2>2. t \in Seq(OneCover) /\ Len(t) = 1 /\ t[1] = a
    BY <1>6, <2>1
  <2>3. ASSUME NEW i \in 1 .. Len(t) PROVE Placed(t[i], CoverStart(t, 0, i), FALSE, old, new)
    <3>1. i = 1
      BY <2>2
    <3> QED
      BY <2>1, <2>2, <3>1 DEF CoverStart
  <2> QED
    BY <2>2, <2>3 DEF Listed
<1>7. ASSUME NEW a \in I, NEW b \in I, t = <<a, b>>, follows(a, b) PROVE Listed(t, old, new)
  <2>1. /\ a \in OneCover /\ Placed(a, 0, FALSE, old, new)
        /\ b \in OneCover /\ Placed(b, a.newPos + a.length, FALSE, old, new)
    BY <1>2, <1>3, <1>7 DEF I
  <2>2. t \in Seq(OneCover) /\ Len(t) = 2 /\ t[1] = a /\ t[2] = b
    BY <1>7, <2>1
  <2>3. ASSUME NEW i \in 1 .. Len(t) PROVE Placed(t[i], CoverStart(t, 0, i), FALSE, old, new)
    <3>1. i = 1 \/ (i = 2 /\ i # 1 /\ i - 1 = 1)
      BY <2>2
    <3> QED
      BY <2>1, <2>2, <3>1 DEF CoverStart
  <2> QED
    BY <2>2, <2>3 DEF Listed
<1>8. ASSUME NEW a \in I, NEW b \in I, NEW c \in I, t = <<a, b, c>>, follows(a, b), follows(b, c)
      PROVE  Listed(t, old, new)
  <2>1. /\ a \in OneCover /\ Placed(a, 0, FALSE, old, new)
        /\ b \in OneCover /\ Placed(b, a.newPos + a.length, FALSE, old, new)
        /\ c \in OneCover /\ Placed(c, b.newPos + b.length, FALSE, old, new)
    BY <1>2, <1>3, <1>8 DEF I
  <2>2. t \in Seq(OneCover) /\ Len(t) = 3 /\ t[1] = a /\ t[2] = b /\ t[3] = c
    BY <1>8, <2>1
  <2>3. ASSUME NEW i \in 1 .. Len(t) PROVE Placed(t[i], CoverStart(t, 0, i), FALSE, old, new)
    <3>1. i = 1 \/ (i = 2 /\ i # 1 /\ i - 1 = 1) \/ (i = 3 /\ i # 1 /\ i - 1 = 2)
      BY <2>2
    <3> QED
      BY <2>1, <2>2, <3>1 DEF CoverStart
  <2> QED
    BY <2>2, <2>3 DEF Listed
<1> QED
  BY <1>4, <1>5, <1>6, <1>7, <1>8

\* With the closing cover, if any, the covers to write are in order.
LEMMA CoversAreInOrder ==
    ASSUME NEW old \in Seq(Nat), NEW new \in Seq(Nat), NEW t, Listed(t, old, new)
    PROVE  InOrder(DiffInputs!CoversToWrite(new, t), 0, old, new)
<1> DEFINE n == Len(new)  l == Len(t)  back == t[l]  e == back.newPos + back.length
           only == DiffInputs!Cover(0, n, 0)
           close == DiffInputs!Cover(back.oldPos + back.length, n, 0)
           more == Append(t, close)
<1>1. /\ n \in Nat /\ Len(old) \in Nat /\ t \in Seq(OneCover) /\ l \in Nat
      /\ \A i \in 1 .. l : Placed(t[i], CoverStart(t, 0, i), FALSE, old, new)
  BY LenProperties DEF Listed
<1>2. DiffInputs!CoversToWrite(new, t)
        = IF t = <<>> THEN <<only>> ELSE IF e < n THEN more ELSE t
  BY DEF DiffInputs!CoversToWrite
<1> HIDE DEF l
<1>3. CASE t = <<>>
  <2>1. only \in OneCover /\ Placed(only, 0, TRUE, old, new)
    BY <1>1 DEF DiffInputs!Cover, OneCover, Placed
  <2> DEFINE u == <<only>>
  <2> HIDE DEF only
  <2>2. u \in Seq(OneCover) /\ Len(u) = 1 /\ u[1] = only
    BY <2>1
  <2> HIDE DEF u
  <2>3. ASSUME NEW i \in 1 .. Len(u)
        PROVE  Placed(u[i], CoverStart(u, 0, i), i = Len(u), old, new)
    <3>1. i = 1 /\ Len(u) = 1
      BY <2>2
    <3> QED
      BY <2>1, <2>2, <3>1 DEF CoverStart, Placed
  <2>4. InOrder(u, 0, old, new)
    BY <2>2, <2>3 DEF InOrder
  <2> QED
    BY <1>2, <1>3, <2>4 DEF u
<1>4. CASE t # <<>> /\ ~ (e < n)
  <2>1. InOrder(t, 0, old, new)
    <3>1. ASSUME NEW i \in 1 .. Len(t)
          PROVE  Placed(t[i], CoverStart(t, 0, i), i = Len(t), old, new)
      BY <1>1 DEF Placed, l
    <3> QED
      BY <1>1, <3>1 DEF InOrder
  <2> QED
    BY <1>2, <1>4, <2>1
<1>5. CASE t # <<>> /\ e < n
  <2>1. l # 0
    BY <1>1, <1>5, EmptySeq DEF l
  <2>2. l \in 1 .. l /\ l >= 1
    BY <1>1, <2>1
  <2>3. Placed(back, CoverStart(t, 0, l), FALSE, old, new)
    BY <1>1, <2>2
  <2>4. /\ back.oldPos \in Nat /\ back.newPos \in Nat /\ back.length \in Nat
        /\ back.oldPos + back.length <= Len(old) /\ e <= n
    BY <2>3 DEF Placed, OneCover
  <2>5. close \in OneCover /\ Placed(close, e, TRUE, old, new)
    <3> DEFINE x == back.oldPos + back.length
    <3>1. x \in Nat /\ x <= Len(old) /\ e <= n
      BY <2>4
    <3> HIDE DEF x, e
    <3>2. close = [oldPos |-> x, newPos |-> n, length |-> 0]
      BY DEF DiffInputs!Cover, x
    <3> HIDE DEF close
    <3>3. close \in OneCover /\ close.newPos = n /\ close.oldPos = x /\ close.length = 0
      BY <1>1, <3>1, <3>2 DEF OneCover
    <3>4. x + 0 <= Len(old) /\ n + 0 <= n
      BY <1>1, <3>1
    <3> QED
      BY <3>1, <3>3, <3>4 DEF Placed
  <2> HIDE DEF close
  <2>6. /\ more \in Seq(OneCover) /\ Len(more) = l + 1 /\ more[l + 1] = close
        /\ \A i \in 1 .. l : more[i] = t[i]
    <3>1. close \in OneCover
      BY <2>5
    <3> QED
      BY <1>1, <3>1, AppendProperties DEF l
  <2> HIDE DEF more
  <2>7. ASSUME NEW i \in 1 .. Len(more)
        PROVE  Placed(more[i], CoverStart(more, 0, i), i = Len(more), old, new)
    <3>1. CASE i = l + 1
      <4>1. i # 1 /\ i - 1 = l /\ more[l] = back /\ more[i] = close /\ i = Len(more)
        <5>1. i = l + 1 /\ Len(more) = l + 1 /\ l \in Nat /\ l >= 1
          BY <1>1, <2>2, <2>6, <3>1
        <5>2. more[l] = t[l]
          BY <2>2, <2>6
        <5>3. more[i] = close
          BY <2>6, <3>1
        <5>4. i # 1 /\ i - 1 = l /\ i = Len(more)
          BY <5>1
        <5> QED
          BY <5>2, <5>3, <5>4
      <4>2. CoverStart(more, 0, i) = e
        BY <4>1 DEF CoverStart
      <4> QED
        BY <2>5, <4>1, <4>2 DEF Placed
    <3>2. CASE i # l + 1
      <4>1. i \in 1 .. l /\ i # Len(more)
        BY <1>1, <2>6, <3>2
      <4>2. CoverStart(more, 0, i) = CoverStart(t, 0, i)
        <5>1. i # 1 => i - 1 \in 1 .. l
          BY <1>1, <4>1
        <5>2. i # 1 => more[i - 1] = t[i - 1]
          BY <2>6, <5>1
        <5> QED
          BY <5>2 DEF CoverStart
      <4>3. Placed(t[i], CoverStart(t, 0, i), FALSE, old, new) /\ more[i] = t[i]
        BY <1>1, <2>6, <4>1
      <4> QED
        BY <4>1, <4>2, <4>3 DEF Placed
    <3> QED
      BY <3>1, <3>2
  <2>8. InOrder(more, 0, old, new)
    BY <2>6, <2>7 DEF InOrder
  <2> QED
    BY <1>2, <1>5, <2>8
<1> QED
  BY <1>3, <1>4, <1>5

WrittenDiffs == [old : Seq(Nat), new : Seq(Nat), body : Seq(Nat), coverCount : Nat,
                 stepMemSize : Nat, uncompressedSize : Nat, thrown : BOOLEAN, complete : BOOLEAN]

\* The header hdiffz writes is true of the body that follows it: for any two streams, any
\* covers in order within them and any step memory it was asked to keep to, the declared size
\* (counted apart from the bytes, FlushStep) is the number of bytes written, and of the
\* covers written, halves of clipped ones included, no more are counted than there are
\* bytes of new data, and one.
THEOREM HeaderCountsBody ==
    ASSUME WriterAssumption, NEW old \in Seq(Nat), NEW new \in Seq(Nat), NEW m, NEW covers,
           Listed(covers, old, new),
           NEW d, d = DiffInputs!Diff(old, new, covers, m)
    PROVE  /\ d \in WrittenDiffs /\ d.old = old /\ d.new = new
           /\ d.uncompressedSize = Len(d.body) /\ d.coverCount <= Len(new) + 1
<1> DEFINE b == DiffInputs!BeginStep(new, covers)  todo == DiffInputs!CoversToWrite(new, covers)
           t == DiffInputs!Turns(b, old, new, covers, m)  s == DiffInputs!EndStep(t)
           none == <<>>  rle == DiffInputs!EmptyRle  no == FALSE
<1>1. b = [todo |-> todo, lastOldEnd |-> 0, lastNewEnd |-> 0, cover |-> none, rle |-> rle,
           gap |-> none, body |-> none, declared |-> 0, coverCount |-> 0, maxStepMem |-> 0,
           thrown |-> no]
  BY DEF DiffInputs!BeginStep
<1>2. InOrder(todo, 0, old, new)
  BY CoversAreInOrder
<1>3. /\ todo \in Seq(OneCover) /\ none \in Seq(Nat) /\ Len(none) = 0 /\ rle \in Rles
      /\ no \in BOOLEAN /\ 0 \in Nat
  BY <1>2 DEF InOrder, DiffInputs!EmptyRle, Rles
<1>4. Len(new) \in Nat /\ Len(covers) \in Nat
  BY LenProperties DEF Listed
<1>5. Good(b, old, new)
  <2> HIDE DEF todo, none, rle, no, b
  <2>1. /\ b \in Writers /\ b.todo = todo /\ b.lastNewEnd = 0 /\ b.body = none
        /\ b.declared = 0 /\ b.coverCount = 0
    BY <1>1, <1>3 DEF Writers
  <2>2. 0 <= Len(new) /\ 0 + 0 <= 0 + 1 /\ 0 + 1 <= 0 + 1
    BY <1>4
  <2>3. 0 + (IF b.todo = <<>> THEN 0 ELSE 1) <= 0 + 1
    BY <2>2
  <2> QED
    BY <1>2, <1>3, <2>1, <2>2, <2>3 DEF Good
<1>6. Good(t, old, new)
  <2>1. DiffInputs!MaxTurns(new, covers) \in Nat
    BY <1>4 DEF DiffInputs!MaxTurns
  <2> HIDE DEF b
  <2> QED
    BY <1>5, <2>1, TurnsAreGood
<1> HIDE DEF t
<1>7. Good(s, old, new)
  BY <1>6, FlushIsGood DEF DiffInputs!EndStep
<1>8. d = DiffInputs!DiffOf(s, old, new)
  BY DEF DiffInputs!Diff, DiffInputs!Steps, t
<1> HIDE DEF s
<1>9. /\ d.old = old /\ d.new = new /\ d.body = s.body /\ d.coverCount = s.coverCount
      /\ d.stepMemSize = s.maxStepMem /\ d.uncompressedSize = s.declared
  BY <1>8 DEF DiffInputs!DiffOf
<1>10. /\ s \in Writers /\ s.lastNewEnd <= Len(new) /\ Len(s.body) = s.declared
       /\ s.coverCount + (IF s.todo = <<>> THEN 0 ELSE 1) <= s.lastNewEnd + 1
  BY <1>7 DEF Good
<1>11. /\ s.body \in Seq(Nat) /\ s.declared \in Nat /\ s.coverCount \in Nat
       /\ s.maxStepMem \in Nat /\ s.lastNewEnd \in Nat
  BY <1>10, WriterFields
<1>12. s.coverCount <= Len(new) + 1
  <2> DEFINE c == s.coverCount  e == s.lastNewEnd  n == Len(new)
             x == IF s.todo = <<>> THEN 0 ELSE 1
  <2>1. c \in Nat /\ e \in Nat /\ n \in Nat /\ c + x <= e + 1 /\ x \in 0 .. 1 /\ e <= n
    BY <1>4, <1>10, <1>11
  <2> HIDE DEF c, e, n, x
  <2>2. c <= n + 1
    BY <2>1
  <2> QED
    BY <2>2 DEF c, n
<1>13. d \in WrittenDiffs
  <2>1. s.thrown \in BOOLEAN /\ TRUE \in BOOLEAN
    BY <1>10, WriterFields
  <2> QED
    BY <1>8, <1>11, <2>1 DEF DiffInputs!DiffOf, WrittenDiffs
<1> QED
  BY <1>9, <1>10, <1>12, <1>13

\* What the writer answers for a pair of streams and a list of covers is such a diff.
LEMMA DiffIsReceived ==
    ASSUME WriterAssumption, NEW old \in Seq(Nat), NEW new \in Seq(Nat), NEW m, NEW covers,
           Listed(covers, old, new), Len(new) <= 14,
           NEW d, d = DiffInputs!Diff(old, new, covers, m)
    PROVE  IsReceived(d) /\ d \in WrittenDiffs
<1>1. /\ d \in WrittenDiffs /\ d.old = old /\ d.new = new
      /\ d.uncompressedSize = Len(d.body) /\ d.coverCount <= Len(new) + 1
  BY HeaderCountsBody
<1>2. /\ d.body \in Seq(Nat) /\ d.coverCount \in Nat /\ d.stepMemSize \in Nat
      /\ d.uncompressedSize \in Nat
  BY <1>1 DEF WrittenDiffs
<1>3. d.coverCount \in Patch!StreamPos
  <2> DEFINE c == d.coverCount  n == Len(new)  u == UIntBits
  <2>1. c \in Nat /\ n \in Nat /\ c <= n + 1 /\ n <= 14
    BY <1>1, <1>2, LenProperties
  <2>2. u \in Nat /\ u >= 4
    BY DEF WriterAssumption, PatchAssumption, Patch!ByteBitsAssumption, Patch!UIntBitsAssumption
  <2> HIDE DEF c, n, u
  <2>3. c <= 15
    BY <2>1
  <2>4. 2 ^ 4 = 16
    <3>1. 2 ^ 0 = 1 /\ 2 ^ (0 + 1) = 2 * 2 ^ 0 /\ 2 ^ (1 + 1) = 2 * 2 ^ 1
          /\ 2 ^ (2 + 1) = 2 * 2 ^ 2 /\ 2 ^ (3 + 1) = 2 * 2 ^ 3
      BY PowZero, PowNext
    <3> QED
      BY <3>1
  <2>5. 2 ^ u \in Nat /\ 2 ^ 4 <= 2 ^ u
    BY <2>2, PowType, PowOrder
  <2>6. c \in 0 .. (2 ^ u - 1)
    <3> DEFINE w == 2 ^ u
    <3>1. w \in Nat /\ w >= 16
      BY <2>4, <2>5
    <3> HIDE DEF w
    <3>2. c \in 0 .. (w - 1)
      BY <2>1, <2>3, <3>1
    <3> QED
      BY <3>2 DEF w
  <2> QED
    BY <2>6 DEF Patch!StreamPos, c, u
<1> QED
  BY <1>1, <1>2, <1>3 DEF IsReceived

LEMMA InputsAreReceived ==
    ASSUME WriterAssumption, NEW d \in DiffInputs!AllDiffs
    PROVE  IsReceived(d)
<1> DEFINE ws == DiffInputs!Written({10, 14})
<1>1. ASSUME NEW s \in DiffInputs!Streams
      PROVE  s[1] \in Seq(Nat) /\ s[2] \in Seq(Nat) /\ Len(s[2]) <= 14
  <2> DEFINE a1 == <<1, 2, 0, 7, 3, 1, 0, 5>>  b1 == <<1, 2, 0, 7, 3, 4, 0, 5, 6, 6>>
             a2 == <<1, 2, 3, 4, 5, 6, 7, 0>>  b2 == <<3, 5, 5, 0, 2, 7, 7, 2, 1>>
             a3 == <<2, 2, 2>>  b3 == <<2, 2, 2, 2, 2, 2, 2>>
             a4 == <<5>>  b4 == <<1, 2, 3>>
             a5 == <<>>  b5 == <<4, 1>>
             a6 == <<1, 2>>  b6 == <<>>
  <2>1. a1 \in Seq(Nat) /\ b1 \in Seq(Nat) /\ Len(b1) <= 14
    OBVIOUS
  <2>2. a2 \in Seq(Nat) /\ b2 \in Seq(Nat) /\ Len(b2) <= 14
    OBVIOUS
  <2>3. a3 \in Seq(Nat) /\ b3 \in Seq(Nat) /\ Len(b3) <= 14
    OBVIOUS
  <2>4. a4 \in Seq(Nat) /\ b4 \in Seq(Nat) /\ Len(b4) <= 14
    OBVIOUS
  <2>5. a5 \in Seq(Nat) /\ b5 \in Seq(Nat) /\ Len(b5) <= 14
    OBVIOUS
  <2>6. a6 \in Seq(Nat) /\ b6 \in Seq(Nat) /\ Len(b6) <= 14
    OBVIOUS
  <2>7. s \in {<<a1, b1>>, <<a2, b2>>, <<a3, b3>>, <<a4, b4>>, <<a5, b5>>, <<a6, b6>>}
    BY DEF DiffInputs!Streams
  <2> HIDE DEF a1, b1, a2, b2, a3, b3, a4, b4, a5, b5, a6, b6
  <2> QED
    BY <2>1, <2>2, <2>3, <2>4, <2>5, <2>6, <2>7
<1>2. ASSUME NEW w \in ws PROVE IsReceived(w) /\ w \in WrittenDiffs
  <2>0. PICK s \in DiffInputs!Streams : \E cs \in DiffInputs!CoverLists(s[1], s[2]), m \in {10, 14} :
            w = DiffInputs!Diff(s[1], s[2], cs, m)
    BY DEF DiffInputs!Written
  <2>1. PICK cs \in DiffInputs!CoverLists(s[1], s[2]), m \in {10, 14} :
            w = DiffInputs!Diff(s[1], s[2], cs, m)
    BY <2>0
  <2> DEFINE old == s[1]  new == s[2]
  <2>2. old \in Seq(Nat) /\ new \in Seq(Nat) /\ Len(new) <= 14
    BY <1>1
  <2>3. cs \in DiffInputs!CoverLists(old, new) /\ w = DiffInputs!Diff(old, new, cs, m)
    BY <2>1
  <2> HIDE DEF old, new
  <2>4. Listed(cs, old, new)
    BY <2>2, <2>3, ListsAreListed
  <2> QED
    BY <2>2, <2>3, <2>4, DiffIsReceived
<1>3. ASSUME NEW w \in ws, NEW n \in {0, Len(w.body) \div 2, Len(w.body) - 1},
             d = [w EXCEPT !.body = SubSeq(@, 1, n), !.complete = FALSE]
      PROVE  IsReceived(d)
  <2> DEFINE x == w.body  l == Len(x)  cut == SubSeq(x, 1, n)
  <2>1. IsReceived(w) /\ l \in Nat
    <3>1. IsReceived(w)
      BY <1>2
    <3> QED
      BY <3>1, LenProperties DEF IsReceived
  <2>2. x \in Seq(Nat) /\ l <= w.uncompressedSize /\ w.uncompressedSize \in Nat
    BY <2>1 DEF IsReceived
  <2>3. n \in Int /\ n <= l
    <3>1. n \in {0, l \div 2, l - 1}
      OBVIOUS
    <3> HIDE DEF l
    <3> QED
      BY <2>1, <3>1
  <2>4. cut \in Seq(Nat) /\ Len(cut) <= l
    <3>1. CASE n >= 0
      <4>1. n \in Nat /\ 1 \in Nat /\ 0 + 1 = 1 /\ 0 + n = n /\ 0 \in Nat /\ n <= Len(x)
        BY <2>3, <3>1
      <4>2. cut = SubSeq(x, 0 + 1, 0 + n)
        BY <4>1
      <4> HIDE DEF cut, x
      <4>3. cut \in Seq(Nat) /\ Len(cut) = n
        BY <2>2, <4>1, <4>2, Window DEF x
      <4> QED
        BY <2>3, <4>3
    <3>2. CASE n < 0
      <4>1. n < 1
        BY <2>3, <3>2
      <4>2. cut = <<>>
        BY <2>3, <4>1, SubSeqEmpty
      <4>3. <<>> \in Seq(Nat) /\ Len(<<>>) = 0
        OBVIOUS
      <4> HIDE DEF cut, l
      <4> QED
        BY <2>1, <4>2, <4>3
    <3> QED
      BY <2>3, <3>1, <3>2
  <2> HIDE DEF cut, x
  <2>5. /\ d.old = w.old /\ d.new = w.new /\ d.body = cut /\ d.coverCount = w.coverCount
        /\ d.stepMemSize = w.stepMemSize /\ d.uncompressedSize = w.uncompressedSize
    <3>1. w \in WrittenDiffs /\ d = [w EXCEPT !.body = cut, !.complete = FALSE]
      BY <1>2, <1>3 DEF cut, x
    <3> QED
      BY <3>1 DEF WrittenDiffs
  <2>6. Len(cut) <= w.uncompressedSize
    <3>1. Len(cut) \in Nat
      BY <2>4, LenProperties
    <3> QED
      BY <2>1, <2>2, <2>4, <3>1
  <2> QED
    BY <2>1, <2>4, <2>5, <2>6 DEF IsReceived
<1>4. d \in ws \/ \E w \in ws : \E n \in {0, Len(w.body) \div 2, Len(w.body) - 1} :
                     d = [w EXCEPT !.body = SubSeq(@, 1, n), !.complete = FALSE]
  <2> HIDE DEF ws
  <2> QED
    BY DEF DiffInputs!AllDiffs, DiffInputs!WithCuts, DiffInputs!CutShort, ws
<1> QED
  BY <1>2, <1>3, <1>4

PatchInv == kind = "patch" => PInv

\* Whatever a diff's bytes and whatever its header says of its covers and its step
\* memory, what patch_single_stream_diff holds stays within what it has room for: the
\* step in the memory the header asks for, the diff's bytes, the piece of data and the
\* output in their buffers, the runs within their code; and it has answered exactly when
\* it is at its end. The stream has to end where the header says, or before (IsReceived).
THEOREM AnyDiffFitsBuffers ==
    ASSUME Patch!ByteBitsAssumption, Patch!UIntBitsAssumption, Patch!CacheSizeAssumption
    PROVE  IsReceived(input) /\ Patch!Spec => []Patch!TypeOK
<1>1. PatchAssumption
  BY DEF PatchAssumption
<1>2. IsReceived(input) /\ Patch!Init => PInv
  BY <1>1, PInvInit
<1>3. PInv /\ [Patch!Next]_(Patch!vars) => PInv'
  BY <1>1, PInvNext
<1>4. PInv => Patch!TypeOK
  BY PInvTypes
<1> QED
  BY <1>2, <1>3, <1>4, PTL DEF Patch!Spec

\* The same of the diffs hdiffz writes, whole or cut short, for any sizes of a byte, of an
\* integer, of the buffers and of a run: their headers say no less than their bodies hold.
THEOREM DiffsFitBuffers ==
    ASSUME Patch!ByteBitsAssumption, Patch!UIntBitsAssumption, Patch!CacheSizeAssumption,
           DiffInputs!MaxRleLenAssumption
    PROVE  Spec => []PatchTypeOK
<1>1. PatchAssumption /\ WriterAssumption
  BY DEF PatchAssumption, WriterAssumption
<1>2. Init => PatchInv
  <2> SUFFICES ASSUME Init, kind = "patch" PROVE PInv
    BY DEF PatchInv
  <2>1. input \in DiffInputs!AllDiffs /\ Patch!Init
    BY DEF Init
  <2>2. IsReceived(input)
    BY <1>1, <2>1, InputsAreReceived
  <2> QED
    BY <1>1, <2>1, <2>2, PInvInit
<1>3. PatchInv /\ [Next]_vars => PatchInv'
  <2> SUFFICES ASSUME PatchInv, [Next]_vars, kind' = "patch" PROVE PInv'
    BY DEF PatchInv
  <2>1. kind = "patch" /\ [Patch!Next]_(Patch!vars)
    BY DEF Next, vars, Patch!vars
  <2>2. PInv
    BY <2>1 DEF PatchInv
  <2> QED
    BY <1>1, <2>1, <2>2, PInvNext
<1>4. PatchInv => PatchTypeOK
  BY PInvTypes DEF PatchInv, PatchTypeOK
<1> QED
  BY <1>2, <1>3, <1>4, PTL DEF Spec

-----------------------------------------------------------------------------
(* Archives: where the stream's decoder is in the file                      *)

\* Pieces of a frame, and the frames a file may have: blocks of any kinds and sizes.
PieceSet == [kind : {"header", "checksum"}, size : Nat \ {0}]
            \cup [kind : {"raw", "rle", "compressed"}, size : Nat \ {0}, tokens : Seq(Int)]
BlockSet == [type : {"raw", "rle", "compressed"}, csize : Nat, tokens : Seq(Int)]
FrameSet == [contentSizeKnown : BOOLEAN, checksum : BOOLEAN, window : Nat, blocks : Seq(BlockSet)]

\* The size of a frame's header and its first n pieces; of the first n frames.
PieceEnds(f) ==
    LET p == Zstd!Pieces(f)
        sum[n \in 0 .. Len(p)] == IF n = 0 THEN Zstd!HeaderSize ELSE sum[n - 1] + p[n].size
    IN sum
FrameEnds(frames) ==
    LET upTo[n \in 0 .. Len(frames)] ==
            IF n = 0 THEN 0 ELSE upTo[n - 1] + FileInputs!FrameSize(frames[n])
    IN upTo

\* A downloaded archive: some frames, all of their bytes or the first of them.
IsArchive(f) ==
    /\ f.frames \in Seq(FrameSet) /\ f.frames # <<>>
    /\ f.size \in Nat /\ f.size <= FileInputs!TotalSize(f.frames)
    /\ f.complete \in BOOLEAN /\ (f.complete => f.size = FileInputs!TotalSize(f.frames))

(* The invariant: which bytes of the file have been consumed. Variables as in Zstd:  *)
(* r1 is inSize, r3 filePos, r4 in, r6 zds, r7 dctx, r9 lastStatus. Of the output it *)
(* says only whether some of it is still to be flushed.                              *)
FramesEnd == FrameEnds(input.frames)
Places == PieceEnds(Zstd!Frame)
Consumed == r3 - r4.size + r4.pos
Flushed == r6.outStart = r6.outEnd
HasPiece == r7.piece <= Len(Zstd!FramePieces)
Debt == IF r6.hostage THEN 1 ELSE 0

\* The frame is decoded, or none is begun: only a hostage may be missing.
BetweenFrames ==
    r6.stage = "init" =>
        /\ pc = "return" => /\ r7.frame > 0 /\ ~ HasPiece /\ Flushed
                            /\ Consumed + Debt = FramesEnd[r7.frame]
                            /\ r6.hostage => r4.pos < r4.size
        /\ pc # "return" => /\ Consumed = FramesEnd[r7.frame]
                            /\ r7.frame > 0 => r9 = 0
        /\ pc = "work" => r4.pos < r4.size /\ r4.start = r4.pos
AtHeader ==
    r6.stage = "loadHeader" =>
        /\ r7.frame > 0 /\ pc # "return" /\ r7.piece = 1 /\ r7.left = 0
        /\ r6.inPos = 0 /\ r6.lhSize < Zstd!HeaderSize /\ ~ r6.hostage /\ Flushed
        /\ Consumed = FramesEnd[r7.frame - 1] + r6.lhSize
        /\ pc = "work" => r4.start = r4.pos
AtPiece ==
    r6.stage \in {"read", "load", "flush"} =>
        /\ r7.frame > 0 /\ r7.piece \in 1 .. Len(Zstd!FramePieces) + 1
        /\ HasPiece => r7.left + r6.inPos < Zstd!Piece.size /\ (r7.left > 0 => Zstd!Piece.kind = "raw")
        /\ ~ HasPiece => r7.left = 0
        /\ r6.stage = "load" => HasPiece
        /\ r6.stage # "load" => r6.inPos = 0
        /\ r6.stage # "flush" => Flushed
        /\ r6.hostage => ~ HasPiece /\ r4.pos < r4.size
        /\ Consumed + Debt = FramesEnd[r7.frame - 1] + Places[r7.piece - 1] + r7.left + r6.inPos
        /\ pc = "return" => HasPiece \/ ~ Flushed
        /\ pc \in {"fread", "call", "written"} => HasPiece \/ r6.hostage
ZstdShape ==
    /\ pc \in {"fread", "call", "work", "return", "written"}
    /\ r1 \in Nat \ {0} /\ r3 \in Nat /\ r3 <= input.size
    /\ r4 \in [size : Nat, pos : Int, start : Int] /\ r4.pos <= r4.size
    /\ pc = "fread" => r4.pos = r4.size
    /\ r6 \in [stage : {"init", "loadHeader", "read", "load", "flush"}, lhSize : Nat, inPos : Nat,
               outStart : {r6.outStart}, outEnd : {r6.outEnd}, hostage : BOOLEAN]
    /\ r7 \in [frame : Nat, piece : Nat, left : Nat, at : {r7.at}, prefixStart : {r7.prefixStart},
               prefixAt : {r7.prefixAt}, prefixEnd : {r7.prefixEnd}, dictEnd : {r7.dictEnd}]
    /\ r7.frame <= Len(input.frames)
ZInv ==
    /\ IsArchive(input)
    /\ pc # "end" => result = "running" /\ ZstdShape /\ BetweenFrames /\ AtHeader /\ AtPiece
    /\ result = "failed" /\ input.complete => ioFailed

LEMMA UpInduction ==
    ASSUME NEW l \in Nat, NEW G, 0 \in G, \A n \in 1 .. l : n - 1 \in G => n \in G
    PROVE  \A n \in 0 .. l : n \in G
<1> DEFINE D == 0 .. l  rank == [n \in D |-> n]
<1>1. rank \in [D -> Nat]
  OBVIOUS
<1>2. ASSUME NEW n \in D, \A k \in D : rank[k] < rank[n] => k \in G PROVE n \in G
  <2>1. CASE n = 0
    BY <2>1
  <2>2. CASE n # 0
    <3>1. n \in 1 .. l /\ n - 1 \in D /\ rank[n - 1] < rank[n]
      BY <2>2
    <3> QED
      BY <1>2, <3>1
  <2> QED
    BY <2>1, <2>2
<1> HIDE DEF D, rank
<1>3. \A n \in D : n \in G
  BY <1>1, <1>2, RankInduction
<1> QED
  BY <1>3 DEF D

\* A value for every number up to l, each made of the one before.
FoldsIn(V, l, first, add) == l \in Nat /\ first \in V /\ add \in [V \X (1 .. l) -> V]
IsFold(f, l, first, add) == f[0] = first /\ \A n \in 1 .. l : f[n] = add[<<f[n - 1], n>>]

LEMMA FoldExists ==
    ASSUME NEW V, NEW l, NEW first, NEW add, FoldsIn(V, l, first, add)
    PROVE  \E f \in [0 .. l -> V] : IsFold(f, l, first, add)
<1> USE DEF FoldsIn
<1> DEFINE D == 0 .. l  stop == {0}  rank == [n \in D |-> n]  base == [n \in D |-> first]
           before == [n \in D |-> IF n = 0 THEN 0 ELSE n - 1]
           step == [x \in V \X D |-> IF x[2] = 0 THEN first ELSE add[<<x[1], x[2]>>]]
<1>1. Descends(D, V, rank, stop, base, before, step)
  <2>1. rank \in [D -> Nat] /\ base \in [D -> V] /\ before \in [D -> D]
    OBVIOUS
  <2>2. step \in [V \X D -> V]
    <3>1. ASSUME NEW x \in V \X D
          PROVE  (IF x[2] = 0 THEN first ELSE add[<<x[1], x[2]>>]) \in V
      <4>1. x[1] \in V /\ x[2] \in D
        OBVIOUS
      <4>2. CASE x[2] # 0
        <5>1. x[2] \in 1 .. l
          BY <4>1, <4>2
        <5>2. <<x[1], x[2]>> \in V \X (1 .. l)
          BY <4>1, <5>1
        <5>3. add[<<x[1], x[2]>>] \in V
          BY <5>2
        <5> QED
          BY <4>2, <5>3
      <4> QED
        BY <4>2
    <3> QED
      BY <3>1
  <2>3. \A n \in D : n \notin stop => rank[before[n]] < rank[n]
    OBVIOUS
  <2> QED
    BY <2>1, <2>2, <2>3 DEF Descends
<1> HIDE DEF rank, stop, base, before, step
<1>2. PICK f \in [D -> V] : \A n \in D : f[n] = Says(f, n, stop, base, before, step)
  <2> HIDE DEF D
  <2> QED
    BY <1>1, RecursionExists
<1>3. f[0] = first
  <2>1. 0 \in D /\ 0 \in stop
    BY DEF stop
  <2> QED
    BY <1>2, <2>1 DEF Says, base
<1>4. ASSUME NEW n \in 1 .. l PROVE f[n] = add[<<f[n - 1], n>>]
  <2>1. n \in D /\ n # 0 /\ n - 1 \in D
    OBVIOUS
  <2>2. f[n - 1] \in V
    BY <2>1
  <2>3. f[n] = Says(f, n, stop, base, before, step)
    BY <1>2, <2>1
  <2>4. n \notin stop /\ before[n] = n - 1
    BY <2>1 DEF stop, before
  <2>5. f[n] = step[<<f[n - 1], n>>]
    BY <2>3, <2>4 DEF Says
  <2> HIDE DEF D
  <2> QED
    BY <2>1, <2>2, <2>5 DEF step
<1> QED
  BY <1>3, <1>4 DEF IsFold

\* Sums: they grow.
SumFrom(f, l, first, w) == [n \in 0 .. l |-> IF n = 0 THEN first ELSE f[n - 1] + w[n]]

Summands(l, first, w) == l \in Nat /\ first \in Nat /\ w \in [1 .. l -> Nat]
IsSum(f, l, first, w) ==
    /\ f \in [0 .. l -> Nat] /\ f[0] = first
    /\ \A n \in 1 .. l : f[n] = f[n - 1] + w[n]
    /\ \A n \in 0 .. l : f[n] <= f[l]

LEMMA SumsAre ==
    ASSUME NEW l, NEW first, NEW w, Summands(l, first, w),
           NEW f, f = CHOOSE g : g = SumFrom(g, l, first, w)
    PROVE  IsSum(f, l, first, w)
<1> USE DEF Summands
<1> DEFINE D == 0 .. l  add == [x \in Nat \X (1 .. l) |-> x[1] + w[x[2]]]
<1>1. add \in [Nat \X (1 .. l) -> Nat]
  <2>1. ASSUME NEW x \in Nat \X (1 .. l) PROVE x[1] + w[x[2]] \in Nat
    <3>1. x[1] \in Nat /\ x[2] \in 1 .. l
      OBVIOUS
    <3>2. w[x[2]] \in Nat
      BY <3>1
    <3> QED
      BY <3>1, <3>2
  <2> QED
    BY <2>1
<1> HIDE DEF add
<1>2. PICK h \in [0 .. l -> Nat] : h[0] = first /\ \A n \in 1 .. l : h[n] = add[<<h[n - 1], n>>]
  <2>1. FoldsIn(Nat, l, first, add)
    BY <1>1 DEF FoldsIn
  <2>2. \E h \in [0 .. l -> Nat] : IsFold(h, l, first, add)
    BY <2>1, FoldExists
  <2> QED
    BY <2>2 DEF IsFold
<1>3. \A n \in 1 .. l : h[n] = h[n - 1] + w[n]
  <2> SUFFICES ASSUME NEW n \in 1 .. l PROVE h[n] = h[n - 1] + w[n]
    OBVIOUS
  <2>1. h[n] = add[<<h[n - 1], n>>] /\ n - 1 \in 0 .. l
    BY <1>2
  <2>2. h[n - 1] \in Nat
    BY <2>1
  <2> QED
    BY <2>1, <2>2 DEF add
<1>4. h = SumFrom(h, l, first, w)
  <2>1. ASSUME NEW n \in 0 .. l PROVE h[n] = IF n = 0 THEN first ELSE h[n - 1] + w[n]
    <3>1. n # 0 => n \in 1 .. l
      OBVIOUS
    <3> QED
      BY <1>2, <1>3, <3>1
  <2> QED
    BY <2>1 DEF SumFrom
<1>5. f = SumFrom(f, l, first, w)
  BY <1>4
<1>6. \A n \in D : f[n] = IF n = 0 THEN first ELSE f[n - 1] + w[n]
  BY <1>5 DEF SumFrom
<1>7. f[0] = first /\ \A n \in 1 .. l : n - 1 \in D /\ f[n] = f[n - 1] + w[n]
  <2>1. 0 \in D
    OBVIOUS
  <2>2. ASSUME NEW n \in 1 .. l PROVE n - 1 \in D /\ f[n] = f[n - 1] + w[n]
    <3>1. n \in D /\ n # 0 /\ n - 1 \in D
      OBVIOUS
    <3> QED
      BY <1>6, <3>1
  <2> QED
    BY <1>6, <2>1, <2>2
<1> DEFINE G == {n \in D : f[n] \in Nat}
<1>8. 0 \in G
  BY <1>7
<1>9. ASSUME NEW n \in 1 .. l, n - 1 \in G PROVE n \in G
  <2>1. f[n - 1] \in Nat /\ w[n] \in Nat /\ n \in D
    BY <1>9
  <2>2. f[n] = f[n - 1] + w[n]
    BY <1>7
  <2>3. f[n - 1] + w[n] \in Nat
    BY <2>1
  <2> QED
    BY <2>1, <2>2, <2>3
<1>10. \A n \in D : f[n] \in Nat
  <2> HIDE DEF G
  <2>1. \A n \in 0 .. l : n \in G
    BY <1>8, <1>9, UpInduction
  <2> QED
    BY <2>1 DEF G
<1>11. f \in [D -> Nat]
  BY <1>5, <1>10 DEF SumFrom
<1> DEFINE H == {n \in D : f[l - n] <= f[l]}
<1>12. 0 \in H
  <2>1. l \in D /\ l - 0 = l
    OBVIOUS
  <2>2. f[l] \in Nat
    BY <1>10, <2>1
  <2>3. f[l - 0] <= f[l]
    BY <2>1, <2>2
  <2> QED
    BY <2>3
<1>13. ASSUME NEW n \in 1 .. l, n - 1 \in H PROVE n \in H
  <2> DEFINE k == l - (n - 1)
  <2>1. k \in 1 .. l /\ l - n = k - 1 /\ k - 1 \in D /\ k \in D /\ n \in D /\ l \in D
    OBVIOUS
  <2>2. f[k] <= f[l]
    BY <1>13
  <2> HIDE DEF k
  <2>3. f[k] = f[k - 1] + w[k] /\ w[k] \in Nat /\ f[k - 1] \in Nat /\ f[l] \in Nat
    BY <1>7, <1>10, <2>1
  <2>4. f[k - 1] <= f[l]
    BY <2>2, <2>3
  <2> QED
    BY <2>1, <2>4
<1>14. ASSUME NEW n \in D PROVE f[n] <= f[l]
  <2>1. l - n \in 0 .. l /\ l - (l - n) = n
    OBVIOUS
  <2>2. \A k \in 0 .. l : k \in H
    <3> HIDE DEF H
    <3> QED
      BY <1>12, <1>13, UpInduction
  <2>3. f[l - (l - n)] <= f[l]
    BY <2>1, <2>2
  <2> QED
    BY <2>1, <2>3
<1> QED
  BY <1>7, <1>11, <1>14 DEF IsSum

JoinFrom(f, l, s) == [n \in 0 .. l |-> IF n = 0 THEN <<>> ELSE f[n - 1] \o s[n]]

LEMMA JoinsAre ==
    ASSUME NEW l \in Nat, NEW S, NEW s \in [1 .. l -> Seq(S)],
           NEW f, f = CHOOSE g : g = JoinFrom(g, l, s)
    PROVE  f \in [0 .. l -> Seq(S)]
<1> DEFINE D == 0 .. l  none == <<>>  V == Seq(S)  add == [x \in V \X (1 .. l) |-> x[1] \o s[x[2]]]
<1>1. add \in [V \X (1 .. l) -> V] /\ none \in V
  <2>1. ASSUME NEW x \in V \X (1 .. l) PROVE x[1] \o s[x[2]] \in V
    <3>1. x[1] \in V /\ x[2] \in 1 .. l
      OBVIOUS
    <3>2. s[x[2]] \in Seq(S) /\ x[1] \in Seq(S)
      BY <3>1
    <3> DEFINE a == x[1]  b == s[x[2]]
    <3>3. a \in Seq(S) /\ b \in Seq(S)
      BY <3>2
    <3> HIDE DEF a, b
    <3>4. a \o b \in Seq(S)
      BY <3>3, Dir!Cat
    <3> QED
      BY <3>4 DEF a, b
  <2>2. none \in V
    OBVIOUS
  <2> QED
    BY <2>1, <2>2
<1> HIDE DEF add, none
<1>2. PICK h \in [0 .. l -> V] : h[0] = none /\ \A n \in 1 .. l : h[n] = add[<<h[n - 1], n>>]
  <2>1. FoldsIn(V, l, none, add)
    BY <1>1 DEF FoldsIn
  <2> HIDE DEF V
  <2>2. \E h \in [0 .. l -> V] : IsFold(h, l, none, add)
    BY <2>1, FoldExists
  <2> QED
    BY <2>2 DEF IsFold
<1>3. \A n \in 1 .. l : h[n] = h[n - 1] \o s[n]
  <2> SUFFICES ASSUME NEW n \in 1 .. l PROVE h[n] = h[n - 1] \o s[n]
    OBVIOUS
  <2>1. h[n] = add[<<h[n - 1], n>>] /\ n - 1 \in 0 .. l
    BY <1>2
  <2>2. h[n - 1] \in V
    BY <2>1
  <2> HIDE DEF V
  <2> QED
    BY <2>1, <2>2 DEF add
<1>4. h = JoinFrom(h, l, s)
  <2>1. ASSUME NEW n \in 0 .. l PROVE h[n] = IF n = 0 THEN none ELSE h[n - 1] \o s[n]
    <3>1. n # 0 => n \in 1 .. l
      OBVIOUS
    <3> QED
      BY <1>2, <1>3, <3>1
  <2> QED
    BY <2>1 DEF JoinFrom, none
<1>5. f = JoinFrom(f, l, s)
  BY <1>4
<1>6. \A n \in D : f[n] = IF n = 0 THEN none ELSE f[n - 1] \o s[n]
  BY <1>5 DEF JoinFrom, none
<1>7. f[0] = none /\ \A n \in 1 .. l : n - 1 \in D /\ f[n] = f[n - 1] \o s[n]
  <2>1. 0 \in D
    OBVIOUS
  <2>2. ASSUME NEW n \in 1 .. l PROVE n - 1 \in D /\ f[n] = f[n - 1] \o s[n]
    <3>1. n \in D /\ n # 0 /\ n - 1 \in D
      OBVIOUS
    <3> QED
      BY <1>6, <3>1
  <2> QED
    BY <1>6, <2>1, <2>2
<1> DEFINE G == {n \in D : f[n] \in Seq(S)}
<1>8. 0 \in G
  BY <1>1, <1>7
<1>9. ASSUME NEW n \in 1 .. l, n - 1 \in G PROVE n \in G
  <2> DEFINE a == f[n - 1]  b == s[n]
  <2>1. a \in Seq(S) /\ n \in D
    BY <1>9
  <2>2. b \in Seq(S)
    OBVIOUS
  <2>3. f[n] = a \o b
    BY <1>7
  <2> HIDE DEF a, b
  <2>4. a \o b \in Seq(S)
    BY <2>1, <2>2, Dir!Cat
  <2> QED
    BY <2>1, <2>3, <2>4
<1>10. \A n \in D : f[n] \in Seq(S)
  <2> HIDE DEF G
  <2>1. \A n \in 0 .. l : n \in G
    BY <1>8, <1>9, UpInduction
  <2> QED
    BY <2>1 DEF G
<1> QED
  BY <1>5, <1>10 DEF JoinFrom

LEMMA BlockPiecesType ==
    ASSUME NEW b \in BlockSet
    PROVE  Zstd!BlockPieces(b) \in Seq(PieceSet)
<1> DEFINE head == [kind |-> "header", size |-> Zstd!BlockHeaderSize]
           body == [kind |-> b.type, size |-> b.csize, tokens |-> b.tokens]
           none == <<>>  one == <<head>>  two == IF b.csize = 0 THEN none ELSE <<body>>
<1>1. Zstd!BlockPieces(b) = one \o two
  BY DEF Zstd!BlockPieces
<1>2. head \in PieceSet
  BY DEF PieceSet, Zstd!BlockHeaderSize
<1>3. b.csize # 0 => body \in PieceSet
  BY DEF BlockSet, PieceSet
<1> HIDE DEF head, body
<1>4. one \in Seq(PieceSet) /\ two \in Seq(PieceSet)
  BY <1>2, <1>3
<1> HIDE DEF one, two
<1> QED
  BY <1>1, <1>4, Dir!Cat

LEMMA PiecesType ==
    ASSUME NEW f \in FrameSet
    PROVE  Zstd!Pieces(f) \in Seq(PieceSet)
<1> DEFINE bs == f.blocks  l == Len(bs)  s == [n \in 1 .. l |-> Zstd!BlockPieces(bs[n])]
           u == CHOOSE g : g = JoinFrom(g, l, s)  none == <<>>
           sum == [kind |-> "checksum", size |-> Zstd!ChecksumSize]
           last == IF f.checksum THEN <<sum>> ELSE none  all == u[l]
           given == CHOOSE g : g = [n \in 0 .. l |->
                        IF n = 0 THEN <<>> ELSE g[n - 1] \o Zstd!BlockPieces(bs[n])]
<1>1. Zstd!Pieces(f) = given[l] \o last
  BY DEF Zstd!Pieces
<1>2. bs \in Seq(BlockSet)
  BY DEF FrameSet
<1> HIDE DEF bs
<1>3. l \in Nat
  BY <1>2, LenProperties
<1>4. \A n \in 1 .. l : bs[n] \in BlockSet
  BY <1>2, ElementOfSeq
<1>5. s \in [1 .. l -> Seq(PieceSet)]
  BY <1>4, BlockPiecesType
<1>6. given = u
  <2>1. \A g : [n \in 0 .. l |-> IF n = 0 THEN <<>> ELSE g[n - 1] \o Zstd!BlockPieces(bs[n])]
                  = JoinFrom(g, l, s)
    <3> SUFFICES ASSUME NEW g, NEW n \in 0 .. l
                 PROVE  (IF n = 0 THEN <<>> ELSE g[n - 1] \o Zstd!BlockPieces(bs[n]))
                            = (IF n = 0 THEN <<>> ELSE g[n - 1] \o s[n])
      BY DEF JoinFrom
    <3>1. n # 0 => n \in 1 .. l
      BY <1>3
    <3> QED
      BY <3>1
  <2> HIDE DEF s, l
  <2> QED
    BY <2>1
<1> HIDE DEF s, l, given
<1>7. u \in [0 .. l -> Seq(PieceSet)]
  BY <1>3, <1>5, JoinsAre
<1> HIDE DEF u
<1>8. all \in Seq(PieceSet)
  BY <1>3, <1>7
<1>9. sum \in PieceSet
  BY DEF PieceSet, Zstd!ChecksumSize
<1> HIDE DEF sum
<1>10. last \in Seq(PieceSet)
  BY <1>9
<1> HIDE DEF all, last
<1>11. all \o last \in Seq(PieceSet)
  BY <1>8, <1>10, Dir!Cat
<1> QED
  BY <1>1, <1>6, <1>11 DEF all

LEMMA SameSizes == \A f : Zstd!FrameSize(f) = FileInputs!FrameSize(f)
<1>1. \A f : Zstd!Pieces(f) = FileInputs!Pieces(f)
  BY DEF Zstd!Pieces, FileInputs!Pieces, Zstd!BlockPieces, FileInputs!BlockPieces,
         Zstd!BlockHeaderSize, FileInputs!BlockHeaderSize, Zstd!ChecksumSize, FileInputs!ChecksumSize
<1> QED
  BY <1>1 DEF Zstd!FrameSize, FileInputs!FrameSize, Zstd!HeaderSize, FileInputs!HeaderSize

LEMMA PieceSize == ASSUME NEW p \in PieceSet PROVE p.size \in Nat /\ p.size > 0
BY DEF PieceSet

LEMMA PieceEndsAre ==
    ASSUME NEW f \in FrameSet, NEW p, p = Zstd!Pieces(f), NEW e, e = PieceEnds(f)
    PROVE  /\ p \in Seq(PieceSet) /\ Len(p) \in Nat /\ e \in [0 .. Len(p) -> Nat]
           /\ e[0] = Zstd!HeaderSize
           /\ \A n \in 1 .. Len(p) : e[n] = e[n - 1] + p[n].size
           /\ \A n \in 0 .. Len(p) : e[n] <= e[Len(p)]
           /\ e[Len(p)] = Zstd!FrameSize(f)
<1> DEFINE l == Len(p)  h == Zstd!HeaderSize  w == [n \in 1 .. l |-> p[n].size]
           u == CHOOSE g : g = SumFrom(g, l, h, w)
           given == CHOOSE g : g = [n \in 0 .. l |-> IF n = 0 THEN h ELSE g[n - 1] + p[n].size]
<1>1. e = given /\ Zstd!FrameSize(f) = given[l]
  BY DEF PieceEnds, Zstd!FrameSize
<1>2. p \in Seq(PieceSet)
  BY PiecesType
<1>3. l \in Nat /\ h \in Nat
  BY <1>2, LenProperties DEF Zstd!HeaderSize
<1>4. w \in [1 .. l -> Nat]
  <2>1. ASSUME NEW n \in 1 .. l PROVE p[n].size \in Nat
    <3>1. p[n] \in PieceSet
      BY <1>2, ElementOfSeq
    <3> QED
      BY <3>1, PieceSize
  <2> QED
    BY <2>1
<1>5. \A n \in 1 .. l : w[n] = p[n].size
  OBVIOUS
<1> HIDE DEF l, w, h
<1>6. given = u
  <2>1. \A g : [n \in 0 .. l |-> IF n = 0 THEN h ELSE g[n - 1] + p[n].size] = SumFrom(g, l, h, w)
    <3> SUFFICES ASSUME NEW g, NEW n \in 0 .. l
                 PROVE  (IF n = 0 THEN h ELSE g[n - 1] + p[n].size)
                            = (IF n = 0 THEN h ELSE g[n - 1] + w[n])
      BY DEF SumFrom
    <3>1. n # 0 => n \in 1 .. l
      BY <1>3
    <3> QED
      BY <1>5, <3>1
  <2> QED
    BY <2>1
<1> HIDE DEF given
<1>7. /\ u \in [0 .. l -> Nat] /\ u[0] = h
      /\ \A n \in 1 .. l : u[n] = u[n - 1] + w[n]
      /\ \A n \in 0 .. l : u[n] <= u[l]
  <2>1. Summands(l, h, w)
    BY <1>3, <1>4 DEF Summands
  <2>2. IsSum(u, l, h, w)
    BY <2>1, SumsAre
  <2> QED
    BY <2>2 DEF IsSum
<1> HIDE DEF u
<1>8. /\ e \in [0 .. l -> Nat] /\ e[0] = h
      /\ \A n \in 1 .. l : e[n] = e[n - 1] + p[n].size
      /\ \A n \in 0 .. l : e[n] <= e[l]
      /\ e[l] = Zstd!FrameSize(f)
  BY <1>1, <1>5, <1>6, <1>7
<1> QED
  BY <1>2, <1>3, <1>8 DEF l, h

\* Behind a piece there is more of the frame than before it, and no more than the frame.
LEMMA FrameSizeIs ==
    ASSUME NEW f \in FrameSet
    PROVE  Zstd!FrameSize(f) \in Nat /\ Zstd!FrameSize(f) >= Zstd!HeaderSize
<1> DEFINE p == Zstd!Pieces(f)  e == PieceEnds(f)  l == Len(p)  s == Zstd!FrameSize(f)  h == Zstd!HeaderSize
<1>1. l \in Nat /\ e \in [0 .. l -> Nat] /\ e[0] = h /\ e[0] <= e[l] /\ e[l] = s
  <2>1. /\ l \in Nat /\ e \in [0 .. l -> Nat] /\ e[0] = h
        /\ \A n \in 0 .. l : e[n] <= e[l]
        /\ e[l] = s
    BY PieceEndsAre
  <2>2. 0 \in 0 .. l
    BY <2>1
  <2> HIDE DEF p, e, l, s, h
  <2> QED
    BY <2>1, <2>2
<1> HIDE DEF e, l, s, h
<1>2. e[l] \in Nat
  BY <1>1
<1>3. s \in Nat /\ s >= h
  BY <1>1, <1>2
<1> QED
  BY <1>3 DEF s, h

LEMMA FrameEndsAre ==
    ASSUME NEW fs \in Seq(FrameSet), NEW e, e = FrameEnds(fs)
    PROVE  /\ Len(fs) \in Nat /\ e \in [0 .. Len(fs) -> Nat] /\ e[0] = 0
           /\ \A n \in 1 .. Len(fs) : e[n] = e[n - 1] + Zstd!FrameSize(fs[n])
           /\ \A n \in 0 .. Len(fs) : e[n] <= e[Len(fs)]
           /\ e[Len(fs)] = FileInputs!TotalSize(fs)
<1> DEFINE l == Len(fs)  S(n) == FileInputs!FrameSize(fs[n])  w == [n \in 1 .. l |-> S(n)]
           u == CHOOSE g : g = SumFrom(g, l, 0, w)
           given == CHOOSE g : g = [n \in 0 .. l |-> IF n = 0 THEN 0 ELSE g[n - 1] + S(n)]
<1>1. e = given /\ FileInputs!TotalSize(fs) = given[l]
  BY DEF FrameEnds, FileInputs!TotalSize
<1>2. l \in Nat
  BY LenProperties
<1>3. \A n \in 1 .. l : S(n) = Zstd!FrameSize(fs[n])
  BY SameSizes
<1>4. w \in [1 .. l -> Nat]
  <2>1. ASSUME NEW n \in 1 .. l PROVE S(n) \in Nat
    <3>1. fs[n] \in FrameSet
      BY ElementOfSeq
    <3> QED
      BY <1>3, <3>1, FrameSizeIs
  <2> QED
    BY <2>1
<1>5. \A n \in 1 .. l : w[n] = S(n)
  OBVIOUS
<1> HIDE DEF l, w, S
<1>6. given = u
  <2>1. \A g : [n \in 0 .. l |-> IF n = 0 THEN 0 ELSE g[n - 1] + S(n)] = SumFrom(g, l, 0, w)
    <3> SUFFICES ASSUME NEW g, NEW n \in 0 .. l
                 PROVE  (IF n = 0 THEN 0 ELSE g[n - 1] + S(n))
                            = (IF n = 0 THEN 0 ELSE g[n - 1] + w[n])
      BY DEF SumFrom
    <3>1. n # 0 => n \in 1 .. l
      BY <1>2
    <3> QED
      BY <1>5, <3>1
  <2> QED
    BY <2>1
<1> HIDE DEF given
<1>7. /\ u \in [0 .. l -> Nat] /\ u[0] = 0
      /\ \A n \in 1 .. l : u[n] = u[n - 1] + w[n]
      /\ \A n \in 0 .. l : u[n] <= u[l]
  <2>1. Summands(l, 0, w)
    BY <1>2, <1>4 DEF Summands
  <2>2. IsSum(u, l, 0, w)
    BY <2>1, SumsAre
  <2> QED
    BY <2>2 DEF IsSum
<1> HIDE DEF u
<1>8. /\ e \in [0 .. l -> Nat] /\ e[0] = 0
      /\ \A n \in 1 .. l : e[n] = e[n - 1] + Zstd!FrameSize(fs[n])
      /\ \A n \in 0 .. l : e[n] <= e[l]
      /\ e[l] = FileInputs!TotalSize(fs)
  BY <1>1, <1>3, <1>5, <1>6, <1>7
<1> QED
  BY <1>2, <1>8 DEF l

LEMMA SameFrame ==
    ASSUME input' = input, r7'.frame = r7.frame
    PROVE  /\ FramesEnd' = FramesEnd /\ Zstd!Frame' = Zstd!Frame
           /\ Zstd!FramePieces' = Zstd!FramePieces /\ Places' = Places
<1>1. FramesEnd' = FramesEnd
  BY DEF FramesEnd
<1>2. Zstd!Frame' = Zstd!Frame
  BY DEF Zstd!Frame
<1>3. Zstd!FramePieces' = Zstd!FramePieces
  BY <1>2 DEF Zstd!FramePieces
<1>4. Places' = Places
  BY <1>2 DEF Places
<1> QED
  BY <1>1, <1>2, <1>3, <1>4

\* Where the frame in hand is in the file, and its pieces in it.
LEMMA FrameIs ==
    ASSUME IsArchive(input), ZstdShape, r7.frame > 0
    PROVE  /\ Zstd!Frame \in FrameSet /\ r7.frame - 1 \in 0 .. Len(input.frames)
           /\ FramesEnd[r7.frame - 1] \in Nat /\ FramesEnd[r7.frame] \in Nat
           /\ Zstd!FrameSize(Zstd!Frame) \in Nat /\ Zstd!FrameSize(Zstd!Frame) >= Zstd!HeaderSize
           /\ FramesEnd[r7.frame] = FramesEnd[r7.frame - 1] + Zstd!FrameSize(Zstd!Frame)
           /\ FramesEnd[r7.frame] <= FileInputs!TotalSize(input.frames)
<1> DEFINE n == r7.frame  fs == input.frames  l == Len(fs)
<1>1. n \in Nat /\ n > 0 /\ n <= l /\ fs \in Seq(FrameSet)
  BY DEF ZstdShape, IsArchive
<1>2. /\ l \in Nat /\ FramesEnd \in [0 .. l -> Nat]
      /\ \A k \in 1 .. l : FramesEnd[k] = FramesEnd[k - 1] + Zstd!FrameSize(fs[k])
      /\ \A k \in 0 .. l : FramesEnd[k] <= FramesEnd[l]
      /\ FramesEnd[l] = FileInputs!TotalSize(fs)
  <2> HIDE DEF fs
  <2>1. FramesEnd = FrameEnds(fs)
    BY DEF FramesEnd, fs
  <2> QED
    BY <1>1, <2>1, FrameEndsAre
<1>3. n \in 1 .. l /\ n \in 0 .. l /\ n - 1 \in 0 .. l
  BY <1>1, <1>2
<1>4. Zstd!Frame = fs[n]
  BY DEF Zstd!Frame
<1> HIDE DEF n, fs, l
<1>5. fs[n] \in FrameSet
  BY <1>1, <1>3, ElementOfSeq DEF l
<1>6. Zstd!FrameSize(fs[n]) \in Nat /\ Zstd!FrameSize(fs[n]) >= Zstd!HeaderSize
  BY <1>5, FrameSizeIs
<1>7. FramesEnd[n - 1] \in Nat /\ FramesEnd[n] \in Nat /\ FramesEnd[n] = FramesEnd[n - 1] + Zstd!FrameSize(fs[n])
      /\ FramesEnd[n] <= FileInputs!TotalSize(fs)
  BY <1>2, <1>3
<1> QED
  BY <1>3, <1>4, <1>5, <1>6, <1>7 DEF n, fs, l

LEMMA FramePiecesAre ==
    ASSUME Zstd!Frame \in FrameSet
    PROVE  /\ Zstd!FramePieces \in Seq(PieceSet) /\ Len(Zstd!FramePieces) \in Nat
           /\ Places \in [0 .. Len(Zstd!FramePieces) -> Nat]
           /\ Places[0] = Zstd!HeaderSize
           /\ \A n \in 1 .. Len(Zstd!FramePieces) :
                 Places[n] = Places[n - 1] + Zstd!FramePieces[n].size
           /\ \A n \in 0 .. Len(Zstd!FramePieces) : Places[n] <= Places[Len(Zstd!FramePieces)]
           /\ Places[Len(Zstd!FramePieces)] = Zstd!FrameSize(Zstd!Frame)
<1> DEFINE f == Zstd!Frame  p == Zstd!FramePieces  e == Places
<1>1. f \in FrameSet /\ p = Zstd!Pieces(f) /\ e = PieceEnds(f)
  BY DEF Zstd!FramePieces, Places
<1> HIDE DEF f, p, e
<1>2. /\ p \in Seq(PieceSet) /\ Len(p) \in Nat /\ e \in [0 .. Len(p) -> Nat]
      /\ e[0] = Zstd!HeaderSize
      /\ \A n \in 1 .. Len(p) : e[n] = e[n - 1] + p[n].size
      /\ \A n \in 0 .. Len(p) : e[n] <= e[Len(p)]
      /\ e[Len(p)] = Zstd!FrameSize(f)
  BY <1>1, PieceEndsAre
<1> QED
  BY <1>2 DEF f, p, e

\* The piece in hand.
LEMMA PieceIs ==
    ASSUME Zstd!Frame \in FrameSet, r7.piece \in Nat \ {0}, HasPiece
    PROVE  /\ Zstd!Piece \in PieceSet /\ Zstd!Piece.size \in Nat /\ Zstd!Piece.size > 0
           /\ r7.piece \in 1 .. Len(Zstd!FramePieces)
           /\ Places[r7.piece - 1] \in Nat /\ Places[r7.piece] \in Nat
           /\ Places[r7.piece] = Places[r7.piece - 1] + Zstd!Piece.size
           /\ Places[r7.piece] <= Zstd!FrameSize(Zstd!Frame)
<1> DEFINE n == r7.piece  p == Zstd!FramePieces  l == Len(p)  s == Zstd!FrameSize(Zstd!Frame)
<1>1. /\ p \in Seq(PieceSet) /\ l \in Nat /\ Places \in [0 .. l -> Nat]
      /\ \A k \in 1 .. l : Places[k] = Places[k - 1] + p[k].size
      /\ \A k \in 0 .. l : Places[k] <= Places[l]
      /\ Places[l] = s
  BY FramePiecesAre
<1>2. n \in Nat /\ n > 0 /\ n <= l
  BY DEF HasPiece
<1>3. Zstd!Piece = p[n]
  BY DEF Zstd!Piece
<1> HIDE DEF n, p, s
<1>4. n \in 1 .. l /\ n \in 0 .. l /\ n - 1 \in 0 .. l
  BY <1>1, <1>2
<1>5. p[n] \in PieceSet
  BY <1>1, <1>4, ElementOfSeq
<1>6. p[n].size \in Nat /\ p[n].size > 0
  BY <1>5, PieceSize
<1>7. Places[n - 1] \in Nat /\ Places[n] \in Nat /\ Places[n] = Places[n - 1] + p[n].size
      /\ Places[n] <= s
  BY <1>1, <1>4
<1> QED
  BY <1>3, <1>4, <1>5, <1>6, <1>7 DEF n, p, s

\* A complete file that has been read to its end has been decoded to its end.
LEMMA ReadToEnd ==
    ASSUME ZInv, pc = "fread", input.complete, r3 = input.size
    PROVE  r9 = 0
<1>1. IsArchive(input) /\ ZstdShape /\ BetweenFrames /\ AtHeader /\ AtPiece
  BY DEF ZInv
<1> DEFINE t == FileInputs!TotalSize(input.frames)  c == Consumed  n == r7.frame
           e == FramesEnd[n - 1]  z == Zstd!FrameSize(Zstd!Frame)  h == Zstd!HeaderSize
<1>2. c = t /\ t \in Nat /\ h = 2
  BY <1>1 DEF ZstdShape, IsArchive, Consumed, Zstd!HeaderSize
<1>3. n > 0 => /\ e \in Nat /\ z \in Nat /\ z >= h /\ FramesEnd[n] = e + z
               /\ FramesEnd[n] <= t /\ Zstd!Frame \in FrameSet
  BY <1>1, FrameIs
<1>4. CASE r6.stage = "init"
  <2>1. c = FramesEnd[n] /\ (n > 0 => r9 = 0) /\ n \in Nat
    BY <1>1, <1>4 DEF BetweenFrames, ZstdShape
  <2>2. n # 0
    <3> SUFFICES ASSUME n = 0 PROVE FALSE
      OBVIOUS
    <3> DEFINE fs == input.frames  l == Len(fs)
    <3>1. fs \in Seq(FrameSet) /\ fs # <<>>
      BY <1>1 DEF IsArchive
    <3>2. FramesEnd = FrameEnds(fs)
      BY DEF FramesEnd
    <3>3. t = FileInputs!TotalSize(fs)
      OBVIOUS
    <3> HIDE DEF fs, t
    <3>4. /\ l \in Nat /\ FramesEnd \in [0 .. l -> Nat] /\ FramesEnd[0] = 0
          /\ \A k \in 1 .. l : FramesEnd[k] = FramesEnd[k - 1] + Zstd!FrameSize(fs[k])
          /\ \A k \in 0 .. l : FramesEnd[k] <= FramesEnd[l]
          /\ FramesEnd[l] = t
      BY <3>1, <3>2, <3>3, FrameEndsAre
    <3>5. l # 0
      BY <3>1, EmptySeq
    <3>6. 1 \in 1 .. l /\ 1 \in 0 .. l /\ 1 - 1 = 0
      BY <3>4, <3>5
    <3>7. fs[1] \in FrameSet
      BY <3>1, <3>6, ElementOfSeq
    <3>8. Zstd!FrameSize(fs[1]) \in Nat /\ Zstd!FrameSize(fs[1]) >= h
      BY <3>7, FrameSizeIs
    <3>9. FramesEnd[1] = 0 + Zstd!FrameSize(fs[1]) /\ FramesEnd[1] <= t
      BY <3>4, <3>6
    <3>10. c = 0
      BY <2>1, <3>4
    <3> HIDE DEF c, h
    <3> QED
      BY <1>2, <3>8, <3>9, <3>10
  <2> QED
    BY <2>1, <2>2
<1>5. CASE r6.stage = "loadHeader"
  <2>1. n > 0 /\ c = e + r6.lhSize /\ r6.lhSize < h /\ r6.lhSize \in Nat
    BY <1>1, <1>5 DEF AtHeader, ZstdShape
  <2> HIDE DEF c, e, z, t, h, n
  <2> QED
    BY <1>2, <1>3, <2>1
<1>6. CASE r6.stage \in {"read", "load", "flush"}
  <2>1. /\ n > 0 /\ (HasPiece \/ r6.hostage) /\ r7.piece \in 1 .. Len(Zstd!FramePieces) + 1
        /\ c + Debt = e + Places[r7.piece - 1] + r7.left + r6.inPos
        /\ (HasPiece => r7.left + r6.inPos < Zstd!Piece.size)
        /\ (~ HasPiece => r7.left = 0)
        /\ (r6.stage = "load" => HasPiece) /\ (r6.stage # "load" => r6.inPos = 0)
        /\ (r6.hostage => ~ HasPiece)
        /\ r7.left \in Nat /\ r6.inPos \in Nat /\ r7.piece \in Nat
    BY <1>1, <1>6 DEF AtPiece, ZstdShape
  <2> DEFINE m == r7.piece  l == Len(Zstd!FramePieces)
  <2>2. l \in Nat /\ Places[l] = z
    BY <1>3, <2>1, FramePiecesAre
  <2>3. CASE HasPiece
    <3> DEFINE u == r7.left + r6.inPos  a == Places[m - 1]  s == Zstd!Piece.size
    <3>1. m \in Nat \ {0}
      BY <2>1
    <3>2. a \in Nat /\ s \in Nat /\ a + s <= z
      BY <1>3, <2>1, <2>3, <3>1, PieceIs
    <3>3. u \in Nat /\ u < s /\ c = e + a + u
      <4>1. Debt = 0
        BY <2>1, <2>3 DEF Debt
      <4> DEFINE x == r7.left  y == r6.inPos
      <4>2. x \in Nat /\ y \in Nat /\ x + y < s /\ c + 0 = e + a + x + y /\ c \in Nat /\ u = x + y
        BY <1>2, <2>1, <2>3, <4>1
      <4> HIDE DEF x, y, c, e, a, s, u, t
      <4> QED
        BY <1>3, <2>1, <3>2, <4>2
    <3> HIDE DEF c, e, z, t, a, u, s, n
    <3> QED
      BY <1>2, <1>3, <2>1, <3>2, <3>3
  <2>4. CASE ~ HasPiece
    <3>1. r6.hostage /\ m = l + 1 /\ r7.left = 0 /\ r6.inPos = 0
      <4>1. m > l
        BY <2>1, <2>2, <2>4 DEF HasPiece
      <4>2. m \in 1 .. l + 1
        BY <2>1
      <4> HIDE DEF l, m
      <4>3. m = l + 1
        BY <2>2, <4>1, <4>2
      <4> QED
        BY <2>1, <2>4, <4>3
    <3>2. m - 1 = l
      BY <2>2, <3>1
    <3>3. Places[m - 1] = z
      BY <2>2, <3>2
    <3>4. c + 1 = e + z + 0 + 0
      BY <2>1, <3>1, <3>3 DEF Debt
    <3> HIDE DEF c, e, z, t, n
    <3> QED
      BY <1>2, <1>3, <2>1, <3>4
  <2> QED
    BY <2>3, <2>4
<1> QED
  BY <1>1, <1>4, <1>5, <1>6 DEF ZstdShape

LEMMA ZstdFails ==
    ASSUME ZInv, UNCHANGED input, pc' = "end", input.complete => ioFailed'
    PROVE  ZInv'
BY DEF ZInv

LEMMA FreadKeeps == ASSUME ZInv, pc = "fread", Zstd!Fread PROVE ZInv'
<1> DEFINE n == Zstd!Smaller(r1, input.size - r3)
<1>1. IsArchive(input) /\ ZstdShape /\ BetweenFrames /\ AtHeader /\ AtPiece /\ result = "running"
  BY DEF ZInv
<1>2. r1 \in Nat /\ r1 > 0 /\ r3 \in Nat /\ input.size \in Nat /\ r3 <= input.size
  BY <1>1 DEF ZstdShape, IsArchive
<1>3. n \in Nat /\ n <= input.size - r3 /\ (n = 0 => r3 = input.size)
  BY <1>2 DEF Zstd!Smaller
<1>4. /\ input' = input
      /\ \/ n = 0 /\ r9 # 0 /\ pc' = "end" /\ result' = "failed"
         \/ n = 0 /\ r9 = 0 /\ pc' = "end" /\ result' = "ok"
         \/ /\ n # 0 /\ r3' = r3 + n /\ r4' = [size |-> n, pos |-> 0, start |-> 0] /\ pc' = "call"
            /\ UNCHANGED <<r1, r6, r7, r9, result>>
  BY DEF Zstd!Fread, Zstd!Fails
<1> HIDE DEF n
<1>5. CASE n = 0 /\ r9 # 0 /\ pc' = "end" /\ result' = "failed"
  <2>1. r3 = input.size
    BY <1>3, <1>5
  <2>2. ~ input.complete
    BY <1>5, <2>1, ReadToEnd
  <2> QED
    BY <1>4, <1>5, <2>2, ZstdFails
<1>6. CASE n = 0 /\ r9 = 0 /\ pc' = "end" /\ result' = "ok"
  BY <1>4, <1>6 DEF ZInv
<1>7. CASE /\ n # 0 /\ r3' = r3 + n /\ r4' = [size |-> n, pos |-> 0, start |-> 0] /\ pc' = "call"
           /\ UNCHANGED <<r1, r6, r7, r9, result>>
  <2>1. r4'.size = n /\ r4'.pos = 0 /\ r4'.start = 0
    BY <1>7
  <2>2. r4 \in [size : Nat, pos : Int, start : Int] /\ r4.pos = r4.size
    BY <1>1 DEF ZstdShape
  <2>3. Consumed' = Consumed
    <3> DEFINE a == r4.pos  b == r4.size  x == r3'
    <3>1. a \in Int /\ a = b /\ x = r3 + n
      BY <1>7, <2>2
    <3>2. Consumed' = x - n + 0 /\ Consumed = r3 - b + a
      BY <2>1 DEF Consumed
    <3> HIDE DEF a, b, x
    <3> QED
      BY <1>2, <1>3, <3>1, <3>2
  <2>4. ZstdShape'
    <3>1. r3' \in Nat /\ r3' <= input'.size
      <4> DEFINE s == input.size
      <4>1. s \in Nat /\ n <= s - r3
        BY <1>2, <1>3
      <4> HIDE DEF s
      <4>2. r3 + n \in Nat /\ r3 + n <= s
        BY <1>2, <1>3, <4>1
      <4> QED
        BY <1>4, <1>7, <4>2 DEF s
    <3>2. r4' \in [size : Nat, pos : Int, start : Int] /\ r4'.pos <= r4'.size
      BY <1>3, <1>7
    <3> QED
      BY <1>1, <1>4, <1>7, <3>1, <3>2 DEF ZstdShape
  <2>5. FramesEnd' = FramesEnd /\ Zstd!FramePieces' = Zstd!FramePieces /\ Places' = Places
    BY <1>4, <1>7, SameFrame
  <2>6. HasPiece' = HasPiece /\ Flushed' = Flushed /\ Debt' = Debt /\ Zstd!Piece' = Zstd!Piece
    BY <1>7, <2>5 DEF HasPiece, Flushed, Debt, Zstd!Piece
  <2>7. BetweenFrames'
    BY <1>1, <1>7, <2>3, <2>5, <2>6 DEF BetweenFrames
  <2>8. AtHeader'
    BY <1>1, <1>7, <2>3, <2>5, <2>6 DEF AtHeader
  <2>9. AtPiece'
    <3>1. 0 < n
      BY <1>3, <1>7
    <3> QED
      BY <1>1, <1>7, <2>1, <2>3, <2>5, <2>6, <3>1 DEF AtPiece
  <2> QED
    BY <1>1, <1>4, <1>7, <2>4, <2>7, <2>8, <2>9 DEF ZInv
<1> QED
  BY <1>4, <1>5, <1>6, <1>7

LEMMA CallKeeps == ASSUME ZInv, Zstd!Call PROVE ZInv'
<1>1. IsArchive(input) /\ ZstdShape /\ BetweenFrames /\ AtHeader /\ AtPiece /\ result = "running"
      /\ pc = "call"
  BY DEF ZInv, Zstd!Call
<1>2. /\ UNCHANGED <<input, r1, r3, r6, r7, r9, result>>
      /\ \/ r4.pos < r4.size /\ pc' = "work" /\ r4' = [r4 EXCEPT !.start = r4.pos]
         \/ ~ (r4.pos < r4.size) /\ pc' = "fread" /\ r4' = r4
  BY DEF Zstd!Call, Zstd!MoreInput
<1>3. r4 \in [size : Nat, pos : Int, start : Int] /\ r4.pos <= r4.size
  BY <1>1 DEF ZstdShape
<1>4. r4'.pos = r4.pos /\ r4'.size = r4.size /\ r4' \in [size : Nat, pos : Int, start : Int]
      /\ (pc' = "work" => r4.pos < r4.size /\ r4'.start = r4.pos)
      /\ (pc' = "fread" => r4.pos = r4.size)
      /\ pc' \in {"work", "fread"}
  BY <1>2, <1>3
<1>5. ZstdShape'
  BY <1>1, <1>2, <1>3, <1>4 DEF ZstdShape
<1>6. Consumed' = Consumed
  BY <1>2, <1>4 DEF Consumed
<1>7. FramesEnd' = FramesEnd /\ Zstd!FramePieces' = Zstd!FramePieces /\ Places' = Places
  BY <1>2, SameFrame
<1>8. HasPiece' = HasPiece /\ Flushed' = Flushed /\ Debt' = Debt /\ Zstd!Piece' = Zstd!Piece
  BY <1>2, <1>7 DEF HasPiece, Flushed, Debt, Zstd!Piece
<1>9. BetweenFrames'
  BY <1>1, <1>2, <1>4, <1>6, <1>7, <1>8 DEF BetweenFrames
<1>10. AtHeader'
  BY <1>1, <1>2, <1>4, <1>6, <1>7, <1>8 DEF AtHeader
<1>11. AtPiece'
  BY <1>1, <1>2, <1>4, <1>6, <1>7, <1>8 DEF AtPiece
<1> QED
  BY <1>1, <1>2, <1>4, <1>5, <1>9, <1>10, <1>11 DEF ZInv

LEMMA StageInitKeeps == ASSUME ZInv, Zstd!StageInit PROVE ZInv'
<1> DEFINE n == r7.frame  t == FileInputs!TotalSize(input.frames)  fs == input.frames  l == Len(fs)
<1>1. IsArchive(input) /\ ZstdShape /\ BetweenFrames /\ result = "running" /\ pc = "work"
      /\ r6.stage = "init"
  BY DEF ZInv, Zstd!StageInit, Zstd!Working
<1>2. /\ UNCHANGED <<input, pc, r1, r3, r4, r9, result>>
      /\ r6' = [Zstd!FreshStream EXCEPT !.stage = "loadHeader"]
      /\ r7' = Zstd!FreshFrame(n + 1)
  BY DEF Zstd!StageInit
<1>3. /\ r6'.stage = "loadHeader" /\ r6'.lhSize = 0 /\ r6'.inPos = 0 /\ ~ r6'.hostage
      /\ r6'.outStart = 0 /\ r6'.outEnd = 0
      /\ r6' = [stage |-> "loadHeader", lhSize |-> 0, inPos |-> 0, outStart |-> 0,
                outEnd |-> 0, hostage |-> FALSE]
  BY <1>2 DEF Zstd!FreshStream
<1>4. /\ r7'.frame = n + 1 /\ r7'.piece = 1 /\ r7'.left = 0
      /\ r7' = [frame |-> n + 1, piece |-> 1, left |-> 0, at |-> 0,
                prefixStart |-> 0, prefixAt |-> 0, prefixEnd |-> 0, dictEnd |-> 0]
  BY <1>2 DEF Zstd!FreshFrame
<1>5. /\ Consumed = FramesEnd[n] /\ r4.pos < r4.size /\ r4.start = r4.pos
      /\ n \in Nat /\ n <= l
  BY <1>1 DEF BetweenFrames, ZstdShape
<1>6. n + 1 <= l
  <2>1. /\ fs \in Seq(FrameSet) /\ input.size <= t /\ input.size \in Nat /\ r3 <= input.size
        /\ r3 \in Nat /\ r4.pos \in Int /\ r4.size \in Nat
    BY <1>1 DEF IsArchive, ZstdShape
  <2>2. FramesEnd = FrameEnds(fs)
    BY DEF FramesEnd
  <2>3. t = FileInputs!TotalSize(fs)
    OBVIOUS
  <2> HIDE DEF fs, t
  <2>4. l \in Nat /\ FramesEnd \in [0 .. l -> Nat] /\ FramesEnd[l] = t
    BY <2>1, <2>2, <2>3, FrameEndsAre
  <2>5. Consumed < t
    <3> DEFINE a == r4.pos  b == r4.size  c == Consumed  s == input.size
    <3>1. c = r3 - b + a /\ a \in Int /\ b \in Nat /\ a < b /\ s <= t /\ s \in Nat /\ r3 <= s
      BY <1>5, <2>1 DEF Consumed
    <3>2. t \in Nat
      BY <2>4
    <3>3. r3 \in Nat
      BY <2>1
    <3> HIDE DEF a, b, c, s
    <3>4. c < t
      BY <3>1, <3>2, <3>3
    <3> QED
      BY <3>4 DEF c
  <2>6. n # l
    <3> DEFINE c == Consumed
    <3>1. c < t /\ t \in Nat /\ c = FramesEnd[n]
      BY <1>5, <2>4, <2>5
    <3> HIDE DEF c
    <3> QED
      BY <2>4, <3>1
  <2> HIDE DEF l, n
  <2> QED
    BY <1>5, <2>4, <2>6
<1>7. n + 1 \in Nat /\ n + 1 > 0 /\ n + 1 - 1 = n
  BY <1>5
<1>8. ZstdShape'
  <2>1. r6' \in [stage : {"init", "loadHeader", "read", "load", "flush"}, lhSize : Nat, inPos : Nat,
                 outStart : {r6'.outStart}, outEnd : {r6'.outEnd}, hostage : BOOLEAN]
    BY <1>3
  <2>2. r7' \in [frame : Nat, piece : Nat, left : Nat, at : {r7'.at},
                 prefixStart : {r7'.prefixStart}, prefixAt : {r7'.prefixAt},
                 prefixEnd : {r7'.prefixEnd}, dictEnd : {r7'.dictEnd}]
    BY <1>4, <1>7
  <2> QED
    BY <1>1, <1>2, <1>4, <1>6, <2>1, <2>2 DEF ZstdShape
<1>9. AtHeader'
  <2>1. FramesEnd' = FramesEnd
    BY <1>2 DEF FramesEnd
  <2>2. Consumed' = Consumed
    BY <1>2 DEF Consumed
  <2>3. FramesEnd[n] \in Nat
    <3>1. n \in 0 .. l
      <4>1. l \in Nat
        BY <1>1, LenProperties DEF IsArchive
      <4> HIDE DEF l
      <4> QED
        BY <1>5, <4>1
    <3>2. FramesEnd \in [0 .. l -> Nat]
      <4>1. fs \in Seq(FrameSet) /\ FramesEnd = FrameEnds(fs)
        BY <1>1 DEF IsArchive, FramesEnd
      <4> HIDE DEF fs
      <4> QED
        BY <4>1, FrameEndsAre
    <3> QED
      BY <3>1, <3>2
  <2>4. Consumed' = FramesEnd'[r7'.frame - 1] + r6'.lhSize
    <3>1. r7'.frame - 1 = n
      <4> DEFINE k == r7'.frame
      <4>1. k = n + 1 /\ n \in Nat
        BY <1>4, <1>5
      <4> HIDE DEF n, k
      <4>2. k - 1 = n
        BY <4>1
      <4> QED
        BY <4>2 DEF k
    <3> QED
      BY <1>3, <1>5, <2>1, <2>2, <2>3, <3>1
  <2>5. r6'.lhSize < Zstd!HeaderSize /\ Flushed' /\ r7'.frame > 0
    BY <1>3, <1>4, <1>7 DEF Zstd!HeaderSize, Flushed
  <2> QED
    BY <1>1, <1>2, <1>3, <1>4, <1>5, <2>4, <2>5 DEF AtHeader
<1>10. BetweenFrames' /\ AtPiece'
  BY <1>3 DEF BetweenFrames, AtPiece
<1> QED
  BY <1>1, <1>2, <1>8, <1>9, <1>10 DEF ZInv

LEMMA LoadPartOfHeaderKeeps == ASSUME ZInv, Zstd!LoadPartOfHeader PROVE ZInv'
<1> DEFINE more == r4.size - r4.pos
<1>1. IsArchive(input) /\ ZstdShape /\ AtHeader /\ result = "running" /\ pc = "work"
      /\ r6.stage = "loadHeader"
  BY DEF ZInv, Zstd!LoadPartOfHeader, Zstd!Working
<1>2. /\ UNCHANGED <<input, r1, r3, r7, result>> /\ pc' = "written"
      /\ Zstd!HeaderSize - r6.lhSize > more
      /\ r6' = [r6 EXCEPT !.lhSize = r6.lhSize + more]
      /\ r4' = [r4 EXCEPT !.pos = r4.size]
  BY DEF Zstd!LoadPartOfHeader, Zstd!Rest
<1>3. /\ r4 \in [size : Nat, pos : Int, start : Int] /\ r4.pos <= r4.size
      /\ r6 \in [stage : {"init", "loadHeader", "read", "load", "flush"}, lhSize : Nat, inPos : Nat,
                 outStart : {r6.outStart}, outEnd : {r6.outEnd}, hostage : BOOLEAN]
  BY <1>1 DEF ZstdShape
<1>4. /\ r6'.stage = "loadHeader" /\ r6'.lhSize = r6.lhSize + more /\ r6'.inPos = r6.inPos
      /\ r6'.hostage = r6.hostage /\ r6'.outStart = r6.outStart /\ r6'.outEnd = r6.outEnd
      /\ r4'.size = r4.size /\ r4'.pos = r4.size
  BY <1>1, <1>2, <1>3
<1> DEFINE h == r6.lhSize  a == r4.pos  b == r4.size  d == h + more  z == Zstd!HeaderSize
<1>5. /\ h \in Nat /\ a \in Int /\ b \in Nat /\ a <= b /\ more = b - a /\ d = h + more
      /\ z - h > more /\ z = 2 /\ r3 \in Nat
  BY <1>1, <1>2, <1>3 DEF ZstdShape, Zstd!HeaderSize
<1> HIDE DEF h, a, b, more, d, z
<1>6. d \in Nat /\ d < z /\ more \in Nat
  BY <1>5
<1>7. ZstdShape'
  <2>1. r6' \in [stage : {"init", "loadHeader", "read", "load", "flush"}, lhSize : Nat, inPos : Nat,
                 outStart : {r6'.outStart}, outEnd : {r6'.outEnd}, hostage : BOOLEAN]
    <3>1. r6' = [r6 EXCEPT !.lhSize = d]
      BY <1>2 DEF d, h
    <3> QED
      BY <1>3, <1>6, <3>1
  <2>2. r4' \in [size : Nat, pos : Int, start : Int] /\ r4'.pos <= r4'.size
    <3>1. r4' = [r4 EXCEPT !.pos = b] /\ b \in Int /\ b <= b
      BY <1>2, <1>5 DEF b
    <3>2. r4'.pos = b /\ r4'.size = b
      BY <1>4 DEF b
    <3>3. r4' \in [size : Nat, pos : Int, start : Int]
      BY <1>3, <3>1
    <3> QED
      BY <3>1, <3>2, <3>3
  <2> QED
    BY <1>1, <1>2, <2>1, <2>2 DEF ZstdShape
<1>8. AtHeader'
  <2>1. FramesEnd' = FramesEnd
    BY <1>2, SameFrame
  <2>2. /\ r7.frame > 0 /\ r7.piece = 1 /\ r7.left = 0 /\ r6.inPos = 0 /\ ~ r6.hostage /\ Flushed
        /\ Consumed = FramesEnd[r7.frame - 1] + h
    BY <1>1 DEF AtHeader, h
  <2> DEFINE e == FramesEnd[r7.frame - 1]
  <2>3. e \in Nat
    BY <1>1, <2>2, FrameIs
  <2>4. Consumed' = e + d
    <3>1. Consumed' = r3 - b + b /\ Consumed = r3 - b + a
      BY <1>2, <1>4 DEF Consumed, a, b
    <3> DEFINE x == Consumed'  y == Consumed
    <3>2. x = r3 - b + b /\ y = r3 - b + a /\ y = e + h
      BY <2>2, <3>1
    <3> HIDE DEF x, y, e
    <3>3. x = e + d
      BY <1>5, <2>3, <3>2
    <3> QED
      BY <3>3 DEF x
  <2>5. Consumed' = FramesEnd'[r7'.frame - 1] + r6'.lhSize
    BY <1>2, <1>4, <2>1, <2>4 DEF d, h, e
  <2>6. r6'.lhSize < Zstd!HeaderSize
    BY <1>4, <1>6 DEF d, h, z
  <2>7. Flushed'
    BY <1>4, <2>2 DEF Flushed
  <2> QED
    BY <1>2, <1>4, <2>2, <2>5, <2>6, <2>7 DEF AtHeader
<1>9. BetweenFrames' /\ AtPiece'
  BY <1>4 DEF BetweenFrames, AtPiece
<1> QED
  BY <1>1, <1>2, <1>7, <1>8, <1>9 DEF ZInv

LEMMA FwriteKeeps == ASSUME ZInv, Zstd!Fwrite PROVE ZInv'
<1>1. IsArchive(input) /\ ZstdShape /\ BetweenFrames /\ AtHeader /\ AtPiece /\ result = "running"
  BY DEF ZInv, Zstd!Fwrite
<1>2. pc = "written" /\ pc' = "call" /\ UNCHANGED <<input, r1, r3, r4, r6, r7, r9, result>>
  BY DEF Zstd!Fwrite
<1>3. FramesEnd' = FramesEnd /\ Zstd!FramePieces' = Zstd!FramePieces /\ Places' = Places
  BY <1>2, SameFrame
<1>4. HasPiece' = HasPiece /\ Flushed' = Flushed /\ Debt' = Debt /\ Zstd!Piece' = Zstd!Piece
      /\ Consumed' = Consumed
  BY <1>2, <1>3 DEF HasPiece, Flushed, Debt, Zstd!Piece, Consumed
<1>5. ZstdShape'
  BY <1>1, <1>2 DEF ZstdShape
<1>6. BetweenFrames'
  BY <1>1, <1>2, <1>3, <1>4 DEF BetweenFrames
<1>7. AtHeader'
  BY <1>1, <1>2, <1>3, <1>4 DEF AtHeader
<1>8. AtPiece'
  BY <1>1, <1>2, <1>3, <1>4 DEF AtPiece
<1> QED
  BY <1>1, <1>2, <1>5, <1>6, <1>7, <1>8 DEF ZInv

LEMMA IoFailsKeeps == ASSUME ZInv, Zstd!IoFails PROVE ZInv'
BY ZstdFails DEF Zstd!IoFails, Zstd!Fails

LEMMA UnchangedKeeps ==
    ASSUME ZInv, UNCHANGED <<input, pc, result, ioFailed, r1, r3, r4, r6, r7, r9>>
    PROVE  ZInv'
<1>1. FramesEnd' = FramesEnd /\ Zstd!FramePieces' = Zstd!FramePieces /\ Places' = Places
  BY SameFrame
<1>2. HasPiece' = HasPiece /\ Flushed' = Flushed /\ Debt' = Debt /\ Zstd!Piece' = Zstd!Piece
      /\ Consumed' = Consumed
  BY <1>1 DEF HasPiece, Flushed, Debt, Zstd!Piece, Consumed
<1>3. ZstdShape' = ZstdShape
  BY DEF ZstdShape
<1>4. BetweenFrames' = BetweenFrames
  BY <1>1, <1>2 DEF BetweenFrames
<1>5. AtHeader' = AtHeader
  BY <1>1, <1>2 DEF AtHeader
<1>6. AtPiece' = AtPiece
  BY <1>1, <1>2 DEF AtPiece
<1> QED
  BY <1>3, <1>4, <1>5, <1>6 DEF ZInv

\* What a step with the frame's header decoded knows.
LEMMA InPieces ==
    ASSUME ZInv, pc # "end", r6.stage \in {"read", "load", "flush"}
    PROVE  /\ Zstd!Frame \in FrameSet
           /\ Len(Zstd!FramePieces) \in Nat /\ r7.piece \in Nat /\ r7.piece > 0
           /\ r7.piece <= Len(Zstd!FramePieces) + 1
           /\ r7.left \in Nat /\ r6.inPos \in Nat /\ Debt \in Nat
           /\ FramesEnd[r7.frame - 1] \in Nat /\ Places[r7.piece - 1] \in Nat
           /\ HasPiece => Zstd!Piece.size \in Nat /\ ~ r6.hostage /\ Debt = 0
           /\ ~ HasPiece => FramesEnd[r7.frame - 1] + Places[r7.piece - 1] = FramesEnd[r7.frame]
           /\ r3 \in Nat /\ r4.size \in Nat /\ r4.pos \in Int /\ r4.pos <= r4.size
           /\ Consumed \in Int
<1> DEFINE m == r7.piece  l == Len(Zstd!FramePieces)
<1>1. IsArchive(input) /\ ZstdShape /\ AtPiece
  BY DEF ZInv
<1>2. /\ r7.frame > 0 /\ m \in 1 .. l + 1 /\ m \in Nat /\ r7.left \in Nat /\ r6.inPos \in Nat
      /\ (r6.hostage => ~ HasPiece) /\ r3 \in Nat /\ r4.size \in Nat /\ r4.pos \in Int
      /\ r4.pos <= r4.size
  BY <1>1 DEF AtPiece, ZstdShape
<1>3. /\ Zstd!Frame \in FrameSet /\ FramesEnd[r7.frame - 1] \in Nat
      /\ FramesEnd[r7.frame] = FramesEnd[r7.frame - 1] + Zstd!FrameSize(Zstd!Frame)
  BY <1>1, <1>2, FrameIs
<1>4. l \in Nat /\ Places \in [0 .. l -> Nat] /\ Places[l] = Zstd!FrameSize(Zstd!Frame)
  BY <1>3, FramePiecesAre
<1>5. m > 0 /\ m <= l + 1 /\ m - 1 \in 0 .. l /\ (~ (m <= l) => m - 1 = l)
  <2>1. m \in 1 .. l + 1 /\ m \in Nat /\ l \in Nat
    BY <1>2, <1>4
  <2> HIDE DEF m, l
  <2> QED
    BY <2>1
<1>6. Places[m - 1] \in Nat
  BY <1>4, <1>5
<1>7. ~ HasPiece => FramesEnd[r7.frame - 1] + Places[m - 1] = FramesEnd[r7.frame]
  BY <1>3, <1>4, <1>5 DEF HasPiece
<1>8. Debt \in Nat /\ (~ r6.hostage => Debt = 0)
  BY DEF Debt
<1>9. HasPiece => Zstd!Piece.size \in Nat
  <2>1. m \in Nat \ {0}
    BY <1>2, <1>5
  <2> QED
    BY <1>3, <2>1, PieceIs
<1>10. Consumed \in Int
  BY <1>2 DEF Consumed
<1> QED
  BY <1>2, <1>3, <1>4, <1>5, <1>6, <1>7, <1>8, <1>9, <1>10

LEMMA NeededIsPositive ==
    ASSUME ZInv, pc # "end", r6.stage \in {"read", "load", "flush"}, NEW rest \in Nat
    PROVE  /\ Zstd!Expected \in Nat /\ Zstd!NeededWith(rest) \in Nat
           /\ Zstd!FrameEnded = ~ HasPiece
           /\ ~ HasPiece => Zstd!NeededWith(rest) = 0
           /\ HasPiece => /\ Zstd!Expected = Zstd!Piece.size - r7.left
                          /\ r7.left + r6.inPos < Zstd!Piece.size
                          /\ Zstd!Expected > 0 /\ Zstd!NeededWith(rest) > 0
                          /\ Zstd!NeededWith(rest) <= Zstd!Expected
                          /\ Zstd!Piece.kind # "raw" => r7.left = 0
                                                        /\ Zstd!NeededWith(rest) = Zstd!Expected
<1> DEFINE s == Zstd!Piece.size  f == r7.left  y == r6.inPos  q == Zstd!Expected
           n == Zstd!NeededWith(rest)
<1>1. /\ r7.piece \in Nat /\ Len(Zstd!FramePieces) \in Nat /\ f \in Nat /\ y \in Nat
      /\ (HasPiece => s \in Nat)
  BY InPieces
<1>2. HasPiece => f + y < s /\ (f > 0 => Zstd!Piece.kind = "raw")
  BY DEF ZInv, AtPiece
<1>3. Zstd!FrameEnded = ~ HasPiece
  BY <1>1 DEF Zstd!FrameEnded, HasPiece
<1>4. q = IF ~ HasPiece THEN 0 ELSE s - f
  BY <1>3 DEF Zstd!Expected
<1>5. n = IF ~ HasPiece \/ Zstd!Piece.kind # "raw" THEN q
          ELSE IF rest < 1 THEN 1 ELSE IF rest < q THEN rest ELSE q
  BY <1>3 DEF Zstd!NeededWith, Zstd!Smaller
<1> HIDE DEF s, f, y, q, n
<1>6. CASE ~ HasPiece
  <2>1. q = 0 /\ n = 0
    BY <1>4, <1>5, <1>6
  <2> QED
    BY <1>3, <1>6, <2>1 DEF q, n
<1>7. CASE HasPiece
  <2>1. q = s - f /\ q \in Nat /\ q > 0 /\ f + y < s
    BY <1>1, <1>2, <1>4, <1>7
  <2>2. Zstd!Piece.kind # "raw" => f = 0 /\ n = q
    BY <1>1, <1>2, <1>5, <1>7
  <2>3. n \in Nat /\ n > 0 /\ n <= q
    BY <1>5, <1>7, <2>1
  <2> QED
    BY <1>3, <1>7, <2>1, <2>2, <2>3 DEF s, f, y, q, n
<1> QED
  BY <1>6, <1>7 DEF q, n

LEMMA ReadEndOfFrameKeeps == ASSUME ZInv, Zstd!ReadEndOfFrame PROVE ZInv'
<1>1. IsArchive(input) /\ ZstdShape /\ AtPiece /\ result = "running" /\ pc = "work"
      /\ r6.stage = "read"
  BY DEF ZInv, Zstd!ReadEndOfFrame, Zstd!Working
<1>2. /\ UNCHANGED <<input, r1, r3, r4, r7, r9, result>> /\ pc' = "return"
      /\ Zstd!NeededWith(Zstd!Rest) = 0
      /\ r6' = [r6 EXCEPT !.stage = "init"]
  BY DEF Zstd!ReadEndOfFrame
<1>3. Zstd!Rest \in Nat
  <2> DEFINE a == r4.pos  b == r4.size
  <2>1. a \in Int /\ b \in Nat /\ a <= b
    BY <1>1 DEF ZstdShape
  <2> HIDE DEF a, b
  <2>2. b - a \in Nat
    BY <2>1
  <2> QED
    BY <2>2 DEF a, b, Zstd!Rest
<1>4. ~ HasPiece
  BY <1>1, <1>2, <1>3, NeededIsPositive
<1>5. r6 \in [stage : {"init", "loadHeader", "read", "load", "flush"}, lhSize : Nat, inPos : Nat,
              outStart : {r6.outStart}, outEnd : {r6.outEnd}, hostage : BOOLEAN]
  BY <1>1 DEF ZstdShape
<1>6. /\ r6'.stage = "init" /\ r6'.hostage = r6.hostage /\ r6'.outStart = r6.outStart
      /\ r6'.outEnd = r6.outEnd
      /\ r6' \in [stage : {"init", "loadHeader", "read", "load", "flush"}, lhSize : Nat, inPos : Nat,
                  outStart : {r6'.outStart}, outEnd : {r6'.outEnd}, hostage : BOOLEAN]
  BY <1>2, <1>5
<1>7. FramesEnd' = FramesEnd /\ Zstd!FramePieces' = Zstd!FramePieces
  BY <1>2, SameFrame
<1>8. /\ HasPiece' = HasPiece /\ Flushed' = Flushed /\ Debt' = Debt /\ Consumed' = Consumed
  BY <1>2, <1>6, <1>7 DEF HasPiece, Flushed, Debt, Consumed
<1>9. /\ r7.frame > 0 /\ Flushed /\ r7.left = 0 /\ r6.inPos = 0
      /\ (r6.hostage => r4.pos < r4.size)
      /\ Consumed + Debt = FramesEnd[r7.frame - 1] + Places[r7.piece - 1] + r7.left + r6.inPos
  BY <1>1, <1>4 DEF AtPiece
<1>10. Consumed + Debt = FramesEnd[r7.frame]
  <2> DEFINE e == FramesEnd[r7.frame - 1]  p == Places[r7.piece - 1]
  <2>1. e \in Nat /\ p \in Nat /\ e + p = FramesEnd[r7.frame]
    BY <1>1, <1>4, InPieces
  <2>2. Consumed + Debt = e + p + 0 + 0
    BY <1>9
  <2> HIDE DEF e, p
  <2>3. e + p + 0 + 0 = e + p
    BY <2>1
  <2> QED
    BY <2>1, <2>2, <2>3
<1>11. ZstdShape'
  BY <1>1, <1>2, <1>6 DEF ZstdShape
<1>12. BetweenFrames'
  BY <1>2, <1>4, <1>6, <1>7, <1>8, <1>9, <1>10 DEF BetweenFrames
<1>13. AtHeader' /\ AtPiece'
  BY <1>6 DEF AtHeader, AtPiece
<1> QED
  BY <1>1, <1>2, <1>11, <1>12, <1>13 DEF ZInv

LEMMA ReadTooLittleKeeps == ASSUME ZInv, Zstd!ReadTooLittle PROVE ZInv'
<1>1. IsArchive(input) /\ ZstdShape /\ AtPiece /\ result = "running" /\ pc = "work"
      /\ r6.stage = "read"
  BY DEF ZInv, Zstd!ReadTooLittle, Zstd!Working
<1>2. /\ UNCHANGED <<input, r1, r3, r4, r7, r9, result>>
      /\ Zstd!Rest < Zstd!NeededWith(Zstd!Rest)
      /\ \/ pc' = "return" /\ r6' = r6
         \/ pc' = pc /\ r6' = [r6 EXCEPT !.stage = "load"]
  BY DEF Zstd!ReadTooLittle
<1>3. Zstd!Rest \in Nat
  <2> DEFINE a == r4.pos  b == r4.size
  <2>1. a \in Int /\ b \in Nat /\ a <= b
    BY <1>1 DEF ZstdShape
  <2> HIDE DEF a, b
  <2>2. b - a \in Nat
    BY <2>1
  <2> QED
    BY <2>2 DEF a, b, Zstd!Rest
<1>4. HasPiece
  <2> DEFINE n == Zstd!NeededWith(Zstd!Rest)  w == Zstd!Rest
  <2>1. n \in Nat /\ (~ HasPiece => n = 0) /\ w < n /\ w \in Nat
    BY <1>1, <1>2, <1>3, NeededIsPositive
  <2> HIDE DEF n, w
  <2> QED
    BY <2>1
<1>5. r6 \in [stage : {"init", "loadHeader", "read", "load", "flush"}, lhSize : Nat, inPos : Nat,
              outStart : {r6.outStart}, outEnd : {r6.outEnd}, hostage : BOOLEAN]
  BY <1>1 DEF ZstdShape
<1>6. /\ r6'.hostage = r6.hostage /\ r6'.outStart = r6.outStart
      /\ r6'.outEnd = r6.outEnd /\ r6'.inPos = r6.inPos
      /\ r6' \in [stage : {"init", "loadHeader", "read", "load", "flush"}, lhSize : Nat, inPos : Nat,
                  outStart : {r6'.outStart}, outEnd : {r6'.outEnd}, hostage : BOOLEAN]
      /\ r6'.stage \in {"read", "load"} /\ pc' \in {"return", "work"}
  BY <1>1, <1>2, <1>5
<1>7. FramesEnd' = FramesEnd /\ Zstd!FramePieces' = Zstd!FramePieces /\ Places' = Places
  BY <1>2, SameFrame
<1>8. HasPiece' = HasPiece /\ Flushed' = Flushed /\ Debt' = Debt /\ Zstd!Piece' = Zstd!Piece
      /\ Consumed' = Consumed
  BY <1>2, <1>6, <1>7 DEF HasPiece, Flushed, Debt, Zstd!Piece, Consumed
<1>9. ZstdShape'
  BY <1>1, <1>2, <1>6 DEF ZstdShape
<1>10. AtPiece'
  BY <1>1, <1>2, <1>4, <1>6, <1>7, <1>8 DEF AtPiece
<1>11. BetweenFrames' /\ AtHeader'
  BY <1>6 DEF BetweenFrames, AtHeader
<1> QED
  BY <1>1, <1>2, <1>6, <1>9, <1>10, <1>11 DEF ZInv

LEMMA FlushKeeps == ASSUME ZInv, Zstd!Flush PROVE ZInv'
<1>1. IsArchive(input) /\ ZstdShape /\ AtPiece /\ result = "running" /\ pc = "work"
      /\ r6.stage = "flush"
  BY DEF ZInv, Zstd!Flush, Zstd!Working
<1> DEFINE n == Zstd!Smaller(r6.outEnd - r6.outStart, Zstd!Room)  u == r6.outStart + n
           e == r6.outEnd
<1>2. /\ UNCHANGED <<input, r1, r3, r4, r7, r9, result>>
      /\ \E again \in BOOLEAN :
            /\ again => u = e
            /\ r6' = [r6 EXCEPT !.outStart = IF again THEN 0 ELSE u,
                                !.outEnd = IF again THEN 0 ELSE e,
                                !.stage = IF u = e THEN "read" ELSE "flush"]
      /\ pc' = IF u = e THEN "work" ELSE "return"
  BY <1>1 DEF Zstd!Flush
<1> HIDE DEF n, u, e
<1>3. r6 \in [stage : {"init", "loadHeader", "read", "load", "flush"}, lhSize : Nat, inPos : Nat,
              outStart : {r6.outStart}, outEnd : {r6.outEnd}, hostage : BOOLEAN]
  BY <1>1 DEF ZstdShape
<1>4. /\ r6'.hostage = r6.hostage /\ r6'.inPos = r6.inPos
      /\ r6' \in [stage : {"init", "loadHeader", "read", "load", "flush"}, lhSize : Nat, inPos : Nat,
                  outStart : {r6'.outStart}, outEnd : {r6'.outEnd}, hostage : BOOLEAN]
      /\ \/ r6'.stage = "read" /\ pc' = "work" /\ r6'.outStart = r6'.outEnd
         \/ r6'.stage = "flush" /\ pc' = "return" /\ r6'.outStart # r6'.outEnd
  <2>1. PICK again \in BOOLEAN :
            /\ again => u = e
            /\ r6' = [r6 EXCEPT !.outStart = IF again THEN 0 ELSE u,
                                !.outEnd = IF again THEN 0 ELSE e,
                                !.stage = IF u = e THEN "read" ELSE "flush"]
    BY <1>2
  <2> QED
    BY <1>2, <1>3, <2>1
<1>5. FramesEnd' = FramesEnd /\ Zstd!FramePieces' = Zstd!FramePieces /\ Places' = Places
  BY <1>2, SameFrame
<1>6. HasPiece' = HasPiece /\ Debt' = Debt /\ Zstd!Piece' = Zstd!Piece /\ Consumed' = Consumed
  BY <1>2, <1>4, <1>5 DEF HasPiece, Debt, Zstd!Piece, Consumed
<1>7. (r6'.stage = "read" => Flushed') /\ (r6'.stage = "flush" => ~ Flushed')
  BY <1>4 DEF Flushed
<1>8. ZstdShape'
  BY <1>1, <1>2, <1>4 DEF ZstdShape
<1>9. AtPiece'
  BY <1>1, <1>2, <1>4, <1>5, <1>6, <1>7 DEF AtPiece
<1>10. BetweenFrames' /\ AtHeader'
  BY <1>4 DEF BetweenFrames, AtHeader
<1> QED
  BY <1>1, <1>2, <1>4, <1>8, <1>9, <1>10 DEF ZInv

\* A call that returns has decoded its frame and flushed it, or has work left.
LEMMA ReturnKeeps == ASSUME ZInv, Zstd!Return PROVE ZInv'
<1>1. IsArchive(input) /\ ZstdShape /\ BetweenFrames /\ AtHeader /\ AtPiece /\ result = "running"
      /\ pc = "return"
  BY DEF ZInv, Zstd!Return
<1>2. UNCHANGED <<input, r1, r3, r7, result>> /\ pc' = "written"
  BY DEF Zstd!Return
<1> DEFINE a == r4.pos  b == r4.size
<1>3. /\ r4 \in [size : Nat, pos : Int, start : Int] /\ a <= b /\ a \in Int /\ b \in Nat
      /\ r3 \in Nat
      /\ r6 \in [stage : {"init", "loadHeader", "read", "load", "flush"}, lhSize : Nat, inPos : Nat,
                 outStart : {r6.outStart}, outEnd : {r6.outEnd}, hostage : BOOLEAN]
  BY <1>1 DEF ZstdShape
<1>4. FramesEnd' = FramesEnd /\ Zstd!FramePieces' = Zstd!FramePieces /\ Places' = Places
  BY <1>2, SameFrame
<1>5. HasPiece' = HasPiece /\ Zstd!Piece' = Zstd!Piece
  BY <1>2, <1>4 DEF HasPiece, Zstd!Piece
<1>6. r6.stage # "loadHeader"
  BY <1>1 DEF AtHeader
<1>7. Zstd!FrameEnded = ~ HasPiece
  <2>1. r7.frame > 0
    BY <1>1, <1>3, <1>6 DEF BetweenFrames, AtPiece
  <2>2. Zstd!Frame \in FrameSet
    BY <1>1, <2>1, FrameIs
  <2>3. Len(Zstd!FramePieces) \in Nat
    BY <2>2, FramePiecesAre
  <2>4. r7.piece \in Nat
    BY <1>1 DEF ZstdShape
  <2> QED
    BY <2>3, <2>4 DEF Zstd!FrameEnded, HasPiece
<1>8. CASE HasPiece
  <2>1. r4' = r4 /\ r6' = r6
    BY <1>7, <1>8 DEF Zstd!Return
  <2>2. Flushed' = Flushed /\ Debt' = Debt /\ Consumed' = Consumed
    BY <1>2, <2>1 DEF Flushed, Debt, Consumed
  <2>3. r6.stage # "init"
    BY <1>1, <1>8 DEF BetweenFrames
  <2>4. ZstdShape'
    BY <1>1, <1>2, <2>1 DEF ZstdShape
  <2>5. AtPiece'
    BY <1>1, <1>2, <1>4, <1>5, <1>8, <2>1, <2>2 DEF AtPiece
  <2>6. BetweenFrames' /\ AtHeader'
    BY <1>6, <2>1, <2>3 DEF BetweenFrames, AtHeader
  <2> QED
    BY <1>1, <1>2, <2>4, <2>5, <2>6 DEF ZInv
<1>9. CASE ~ HasPiece /\ ~ Flushed
  <2>1. r6.outEnd # r6.outStart
    BY <1>9 DEF Flushed
  <2>2. r4' = Zstd!KeepHostage.in /\ r6' = Zstd!KeepHostage.zds
    BY <1>7, <1>9, <2>1 DEF Zstd!Return
  <2>3. r6.stage \in {"read", "load", "flush"}
    BY <1>1, <1>3, <1>6, <1>9 DEF BetweenFrames
  <2>4. /\ r7.frame > 0 /\ r7.piece \in 1 .. Len(Zstd!FramePieces) + 1
        /\ r7.left = 0 /\ r6.stage = "flush" /\ r6.inPos = 0
        /\ (r6.hostage => a < b)
        /\ Consumed + Debt = FramesEnd[r7.frame - 1] + Places[r7.piece - 1] + r7.left + r6.inPos
    BY <1>1, <1>9, <2>3 DEF AtPiece
  <2>5. /\ r4' = [r4 EXCEPT !.pos = IF r6.hostage THEN a ELSE a - 1]
        /\ r6' = [r6 EXCEPT !.hostage = TRUE]
    BY <1>3, <2>2 DEF Zstd!KeepHostage
  <2> DEFINE d == IF r6.hostage THEN a ELSE a - 1
  <2>6. d \in Int /\ d < b /\ d + 1 = a + Debt
    <3>1. (r6.hostage => Debt = 1) /\ (~ r6.hostage => Debt = 0)
      BY DEF Debt
    <3> HIDE DEF a, b
    <3> QED
      BY <1>3, <2>4, <3>1
  <2>7. r4' = [r4 EXCEPT !.pos = d]
    BY <2>5
  <2> HIDE DEF d
  <2>8. /\ r4'.pos = d /\ r4'.size = b /\ r4' \in [size : Nat, pos : Int, start : Int]
    BY <1>3, <2>6, <2>7
  <2>9. /\ r6'.stage = "flush" /\ r6'.hostage /\ r6'.inPos = 0 /\ r6'.outStart = r6.outStart
        /\ r6'.outEnd = r6.outEnd
        /\ r6' \in [stage : {"init", "loadHeader", "read", "load", "flush"}, lhSize : Nat,
                    inPos : Nat, outStart : {r6'.outStart}, outEnd : {r6'.outEnd}, hostage : BOOLEAN]
    BY <1>3, <2>4, <2>5
  <2>10. Consumed' + Debt' = Consumed + Debt
    <3>1. Consumed' = r3 - b + d /\ Consumed = r3 - b + a /\ Debt' = 1 /\ Debt \in Nat
      BY <1>2, <2>8, <2>9 DEF Consumed, Debt
    <3> DEFINE x == Consumed'  y == Consumed  u == Debt'  v == Debt
    <3>2. x = r3 - b + d /\ y = r3 - b + a /\ u = 1 /\ v \in Nat /\ d + 1 = a + v
      BY <2>6, <3>1
    <3> HIDE DEF x, y, u, v, a, b
    <3>3. x + u = y + v
      BY <1>3, <2>6, <3>2
    <3> QED
      BY <3>3 DEF x, y, u, v
  <2>11. ZstdShape'
    <3>1. r4'.pos <= r4'.size
      <4> HIDE DEF b
      <4>1. d <= b
        BY <1>3, <2>6
      <4> QED
        BY <2>8, <4>1
    <3> QED
      BY <1>1, <1>2, <2>8, <2>9, <3>1 DEF ZstdShape
  <2>12. AtPiece'
    <3>1. r4'.pos < r4'.size
      BY <2>6, <2>8
    <3>2. Consumed' + Debt' = FramesEnd'[r7'.frame - 1] + Places'[r7'.piece - 1] + r7'.left + r6'.inPos
      BY <1>2, <1>4, <2>4, <2>9, <2>10
    <3> HIDE DEF a, b
    <3> QED
      BY <1>2, <1>4, <1>5, <1>9, <2>4, <2>9, <3>1, <3>2 DEF AtPiece
  <2>13. BetweenFrames' /\ AtHeader'
    BY <2>9 DEF BetweenFrames, AtHeader
  <2> QED
    BY <1>1, <1>2, <2>11, <2>12, <2>13 DEF ZInv
<1>10. CASE ~ HasPiece /\ Flushed
  <2>1. r6.stage = "init"
    BY <1>1, <1>3, <1>6, <1>10 DEF AtPiece
  <2>2. r7.frame > 0 /\ Consumed + Debt = FramesEnd[r7.frame] /\ (r6.hostage => a < b)
    BY <1>1, <2>1 DEF BetweenFrames
  <2>3. ~ (r6.hostage /\ r4.pos >= r4.size)
    <3>1. a < b => ~ (a >= b)
      <4> HIDE DEF a, b
      <4> QED
        BY <1>3
    <3> QED
      BY <2>2, <3>1
  <2>4. r9' = 0 /\ r6' = r6 /\ r4' = IF r6.hostage THEN [r4 EXCEPT !.pos = a + 1] ELSE r4
    BY <1>7, <1>10, <2>3 DEF Zstd!Return, Flushed
  <2> DEFINE d == a + Debt
  <2>5. d \in Int /\ d <= b /\ r4'.pos = d /\ r4'.size = b
        /\ r4' \in [size : Nat, pos : Int, start : Int]
    <3>1. (r6.hostage => Debt = 1) /\ (~ r6.hostage => Debt = 0)
      BY DEF Debt
    <3>2. CASE r6.hostage
      <4>1. Debt = 1 /\ a < b /\ r4' = [r4 EXCEPT !.pos = a + 1]
        BY <2>2, <2>4, <3>1, <3>2
      <4>2. a + 1 \in Int /\ a + 1 <= b
        <5> HIDE DEF a, b
        <5> QED
          BY <1>3, <4>1
      <4>3. d = a + 1
        BY <4>1
      <4> QED
        BY <1>3, <4>1, <4>2, <4>3
    <3>3. CASE ~ r6.hostage
      <4>1. Debt = 0 /\ r4' = r4
        BY <2>4, <3>1, <3>3
      <4>2. d = a
        BY <1>3, <4>1
      <4> QED
        BY <1>3, <4>1, <4>2
    <3> QED
      BY <3>2, <3>3
  <2>6. Consumed' = FramesEnd[r7.frame]
    <3>1. Consumed' = r3 - b + d /\ Consumed = r3 - b + a /\ Debt \in Nat
      BY <1>2, <2>5 DEF Consumed, Debt
    <3> DEFINE x == Consumed'  y == Consumed  v == Debt  e == FramesEnd[r7.frame]
    <3>2. x = r3 - b + d /\ y = r3 - b + a /\ d = a + v /\ v \in Nat /\ y + v = e
      BY <2>2, <3>1
    <3> HIDE DEF x, y, v, a, b, d, e
    <3>3. x = e
      BY <1>3, <3>2
    <3> QED
      BY <3>3 DEF x, e
  <2>7. BetweenFrames'
    BY <1>2, <1>4, <2>1, <2>2, <2>4, <2>6 DEF BetweenFrames
  <2>8. AtHeader' /\ AtPiece'
    BY <2>1, <2>4 DEF AtHeader, AtPiece
  <2>9. ZstdShape'
    <3>1. r4'.pos <= r4'.size
      BY <2>5
    <3> HIDE DEF d
    <3> QED
      BY <1>1, <1>2, <2>4, <2>5, <3>1 DEF ZstdShape
  <2> QED
    BY <1>1, <1>2, <2>7, <2>8, <2>9 DEF ZInv
<1> QED
  BY <1>8, <1>9, <1>10

LEMMA LoadHeaderKeeps == ASSUME ZInv, Zstd!LoadHeader PROVE ZInv'
<1> DEFINE h == r6.lhSize  a == r4.pos  b == r4.size  z == Zstd!HeaderSize
           s == Zstd!FrameSize(Zstd!Frame)  e == FramesEnd[r7.frame - 1]  l == Len(Zstd!FramePieces)
<1>1. IsArchive(input) /\ ZstdShape /\ AtHeader /\ result = "running" /\ pc = "work"
      /\ r6.stage = "loadHeader"
  BY DEF ZInv, Zstd!LoadHeader, Zstd!Working
<1>2. UNCHANGED <<input, r1, r3, r9, result>> /\ z - h <= b - a
  BY DEF Zstd!LoadHeader, Zstd!Rest
<1>3. /\ r4 \in [size : Nat, pos : Int, start : Int] /\ a <= b /\ a \in Int /\ b \in Nat
      /\ r3 \in Nat /\ h \in Nat /\ z = 2
      /\ r6 \in [stage : {"init", "loadHeader", "read", "load", "flush"}, lhSize : Nat, inPos : Nat,
                 outStart : {r6.outStart}, outEnd : {r6.outEnd}, hostage : BOOLEAN]
      /\ r7 \in [frame : Nat, piece : Nat, left : Nat, at : {r7.at}, prefixStart : {r7.prefixStart},
                 prefixAt : {r7.prefixAt}, prefixEnd : {r7.prefixEnd}, dictEnd : {r7.dictEnd}]
  BY <1>1 DEF ZstdShape, Zstd!HeaderSize
<1>4. /\ r7.frame > 0 /\ r7.piece = 1 /\ r7.left = 0 /\ r6.inPos = 0 /\ h < z /\ ~ r6.hostage
      /\ Flushed /\ Consumed = e + h /\ r4.start = a
  BY <1>1 DEF AtHeader
<1>5. Zstd!Frame \in FrameSet /\ e \in Nat /\ s \in Nat /\ s >= z /\ FramesEnd[r7.frame] = e + s
  BY <1>1, <1>4, FrameIs
<1>6. l \in Nat /\ Places[0] = z
  BY <1>5, FramePiecesAre
<1>7. Consumed = r3 - b + a
  BY DEF Consumed
<1>8. CASE Zstd!SinglePass
  <2>1. /\ r4' = [r4 EXCEPT !.pos = r4.start + s] /\ r6' = [r6 EXCEPT !.stage = "init"]
        /\ r7' = [r7 EXCEPT !.piece = l + 1] /\ pc' = "return"
    BY <1>8 DEF Zstd!LoadHeader
  <2>2. h = 0 /\ r4.start + s <= b
    BY <1>8 DEF Zstd!SinglePass
  <2> DEFINE d == r4.start + s  k == l + 1
  <2>3. d = a + s /\ d \in Int /\ d <= b
    <3>1. r4.start = a
      BY <1>4
    <3> HIDE DEF a, b, s
    <3> QED
      BY <1>3, <1>5, <2>2, <3>1
  <2>4. k \in Nat /\ ~ (k <= l)
    <3> HIDE DEF l
    <3> QED
      BY <1>6
  <2>5. r4' = [r4 EXCEPT !.pos = d] /\ r7' = [r7 EXCEPT !.piece = k]
    BY <2>1
  <2> HIDE DEF d, k
  <2>6. r4'.pos = d /\ r4'.size = b /\ r4' \in [size : Nat, pos : Int, start : Int]
    BY <1>3, <2>3, <2>5
  <2>7. /\ r6'.stage = "init" /\ ~ r6'.hostage /\ r6'.outStart = r6.outStart
        /\ r6'.outEnd = r6.outEnd
        /\ r6' \in [stage : {"init", "loadHeader", "read", "load", "flush"}, lhSize : Nat,
                    inPos : Nat, outStart : {r6'.outStart}, outEnd : {r6'.outEnd}, hostage : BOOLEAN]
    BY <1>3, <1>4, <2>1
  <2>8. /\ r7'.frame = r7.frame /\ r7'.piece = k
        /\ r7' \in [frame : Nat, piece : Nat, left : Nat, at : {r7'.at},
                    prefixStart : {r7'.prefixStart}, prefixAt : {r7'.prefixAt},
                    prefixEnd : {r7'.prefixEnd}, dictEnd : {r7'.dictEnd}]
    BY <1>3, <2>4, <2>5
  <2>9. FramesEnd' = FramesEnd /\ Zstd!FramePieces' = Zstd!FramePieces
    BY <1>2, <2>8, SameFrame
  <2>10. ~ HasPiece' /\ Flushed' /\ Debt' = 0
    BY <1>4, <2>4, <2>7, <2>8, <2>9 DEF HasPiece, Flushed, Debt
  <2>11. Consumed' + Debt' = FramesEnd'[r7'.frame]
    <3>1. Consumed' = r3 - b + d
      BY <1>2, <2>6 DEF Consumed
    <3> DEFINE x == Consumed'  y == Consumed  q == FramesEnd[r7.frame]
    <3>2. x = r3 - b + d /\ y = r3 - b + a /\ y = e + h /\ q = e + s
      BY <1>4, <1>5, <1>7, <3>1
    <3> HIDE DEF x, y, q, a, b, d, e, s, h
    <3>3. x = q /\ x \in Int
      BY <1>3, <1>5, <2>2, <2>3, <3>2
    <3>4. x + 0 = q
      BY <3>3
    <3> QED
      BY <2>8, <2>9, <2>10, <3>4 DEF x, q
  <2>12. BetweenFrames'
    BY <1>4, <2>1, <2>7, <2>8, <2>9, <2>10, <2>11 DEF BetweenFrames
  <2>13. AtHeader' /\ AtPiece'
    BY <2>7 DEF AtHeader, AtPiece
  <2>14. ZstdShape'
    <3>1. r4'.pos <= r4'.size
      BY <2>3, <2>6
    <3> QED
      BY <1>1, <1>2, <2>1, <2>6, <2>7, <2>8, <3>1 DEF ZstdShape
  <2> QED
    BY <1>1, <1>2, <2>12, <2>13, <2>14 DEF ZInv
<1>9. CASE ~ Zstd!SinglePass
  <2>1. /\ r4' = [r4 EXCEPT !.pos = a + z - h]
        /\ r6' = [r6 EXCEPT !.lhSize = z, !.stage = "read"]
        /\ r7' = r7 /\ pc' = "work"
    BY <1>1, <1>3, <1>9 DEF Zstd!LoadHeader
  <2> DEFINE d == a + z - h
  <2>2. d \in Int /\ d <= b
    <3> HIDE DEF a, b, z, h
    <3> QED
      BY <1>2, <1>3
  <2>3. r4' = [r4 EXCEPT !.pos = d]
    BY <2>1
  <2> HIDE DEF d
  <2>4. r4'.pos = d /\ r4'.size = b /\ r4' \in [size : Nat, pos : Int, start : Int]
    BY <1>3, <2>2, <2>3
  <2>5. /\ r6'.stage = "read" /\ ~ r6'.hostage /\ r6'.outStart = r6.outStart
        /\ r6'.outEnd = r6.outEnd /\ r6'.inPos = 0
        /\ r6' \in [stage : {"init", "loadHeader", "read", "load", "flush"}, lhSize : Nat,
                    inPos : Nat, outStart : {r6'.outStart}, outEnd : {r6'.outEnd}, hostage : BOOLEAN]
    BY <1>3, <1>4, <2>1
  <2>6. FramesEnd' = FramesEnd /\ Zstd!FramePieces' = Zstd!FramePieces /\ Places' = Places
    BY <1>2, <2>1, SameFrame
  <2>7. HasPiece' = HasPiece /\ Zstd!Piece' = Zstd!Piece /\ Flushed' /\ Debt' = 0
    BY <1>4, <2>1, <2>5, <2>6 DEF HasPiece, Zstd!Piece, Flushed, Debt
  <2>8. Consumed' + Debt' = FramesEnd'[r7'.frame - 1] + Places'[r7'.piece - 1] + r7'.left + r6'.inPos
    <3>1. Consumed' = r3 - b + d
      BY <1>2, <2>4 DEF Consumed
    <3> DEFINE x == Consumed'  y == Consumed
    <3>2. x = r3 - b + d /\ y = r3 - b + a /\ y = e + h
      BY <1>4, <1>7, <3>1
    <3>3. d = a + z - h
      BY DEF d
    <3>4. r7'.piece - 1 = 0 /\ r7'.left = 0 /\ r6'.inPos = 0
      BY <1>4, <2>1, <2>5
    <3>5. FramesEnd'[r7'.frame - 1] = e /\ Places'[r7'.piece - 1] = z
      BY <1>6, <2>1, <2>6, <3>4
    <3> HIDE DEF x, y, a, b, e, h, z
    <3>6. x + 0 = e + z + 0 + 0
      BY <1>3, <1>5, <2>2, <3>2, <3>3
    <3> QED
      BY <2>7, <3>4, <3>5, <3>6 DEF x
  <2>9. HasPiece => r7.left + r6'.inPos < Zstd!Piece.size
    <3> SUFFICES ASSUME HasPiece PROVE r7.left + r6'.inPos < Zstd!Piece.size
      OBVIOUS
    <3>1. r7.piece \in Nat \ {0}
      BY <1>4
    <3>2. Zstd!Piece.size \in Nat /\ Zstd!Piece.size > 0
      BY <1>5, <3>1, PieceIs
    <3>3. r7.left = 0 /\ r6'.inPos = 0
      BY <1>4, <2>5
    <3> QED
      BY <3>2, <3>3
  <2>10. r7.piece \in 1 .. l + 1
    <3> HIDE DEF l
    <3> QED
      BY <1>4, <1>6
  <2>11. AtPiece'
    BY <1>4, <2>1, <2>5, <2>6, <2>7, <2>8, <2>9, <2>10 DEF AtPiece
  <2>12. BetweenFrames' /\ AtHeader'
    BY <2>5 DEF BetweenFrames, AtHeader
  <2>13. ZstdShape'
    <3>1. r4'.pos <= r4'.size
      BY <2>2, <2>4
    <3> QED
      BY <1>1, <1>2, <2>1, <2>4, <2>5, <3>1 DEF ZstdShape
  <2> QED
    BY <1>1, <1>2, <2>1, <2>11, <2>12, <2>13 DEF ZInv
<1> QED
  BY <1>8, <1>9

\* What ZSTD_decompressContinue on n bytes of the piece in hand leaves.
LEMMA ContinueIs ==
    ASSUME ZInv, pc # "end", r6.stage \in {"read", "load"}, HasPiece, NEW n \in Nat,
           n > 0, r7.left + n <= Zstd!Piece.size,
           Zstd!Piece.kind # "raw" => r7.left = 0 /\ n = Zstd!Piece.size,
           Zstd!DecompressContinue(n)
    PROVE  /\ r7'.frame = r7.frame
           /\ \/ r7.left + n = Zstd!Piece.size /\ r7'.piece = r7.piece + 1 /\ r7'.left = 0
              \/ /\ r7.left + n # Zstd!Piece.size /\ Zstd!Piece.kind = "raw"
                 /\ r7'.piece = r7.piece /\ r7'.left = r7.left + n
           /\ r7' \in [frame : Nat, piece : Nat, left : Nat, at : {r7'.at},
                       prefixStart : {r7'.prefixStart}, prefixAt : {r7'.prefixAt},
                       prefixEnd : {r7'.prefixEnd}, dictEnd : {r7'.dictEnd}]
           /\ r6'.stage \in {"read", "flush"} /\ r6'.inPos = 0 /\ r6'.hostage = r6.hostage
           /\ r6'.stage = "read" => r6'.outStart = r6.outStart /\ r6'.outEnd = r6.outEnd
           /\ r6' \in [stage : {"init", "loadHeader", "read", "load", "flush"}, lhSize : Nat,
                       inPos : Nat, outStart : {r6'.outStart}, outEnd : {r6'.outEnd},
                       hostage : BOOLEAN]
<1> DEFINE f == r7.left  s == Zstd!Piece.size  tokens == Zstd!PieceTokens(n)  c == Zstd!Continued
           done == f + n = s  end == r6.outStart + Len(tokens)
<1>1. /\ r7 \in [frame : Nat, piece : Nat, left : Nat, at : {r7.at}, prefixStart : {r7.prefixStart},
                 prefixAt : {r7.prefixAt}, prefixEnd : {r7.prefixEnd}, dictEnd : {r7.dictEnd}]
      /\ r6 \in [stage : {"init", "loadHeader", "read", "load", "flush"}, lhSize : Nat, inPos : Nat,
                 outStart : {r6.outStart}, outEnd : {r6.outEnd}, hostage : BOOLEAN]
  BY DEF ZInv, ZstdShape
<1>2. /\ c.frame = r7.frame /\ c.piece = r7.piece /\ c.left = f
      /\ c \in [frame : Nat, piece : Nat, left : Nat, at : {c.at}, prefixStart : {c.prefixStart},
                prefixAt : {c.prefixAt}, prefixEnd : {c.prefixEnd}, dictEnd : {c.dictEnd}]
  BY <1>1 DEF Zstd!Continued
<1>3. /\ r7' = IF Zstd!Piece.kind \in {"header", "checksum"}
               THEN [r7 EXCEPT !.left = 0, !.piece = r7.piece + 1]
               ELSE [c EXCEPT !.left = IF done THEN 0 ELSE f + n,
                              !.piece = IF done THEN c.piece + 1 ELSE c.piece,
                              !.at = c.at + Len(tokens),
                              !.prefixEnd = c.prefixEnd + Len(tokens)]
      /\ r6' = [r6 EXCEPT !.inPos = 0,
                          !.outEnd = IF tokens = <<>> THEN r6.outEnd ELSE end,
                          !.stage = IF tokens = <<>> THEN "read" ELSE "flush"]
  BY DEF Zstd!DecompressContinue
<1> HIDE DEF tokens, c, end
<1>4. f \in Nat /\ s \in Nat
  BY InPieces
<1>5. /\ r6'.stage \in {"read", "flush"} /\ r6'.inPos = 0 /\ r6'.hostage = r6.hostage
      /\ (r6'.stage = "read" => r6'.outStart = r6.outStart /\ r6'.outEnd = r6.outEnd)
      /\ r6' \in [stage : {"init", "loadHeader", "read", "load", "flush"}, lhSize : Nat,
                  inPos : Nat, outStart : {r6'.outStart}, outEnd : {r6'.outEnd}, hostage : BOOLEAN]
  BY <1>1, <1>3
<1>6. Zstd!Piece.kind \in {"header", "checksum"} => f + n = s
  <2>1. Zstd!Piece.kind \in {"header", "checksum"} => f = 0 /\ n = s
    OBVIOUS
  <2>2. f = 0 /\ n = s => f + n = s
    <3> HIDE DEF f, s
    <3> QED
      BY <1>4
  <2> QED
    BY <2>1, <2>2
<1> DEFINE k == r7.piece + 1  g == f + n
<1>7. k \in Nat /\ g \in Nat
  BY <1>1, <1>4
<1>8. c.piece + 1 = k
  BY <1>2
<1> HIDE DEF f, s, k, g
<1>9. /\ r7'.frame = r7.frame
      /\ \/ done /\ r7'.piece = k /\ r7'.left = 0
         \/ ~ done /\ Zstd!Piece.kind = "raw" /\ r7'.piece = r7.piece /\ r7'.left = g
      /\ r7' \in [frame : Nat, piece : Nat, left : Nat, at : {r7'.at},
                  prefixStart : {r7'.prefixStart}, prefixAt : {r7'.prefixAt},
                  prefixEnd : {r7'.prefixEnd}, dictEnd : {r7'.dictEnd}]
  <2>1. CASE Zstd!Piece.kind \in {"header", "checksum"}
    <3>1. r7' = [r7 EXCEPT !.left = 0, !.piece = k] /\ done
      BY <1>3, <1>6, <2>1 DEF k
    <3> HIDE DEF done
    <3> QED
      BY <1>1, <1>7, <3>1
  <2>2. CASE Zstd!Piece.kind \notin {"header", "checksum"} /\ done
    <3> DEFINE u == c.at + Len(tokens)  v == c.prefixEnd + Len(tokens)
    <3>1. r7' = [c EXCEPT !.left = 0, !.piece = k, !.at = u, !.prefixEnd = v]
      BY <1>3, <1>8, <2>2
    <3> HIDE DEF done, u, v
    <3> QED
      BY <1>2, <1>7, <2>2, <3>1
  <2>3. CASE Zstd!Piece.kind \notin {"header", "checksum"} /\ ~ done
    <3> DEFINE u == c.at + Len(tokens)  v == c.prefixEnd + Len(tokens)
    <3>1. r7' = [c EXCEPT !.left = g, !.piece = c.piece, !.at = u, !.prefixEnd = v]
      BY <1>3, <2>3 DEF g
    <3>2. Zstd!Piece.kind = "raw"
      <4> SUFFICES ASSUME Zstd!Piece.kind # "raw" PROVE FALSE
        OBVIOUS
      <4>1. f = 0 /\ n = s
        BY DEF f, s
      <4>2. f + n = s
        BY <1>4, <4>1
      <4> QED
        BY <2>3, <4>2
    <3> HIDE DEF done, u, v
    <3> QED
      BY <1>2, <1>7, <2>3, <3>1, <3>2
  <2> QED
    BY <2>1, <2>2, <2>3
<1> QED
  BY <1>5, <1>9 DEF f, s, k, g

LEMMA ContinueKeeps ==
    ASSUME ZInv, pc = "work", pc' = "work", r6.stage \in {"read", "load"}, HasPiece, NEW n \in Nat,
           n > 0, r7.left + n <= Zstd!Piece.size,
           Zstd!Piece.kind # "raw" => r7.left = 0 /\ n = Zstd!Piece.size,
           Zstd!DecompressContinue(n), UNCHANGED <<input, r1, r3, result>>,
           NEW d \in Int, r4' = [r4 EXCEPT !.pos = d], d <= r4.size, d + r6.inPos = r4.pos + n
    PROVE  ZInv'
<1> DEFINE f == r7.left  s == Zstd!Piece.size  m == r7.piece  l == Len(Zstd!FramePieces)
           a == r4.pos  b == r4.size  e == FramesEnd[r7.frame - 1]
<1>1. IsArchive(input) /\ ZstdShape /\ AtPiece /\ result = "running"
  BY DEF ZInv
<1>2. /\ r7'.frame = r7.frame
      /\ \/ f + n = s /\ r7'.piece = m + 1 /\ r7'.left = 0
         \/ f + n # s /\ Zstd!Piece.kind = "raw" /\ r7'.piece = m /\ r7'.left = f + n
      /\ r7' \in [frame : Nat, piece : Nat, left : Nat, at : {r7'.at},
                  prefixStart : {r7'.prefixStart}, prefixAt : {r7'.prefixAt},
                  prefixEnd : {r7'.prefixEnd}, dictEnd : {r7'.dictEnd}]
      /\ r6'.stage \in {"read", "flush"} /\ r6'.inPos = 0 /\ r6'.hostage = r6.hostage
      /\ (r6'.stage = "read" => r6'.outStart = r6.outStart /\ r6'.outEnd = r6.outEnd)
      /\ r6' \in [stage : {"init", "loadHeader", "read", "load", "flush"}, lhSize : Nat,
                  inPos : Nat, outStart : {r6'.outStart}, outEnd : {r6'.outEnd}, hostage : BOOLEAN]
  BY ContinueIs
<1>3. /\ Zstd!Frame \in FrameSet /\ l \in Nat /\ m \in Nat /\ m > 0 /\ f \in Nat
      /\ r6.inPos \in Nat /\ e \in Nat /\ Places[m - 1] \in Nat /\ s \in Nat
      /\ ~ r6.hostage /\ Debt = 0 /\ r3 \in Nat /\ b \in Nat /\ a \in Int /\ a <= b
  BY InPieces
<1>4. m \in 1 .. l /\ Places[m] \in Nat /\ Places[m] = Places[m - 1] + s
  <2>1. m \in Nat \ {0}
    BY <1>3
  <2> QED
    BY <1>3, <2>1, PieceIs
<1>5. /\ r7.frame > 0 /\ Flushed
      /\ Consumed + Debt = e + Places[m - 1] + f + r6.inPos
  BY <1>1 DEF AtPiece
<1>6. r4'.pos = d /\ r4'.size = b /\ r4' \in [size : Nat, pos : Int, start : Int]
  <2>1. r4 \in [size : Nat, pos : Int, start : Int]
    BY <1>1 DEF ZstdShape
  <2> QED
    BY <2>1
<1>7. FramesEnd' = FramesEnd /\ Zstd!FramePieces' = Zstd!FramePieces /\ Places' = Places
  BY <1>2, SameFrame
<1>8. ~ r6'.hostage /\ Debt' = 0
  BY <1>2, <1>3 DEF Debt
<1>9. r6'.stage = "read" => Flushed'
  BY <1>2, <1>5 DEF Flushed
<1>10. Zstd!Frame' \in FrameSet
  BY <1>2, <1>3, SameFrame
<1> DEFINE p == Places[m - 1]  g == r7'.left  k == r7'.piece  y == r6.inPos
<1>11. /\ k \in 1 .. l + 1 /\ g \in Nat
       /\ Places[k - 1] + g = p + f + n /\ Places[k - 1] \in Nat
       /\ \/ k = m + 1 /\ g = 0
          \/ k = m /\ g < s /\ Zstd!Piece.kind = "raw"
  <2>1. CASE f + n = s /\ k = m + 1 /\ g = 0
    <3>1. k - 1 = m /\ k \in 1 .. l + 1
      <4>1. k = m + 1 /\ m \in 1 .. l /\ l \in Nat
        BY <1>3, <1>4, <2>1
      <4> HIDE DEF k, m, l
      <4> QED
        BY <4>1
    <3>2. Places[k - 1] = p + s
      BY <1>4, <3>1
    <3> DEFINE w == Places[k - 1]
    <3>3. w = p + s /\ p \in Nat /\ w \in Nat
      BY <1>3, <1>4, <3>1, <3>2
    <3> HIDE DEF w, p, s, f, g, k, m, l
    <3>4. w + g = p + f + n
      BY <1>3, <2>1, <3>3
    <3> QED
      BY <2>1, <3>1, <3>3, <3>4 DEF w
  <2>2. CASE f + n # s /\ Zstd!Piece.kind = "raw" /\ k = m /\ g = f + n
    <3>1. k \in 1 .. l + 1 /\ k - 1 = m - 1
      <4> HIDE DEF k, m, l
      <4> QED
        BY <1>3, <1>4, <2>2
    <3>2. f + n <= s
      OBVIOUS
    <3> DEFINE w == Places[k - 1]
    <3>3. w = p /\ p \in Nat
      BY <1>3, <3>1
    <3> HIDE DEF w, p, s, f, g, k, m, l
    <3>4. w + g = p + f + n /\ g < s /\ g \in Nat
      BY <1>3, <2>2, <3>2, <3>3
    <3> QED
      BY <2>2, <3>1, <3>3, <3>4 DEF w
  <2> QED
    BY <1>2, <2>1, <2>2
<1>12. Consumed' + Debt' = FramesEnd'[r7'.frame - 1] + Places'[k - 1] + g + r6'.inPos
  <2>1. Consumed' = r3 - b + d /\ Consumed = r3 - b + a
    BY <1>6 DEF Consumed
  <2> DEFINE x == Consumed'  v == Consumed  w == Places[k - 1]
  <2>2. x = r3 - b + d /\ v = r3 - b + a /\ v + 0 = e + p + f + y /\ p \in Nat /\ e \in Nat
        /\ f \in Nat /\ y \in Nat /\ w + g = p + f + n /\ w \in Nat /\ g \in Nat /\ d + y = a + n
        /\ a \in Int /\ b \in Nat /\ r3 \in Nat
    BY <1>3, <1>5, <1>11, <2>1
  <2>3. FramesEnd'[r7'.frame - 1] = e /\ Places'[k - 1] = w /\ r6'.inPos = 0 /\ Debt' = 0
    BY <1>2, <1>7, <1>8
  <2> HIDE DEF x, v, w, a, b, e, f, y, g, p, k
  <2>4. d = a + n - y /\ n \in Nat /\ d \in Int
    BY <2>2
  <2> DEFINE c == r3
  <2>5. x = c - b + d /\ v = c - b + a /\ c \in Nat
    BY <2>2
  <2> HIDE DEF c, s, m, l
  <2>6. x = v + n - y
    BY <2>2, <2>4, <2>5
  <2>7. x + 0 = e + w + g + 0
    BY <2>2, <2>4, <2>6
  <2> QED
    BY <2>3, <2>7 DEF x, w
<1>13. HasPiece' => g + r6'.inPos < Zstd!Piece'.size /\ (g > 0 => Zstd!Piece'.kind = "raw")
  <2>1. CASE k = m + 1 /\ g = 0
    <3> SUFFICES ASSUME HasPiece' PROVE 0 < Zstd!Piece'.size
      BY <1>2, <2>1
    <3>1. k <= l
      BY <1>7 DEF HasPiece
    <3>2. k \in 1 .. l
      <4> HIDE DEF k, l
      <4> QED
        BY <1>3, <1>11, <3>1
    <3>3. Zstd!FramePieces \in Seq(PieceSet)
      BY <1>3, FramePiecesAre
    <3>4. Zstd!FramePieces[k] \in PieceSet
      BY <3>2, <3>3, ElementOfSeq
    <3>5. Zstd!Piece' = Zstd!FramePieces[k]
      BY <1>7 DEF Zstd!Piece
    <3> QED
      BY <3>4, <3>5, PieceSize
  <2>2. CASE k = m /\ g < s /\ Zstd!Piece.kind = "raw"
    <3>1. Zstd!Piece' = Zstd!Piece
      BY <1>7, <2>2 DEF Zstd!Piece
    <3>2. g + 0 < s
      BY <1>11, <2>2
    <3> QED
      BY <1>2, <2>2, <3>1, <3>2
  <2> QED
    BY <1>11, <2>1, <2>2
<1>14. ~ HasPiece' => g = 0
  <2> SUFFICES ASSUME k = m /\ g < s PROVE HasPiece'
    BY <1>11
  <2> QED
    BY <1>7 DEF HasPiece
<1>15. ZstdShape'
  BY <1>1, <1>2, <1>6 DEF ZstdShape
<1>16. AtPiece'
  <2>1. k \in 1 .. Len(Zstd!FramePieces') + 1
    BY <1>7, <1>11
  <2> HIDE DEF k, g
  <2> QED
    BY <1>2, <1>5, <1>8, <1>9, <1>12, <1>13, <1>14, <2>1 DEF AtPiece, k, g
<1>17. BetweenFrames' /\ AtHeader'
  BY <1>2 DEF BetweenFrames, AtHeader
<1> QED
  BY <1>1, <1>15, <1>16, <1>17 DEF ZInv

LEMMA ReadDirectKeeps == ASSUME ZInv, Zstd!ReadDirect PROVE ZInv'
<1> DEFINE w == Zstd!Rest  n == Zstd!NeededWith(w)  a == r4.pos  b == r4.size
           f == r7.left  s == Zstd!Piece.size  q == Zstd!Expected  d == a + n
<1>1. /\ pc = "work" /\ pc' = "work" /\ r6.stage = "read" /\ n > 0 /\ w >= n
      /\ Zstd!DecompressContinue(n) /\ r4' = [r4 EXCEPT !.pos = a + n]
      /\ UNCHANGED <<input, r1, r3, result>>
  BY DEF Zstd!ReadDirect, Zstd!Working
<1>2. a \in Int /\ b \in Nat /\ a <= b /\ w = b - a /\ ZstdShape /\ AtPiece
  BY <1>1 DEF ZInv, ZstdShape, Zstd!Rest
<1>3. w \in Nat
  <2> HIDE DEF a, b, w
  <2> QED
    BY <1>2
<1> HIDE DEF w
<1>4. /\ n \in Nat /\ (~ HasPiece => n = 0)
      /\ (HasPiece => q = s - f /\ n <= q /\ (Zstd!Piece.kind # "raw" => f = 0 /\ n = q))
  BY <1>1, <1>3, NeededIsPositive
<1>5. HasPiece
  <2> HIDE DEF n
  <2> QED
    BY <1>1, <1>4
<1>6. f \in Nat /\ s \in Nat /\ r6.inPos = 0
  BY <1>1, <1>2, <1>5, InPieces DEF AtPiece
<1>7. f + n <= s /\ (Zstd!Piece.kind # "raw" => f = 0 /\ n = s) /\ d \in Int /\ d <= b
      /\ d + 0 = a + n
  <2>1. q = s - f /\ n <= q /\ (Zstd!Piece.kind # "raw" => f = 0 /\ n = q)
    BY <1>4, <1>5
  <2>2. d = a + n
    OBVIOUS
  <2> HIDE DEF f, s, q, n, a, b, d
  <2>3. f + n <= s /\ d \in Int /\ d <= b /\ d + 0 = a + n
    BY <1>1, <1>2, <1>3, <1>4, <1>6, <2>1, <2>2
  <2>4. f = 0 /\ n = q => n = s
    BY <1>6, <2>1
  <2> QED
    BY <2>1, <2>3, <2>4
<1>8. r4' = [r4 EXCEPT !.pos = d] /\ d + r6.inPos = r4.pos + n
  BY <1>1, <1>6, <1>7
<1> HIDE DEF n, d
<1> QED
  BY <1>1, <1>4, <1>5, <1>7, <1>8, ContinueKeeps

LEMMA LoadKeeps == ASSUME ZInv, Zstd!Load PROVE ZInv'
<1> DEFINE w == Zstd!Rest  a == r4.pos  b == r4.size  y == r6.inPos
           f == r7.left  s == Zstd!Piece.size  q == Zstd!Expected
           t == q - y  n == Zstd!Smaller(t, w)  d == a + n
<1>1. /\ pc = "work" /\ r6.stage = "load" /\ UNCHANGED <<input, r1, r3, r9, result>>
      /\ r4' = [r4 EXCEPT !.pos = a + n]
      /\ \/ n < t /\ r6' = [r6 EXCEPT !.inPos = y + n] /\ pc' = "return" /\ r7' = r7
         \/ ~ (n < t) /\ Zstd!DecompressContinue(q) /\ pc' = pc
  BY DEF Zstd!Load, Zstd!Working
<1>2. /\ a \in Int /\ b \in Nat /\ a <= b /\ w = b - a /\ ZstdShape /\ AtPiece /\ HasPiece
      /\ IsArchive(input) /\ result = "running" /\ r3 \in Nat
  BY <1>1 DEF ZInv, ZstdShape, Zstd!Rest, AtPiece
<1>3. w \in Nat
  <2> HIDE DEF a, b, w
  <2> QED
    BY <1>2
<1>4. q \in Nat /\ q = s - f /\ f + y < s /\ q > 0 /\ (Zstd!Piece.kind # "raw" => f = 0)
  BY <1>1, <1>2, <1>3, NeededIsPositive
<1>5. f \in Nat /\ s \in Nat /\ y \in Nat
  BY <1>1, <1>2, InPieces
<1>6. /\ t \in Nat /\ t > 0 /\ n \in Nat /\ n <= w /\ n <= t /\ d \in Int /\ d <= b
      /\ (n < t => n = w)
  <2>1. t = q - y /\ n = (IF t < w THEN t ELSE w) /\ d = a + n
    BY DEF Zstd!Smaller
  <2> HIDE DEF w, a, b, y, f, s, q, t, n, d
  <2>2. t \in Nat /\ t > 0
    BY <1>4, <1>5, <2>1
  <2>3. n \in Nat /\ n <= w /\ n <= t /\ (n < t => n = w)
    BY <1>3, <2>1, <2>2
  <2> QED
    BY <1>2, <1>3, <2>1, <2>2, <2>3
<1>7. CASE n < t /\ r6' = [r6 EXCEPT !.inPos = y + n] /\ pc' = "return" /\ r7' = r7
  <2> DEFINE g == y + n
  <2>1. g \in Nat /\ f + g < s
    <3>1. t = q - y /\ g = y + n /\ n < t
      BY <1>7
    <3> HIDE DEF y, n, t, q, f, s, g
    <3> QED
      BY <1>4, <1>5, <1>6, <3>1
  <2>2. r6' = [r6 EXCEPT !.inPos = g]
    BY <1>7
  <2>3. r4' = [r4 EXCEPT !.pos = d]
    BY <1>1
  <2>4. d = a + n /\ g = y + n
    OBVIOUS
  <2> HIDE DEF g, d, n, t
  <2>5. r4 \in [size : Nat, pos : Int, start : Int]
        /\ r6 \in [stage : {"init", "loadHeader", "read", "load", "flush"}, lhSize : Nat,
                   inPos : Nat, outStart : {r6.outStart}, outEnd : {r6.outEnd}, hostage : BOOLEAN]
    BY <1>2 DEF ZstdShape
  <2>6. r4'.pos = d /\ r4'.size = b /\ r4' \in [size : Nat, pos : Int, start : Int]
    BY <1>6, <2>3, <2>5
  <2>7. /\ r6'.stage = "load" /\ r6'.inPos = g /\ r6'.hostage = r6.hostage
        /\ r6'.outStart = r6.outStart /\ r6'.outEnd = r6.outEnd
        /\ r6' \in [stage : {"init", "loadHeader", "read", "load", "flush"}, lhSize : Nat,
                    inPos : Nat, outStart : {r6'.outStart}, outEnd : {r6'.outEnd}, hostage : BOOLEAN]
    BY <1>1, <2>1, <2>2, <2>5
  <2>8. FramesEnd' = FramesEnd /\ Zstd!FramePieces' = Zstd!FramePieces /\ Places' = Places
    BY <1>1, <1>7, SameFrame
  <2>9. HasPiece' /\ Flushed' = Flushed /\ Debt' = Debt /\ Zstd!Piece' = Zstd!Piece
    BY <1>2, <1>7, <2>7, <2>8 DEF HasPiece, Flushed, Debt, Zstd!Piece
  <2>10. /\ r7.frame > 0 /\ r7.piece \in 1 .. Len(Zstd!FramePieces) + 1 /\ Flushed /\ ~ r6.hostage
         /\ (f > 0 => Zstd!Piece.kind = "raw")
         /\ Consumed + Debt = FramesEnd[r7.frame - 1] + Places[r7.piece - 1] + f + y
         /\ FramesEnd[r7.frame - 1] \in Nat /\ Places[r7.piece - 1] \in Nat /\ Debt \in Nat
    BY <1>1, <1>2, InPieces DEF AtPiece
  <2>11. Consumed' + Debt' = FramesEnd'[r7'.frame - 1] + Places'[r7'.piece - 1] + r7'.left + r6'.inPos
    <3> DEFINE x == Consumed'  v == Consumed  u == Debt  e == FramesEnd[r7.frame - 1]
               p == Places[r7.piece - 1]
    <3>1. x = r3 - b + d /\ v = r3 - b + a /\ u \in Nat /\ e \in Nat /\ p \in Nat
          /\ v + u = e + p + f + y
      BY <1>1, <2>6, <2>10 DEF Consumed
    <3> HIDE DEF x, v, u, e, p, a, b, f, y
    <3>2. x = v + n /\ v \in Int
      BY <1>2, <1>6, <2>4, <3>1
    <3>3. x + u = e + p + f + g
      BY <1>5, <1>6, <2>4, <3>1, <3>2
    <3> QED
      BY <1>7, <2>7, <2>8, <2>9, <3>3 DEF x, u, e, p, f
  <2>12. ZstdShape'
    <3>1. r4'.pos <= r4'.size
      BY <1>6, <2>6
    <3> HIDE DEF a, b, y
    <3> QED
      BY <1>1, <1>2, <1>7, <2>6, <2>7, <3>1 DEF ZstdShape
  <2>13. AtPiece'
    <3>1. r7'.left + r6'.inPos < Zstd!Piece'.size /\ (r7'.left > 0 => Zstd!Piece'.kind = "raw")
      BY <1>7, <2>1, <2>7, <2>9, <2>10
    <3> HIDE DEF a, b, y, f, s
    <3> QED
      BY <1>7, <2>7, <2>8, <2>9, <2>10, <2>11, <3>1 DEF AtPiece
  <2>14. BetweenFrames' /\ AtHeader'
    BY <2>7 DEF BetweenFrames, AtHeader
  <2> QED
    BY <1>1, <1>2, <1>7, <2>12, <2>13, <2>14 DEF ZInv
<1>8. CASE ~ (n < t) /\ Zstd!DecompressContinue(q) /\ pc' = pc
  <2>1. n = t
    <3> HIDE DEF n, t
    <3> QED
      BY <1>6, <1>8
  <2>2. f + q <= s /\ (Zstd!Piece.kind # "raw" => f = 0 /\ q = s) /\ d + y = a + q
    <3>1. d = a + n /\ t = q - y
      OBVIOUS
    <3> HIDE DEF d, n, t, a, b, q, y, f, s
    <3>2. f + q <= s /\ d + y = a + q /\ (f = 0 => q = s)
      BY <1>2, <1>4, <1>5, <1>6, <2>1, <3>1
    <3> QED
      BY <1>4, <3>2
  <2>3. r4' = [r4 EXCEPT !.pos = d]
    BY <1>1
  <2> HIDE DEF d, q, n, t
  <2> QED
    BY <1>1, <1>2, <1>4, <1>6, <1>8, <2>2, <2>3, ContinueKeeps
<1> QED
  BY <1>1, <1>7, <1>8

LEMMA ZInvNext == ASSUME ZInv, [Zstd!Next]_(Zstd!vars) PROVE ZInv'
<1>1. CASE Zstd!Next
  BY <1>1, FreadKeeps, CallKeeps, StageInitKeeps, LoadPartOfHeaderKeeps, LoadHeaderKeeps,
     ReadEndOfFrameKeeps, ReadDirectKeeps, ReadTooLittleKeeps, LoadKeeps, FlushKeeps,
     ReturnKeeps, FwriteKeeps, IoFailsKeeps
     DEF Zstd!Next, Zstd!Fread
<1>2. CASE UNCHANGED Zstd!vars
  BY <1>2, UnchangedKeeps DEF Zstd!vars
<1> QED
  BY <1>1, <1>2

LEMMA ZInvInit == ASSUME Zstd!SizesAssumption, IsArchive(input), Zstd!Init PROVE ZInv
<1>1. /\ r1 \in InSizes /\ r3 = 0 /\ r4 = [size |-> 0, pos |-> 0, start |-> 0]
      /\ r6 = [stage |-> "init", lhSize |-> 0, inPos |-> 0, outStart |-> 0,
               outEnd |-> 0, hostage |-> FALSE]
      /\ r7 = [frame |-> 0, piece |-> 1, left |-> 0, at |-> 0,
               prefixStart |-> 0, prefixAt |-> 0, prefixEnd |-> 0, dictEnd |-> 0]
      /\ pc = "fread" /\ result = "running"
  BY DEF Zstd!Init, Zstd!FreshStream, Zstd!FreshFrame
<1>2. r1 \in Nat \ {0}
  BY <1>1 DEF Zstd!SizesAssumption
<1>3. input.size \in Nat /\ input.frames \in Seq(FrameSet)
  BY DEF IsArchive
<1>4. r7.frame <= Len(input.frames)
  <2> DEFINE n == Len(input.frames)  k == r7.frame
  <2>1. n \in Nat
    <3> DEFINE fs == input.frames
    <3>1. fs \in Seq(FrameSet)
      BY <1>3
    <3> HIDE DEF fs
    <3>2. Len(fs) \in Nat
      BY <3>1, LenProperties
    <3> QED
      BY <3>2 DEF fs
  <2>2. k = 0
    BY <1>1
  <2> HIDE DEF n, k
  <2>3. k <= n
    BY <2>1, <2>2
  <2> QED
    BY <2>3 DEF n, k
<1>5. ZstdShape
  BY <1>1, <1>2, <1>3, <1>4 DEF ZstdShape
<1>6. BetweenFrames
  <2>1. Consumed = 0
    BY <1>1 DEF Consumed
  <2>2. FramesEnd[0] = 0
    <3> DEFINE fs == input.frames
    <3>1. fs \in Seq(FrameSet) /\ FramesEnd = FrameEnds(fs)
      BY <1>3 DEF FramesEnd
    <3> HIDE DEF fs
    <3> QED
      BY <3>1, FrameEndsAre
  <2> QED
    BY <1>1, <2>1, <2>2 DEF BetweenFrames
<1>7. AtHeader /\ AtPiece
  BY <1>1 DEF AtHeader, AtPiece
<1> QED
  BY <1>1, <1>5, <1>6, <1>7 DEF ZInv

\* An archive of any frames and block sizes that arrived whole, read through buffers of
\* any sizes, is decompressed unless a read or a write fails: the decoder has asked for
\* all of it and given back the byte it held before the end of the file is answered
\* (codemagic_patch_decompress_zstd_file, ZSTD_decompressStream).
THEOREM AnyFileDecompresses ==
    ASSUME Zstd!SizesAssumption
    PROVE  IsArchive(input) /\ Zstd!Spec => []Zstd!CompleteFileDecompresses
<1>1. IsArchive(input) /\ Zstd!Init => ZInv
  BY ZInvInit
<1>2. ZInv /\ [Zstd!Next]_(Zstd!vars) => ZInv'
  BY ZInvNext
<1>3. ZInv => Zstd!CompleteFileDecompresses
  BY DEF ZInv, Zstd!CompleteFileDecompresses
<1> QED
  BY <1>1, <1>2, <1>3, PTL DEF Zstd!Spec

\* The archives of the run are such archives.
LEMMA ArchivesAre == ASSUME NEW d \in FileInputs!AllFiles PROVE IsArchive(d)
<1> DEFINE Ok(fs) == fs \in Seq(FrameSet) /\ fs # <<>>
           Frames(bs) == FileInputs!WithBlocks(bs, BOOLEAN)
           none == <<>>
<1>1. none \in Seq(Int) /\ none \in Seq(BlockSet)
  BY EmptySeq
<1>2. \A t \in Seq(Int) : FileInputs!Raw(t) \in BlockSet /\ FileInputs!Rle(t) \in BlockSet
  BY LenProperties DEF BlockSet, FileInputs!Raw, FileInputs!Rle
<1>3. \A c \in Nat, t \in Seq(Int) : FileInputs!Compressed(c, t) \in BlockSet
  BY DEF BlockSet, FileInputs!Compressed
<1>4. FileInputs!Empty \in BlockSet
  BY <1>1, <1>2 DEF FileInputs!Empty
<1>5. FileInputs!Tiny \in Seq(BlockSet)
  <2> DEFINE t == <<4, 5>>  b == FileInputs!Raw(t)
  <2>1. t \in Seq(Int)
    OBVIOUS
  <2>2. b \in BlockSet
    BY <1>2, <2>1
  <2> HIDE DEF b
  <2>3. <<b>> \in Seq(BlockSet)
    BY <2>2
  <2> QED
    BY <2>3 DEF FileInputs!Tiny, b
<1>6. <<FileInputs!Empty>> \in Seq(BlockSet)
  BY <1>4
<1>7. FileInputs!Short \in Seq(BlockSet)
  <2> DEFINE t == <<1, 2>>  u == <<3, 3>>
             a == FileInputs!Compressed(3, t)  b == FileInputs!Rle(u)  c == FileInputs!Empty
  <2>1. t \in Seq(Int) /\ u \in Seq(Int)
    OBVIOUS
  <2>2. a \in BlockSet /\ b \in BlockSet /\ c \in BlockSet
    BY <1>2, <1>3, <1>4, <2>1
  <2> HIDE DEF a, b, c
  <2>3. <<a, b, c>> \in Seq(BlockSet)
    BY <2>2
  <2> QED
    BY <2>3 DEF FileInputs!Short, a, b, c
<1>8. FileInputs!Long \in Seq(BlockSet)
  <2> DEFINE A(x) == FileInputs!Raw(x)  C(n, x) == FileInputs!Compressed(n, x)
             b1 == A(<<1, 2>>)  b2 == C(1, <<3, -3>>)  b3 == C(2, <<-3, 4>>)  b4 == A(<<5, 6>>)
             b5 == C(1, <<-3, -3>>)  b7 == C(1, <<7, -3>>)  b9 == A(<<8>>)  b10 == C(1, <<-3, -2>>)
  <2>1. /\ <<1, 2>> \in Seq(Int) /\ <<3, -3>> \in Seq(Int) /\ <<-3, 4>> \in Seq(Int)
        /\ <<5, 6>> \in Seq(Int) /\ <<-3, -3>> \in Seq(Int) /\ <<7, -3>> \in Seq(Int)
        /\ <<8>> \in Seq(Int) /\ <<-3, -2>> \in Seq(Int)
    OBVIOUS
  <2>2. b1 \in BlockSet /\ b4 \in BlockSet /\ b9 \in BlockSet
    BY <1>2, <2>1
  <2>3. b2 \in BlockSet /\ b3 \in BlockSet /\ b5 \in BlockSet /\ b7 \in BlockSet /\ b10 \in BlockSet
    BY <1>3, <2>1
  <2> HIDE DEF A, C, b1, b2, b3, b4, b5, b7, b9, b10
  <2>4. <<b1, b2, b3, b4, b5, b5, b7, b5, b9, b10>> \in Seq(BlockSet)
    BY <2>2, <2>3
  <2> QED
    BY <2>4 DEF FileInputs!Long, b1, b2, b3, b4, b5, b7, b9, b10, A, C
<1>9. \A bs \in SUBSET Seq(BlockSet), sums \in SUBSET BOOLEAN :
         FileInputs!WithBlocks(bs, sums) \subseteq FrameSet
  <2> SUFFICES ASSUME NEW bs \in SUBSET Seq(BlockSet), NEW sums \in SUBSET BOOLEAN,
                      NEW f \in FileInputs!WithBlocks(bs, sums)
               PROVE  f \in FrameSet
    OBVIOUS
  <2>1. PICK known \in BOOLEAN, sum \in sums, blocks \in bs :
            f = [contentSizeKnown |-> known, checksum |-> sum, window |-> 3, blocks |-> blocks]
    BY DEF FileInputs!WithBlocks
  <2> QED
    BY <2>1 DEF FrameSet
<1> HIDE DEF none
<1>10. \A fs \in FileInputs!OneFrame \cup FileInputs!TwoFrames : Ok(fs)
  <2> SUFFICES ASSUME NEW fs \in FileInputs!OneFrame \cup FileInputs!TwoFrames PROVE Ok(fs)
    OBVIOUS
  <2> DEFINE all == {FileInputs!Long, FileInputs!Short, FileInputs!Tiny, <<FileInputs!Empty>>}
             some == {FileInputs!Short, FileInputs!Tiny}
  <2>1. all \in SUBSET Seq(BlockSet) /\ some \in SUBSET Seq(BlockSet)
    BY <1>5, <1>6, <1>7, <1>8
  <2>2. FileInputs!OneFrame = {<<f>> : f \in FileInputs!WithBlocks(all, BOOLEAN)}
    BY DEF FileInputs!OneFrame
  <2>3. FileInputs!TwoFrames = {<<f, g>> : f, g \in FileInputs!WithBlocks(some, {FALSE})}
    BY DEF FileInputs!TwoFrames
  <2> HIDE DEF all, some
  <2>4. FileInputs!WithBlocks(all, BOOLEAN) \subseteq FrameSet
        /\ FileInputs!WithBlocks(some, {FALSE}) \subseteq FrameSet
    BY <1>9, <2>1
  <2>5. CASE fs \in FileInputs!OneFrame
    <3>1. PICK f \in FileInputs!WithBlocks(all, BOOLEAN) : fs = <<f>>
      BY <2>2, <2>5
    <3>2. f \in FrameSet
      BY <2>4
    <3> QED
      BY <3>1, <3>2
  <2>6. CASE fs \in FileInputs!TwoFrames
    <3>1. PICK f \in FileInputs!WithBlocks(some, {FALSE}),
               g \in FileInputs!WithBlocks(some, {FALSE}) : fs = <<f, g>>
      BY <2>3, <2>6
    <3>2. f \in FrameSet /\ g \in FrameSet
      BY <2>4
    <3> QED
      BY <3>1, <3>2
  <2> QED
    BY <2>5, <2>6
<1>11. \A fs : Ok(fs) => FileInputs!TotalSize(fs) \in Nat
  <2> SUFFICES ASSUME NEW fs \in Seq(FrameSet) PROVE FileInputs!TotalSize(fs) \in Nat
    OBVIOUS
  <2> DEFINE e == FrameEnds(fs)  l == Len(fs)
  <2>1. l \in Nat /\ e \in [0 .. l -> Nat] /\ e[l] = FileInputs!TotalSize(fs)
    BY FrameEndsAre
  <2> HIDE DEF e, l
  <2>2. l \in 0 .. l
    BY <2>1
  <2> QED
    BY <2>1, <2>2
<1> HIDE DEF Ok
<1>12. CASE d \in {FileInputs!Whole(frames) : frames \in FileInputs!OneFrame \cup FileInputs!TwoFrames}
  <2>1. PICK fs \in FileInputs!OneFrame \cup FileInputs!TwoFrames : d = FileInputs!Whole(fs)
    BY <1>12
  <2> DEFINE t == FileInputs!TotalSize(fs)
  <2>2. d.frames = fs /\ d.size = t /\ d.complete = TRUE
    BY <2>1 DEF FileInputs!Whole
  <2>3. Ok(fs) /\ t \in Nat
    BY <1>10, <1>11
  <2>4. d.size <= t
    <3> HIDE DEF t
    <3> QED
      BY <2>2, <2>3
  <2> QED
    BY <2>2, <2>3, <2>4 DEF IsArchive, Ok
<1>13. CASE d \in UNION {FileInputs!CutShort(FileInputs!Whole(frames)) : frames \in FileInputs!OneFrame}
  <2>1. PICK fs \in FileInputs!OneFrame : d \in FileInputs!CutShort(FileInputs!Whole(fs))
    BY <1>13
  <2> DEFINE w == FileInputs!Whole(fs)  t == FileInputs!TotalSize(fs)
  <2>2. PICK n \in 0 .. w.size - 1 : d = [w EXCEPT !.size = n, !.complete = FALSE]
    BY <2>1 DEF FileInputs!CutShort
  <2>3. w = [frames |-> fs, size |-> t, complete |-> TRUE]
    BY DEF FileInputs!Whole
  <2>4. w.size = t
    BY <2>3
  <2>5. d.frames = fs /\ d.size = n /\ d.complete = FALSE
    BY <2>2, <2>3
  <2>6. Ok(fs) /\ t \in Nat
    BY <1>10, <1>11
  <2>7. n \in Nat /\ n <= t
    <3> DEFINE k == w.size
    <3>1. n \in 0 .. k - 1 /\ k = t
      BY <2>4
    <3> HIDE DEF k, t
    <3> QED
      BY <2>6, <3>1
  <2> QED
    BY <2>5, <2>6, <2>7 DEF IsArchive, Ok
<1> QED
  BY <1>12, <1>13 DEF FileInputs!AllFiles

ZstdInv == kind = "zstd" => ZInv

\* The archives of the run, through buffers of any sizes: what arrived whole is
\* decompressed unless the disk fails (codemagic_patch_decompress_zstd_file).
THEOREM CompleteFilesDecompress ==
    ASSUME Zstd!SizesAssumption
    PROVE  Spec => []CompleteFileDecompresses
<1>1. Init => ZstdInv
  <2> SUFFICES ASSUME Init, kind = "zstd" PROVE ZInv
    BY DEF ZstdInv
  <2>1. input \in FileInputs!AllFiles /\ Zstd!Init
    BY DEF Init
  <2>2. IsArchive(input)
    BY <2>1, ArchivesAre
  <2> QED
    BY <2>1, <2>2, ZInvInit
<1>2. ZstdInv /\ [Next]_vars => ZstdInv'
  <2> SUFFICES ASSUME ZstdInv, [Next]_vars, kind' = "zstd" PROVE ZInv'
    BY DEF ZstdInv
  <2>1. kind = "zstd" /\ [Zstd!Next]_(Zstd!vars)
    BY DEF Next, vars, Zstd!vars
  <2>2. ZInv
    BY <2>1 DEF ZstdInv
  <2> QED
    BY <2>1, <2>2, ZInvNext
<1>3. ZstdInv => CompleteFileDecompresses
  BY DEF ZstdInv, ZInv, CompleteFileDecompresses, Zstd!CompleteFileDecompresses
<1> QED
  BY <1>1, <1>2, <1>3, PTL DEF Spec

-----------------------------------------------------------------------------
(* The abstract decoder                                                     *)

\* A step of a decoder that extends what there is, or answers.
LEMMA StepRebuilds ==
    ASSUME NEW S, Wanted \in Seq(S), Wanted' = Wanted, Rebuilt \in Seq(S), Rebuilt' \in Seq(S),
           Answer \in {"running", "ok", "failed"}, Answer' \in {"running", "ok", "failed"},
           Len(Rebuilt) <= Len(Rebuilt'), Len(Rebuilt') <= Len(Wanted),
           \A i \in 1 .. Len(Rebuilt') : Rebuilt'[i] = Wanted[i],
           Answer = "running" \/ (Rebuilt' = Rebuilt /\ Answer' = Answer),
           Answer = "running" /\ Answer' = "ok" => Len(Rebuilt') = Len(Wanted)
    PROVE  [Rebuilds!Next]_(Rebuilds!vars)
<1> DEFINE t == Wanted  u == Rebuilt  v == Rebuilt'  n == Len(v)
<1>1. Len(t) \in Nat /\ Len(u) \in Nat /\ n \in Nat
  BY LenProperties
<1>2. v = SubSeq(t, 1, n)
  <2> HIDE DEF t, u, v
  <2>1. v \in Seq(S) /\ t \in Seq(S) /\ n <= Len(t) /\ \A i \in 1 .. n : v[i] = t[i]
    BY DEF t, v
  <2>0. n = Len(v)
    OBVIOUS
  <2> HIDE DEF n
  <2> DEFINE w == SubSeq(t, 0 + 1, 0 + n)
  <2>2. 0 \in Nat /\ 0 + n <= Len(t)
    BY <1>1, <2>1
  <2>3. w = SubSeq(t, 0 + 1, 0 + n)
    OBVIOUS
  <2> HIDE DEF w
  <2>4. w \in Seq(S) /\ Len(w) = n /\ \A i \in 1 .. n : w[i] = t[0 + i]
    BY <1>1, <2>1, <2>2, <2>3, Window
  <2>5. w = v
    <3>0. \A i \in 1 .. n : 0 + i = i
      BY <1>1
    <3>1. \A i \in 1 .. n : w[i] = v[i]
      BY <2>1, <2>4, <3>0
    <3>2. Len(w) = Len(v)
      BY <2>0, <2>4
    <3>3. \A i \in 1 .. Len(w) : w[i] = v[i]
      BY <2>4, <3>1
    <3> QED
      BY <2>1, <2>4, <3>2, <3>3, SeqEqual
  <2> QED
    BY <1>1, <2>3, <2>5
<1>3. n \in Len(u) .. Len(t)
  BY <1>1
<1>4. Rebuilds!Extends
  <2> HIDE DEF n
  <2> QED
    BY <1>2, <1>3 DEF Rebuilds!Extends
<1>5. n = Len(t) => v = t
  BY SeqEqual
<1> HIDE DEF t, u, v, n
<1>6. CASE Answer # "running"
  BY <1>6 DEF Rebuilds!vars
<1>7. CASE Answer = "running" /\ Answer' = "running"
  BY <1>4, <1>7 DEF Rebuilds!Next, Rebuilds!Write
<1>8. CASE Answer = "running" /\ Answer' = "ok"
  BY <1>4, <1>5, <1>8 DEF Rebuilds!Next, Rebuilds!Succeed, t, v, n
<1>9. CASE Answer = "running" /\ Answer' = "failed"
  BY <1>4, <1>9 DEF Rebuilds!Next, Rebuilds!Fail
<1> QED
  BY <1>6, <1>7, <1>8, <1>9

\* What is out of a bundle is its beginning; "ok" is answered when all of it is.
LEMMA TarStepRebuilds ==
    ASSUME kind = "tar", kind' = "tar", TInv, TInv', [Tar!Next]_(Tar!vars)
    PROVE  [Rebuilds!Next]_(Rebuilds!vars)
<1>1. /\ Wanted = input /\ Wanted' = input' /\ Rebuilt = out /\ Rebuilt' = out'
      /\ Answer = result /\ Answer' = result'
  BY DEF Wanted, Rebuilt, Answer
<1>2. UNCHANGED input /\ (out' = out \/ \E x : out' = Append(out, x))
      /\ (pc = "end" => UNCHANGED <<out, result>>)
  BY DEF Tar!Next, Tar!vars, Tar!ReadHeader, Tar!ReadLongName, Tar!OpenEntry, Tar!CopyChunk,
     Tar!CloseEntry, Tar!WalkTree, Tar!IoFails, Tar!Fail
<1>3. /\ input \in Seq(File) /\ Len(input) \in Nat
      /\ out \in Seq(File) /\ Len(out) \in Nat /\ Len(out) <= Len(input)
      /\ out' \in Seq(File) /\ Len(out') \in Nat /\ Len(out') <= Len(input)
      /\ \A i \in 1 .. Len(out') : out'[i] = input[i]
  BY <1>2, BundleType, LenProperties DEF TInv, TarInput, TarOut
<1>4. Len(out) <= Len(out')
  <2>1. CASE out' = out
    BY <1>3, <2>1
  <2>2. CASE \E x : out' = Append(out, x)
    BY <1>3, <2>2
  <2> QED
    BY <1>2, <2>1, <2>2
<1>5. /\ result \in {"running", "ok", "failed"} /\ result' \in {"running", "ok", "failed"}
      /\ pc # "end" => result = "running"
      /\ result' = "ok" => ~ More'
  BY DEF TInv, TarPlace, AtEnd
<1>6. result' = "ok" => Len(out') = Len(input)
  BY <1>2, <1>3, <1>5 DEF More
<1>7. result = "running" \/ (out' = out /\ result' = result)
  BY <1>2, <1>5
<1> QED
  BY <1>1, <1>2, <1>3, <1>4, <1>5, <1>6, <1>7, StepRebuilds

\* A directory is taken over whole or not at all (Dir!DirectoryRebuilds).
LEMMA DirStepRebuilds ==
    ASSUME kind = "dir", kind' = "dir", Dir!WInv, Dir!WInv', [Dir!Next]_(Dir!vars)
    PROVE  [Rebuilds!Next]_(Rebuilds!vars)
<1>1. [Dir!Rebuilds!Next]_(Dir!Rebuilds!vars)
  BY Dir!StepRebuilds
<1>2. /\ Wanted = Dir!Target(input) /\ Wanted' = Dir!Target(input)'
      /\ Rebuilt = (IF result = "ok" THEN out ELSE <<>>)
      /\ Rebuilt' = (IF result' = "ok" THEN out' ELSE <<>>)
      /\ Answer = result /\ Answer' = result'
  BY DEF Wanted, Rebuilt, Answer
<1> QED
  BY <1>1, <1>2
     DEF Dir!Rebuilds!Next, Dir!Rebuilds!Write, Dir!Rebuilds!Succeed, Dir!Rebuilds!Fail,
         Dir!Rebuilds!Extends, Dir!Rebuilds!vars,
         Rebuilds!Next, Rebuilds!Write, Rebuilds!Succeed, Rebuilds!Fail, Rebuilds!Extends,
         Rebuilds!vars

JobsInv == DirInv /\ TarInv

\* Extracting a bundle and making a directory from a diff are decoders as Rebuild has
\* it: what they have written is a beginning of what is wanted (a directory is taken
\* over whole or not at all), "ok" is answered only over all of it, and only once.
THEOREM JobsRebuild ==
    ASSUME Dir!LimitAssumption, Tar!ProfileAssumption
    PROVE  Spec /\ kind \in {"dir", "tar"} => Rebuilds!Init /\ [][Rebuilds!Next]_(Rebuilds!vars)
<1> DEFINE K == kind \in {"dir", "tar"}
<1>1. Init /\ K => Rebuilds!Init
  BY DEF Init, Dir!Init, Tar!Init, Rebuilds!Init, Rebuilt, Answer
<1>2. K /\ [Next]_vars => K'
  BY DEF Next, vars
<1>3. K /\ JobsInv /\ JobsInv' /\ [Next]_vars => [Rebuilds!Next]_(Rebuilds!vars)
  <2> SUFFICES ASSUME K, JobsInv, JobsInv', [Next]_vars PROVE [Rebuilds!Next]_(Rebuilds!vars)
    OBVIOUS
  <2>1. kind' = kind
    BY DEF Next, vars
  <2>2. CASE kind = "dir"
    <3>1. [Dir!Next]_(Dir!vars)
      BY <2>2 DEF Next, vars, Dir!vars
    <3> QED
      BY <2>1, <2>2, <3>1, DirStepRebuilds DEF JobsInv, DirInv
  <2>3. CASE kind = "tar"
    <3>1. [Tar!Next]_(Tar!vars)
      BY <2>3 DEF Next, vars, Tar!vars
    <3> QED
      BY <2>1, <2>3, <3>1, TarStepRebuilds DEF JobsInv, TarInv
  <2> QED
    BY <2>2, <2>3
<1>4. Spec => []DirInv
  BY DirHolds, Dir!LimitAssumption
<1>5. Spec => []TarInv
  BY TarHolds, Tar!ProfileAssumption
<1>6. DirInv /\ TarInv => JobsInv
  BY DEF JobsInv
<1> QED
  BY <1>1, <1>2, <1>3, <1>4, <1>5, <1>6, PTL DEF Spec
===============================================================================
