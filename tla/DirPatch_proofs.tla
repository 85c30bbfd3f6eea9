---------------------------- MODULE DirPatch_proofs ----------------------------
(***************************************************************************)
(* Theorems about DirPatch for every directory, every way the decoder cuts *)
(* the streams and every limit of open files: "ok" is answered over the    *)
(* whole new directory only, and the old files are read as one stream.     *)
(***************************************************************************)
EXTENDS DirPatch, TLAPS, FiniteSetTheorems, SequenceTheorems, WellFoundedInduction

CONSTANT Data   \* the bytes of the files

Bytes == Data \cup {Wrong}

-----------------------------------------------------------------------------
(* numbers                                                                  *)

LEMMA LeastOf ==
    ASSUME NEW S, S \subseteq Nat, S # {}
    PROVE  \E m \in S : \A k \in S : m <= k
<1>1. PICK m \in S : \A k \in S : ~ (<<k, m>> \in OpToRel(<, Nat))
  BY NatLessThanWellFounded, WFMin
<1> SUFFICES ASSUME NEW k \in S PROVE m <= k
  BY <1>1
<1>2. ~ (k < m)
  BY <1>1 DEF OpToRel
<1> QED
  BY <1>2

\* Induction over 0 .. n, for the set of the numbers a statement is true of.
LEMMA Reaches ==
    ASSUME NEW n \in Nat, NEW G, 0 \in G, \A k \in 0 .. n - 1 : k \in G => k + 1 \in G
    PROVE  \A k \in 0 .. n : k \in G
<1> DEFINE B == {k \in 0 .. n : k \notin G}
<1> SUFFICES ASSUME B # {} PROVE FALSE
  OBVIOUS
<1>1. PICK m \in B : \A k \in B : m <= k
  <2>1. B \subseteq Nat
    OBVIOUS
  <2> HIDE DEF B
  <2> QED
    BY <2>1, LeastOf
<1>2. m \in 0 .. n /\ m \notin G /\ m # 0
  BY <1>1
<1>3. m - 1 \in 0 .. n - 1 /\ m - 1 \notin B
  BY <1>1, <1>2
<1>4. m - 1 \in G
  BY <1>2, <1>3
<1> QED
  BY <1>2, <1>3, <1>4

-----------------------------------------------------------------------------
(* sequences                                                                *)

LEMMA Cat ==
    ASSUME NEW S, NEW a \in Seq(S), NEW b \in Seq(S)
    PROVE  /\ a \o b \in Seq(S)
           /\ Len(a) \in Nat /\ Len(b) \in Nat
           /\ Len(a \o b) = Len(a) + Len(b)
           /\ \A i \in 1 .. Len(a) : (a \o b)[i] = a[i]
           /\ \A i \in 1 .. Len(b) : (a \o b)[Len(a) + i] = b[i]
<1>1. Len(a) \in Nat /\ Len(b) \in Nat
  BY LenProperties
<1>2. \A i \in 1 .. Len(a) + Len(b) :
         (a \o b)[i] = IF i <= Len(a) THEN a[i] ELSE b[i - Len(a)]
  BY ConcatProperties
<1>3. \A i \in 1 .. Len(a) : i \in 1 .. Len(a) + Len(b) /\ i <= Len(a)
  BY <1>1
<1>4. \A i \in 1 .. Len(b) : /\ Len(a) + i \in 1 .. Len(a) + Len(b)
                              /\ ~ (Len(a) + i <= Len(a)) /\ (Len(a) + i) - Len(a) = i
  BY <1>1
<1> QED
  BY <1>1, <1>2, <1>3, <1>4, ConcatProperties

LEMMA CatTwice ==
    ASSUME NEW S, NEW a \in Seq(S), NEW b \in Seq(S), NEW c \in Seq(S),
           NEW bc, bc = b \o c, NEW ab, ab = a \o b, NEW abc, abc = a \o bc
    PROVE  abc = ab \o c
BY ConcatAssociative

-----------------------------------------------------------------------------
(* FlattenSeq                                                               *)

\* What the recursive function of FlattenSeq is, up to the n-th sequence.
Joined(f, s, n) == f = [i \in 1 .. n |-> IF i = 1 THEN s[i] ELSE f[i - 1] \o s[i]]

LEMMA JoinedAt ==
    ASSUME NEW f, NEW s, NEW n, Joined(f, s, n), NEW i \in 1 .. n
    PROVE  f[i] = IF i = 1 THEN s[i] ELSE f[i - 1] \o s[i]
<1> DEFINE h(j) == IF j = 1 THEN s[j] ELSE f[j - 1] \o s[j]
<1>1. f = [j \in 1 .. n |-> h(j)]
  BY DEF Joined
<1> HIDE DEF h
<1>2. f[i] = h(i)
  BY <1>1
<1> QED
  BY <1>2 DEF h

LEMMA JoinedExists ==
    ASSUME NEW s, NEW n \in Nat
    PROVE  \E f : Joined(f, s, n)
<1> DEFINE B == {k \in Nat : ~ \E f : Joined(f, s, k)}
<1> SUFFICES B = {}
  OBVIOUS
<1> SUFFICES ASSUME B # {} PROVE FALSE
  OBVIOUS
<1>1. PICK m \in B : \A k \in B : m <= k
  <2>1. B \subseteq Nat
    OBVIOUS
  <2> HIDE DEF B
  <2> QED
    BY <2>1, LeastOf
<1>2. m # 0
  <2> Joined([i \in 1 .. 0 |-> <<>>], s, 0)
    BY DEF Joined
  <2> QED
    BY <1>1
<1>3. PICK f : Joined(f, s, m - 1)
  BY <1>1, <1>2
<1> DEFINE g == [i \in 1 .. m |-> IF i = m THEN (IF m = 1 THEN s[m] ELSE f[m - 1] \o s[m])
                                  ELSE f[i]]
<1>4. \A i \in 1 .. m : g[i] = IF i = 1 THEN s[i] ELSE g[i - 1] \o s[i]
  <2> SUFFICES ASSUME NEW i \in 1 .. m PROVE g[i] = IF i = 1 THEN s[i] ELSE g[i - 1] \o s[i]
    OBVIOUS
  <2>1. CASE i = m
    BY <1>1, <1>2, <2>1
  <2>2. CASE i # m
    <3>1. m \in Nat /\ i \in 1 .. m - 1 /\ (i # 1 => i - 1 \in 1 .. m - 1)
      BY <1>1, <2>2
    <3>2. g[i] = f[i] /\ (i # 1 => g[i - 1] = f[i - 1])
      BY <2>2, <3>1
    <3>3. f[i] = IF i = 1 THEN s[i] ELSE f[i - 1] \o s[i]
      BY <1>3, <3>1, JoinedAt
    <3> QED
      BY <3>2, <3>3
  <2> QED
    BY <2>1, <2>2
<1>5. Joined(g, s, m)
  BY <1>4 DEF Joined
<1> QED
  BY <1>1, <1>5

LEMMA JoinedUnique ==
    ASSUME NEW s, NEW t, NEW n \in Nat, NEW m \in Nat, n <= m,
           \A i \in 1 .. n : s[i] = t[i],
           NEW f, Joined(f, s, n), NEW g, Joined(g, t, m)
    PROVE  \A i \in 1 .. n : f[i] = g[i]
<1> DEFINE B == {k \in 1 .. n : f[k] # g[k]}
<1> SUFFICES ASSUME B # {} PROVE FALSE
  OBVIOUS
<1>1. PICK k \in B : \A j \in B : k <= j
  <2>1. B \subseteq Nat
    OBVIOUS
  <2> HIDE DEF B
  <2> QED
    BY <2>1, LeastOf
<1>2. /\ f[k] = IF k = 1 THEN s[k] ELSE f[k - 1] \o s[k]
      /\ g[k] = IF k = 1 THEN t[k] ELSE g[k - 1] \o t[k]
  BY <1>1, JoinedAt
<1>3. k # 1 => f[k - 1] = g[k - 1]
  BY <1>1
<1> QED
  BY <1>1, <1>2, <1>3

LEMMA FlattenJoined ==
    ASSUME NEW S, NEW s \in Seq(S), s # <<>>
    PROVE  \E f : Joined(f, s, Len(s)) /\ FlattenSeq(s) = f[Len(s)]
<1> DEFINE f == CHOOSE f : f = [i \in 1 .. Len(s) |-> IF i = 1 THEN s[i] ELSE f[i - 1] \o s[i]]
<1>1. Joined(f, s, Len(s))
  <2>1. \E h : h = [i \in 1 .. Len(s) |-> IF i = 1 THEN s[i] ELSE h[i - 1] \o s[i]]
    <3>1. PICK h : Joined(h, s, Len(s))
      BY JoinedExists, LenProperties
    <3> WITNESS h
    <3> QED
      BY <3>1 DEF Joined
  <2> QED
    BY <2>1 DEF Joined
<1>2. FlattenSeq(s) = f[Len(s)]
  BY EmptySeq DEF FlattenSeq
<1> QED
  BY <1>1, <1>2

LEMMA FlattenEmpty == FlattenSeq(<<>>) = <<>>
BY DEF FlattenSeq

LEMMA FlattenAppend ==
    ASSUME NEW S, NEW s \in Seq(Seq(S)), NEW x \in Seq(S)
    PROVE  FlattenSeq(Append(s, x)) = FlattenSeq(s) \o x
<1> DEFINE t == Append(s, x)  n == Len(s)
<1>1. /\ t \in Seq(Seq(S)) /\ t # <<>> /\ Len(t) = n + 1
      /\ \A i \in 1 .. n : s[i] = t[i]
      /\ t[n + 1] = x /\ n \in Nat
  BY AppendProperties, LenProperties
<1> HIDE DEF t
<1>2. PICK g : Joined(g, t, n + 1) /\ FlattenSeq(t) = g[n + 1]
  BY <1>1, FlattenJoined
<1>3. g[n + 1] = IF n = 0 THEN x ELSE g[n] \o x
  BY <1>1, <1>2, JoinedAt
<1>4. CASE s = <<>>
  BY <1>2, <1>3, <1>4, FlattenEmpty, EmptySeq, ConcatEmptySeq DEF t
<1>5. CASE s # <<>>
  <2>1. PICK f : Joined(f, s, n) /\ FlattenSeq(s) = f[n]
    BY <1>5, FlattenJoined
  <2>2. n # 0
    BY <1>5, EmptySeq
  <2>3. f[n] = g[n]
    <3>1. \A i \in 1 .. n : f[i] = g[i]
      <4> DEFINE m == n + 1
      <4>1. n \in Nat /\ m \in Nat /\ n <= m
        BY <1>1
      <4>2. Joined(f, s, n) /\ Joined(g, t, m) /\ \A i \in 1 .. n : s[i] = t[i]
        BY <1>1, <1>2, <2>1
      <4> HIDE DEF n, m
      <4> QED
        BY <4>1, <4>2, JoinedUnique
    <3> QED
      BY <1>1, <2>2, <3>1
  <2> QED
    BY <1>2, <1>3, <2>1, <2>2, <2>3 DEF t
<1> QED
  BY <1>4, <1>5

\* The first k sequences, one after the other: DirPatch's ends of ranges are its lengths.
Upto(s, k) == FlattenSeq(SubSeq(s, 1, k))

LEMMA UptoZero ==
    ASSUME NEW s
    PROVE  Upto(s, 0) = <<>>
<1>1. SubSeq(s, 1, 0) = <<>>
  BY SubSeqEmpty
<1> QED
  BY <1>1, FlattenEmpty DEF Upto

LEMMA UptoFull ==
    ASSUME NEW S, NEW s \in Seq(S)
    PROVE  Upto(s, Len(s)) = FlattenSeq(s)
BY SubSeqFull DEF Upto

LEMMA UptoAppended ==
    ASSUME NEW S, NEW s \in Seq(Seq(S)), NEW k \in 1 .. Len(s)
    PROVE  Upto(s, k) = Upto(s, k - 1) \o s[k]
<1>1. s[k] \in Seq(S) /\ k \in Int /\ k - 1 \in Int /\ k \in Nat /\ Len(s) \in Nat
  BY ElementOfSeq, LenProperties
<1>2. SubSeq(s, 1, k - 1) \in Seq(Seq(S))
  BY <1>1, ElementOfSeq, SubSeqProperties
<1>3. SubSeq(s, 1, k) = SubSeq(s, 1, k - 1) \o <<s[k]>>
  BY <1>1, SubSeqRecursiveSecond
<1>4. SubSeq(s, 1, k) = Append(SubSeq(s, 1, k - 1), s[k])
  BY <1>1, <1>2, <1>3, AppendIsConcat
<1> QED
  BY <1>1, <1>2, <1>4, FlattenAppend DEF Upto

LEMMA UptoType ==
    ASSUME NEW S, NEW s \in Seq(Seq(S))
    PROVE  \A k \in 0 .. Len(s) : Upto(s, k) \in Seq(S)
<1> DEFINE G == {k \in 0 .. Len(s) : Upto(s, k) \in Seq(S)}  n == Len(s)
<1>1. n \in Nat
  BY LenProperties
<1>2. 0 \in G
  <2>1. 0 \in 0 .. Len(s)
    BY <1>1
  <2>2. Upto(s, 0) \in Seq(S)
    BY UptoZero, EmptySeq
  <2> QED
    BY <2>1, <2>2
<1>3. \A k \in 0 .. n - 1 : k \in G => k + 1 \in G
  <2> SUFFICES ASSUME NEW k \in 0 .. n - 1, k \in G PROVE k + 1 \in G
    OBVIOUS
  <2>1. k + 1 \in 1 .. Len(s) /\ (k + 1) - 1 = k
    BY <1>1
  <2>2. Upto(s, k + 1) = Upto(s, k) \o s[k + 1]
    BY <2>1, UptoAppended
  <2>3. s[k + 1] \in Seq(S)
    BY <2>1, ElementOfSeq
  <2> QED
    <3>1. Upto(s, k) \in Seq(S)
      OBVIOUS
    <3>2. Upto(s, k) \o s[k + 1] \in Seq(S)
      BY <2>3, <3>1, Cat
    <3>3. Upto(s, k + 1) \in Seq(S)
      BY <2>2, <3>2
    <3>4. k + 1 \in 0 .. Len(s)
      BY <1>1
    <3> QED
      BY <3>3, <3>4
<1>4. \A k \in 0 .. n : k \in G
  <2> HIDE DEF G, n
  <2> QED
    BY <1>1, <1>2, <1>3, Reaches
<1> QED
  BY <1>4

LEMMA FlattenType ==
    ASSUME NEW S, NEW s \in Seq(Seq(S))
    PROVE  FlattenSeq(s) \in Seq(S)
BY UptoType, UptoFull, LenProperties

\* What comes first stays where it is, whatever follows.
LEMMA UptoBegins ==
    ASSUME NEW S, NEW s \in Seq(Seq(S)), NEW j \in 0 .. Len(s)
    PROVE  \A k \in j .. Len(s) :
              /\ Len(Upto(s, j)) <= Len(Upto(s, k))
              /\ \A i \in 1 .. Len(Upto(s, j)) : Upto(s, k)[i] = Upto(s, j)[i]
<1> DEFINE P(k) == /\ Len(Upto(s, j)) <= Len(Upto(s, k))
                   /\ \A i \in 1 .. Len(Upto(s, j)) : Upto(s, k)[i] = Upto(s, j)[i]
           n == Len(s) - j
           G == {d \in 0 .. n : P(j + d)}
<1>1. Len(s) \in Nat /\ n \in Nat /\ j \in Nat
  BY LenProperties
<1>2. Upto(s, j) \in Seq(S) /\ Len(Upto(s, j)) \in Nat
  BY UptoType, LenProperties
<1>3. 0 \in G
  BY <1>1, <1>2
<1>4. \A d \in 0 .. n - 1 : d \in G => d + 1 \in G
  <2> SUFFICES ASSUME NEW d \in 0 .. n - 1, P(j + d) PROVE P(j + d + 1)
    BY <1>1
  <2> DEFINE k == j + d
  <2>1. k + 1 \in 1 .. Len(s) /\ (k + 1) - 1 = k /\ k \in 0 .. Len(s)
    BY <1>1
  <2>2. Upto(s, k + 1) = Upto(s, k) \o s[k + 1]
    BY <2>1, UptoAppended
  <2>3. s[k + 1] \in Seq(S) /\ Upto(s, k) \in Seq(S)
    BY <2>1, ElementOfSeq, UptoType
  <2>4. /\ Len(s[k + 1]) \in Nat /\ Len(Upto(s, k)) \in Nat
        /\ Len(Upto(s, k + 1)) = Len(Upto(s, k)) + Len(s[k + 1])
        /\ \A i \in 1 .. Len(Upto(s, k)) : Upto(s, k + 1)[i] = Upto(s, k)[i]
    <3> DEFINE a == Upto(s, k)  b == s[k + 1]
    <3>1. a \in Seq(S) /\ b \in Seq(S) /\ Upto(s, k + 1) = a \o b
      BY <2>2, <2>3
    <3> HIDE DEF a, b
    <3>2. /\ Len(a) \in Nat /\ Len(b) \in Nat /\ Len(a \o b) = Len(a) + Len(b)
          /\ \A i \in 1 .. Len(a) : (a \o b)[i] = a[i]
      BY <3>1, Cat
    <3> QED
      BY <3>1, <3>2 DEF a, b
  <2>5. P(k)
    OBVIOUS
  <2> HIDE DEF k
  <2>6. P(k + 1)
    BY <1>2, <2>4, <2>5
  <2> QED
    BY <2>6 DEF k
<1>5. \A d \in 0 .. n : d \in G
  <2> HIDE DEF G, n
  <2> QED
    BY <1>1, <1>3, <1>4, Reaches
<1> SUFFICES ASSUME NEW k \in j .. Len(s) PROVE P(k)
  OBVIOUS
<1>6. k - j \in 0 .. n /\ j + (k - j) = k
  BY <1>1
<1>7. P(j + (k - j))
  BY <1>5, <1>6
<1> QED
  BY <1>6, <1>7

\* Each sequence is found where it was put.
LEMMA UptoHolds ==
    ASSUME NEW S, NEW s \in Seq(Seq(S)), NEW k \in 1 .. Len(s)
    PROVE  /\ Len(Upto(s, k - 1)) \in Nat /\ Len(s[k]) \in Nat
           /\ Len(Upto(s, k)) = Len(Upto(s, k - 1)) + Len(s[k])
           /\ Len(Upto(s, k)) <= Len(FlattenSeq(s))
           /\ \A i \in 1 .. Len(s[k]) : FlattenSeq(s)[Len(Upto(s, k - 1)) + i] = s[k][i]
<1> DEFINE a == Upto(s, k - 1)  b == s[k]
<1>1. Len(s) \in Nat /\ k \in 0 .. Len(s) /\ k - 1 \in 0 .. Len(s) /\ Len(s) \in k .. Len(s)
  BY LenProperties
<1>2. Upto(s, k) = a \o b
  BY UptoAppended
<1>3. a \in Seq(S) /\ b \in Seq(S)
  BY <1>1, UptoType, ElementOfSeq
<1>4. /\ Len(Upto(s, k)) <= Len(FlattenSeq(s))
      /\ \A i \in 1 .. Len(Upto(s, k)) : FlattenSeq(s)[i] = Upto(s, k)[i]
  BY <1>1, UptoBegins, UptoFull
<1> HIDE DEF a, b
<1>5. /\ Len(a) \in Nat /\ Len(b) \in Nat
      /\ Len(Upto(s, k)) = Len(a) + Len(b)
      /\ \A i \in 1 .. Len(b) : Upto(s, k)[Len(a) + i] = b[i]
  BY <1>2, <1>3, Cat
<1>6. \A i \in 1 .. Len(b) : Len(a) + i \in 1 .. Len(Upto(s, k))
  BY <1>5
<1>7. \A i \in 1 .. Len(b) : FlattenSeq(s)[Len(a) + i] = b[i]
  BY <1>4, <1>5, <1>6
<1> QED
  BY <1>4, <1>5, <1>7 DEF a, b

\* Sequences of the same lengths are one after the other as long.
SameLengths(s, t, n) == \A i \in 1 .. n : Len(s[i]) = Len(t[i])

LEMMA UptoLength ==
    ASSUME NEW S, NEW s \in Seq(Seq(S)), NEW t \in Seq(Seq(S)),
           NEW n \in Nat, n <= Len(s), n <= Len(t), SameLengths(s, t, n)
    PROVE  \A k \in 0 .. n : Len(Upto(s, k)) = Len(Upto(t, k))
<1> DEFINE P(k) == Len(Upto(s, k)) = Len(Upto(t, k))
           G == {k \in 0 .. n : P(k)}
<1>1. 0 \in G
  BY UptoZero
<1>2. \A k \in 0 .. n - 1 : k \in G => k + 1 \in G
  <2> SUFFICES ASSUME NEW k \in 0 .. n - 1, P(k) PROVE P(k + 1)
    OBVIOUS
  <2> DEFINE l == k + 1
  <2>1. l \in 1 .. Len(s) /\ l \in 1 .. Len(t) /\ l - 1 = k /\ Len(s[l]) = Len(t[l])
    BY LenProperties DEF SameLengths
  <2> HIDE DEF l
  <2>2. /\ Len(Upto(s, l)) = Len(Upto(s, k)) + Len(s[l])
        /\ Len(Upto(t, l)) = Len(Upto(t, k)) + Len(t[l])
    BY <2>1, UptoHolds
  <2>3. P(l)
    BY <2>1, <2>2
  <2> QED
    BY <2>3 DEF l
<1>3. \A k \in 0 .. n : k \in G
  <2> HIDE DEF G
  <2> QED
    BY <1>1, <1>2, Reaches
<1> QED
  BY <1>3

\* A sequence is cut in one way only into parts of given lengths.
LEMMA CutsOnce ==
    ASSUME NEW S, NEW s \in Seq(Seq(S)), NEW t \in Seq(Seq(S)), NEW x \in Seq(S),
           Len(s) = Len(t), SameLengths(s, t, Len(s)),
           FlattenSeq(s) \o x = FlattenSeq(t)
    PROVE  s = t /\ x = <<>>
<1> DEFINE n == Len(s)  F == FlattenSeq(s)
<1>1. n \in Nat /\ n = Len(t) /\ n <= Len(s) /\ n <= Len(t)
  BY LenProperties
<1>2. F \in Seq(S) /\ Len(F) \in Nat /\ Len(x) \in Nat
  BY FlattenType, LenProperties
<1>3. \A k \in 0 .. n : Len(Upto(s, k)) = Len(Upto(t, k))
  BY <1>1, UptoLength
<1>4. Len(F) = Len(FlattenSeq(t))
  BY <1>1, <1>3, UptoFull
<1>5. Len(F \o x) = Len(F) + Len(x)
  <2> HIDE DEF F
  <2> QED
    BY <1>2, Cat
<1>6. Len(x) = 0 /\ x = <<>>
  BY <1>2, <1>4, <1>5, EmptySeq
<1>7. F = FlattenSeq(t)
  <2> HIDE DEF F
  <2>1. F \o <<>> = F
    BY <1>2, ConcatEmptySeq
  <2> QED
    BY <1>6, <2>1 DEF F
<1>8. \A k \in 1 .. n : s[k] = t[k]
  <2> SUFFICES ASSUME NEW k \in 1 .. n PROVE s[k] = t[k]
    OBVIOUS
  <2> DEFINE a == Len(Upto(s, k - 1))
  <2>1. s[k] \in Seq(S) /\ t[k] \in Seq(S) /\ Len(s[k]) = Len(t[k])
    BY <1>1, ElementOfSeq DEF SameLengths
  <2>2. a = Len(Upto(t, k - 1))
    BY <1>1, <1>3
  <2>3. \A i \in 1 .. Len(s[k]) : F[a + i] = s[k][i]
    BY UptoHolds
  <2>4. \A i \in 1 .. Len(t[k]) : FlattenSeq(t)[Len(Upto(t, k - 1)) + i] = t[k][i]
    <3> k \in 1 .. Len(t)
      BY <1>1
    <3> QED
      BY UptoHolds
  <2>5. \A i \in 1 .. Len(s[k]) : s[k][i] = t[k][i]
    BY <1>7, <2>1, <2>2, <2>3, <2>4
  <2> QED
    BY <2>1, <2>5, SeqEqual
<1>9. s = t
  BY <1>1, <1>8, SeqEqual
<1> QED
  BY <1>6, <1>9

\* f and g are the same but for what they end with, x and y.
Differ(f, x, g, y, S) == \E a \in Seq(S) : f = a \o x /\ g = a \o y

\* Sequences that differ in the last part, the n-th, only.
SameButLast(s, t, n, S) ==
    /\ {s, t} \subseteq Seq(Seq(S)) /\ n \in Nat \ {0}
    /\ Len(s) = n /\ Len(t) = n
    /\ \A i \in 1 .. n - 1 : s[i] = t[i]

LEMMA FlattenLast ==
    ASSUME NEW S, NEW s, NEW t, NEW n, SameButLast(s, t, n, S)
    PROVE  Differ(FlattenSeq(s), s[n], FlattenSeq(t), t[n], S)
<1> DEFINE a == Upto(s, n - 1)
<1> /\ s \in Seq(Seq(S)) /\ t \in Seq(Seq(S))
    /\ n \in Nat \ {0} /\ Len(s) = n /\ Len(t) = n
    /\ \A i \in 1 .. n - 1 : s[i] = t[i]
  BY DEF SameButLast
<1>1. n \in 1 .. Len(s) /\ n \in 1 .. Len(t) /\ n - 1 \in 0 .. Len(s) /\ n - 1 \in Int
      /\ n - 1 \in Nat
  OBVIOUS
<1>2. SubSeq(s, 1, n - 1) = SubSeq(t, 1, n - 1)
  <2>1. /\ SubSeq(s, 1, n - 1) \in Seq(Seq(S)) /\ Len(SubSeq(s, 1, n - 1)) = n - 1
        /\ \A i \in 1 .. n - 1 : SubSeq(s, 1, n - 1)[i] = s[i]
    BY <1>1, ElementOfSeq, SubSeqProperties
  <2>2. /\ SubSeq(t, 1, n - 1) \in Seq(Seq(S)) /\ Len(SubSeq(t, 1, n - 1)) = n - 1
        /\ \A i \in 1 .. n - 1 : SubSeq(t, 1, n - 1)[i] = t[i]
    BY <1>1, ElementOfSeq, SubSeqProperties
  <2>3. \A i \in 1 .. n - 1 : SubSeq(s, 1, n - 1)[i] = SubSeq(t, 1, n - 1)[i]
    BY <2>1, <2>2
  <2> QED
    BY <2>1, <2>2, <2>3, SeqEqual
<1>3. Upto(t, n) = a \o t[n] /\ Upto(s, n) = a \o s[n]
  <2>1. Upto(t, n) = Upto(t, n - 1) \o t[n]
    BY <1>1, UptoAppended
  <2>2. Upto(t, n - 1) = a
    BY <1>2 DEF Upto
  <2>3. Upto(s, n) = a \o s[n]
    BY <1>1, UptoAppended
  <2> QED
    BY <2>1, <2>2, <2>3
<1>4. FlattenSeq(t) = a \o t[n] /\ FlattenSeq(s) = a \o s[n]
  BY <1>3, UptoFull
<1> QED
  BY <1>1, <1>4, UptoType DEF Differ

\* The last part may grow: nothing follows it.
LEMMA Grows ==
    ASSUME NEW S, NEW x \in Seq(S), NEW y \in Seq(S), NEW z, z = x \o y, NEW f, NEW g,
           Differ(f, x, g, z, S)
    PROVE  g = f \o y
BY CatTwice DEF Differ

-----------------------------------------------------------------------------
(* the inputs                                                               *)

\* Directories and empty files hold nothing (hpatch_TNewStream_open).
Entry ==
    {e \in [kind : {"dir", "empty", "same", "ref"}, data : Seq(Data)] :
        e.kind \in {"dir", "empty"} => e.data = <<>>}

Patches == [old : Seq(Seq(Data)), paths : Seq(Entry)]

-----------------------------------------------------------------------------
(* the inductive invariant of the writing side                              *)

WriteType ==
    /\ patch \in Patches
    /\ pc \in {"ready", "patch", "read", "write", "end"}
    /\ path \in 1 .. Len(Paths) + 1
    /\ files \in Seq(Seq(Bytes))
    /\ new \in [end : Nat, pos : Nat, piece : Seq(Bytes), finished : BOOLEAN]
    /\ sums \in [ref : Seq(Bytes), copy : Seq(Bytes)]
    /\ result \in {"running", "ok", "failed"}
    /\ pc = "end" <=> result # "running"

\* What was made of the entries of a kind, as DirPatch's DataOf what they should hold.
Parts(kind) == [i \in DOMAIN files |-> OfKind(kind, i, files[i])]
Planned(kind) == [i \in DOMAIN Paths |-> OfKind(kind, i, Paths[i].data)]

\* A file is being written: it is the last, an entry of the new stream, and not full.
FileOpen ==
    /\ Len(files) = path /\ path <= Len(Paths)
    /\ Paths[path].kind = "ref"
    /\ new.pos < new.end
    /\ Len(files[path]) + (new.end - new.pos) = Len(Paths[path].data)

\* Every file made has the length of its entry, and the checksums have seen
\* what the files hold and the piece that is not yet written.
Lengths ==
    /\ Len(files) \in {path - 1, path}
    /\ \A i \in 1 .. path - 1 : Len(files[i]) = Len(Paths[i].data)
    /\ new.end = Len(Upto(Planned("ref"), Len(files)))
    /\ pc = "ready" => Len(files) = path - 1 /\ new.pos = new.end
    /\ pc # "ready" => FileOpen
    /\ pc \in {"patch", "read"} => new.piece = <<>>

Seen ==
    /\ sums.copy = FlattenSeq(Parts("same"))
    /\ sums.ref = FlattenSeq(Parts("ref")) \o new.piece

WInv ==
    /\ WriteType
    /\ pc # "end" /\ ~ new.finished => Lengths /\ Seen
    /\ pc # "end" /\ new.finished => pc # "ready" /\ files = Target(patch)
    /\ OkMeansWholeDirectory

-----------------------------------------------------------------------------
(* the types                                                                *)

LEMMA InputType ==
    ASSUME WriteType
    PROVE  /\ Paths \in Seq(Entry) /\ Len(Paths) \in Nat
           /\ \A i \in 1 .. Len(Paths) :
                 /\ Paths[i].kind \in {"dir", "empty", "same", "ref"}
                 /\ Paths[i].data \in Seq(Data) /\ Paths[i].data \in Seq(Bytes)
                 /\ Len(Paths[i].data) \in Nat
                 /\ Paths[i].kind \in {"dir", "empty"} => Paths[i].data = <<>>
<1>1. Paths \in Seq(Entry)
  BY DEF WriteType, Patches, Paths
<1>2. \A e \in Entry : /\ e.kind \in {"dir", "empty", "same", "ref"} /\ e.data \in Seq(Data)
                       /\ e.kind \in {"dir", "empty"} => e.data = <<>>
  BY DEF Entry
<1>3. \A d \in Seq(Data) : d \in Seq(Bytes) /\ Len(d) \in Nat
  BY SeqMonotonic, LenProperties DEF Bytes
<1>4. Len(Paths) \in Nat /\ \A i \in 1 .. Len(Paths) : Paths[i] \in Entry
  BY <1>1, LenProperties, ElementOfSeq
<1> QED
  BY <1>1, <1>2, <1>3, <1>4

LEMMA PartsType ==
    ASSUME WriteType, NEW kind
    PROVE  /\ Parts(kind) \in Seq(Seq(Bytes)) /\ Len(Parts(kind)) = Len(files)
           /\ \A i \in 1 .. Len(files) : Parts(kind)[i] = OfKind(kind, i, files[i])
           /\ Len(files) \in Nat
           /\ \A i \in 1 .. Len(files) : files[i] \in Seq(Bytes) /\ Len(files[i]) \in Nat
<1>1. files \in Seq(Seq(Bytes)) /\ Len(files) \in Nat /\ DOMAIN files = 1 .. Len(files)
  BY LenProperties DEF WriteType
<1>2. \A i \in 1 .. Len(files) : files[i] \in Seq(Bytes) /\ Len(files[i]) \in Nat
  BY <1>1, ElementOfSeq, LenProperties
<1>3. \A i \in 1 .. Len(files) : OfKind(kind, i, files[i]) \in Seq(Bytes)
  BY <1>2, EmptySeq DEF OfKind
<1>4. Parts(kind) = [i \in 1 .. Len(files) |-> OfKind(kind, i, files[i])]
  BY <1>1 DEF Parts
<1> QED
  BY <1>1, <1>2, <1>3, <1>4, IsASeq

LEMMA PlannedType ==
    ASSUME WriteType, NEW kind
    PROVE  /\ Planned(kind) \in Seq(Seq(Bytes)) /\ Len(Planned(kind)) = Len(Paths)
           /\ \A i \in 1 .. Len(Paths) : Planned(kind)[i] = OfKind(kind, i, Paths[i].data)
           /\ DataOf(kind) = FlattenSeq(Planned(kind))
           /\ DataOf(kind) \in Seq(Bytes)
<1>1. DOMAIN Paths = 1 .. Len(Paths)
  BY InputType, LenProperties
<1>2. \A i \in 1 .. Len(Paths) : OfKind(kind, i, Paths[i].data) \in Seq(Bytes)
  BY InputType, EmptySeq DEF OfKind
<1>3. Planned(kind) = [i \in 1 .. Len(Paths) |-> OfKind(kind, i, Paths[i].data)]
  BY <1>1 DEF Planned
<1>4. /\ Planned(kind) \in Seq(Seq(Bytes)) /\ Len(Planned(kind)) = Len(Paths)
      /\ \A i \in 1 .. Len(Paths) : Planned(kind)[i] = OfKind(kind, i, Paths[i].data)
  BY <1>2, <1>3, InputType, IsASeq
<1>5. DataOf(kind) = FlattenSeq(Planned(kind))
  BY DEF DataOf, Planned
<1> QED
  BY <1>4, <1>5, FlattenType

\* Data that is wrong everywhere is as long as what it stands for.
LEMMA AllWrong ==
    ASSUME NEW d \in Seq(Bytes)
    PROVE  [i \in DOMAIN d |-> Wrong] \in Seq(Bytes) /\ Len([i \in DOMAIN d |-> Wrong]) = Len(d)
<1>1. Len(d) \in Nat /\ DOMAIN d = 1 .. Len(d)
  BY LenProperties
<1>2. [i \in 1 .. Len(d) |-> Wrong] \in Seq(Bytes) /\ Len([i \in 1 .. Len(d) |-> Wrong]) = Len(d)
  BY <1>1, IsASeq DEF Bytes
<1> QED
  BY <1>1, <1>2

-----------------------------------------------------------------------------
(* the files, one after the other                                           *)

\* A new file adds its bytes to those of its kind.
LEMMA FileMade ==
    ASSUME WriteType, UNCHANGED patch, NEW data \in Seq(Bytes), files' = Append(files, data)
    PROVE  /\ \A kind : FlattenSeq(Parts(kind)')
                  = FlattenSeq(Parts(kind)) \o OfKind(kind, Len(files) + 1, data)
           /\ Len(files') = Len(files) + 1 /\ files' \in Seq(Seq(Bytes))
           /\ \A i \in 1 .. Len(files) : files'[i] = files[i]
           /\ files'[Len(files) + 1] = data
<1> DEFINE n == Len(files)
<1>1. files \in Seq(Seq(Bytes)) /\ n \in Nat
  BY LenProperties DEF WriteType
<1>2. /\ Len(files') = n + 1 /\ files'[n + 1] = data /\ files' \in Seq(Seq(Bytes))
      /\ \A i \in 1 .. n : files'[i] = files[i]
  BY <1>1, AppendProperties
<1>3. Paths' = Paths
  BY DEF Paths
<1>4. SUFFICES ASSUME NEW kind
               PROVE  FlattenSeq(Parts(kind)') = FlattenSeq(Parts(kind)) \o OfKind(kind, n + 1, data)
  BY <1>2
<1> DEFINE d == OfKind(kind, n + 1, data)
           e(i) == IF i <= n THEN Parts(kind)[i] ELSE d
<1>5. /\ Parts(kind) \in Seq(Seq(Bytes)) /\ Len(Parts(kind)) = n /\ d \in Seq(Bytes)
      /\ \A i \in 1 .. n : Parts(kind)[i] = OfKind(kind, i, files[i])
  BY PartsType, EmptySeq DEF OfKind
<1>6. Parts(kind)' = [i \in 1 .. n + 1 |-> e(i)]
  <2>1. DOMAIN files' = 1 .. n + 1
    BY <1>2, LenProperties
  <2>2. Parts(kind)' = [i \in 1 .. n + 1 |-> OfKind(kind, i, files'[i])]
    BY <1>3, <2>1 DEF Parts, OfKind
  <2>3. \A i \in 1 .. n + 1 : OfKind(kind, i, files'[i]) = e(i)
    <3> SUFFICES ASSUME NEW i \in 1 .. n + 1 PROVE OfKind(kind, i, files'[i]) = e(i)
      OBVIOUS
    <3>1. CASE i <= n
      BY <1>1, <1>2, <1>5, <3>1
    <3>2. CASE i = n + 1
      BY <1>1, <1>2, <3>2
    <3> QED
      BY <1>1, <3>1, <3>2
  <2> QED
    BY <2>2, <2>3
<1>7. Append(Parts(kind), d) = [i \in 1 .. n + 1 |-> e(i)]
  <2> DEFINE p == Parts(kind)
  <2> HIDE DEF d, p
  <2>1. /\ Append(p, d) \in Seq(Seq(Bytes)) /\ Len(Append(p, d)) = n + 1
        /\ Append(p, d)[n + 1] = d
        /\ \A i \in 1 .. n : Append(p, d)[i] = p[i]
    BY <1>5, AppendProperties DEF p
  <2>2. Append(p, d) \in [1 .. n + 1 -> Seq(Bytes)]
    BY <2>1, LenProperties
  <2>3. \A i \in 1 .. n + 1 : Append(p, d)[i] = e(i)
    BY <1>1, <2>1 DEF p
  <2> QED
    BY <2>2, <2>3 DEF p
<1> QED
  BY <1>5, <1>6, <1>7, FlattenAppend

\* What is written goes to the end of the last file.
LEMMA FileGrows ==
    ASSUME WriteType, UNCHANGED patch, NEW n \in Nat \ {0}, Len(files) = n,
           NEW data \in Seq(Bytes), files' = [files EXCEPT ![n] = @ \o data],
           Paths[n].kind = "ref"
    PROVE  /\ FlattenSeq(Parts("ref")') = FlattenSeq(Parts("ref")) \o data
           /\ FlattenSeq(Parts("same")') = FlattenSeq(Parts("same"))
           /\ Len(files') = n /\ files' \in Seq(Seq(Bytes))
           /\ \A i \in 1 .. n - 1 : files'[i] = files[i]
           /\ Len(files'[n]) = Len(files[n]) + Len(data)
<1>1. files \in Seq(Seq(Bytes)) /\ DOMAIN files = 1 .. n /\ n \in 1 .. Len(files)
  BY LenProperties DEF WriteType
<1>2. files[n] \in Seq(Bytes)
  BY <1>1, ElementOfSeq
<1>3. /\ files[n] \o data \in Seq(Bytes)
      /\ Len(files[n] \o data) = Len(files[n]) + Len(data)
  BY <1>2, Cat
<1>4. /\ files' \in Seq(Seq(Bytes)) /\ Len(files') = n /\ files'[n] = files[n] \o data
      /\ \A i \in 1 .. n - 1 : files'[i] = files[i]
  <2> DEFINE e == files[n] \o data
  <2> HIDE DEF e
  <2>1. files' = [files EXCEPT ![n] = e]
    BY DEF e
  <2>2. /\ files' \in Seq(Seq(Bytes)) /\ Len(files') = n
        /\ \A j \in 1 .. n : files'[j] = IF j = n THEN e ELSE files[j]
    BY <1>1, <1>3, <2>1, ExceptSeq DEF e
  <2>3. n \in 1 .. n /\ \A i \in 1 .. n - 1 : i \in 1 .. n /\ i # n
    OBVIOUS
  <2>4. files'[n] = e /\ \A i \in 1 .. n - 1 : files'[i] = files[i]
    BY <2>2, <2>3, Zenon
  <2> QED
    BY <2>2, <2>4 DEF e
<1>5. Paths' = Paths
  BY DEF Paths
<1>6. \A kind : /\ Parts(kind)' \in Seq(Seq(Bytes)) /\ Len(Parts(kind)') = n
                /\ \A i \in 1 .. n - 1 : Parts(kind)'[i] = Parts(kind)[i]
                /\ Parts(kind)'[n] = OfKind(kind, n, files[n] \o data)
  <2> TAKE kind
  <2>1. Parts(kind)' = [i \in 1 .. n |-> OfKind(kind, i, files'[i])]
    BY <1>4, <1>5, LenProperties DEF Parts, OfKind
  <2>2. \A i \in 1 .. n : OfKind(kind, i, files'[i]) \in Seq(Bytes)
    BY <1>4, ElementOfSeq, EmptySeq DEF OfKind
  <2>3. /\ Parts(kind)' \in Seq(Seq(Bytes)) /\ Len(Parts(kind)') = n
        /\ \A i \in 1 .. n : Parts(kind)'[i] = OfKind(kind, i, files'[i])
    BY <2>1, <2>2, IsASeq
  <2>4. \A i \in 1 .. n : Parts(kind)[i] = OfKind(kind, i, files[i])
    BY PartsType
  <2> DEFINE s == Parts(kind)  t == Parts(kind)'
  <2>5. n \in 1 .. n /\ \A i \in 1 .. n - 1 : i \in 1 .. n /\ files'[i] = files[i]
    BY <1>4
  <2> HIDE DEF s, t
  <2>6. \A i \in 1 .. n - 1 : t[i] = s[i]
    BY <2>3, <2>4, <2>5, Zenon DEF s, t
  <2>7. t[n] = OfKind(kind, n, files[n] \o data)
    BY <1>4, <2>3, <2>5, Zenon DEF t
  <2> QED
    BY <2>3, <2>6, <2>7, Zenon DEF s, t
<1>7. \A kind : Parts(kind) \in Seq(Seq(Bytes)) /\ Len(Parts(kind)) = n
                /\ Parts(kind)[n] = OfKind(kind, n, files[n])
  BY <1>1, PartsType
<1>8. \A kind : Differ(FlattenSeq(Parts(kind)), OfKind(kind, n, files[n]),
                     FlattenSeq(Parts(kind)'), OfKind(kind, n, files[n] \o data), Bytes)
  <2> TAKE kind
  <2> DEFINE s == Parts(kind)  t == Parts(kind)'
  <2>1. /\ s \in Seq(Seq(Bytes)) /\ t \in Seq(Seq(Bytes)) /\ Len(s) = n /\ Len(t) = n
        /\ \A i \in 1 .. n - 1 : s[i] = t[i]
    BY <1>6, <1>7
  <2>2. s[n] = OfKind(kind, n, files[n]) /\ t[n] = OfKind(kind, n, files[n] \o data)
    BY <1>6, <1>7
  <2> HIDE DEF s, t
  <2>3. SameButLast(s, t, n, Bytes)
    BY <2>1 DEF SameButLast
  <2>4. Differ(FlattenSeq(s), s[n], FlattenSeq(t), t[n], Bytes)
    BY <2>3, FlattenLast
  <2> QED
    BY <2>2, <2>4, Zenon DEF s, t
<1>9. FlattenSeq(Parts("same")') = FlattenSeq(Parts("same"))
  <2>1. OfKind("same", n, files[n]) = <<>> /\ OfKind("same", n, files[n] \o data) = <<>>
    BY DEF OfKind
  <2>2. Differ(FlattenSeq(Parts("same")), <<>>, FlattenSeq(Parts("same")'), <<>>, Bytes)
    BY <1>8, <2>1
  <2> QED
    BY <2>2 DEF Differ
<1>10. FlattenSeq(Parts("ref")') = FlattenSeq(Parts("ref")) \o data
  <2> DEFINE x == files[n]  z == files[n] \o data
             f == FlattenSeq(Parts("ref"))  g == FlattenSeq(Parts("ref")')
  <2>1. OfKind("ref", n, files[n]) = x /\ OfKind("ref", n, files[n] \o data) = z
    BY DEF OfKind
  <2>2. Differ(f, x, g, z, Bytes)
    BY <1>8, <2>1
  <2>3. z = x \o data /\ x \in Seq(Bytes)
    BY <1>2
  <2> HIDE DEF x, z, f, g
  <2>4. g = f \o data
    BY <2>2, <2>3, Grows
  <2> QED
    BY <2>4 DEF f, g
<1> QED
  BY <1>3, <1>4, <1>9, <1>10

-----------------------------------------------------------------------------
(* every step keeps the invariant                                           *)

LEMMA WInvInit == ASSUME patch \in Patches, Init PROVE WInv
<1>1. WriteType
  BY EmptySeq DEF WriteType, Init, Patches, Paths
<1>2. Len(files) = 0 /\ \A kind : FlattenSeq(Parts(kind)) = <<>>
  <2>1. files = <<>> /\ Len(files) = 0
    BY EmptySeq DEF Init
  <2> SUFFICES ASSUME NEW kind PROVE FlattenSeq(Parts(kind)) = <<>>
    BY <2>1
  <2>2. Parts(kind) \in Seq(Seq(Bytes)) /\ Len(Parts(kind)) = 0
    BY <1>1, <2>1, PartsType
  <2>3. Parts(kind) = <<>>
    BY <2>2, EmptySeq
  <2> QED
    BY <2>3, FlattenEmpty
<1>3. Lengths
  <2>1. Len(Upto(Planned("ref"), 0)) = 0
    BY UptoZero, EmptySeq
  <2> QED
    BY <1>2, <2>1 DEF Lengths, Init
<1>4. Seen
  BY <1>2, ConcatEmptySeq, EmptySeq DEF Seen, Init
<1> QED
  BY <1>1, <1>3, <1>4 DEF WInv, OkMeansWholeDirectory, Init

\* The steps after which nothing more is written, and those of the reading side.
LEMMA EndKeeps ==
    ASSUME WInv, NEW answer \in {"ok", "failed"}, Ends(answer),
           answer = "ok" => files = Target(patch),
           UNCHANGED <<patch, path, files, new, sums>>
    PROVE  WInv'
<1>1. WriteType'
  BY DEF WInv, WriteType, Ends, Paths
<1>2. Target(patch)' = Target(patch)
  BY DEF Target
<1> QED
  BY <1>1, <1>2 DEF WInv, Ends, OkMeansWholeDirectory

LEMMA FailKeeps == ASSUME WInv, Fail PROVE WInv'
BY EndKeeps DEF Fail

LEMMA WriterRests ==
    ASSUME WInv, UNCHANGED <<patch, path, files, new, sums, result>>,
           pc = pc' \/ (pc \in {"patch", "read"} /\ pc' \in {"patch", "read"})
                   \/ (pc = "write" /\ pc' = "patch" /\ new.piece = <<>>)
    PROVE  WInv'
<1>1. WriteType'
  BY DEF WInv, WriteType, Paths
<1>2. Target(patch)' = Target(patch) /\ Paths' = Paths /\ (\A kind : Parts(kind)' = Parts(kind))
      /\ Planned("ref")' = Planned("ref")
  BY DEF Target, Paths, Parts, Planned, OfKind
<1>3. FileOpen' = FileOpen
  BY <1>2 DEF FileOpen
<1>4. Lengths => Lengths'
  BY <1>2, <1>3 DEF Lengths, WInv, WriteType
<1>5. Seen => Seen'
  BY <1>2 DEF Seen
<1> QED
  BY <1>1, <1>2, <1>4, <1>5 DEF WInv, OkMeansWholeDirectory, WriteType

\* The end of the new stream's next file is where it is planned.
LEMMA PlannedEnd ==
    ASSUME WriteType, path <= Len(Paths)
    PROVE  /\ Len(Upto(Planned("ref"), path - 1)) \in Nat
           /\ Len(Upto(Planned("ref"), path))
                  = Len(Upto(Planned("ref"), path - 1)) + Len(OfKind("ref", path, Paths[path].data))
           /\ Len(Upto(Planned("ref"), path)) <= Len(RefData)
<1>1. path \in 1 .. Len(Paths)
  BY InputType DEF WriteType
<1>2. /\ Planned("ref") \in Seq(Seq(Bytes)) /\ path \in 1 .. Len(Planned("ref"))
      /\ Planned("ref")[path] = OfKind("ref", path, Paths[path].data)
      /\ RefData = FlattenSeq(Planned("ref"))
  BY <1>1, PlannedType DEF RefData
<1> QED
  BY <1>2, UptoHolds

\* An entry that is made at once: nothing of it is in the new stream.
LEMMA EntryMade ==
    ASSUME WInv, pc = "ready", path <= Len(Paths),
           NEW data \in Seq(Bytes), Len(data) = Len(Paths[path].data),
           OfKind("ref", path, data) = <<>>,
           files' = Append(files, data), path' = path + 1,
           sums' = [sums EXCEPT !.copy = @ \o OfKind("same", path, data)],
           UNCHANGED <<patch, pc, new, result>>
    PROVE  WInv'
<1>1. WriteType /\ ~ new.finished /\ Lengths /\ Seen /\ Len(files) = path - 1 /\ path \in Nat
  BY DEF WInv, Lengths, WriteType
<1>2. Paths' = Paths /\ Planned("ref")' = Planned("ref") /\ path \in 1 .. Len(Paths)
      /\ Len(Paths) \in Nat
  BY <1>1, InputType DEF Paths, Planned, OfKind, WriteType
<1>3. /\ \A kind : FlattenSeq(Parts(kind)') = FlattenSeq(Parts(kind)) \o OfKind(kind, path, data)
      /\ Len(files') = path /\ files' \in Seq(Seq(Bytes))
      /\ \A i \in 1 .. path - 1 : files'[i] = files[i]
      /\ files'[path] = data
  <2>1. Len(files) + 1 = path
    BY <1>1
  <2> QED
    BY <1>1, <2>1, FileMade
<1>4. \A kind : OfKind(kind, path, data) \in Seq(Bytes) /\ FlattenSeq(Parts(kind)) \in Seq(Bytes)
  BY <1>1, PartsType, FlattenType, EmptySeq DEF OfKind
<1>5. WriteType'
  <2>1. sums' \in [ref : Seq(Bytes), copy : Seq(Bytes)]
    <3> DEFINE more == sums.copy \o OfKind("same", path, data)
    <3>1. more \in Seq(Bytes)
      BY <1>1, <1>4, Cat DEF WriteType
    <3> HIDE DEF more
    <3>2. sums' = [sums EXCEPT !.copy = more]
      BY DEF more
    <3> QED
      BY <1>1, <3>1, <3>2 DEF WriteType
  <2>2. path' \in 1 .. Len(Paths') + 1
    BY <1>2
  <2>3. /\ patch' \in Patches /\ pc' \in {"ready", "patch", "read", "write", "end"}
        /\ new' \in [end : Nat, pos : Nat, piece : Seq(Bytes), finished : BOOLEAN]
        /\ result' \in {"running", "ok", "failed"} /\ (pc' = "end" <=> result' # "running")
    BY <1>1 DEF WriteType
  <2> QED
    BY <1>3, <2>1, <2>2, <2>3 DEF WriteType
<1>6. Len(Upto(Planned("ref"), path)) = Len(Upto(Planned("ref"), path - 1))
  <2>1. OfKind("ref", path, Paths[path].data) = <<>>
    <3>1. CASE Paths[path].kind = "ref"
      <4>1. data = <<>> /\ Len(Paths[path].data) = 0
        BY <3>1, EmptySeq DEF OfKind
      <4> QED
        BY <1>1, <1>2, <4>1, InputType, EmptySeq DEF OfKind
    <3> QED
      BY <3>1 DEF OfKind
  <2> QED
    BY <1>1, <2>1, PlannedEnd, EmptySeq
<1>7. Lengths'
  <2>1. Len(files') \in {path' - 1, path'} /\ Len(files') = path' - 1
    BY <1>1, <1>3
  <2>2. \A i \in 1 .. path' - 1 : Len(files'[i]) = Len(Paths'[i].data)
    <3> SUFFICES ASSUME NEW i \in 1 .. path PROVE Len(files'[i]) = Len(Paths[i].data)
      BY <1>1, <1>2
    <3>1. CASE i = path
      BY <1>3, <3>1
    <3>2. CASE i # path
      <4>1. i \in 1 .. path - 1
        BY <1>1, <3>2
      <4> QED
        BY <1>1, <1>3, <4>1 DEF Lengths
    <3> QED
      BY <3>1, <3>2
  <2>3. new'.end = Len(Upto(Planned("ref")', Len(files')))
    BY <1>1, <1>2, <1>3, <1>6 DEF Lengths
  <2> QED
    BY <1>1, <2>1, <2>2, <2>3 DEF Lengths
<1>8. Seen'
  <2>1. FlattenSeq(Parts("ref")') = FlattenSeq(Parts("ref"))
    <3>1. FlattenSeq(Parts("ref")') = FlattenSeq(Parts("ref")) \o <<>>
      BY <1>3
    <3> QED
      BY <1>4, <3>1, ConcatEmptySeq
  <2>2. sums'.copy = sums.copy \o OfKind("same", path, data) /\ sums'.ref = sums.ref
    BY <1>1 DEF WriteType
  <2> QED
    BY <1>1, <1>3, <2>1, <2>2 DEF Seen
<1> QED
  BY <1>1, <1>5, <1>7, <1>8 DEF WInv, OkMeansWholeDirectory, WriteType

LEMMA MakeKeeps == ASSUME WInv, MakeNewDirOrEmptyFile PROVE WInv'
<1>1. /\ WriteType /\ pc = "ready" /\ path <= Len(Paths) /\ Paths[path].data = <<>>
      /\ \A kind : OfKind(kind, path, <<>>) = <<>>
  BY DEF MakeNewDirOrEmptyFile, Ready, WInv, OfKind
<1>2. sums' = [sums EXCEPT !.copy = @ \o OfKind("same", path, <<>>)]
  <2>1. sums.copy \o <<>> = sums.copy
    BY <1>1, ConcatEmptySeq DEF WriteType
  <2> QED
    BY <1>1, <2>1 DEF MakeNewDirOrEmptyFile, WriteType
<1> QED
  BY <1>1, <1>2, EmptySeq, EntryMade DEF MakeNewDirOrEmptyFile

LEMMA CopyKeeps == ASSUME WInv, CopySameFile PROVE WInv'
<1>1. /\ WriteType /\ pc = "ready" /\ path <= Len(Paths) /\ Paths[path].kind = "same"
      /\ path \in 1 .. Len(Paths)
  BY InputType DEF CopySameFile, Ready, WInv, WriteType
<1>2. PICK data \in {Paths[path].data, [i \in DOMAIN Paths[path].data |-> Wrong]} :
         files' = Append(files, data) /\ sums' = [sums EXCEPT !.copy = @ \o data]
  BY DEF CopySameFile
<1>3. data \in Seq(Bytes) /\ Len(data) = Len(Paths[path].data)
  <2> DEFINE d == Paths[path].data
  <2>1. d \in Seq(Bytes)
    BY <1>1, InputType
  <2> HIDE DEF d
  <2>2. [i \in DOMAIN d |-> Wrong] \in Seq(Bytes) /\ Len([i \in DOMAIN d |-> Wrong]) = Len(d)
    BY <2>1, AllWrong
  <2> QED
    BY <1>2, <2>1, <2>2 DEF d
<1>4. OfKind("ref", path, data) = <<>> /\ OfKind("same", path, data) = data
  BY <1>1 DEF OfKind
<1> QED
  BY <1>1, <1>2, <1>3, <1>4, EntryMade DEF CopySameFile

LEMMA OpenKeeps == ASSUME WInv, OpenNewFile PROVE WInv'
<1>1. /\ WriteType /\ pc = "ready" /\ path \in 1 .. Len(Paths) /\ path \in Nat
      /\ Paths[path].kind = "ref" /\ Paths[path].data # <<>>
      /\ ~ new.finished /\ Lengths /\ Seen /\ Len(files) = path - 1 /\ new.pos = new.end
      /\ files' = Append(files, <<>>) /\ <<>> \in Seq(Bytes)
      /\ UNCHANGED <<patch, path, sums, result>> /\ pc' = "write"
      /\ Len(Paths[path].data) \in Nat \ {0}
  <2>1. path \in 1 .. Len(Paths)
    BY InputType DEF OpenNewFile, Ready, WInv, WriteType
  <2>2. Len(Paths[path].data) \in Nat \ {0} /\ <<>> \in Seq(Bytes)
    BY <2>1, InputType, EmptySeq DEF OpenNewFile, WInv
  <2> QED
    BY <2>1, <2>2 DEF OpenNewFile, Ready, WInv, Lengths
<1>2. /\ \A kind : FlattenSeq(Parts(kind)') = FlattenSeq(Parts(kind))
      /\ Len(files') = path /\ files' \in Seq(Seq(Bytes))
      /\ \A i \in 1 .. path - 1 : files'[i] = files[i]
      /\ files'[path] = <<>>
  <2>1. /\ \A kind : FlattenSeq(Parts(kind)')
                  = FlattenSeq(Parts(kind)) \o OfKind(kind, Len(files) + 1, <<>>)
        /\ Len(files') = Len(files) + 1 /\ files' \in Seq(Seq(Bytes))
        /\ \A i \in 1 .. Len(files) : files'[i] = files[i]
        /\ files'[Len(files) + 1] = <<>>
    BY <1>1, FileMade
  <2>2. \A kind, i : OfKind(kind, i, <<>>) = <<>>
    BY DEF OfKind
  <2>3. \A kind : FlattenSeq(Parts(kind)) \o <<>> = FlattenSeq(Parts(kind))
    BY <1>1, PartsType, FlattenType, ConcatEmptySeq
  <2>4. \A kind : FlattenSeq(Parts(kind)') = FlattenSeq(Parts(kind))
    BY <2>1, <2>2, <2>3
  <2>5. Len(files) + 1 = path
    BY <1>1
  <2> QED
    BY <1>1, <2>1, <2>4, <2>5
<1>3. /\ new' = [new EXCEPT !.end = @ + Len(Paths[path].data)]
      /\ new' \in [end : Nat, pos : Nat, piece : Seq(Bytes), finished : BOOLEAN]
      /\ new'.end = new.end + Len(Paths[path].data) /\ new'.pos = new.end /\ new'.piece = new.piece
      /\ new.end \in Nat /\ ~ new'.finished
  <2> DEFINE l == Len(Paths[path].data)
  <2>1. /\ new' = [new EXCEPT !.end = @ + l] /\ l \in Nat
        /\ new \in [end : Nat, pos : Nat, piece : Seq(Bytes), finished : BOOLEAN]
        /\ new.pos = new.end /\ ~ new.finished
    BY <1>1 DEF OpenNewFile, WriteType
  <2> HIDE DEF l
  <2> QED
    BY <2>1 DEF l
<1>4. Paths' = Paths /\ Planned("ref")' = Planned("ref")
  BY <1>1 DEF Paths, Planned, OfKind
<1>5. WriteType'
  <2>1. /\ patch' \in Patches /\ path' \in 1 .. Len(Paths') + 1
        /\ sums' \in [ref : Seq(Bytes), copy : Seq(Bytes)]
        /\ result' \in {"running", "ok", "failed"} /\ result' = "running"
    BY <1>1, <1>4 DEF WriteType
  <2> QED
    BY <1>1, <1>2, <1>3, <2>1 DEF WriteType
<1>6. new'.end = Len(Upto(Planned("ref"), path))
  <2>1. OfKind("ref", path, Paths[path].data) = Paths[path].data
    BY <1>1 DEF OfKind
  <2> QED
    BY <1>1, <1>3, <2>1, PlannedEnd DEF Lengths
<1>7. FileOpen'
  <2>1. Len(files'[path]) = 0
    BY <1>2, EmptySeq
  <2> QED
    BY <1>1, <1>2, <1>3, <1>4, <2>1 DEF FileOpen
<1>8. Lengths'
  <2>1. \A i \in 1 .. path' - 1 : Len(files'[i]) = Len(Paths'[i].data)
    BY <1>1, <1>2, <1>4 DEF Lengths
  <2> QED
    BY <1>1, <1>2, <1>4, <1>6, <1>7, <2>1 DEF Lengths
<1>9. Seen'
  BY <1>1, <1>2, <1>3 DEF Seen
<1> QED
  BY <1>1, <1>3, <1>5, <1>8, <1>9 DEF WInv, OkMeansWholeDirectory, WriteType

\* When the checksums match and every file has its length, every file has its bytes.
LEMMA ChecksumsTell ==
    ASSUME WInv, pc = "ready", path > Len(Paths), ~ new.finished, ChecksumsMatch
    PROVE  files = Target(patch)
<1>1. WriteType /\ Lengths /\ Seen /\ path = Len(Paths) + 1 /\ Len(Paths) \in Nat
      /\ Len(files) = Len(Paths)
  BY InputType DEF WInv, Lengths, WriteType
<1> DEFINE n == Len(Paths)
<1>2. /\ n \in Nat /\ Len(files) = n
      /\ \A i \in 1 .. n : Len(files[i]) = Len(Paths[i].data)
  BY <1>1 DEF Lengths
<1>3. /\ \A kind : /\ Parts(kind) \in Seq(Seq(Bytes)) /\ Len(Parts(kind)) = n
                    /\ \A i \in 1 .. n : Parts(kind)[i] = OfKind(kind, i, files[i])
      /\ \A kind : /\ Planned(kind) \in Seq(Seq(Bytes)) /\ Len(Planned(kind)) = n
                    /\ \A i \in 1 .. n : Planned(kind)[i] = OfKind(kind, i, Paths[i].data)
                    /\ DataOf(kind) = FlattenSeq(Planned(kind))
  BY <1>1, <1>2, PartsType, PlannedType
<1>4. \A kind : SameLengths(Parts(kind), Planned(kind), n)
  <2>1. \A kind : \A i \in 1 .. n : Len(OfKind(kind, i, files[i])) = Len(OfKind(kind, i, Paths[i].data))
    BY <1>2 DEF OfKind
  <2> QED
    BY <1>3, <2>1 DEF SameLengths
<1>5. /\ new.piece \in Seq(Bytes) /\ <<>> \in Seq(Bytes)
      /\ FlattenSeq(Parts("ref")) \o new.piece = FlattenSeq(Planned("ref"))
      /\ FlattenSeq(Parts("same")) \o <<>> = FlattenSeq(Planned("same"))
  <2>1. FlattenSeq(Parts("same")) \o <<>> = FlattenSeq(Parts("same"))
    BY <1>3, FlattenType, ConcatEmptySeq
  <2> QED
    <3>1. new.piece \in Seq(Bytes) /\ <<>> \in Seq(Bytes)
      BY <1>1, EmptySeq DEF WriteType
    <3>2. sums.ref = FlattenSeq(Planned("ref")) /\ sums.copy = FlattenSeq(Planned("same"))
      <4>1. /\ DataOf("ref") = FlattenSeq(Planned("ref"))
            /\ DataOf("same") = FlattenSeq(Planned("same"))
        BY <1>1, PlannedType
      <4> QED
        BY <4>1, Zenon DEF ChecksumsMatch, RefData, SameData
    <3>3. /\ sums.copy = FlattenSeq(Parts("same"))
          /\ sums.ref = FlattenSeq(Parts("ref")) \o new.piece
      BY <1>1 DEF Seen
    <3> QED
      BY <2>1, <3>1, <3>2, <3>3, Zenon
<1>6. Parts("ref") = Planned("ref") /\ Parts("same") = Planned("same")
  <2>1. Parts("ref") = Planned("ref")
    BY <1>3, <1>4, <1>5, CutsOnce
  <2>2. Parts("same") = Planned("same")
    BY <1>3, <1>4, <1>5, CutsOnce
  <2> QED
    BY <2>1, <2>2
<1>7. \A i \in 1 .. n : files[i] = Paths[i].data
  <2> SUFFICES ASSUME NEW i \in 1 .. n PROVE files[i] = Paths[i].data
    OBVIOUS
  <2>1. /\ OfKind("ref", i, files[i]) = OfKind("ref", i, Paths[i].data)
        /\ OfKind("same", i, files[i]) = OfKind("same", i, Paths[i].data)
    BY <1>3, <1>6
  <2>2. CASE Paths[i].kind \in {"ref", "same"}
    BY <2>1, <2>2 DEF OfKind
  <2>3. CASE Paths[i].kind \in {"dir", "empty"}
    <3>1. Paths[i].data = <<>>
      BY <1>1, <2>3, InputType
    <3>2. files[i] \in Seq(Bytes) /\ Len(files[i]) = 0
      BY <1>1, <1>2, <3>1, PartsType, EmptySeq
    <3> QED
      BY <3>1, <3>2, EmptySeq
  <2> QED
    BY <1>1, <2>2, <2>3, InputType
<1>8. /\ files \in [1 .. n -> Seq(Bytes)]
      /\ Target(patch) = [i \in 1 .. n |-> Paths[i].data]
  <2>1. DOMAIN Paths = 1 .. n
    BY <1>1, InputType, LenProperties
  <2>2. files \in Seq(Seq(Bytes))
    BY <1>1 DEF WriteType
  <2> QED
    BY <1>2, <2>1, <2>2, LenProperties DEF Target, Paths
<1> QED
  BY <1>7, <1>8

LEMMA FileEntryEndKeeps == ASSUME WInv, FileEntryEnd PROVE WInv'
<1>1. CASE Fail
  BY <1>1, FailKeeps
<1>2. CASE ~ Fail
  <2>1. /\ ~ new.finished /\ ChecksumsMatch /\ pc = "ready" /\ path > Len(Paths)
        /\ new' = [new EXCEPT !.finished = TRUE] /\ pc' = "write"
        /\ UNCHANGED <<patch, path, files, sums, result>>
    BY <1>2 DEF FileEntryEnd
  <2>2. files = Target(patch)
    BY <2>1, ChecksumsTell
  <2>3. WriteType' /\ new'.finished /\ Target(patch)' = Target(patch)
    BY <2>1 DEF WInv, WriteType, Target, Paths
  <2> QED
    BY <2>1, <2>2, <2>3 DEF WInv, OkMeansWholeDirectory, WriteType
<1> QED
  BY <1>1, <1>2

LEMMA PieceType ==
    ASSUME LimitAssumption, WriteType, new.pos < Len(RefData), NEW n \in PieceSizes,
           NEW data, data = SubSeq(RefData, new.pos + 1, Lesser(new.pos + n, Len(RefData)))
    PROVE  data \in Seq(Bytes) /\ [i \in DOMAIN data |-> Wrong] \in Seq(Bytes)
<1> DEFINE last == Lesser(new.pos + n, Len(RefData))
<1>1. RefData \in Seq(Bytes) /\ Len(RefData) \in Nat /\ new.pos \in Nat /\ n \in Nat
  BY PlannedType, LenProperties DEF RefData, WriteType, LimitAssumption
<1>2. last \in Int /\ last <= Len(RefData) /\ new.pos + 1 \in Int /\ new.pos + 1 >= 1
  BY <1>1 DEF Lesser
<1>3. \A i \in new.pos + 1 .. last : RefData[i] \in Bytes
  BY <1>1, <1>2, ElementOfSeq
<1>4. data \in Seq(Bytes)
  <2> HIDE DEF last
  <2> QED
    BY <1>2, <1>3, SubSeqProperties DEF last
<1>5. \A d \in Seq(Bytes) : [i \in DOMAIN d |-> Wrong] \in Seq(Bytes)
  BY AllWrong
<1> QED
  BY <1>4, <1>5, Zenon

LEMMA WritePieceKeeps == ASSUME LimitAssumption, WInv, WritePiece PROVE WInv'
<1>1. WriteType /\ pc = "patch" /\ pc' = "write" /\ UNCHANGED <<patch, path, files, result>>
  BY DEF WInv, WritePiece
<1>2. PICK piece \in Seq(Bytes) :
         new' = [new EXCEPT !.piece = piece] /\ sums' = [sums EXCEPT !.ref = @ \o piece]
  <2>1. PICK n \in PieceSizes :
           LET data == SubSeq(RefData, new.pos + 1, Lesser(new.pos + n, Len(RefData)))
           IN \E piece \in {data, [i \in DOMAIN data |-> Wrong]} :
                new' = [new EXCEPT !.piece = piece] /\ sums' = [sums EXCEPT !.ref = @ \o piece]
    BY DEF WritePiece
  <2> DEFINE data == SubSeq(RefData, new.pos + 1, Lesser(new.pos + n, Len(RefData)))
  <2>2. \E piece \in {data, [i \in DOMAIN data |-> Wrong]} :
           new' = [new EXCEPT !.piece = piece] /\ sums' = [sums EXCEPT !.ref = @ \o piece]
    BY <2>1
  <2>3. data \in Seq(Bytes) /\ [i \in DOMAIN data |-> Wrong] \in Seq(Bytes)
    BY <1>1, PieceType DEF WritePiece
  <2> HIDE DEF data
  <2> QED
    BY <2>2, <2>3
<1>3. /\ Target(patch)' = Target(patch) /\ Paths' = Paths /\ Planned("ref")' = Planned("ref")
      /\ \A kind : Parts(kind)' = Parts(kind)
  BY <1>1 DEF Target, Paths, Parts, Planned, OfKind
<1>4. /\ new' \in [end : Nat, pos : Nat, piece : Seq(Bytes), finished : BOOLEAN]
      /\ new'.finished = new.finished /\ new'.end = new.end /\ new'.pos = new.pos
      /\ new'.piece = piece
  BY <1>1, <1>2 DEF WriteType
<1>5. /\ sums' \in [ref : Seq(Bytes), copy : Seq(Bytes)]
      /\ sums'.ref = sums.ref \o piece /\ sums'.copy = sums.copy
  <2> DEFINE more == sums.ref \o piece
  <2>1. more \in Seq(Bytes) /\ sums' = [sums EXCEPT !.ref = more]
    BY <1>1, <1>2, Cat DEF WriteType
  <2> HIDE DEF more
  <2>2. /\ sums' \in [ref : Seq(Bytes), copy : Seq(Bytes)]
        /\ sums'.ref = more /\ sums'.copy = sums.copy
    BY <1>1, <2>1 DEF WriteType
  <2> QED
    BY <2>2 DEF more
<1>6. WriteType'
  <2>1. /\ patch' \in Patches /\ path' \in 1 .. Len(Paths') + 1
        /\ files' \in Seq(Seq(Bytes)) /\ result' = "running"
    BY <1>1, <1>3 DEF WriteType
  <2> QED
    BY <1>1, <1>4, <1>5, <2>1 DEF WriteType
<1>7. ~ new'.finished => Lengths' /\ Seen'
  <2> SUFFICES ASSUME ~ new'.finished PROVE Lengths' /\ Seen'
    OBVIOUS
  <2>1. Lengths /\ Seen /\ new.piece = <<>>
    BY <1>1, <1>4 DEF WInv, Lengths
  <2>2. FileOpen'
    BY <1>1, <1>3, <1>4, <2>1 DEF FileOpen, Lengths
  <2>3. Lengths'
    BY <1>1, <1>3, <1>4, <2>1, <2>2 DEF Lengths
  <2>4. sums.ref = FlattenSeq(Parts("ref"))
    <3>1. FlattenSeq(Parts("ref")) \o <<>> = FlattenSeq(Parts("ref"))
      BY <1>1, PartsType, FlattenType, ConcatEmptySeq
    <3> QED
      BY <2>1, <3>1 DEF Seen
  <2>5. Seen'
    BY <1>3, <1>4, <1>5, <2>1, <2>4 DEF Seen
  <2> QED
    BY <2>3, <2>5
<1> QED
  BY <1>1, <1>3, <1>4, <1>6, <1>7 DEF WInv, OkMeansWholeDirectory, WriteType

\* A part of the piece has gone into the file.
LEMMA Advanced ==
    ASSUME NEW B, NEW n \in [end : Nat, pos : Nat, piece : B, finished : BOOLEAN],
           NEW k \in Nat, NEW r \in B, NEW m, m = [n EXCEPT !.pos = @ + k, !.piece = r]
    PROVE  /\ m \in [end : Nat, pos : Nat, piece : B, finished : BOOLEAN]
           /\ m.end = n.end /\ m.pos = n.pos + k /\ m.piece = r /\ m.finished = n.finished
<1>1. m \in [end : Nat, pos : Nat, piece : B, finished : BOOLEAN]
  <2>1. n.end \in Nat /\ n.pos + k \in Nat /\ n.finished \in BOOLEAN
    OBVIOUS
  <2>2. m = [end |-> n.end, pos |-> n.pos + k, piece |-> r, finished |-> n.finished]
    <3> DEFINE p == n.pos + k
    <3>1. m = [n EXCEPT !.pos = p, !.piece = r]
      OBVIOUS
    <3> HIDE DEF p
    <3>2. m = [end |-> n.end, pos |-> p, piece |-> r, finished |-> n.finished]
      BY <3>1
    <3> QED
      BY <3>2 DEF p
  <2> QED
    BY <2>1, <2>2
<1>2. m.end = n.end /\ m.piece = r /\ m.finished = n.finished
  OBVIOUS
<1>3. m.pos = n.pos + k
  OBVIOUS
<1> QED
  BY <1>1, <1>2, <1>3

LEMMA WritePartKeeps == ASSUME WInv, WritePart PROVE WInv'
<1>1. CASE new.finished \/ new.pos >= new.end
  BY <1>1, FailKeeps DEF WritePart
<1>2. CASE ~ (new.finished \/ new.pos >= new.end)
  <2> DEFINE data == SubSeq(new.piece, 1, Part)  rest == SubSeq(new.piece, Part + 1, Len(new.piece))
             full == (new.pos + Part) = new.end
  <2>1. /\ WriteType /\ Lengths /\ Seen /\ FileOpen /\ ~ new.finished /\ new.piece # <<>>
        /\ Len(files) = path /\ path \in 1 .. Len(Paths) /\ path \in Nat \ {0}
        /\ Len(Paths) \in Nat
        /\ Paths[path].kind = "ref" /\ pc = "write"
        /\ new.pos \in Nat /\ new.end \in Nat /\ new.pos < new.end
    BY <1>2, InputType DEF WritePart, WInv, Lengths, FileOpen, WriteType
  <2>2. /\ files' = [files EXCEPT ![path] = @ \o data]
        /\ new' = [new EXCEPT !.pos = @ + Part, !.piece = rest]
        /\ path' = (IF full THEN path + 1 ELSE path)
        /\ pc' = (IF full THEN "ready" ELSE "write")
        /\ UNCHANGED <<patch, sums, result>>
    BY <1>2, <2>1 DEF WritePart, WriteType
  <2>3. /\ new.piece \in Seq(Bytes) /\ Len(new.piece) \in Nat \ {0}
        /\ Part \in Nat \ {0} /\ Part <= Len(new.piece) /\ Part <= new.end - new.pos
    <3>1. new.piece \in Seq(Bytes) /\ Len(new.piece) \in Nat \ {0}
      BY <2>1, EmptySeq DEF WriteType
    <3> QED
      BY <2>1, <3>1 DEF Part, Lesser
  <2>4. data \in Seq(Bytes) /\ rest \in Seq(Bytes) /\ data \o rest = new.piece /\ Len(data) = Part
    <3> DEFINE p == new.piece  k == Part
    <3>1. p \in Seq(Bytes) /\ Len(p) \in Nat \ {0} /\ k \in Nat \ {0} /\ k <= Len(p)
      BY <2>3
    <3> HIDE DEF p, k
    <3>2. \A i \in 1 .. Len(p) : p[i] \in Bytes
      BY <3>1, ElementOfSeq
    <3>3. /\ SubSeq(p, 1, k) \in Seq(Bytes) /\ Len(SubSeq(p, 1, k)) = k
          /\ SubSeq(p, k + 1, Len(p)) \in Seq(Bytes)
      BY <3>1, <3>2, SubSeqProperties
    <3>4. SubSeq(p, 1, k) \o SubSeq(p, k + 1, Len(p)) = SubSeq(p, 1, Len(p))
      <4>1. /\ 1 \in 1 .. Len(p) + 1 /\ k \in 1 - 1 .. Len(p) /\ Len(p) \in k .. Len(p)
        BY <3>1
      <4> QED
        BY <3>1, <4>1, ConcatAdjacentSubSeq
    <3>5. SubSeq(p, 1, Len(p)) = p
      BY <3>1, SubSeqFull
    <3> QED
      BY <3>3, <3>4, <3>5 DEF p, k
  <2> HIDE DEF data, rest
  <2>5. /\ FlattenSeq(Parts("ref")') = FlattenSeq(Parts("ref")) \o data
        /\ FlattenSeq(Parts("same")') = FlattenSeq(Parts("same"))
        /\ Len(files') = path /\ files' \in Seq(Seq(Bytes))
        /\ \A i \in 1 .. path - 1 : files'[i] = files[i]
        /\ Len(files'[path]) = Len(files[path]) + Part
    <3> DEFINE n == path
    <3>1. /\ WriteType /\ UNCHANGED patch /\ n \in Nat \ {0} /\ Len(files) = n
          /\ files' = [files EXCEPT ![n] = @ \o data] /\ Paths[n].kind = "ref"
      BY <2>1, <2>2
    <3> HIDE DEF n
    <3>2. /\ FlattenSeq(Parts("ref")') = FlattenSeq(Parts("ref")) \o data
          /\ FlattenSeq(Parts("same")') = FlattenSeq(Parts("same"))
          /\ Len(files') = n /\ files' \in Seq(Seq(Bytes))
          /\ \A i \in 1 .. n - 1 : files'[i] = files[i]
          /\ Len(files'[n]) = Len(files[n]) + Len(data)
      BY <2>4, <3>1, FileGrows
    <3> QED
      BY <2>4, <3>2 DEF n
  <2>6. /\ new' \in [end : Nat, pos : Nat, piece : Seq(Bytes), finished : BOOLEAN]
        /\ new'.end = new.end /\ new'.pos = new.pos + Part /\ new'.piece = rest
        /\ ~ new'.finished
    <3> DEFINE k == Part
    <3>1. /\ new' = [new EXCEPT !.pos = @ + k, !.piece = rest] /\ k \in Nat
          /\ new \in [end : Nat, pos : Nat, piece : Seq(Bytes), finished : BOOLEAN]
          /\ rest \in Seq(Bytes) /\ ~ new.finished
      BY <2>1, <2>2, <2>3, <2>4 DEF WriteType
    <3> HIDE DEF k
    <3>2. /\ new' \in [end : Nat, pos : Nat, piece : Seq(Bytes), finished : BOOLEAN]
          /\ new'.end = new.end /\ new'.pos = new.pos + k /\ new'.piece = rest
          /\ ~ new'.finished
      BY <3>1, Advanced
    <3> QED
      BY <3>2 DEF k
  <2>7. Paths' = Paths /\ Planned("ref")' = Planned("ref") /\ path' \in 1 .. Len(Paths) + 1
    BY <2>1, <2>2 DEF Paths, Planned, OfKind
  <2>8. WriteType'
    <3>1. /\ patch' \in Patches /\ path' \in 1 .. Len(Paths') + 1
          /\ sums' \in [ref : Seq(Bytes), copy : Seq(Bytes)]
          /\ result' = "running" /\ pc' \in {"ready", "write"}
      BY <2>1, <2>2, <2>7 DEF WriteType
    <3> QED
      BY <2>5, <2>6, <3>1 DEF WriteType
  <2>9. Lengths'
    <3>1. /\ Len(files[path]) + (new.end - new.pos) = Len(Paths[path].data)
          /\ Len(files[path]) \in Nat /\ Len(Paths[path].data) \in Nat
      BY <2>1, PartsType, InputType DEF FileOpen
    <3>2. new'.end = Len(Upto(Planned("ref")', Len(files')))
      BY <2>1, <2>5, <2>6, <2>7 DEF Lengths
    <3>3. CASE full
      <4>1. path' = path + 1 /\ pc' = "ready" /\ new'.pos = new'.end
        BY <2>2, <2>6, <3>3
      <4>2. Len(files'[path]) = Len(Paths[path].data)
        BY <2>1, <2>3, <2>5, <3>1, <3>3
      <4>3. \A i \in 1 .. path : Len(files'[i]) = Len(Paths[i].data)
        <5> SUFFICES ASSUME NEW i \in 1 .. path PROVE Len(files'[i]) = Len(Paths[i].data)
          OBVIOUS
        <5>1. CASE i = path
          BY <4>2, <5>1
        <5>2. CASE i # path
          <6>1. i \in 1 .. path - 1
            BY <2>1, <5>2
          <6> QED
            BY <2>1, <2>5, <6>1 DEF Lengths
        <5> QED
          BY <5>1, <5>2
      <4>4. path' - 1 = path /\ Len(files') = path' - 1
        BY <2>1, <2>5, <4>1
      <4> QED
        BY <2>7, <3>2, <4>1, <4>3, <4>4 DEF Lengths
    <3>4. CASE ~ full
      <4>1. path' = path /\ pc' = "write" /\ new'.pos < new'.end
        <5> DEFINE k == Part
        <5>1. path' = path /\ pc' = "write"
          BY <2>2, <3>4
        <5>2. /\ new'.pos = new.pos + k /\ new'.end = new.end /\ (new.pos + k) # new.end
              /\ new.pos \in Nat /\ new.end \in Nat /\ k \in Nat /\ k <= new.end - new.pos
          BY <2>1, <2>3, <2>6, <3>4
        <5> HIDE DEF k
        <5>3. new'.pos < new'.end
          BY <5>2
        <5> QED
          BY <5>1, <5>3
      <4>2. Len(files'[path]) + (new'.end - new'.pos) = Len(Paths[path].data)
        BY <2>1, <2>3, <2>5, <2>6, <3>1
      <4>3. FileOpen'
        BY <2>1, <2>5, <2>7, <4>1, <4>2 DEF FileOpen
      <4>4. \A i \in 1 .. path - 1 : Len(files'[i]) = Len(Paths[i].data)
        BY <2>1, <2>5 DEF Lengths
      <4> QED
        BY <2>5, <2>7, <3>2, <4>1, <4>3, <4>4 DEF Lengths
    <3> QED
      BY <3>3, <3>4
  <2>10. Seen'
    <3> DEFINE f == FlattenSeq(Parts("ref"))  fd == FlattenSeq(Parts("ref")')
    <3>1. f \in Seq(Bytes) /\ fd = f \o data /\ sums.ref = f \o new.piece
          /\ new.piece = data \o rest
      BY <2>1, <2>4, <2>5, PartsType, FlattenType DEF Seen
    <3> DEFINE piece == new.piece  seen == sums.ref
    <3>2. /\ f \in Seq(Bytes) /\ data \in Seq(Bytes) /\ rest \in Seq(Bytes)
          /\ piece = data \o rest /\ fd = f \o data /\ seen = f \o piece
      BY <2>4, <3>1
    <3> HIDE DEF f, fd, piece, seen
    <3>3. seen = fd \o rest
      BY <3>2, CatTwice
    <3>4. sums.copy = FlattenSeq(Parts("same")')
      BY <2>1, <2>5 DEF Seen
    <3> QED
      BY <2>2, <2>6, <3>3, <3>4 DEF Seen, fd, seen
  <2> QED
    BY <2>1, <2>2, <2>6, <2>8, <2>9, <2>10 DEF WInv, OkMeansWholeDirectory, WriteType
<1> QED
  BY <1>1, <1>2

\* An answer "ok" of the decoder comes after the last entry: while a file is open,
\* its end, at most the new stream's, is not reached.
LEMMA PatchEndsKeeps == ASSUME WInv, PatchEnds PROVE WInv'
<1>1. PICK answer \in {"ok", "failed"} :
         /\ answer = "ok" => new.pos = Len(RefData)
         /\ Ends(answer)
  BY DEF PatchEnds
<1>2. UNCHANGED <<patch, path, files, new, sums>> /\ pc = "patch"
  BY DEF PatchEnds
<1>3. ASSUME answer = "ok" PROVE files = Target(patch)
  <2>1. CASE new.finished
    BY <1>2, <2>1 DEF WInv
  <2>2. CASE ~ new.finished
    <3>1. WriteType /\ Lengths /\ FileOpen
      BY <1>2, <2>2 DEF WInv, Lengths
    <3>2. /\ new.pos \in Nat /\ new.end \in Nat /\ new.pos < new.end
          /\ new.end = Len(Upto(Planned("ref"), path)) /\ path <= Len(Paths)
      BY <3>1 DEF WriteType, Lengths, FileOpen
    <3>3. new.end <= Len(RefData)
      BY <3>1, <3>2, PlannedEnd
    <3>4. new.pos = Len(RefData)
      BY <1>1, <1>3
    <3> QED
      BY <3>2, <3>3, <3>4
  <2> QED
    BY <2>1, <2>2
<1> QED
  BY <1>1, <1>2, <1>3, EndKeeps

LEMMA WInvNext == ASSUME LimitAssumption, WInv, [Next]_vars PROVE WInv'
<1>1. CASE MakeNewDirOrEmptyFile
  BY <1>1, MakeKeeps
<1>2. CASE CopySameFile
  BY <1>2, CopyKeeps
<1>3. CASE OpenNewFile
  BY <1>3, OpenKeeps
<1>4. CASE FileEntryEnd
  BY <1>4, FileEntryEndKeeps
<1>5. CASE MakingFails
  BY <1>5, FailKeeps DEF MakingFails
<1>6. CASE WritePiece
  BY <1>6, WritePieceKeeps
<1>7. CASE WritePart
  BY <1>7, WritePartKeeps
<1>8. CASE WriteDone
  BY <1>8, WriterRests DEF WriteDone
<1>9. CASE WriteFails
  BY <1>9, FailKeeps DEF WriteFails
<1>10. CASE BeginRead
  BY <1>10, WriterRests DEF BeginRead
<1>11. CASE SeekRange
  BY <1>11, WriterRests DEF SeekRange
<1>12. CASE ReadPart
  BY <1>12, WriterRests DEF ReadPart
<1>13. CASE ReadDone
  BY <1>13, WriterRests DEF ReadDone
<1>14. CASE ReadFails
  BY <1>14, FailKeeps DEF ReadFails
<1>15. CASE PatchEnds
  BY <1>15, PatchEndsKeeps
<1>16. CASE UNCHANGED vars
  BY <1>16, WriterRests DEF vars
<1> QED
  BY <1>1, <1>2, <1>3, <1>4, <1>5, <1>6, <1>7, <1>8, <1>9, <1>10, <1>11, <1>12, <1>13,
     <1>14, <1>15, <1>16 DEF Next

\* hpatch_dir answers "ok" over the whole new directory only, for every directory and
\* every way its stream is cut into pieces (TDirPatcher_patch, _writedFinish).
THEOREM WholeDirectoryOnly ==
    ASSUME LimitAssumption
    PROVE  Spec /\ patch \in Patches => []OkMeansWholeDirectory
<1>1. Init /\ patch \in Patches => WInv
  BY WInvInit
<1>2. WInv /\ [Next]_vars => WInv'
  BY LimitAssumption, WInvNext
<1>3. WInv => OkMeansWholeDirectory
  BY DEF WInv
<1> QED
  BY <1>1, <1>2, <1>3, PTL DEF Spec

-----------------------------------------------------------------------------
(* the inductive invariant of the reading side                              *)

\* What was read is where it was read from, and the rest of the read is in the
\* old stream.
ReadInv ==
    /\ read \in [pos : Nat, left : Nat, data : Seq(Data), range : Nat, kept : Nat]
    /\ patch.old # <<>> => {read.range, read.kept} \subseteq 1 .. Len(patch.old)
    /\ read.pos + read.left <= Len(OldData)
    /\ Len(read.data) <= read.pos
    /\ read.data = SubSeq(OldData, read.pos - Len(read.data) + 1, read.pos)

\* The open files are counted, and every file has the time of its last read.
HandleInv ==
    /\ handles \in [open : SUBSET (1 .. Len(patch.old)), count : Nat, clock : Nat,
                    hit : [1 .. Len(patch.old) -> Nat]]
    /\ handles.count = Cardinality(handles.open)
    /\ handles.count <= MaxOpen

RInv == patch \in Patches /\ ReadInv /\ HandleInv

\* The old files in the old stream: where each begins, and what it holds there.
LEMMA OldType ==
    ASSUME patch \in Patches
    PROVE  /\ patch.old \in Seq(Seq(Data)) /\ Len(patch.old) \in Nat
           /\ DOMAIN patch.old = 1 .. Len(patch.old)
           /\ OldData \in Seq(Data) /\ Len(OldData) \in Nat
           /\ RangeEnd(Len(patch.old)) = Len(OldData)
           /\ \A i \in 0 .. Len(patch.old) : RangeEnd(i) \in Nat
           /\ \A i \in 1 .. Len(patch.old) :
                 /\ RangeEnd(i) = RangeEnd(i - 1) + Len(patch.old[i])
                 /\ RangeEnd(i) <= Len(OldData)
                 /\ \A k \in 1 .. Len(patch.old[i]) :
                       OldData[RangeEnd(i - 1) + k] = patch.old[i][k]
           /\ patch.old = <<>> => Len(OldData) = 0
<1>1. /\ patch.old \in Seq(Seq(Data)) /\ Len(patch.old) \in Nat
      /\ DOMAIN patch.old = 1 .. Len(patch.old)
  BY LenProperties DEF Patches
<1>2. OldData \in Seq(Data) /\ Len(OldData) \in Nat
  BY <1>1, FlattenType, LenProperties DEF OldData
<1>3. \A i : RangeEnd(i) = Len(Upto(patch.old, i))
  BY DEF RangeEnd, Upto
<1>4. RangeEnd(Len(patch.old)) = Len(OldData)
  BY <1>1, <1>3, UptoFull DEF OldData
<1>5. \A i \in 0 .. Len(patch.old) : RangeEnd(i) \in Nat
  BY <1>1, <1>3, UptoType, LenProperties
<1>6. \A i \in 1 .. Len(patch.old) :
         /\ RangeEnd(i) = RangeEnd(i - 1) + Len(patch.old[i])
         /\ RangeEnd(i) <= Len(OldData)
         /\ \A k \in 1 .. Len(patch.old[i]) :
               OldData[RangeEnd(i - 1) + k] = patch.old[i][k]
  BY <1>1, <1>3, UptoHolds DEF OldData
<1>7. patch.old = <<>> => Len(OldData) = 0
  BY FlattenEmpty, EmptySeq DEF OldData
<1> QED
  BY <1>1, <1>2, <1>4, <1>5, <1>6, <1>7

LEMMA RInvInit == ASSUME LimitAssumption, patch \in Patches, Init PROVE RInv
<1>1. ReadInv
  <2>1. SubSeq(OldData, 1, 0) = <<>>
    BY SubSeqEmpty
  <2>2. patch.old # <<>> => 1 \in 1 .. Len(patch.old)
    BY OldType, EmptySeq
  <2> QED
    BY <2>1, <2>2, OldType, EmptySeq DEF ReadInv, Init
<1>2. HandleInv
  BY OldType, FS_EmptySet DEF HandleInv, Init, LimitAssumption
<1> QED
  BY <1>1, <1>2 DEF RInv

\* Every way out closes all handles.
LEMMA EndsReads ==
    ASSUME LimitAssumption, RInv, NEW answer, Ends(answer), UNCHANGED <<patch, read>>
    PROVE  RInv'
<1>1. OldData' = OldData
  BY DEF OldData
<1>2. ReadInv'
  BY <1>1 DEF RInv, ReadInv
<1>3. HandleInv'
  <2> DEFINE O == 1 .. Len(patch.old)  H == [O -> Nat]
  <2>1. /\ handles \in [open : SUBSET O, count : Nat, clock : Nat, hit : H]
        /\ handles' = [handles EXCEPT !.open = {}, !.count = 0] /\ O' = O /\ H' = H
    BY DEF RInv, HandleInv, Ends
  <2> HIDE DEF O, H
  <2>2. /\ handles' \in [open : SUBSET O, count : Nat, clock : Nat, hit : H]
        /\ handles'.open = {} /\ handles'.count = 0
    BY <2>1
  <2>3. Cardinality({}) = 0 /\ 0 <= MaxOpen
    BY FS_EmptySet DEF LimitAssumption
  <2> QED
    BY <2>1, <2>2, <2>3 DEF HandleInv, O, H
<1> QED
  BY <1>2, <1>3 DEF RInv

LEMMA ReaderRests == ASSUME RInv, UNCHANGED <<patch, read, handles>> PROVE RInv'
<1>1. OldData' = OldData
  BY DEF OldData
<1> QED
  BY <1>1 DEF RInv, ReadInv, HandleInv

LEMMA BeginReadKeeps == ASSUME LimitAssumption, RInv, BeginRead PROVE RInv'
<1>1. PICK pos \in 0 .. Len(OldData) - 1, n \in PieceSizes :
         /\ pos + n <= Len(OldData)
         /\ read' = [read EXCEPT !.pos = pos, !.left = n, !.data = <<>>, !.range = read.kept]
  BY DEF BeginRead
<1>2. UNCHANGED <<patch, handles>> /\ OldData' = OldData
  BY DEF BeginRead, OldData
<1>3. pos \in Nat /\ n \in Nat
  BY <1>1, OldType DEF RInv, LimitAssumption
<1>4. /\ read' \in [pos : Nat, left : Nat, data : Seq(Data), range : Nat, kept : Nat]
      /\ read'.pos = pos /\ read'.left = n /\ read'.data = <<>>
      /\ read'.range = read.kept /\ read'.kept = read.kept
  <2>1. read \in [pos : Nat, left : Nat, data : Seq(Data), range : Nat, kept : Nat]
    BY DEF RInv, ReadInv
  <2> QED
    BY <1>1, <1>3, <2>1, EmptySeq
<1>5. read'.data = SubSeq(OldData, read'.pos - Len(read'.data) + 1, read'.pos)
  <2>1. SubSeq(OldData, pos + 1, pos) = <<>>
    BY <1>3, SubSeqEmpty
  <2> QED
    BY <1>3, <1>4, <2>1, EmptySeq
<1>6. Len(read'.data) <= read'.pos
  BY <1>3, <1>4, EmptySeq
<1>7. ReadInv'
  BY <1>1, <1>2, <1>4, <1>5, <1>6 DEF RInv, ReadInv
<1> QED
  BY <1>2, <1>7 DEF RInv, HandleInv

\* The search ends at a file: the position is before the end of the last.
LEMMA RangeFound ==
    ASSUME patch \in Patches, NEW pos \in Nat, pos < Len(OldData)
    PROVE  FindRange(pos) \in 1 .. Len(patch.old)
<1> DEFINE n == Len(patch.old)
           B == {i \in 1 .. n : pos < RangeEnd(i)}
<1>1. n \in Nat /\ DOMAIN patch.old = 1 .. n /\ \A i \in 0 .. n : RangeEnd(i) \in Nat
  BY OldType
<1>2. n \in B
  BY OldType, EmptySeq
<1>3. PICK m \in B : \A k \in B : m <= k
  <2>1. B \subseteq Nat /\ B # {}
    BY <1>2
  <2> HIDE DEF B
  <2> QED
    BY <2>1, LeastOf
<1>4. m \in DOMAIN patch.old /\ pos < RangeEnd(m)
  BY <1>1, <1>3
<1>5. \A j \in 1 .. m - 1 : pos >= RangeEnd(j)
  <2> SUFFICES ASSUME NEW j \in 1 .. m - 1 PROVE pos >= RangeEnd(j)
    OBVIOUS
  <2>1. m \in 1 .. n
    BY <1>3
  <2>2. j \in 1 .. n /\ ~ (m <= j)
    BY <1>1, <2>1
  <2>3. ~ (pos < RangeEnd(j))
    BY <1>3, <2>2
  <2> QED
    BY <1>1, <2>2, <2>3
<1>6. \E i \in DOMAIN patch.old : pos < RangeEnd(i) /\ \A j \in 1 .. i - 1 : pos >= RangeEnd(j)
  BY <1>4, <1>5
<1> QED
  BY <1>1, <1>6 DEF FindRange

LEMMA SeekRangeKeeps == ASSUME RInv, SeekRange PROVE RInv'
<1>1. /\ UNCHANGED <<patch, handles>> /\ OldData' = OldData
      /\ read' = [read EXCEPT !.range = FindRange(read.pos)]
  BY DEF SeekRange, OldData
<1>2. /\ read \in [pos : Nat, left : Nat, data : Seq(Data), range : Nat, kept : Nat]
      /\ read.left > 0 /\ Len(OldData) \in Nat
  BY OldType DEF SeekRange, RInv, ReadInv
<1>3. read.pos \in Nat /\ read.pos < Len(OldData)
  BY <1>2 DEF RInv, ReadInv
<1>4. FindRange(read.pos) \in 1 .. Len(patch.old) /\ FindRange(read.pos) \in Nat
  BY <1>3, RangeFound DEF RInv
<1>5. ReadInv'
  <2> DEFINE r == FindRange(read.pos)
  <2>1. read' = [read EXCEPT !.range = r] /\ r \in Nat /\ r \in 1 .. Len(patch.old)
    BY <1>1, <1>4
  <2> HIDE DEF r
  <2>2. /\ read' \in [pos : Nat, left : Nat, data : Seq(Data), range : Nat, kept : Nat]
        /\ read'.pos = read.pos /\ read'.left = read.left /\ read'.data = read.data
        /\ read'.range = r /\ read'.kept = read.kept
    BY <1>2, <2>1
  <2> QED
    BY <1>1, <2>1, <2>2 DEF RInv, ReadInv
<1> QED
  BY <1>1, <1>5 DEF RInv, HandleInv

\* When there is no room some file is open, and one of them was read least recently.
LEMMA OldestIsOpen == ASSUME RInv, handles.open # {} PROVE Oldest \in handles.open
<1> DEFINE B == {handles.hit[i] : i \in handles.open}
<1>1. B \subseteq Nat /\ B # {}
  BY DEF RInv, HandleInv
<1>2. PICK m \in B : \A k \in B : m <= k
  <2> HIDE DEF B
  <2> QED
    BY <1>1, LeastOf
<1>3. PICK i \in handles.open : m = handles.hit[i]
  BY <1>2
<1>4. \A j \in handles.open : handles.hit[i] <= handles.hit[j]
  BY <1>2, <1>3
<1> QED
  BY <1>4 DEF Oldest

\* A file that is opened has room, or takes that of another.
LEMMA OpenedKeeps ==
    ASSUME LimitAssumption, RInv, NEW i \in 1 .. Len(patch.old), handles' = Opened(i),
           UNCHANGED patch
    PROVE  HandleInv'
<1> DEFINE O == 1 .. Len(patch.old)  H == [O -> Nat]
           c == handles.clock + 1
           h == [handles.hit EXCEPT ![i] = c]
           g == [handles EXCEPT !.clock = c, !.hit = h]
<1>1. /\ handles \in [open : SUBSET O, count : Nat, clock : Nat, hit : H]
      /\ handles.count = Cardinality(handles.open) /\ handles.count <= MaxOpen
      /\ O' = O /\ H' = H /\ i \in O /\ MaxOpen \in Nat \ {0}
  BY DEF RInv, HandleInv, LimitAssumption
<1>2. c \in Nat /\ h \in H
  BY <1>1
<1>3. IsFiniteSet(handles.open)
  <2>1. 1 \in Int /\ Len(patch.old) \in Int
    BY OldType DEF RInv
  <2>2. IsFiniteSet(O)
    BY <2>1, FS_Interval
  <2> QED
    BY <1>1, <2>2, FS_Subset
<1>4. handles' = IF i \in handles.open THEN g
                 ELSE IF NoRoom THEN [g EXCEPT !.open = (@ \ {Oldest}) \cup {i}]
                 ELSE [g EXCEPT !.open = @ \cup {i}, !.count = @ + 1]
  BY DEF Opened
<1> HIDE DEF O, H, c, h
<1>5. /\ g \in [open : SUBSET O, count : Nat, clock : Nat, hit : H]
      /\ g.open = handles.open /\ g.count = handles.count
  BY <1>1, <1>2
<1> HIDE DEF g
<1>6. CASE i \in handles.open
  BY <1>1, <1>4, <1>5, <1>6 DEF HandleInv, O, H
<1>7. CASE i \notin handles.open /\ NoRoom
  <2> DEFINE o == (handles.open \ {Oldest}) \cup {i}
  <2>1. handles.open # {}
    <3>1. Cardinality({}) = 0
      BY FS_EmptySet
    <3>2. handles.count # 0
      BY <1>1, <1>7 DEF NoRoom
    <3> QED
      BY <1>1, <3>1, <3>2
  <2>2. Oldest \in handles.open
    BY <2>1, OldestIsOpen
  <2>3. Cardinality(handles.open) \in Nat
    BY <1>1
  <2>4. Cardinality(o) = Cardinality(handles.open)
    <3> DEFINE rest == handles.open \ {Oldest}
    <3>1. IsFiniteSet(rest) /\ Cardinality(rest) = Cardinality(handles.open) - 1
      BY <1>3, <2>2, FS_RemoveElement
    <3>2. i \notin rest
      BY <1>7
    <3> HIDE DEF rest
    <3>3. Cardinality(rest \cup {i}) = Cardinality(rest) + 1
      BY <3>1, <3>2, FS_AddElement
    <3> QED
      BY <2>3, <3>1, <3>3 DEF rest
  <2>5. handles' = [g EXCEPT !.open = o] /\ o \subseteq O
    BY <1>1, <1>4, <1>5, <1>7
  <2> HIDE DEF o
  <2>6. /\ handles' \in [open : SUBSET O, count : Nat, clock : Nat, hit : H]
        /\ handles'.open = o /\ handles'.count = handles.count
    BY <1>5, <2>5
  <2> QED
    BY <1>1, <2>4, <2>6 DEF HandleInv, O, H
<1>8. CASE i \notin handles.open /\ ~ NoRoom
  <2> DEFINE o == handles.open \cup {i}  n == handles.count + 1
  <2>1. Cardinality(o) = Cardinality(handles.open) + 1
    BY <1>3, <1>8, FS_AddElement
  <2>2. n <= MaxOpen /\ n \in Nat
    BY <1>1, <1>8 DEF NoRoom
  <2>3. handles' = [g EXCEPT !.open = o, !.count = n] /\ o \subseteq O
    BY <1>1, <1>4, <1>5, <1>8
  <2>4. n = Cardinality(o)
    BY <1>1, <2>1
  <2> HIDE DEF o, n
  <2>5. /\ handles' \in [open : SUBSET O, count : Nat, clock : Nat, hit : H]
        /\ handles'.open = o /\ handles'.count = n
    BY <1>5, <2>2, <2>3
  <2> QED
    BY <1>1, <2>2, <2>4, <2>5 DEF HandleInv, O, H
<1> QED
  BY <1>6, <1>7, <1>8

LEMMA SubSeqIs ==
    ASSUME NEW S, NEW s, NEW a \in Int, NEW e \in Int, \A i \in a .. e : s[i] \in S,
           NEW t, t = SubSeq(s, a, e)
    PROVE  /\ t \in Seq(S) /\ Len(t) = (IF a <= e THEN e - a + 1 ELSE 0)
           /\ \A i \in 1 .. e - a + 1 : t[i] = s[a + i - 1]
BY SubSeqProperties

\* A part of a file is the same part of the stream it is in from b on.
LEMMA PartIs ==
    ASSUME NEW S, NEW o \in Seq(S), NEW f \in Seq(S), NEW b \in Nat, b + Len(f) <= Len(o),
           \A k \in 1 .. Len(f) : o[b + k] = f[k],
           NEW pos \in Nat, NEW n \in Nat, b <= pos, pos + n <= b + Len(f)
    PROVE  SubSeq(f, (pos - b) + 1, (pos - b) + n) = SubSeq(o, pos + 1, pos + n)
<1> DEFINE at == (pos - b) + 1  to == (pos - b) + n  from == pos + 1  end == pos + n
           part == SubSeq(f, at, to)  same == SubSeq(o, from, end)
<1>1. /\ Len(f) \in Nat /\ Len(o) \in Nat
      /\ at \in Int /\ to \in Int /\ from \in Int /\ end \in Int
      /\ at = (pos - b) + 1 /\ to = (pos - b) + n /\ from = pos + 1 /\ end = pos + n
      /\ part = SubSeq(f, at, to) /\ same = SubSeq(o, from, end)
  BY LenProperties
<1> HIDE DEF at, to, from, end, part, same
<1>2. /\ part \in Seq(S) /\ Len(part) = (IF at <= to THEN to - at + 1 ELSE 0)
      /\ \A k \in 1 .. to - at + 1 : part[k] = f[at + k - 1]
  <2>1. \A k \in at .. to : k \in 1 .. Len(f)
    BY <1>1
  <2>2. \A k \in at .. to : f[k] \in S
    BY <1>1, <2>1, ElementOfSeq
  <2> QED
    BY <1>1, <2>2, SubSeqIs
<1>3. /\ same \in Seq(S) /\ Len(same) = (IF from <= end THEN end - from + 1 ELSE 0)
      /\ \A k \in 1 .. end - from + 1 : same[k] = o[from + k - 1]
  <2>1. \A k \in from .. end : k \in 1 .. Len(o)
    BY <1>1
  <2>2. \A k \in from .. end : o[k] \in S
    BY <1>1, <2>1, ElementOfSeq
  <2> QED
    BY <1>1, <2>2, SubSeqIs
<1>4. Len(part) = n /\ Len(same) = n
  BY <1>1, <1>2, <1>3
<1>5. \A k \in 1 .. n : part[k] = same[k]
  <2> SUFFICES ASSUME NEW k \in 1 .. n PROVE part[k] = same[k]
    OBVIOUS
  <2>1. k \in 1 .. to - at + 1 /\ k \in 1 .. end - from + 1
    BY <1>1
  <2>2. at + k - 1 \in 1 .. Len(f) /\ b + (at + k - 1) = from + k - 1
    BY <1>1
  <2>3. part[k] = f[at + k - 1] /\ same[k] = o[from + k - 1]
    BY <1>2, <1>3, <2>1
  <2>4. o[b + (at + k - 1)] = f[at + k - 1]
    BY <2>2
  <2> QED
    BY <2>2, <2>3, <2>4
<1>6. part = same
  BY <1>2, <1>3, <1>4, <1>5, SeqEqual
<1> QED
  BY <1>6 DEF part, same, at, to, from, end

\* What follows the l items before pos.
LEMMA Continued ==
    ASSUME NEW S, NEW o \in Seq(S), NEW pos \in Nat, NEW n \in Nat, pos + n <= Len(o),
           NEW l \in Nat, l <= pos, NEW m, m = (pos - l) + 1, NEW end, end = pos + n,
           NEW from, from = pos + 1,
           NEW d, d = SubSeq(o, m, pos), NEW part, part = SubSeq(o, from, end)
    PROVE  /\ d \o part \in Seq(S) /\ Len(d \o part) = l + n
           /\ d \o part = SubSeq(o, m, end)
<1> DEFINE all == SubSeq(o, m, end)
<1>1. /\ Len(o) \in Nat /\ m \in 1 .. Len(o) + 1 /\ pos \in m - 1 .. Len(o)
      /\ end \in pos .. Len(o) /\ m \in Int /\ end \in Int /\ all = SubSeq(o, m, end)
  BY LenProperties
<1>2. d \o part = all
  BY <1>1, ConcatAdjacentSubSeq
<1> HIDE DEF all
<1>3. \A k \in m .. end : o[k] \in S
  <2>1. \A k \in m .. end : k \in 1 .. Len(o)
    BY <1>1
  <2> QED
    BY <2>1, ElementOfSeq
<1>4. all \in Seq(S) /\ Len(all) = (IF m <= end THEN end - m + 1 ELSE 0)
  BY <1>1, <1>3, SubSeqIs
<1>5. Len(all) = l + n
  BY <1>1, <1>4
<1> QED
  BY <1>2, <1>4, <1>5 DEF all

LEMMA LesserIs ==
    ASSUME NEW a \in Nat, NEW b \in Nat
    PROVE  Lesser(a, b) \in Nat /\ Lesser(a, b) <= a /\ Lesser(a, b) <= b
BY DEF Lesser

LEMMA ReadPartKeeps == ASSUME LimitAssumption, RInv, ReadPart PROVE RInv'
<1> DEFINE i == read.range  pos == read.pos  left == read.left  d == read.data
           n == Lesser(left, RangeEnd(i) - pos)
           at == pos - RangeEnd(i - 1)
           part == SubSeq(patch.old[i], at + 1, at + n)
           leaves == pos + left > RangeEnd(i)
           r == IF leaves THEN i + 1 ELSE i
           all == d \o part
<1>1. /\ UNCHANGED patch /\ OldData' = OldData
      /\ left > 0 /\ RangeEnd(i - 1) <= pos /\ pos <= RangeEnd(i)
      /\ handles' = IF n > 0 THEN Opened(i) ELSE handles
      /\ read' = [read EXCEPT !.data = @ \o part, !.pos = @ + n, !.left = @ - n,
                              !.range = IF leaves THEN @ + 1 ELSE @]
  BY DEF ReadPart, InRange, OldData
<1>2. /\ read \in [pos : Nat, left : Nat, data : Seq(Data), range : Nat, kept : Nat]
      /\ pos + left <= Len(OldData) /\ Len(OldData) \in Nat
      /\ Len(d) <= pos /\ Len(d) \in Nat /\ pos \in Nat /\ left \in Nat
      /\ d = SubSeq(OldData, pos - Len(d) + 1, pos)
  BY OldType, LenProperties DEF RInv, ReadInv
<1>3. patch.old # <<>> /\ i \in 1 .. Len(patch.old) /\ read.kept \in 1 .. Len(patch.old)
      /\ Len(patch.old) \in Nat
  <2>1. Len(OldData) # 0
    BY <1>1, <1>2
  <2> QED
    BY <2>1, OldType DEF RInv, ReadInv
<1>4. /\ RangeEnd(i - 1) \in Nat /\ RangeEnd(i) \in Nat
      /\ RangeEnd(Len(patch.old)) = Len(OldData)
  <2>1. i \in 0 .. Len(patch.old) /\ i - 1 \in 0 .. Len(patch.old)
    BY <1>3
  <2> QED
    BY <2>1, OldType DEF RInv
<1>5. n \in Nat /\ n <= left /\ pos + n <= RangeEnd(i) /\ left - n \in Nat /\ pos + n \in Nat
      /\ (pos + n) + (left - n) = pos + left
  <2> DEFINE room == RangeEnd(i) - pos
  <2>1. room \in Nat /\ pos + room = RangeEnd(i)
    BY <1>1, <1>2, <1>4
  <2> HIDE DEF room
  <2>2. n \in Nat /\ n <= left /\ n <= room
    BY <1>2, <2>1, LesserIs DEF room
  <2> HIDE DEF n, pos, left
  <2> QED
    BY <1>2, <2>1, <2>2
<1>6. r \in 1 .. Len(patch.old) /\ r \in Nat
  <2>1. CASE leaves
    <3>1. i # Len(patch.old)
      BY <1>2, <1>4, <2>1
    <3> QED
      BY <1>3, <2>1, <3>1
  <2>2. CASE ~ leaves
    BY <1>3, <2>2
  <2> QED
    BY <2>1, <2>2
<1>7. /\ all \in Seq(Data) /\ Len(all) = Len(d) + n
      /\ all = SubSeq(OldData, pos - Len(d) + 1, pos + n)
  <2> DEFINE o == OldData  l == Len(d)  b == RangeEnd(i - 1)  f == patch.old[i]
             m == (pos - l) + 1  end == pos + n  from == pos + 1
  <2>1. /\ o \in Seq(Data) /\ f \in Seq(Data) /\ b \in Nat /\ b + Len(f) <= Len(o)
        /\ \A k \in 1 .. Len(f) : o[b + k] = f[k]
        /\ RangeEnd(i) = b + Len(f)
    BY <1>3, <1>4, OldType, ElementOfSeq DEF RInv
  <2>2. /\ pos \in Nat /\ n \in Nat /\ b <= pos /\ pos + n <= b + Len(f)
        /\ l \in Nat /\ l <= pos /\ m = (pos - l) + 1 /\ end = pos + n
        /\ d = SubSeq(o, m, pos) /\ part = SubSeq(f, (pos - b) + 1, (pos - b) + n)
    BY <1>1, <1>2, <1>5, <2>1
  <2> HIDE DEF i, pos, n, d, part, l, b, f, o, m, end
  <2>3. part = SubSeq(o, pos + 1, end)
    BY <2>1, <2>2, PartIs
  <2>4. Len(f) \in Nat /\ Len(o) \in Nat
    BY <2>1, LenProperties
  <2>5. /\ o \in Seq(Data) /\ pos \in Nat /\ n \in Nat /\ pos + n <= Len(o)
        /\ l \in Nat /\ l <= pos /\ m = (pos - l) + 1 /\ end = pos + n /\ from = pos + 1
        /\ d = SubSeq(o, m, pos) /\ part = SubSeq(o, from, end)
    BY <2>1, <2>2, <2>3, <2>4
  <2> HIDE DEF from
  <2>6. /\ d \o part \in Seq(Data) /\ Len(d \o part) = l + n
        /\ d \o part = SubSeq(o, m, end)
    BY <2>5, Continued
  <2> QED
    BY <2>6 DEF l, o, m, end
<1>8. read' = [read EXCEPT !.data = all, !.pos = pos + n, !.left = left - n, !.range = r]
  BY <1>1
<1>9. ReadInv'
  <2> DEFINE p == pos + n  rest == left - n
  <2>1. /\ p \in Nat /\ rest \in Nat /\ p + rest <= Len(OldData)
        /\ Len(all) <= p
        /\ all = SubSeq(OldData, p - Len(all) + 1, p)
    <3>1. (pos + n) - (Len(d) + n) = pos - Len(d)
      BY <1>2, <1>5
    <3>2. Len(d) + n <= pos + n /\ (pos + n) + (left - n) <= Len(OldData)
      BY <1>2, <1>5
    <3> HIDE DEF all
    <3> QED
      BY <1>5, <1>7, <3>1, <3>2
  <2>2. read' = [read EXCEPT !.data = all, !.pos = p, !.left = rest, !.range = r]
    BY <1>8
  <2> HIDE DEF all, p, rest, r
  <2>3. /\ read' \in [pos : Nat, left : Nat, data : Seq(Data), range : Nat, kept : Nat]
        /\ read'.pos = p /\ read'.left = rest /\ read'.data = all
        /\ read'.range = r /\ read'.kept = read.kept
    BY <1>2, <1>6, <1>7, <2>1, <2>2
  <2> QED
    BY <1>1, <1>3, <1>6, <2>1, <2>3 DEF ReadInv
<1>10. HandleInv'
  <2>1. CASE n > 0
    BY <1>1, <1>3, <2>1, OpenedKeeps
  <2>2. CASE ~ (n > 0)
    BY <1>1, <2>2 DEF RInv, HandleInv
  <2> QED
    BY <2>1, <2>2
<1> QED
  BY <1>1, <1>9, <1>10 DEF RInv

LEMMA ReadDoneKeeps == ASSUME RInv, ReadDone PROVE RInv'
<1>1. /\ UNCHANGED <<patch, handles>> /\ OldData' = OldData
      /\ read' = [read EXCEPT !.kept = read.range]
      /\ read \in [pos : Nat, left : Nat, data : Seq(Data), range : Nat, kept : Nat]
  BY DEF ReadDone, OldData, RInv, ReadInv
<1>2. /\ read' \in [pos : Nat, left : Nat, data : Seq(Data), range : Nat, kept : Nat]
      /\ read'.pos = read.pos /\ read'.left = read.left /\ read'.data = read.data
      /\ read'.range = read.range /\ read'.kept = read.range
  BY <1>1
<1>3. ReadInv'
  BY <1>1, <1>2 DEF RInv, ReadInv
<1> QED
  BY <1>1, <1>3 DEF RInv, HandleInv

LEMMA RInvNext == ASSUME LimitAssumption, RInv, [Next]_vars PROVE RInv'
<1>1. CASE Fail
  BY <1>1, EndsReads DEF Fail
<1>2. CASE MakeNewDirOrEmptyFile \/ CopySameFile \/ OpenNewFile
  BY <1>2, ReaderRests DEF MakeNewDirOrEmptyFile, CopySameFile, OpenNewFile
<1>3. CASE FileEntryEnd
  BY <1>1, <1>3, ReaderRests DEF FileEntryEnd
<1>4. CASE WritePiece
  BY <1>4, ReaderRests DEF WritePiece
<1>5. CASE WritePart
  BY <1>1, <1>5, ReaderRests DEF WritePart
<1>6. CASE WriteDone
  BY <1>6, ReaderRests DEF WriteDone
<1>7. CASE MakingFails \/ WriteFails \/ ReadFails
  BY <1>1, <1>7 DEF MakingFails, WriteFails, ReadFails
<1>8. CASE BeginRead
  BY <1>8, BeginReadKeeps
<1>9. CASE SeekRange
  BY <1>9, SeekRangeKeeps
<1>10. CASE ReadPart
  BY <1>10, ReadPartKeeps
<1>11. CASE ReadDone
  BY <1>11, ReadDoneKeeps
<1>12. CASE PatchEnds
  BY <1>12, EndsReads DEF PatchEnds
<1>13. CASE UNCHANGED vars
  BY <1>13, ReaderRests DEF vars
<1> QED
  BY <1>2, <1>3, <1>4, <1>5, <1>6, <1>7, <1>8, <1>9, <1>10, <1>11, <1>12, <1>13 DEF Next

\* What the decoder is given is the old stream, across the files and in any order of
\* reads, and no more files are open than allowed (_refStream_read,
\* _TResHandleLimit_read).
THEOREM OldStreamIsRead ==
    ASSUME LimitAssumption
    PROVE  Spec /\ patch \in Patches => []ReadsOldData
<1>1. Init /\ patch \in Patches => RInv
  BY LimitAssumption, RInvInit
<1>2. RInv /\ [Next]_vars => RInv'
  BY LimitAssumption, RInvNext
<1>3. RInv => ReadsOldData
  BY DEF RInv, ReadInv, HandleInv, ReadsOldData
<1> QED
  BY <1>1, <1>2, <1>3, PTL DEF Spec

-----------------------------------------------------------------------------
(* the abstract decoder                                                     *)

\* The client takes the directory over when the answer is "ok".
Rebuilds == INSTANCE Rebuild
    WITH target <- Target(patch), out <- IF result = "ok" THEN files ELSE <<>>

LEMMA StepRebuilds ==
    ASSUME WInv, WInv', [Next]_vars PROVE [Rebuilds!Next]_(Rebuilds!vars)
<1> DEFINE t == Target(patch)  out == IF result = "ok" THEN files ELSE <<>>
<1>1. t' = t
  <2>1. UNCHANGED patch
    BY DEF Next, vars, Fail, MakeNewDirOrEmptyFile, CopySameFile, OpenNewFile, FileEntryEnd,
       MakingFails, WritePiece, WritePart, WriteDone, WriteFails, BeginRead, SeekRange,
       ReadPart, ReadDone, ReadFails, PatchEnds
  <2> QED
    BY <2>1 DEF Target
<1>2. CASE pc = "end"
  <2>1. UNCHANGED vars
    BY <1>2 DEF Next, vars, Fail, Ready, MakeNewDirOrEmptyFile, CopySameFile, OpenNewFile,
       FileEntryEnd, MakingFails, WritePiece, WritePart, WriteDone, WriteFails, BeginRead,
       SeekRange, ReadPart, ReadDone, ReadFails, PatchEnds
  <2> QED
    BY <1>1, <2>1 DEF Rebuilds!vars, vars
<1>3. CASE pc # "end" /\ result' = "running"
  BY <1>1, <1>3 DEF WInv, WriteType, Rebuilds!vars
<1>4. CASE pc # "end" /\ result' = "failed"
  BY <1>1, <1>4 DEF WInv, WriteType, Rebuilds!Next, Rebuilds!Fail
<1>5. CASE pc # "end" /\ result' = "ok"
  <2>1. result = "running" /\ out = <<>> /\ out' = t
    BY <1>1, <1>5 DEF WInv, WriteType, OkMeansWholeDirectory
  <2>2. t \in Seq(Seq(Data)) /\ Len(t) \in Nat
    <3>1. t = [i \in 1 .. Len(Paths) |-> Paths[i].data]
      BY InputType, LenProperties DEF WInv, Target, Paths
    <3>2. Len(Paths) \in Nat /\ \A i \in 1 .. Len(Paths) : Paths[i].data \in Seq(Data)
      BY InputType DEF WInv
    <3> HIDE DEF t
    <3>3. t \in Seq(Seq(Data))
      BY <3>1, <3>2, IsASeq
    <3> QED
      BY <3>3, LenProperties
  <2>3. SubSeq(t, 1, Len(t)) = t /\ Len(out) = 0
    BY <2>1, <2>2, SubSeqFull, EmptySeq
  <2>4. Len(t) \in Len(out) .. Len(t)
    BY <2>2, <2>3
  <2>5. \E n \in Len(out) .. Len(t) : out' = SubSeq(t, 1, n)
    BY <2>1, <2>3, <2>4
  <2> QED
    BY <1>1, <1>5, <2>1, <2>5 DEF Rebuilds!Next, Rebuilds!Succeed, Rebuilds!Extends
<1> QED
  BY <1>2, <1>3, <1>4, <1>5 DEF WInv, WriteType

\* hpatch_dir is a decoder as Rebuild has it: the directory is taken over whole or not
\* at all, and the answer is given once. That one is given at all is left to TLC.
THEOREM DirectoryRebuilds ==
    ASSUME LimitAssumption
    PROVE  Spec /\ patch \in Patches => Rebuilds!Init /\ [][Rebuilds!Next]_(Rebuilds!vars)
<1>1. Init /\ patch \in Patches => WInv /\ Rebuilds!Init
  <2> SUFFICES ASSUME Init, patch \in Patches PROVE WInv /\ Rebuilds!Init
    OBVIOUS
  <2> QED
    BY WInvInit DEF Init, Rebuilds!Init
<1>2. WInv /\ [Next]_vars => WInv'
  BY LimitAssumption, WInvNext
<1>3. WInv /\ WInv' /\ [Next]_vars => [Rebuilds!Next]_(Rebuilds!vars)
  BY StepRebuilds
<1> QED
  BY <1>1, <1>2, <1>3, PTL DEF Spec
===============================================================================
