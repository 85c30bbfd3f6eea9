---------------------------- MODULE MCPatchStream ----------------------------
(***************************************************************************)
(* Diffs for PatchStream: everything DiffStream writes for a few pairs of  *)
(* streams, whole or cut short.                                            *)
(***************************************************************************)
EXTENDS DiffStream

CONSTANT MaxCovers

\* Old data, and new data that shares runs with it: equal, shifted, changed.
Streams == {
    <<<<1, 2, 0, 7, 3, 1, 0, 5>>, <<1, 2, 0, 7, 3, 4, 0, 5, 6, 6>>>>,
    <<<<1, 2, 3, 4, 5, 6, 7, 0>>, <<3, 5, 5, 0, 2, 7, 7, 2, 1>>>>,
    <<<<2, 2, 2>>, <<2, 2, 2, 2, 2, 2, 2>>>>,
    <<<<5>>, <<1, 2, 3>>>>,
    <<<<>>, <<4, 1>>>>,
    <<<<1, 2>>, <<>>>>}

\* The cover lists of a pair: in order of the new data, apart from each other.
CoverLists(old, new) ==
    LET one == {Cover(o, n, l) : o \in {0, 1, 4}, n \in 0 .. Len(new), l \in {2, 5, 8}}
        inside == {c \in one : c.oldPos + c.length <= Len(old) /\ c.newPos + c.length <= Len(new)}
        follows(c, d) == c.newPos + c.length <= d.newPos
    IN {<<>>} \cup {<<c>> : c \in inside}
       \cup (IF MaxCovers < 2 THEN {}
             ELSE {cd \in inside \X inside : follows(cd[1], cd[2])})
       \cup (IF MaxCovers < 3 THEN {}
             ELSE {cde \in inside \X inside \X inside : follows(cde[1], cde[2]) /\ follows(cde[2], cde[3])})

Written(stepMemSizes) ==
    {d \in UNION {{Diff(s[1], s[2], cs, m) : cs \in CoverLists(s[1], s[2]), m \in stepMemSizes}
                  : s \in Streams} : ~d.thrown}

CutShort(ds) ==
    UNION {{[d EXCEPT !.body = SubSeq(@, 1, n), !.complete = FALSE] :
            n \in {0, Len(d.body) \div 2, Len(d.body) - 1}} : d \in ds}

WithCuts(ds) == ds \cup CutShort(ds)
AllDiffs == WithCuts(Written({10, 14}))
=============================================================================
