------------------------------ MODULE MCDirPatch ------------------------------
(***************************************************************************)
(* Directory diffs over three old files: entries of every kind, in several *)
(* orders, with and without data.                                          *)
(***************************************************************************)
EXTENDS Naturals, Sequences

\* The bytes that occur in the files.
FileBytes == 1 .. 9

Entry(kind, data) == [kind |-> kind, data |-> data]
Old == <<<<1, 2>>, <<3>>, <<4, 5, 6>>>>

AllPatches ==
    {[old |-> Old, paths |-> p] : p \in {
        <<Entry("dir", <<>>), Entry("ref", <<1, 7>>), Entry("same", <<8>>), Entry("ref", <<4, 5, 9>>)>>,
        <<Entry("ref", <<>>), Entry("ref", <<3>>), Entry("ref", <<2>>), Entry("empty", <<>>), Entry("same", <<5, 6>>)>>,
        <<Entry("same", <<1, 2>>), Entry("dir", <<>>)>>}}
=============================================================================
