---------------------------- MODULE MCBundleArchive ----------------------------
(***************************************************************************)
(* Bundles for BundleArchive: of one file and of two, of every length      *)
(* around a block.                                                         *)
(***************************************************************************)
EXTENDS Sequences

\* Paths around the sizes of the format: short, split once or in two ways, too long
\* for a field, at and over the caps.
AllPaths ==
    {<<"a">>, <<"a", "b", "c">>, <<"a", "/", "b">>, <<"a", "b", "c", "d">>,
     <<"a", "/", "b", "/", "c">>, <<"a", "b", "/", "c", "d", "e">>,
     <<"a", "/", "b", "c", "d", "e">>, <<"a", "b", "c", "d", "/", "e">>,
     <<"a", "b", "c", "d", "e">>, <<"a", "b", "c", "d", "e", "f">>,
     <<"a", "/", "b", "/", "c", "/", "d">>,
     <<"a", "b", "c", "/", "d", "e", "f", "g">>, <<"a", "b", "c", "d", "/", "e", "f", "g">>,
     <<"a", "b", "c", "d", "e", "/", "f", "g", "h">>}
Contents == {<<>>, <<1>>, <<1, 2, 3, 4>>, <<5, 6, 7, 8, 9>>}
File(p, b) == [path |-> p, bytes |-> b]
AllBundles ==
    {<<>>} \cup {<<File(p, b)>> : p \in AllPaths, b \in Contents}
    \cup {<<File(p, <<1, 2, 3, 4>>), File(q, <<5>>)>> : p, q \in AllPaths}
=============================================================================
