------------------------------- MODULE FileMC -------------------------------
(***************************************************************************)
(* A disk for the model checker, with clusters of two sectors of four      *)
(* bytes. In the root: file a of one cluster, file bb.x on two clusters    *)
(* that do not follow each other, directory d with a deleted entry before  *)
(* its files, and directory ee, with a file x of its own and a directory   *)
(* d.                                                                      *)
(***************************************************************************)
EXTENDS File

Entry(name, ext, type, cluster, size, entries) ==
  [filename |-> name, ext |-> ext, type |-> type, cluster |-> cluster,
   size |-> size, entries |-> entries]

One(letter) == <<letter, Space>>
None == <<Space>>

DiskItems ==
  [i \in {"a", "b", "d", "dx", "dy", "e", "ex", "ed"} |->
     CASE i = "a"  -> Entry(One("A"), None, "FILE", 2, 5, <<>>)
       [] i = "b"  -> Entry(<<"B", "B">>, <<"X">>, "FILE", 3, 11, <<>>)
       [] i = "d"  -> Entry(One("D"), None, "DIRECTORY", 6, 0, <<Deleted, "dx", "dy">>)
       [] i = "dx" -> Entry(One("X"), None, "FILE", 7, 3, <<>>)
       [] i = "dy" -> Entry(One("Y"), None, "FILE", 8, 3, <<>>)
       [] i = "e"  -> Entry(<<"E", "E">>, None, "DIRECTORY", 9, 0, <<"ex", "ed">>)
       [] i = "ex" -> Entry(One("X"), None, "FILE", 10, 7, <<>>)
       [] i = "ed" -> Entry(One("D"), None, "DIRECTORY", 11, 0, <<"ex">>)]

DiskLower == [c \in {"A", "B", "D", "E", "X", "Y"} |->
  CASE c = "A" -> "a" [] c = "B" -> "b" [] c = "D" -> "d"
    [] c = "E" -> "e" [] c = "X" -> "x" [] c = "Y" -> "y"]

DiskRoot == <<"a", "b", "d", "e">>

\* b goes from cluster 3 to cluster 5; every other chain is one cluster.
DiskFat == [c \in 0 .. 11 |-> IF c = 3 THEN 5 ELSE 65535]

bb == <<"b", "B", ".", "x">>
d  == <<"d">>
ee == <<"e", "E">>
x  == <<"x">>
y  == <<"y">>

DiskPaths ==
  {[drive |-> 0, parts |-> parts] :
     parts \in {<<bb>>, <<d>>, <<d, x>>, <<d, y>>, <<ee, x>>, <<ee, d, x>>,
                <<<<"a">>, x>>, <<x>>, <<ee, <<>>, x>>, <<<<>>>>}}
  \cup {[drive |-> 1, parts |-> <<bb>>], [drive |-> -EBADPATH, parts |-> <<bb>>]}

DiskOffsets == {-1, 3}
=============================================================================
