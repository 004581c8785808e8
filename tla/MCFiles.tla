------------------------------ MODULE MCFiles ------------------------------
(***************************************************************************)
(* Files on a small tree: the data directory, the names d and g, and a     *)
(* name below d.  An empty file over one that is not shows whether a write *)
(* leaves something behind; two blocks, whether a read takes them all.     *)
(***************************************************************************)
EXTENDS FileStore, TLC

SmallTree == {<<>>, <<"d">>, <<"d", "f">>, <<"g">>}

FullOrEmpty == {<<>>, <<"b">>}

TwoBlocks == {<<"b", "b">>}

Symmetry == Permutations(Reqs) \cup Permutations(Inodes)

=============================================================================
