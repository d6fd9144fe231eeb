---------------------------- MODULE MCFileSystem ----------------------------
(***************************************************************************)
(* FileSystem on a small disk: the root, the directory "a" and the file    *)
(* "r" of mkfs, and perhaps room for one more inode.                       *)
(***************************************************************************)
EXTENDS FileSystem

MCNames == {"a", "r"}
Abs(elems) == [abs |-> TRUE, elems |-> elems]
Rel(elems) == [abs |-> FALSE, elems |-> elems]

\* Two levels of directories, the current directory and its parent.
TreePaths ==
  {Abs(<<"a">>), Abs(<<"r">>), Abs(<<"a", "r">>), Abs(<<>>),
   Rel(<<"r">>), Rel(<<"..">>), Rel(<<".">>)}

\* One level, for the runs about descriptors.
RootPaths == {Abs(<<"r">>), Abs(<<"a">>)}

\* All ways to open the paths of a set.  In the tree, O_CREAT and O_TRUNC are both
\* given or neither, and the directory "a" is truncated.
AllOpens(paths) == [path : paths, creat : BOOLEAN, trunc : BOOLEAN]
RootOpens == AllOpens(RootPaths)
TreeOpens ==
  {o \in AllOpens({Abs(<<"r">>), Abs(<<"a", "r">>)}) : o.creat = o.trunc}
    \cup {[path |-> Abs(<<"a">>), creat |-> FALSE, trunc |-> TRUE]}
=============================================================================
