------------------------------ MODULE MCInode ------------------------------
(* Inode for TLC: an initial tree and the system calls of a configuration.  *)
EXTENDS Inode, TLC
Symmetry == Permutations(Procs)

Dir(nlink, ents) == [type |-> "dir", nlink |-> nlink, addr |-> Nil, ents |-> ents @@ NoEnts]

\* mkfs with a file of two names, /b and /d/b.
SmallTree ==
  << Dir(2, "." :> 1 @@ ".." :> 1 @@ "d" :> 2 @@ "b" :> 3),
     Dir(1, "." :> 2 @@ ".." :> 1 @@ "b" :> 3),
     [Free EXCEPT !.type = "file", !.nlink = 2] >>

Call(op, path) == [op |-> op, path |-> path, new |-> <<>>, wr |-> TRUE]

\* Files come and go at /a; directories too, but no call walks through them.
\* /b and /d stay.
FileCalls ==
  {Call("create", <<"/", "a">>), Call("unlink", <<"/", "a">>), Call("open", <<"/", "a">>),
   Call("mkdir", <<"/", "a">>), Call("write", <<>>), Call("close", <<>>),
   [Call("link", <<"/", "b">>) EXCEPT !.new = <<"/", "a">>],
   Call("unlink", <<"/", "d">>), Call("chdir", <<"/">>)}

\* The theorems about the file system apply to this tree and these calls.
ASSUME TreeAndCalls == MkfsTree /\ CallsStayOut
=============================================================================
