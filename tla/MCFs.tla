------------------------------- MODULE MCFs -------------------------------
(* Fs on small sets. *)
EXTENDS Fs

Abs(e) == [abs |-> TRUE, elems |-> e]
Rel(e) == [abs |-> FALSE, elems |-> e]
Op(op, path) == [op |-> op, path |-> path, dst |-> <<>>]

\* A directory or file /a, a file b in the current directory, which may be /a
\* and may be removed; up again.
MCCalls ==
  {Op("mkdir", Abs(<<"a">>)), Op("unlink", Abs(<<"a">>)), Op("chdir", Abs(<<"a">>)),
   Op("create", Rel(<<"b">>)), Op("unlink", Rel(<<"b">>)), Op("chdir", Rel(<<DotDot>>)),
   [op |-> "link", path |-> Rel(<<"b">>), dst |-> Abs(<<"a">>)]}

\* A directory b in the current directory, and the path names that remove it
\* and its parent from elsewhere.
MCNested ==
  {Op("mkdir", Abs(<<"a">>)), Op("chdir", Abs(<<"a">>)), Op("unlink", Abs(<<"a">>)),
   Op("mkdir", Rel(<<"b">>)), Op("chdir", Rel(<<"b">>)), Op("unlink", Abs(<<"a", "b">>)),
   Op("open", Rel(<<DotDot>>))}

Symmetry == Permutations(Procs)
=============================================================================
