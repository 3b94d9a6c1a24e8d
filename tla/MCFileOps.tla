------------------------------- MODULE MCFileOps -------------------------------
(* A small instance of FileOps: three names, of files or of directories with room  *)
(* for one entry; the third is the destination of a move, and starts with nothing. *)
EXTENDS FileOps, TLC

CONSTANTS o1, o2, c, i1, i2, i3, i4, a, b, x, v, w

TwoOps     == {o1, o2}
FourInodes == {i1, i2, i3, i4}
Names      == {a, b, c, x}
Paths      == {<<a>>, <<b>>, <<c>>, <<a, x>>, <<b, x>>, <<c, x>>}

Tree(pa, pax, pb, pbx) ==
  [p \in Path |-> CASE p = <<a>> -> pa [] p = <<a, x>> -> pax
                    [] p = <<b>> -> pb [] p = <<b, x>> -> pbx [] p[1] = c -> None]

\* A file beside a directory with nothing, a link, a file in it; two directories,
\* or two files, with a link instead of the second; with texts in which a line is
\* there once, twice or not.
Trees ==
  {Tree(Dir, t, None, None) : t \in {None, Link, <<v, w>>}}
    \cup {Tree(Dir, <<v, w>>, Dir, t) : t \in {None, Link, <<v, v>>}}
    \cup {Tree(<<v, w>>, None, t, None) : t \in {Link, <<v, v>>}}

One(tool, p, option, finds) == [tool |-> tool, src |-> p, dst |-> p, option |-> option, finds |-> finds]

Requests ==
  {One("write", p, option, <<>>) : p \in {<<a>>, <<b, x>>}, option \in {"overwrite", "append"}}
    \cup {One("edit", p, option, finds) : p \in {<<a>>, <<a, x>>}, option \in {"apply", "dry"},
                                           finds \in {<<v>>, <<v, w>>}}
    \cup {One("create", p, "plain", <<>>) : p \in {<<b>>, <<b, x>>}}
    \cup {One("delete", p, option, <<>>) : p \in {<<a>>, <<a, x>>}, option \in {"plain", "recursive"}}
    \cup {[tool |-> tool, src |-> r[1], dst |-> r[2], option |-> "plain", finds |-> <<>>] :
            tool \in {"copy", "move"},
            r \in {<<<<a>>, <<b>>>>, <<<<a, x>>, <<b, x>>>>, <<<<b>>, <<a>>>>, <<<<b>>, <<c>>>>}}

Interchangeable == Permutations(Op)

=============================================================================
