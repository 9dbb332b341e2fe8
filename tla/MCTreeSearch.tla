--------------------------- MODULE MCTreeSearch ---------------------------
(***************************************************************************)
(* The root is <<1>>, <<2>> is outside.  Names: 0 is hidden.  Below the    *)
(* root a directory <<1, 2>> comes between <<1, 1>> and <<1, 3>>, which    *)
(* are files, links or a pipe.                                             *)
(***************************************************************************)
EXTENDS TreeSearch

Below(p, names) == {Append(p, n) : n \in names}

MCPaths ==
  {<< >>, <<1>>, <<2>>, <<2, 3>>} \cup Below(<<1>>, 0..3) \cup Below(<<1, 2>>, 1..3)

MCRoot   == <<1>>
MCInside == {p \in MCPaths : IsPrefix(MCRoot, p)}

Tree(dirs, found, links) ==
  [p \in MCPaths |-> CASE p \in {<< >>, <<1>>, <<2>>, <<1, 2>>} \cup dirs -> "dir"
                       [] p \in found                                  -> "file"
                       [] p \in links                                  -> "link"
                       [] OTHER                                        -> "none"]

\* A link to a directory, one outside, to what is there in one tree and not in
\* the other, and one through another link to a hidden file.
MCTarget == [p \in MCPaths |-> CASE p = <<1, 1>>    -> <<1, 2>>
                                 [] p = <<1, 3>>    -> <<1, 0>>
                                 [] p = <<1, 2, 2>> -> <<1, 3>>
                                 [] OTHER           -> <<2, 3>>]

\* A file the server may not read, if another program creates it.
MCLocked == {<<1, 2, 3>>}

PlainTrees ==
  {[Tree({}, {<<1, 1>>, <<1, 2, 1>>, <<1, 2, 2>>, <<2, 3>>}, {}) EXCEPT ![<<1, 3>>] = "pipe"]}
LinkedTrees ==
  {Tree({}, {<<1, 0>>, <<1, 2, 1>>, <<2, 3>>}, {<<1, 1>>, <<1, 3>>, <<1, 2, 2>>, <<1, 2, 3>>})}
DanglingTrees == {Tree({}, {<<1, 2, 1>>}, {<<1, 2, 3>>})}
MCTrees       == PlainTrees \cup LinkedTrees \cup DanglingTrees

MCTexts == {[p \in MCPaths |-> CASE p = <<1, 2, 1>> -> 0 [] p = <<1, 2, 2>> -> Binary [] OTHER -> 1]}

MCHits == 0..1

\* What other programs change: the directory, files in it, where it leads.
MCTouched == {<<1, 2>>, <<1, 2, 1>>, <<1, 2, 3>>, <<1, 3>>, <<2, 3>>}
MCEnds    == {<<2>>, <<1, 2, 1>>}

Find(regex, max) == [NoRequest EXCEPT !.tool = "find", !.glob = Paths, !.regex = regex, !.max = max]
Substitute(grows, max, dry) ==
  [NoRequest EXCEPT !.tool = "replace", !.glob = Paths, !.max = max, !.grows = grows, !.dry = dry]

MCRequests ==
  {Find(FALSE, 0), Substitute(0, 2, FALSE), Substitute(1, 0, FALSE), Substitute(0, 0, TRUE),
   [Find(TRUE, 1) EXCEPT !.glob = {<<1, 3>>, <<1, 2, 1>>}]}
===========================================================================
