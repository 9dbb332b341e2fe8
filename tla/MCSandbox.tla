----------------------------- MODULE MCSandbox -----------------------------
(***************************************************************************)
(* Small trees for Sandbox.  /d is the launch root, /e a directory outside *)
(* it, /d/l what the trees disagree on.                                    *)
(***************************************************************************)
EXTENDS Sandbox, FiniteSets

abs(names) == [abs |-> TRUE,  names |-> names]
rel(names) == [abs |-> FALSE, names |-> names]

d == <<"d">>      e == <<"e">>      dl == <<"d", "l">>      k == <<"k">>

Dirs(paths) == [p \in paths |-> Dir]
Base        == Dirs({<< >>, d, e}) @@ (k :> Link(e))

Linked   == Base @@ (dl :> Link(e))            \* /d/l leads out of /d
Replaced == Base @@ (dl :> Dir)                \* /d/l is a directory
Filed    == Base @@ (dl :> File)               \* /d/l is a file
Dangling == Dirs({<< >>, d}) @@ (dl :> Link(e)) @@ (k :> Link(e))  \* /e was removed

MCTrees == {Linked, Replaced, Filed, Dangling}
MCArgs  == <<abs(d)>>
MCCwd   == e

\* A new file behind /d/l, and /e; /k is always a link to /e.
MCRaw     == {rel(<<"l", "new">>), abs(e)}
MCDirs    == {abs(k), abs(dl)}
MCAnswers == {{}, {e, NotFileURI}}

\* For the runs about one path or one list.
NoPaths     == {}
NoRoots     == {{}}
OneChange   == {{e}, {}}
StillTree   == {Linked}

Symmetric == Permutations(Calls)
=============================================================================
