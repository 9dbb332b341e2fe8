----------------------------- MODULE MCSession -----------------------------
(***************************************************************************)
(* Small trees for Session.  /d is the launch root; /e is one as long as   *)
(* the client names it, and reached through the link /d/l.  In /e there is *)
(* a link back into /d.                                                    *)
(***************************************************************************)
EXTENDS Session

CONSTANTS c1, c2

MCNoPath == [i \in {0} |-> "none"]

abs(names) == [abs |-> TRUE,  names |-> names]
rel(names) == [abs |-> FALSE, names |-> names]

d  == <<"d">>       e   == <<"e">>           dl == <<"d", "l">>
ea == <<"e", "a">>  eab == <<"e", "a", "b">> ek == <<"e", "k">>

Dirs(paths) == [p \in paths |-> Dir]

Full == Dirs({<< >>, d, e, ea}) @@ (dl :> Link(e)) @@ (eab :> File) @@ (ek :> Link(d))
Gone == Dirs({<< >>, d}) @@ (dl :> Link(e)) @@ (e :> File)

MCTrees == {Full, Gone}
MCArgs  == <<abs(d)>>

Request(op, rec, p) == [op |-> op, rec |-> rec, path |-> p]

\* The second call makes, lists and removes what the first one makes.
MCFirst  == {Request("mkdir", TRUE, rel(<<"l", "a", "b">>))}
MCSecond == {Request("mkdir", FALSE, rel(<<"l", "a", "b">>)), Request("ls", FALSE, rel(<<"l">>)),
             Request("rm", FALSE, rel(<<"l", "a">>)),    Request("rm", TRUE, rel(<<"l", "a">>)),
             Request("rm", TRUE, abs(e)), Request("list_allowed_dirs", FALSE, rel(<< >>))}

MCRequests == (c1 :> MCFirst) @@ (c2 :> MCSecond)
MCRaw      == {q.path : q \in MCFirst \cup MCSecond}
MCDirs    == {abs(e)}
MCAnswers == {NoAnswer, {e}}
=============================================================================
