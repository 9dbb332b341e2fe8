---------------------------- MODULE MCFileTools ----------------------------
(***************************************************************************)
(* s is a file of two chunks, l another name of it, t does not exist, and  *)
(* d is a directory and an allowed root.                                   *)
(***************************************************************************)
EXTENDS FileTools

MCNames    == {"s", "l", "t", "d"}
MCChunks   == {"a", "b", "x", "hole"}
MCInodes   == {1, 2, 3, 4}
MCDirs     == {4}
MCLinks    == [n \in MCNames |-> CASE n \in {"s", "l"} -> 1 [] n = "d" -> 4 [] OTHER -> NoInode]
MCContents == [i \in MCInodes |-> IF i = 1 THEN <<"a", "b">> ELSE << >>]

Read(src, encoding) ==
  [NoRequest EXCEPT !.tool = "read", !.src = src, !.encoding = encoding]
WriteTo(dst, data) ==
  [NoRequest EXCEPT !.tool = "write", !.dst = dst, !.data = data, !.fields = {"content"}]
AppendTo(dst, data) == [WriteTo(dst, data) EXCEPT !.append = TRUE]
CopyTo(src, dst, overwrite) ==
  [NoRequest EXCEPT !.tool = "copy", !.src = src, !.dst = dst, !.overwrite = overwrite]
Rm(dst) == [NoRequest EXCEPT !.tool = "rm", !.dst = dst]

MCRequests == {Read("s", "auto"), WriteTo("l", <<"x">>), WriteTo("t", <<"x", "x", "x">>),
               AppendTo("s", <<"x", "x">>), AppendTo("s", <<"b">>), AppendTo("t", <<"b", "x">>),
               CopyTo("s", "t", FALSE), CopyTo("s", "t", TRUE),
               Rm("s"), Rm("t"), CopyTo("s", "d", TRUE),
               Read("s", "text"), CopyTo("t", "s", TRUE), Rm("d"),
               [WriteTo("s", <<"x">>) EXCEPT !.fields = {"content", "blob"}]}

CopyOntoItself == {CopyTo("s", "l", TRUE)}

Symmetric == Permutations(Calls)
=============================================================================
