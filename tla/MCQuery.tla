------------------------------ MODULE MCQuery ------------------------------
(***************************************************************************)
(* All globs of up to three of the atoms below, all of up to four          *)
(* segments, and all regexes of up to three nodes.                         *)
(***************************************************************************)
EXTENDS Query

MCAlphabet == <<"!", "*", "-", ".", "1", "2", ":", "[", "]", "^", "a", "b", "c", "e", "o", "p", "r">>

Group  == Choice(<<<<Lit("a"), Star>>, <<Lit("b"), Slash, Lit("b")>>>>)
Nested == Choice(<<<< >>, <<Lit("."), Choice(<<<<Star>>, <<Lit("b")>>>>)>>>>)

MCAtoms ==
  {Lit("a"), Lit("."), Star, Slash, Group, Nested, AnyOne, Quoted("*"),
   Bracket(<< >>, <<Item("]"), FromTo("a", "b")>>),
   Bracket(<<"!">>, <<ClassItem("alpha"), Item("1")>>)}

\* A bracket that is left open, and a backslash with nothing to escape: at
\* the end of the pattern or of a segment.
Open   == Bad(<<"[", "b">>)
Broken == {Open, Unfinished}

MCGlobAtoms ==
  MCAtoms \cup Broken
  \cup {Odd, Lit("b"), Choice(<<<<Star>>, <<Lit("b")>>>>), Choice(<<<<Open>>, <<Star>>>>)}

Upto2(S) == UNION {[1..n -> S] : n \in 1..2}
Upto3(S) == UNION {[1..n -> S] : n \in 1..3}

\* One to four segments out of "**", "*", "a", each perhaps twice.
Segmented ==
  {Tail(FlattenSeq([i \in DOMAIN s |-> <<Slash>> \o s[i]])) :
     s \in UNION {[1..n -> {<<Star, Star>>, <<Star>>, <<Lit("a")>>}] : n \in 1..4}}

MCGlobs ==
  Upto3(MCAtoms) \cup Segmented
  \cup {Append(g, b) : g \in Upto3({Lit("a"), Star, Slash, Group}), b \in Broken}
  \cup {<<b, Slash, Lit("a")>> : b \in Broken}
  \cup {<<Choice(<<<<Open>>, <<Star>>>>)>>, <<Odd>>, <<Lit("a"), Slash, Odd>>}

MCNames ==
  <<<<<<"a">>>>, <<<<"b", "1">>>>, <<<<"]", "a">>>>, <<<<"*">>>>, <<<<".", "a">>>>, <<<<".", "b">>>>,
    <<<<"a">>, <<"b">>>>, <<<<"a">>, <<".", "b">>>>, <<<<"a">>, <<"a">>, <<"b">>>>,
    <<<<"b">>, <<"a">>, <<"b">>, <<"a">>>>>>

-----------------------------------------------------------------------------
Node(text, meant, sort) == [text |-> text, meant |-> meant, sort |-> sort]
Kept(text)   == Node(text, text, "plain")
Sort(s, text) == Node(text, text, s)
Shorthand(c) == Node(<<"\\", c>>, <<unicodeClassReplacement[c]>>, "plain")

PlainNodes ==
  {Shorthand("d"), Shorthand("W"), Kept(<<"a">>), Kept(<<"A">>), Kept(<<"|">>), Kept(<<"-", "-">>),
   Kept(<<"\\", "\\">>), Kept(<<"\\", "[">>), Kept(<<"\\", "b">>),
   Kept(<<"[", "]", "\\", "d", "]">>), Kept(<<"[", "^", "\\", "]", "-", "\\", "W", "]">>),
   Kept(<<"\\", "Q", "\\", "\\", "d", "\\", "E">>)}

RustNodes ==
  {Sort("rust", <<"[", "]", "a", "&", "&", "b", "]">>), Sort("rust", <<"[", "a", "-", "-", "[", "b", "]", "]">>),
   Sort("rust", <<"\\", "<">>), Sort("rust", <<"\\", "b", "{", "a", "}">>)}

\* Classes whose first "]" does not close them.
NestedNodes ==
  {Sort("nested", <<"[", "^", "]", "\\", "w", "]">>),
   Sort("nested", <<"[", "[", ":", "alpha", ":", "]", "\\", "w", "]">>)}

HiddenNodes ==
  {Sort("hidden", <<"[", "[", "a", "-", "z", "]", "&", "&", "[", "a", "]", "]">>),
   Sort("hidden", <<"[", "[", ":", "alpha", ":", "]", "~", "~", "x", "]">>),
   Sort("hidden", <<"[", "^", "]", "&", "&", "a", "]">>)}

\* A literal that looks like a class, and signs that are doubled by chance.
TrickyNodes ==
  {Sort("tricky", <<"\\", "Q", "[", "-", "-", "\\", "E">>), Sort("tricky", <<"[", "-", "-", "a", "]">>)}

MCRegexes ==
  Upto2(PlainNodes)
  \cup {<<n>> : n \in NestedNodes \cup HiddenNodes \cup TrickyNodes}
  \cup {<<Kept(<<"a">>), Sort("broken", <<"(">>)>>}
  \cup UNION {{<<r>>, <<r, n>>, <<n, r>>} : r \in RustNodes,
                n \in PlainNodes \cup NestedNodes \cup HiddenNodes \cup {Sort("broken", <<"(">>)}}

Options ==
  {DefaultOptions, [DefaultOptions EXCEPT !.smartCase = TRUE, !.word = TRUE],
   [DefaultOptions EXCEPT !.fixed = TRUE, !.smartCase = TRUE, !.line = TRUE]}

MCRequests ==
  [glob : MCGlobs, regex : {<< >>}, opts : {DefaultOptions}]
  \cup [glob : {<< >>}, regex : [1..3 -> PlainNodes], opts : {DefaultOptions}]
  \cup [glob : {<< >>}, regex : MCRegexes, opts : Options]
  \cup [glob : {<<Lit("a")>>, <<Open>>}, regex : {<<r>> : r \in RustNodes}, opts : {DefaultOptions}]
===========================================================================
