-------------------------------- MODULE Glob --------------------------------
(***************************************************************************)
(* internal/glob: bash-like matching of path patterns.                     *)
(*                                                                         *)
(* A pattern is the sequence of its characters, the name of a bracket      *)
(* class counting as one; a name is the sequence of its segments, each a   *)
(* sequence of characters.  What a pattern should match is in GlobMeaning. *)
(***************************************************************************)
EXTENDS Naturals, Sequences, SequencesExt, FiniteSets

CONSTANT Alphabet  \* the characters of names, in the order of their codes

posixClasses ==
  [alpha |-> <<"a", "-", "c">>, digit |-> <<"1", "-", "2">>,
   punct |-> <<"\\", "!", "\\", "*", "\\", "-", "\\", ".", "\\", ":",
               "\\", "[", "\\", "]", "\\", "^">>]

Chars   == ToSet(Alphabet)
Symbols ==
  Chars \cup {"*", "?", "\\", "[", "]", "^", "!", ":", "{", "}", ",", "/", ".", "-"}
  \cup DOMAIN posixClasses \cup UNION {ToSet(posixClasses[c]) : c \in DOMAIN posixClasses}

ASSUME AlphabetAssumption ==
  /\ Alphabet \in Seq(Chars) /\ IsInjective(Alphabet) /\ "/" \notin Chars
  /\ \A n \in DOMAIN posixClasses : ToSet(posixClasses[n]) \subseteq Chars \cup {"\\"}

Code(c) == CHOOSE i \in DOMAIN Alphabet : Alphabet[i] = c
Upto(lo, hi) == {c \in Chars : Code(lo) <= Code(c) /\ Code(c) <= Code(hi)}

Star        == [k |-> "star",  text |-> <<"*">>]
One(t, set) == [k |-> "one",   text |-> t, chars |-> set]
Bad(t)      == [k |-> "bad",   text |-> t]

\* The pieces of a sequence between the positions in cuts.
Extended(pieces, e) == Append(Front(pieces), Append(Last(pieces), e))

Pieces(s, cuts) ==
  LET upto[i \in 0..Len(s)] ==
        IF i = 0 THEN << << >> >>
        ELSE IF i \in cuts THEN Append(upto[i - 1], << >>) ELSE Extended(upto[i - 1], s[i])
  IN  upto[Len(s)]

\* Whether the parts p can be laid over n, one after the other, to its end.
Covers(p, n, Fits(_, _)) ==
  \E cut \in [0..Len(p) -> 0..Len(n)] :
    /\ cut[0] = 0 /\ cut[Len(p)] = Len(n)
    /\ \A i \in 1..Len(p) : /\ cut[i - 1] <= cut[i]
                            /\ Fits(p[i], SubSeq(n, cut[i - 1] + 1, cut[i]))

Fits(atom, cs) ==
  \/ atom.k = "star"
  \/ atom.k = "one" /\ Len(cs) = 1 /\ cs[1] \in atom.chars

-----------------------------------------------------------------------------
(* filepath.Match, on one segment.  A pattern that cannot be read is an    *)
(* error whatever the name: its rest is looked at even after a mismatch.   *)

\* getEsc: the character at the head of q, how much it takes, if it is one.
Esc(q) ==
  IF q = << >> \/ q[1] \in {"-", "]"} \/ (q[1] = "\\" /\ Len(q) = 1) THEN [n |-> 0]
  ELSE IF q[1] = "\\" THEN [n |-> 2, c |-> q[2]] ELSE [n |-> 1, c |-> q[1]]

Drop(q, n) == SubSeq(q, n + 1, Len(q))

\* The ranges of a class up to the "]" that closes it.
Ranges[q \in Seq(Symbols)] ==
  LET lo   == Esc(q)
      dash == Len(q) > lo.n /\ q[lo.n + 1] = "-"
      hi   == IF dash THEN Esc(Drop(q, lo.n + 1)) ELSE lo
      rest == Drop(q, IF dash THEN lo.n + 1 + hi.n ELSE lo.n)
      more == Ranges[rest]
  IN  IF lo.n = 0 \/ hi.n = 0 \/ rest = << >> THEN [ok |-> FALSE]
      ELSE IF rest[1] = "]" THEN [ok |-> TRUE, set |-> Upto(lo.c, hi.c), rest |-> Tail(rest)]
      ELSE IF more.ok THEN [more EXCEPT !.set = @ \cup Upto(lo.c, hi.c)] ELSE more

Atoms[t \in Seq(Symbols)] ==
  IF t = << >> THEN << >>
  ELSE CASE t[1] = "*" -> <<Star>> \o Atoms[Tail(t)]
         [] t[1] = "?" -> <<One(t, Chars)>> \o Atoms[Tail(t)]
         [] t[1] = "\\" -> IF Len(t) = 1 THEN <<Bad(t)>>
                           ELSE <<One(t, {t[2]})>> \o Atoms[Drop(t, 2)]
         [] t[1] = "[" -> LET neg == Len(t) > 1 /\ t[2] = "^"
                              r   == Ranges[Drop(t, IF neg THEN 2 ELSE 1)]
                          IN  IF ~r.ok THEN <<Bad(t)>>
                              ELSE <<One(t, IF neg THEN Chars \ r.set ELSE r.set)>>
                                   \o Atoms[r.rest]
         [] OTHER -> <<One(t, {t[1]})>> \o Atoms[Tail(t)]

MatchAtoms(atoms, cs) ==
  IF \E i \in DOMAIN atoms : atoms[i].k = "bad" THEN "error"
  ELSE IF Covers(atoms, cs, Fits) THEN "match" ELSE "mismatch"

FilepathMatch(t, cs) == MatchAtoms(Atoms[t], cs)

-----------------------------------------------------------------------------
(* translate: brackets as filepath.Match wants them.                       *)

\* writePosixClass at "[:", where the name of a class and ":]" follow.  In
\* "[:]" the ":]" it finds is the beginning, and the name between them is cut
\* out with bounds in the wrong order.
PosixClass(q) ==
  /\ Len(q) > 4 /\ q[1] = "[" /\ q[2] = ":"
  /\ q[3] \in DOMAIN posixClasses /\ q[4] = ":" /\ q[5] = "]"
Panics(q) == Len(q) > 2 /\ q[1] = "[" /\ q[2] = ":" /\ q[3] = "]"

Failed(how)  == [end |-> how, text |-> << >>, rest |-> << >>]
Before(t, r) == [r EXCEPT !.text = t \o @]

\* The rest of translateBracket's loop: how it ends, what it writes, and what
\* of the pattern is left.
BracketBody[q \in Seq(Symbols)] ==
  IF q = << >> THEN Failed("error")
  ELSE
    CASE q[1] = "]"    -> [end |-> "ok", text |-> <<"]">>, rest |-> Tail(q)]
      [] Panics(q)     -> Failed("panic")
      [] PosixClass(q) -> Before(posixClasses[q[3]], BracketBody[Drop(q, 5)])
      [] q[1] = "\\"   -> IF Len(q) > 1 THEN Before(<<"\\", q[2]>>, BracketBody[Drop(q, 2)])
                          ELSE Before(<<"\\", "\\">>, BracketBody[Tail(q)])
      [] OTHER         -> Before(<<q[1]>>, BracketBody[Tail(q)])

TranslateBracket(q) ==
  LET neg  == Len(q) > 1 /\ q[2] \in {"!", "^"}
      body == Drop(q, IF neg THEN 2 ELSE 1)
      lit  == body # << >> /\ body[1] = "]"
  IN  Before(IF neg THEN <<"[", "^">> ELSE <<"[">>,
             IF lit THEN Before(<<"\\", "]">>, BracketBody[Tail(body)]) ELSE BracketBody[body])

Translate[p \in Seq(Symbols)] ==
  IF p = << >> THEN [end |-> "ok", text |-> << >>, rest |-> << >>]
  ELSE
    CASE p[1] = "\\" -> IF Len(p) = 1 THEN Before(p, Translate[Tail(p)])
                        ELSE Before(SubSeq(p, 1, 2), Translate[Drop(p, 2)])
      [] p[1] = "["  -> LET bracket == TranslateBracket(p)
                        IN  IF bracket.end # "ok" THEN bracket
                            ELSE Before(bracket.text, Translate[bracket.rest])
      [] OTHER       -> Before(<<p[1]>>, Translate[Tail(p)])

\* A name segment that begins with a dot takes a pattern segment that does.
MatchSegment(pattern, name) ==
  LET t == Translate[pattern]
  IN  IF name \in {<<".">>, <<".", ".">>} \/ (name[1] = "." /\ Head(pattern) # ".") THEN "mismatch"
      ELSE IF t.end # "ok" THEN t.end
      ELSE FilepathMatch(t.text, name)

-----------------------------------------------------------------------------
(* matchSegs: segments from the left, "**" first taken for none of them.   *)
(* memo holds the answers found so far, by the lengths of what is left of  *)
(* the pattern and the name; errors are never put there.                   *)

GlobStar == <<"*", "*">>

Memos == SUBSET [key : Nat \X Nat, verdict : {"match", "mismatch"}]
Calls == [pat : Seq(Seq(Symbols)), name : Seq(Seq(Chars)), memo : Memos]

Verdict(v, m) == [verdict |-> v, memo |-> m]
IsMatch(b)    == IF b THEN "match" ELSE "mismatch"

\* A mutant: the key leaves out the pattern.
Key_NameOnly(pat, name) == <<0, Len(name)>>

Key(pat, name) == <<Len(pat), Len(name)>>

Remember(pat, name, r) ==
  IF r.verdict \in {"error", "panic"} THEN r
  ELSE [r EXCEPT !.memo = @ \cup {[key |-> Key(pat, name), verdict |-> r.verdict]}]

MatchSegs[call \in Calls] ==
  LET pat   == call.pat
      name  == call.name
      known == {e \in call.memo : e.key = Key(pat, name)}
      zero  == MatchSegs[[call EXCEPT !.pat = Tail(pat)]]
      one   == MatchSegment(Head(pat), Head(name))
      uncached ==
        IF pat = << >> THEN Verdict(IsMatch(name = << >>), call.memo)
        ELSE IF Head(pat) = GlobStar THEN
          IF zero.verdict # "mismatch" \/ name = << >> \/ Head(name)[1] = "." THEN zero
          ELSE MatchSegs[[call EXCEPT !.name = Tail(name), !.memo = zero.memo]]
        ELSE IF name = << >> THEN Verdict("mismatch", call.memo)
        ELSE IF one # "match" THEN Verdict(one, call.memo)
        ELSE MatchSegs[[call EXCEPT !.pat = Tail(pat), !.name = Tail(name)]]
  IN  IF known # {} THEN Verdict((CHOOSE e \in known : TRUE).verdict, call.memo)
      ELSE Remember(pat, name, uncached)

-----------------------------------------------------------------------------
(* Expand: brace groups.                                                   *)

Least(S) == CHOOSE i \in S : \A j \in S : i <= j

\* What findUnescaped and splitBraceGroup know after a number of characters:
\* whether the next one is escaped, and how deep in braces they are.
Outside == [escape |-> FALSE, depth |-> 0]

Enter(s, c) ==
  CASE s.escape -> [s EXCEPT !.escape = FALSE]
    [] ~s.escape /\ c = "\\" -> [s EXCEPT !.escape = TRUE]
    [] ~s.escape /\ c = "{"  -> [s EXCEPT !.depth = @ + 1]
    [] ~s.escape /\ c = "}"  -> [s EXCEPT !.depth = IF @ = 0 THEN 0 ELSE @ - 1]
    [] OTHER -> s

Nesting(from, p) ==
  LET s[i \in 0..Len(p)] == IF i = 0 THEN from ELSE Enter(s[i - 1], p[i])
  IN  s

\* Every sequence of one of the first and one of the second, in order.
Products(ss, ts) ==
  FlattenSeq([i \in DOMAIN ss |-> [j \in DOMAIN ts |-> ss[i] \o ts[j]]])

Expand[p \in Seq(Symbols)] ==
  LET s      == Nesting(Outside, p)
      opens  == {i \in DOMAIN p : p[i] = "{" /\ ~s[i - 1].escape}
      open   == Least(opens)
      ends   == {i \in DOMAIN p : i > open /\ s[i].depth = 0}
      end    == Least(ends)
      group  == SubSeq(p, open + 1, end - 1)
      commas == {i \in DOMAIN group : /\ group[i] = "," /\ ~s[open + i - 1].escape
                                      /\ s[open + i].depth = 1}
      pieces == Pieces(group, commas)
      alts   == FlattenSeq([i \in DOMAIN pieces |-> Expand[pieces[i]]])
      after  == Expand[Drop(p, end)]
  IN  IF opens = {} \/ ends = {} THEN <<p>>
      ELSE IF commas = {} THEN Products(<<SubSeq(p, 1, end)>>, after)
      ELSE Products(Products(<<SubSeq(p, 1, open - 1)>>, alts), after)

\* What lies between slashes, the empty pieces left out.
Segments(s, IsSlash(_)) ==
  LET pieces == Pieces(s, {i \in DOMAIN s : IsSlash(s[i])})
  IN  FlattenSeq([i \in DOMAIN pieces |-> IF pieces[i] = << >> THEN << >> ELSE <<pieces[i]>>])

splitSegments(p) == Segments(p, LAMBDA c : c = "/")

\* A mutant: an alternative that is in error hides those after it.
Settles_Error(v) == v # "mismatch"

\* The verdict of an alternative that ends the search; a panic ends it too.
Settles(v) == v \in {"match", "panic"}

\* The verdict of the alternatives: that of the first to settle it.
Decided(verdicts) ==
  LET settling == {i \in DOMAIN verdicts : Settles(verdicts[i])}
  IN  IF settling # {} THEN verdicts[Least(settling)]
      ELSE IF "error" \in ToSet(verdicts) THEN "error" ELSE "mismatch"

Match(pattern, name) ==
  LET alts == Expand[pattern]
  IN  Decided([i \in DOMAIN alts |->
                 MatchSegs[[pat |-> splitSegments(alts[i]), name |-> name, memo |-> {}]].verdict])

=============================================================================
