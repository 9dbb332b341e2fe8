---------------------------- MODULE GlobMeaning ----------------------------
(***************************************************************************)
(* What a path pattern should match.  A caller writes it with atoms: a     *)
(* star, one character out of a set, a slash, a choice between sequences,  *)
(* or something malformed.  Each has its text, and what it stands for is   *)
(* said without any scanning.                                              *)
(***************************************************************************)
EXTENDS Glob

CONSTANT GlobAtoms  \* what patterns are written with

Written(atoms) == FlattenSeq([i \in DOMAIN atoms |-> atoms[i].text])

Slash            == [k |-> "slash", text |-> <<"/">>]
Choice(branches) ==
  [k |-> "choice", branches |-> branches,
   text |-> <<"{">> \o Tail(FlattenSeq([i \in DOMAIN branches |-> <<",">> \o Written(branches[i])]))
            \o <<"}">>]

Chosen[atoms \in Seq(GlobAtoms)] ==
  IF atoms = << >> THEN {<< >>}
  ELSE LET first == IF Head(atoms).k = "choice" THEN UNION {Chosen[b] : b \in ToSet(Head(atoms).branches)}
                    ELSE {<<Head(atoms)>>}
       IN  {a \o b : a \in first, b \in Chosen[Tail(atoms)]}

(***************************************************************************)
(* What patterns are written with.  A bracket is a sequence of items, each *)
(* with its text and the characters it stands for; some texts stand for an *)
(* item only where they cannot be taken for something else.                *)
(***************************************************************************)
Lit(c)    == One(<<c>>, {c})
Quoted(c) == One(<<"\\", c>>, {c})
AnyOne    == One(<<"?">>, Chars)
\* The bracket of "[" and ":".
Odd       == One(<<"[", "[", ":", "]">>, {"[", ":"})

classChars ==
  [alpha |-> Upto("a", "c"), digit |-> Upto("1", "2"),
   punct |-> {"!", "*", "-", ".", ":", "[", "]", "^"}]

Item(c)        == [text |-> <<c>>, set |-> {c}]
QuotedItem(c)  == [text |-> <<"\\", c>>, set |-> {c}]
FromTo(lo, hi) == [text |-> <<lo, "-", hi>>, set |-> Upto(lo, hi)]
ClassItem(n)   == [text |-> <<"[", ":", n, ":", "]">>, set |-> classChars[n]]

Bracket(neg, items) ==
  LET set == UNION {items[i].set : i \in DOMAIN items}
  IN  [k |-> "one", text |-> <<"[">> \o neg \o Written(items) \o <<"]">>,
       chars |-> IF neg = << >> THEN set ELSE Chars \ set, neg |-> neg, items |-> items]

IsItem(neg, items, i) ==
  \/ \E c \in Chars \ {"\\", "-", "{", "}", ","} :
       /\ items[i] = Item(c)
       /\ c = "]" => i = 1
       /\ c \in {"!", "^"} => i > 1 \/ neg # << >>
       /\ c = "[" => i = Len(items) \/ items[i + 1].text[1] # ":"
  \/ \E c \in Chars : items[i] = QuotedItem(c)
  \/ \E lo, hi \in Chars \ {"\\", "-", "{", "}", ",", "[", "]", "!", "^"} : items[i] = FromTo(lo, hi)
  \/ \E n \in DOMAIN classChars : items[i] = ClassItem(n)

IsBracket(a) ==
  /\ a = Bracket(a.neg, a.items) /\ a.neg \in {<< >>, <<"!">>, <<"^">>}
  /\ a.items \in Seq(ToSet(a.items)) /\ a.items # << >>
  /\ \A i \in DOMAIN a.items : IsItem(a.neg, a.items, i)

IsOne(a) ==
  \/ \E c \in Chars \ {"\\", "*", "?", "[", "{", "}", ","} : a = Lit(c)
  \/ \E c \in Chars : a = Quoted(c)
  \/ a \in {AnyOne, Odd}
  \/ IsBracket(a)

\* A backslash with nothing after it, and a bracket that is left open.
Unfinished == Bad(<<"\\">>)

IsOpen(a) ==
  /\ a = Bad(a.text) /\ a.text \in Seq(Symbols) /\ Len(a.text) > 1 /\ a.text[1] = "["
  /\ ToSet(Tail(a.text)) \cap {"\\", "[", "]", "{", "}", ",", "/"} = {}

IsChoice(a) ==
  /\ a.branches \in Seq(Seq(GlobAtoms)) /\ Len(a.branches) > 1
  /\ a = Choice(a.branches) /\ a.text \in Seq(Symbols)
  /\ \A branch \in ToSet(a.branches) : Unfinished \notin ToSet(branch)

ASSUME GlobAtomsAssumption ==
  \A a \in GlobAtoms :
    \/ a \in {Star, Slash, Unfinished}
    \/ a.k = "one" /\ IsOne(a)
    \/ a.k = "bad" /\ IsOpen(a)
    \/ a.k = "choice" /\ IsChoice(a)

\* A segment "**" covers any segments that do not begin with a dot.
SegmentFits(seg, names) ==
  IF seg = <<Star, Star>> THEN \A i \in DOMAIN names : names[i][1] # "."
  ELSE /\ Len(names) = 1
       /\ names[1][1] = "." => Head(seg).text = <<".">>
       /\ Covers(seg, names[1], Fits)

Denotes(atoms, name) ==
  \E flat \in Chosen[atoms] :
    Covers(Segments(flat, LAMBDA a : a.k = "slash"), name, SegmentFits)
=============================================================================
