-------------------------------- MODULE Rgx --------------------------------
(***************************************************************************)
(* internal/rgx: ripgrep patterns made into Go's.  A pattern is the        *)
(* sequence of its characters; what the translation puts in for a class    *)
(* shorthand, or wraps a pattern in, is one element.  Go's regexp itself   *)
(* is not modelled.                                                        *)
(***************************************************************************)
EXTENDS Naturals, Sequences, SequencesExt, FiniteSets

Shorthands  == {"d", "D", "w", "W", "s", "S"}
unicodeClassReplacement ==
  [d |-> "\\p{Nd}", w |-> "[\\p{L}\\p{M}\\p{Nd}\\p{Pc}]", s |-> "[\\t\\n\\v\\f\\r \\x{85}\\p{Z}]",
   D |-> "\\P{Nd}", W |-> "[^\\p{L}\\p{M}\\p{Nd}\\p{Pc}]", S |-> "[^\\t\\n\\v\\f\\r \\x{85}\\p{Z}]"]

\* Elements with an upper-case letter in them, and those QuoteMeta escapes.
Upper == {"A", "D", "E", "Q", "S", "W"} \cup {unicodeClassReplacement[c] : c \in Shorthands}
Meta  == {"\\", "[", "]", "(", ")", "{", "}", "^", "$", "|", "*", "+", "?", "."}

DefaultOptions == [ignoreCase |-> FALSE, smartCase |-> FALSE, fixed |-> FALSE,
                   word |-> FALSE, line |-> FALSE, multiline |-> FALSE, unicode |-> TRUE]

(***************************************************************************)
(* The scanners' state after each character: inside a class, which began   *)
(* at "from"; after a backslash; in a \Q...\E literal, of which only one   *)
(* of the two scanners takes notice.                                       *)
(***************************************************************************)
Start == [inClass |-> FALSE, from |-> 0, escape |-> FALSE, quote |-> FALSE]

\* A mutant: a "]" that stands first closes the class.
Closes_AtOnce(s, p, i) == s.inClass /\ p[i] = "]"

Closes(s, p, i) == s.inClass /\ p[i] = "]" /\ i > s.from + 1

Read(s, p, i, quotes) ==
  LET more == i < Len(p)
  IN  CASE s.escape ->
             [s EXCEPT !.escape = FALSE,
                       !.quote = quotes /\ ~s.quote /\ ~s.inClass /\ p[i] = "Q"]
        [] ~s.escape /\ p[i] = "\\" /\ more ->
             [s EXCEPT !.escape = ~s.quote \/ p[i + 1] = "E"]
        [] ~s.escape /\ ~s.quote /\ ~s.inClass /\ p[i] = "[" ->
             [s EXCEPT !.inClass = TRUE, !.from = i]
        [] ~s.escape /\ ~s.quote /\ Closes(s, p, i) -> [s EXCEPT !.inClass = FALSE]
        [] OTHER -> s

\* The state in which the i-th character is met.
Scanned(p, i, quotes) ==
  LET s[j \in 1..i] == IF j = 1 THEN Start ELSE Read(s[j - 1], p, j - 1, quotes)
  IN  s[i]

-----------------------------------------------------------------------------
SetOperation(p, i) ==
  /\ Scanned(p, i, FALSE).inClass /\ ~Scanned(p, i, FALSE).escape
  /\ i < Len(p) /\ p[i] \in {"&", "-", "~"} /\ p[i + 1] = p[i]

Boundary(p, i) ==
  /\ ~Scanned(p, i, FALSE).inClass /\ ~Scanned(p, i, FALSE).escape
  /\ i < Len(p) /\ p[i] = "\\"
  /\ \/ p[i + 1] \in {"<", ">"}
     \/ p[i + 1] = "b" /\ i + 1 < Len(p) /\ p[i + 2] = "{"

checkUnsupported(p) == \E i \in DOMAIN p : SetOperation(p, i) \/ Boundary(p, i)

\* A mutant: a shorthand in a class is rewritten too.
Rewritten_InClass(p, i) ==
  LET s == Scanned(p, i, TRUE)
  IN  /\ ~s.escape /\ ~s.quote
      /\ i < Len(p) /\ p[i] = "\\" /\ p[i + 1] \in Shorthands

\* A shorthand that begins at i and is rewritten.
Rewritten(p, i) ==
  LET s == Scanned(p, i, TRUE)
  IN  /\ ~s.inClass /\ ~s.escape /\ ~s.quote
      /\ i < Len(p) /\ p[i] = "\\" /\ p[i + 1] \in Shorthands

translateUnicodeClasses(p) ==
  FlattenSeq([i \in DOMAIN p |->
                IF Rewritten(p, i) THEN <<unicodeClassReplacement[p[i + 1]]>>
                ELSE IF i > 1 /\ Rewritten(p, i - 1) THEN << >>
                ELSE <<p[i]>>])

QuoteMeta(p) == FlattenSeq([i \in DOMAIN p |-> IF p[i] \in Meta THEN <<"\\", p[i]>> ELSE <<p[i]>>])

hasUpper(p) == \E i \in DOMAIN p : p[i] \in Upper

Wrapped(is, before, p, after) == IF is THEN <<before>> \o p \o <<after>> ELSE p

\* Compile, up to regexp.Compile: the pattern it hands on and its flags.
Compile(p, o) ==
  LET body == IF o.fixed THEN QuoteMeta(p)
              ELSE IF o.unicode THEN translateUnicodeClasses(p) ELSE p
  IN  [unsupported |-> ~o.fixed /\ checkUnsupported(p),
       insensitive |-> o.ignoreCase \/ (o.smartCase /\ ~hasUpper(p)),
       dotall      |-> o.multiline,
       text        |-> Wrapped(o.line, "^(?:", Wrapped(o.word, "\\b(?:", body, ")\\b"), ")$")]
-----------------------------------------------------------------------------
(* What a pattern is written with: nodes, each with its text, with what    *)
(* should become of that, and of a sort:                                   *)
(*   "plain"   the scanners should see through it;                         *)
(*   "nested"  a class with a "]" in it that does not close it, from which *)
(*             on the scanners take its rest for text outside of classes;  *)
(*   "rust"    it has no equivalent in Go;                                 *)
(*   "hidden"  nor has this, a set operation in such a rest;               *)
(*   "broken"  Go rejects it;   "tricky"  anything else.                   *)

Bare(t) == t # << >> /\ t[1] # "{" /\ ToSet(t) \cap {"\\", "["} = {}

(***************************************************************************)
(* Classes as Rust reads them: a "[" inside opens another one, as that of  *)
(* [:alpha:] may be taken to, and a "]" closes the innermost, but for one  *)
(* that stands first.  Escapes begin at the positions esc.                 *)
(***************************************************************************)
Unescaped(t, esc, c) == {i \in DOMAIN t : t[i] = c /\ i - 1 \notin esc}

StandsFirst(t, esc, i) ==
  \E o \in Unescaped(t, esc, "[") : i = o + 1 \/ (i = o + 2 /\ t[o + 1] = "^")

Closers(t, esc) == {i \in Unescaped(t, esc, "]") : ~StandsFirst(t, esc, i)}

\* More are opened than closed up to the last character, and then no more; no
\* class in a class begins with a "]"; and none has an escape in it that Rust
\* does not know there.
IsClass(t, esc) ==
  /\ Len(t) > 2 /\ t[1] = "[" /\ t[Len(t)] = "]"
  /\ \A i \in 2..(Len(t) - 1) : i \in esc <=> t[i] = "\\" /\ i - 1 \notin esc
  /\ \A i \in esc : t[i + 1] \notin {"<", ">", "b", "Q"}
  /\ \A i \in Unescaped(t, esc, "]") :
       StandsFirst(t, esc, i) => i = 2 \/ (i = 3 /\ t[2] = "^")
  /\ \A i \in DOMAIN t :
       Cardinality({k \in Closers(t, esc) : k <= i})
         < Cardinality({k \in Unescaped(t, esc, "[") : k <= i}) <=> i < Len(t)

\* A sign that is doubled operates on sets, but for the second end of a range
\* and for a "-" that stands first.
Doubled(t, esc) ==
  {i \in 2..(Len(t) - 1) : t[i] \in {"&", "-", "~"} /\ t[i + 1] = t[i] /\ i - 1 \notin esc}

Operations(t, esc) ==
  {i \in Doubled(t, esc) : t[i - 1] # "-" /\ (t[i] = "-" => ~StandsFirst(t, esc, i))}

\* What follows a "[" with no "]" in between.  The one that opens the whole
\* class may be followed by a "]" that stands for itself.
Seen(t, esc, i) ==
  \E k \in Unescaped(t, esc, "[") :
    k < i /\ \A j \in Unescaped(t, esc, "]") : j \in (k + 1)..(i - 1) => j = 2

ClassSort(t, esc) ==
  LET seen == {i \in Doubled(t, esc) : Seen(t, esc, i)}
  IN  IF Operations(t, esc) \cap seen # {} THEN "rust"
      ELSE IF Operations(t, esc) # {} /\ seen = {} THEN "hidden"
      ELSE IF Doubled(t, esc) # {} THEN "tricky"
      ELSE IF \A i \in 2..Len(t) : Seen(t, esc, i) THEN "plain" ELSE "nested"

ClassOf(t, sort) ==
  \E esc \in SUBSET {i \in 2..(Len(t) - 2) : t[i] = "\\"} :
    IsClass(t, esc) /\ ClassSort(t, esc) = sort

\* \Q...\E around what would be no class and no boundary outside of it.
IsLiteral(t) ==
  /\ Len(t) > 3 /\ SubSeq(t, 1, 2) = <<"\\", "Q">> /\ SubSeq(t, Len(t) - 1, Len(t)) = <<"\\", "E">>
  /\ \A i \in 3..(Len(t) - 2) : /\ t[i] \notin {"[", "<", ">", "{"}
                                /\ t[i] = "\\" => t[i + 1] # "E"

IsShorthand(n) ==
  \E c \in Shorthands : n.text = <<"\\", c>> /\ n.meant = <<unicodeClassReplacement[c]>>

IsEscape(t) == Len(t) = 2 /\ t[1] = "\\" /\ t[2] \notin Shorthands \cup {"<", ">", "Q"}

IsBoundary(t) ==
  \/ t \in {<<"\\", "<">>, <<"\\", ">">>}
  \/ /\ Len(t) > 3 /\ SubSeq(t, 1, 3) = <<"\\", "b", "{">>
     /\ ToSet(SubSeq(t, 4, Len(t))) \cap {"\\", "["} = {}

IsNode(n) ==
  /\ n.text \in Seq(STRING)
  /\ \/ n.sort = "plain" /\ n.meant = n.text
        /\ (Bare(n.text) \/ IsEscape(n.text) \/ IsLiteral(n.text) \/ ClassOf(n.text, "plain"))
     \/ n.sort = "plain" /\ IsShorthand(n)
     \/ n.sort \in {"rust", "nested", "hidden"} /\ ClassOf(n.text, n.sort)
     \/ n.sort = "rust" /\ IsBoundary(n.text)
     \/ n.sort = "broken" /\ Bare(n.text)
     \/ n.sort = "tricky"

\* The pattern as the server gets it, and as it should hand it on.
Text(nodes)  == FlattenSeq([i \in DOMAIN nodes |-> nodes[i].text])
Meant(nodes) == FlattenSeq([i \in DOMAIN nodes |-> nodes[i].meant])
Sorts(nodes) == {nodes[i].sort : i \in DOMAIN nodes}
=============================================================================
