------------------------------- MODULE Query -------------------------------
(***************************************************************************)
(* What find and replace do with name_glob and content_regex (search):     *)
(* both are checked before the walk, the glob by one trial match and the   *)
(* regex by compiling it; the walk then asks the glob about each entry.    *)
(*                                                                         *)
(* A caller writes a pattern to mean something: a request holds the atoms  *)
(* of the glob (GlobMeaning) and the nodes of the regex (module Rgx), from *)
(* which both the text the server gets and what it should mean are read.   *)
(***************************************************************************)
EXTENDS GlobMeaning, Rgx

CONSTANTS
  Requests,  \* [glob: atoms, regex: nodes, opts: rgx.Options]; << >>: not given
  Names      \* the names the glob is asked about, in order

VARIABLES
  pc,        \* where the handler is
  req,       \* its arguments
  compiled,  \* what rgx.Compile makes of the regex
  rest,      \* the names still to come
  found,     \* those that matched
  code       \* the error code of the answer, "ok" or "none"

vars == <<pc, req, compiled, rest, found, code>>

NoRequest   == [glob |-> << >>, regex |-> << >>, opts |-> DefaultOptions]
NotCompiled == Compile(<< >>, DefaultOptions)

Probe == <<<<"p", "r", "o", "b", "e">>>>

(***************************************************************************)
(* What the requests and the names are.  Whatever is malformed ends its    *)
(* segment: what followed would otherwise be read together with it.  The   *)
(* walk reports a path once.                                               *)
(***************************************************************************)
EndsSegment(atoms, i) == i = Len(atoms) \/ atoms[i + 1] = Slash

ASSUME GlobsAssumption ==
  \A r \in Requests :
    /\ r.glob \in Seq(GlobAtoms)
    /\ \A i \in DOMAIN r.glob : r.glob[i] = Unfinished => EndsSegment(r.glob, i)
    /\ \A flat \in Chosen[r.glob] : \A i \in DOMAIN flat :
         flat[i].k = "bad" => EndsSegment(flat, i)

ASSUME RegexesAssumption ==
  \A r \in Requests : /\ r.regex \in Seq(ToSet(r.regex))
                      /\ \A n \in ToSet(r.regex) : IsNode(n)

ASSUME NamesAssumption ==
  /\ Names \in Seq(Seq(Seq(Chars) \ {<< >>, <<".">>, <<".", ".">>})) /\ IsInjective(Names)
  /\ ToSet(Probe[1]) \subseteq Chars

-----------------------------------------------------------------------------
Init ==
  /\ pc = "idle" /\ req = NoRequest /\ compiled = NotCompiled
  /\ rest = Names /\ found = {} /\ code = "none"

Begin ==
  /\ pc = "idle" /\ pc' = "glob"
  /\ req' \in Requests
  /\ UNCHANGED <<compiled, rest, found, code>>

Goto(from, to) ==
  /\ pc = from /\ pc' = to
  /\ UNCHANGED <<req, rest, found, code>>

\* A mutant: the return after an error is missing.
Finish_NoReturn(from, answer) ==
  /\ pc = from
  /\ code' = answer
  /\ UNCHANGED <<pc, req, compiled, rest, found>>

Finish(from, answer) ==
  /\ pc = from /\ pc' = "done"
  /\ code' = answer
  /\ UNCHANGED <<req, compiled, rest, found>>

\* A panic in a handler takes the whole process down.
Crash(from) == Goto(from, "crashed") /\ UNCHANGED compiled

-----------------------------------------------------------------------------
NotGiven == req.glob = << >>

\* What glob.Match says of a name, the missing glob accepting them all.
Asked(name) == IF NotGiven THEN "match" ELSE Match(Written(req.glob), name)

GlobAccepted(v) ==
  /\ v \in {"match", "mismatch"}
  /\ Goto("glob", "regex") /\ UNCHANGED compiled

GlobRefused(v) == v = "error" /\ Finish("glob", "INVALID_GLOB")

GlobPanics(v) == v = "panic" /\ Crash("glob")

CheckGlob ==
  /\ pc = "glob"
  /\ \E v \in {Asked(Probe)} : GlobAccepted(v) \/ GlobRefused(v) \/ GlobPanics(v)

\* regexp.Compile: options that quote the pattern make anything acceptable.
GoAccepts == req.opts.fixed \/ "broken" \notin Sorts(req.regex)

RegexAccepted ==
  LET c == Compile(Text(req.regex), req.opts)
  IN  /\ Goto("regex", "walk")
      /\ ~c.unsupported /\ GoAccepts
      /\ compiled' = c

regexErrCode(unsupported) ==
  IF unsupported THEN "UNSUPPORTED_REGEX_SYNTAX" ELSE "INVALID_REGEX"

RegexRefused ==
  LET c == Compile(Text(req.regex), req.opts)
  IN  /\ c.unsupported \/ ~GoAccepts
      /\ Finish("regex", regexErrCode(c.unsupported))

-----------------------------------------------------------------------------
\* PathGlob, asked about one entry of the walk.
Visit(v) ==
  /\ v \in {"match", "mismatch"}
  /\ rest'  = Tail(rest)
  /\ found' = IF v = "match" THEN found \cup {Head(rest)} ELSE found
  /\ UNCHANGED <<pc, req, compiled, code>>

\* An error of the predicate ends the walk; classify knows no better code.
VisitFails(v) == v = "error" /\ Finish("walk", "IO_ERROR")

VisitPanics(v) == v = "panic" /\ Crash("walk")

Look ==
  /\ pc = "walk" /\ rest # << >>
  /\ \E v \in {Asked(Head(rest))} : Visit(v) \/ VisitFails(v) \/ VisitPanics(v)

Done == rest = << >> /\ Finish("walk", "ok")

Stop == pc \in {"done", "crashed"} /\ UNCHANGED vars

Next == Begin \/ CheckGlob \/ RegexAccepted \/ RegexRefused \/ Look \/ Done \/ Stop

Spec == Init /\ [][Next]_vars

-----------------------------------------------------------------------------
(* Properties.                                                             *)

\* Every variable holds values of the kind the code gives it.
TypeOK ==
  /\ pc \in {"idle", "glob", "regex", "walk", "done", "crashed"}
  /\ req \in Requests \cup {NoRequest}
  /\ IsSuffix(rest, Names) /\ found \subseteq ToSet(Names) \ ToSet(rest)
  /\ code \in {"none", "ok", "INVALID_GLOB", "INVALID_REGEX", "UNSUPPORTED_REGEX_SYNTAX", "IO_ERROR"}
  /\ code = "none" <=> pc # "done"

Malformed(atoms) == \E flat \in Chosen[atoms] : \E i \in DOMAIN flat : flat[i].k = "bad"

OneBadSegment(flat) ==
  /\ \A i \in DOMAIN flat : flat[i].k # "slash"
  /\ \E i \in DOMAIN flat : flat[i].k = "bad"

\* Expansion of braces, the memo, the two translations of a bracket and the
\* dot rules together match just the names the pattern was written to match
\* (glob.go:48, :88, :160, :283).
FoundAreDenoted ==
  code = "ok" /\ ~NotGiven /\ ~Malformed(req.glob) =>
    found = {n \in ToSet(Names) : Denotes(req.glob, n)}

\* A name a pattern was written to match is never in error, not even where
\* another alternative is malformed.  The trial is one match with one name
\* (tools.go:625, :709), in which a match of one alternative hides the error
\* of another (glob.go:54): where no alternative was written to match it, the
\* trial finds any that is one malformed segment.  Other errors may come late,
\* against find/SKILL.md:32: that of a segment the trial does not get to, and
\* in {[b,*} that of an alternative beside one that matches.
GlobErrorsAreTrue ==
  /\ code \in {"INVALID_GLOB", "IO_ERROR"} =>
       /\ Malformed(req.glob)
       /\ ~Denotes(req.glob, IF code = "IO_ERROR" THEN Head(rest) ELSE Probe)
  /\ pc = "done" /\ ~Denotes(req.glob, Probe) /\ (\E flat \in Chosen[req.glob] : OneBadSegment(flat))
       => code = "INVALID_GLOB"

MeantText ==
  LET body == IF req.opts.fixed THEN QuoteMeta(Text(req.regex))
              ELSE IF req.opts.unicode THEN Meant(req.regex) ELSE Text(req.regex)
  IN  Wrapped(req.opts.line, "^(?:", Wrapped(req.opts.word, "\\b(?:", body, ")\\b"), ")$")

\* A shorthand outside classes and literals is replaced wherever it stands,
\* and nothing else is; what the replacement or the quoting puts in has no
\* say in smart case (rgx.go:178, :228, :282).
CompiledAsMeant ==
  code = "ok" /\ req.regex # << >> /\ Sorts(req.regex) \subseteq {"plain", "rust", "broken"} =>
    /\ compiled.text = MeantText
    /\ req.opts.smartCase /\ ~req.opts.ignoreCase =>
         compiled.insensitive = (\A i \in DOMAIN Text(req.regex) : Text(req.regex)[i] \notin Upper)

\* A pattern is refused as unsupported just if it has a construct of Rust's
\* that Go lacks, wherever that stands and whatever else is wrong with the
\* pattern; constructs that only look like one pass (rgx.go:244).  So does,
\* against rgx.go:80, one construct that is one: a set operation behind a "]"
\* of its class (sort "hidden"), as in [[a-z]&&[a]].
UnsupportedIsExact ==
  pc = "done" /\ code # "INVALID_GLOB" /\ "tricky" \notin Sorts(req.regex) =>
    (code = "UNSUPPORTED_REGEX_SYNTAX" <=> ~req.opts.fixed /\ "rust" \in Sorts(req.regex))

(***************************************************************************)
(* What the comments and documents say and the code does not do.           *)
(***************************************************************************)

\* "Occurrences already inside a [...] class are left untouched"
\* (rgx.go:277).
ClassesAreLeft ==
  code = "ok" /\ req.opts = DefaultOptions => compiled.text = MeantText

\* "a plain "[:" that isn't a real class falls through to ordinary character
\* handling" (glob.go:263): it never takes the server down.
PlainBracketIsRead == pc # "crashed"
=============================================================================
