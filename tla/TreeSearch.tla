----------------------------- MODULE TreeSearch -----------------------------
(***************************************************************************)
(* internal/walk and the two tools built on it, find and replace: a walk   *)
(* over a tree that other programs change between its system calls, then,  *)
(* for replace, one read and one write per file found.                     *)
(*                                                                         *)
(* A path is the sequence of its names; names are numbers in their         *)
(* lexicographic order.  Every system call follows the links on its path   *)
(* anew.  Of a text only the number of matches of the pattern searched for *)
(* is kept.                                                                *)
(***************************************************************************)
EXTENDS Naturals, Sequences, FiniteSets, SequencesExt

CONSTANTS
  Names, Hidden,   \* names, and those that begin with a dot
  Paths,           \* bound: the paths there may be
  Root,            \* the root of the walk
  Inside,          \* the paths the allowed roots cover
  Locked,          \* paths the server may not read
  Hits, Binary,    \* the texts: match counts, and what is not UTF-8
  Trees, Texts,    \* the initial trees, and the texts in them
  Target,          \* where the initial symbolic links point
  MaxLinks,        \* links a system call follows before it gives up
  Nowhere,         \* where a path leads that cannot be followed
  Requests,        \* the arguments callers pass
  DefaultMaxResults,
  Touched, Ends,   \* bound: the paths other programs change, and where they
                   \* point links
  MaxChanges       \* bound: changes by other programs

Kinds == {"none", "dir", "file", "pipe", "link"}
Text  == Hits \cup {Binary}

NoRequest == [tool |-> "none", glob |-> {}, regex |-> FALSE, max |-> 0,
              dry |-> FALSE, grows |-> 0]

ASSUME SearchAssumption ==
  /\ Names \subseteq Nat /\ IsFiniteSet(Names) /\ Hidden \subseteq Names
  /\ Hits \subseteq Nat /\ 0 \in Hits /\ Binary \notin Nat
  /\ Trees \subseteq [Paths -> Kinds] /\ Texts \subseteq [Paths -> Text]
  /\ Target \in [Paths -> Paths] /\ Nowhere \notin Paths
  /\ DefaultMaxResults \in Nat /\ MaxChanges \in Nat /\ MaxLinks \in Nat

\* What is above a path is a path, and what is below a path inside is inside.
ASSUME PathAssumption ==
  /\ Paths \subseteq Seq(Names)
  /\ \A p \in Paths : \A i \in 0..Len(p) : SubSeq(p, 1, i) \in Paths
  /\ Root \in Inside /\ Inside \subseteq Paths
  /\ \A p \in Inside, q \in Paths : IsPrefix(p, q) => q \in Inside
  /\ Touched \subseteq Paths \ {<< >>} /\ Ends \subseteq Paths

\* Whatever exists has a directory above it.
WellFormedTree(k) ==
  /\ k[<< >>] = "dir"
  /\ \A p \in Paths : k[p] # "none" /\ p # << >> => k[Front(p)] = "dir"

\* No link is on the way to the root.
ASSUME TreeAssumption ==
  \A k \in Trees : WellFormedTree(k) /\ \A q \in Paths : IsPrefix(q, Root) => k[q] # "link"

\* A negative max_results counts as 0.
ASSUME SearchRequestAssumption ==
  \A r \in Requests :
    /\ r.tool \in {"find", "replace"} /\ {r.regex, r.dry} \subseteq BOOLEAN
    /\ r.max \in Nat /\ r.grows \in Nat

VARIABLES
  kind, text,  \* the tree
  target,      \* where the links in it point
  pc, req,     \* where the call is, and its arguments
  stack,       \* the directories being walked: their path and entries left
  cur,         \* the path at hand
  matches,     \* Result.Matches
  truncated,   \* Result.Truncated
  files,       \* replace: the files reported so far, with their counts
  at,          \* replace: the index of the match at hand
  loaded,      \* replace: the text it read
  open,        \* replace: the file it is writing, or Nowhere
  result,      \* "none", "ok" or "failed"
  changes,
  \* History, read by the properties alone:
  steady,      \* the files that qualified all through the call
  ever,        \* those that qualified at some moment of it
  before,      \* the texts when the call began
  relinked,    \* paths where a link was put, taken away or led elsewhere
  alone        \* no other program has changed anything since

tree    == <<kind, text, target>>
walking == <<stack, cur, matches, truncated>>
writing == <<files, at, loaded, open>>
history == <<steady, ever, before, relinked, alone>>
vars    == <<tree, pc, req, walking, writing, result, changes, history>>

-----------------------------------------------------------------------------
(* The tree.                                                               *)

\* Replace the first link on the way, if there is one, by what it points to.
LinksOn(links, p) == {q \in DOMAIN links : IsPrefix(q, p)}

FollowOnce(links, p) ==
  LET on    == LinksOn(links, p)
      first == CHOOSE q \in on : \A r \in on : Len(q) <= Len(r)
  IN  IF on = {} THEN p ELSE links[first] \o SubSeq(p, Len(first) + 1, Len(p))

\* Where the system takes a path.  What so many links lead to is kept as a
\* set of one path, for TLC to compute it once.
Real(links, p) ==
  LET followed[n \in 0..MaxLinks] ==
        IF n = 0 THEN {p} ELSE {FollowOnce(links, q) : q \in followed[n - 1]}
      ends == {q \in followed[MaxLinks] \cap Paths : LinksOn(links, q) = {}}
  IN  IF LinksOn(links, p) = {} THEN p
      ELSE IF ends = {} THEN Nowhere
      ELSE CHOOSE q \in ends : TRUE

\* os.Stat, and os.Lstat, which does not follow the last name.
StatKind(k, links, p) ==
  LET real == Real(links, p) IN IF real = Nowhere THEN "none" ELSE k[real]

LstatKind(k, links, p) ==
  LET dir   == Real(links, Front(p))
      place == Append(dir, Last(p))
  IN  IF dir = Nowhere \/ place \notin Paths THEN "none" ELSE k[place]

\* Sandbox.Resolve: what is left of the path once as many names as it takes
\* are off its end leads to a place inside.
Resolves(k, links, p) ==
  LET there == {i \in 0..Len(p) : StatKind(k, links, SubSeq(p, 1, i)) # "none"}
  IN  \E i \in there : /\ \A j \in there : j <= i
                       /\ Real(links, SubSeq(p, 1, i)) \in Inside

\* The entries of the directory dir, walked as the path p, as os.ReadDir and
\* sort.Slice give them.
Children(k, dir, p) ==
  {n \in Names : {Append(dir, n), Append(p, n)} \subseteq Paths /\ k[Append(dir, n)] # "none"}

Sorted(s) == \A i, j \in DOMAIN s : i < j => s[i] < s[j]

Listed(k, dir, p) ==
  LET children == Children(k, dir, p)
      names    == CHOOSE s \in [1..Cardinality(children) -> children] :
                    Sorted(s) /\ ToSet(s) = children
  IN  [i \in 1..Cardinality(children) |-> [name |-> names[i], kind |-> k[Append(dir, names[i])]]]

Replaceable(t) == t \notin {Binary, 0}

\* What a call looks for: the files below the root, links to files inside
\* included, not behind links to directories or hidden names, that the glob
\* and the regex match.  The definition the walk is held against.
Qualifies(k, links, t, r, p) ==
  /\ IsPrefix(Root, p) /\ p # Root /\ p \in r.glob
  /\ \A i \in 0..(Len(p) - 1) : k[SubSeq(p, 1, i)] = "dir"
  /\ \A i \in (Len(Root) + 1)..Len(p) : p[i] \notin Hidden
  /\ StatKind(k, links, p) \in {"file", "pipe"} /\ Real(links, p) \in Inside
  /\ r.regex => Replaceable(t[Real(links, p)])

\* The place a link leads to, and whether anything is there.
LinkState(k, links, p) ==
  IF p \notin DOMAIN links THEN << >>
  ELSE <<Real(links, p), StatKind(k, links, p) # "none">>

\* A step that changes the tree brings the history up to date with it.
Observe ==
  /\ steady' = {p \in steady : Qualifies(kind', target', text', req, p)}
  /\ ever' = ever \cup {p \in Paths : Qualifies(kind', target', text', req, p)}
  /\ relinked' = relinked \cup
       {p \in Paths : LinkState(kind', target', p) # LinkState(kind, target, p)}

SameTree == UNCHANGED <<tree, changes, history>>

AllMatches == at > Len(matches)
Match      == matches[at]

Goto(from, to) == pc = from /\ pc' = to

Finish(from, answer) ==
  /\ Goto(from, "done")
  /\ result' = answer

-----------------------------------------------------------------------------
Init ==
  /\ kind \in Trees /\ text \in Texts
  /\ target = [p \in {q \in Paths : kind[q] = "link"} |-> Target[p]]
  /\ pc = "idle" /\ req = NoRequest
  /\ stack = << >> /\ cur = Root /\ matches = << >> /\ truncated = FALSE
  /\ files = << >> /\ at = 1 /\ loaded = 0 /\ open = Nowhere /\ result = "none"
  /\ changes = 0
  /\ steady = {} /\ ever = {} /\ before = text /\ relinked = {} /\ alone = TRUE

\* resolveWalkRoot has the sandbox resolve the root, ...
Begin ==
  /\ Goto("idle", "root")
  /\ req' \in Requests
  /\ before' = text /\ relinked' = {} /\ alone' = TRUE
  /\ ever' = {p \in Paths : Qualifies(kind, target, text, req', p)}
  /\ steady' = ever'
  /\ UNCHANGED <<tree, walking, writing, result, changes>>

\* ... and looks again whether it is a directory; the root and the patterns
\* may also be refused.
StatRoot ==
  /\ Goto("root", "list")
  /\ StatKind(kind, target, cur) = "dir"
  /\ SameTree /\ UNCHANGED <<req, walking, writing, result>>

Refuse ==
  /\ Finish("root", "failed")
  /\ SameTree /\ UNCHANGED <<req, walking, writing>>

-----------------------------------------------------------------------------
(* walkDir.                                                                *)

\* os.ReadDir goes by the path: a link now there or above it is followed.
Unreadable(p) == StatKind(kind, target, p) # "dir" \/ Real(target, p) \in Locked

ListDir ==
  /\ Goto("list", "next")
  /\ ~Unreadable(cur)
  /\ stack' = Append(stack, [dir |-> cur, rest |-> Listed(kind, Real(target, cur), cur)])
  /\ SameTree /\ UNCHANGED <<req, cur, matches, truncated, writing, result>>

\* One directory that is gone or may not be read ends the whole walk.
ListFails ==
  /\ Finish("list", "failed")
  /\ Unreadable(cur)
  /\ SameTree /\ UNCHANGED <<req, walking, writing>>

Frame     == Last(stack)
Limit     == IF req.max > 0 THEN req.max ELSE DefaultMaxResults
NextEntry == Head(Frame.rest)
NextPath  == Append(Frame.dir, NextEntry.name)

\* A mutant: one match too many.
Full_Late == Len(matches) > Limit

Full == Len(matches) >= Limit

\* walkDir returns to its caller, the walk of the directory above or the tool.
Leave ==
  /\ pc = "next"
  /\ pc' = IF Len(stack) > 1 THEN "next"
           ELSE IF req.tool = "replace" THEN "load" ELSE "done"
  /\ result' = IF pc' = "done" THEN "ok" ELSE result
  /\ stack' = Front(stack)
  /\ SameTree /\ UNCHANGED <<req, cur, matches, writing>>

EndOfDir ==
  /\ Leave
  /\ Frame.rest = << >>
  /\ UNCHANGED truncated

\* Mutants: the caller is not told; the directory is not left.
Truncate_Silently ==
  /\ Leave
  /\ Frame.rest # << >> /\ Full
  /\ UNCHANGED truncated

Truncate_Stay ==
  /\ pc = "next" /\ Frame.rest # << >> /\ Full
  /\ truncated' = TRUE
  /\ SameTree /\ UNCHANGED <<pc, req, stack, cur, matches, writing, result>>

Truncate ==
  /\ Leave
  /\ Frame.rest # << >> /\ Full
  /\ truncated' = TRUE

Take ==
  /\ pc = "next" /\ Frame.rest # << >> /\ ~Full
  /\ stack' = [stack EXCEPT ![Len(stack)].rest = Tail(@)]
  /\ cur' = NextPath
  /\ SameTree /\ UNCHANGED <<req, truncated, writing, result>>

Gone == LstatKind(kind, target, NextPath) = "none"

\* A mutant: a link is followed blindly.
Skipped_NotLinks ==
  \/ NextEntry.name \in Hidden
  \/ NextEntry.kind \notin {"dir", "link"} /\ Gone

\* A hidden name; a link the sandbox refuses; a file now gone.  What an entry
\* is was read with the list.
Skipped ==
  \/ NextEntry.name \in Hidden
  \/ NextEntry.kind = "link" /\ ~Resolves(kind, target, NextPath)
  \/ NextEntry.kind \notin {"dir", "link"} /\ Gone

Skip ==
  /\ Take
  /\ Skipped
  /\ UNCHANGED <<pc, matches>>

\* A directory never matches and is walked next, ...
Descend ==
  /\ Take
  /\ ~Skipped /\ NextEntry.kind = "dir"
  /\ pc' = "list"
  /\ UNCHANGED matches

\* ... a link has passed the sandbox, ...
Approve ==
  /\ Take
  /\ ~Skipped /\ NextEntry.kind = "link"
  /\ pc' = "stat"
  /\ UNCHANGED matches

\* ... and the predicates judge anything else.
Judge(p) ==
  /\ pc' = IF p \in req.glob /\ req.regex THEN "read" ELSE "next"
  /\ matches' = IF p \in req.glob /\ ~req.regex THEN Append(matches, p) ELSE matches

Look ==
  /\ Take
  /\ ~Skipped /\ NextEntry.kind \notin {"dir", "link"}
  /\ Judge(NextPath)

\* The link is followed a second time: it may lead nowhere, to a directory,
\* which is not walked, or to a file.
LeadsToFile(p) == StatKind(kind, target, p) \notin {"none", "dir"}

StatLink ==
  /\ pc = "stat"
  /\ IF LeadsToFile(cur) THEN Judge(cur) ELSE pc' = "next" /\ UNCHANGED matches
  /\ SameTree /\ UNCHANGED <<req, stack, cur, truncated, writing, result>>

\* os.ReadFile, by the same path once more.
Readable(p)  == StatKind(kind, target, p) = "file" /\ Real(target, p) \notin Locked
ReadFails(p) == StatKind(kind, target, p) \in {"none", "dir"} \/ Real(target, p) \in Locked

Search ==
  /\ Goto("read", "next")
  /\ Readable(cur)
  /\ matches' = IF Replaceable(text[Real(target, cur)]) THEN Append(matches, cur) ELSE matches
  /\ SameTree /\ UNCHANGED <<req, stack, cur, truncated, writing, result>>

SearchFails ==
  /\ Finish("read", "failed")
  /\ ReadFails(cur)
  /\ SameTree /\ UNCHANGED <<req, walking, writing>>

\* To open a pipe that nobody opens for writing takes for ever.
Block ==
  /\ \/ Goto("read", "blocked") /\ StatKind(kind, target, cur) = "pipe"
     \/ ~AllMatches /\ Goto("load", "blocked") /\ StatKind(kind, target, Match) = "pipe"
  /\ SameTree /\ UNCHANGED <<req, walking, writing, result>>

-----------------------------------------------------------------------------
(* replace, over the files found: one that is not text, or holds no match, *)
(* is passed over; the others are counted and, unless dry_run, rewritten.  *)

\* A mutant: the next match is passed over.
Report_SkipsOne(count) ==
  /\ files' = Append(files, [path |-> Match, replacements |-> count])
  /\ at' = at + 2

Report(count) ==
  /\ files' = Append(files, [path |-> Match, replacements |-> count])
  /\ at' = at + 1

LoadPass ==
  /\ pc = "load" /\ ~AllMatches /\ Readable(Match)
  /\ ~Replaceable(text[Real(target, Match)])
  /\ at' = at + 1
  /\ SameTree /\ UNCHANGED <<pc, req, walking, files, loaded, open, result>>

LoadPreview ==
  LET t == text[Real(target, Match)]
  IN  /\ pc = "load" /\ ~AllMatches /\ Readable(Match)
      /\ Replaceable(t) /\ req.dry
      /\ Report(t)
      /\ SameTree /\ UNCHANGED <<pc, req, walking, loaded, open, result>>

\* A mutant: dry_run is not looked at.
Load_NeverDry ==
  /\ ~AllMatches /\ Goto("load", "open") /\ Readable(Match)
  /\ Replaceable(text[Real(target, Match)])
  /\ loaded' = text[Real(target, Match)]
  /\ SameTree /\ UNCHANGED <<req, walking, files, at, open, result>>

Load ==
  /\ ~AllMatches /\ Goto("load", "open") /\ Readable(Match)
  /\ Replaceable(text[Real(target, Match)]) /\ ~req.dry
  /\ loaded' = text[Real(target, Match)]
  /\ SameTree /\ UNCHANGED <<req, walking, files, at, open, result>>

LoadFails ==
  /\ ~AllMatches /\ Finish("load", "failed")
  /\ ReadFails(Match)
  /\ SameTree /\ UNCHANGED <<req, walking, writing>>

Answer ==
  /\ AllMatches /\ Finish("load", "ok")
  /\ SameTree /\ UNCHANGED <<req, walking, writing>>

\* os.WriteFile empties the file, or makes it again if it has gone; ...
Creatable(p) == p # Nowhere /\ kind[p] = "none" /\ p # << >> /\ kind[Front(p)] = "dir"

OpenForWriting ==
  LET p == Real(target, Match)
  IN  /\ Goto("open", "write")
      /\ Readable(Match) \/ Creatable(p)
      /\ kind' = [kind EXCEPT ![p] = "file"]
      /\ text' = [text EXCEPT ![p] = 0]
      /\ open' = p
      /\ UNCHANGED <<target, req, walking, files, at, loaded, result, changes, before, alone>>
      /\ Observe

OpenFails ==
  /\ Finish("open", "failed")
  /\ ~Readable(Match) /\ ~Creatable(Real(target, Match))
  /\ SameTree /\ UNCHANGED <<req, walking, writing>>

\* ... then it writes: each match has become req.grows matches.
Put ==
  /\ Goto("write", "load")
  /\ text' = IF open = Nowhere THEN text ELSE [text EXCEPT ![open] = loaded * req.grows]
  /\ Report(loaded)
  /\ UNCHANGED <<kind, target, req, walking, loaded, open, result, changes, before, alone>>
  /\ Observe

\* A full disk.
PutFails ==
  /\ Finish("write", "failed")
  /\ SameTree /\ UNCHANGED <<req, walking, writing>>

-----------------------------------------------------------------------------
(* Other programs, and other calls of this server.                         *)

Meanwhile ==
  /\ pc \notin {"idle", "done", "blocked"}
  /\ changes < MaxChanges /\ changes' = changes + 1
  /\ alone' = FALSE
  /\ UNCHANGED <<pc, req, walking, files, at, loaded, result, before>>

Edit(p) ==
  /\ Meanwhile
  /\ kind[p] = "file"
  /\ \E t \in Text : text' = [text EXCEPT ![p] = t]
  /\ UNCHANGED <<kind, target, open>>

Create(p) ==
  /\ Meanwhile
  /\ Creatable(p)
  /\ \E k \in {"file", "dir"}, t \in Text :
       /\ kind' = [kind EXCEPT ![p] = k]
       /\ text' = [text EXCEPT ![p] = t]
  /\ UNCHANGED <<target, open>>

\* All at p and below it goes, as with rm -r or a rename; a file that is open
\* for writing goes on without its name.
Vacate(p, new) ==
  /\ Meanwhile
  /\ kind' = [q \in Paths |-> IF q = p THEN new ELSE IF IsPrefix(p, q) THEN "none" ELSE kind[q]]
  /\ open' = IF open # Nowhere /\ IsPrefix(p, open) THEN Nowhere ELSE open
  /\ UNCHANGED text

LinksBeside(p) == {q \in DOMAIN target : ~IsPrefix(p, q)}

RemoveTree(p) ==
  /\ Vacate(p, "none")
  /\ kind[p] # "none"
  /\ target' = [q \in LinksBeside(p) |-> target[q]]

\* A link comes in the place of whatever was there.
PutLink(p) ==
  /\ Vacate(p, "link")
  /\ kind[Front(p)] = "dir"
  /\ \E end \in Ends :
       target' = [q \in LinksBeside(p) \cup {p} |-> IF q = p THEN end ELSE target[q]]

OtherChanges ==
  \E p \in Touched : (Edit(p) \/ Create(p) \/ RemoveTree(p) \/ PutLink(p)) /\ Observe

-----------------------------------------------------------------------------
Walk == \/ StatRoot \/ ListDir \/ ListFails \/ EndOfDir \/ Truncate
        \/ Skip \/ Descend \/ Approve \/ Look \/ StatLink \/ Search \/ SearchFails \/ Block

Replace == \/ LoadPass \/ LoadPreview \/ Load \/ LoadFails \/ Answer
           \/ OpenForWriting \/ OpenFails \/ Put

Stop == pc \in {"done", "blocked"} /\ UNCHANGED vars

Next == Begin \/ Refuse \/ Walk \/ Replace \/ PutFails \/ OtherChanges \/ Stop

Spec == Init /\ [][Next]_vars

\* A handler that can take a step takes it; a call is refused, and the disk
\* is full, only if something says so.
FairSpec == Spec /\ WF_vars(Walk \/ Refuse) /\ WF_vars(Replace)

-----------------------------------------------------------------------------
(* Properties.                                                             *)

\* Every variable holds values of the kind the code gives it.
TypeOK ==
  /\ kind \in [Paths -> Kinds] /\ \A p \in Paths : text[p] = Binary \/ text[p] \in Nat
  /\ target \in [{p \in Paths : kind[p] = "link"} -> Paths]
  /\ pc \in {"idle", "root", "list", "next", "stat", "read", "load", "open", "write", "blocked", "done"}
  /\ req \in Requests \cup {NoRequest}
  /\ \A i \in 1..Len(stack) : stack[i].dir \in Paths
  /\ cur \in Paths /\ matches \in Seq(Paths) /\ truncated \in BOOLEAN
  /\ at \in 1..(Len(matches) + 1) /\ loaded \in Nat /\ open \in Paths \cup {Nowhere}
  /\ result \in {"none", "ok", "failed"}
  /\ changes \in 0..MaxChanges

\* p is walked before q and is no directory above it.
Precedes(p, q) ==
  \E i \in 1..Len(p) : /\ i <= Len(q) /\ p[i] < q[i]
                       /\ SubSeq(p, 1, i - 1) = SubSeq(q, 1, i - 1)

\* However the tree changes under the walk, no file is reported twice, the
\* files come in lexicographic order, and there are never too many of them.
ReportIsOrdered ==
  /\ Len(matches) <= Limit \/ req = NoRequest
  /\ \A i, j \in 1..Len(matches) : i < j => Precedes(matches[i], matches[j])

\* A walk that does not say it was truncated has found every file that
\* qualified for as long as the call lasted, whatever else happened to the
\* tree meanwhile.
SteadyFilesAreFound ==
  pc = "done" /\ result = "ok" /\ ~truncated => steady \subseteq ToSet(matches)

\* Nothing is reported that did not qualify at some moment of the call: no
\* hidden name, nothing behind a link to a directory, no link that leads
\* outside the sandbox.  The exception is what another program does to a link
\* on the way, the last name included, during the call: it puts it there,
\* takes it away, or changes where it leads, or whether anything is there.
\* Then a directory listed as one may be opened as a link, and a dangling link
\* that Resolve has let pass may lead outside, against walk.go:164-167.
ReportedQualified ==
  \A p \in ToSet(matches) : p \in ever \/ \E q \in relinked : IsPrefix(q, p)

\* Where nobody else writes, and no two of the paths found are one file, a
\* replace that has ended, even in failure, has rewritten just the files it
\* reports, and those entirely, save the one it failed at; a dry run writes
\* nothing.
QuietReplaceIsExact ==
  /\ pc = "done" /\ req.tool = "replace" /\ alone
  /\ \A i, j \in 1..Len(matches) : Real(target, matches[i]) = Real(target, matches[j]) => i = j
  => LET rewritten == {Real(target, files[i].path) : i \in 1..Len(files)}
         failing   == IF result = "failed" /\ ~AllMatches THEN {Real(target, Match)} ELSE {}
     IN  \A p \in Paths \ failing :
           text[p] = IF ~req.dry /\ p \in rewritten THEN before[p] * req.grows ELSE before[p]

\* Every call ends, even while the tree grows under the walk, unless it opens
\* a pipe it found: a find that looks at names alone never hangs.
CallsReturn ==
  pc \notin {"idle", "done", "blocked"} ~>
    pc = "done" \/ (pc = "blocked" /\ (req.regex \/ req.tool = "replace"))
=============================================================================
