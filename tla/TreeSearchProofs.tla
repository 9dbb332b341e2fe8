-------------------------- MODULE TreeSearchProofs --------------------------
(***************************************************************************)
(* What TreeSearch.tla promises, for every tree, every request and however *)
(* much the tree changes under the walk.                                   *)
(***************************************************************************)
EXTENDS TreeSearch, SequenceTheorems, FiniteSetTheorems, WellFoundedInduction, TLAPS

Stages ==
  {"idle", "root", "list", "next", "stat", "read", "load", "open", "write", "blocked", "done"}

Walking == {"idle", "root", "list", "next", "stat", "read"}

Entries == [name : Names, kind : Kinds \ {"none"}]

Levels == {l \in [dir : Paths, rest : Seq(Entries)] :
             \A a \in DOMAIN l.rest : Append(l.dir, l.rest[a].name) \in Paths}

EntryPath(l, a) == Append(stack[l].dir, stack[l].rest[a].name)

TextsOK(t) == t \in [Paths -> Nat \cup {Binary}]

TreeInv ==
  /\ kind \in [Paths -> Kinds] /\ WellFormedTree(kind) /\ TextsOK(text)
  /\ target \in [{p \in Paths : kind[p] = "link"} -> Paths]

\* The state is that of the stage the call has reached.
CallInv ==
  /\ TextsOK(before)
  /\ pc \in Stages
  /\ IF pc = "idle" THEN req = NoRequest ELSE req \in Requests
  /\ stack \in Seq(Levels)
  /\ cur \in Paths /\ matches \in Seq(Paths) /\ truncated \in BOOLEAN
  /\ at \in 1..(Len(matches) + 1) /\ loaded \in Nat /\ open \in Paths \cup {Nowhere}
  /\ result \in {"none", "ok", "failed"}
  /\ changes \in 0..MaxChanges
  /\ pc \in Walking => at = 1 /\ files = << >>
  /\ pc \in {"idle", "root"} => cur = Root /\ stack = << >> /\ matches = << >>
  /\ pc \in {"next", "stat", "read"} => stack # << >>
  /\ pc \in {"load", "open", "write"} \/ result = "ok" => stack = << >>
  /\ pc \in {"load", "open", "write"} => req.tool = "replace"
  /\ pc \in {"open", "write"} => at <= Len(matches)
  /\ pc # "done" => result = "none"

TypeInv == TreeInv /\ CallInv

\* Entries of the directories being walked come after all that has been
\* reported, after the path at hand and after the directories below theirs.
EntryInOrder(l, a) ==
  /\ \A b \in DOMAIN stack[l].rest : a < b => stack[l].rest[a].name < stack[l].rest[b].name
  /\ \A m \in DOMAIN stack : l < m => Precedes(stack[m].dir, EntryPath(l, a))
  /\ \A i \in 1..Len(matches) : Precedes(matches[i], EntryPath(l, a))
  /\ pc \in {"list", "stat", "read"} => Precedes(cur, EntryPath(l, a))

OrderInv ==
  /\ Len(matches) <= Limit /\ (pc \in {"stat", "read"} => Len(matches) < Limit)
  /\ \A i, j \in 1..Len(matches) : i < j => Precedes(matches[i], matches[j])
  /\ pc \in {"list", "stat", "read"} => \A i \in 1..Len(matches) : Precedes(matches[i], cur)
  /\ \A l \in DOMAIN stack : \A a \in DOMAIN stack[l].rest : EntryInOrder(l, a)

\* Below the root, with no hidden name from there on.
Visible(p) == IsPrefix(Root, p) /\ \A i \in (Len(Root) + 1)..Len(p) : p[i] \notin Hidden

\* No link on the way to p, p included, has been put there, taken away or led
\* elsewhere: then there is still none, ...
Untouched(p) == \A q \in Paths : IsPrefix(q, p) => q \notin relinked

Straight(p) == Untouched(p) => LinksOn(target, p) = {}

\* ... or none but p itself, which has passed the sandbox.
LedInside(p) ==
  Untouched(p) => /\ LinksOn(target, Front(p)) = {}
                  /\ StatKind(kind, target, p) # "none" => Real(target, p) \in Inside

\* The directories being walked or about to be, the file at hand, and the
\* entries left.
AtDir(d) == \/ pc \in {"root", "list"} /\ cur = d
            \/ \E l \in DOMAIN stack : stack[l].dir = d

AtFile(p) == pc \in {"stat", "read"} /\ cur = p

AtEntry(e, p) ==
  \E l \in DOMAIN stack : \E a \in DOMAIN stack[l].rest : e = stack[l].rest[a] /\ p = EntryPath(l, a)

\* What is listed as a file, and the glob matches, qualified when the list was
\* made.
Honest(e, p) ==
  /\ e.kind # "link" => Straight(p)
  /\ /\ e.kind \in {"file", "pipe"} /\ e.name \notin Hidden
     /\ p \in req.glob /\ ~req.regex /\ Untouched(p)
     => p \in ever

EverInv ==
  /\ pc = "idle" => LinksOn(target, Root) = {}
  /\ pc # "idle" => \A p \in Paths : Qualifies(kind, target, text, req, p) => p \in ever
  /\ \A p \in Paths : p \in ToSet(matches) /\ Untouched(p) => p \in ever
  /\ \A d \in Paths : AtDir(d) => Visible(d) /\ Straight(d)
  /\ \A p \in Paths : AtFile(p) => /\ Visible(p) /\ p # Root /\ LedInside(p)
                                   /\ pc = "read" => p \in req.glob
  /\ \A p \in Paths, e \in Entries : AtEntry(e, p) => Honest(e, p)

\* An entry still to be taken is p itself or a directory above p.
LeadsTo(l, a, p) ==
  /\ IsPrefix(EntryPath(l, a), p)
  /\ stack[l].rest[a].kind = "dir" <=> EntryPath(l, a) # p

Expected(p) ==
  \/ pc \in {"root", "list"} /\ IsPrefix(cur, p)
  \/ pc \in {"stat", "read"} /\ cur = p
  \/ \E l \in DOMAIN stack : \E a \in DOMAIN stack[l].rest : LeadsTo(l, a, p)

\* What has qualified all the time has been found or will be.
SteadyInv ==
  /\ pc = "read" => req.regex
  /\ pc # "idle" => \A p \in steady : p \in Paths /\ Qualifies(kind, target, text, req, p)
  /\ pc \notin {"idle", "blocked"} /\ result # "failed" /\ ~truncated =>
       \A p \in steady : p \in ToSet(matches) \/ Expected(p)

Reports == [path : Paths, replacements : Nat]

Rewritten == {Real(target, files[i].path) : i \in 1..Len(files)}

Distinct ==
  \A i, j \in 1..Len(matches) : Real(target, matches[i]) = Real(target, matches[j]) => i = j

Exact(p) == text[p] = IF ~req.dry /\ p \in Rewritten THEN before[p] * req.grows ELSE before[p]

\* How far a replace in a tree of its own has come.
ReplaceInv ==
  /\ files \in Seq(Reports)
  /\ \A f \in 1..Len(files) : \E i \in 1..(at - 1) : files[f].path = matches[i]
  /\ alone /\ pc \in Walking => text = before
  /\ alone /\ Distinct /\ pc # "idle" /\ req.tool = "replace" =>
       /\ pc = "load" => \A p \in Paths : Exact(p)
       /\ pc = "open" =>
            /\ \A p \in Paths : Exact(p)
            /\ Readable(Match) /\ ~req.dry
            /\ loaded = before[Real(target, Match)]
       /\ pc = "write" =>
            /\ open = Real(target, Match) /\ open \in Paths /\ ~req.dry
            /\ loaded = before[open]
            /\ \A p \in Paths \ {open} : Exact(p)
       /\ pc = "done" =>
            \A p \in Paths :
              (result = "failed" /\ ~AllMatches => p # Real(target, Match)) => Exact(p)
-----------------------------------------------------------------------------
(* Paths.                                                                  *)

LEMMA PathFacts ==
  ASSUME NEW p \in Paths
  PROVE  /\ p \in Seq(Names) /\ p \in Seq(Nat) /\ Len(p) \in Nat
         /\ \A i \in 1..Len(p) : p[i] \in Names /\ p[i] \in Nat
         /\ p # << >> <=> Len(p) > 0
<1>1. p \in Seq(Names) /\ Names \subseteq Nat
  BY PathAssumption, SearchAssumption
<1>2. Len(p) \in Nat /\ \A i \in 1..Len(p) : p[i] \in Names
  BY <1>1, LenProperties, ElementOfSeq
<1>3. p \in Seq(Nat)
  BY <1>1, SeqMonotonic
<1>4. p # << >> <=> Len(p) > 0
  BY <1>1, <1>2, EmptySeq
<1>. QED  BY <1>1, <1>2, <1>3, <1>4

\* The first i names of a path.
LEMMA FirstFacts ==
  ASSUME NEW p \in Paths, NEW i \in 0..Len(p)
  PROVE  /\ SubSeq(p, 1, i) \in Paths /\ Len(SubSeq(p, 1, i)) = i
         /\ \A j \in 1..i : SubSeq(p, 1, i)[j] = p[j]
<1>1. (\A j \in 1..Len(p) : p[j] \in Names) /\ Len(p) \in Nat
  BY PathFacts
<1>2. /\ SubSeq(p, 1, i) \in Seq(Names)
      /\ Len(SubSeq(p, 1, i)) = IF 1 <= i THEN i - 1 + 1 ELSE 0
      /\ \A j \in 1..(i - 1 + 1) : SubSeq(p, 1, i)[j] = p[1 + j - 1]
  <2>1. 1 \in Int /\ i \in Int /\ \A j \in 1..i : p[j] \in Names
    BY <1>1
  <2>. QED  BY <2>1, SubSeqProperties
<1>3. SubSeq(p, 1, i) \in Paths
  BY PathAssumption
<1>4. \A j \in 1..i : SubSeq(p, 1, i)[j] = p[j]
  BY <1>1, <1>2
<1>. QED  BY <1>1, <1>2, <1>3, <1>4

LEMMA RootFacts ==
  /\ Root \in Paths /\ Len(Root) \in Nat
  /\ << >> \in Paths /\ Len(<< >>) = 0
<1>1. Root \in Paths /\ Len(Root) \in Nat /\ 0 \in 0..Len(Root)
  BY PathAssumption, PathFacts
<1>2. SubSeq(Root, 1, 0) \in Paths /\ Len(SubSeq(Root, 1, 0)) = 0
  BY <1>1, FirstFacts
<1>3. SubSeq(Root, 1, 0) = << >>
  BY <1>2, PathFacts
<1>. QED  BY <1>1, <1>2, <1>3

LEMMA PathsEqual ==
  ASSUME NEW p \in Paths, NEW q \in Paths, Len(p) = Len(q), \A i \in 1..Len(p) : p[i] = q[i]
  PROVE  p = q
  BY PathFacts, SeqEqual

\* The path of an entry, and what lies above it.
LEMMA ChildFacts ==
  ASSUME NEW d \in Paths, NEW n \in Names, Append(d, n) \in Paths
  PROVE  /\ Append(d, n) # << >> /\ Len(Append(d, n)) = Len(d) + 1
         /\ \A i \in 1..Len(d) : Append(d, n)[i] = d[i]
         /\ Append(d, n)[Len(d) + 1] = n
         /\ Front(Append(d, n)) = d
<1>1. /\ Append(d, n) # << >> /\ Len(Append(d, n)) = Len(d) + 1 /\ Len(d) \in Nat
      /\ \A i \in 1..Len(d) : Append(d, n)[i] = d[i]
      /\ Append(d, n)[Len(d) + 1] = n
  BY PathFacts, AppendProperties
<1>2. Front(Append(d, n)) = SubSeq(Append(d, n), 1, Len(d))
  BY <1>1 DEF Front
<1>3. Len(d) \in 0..Len(Append(d, n))
  BY <1>1
<1>4. SubSeq(Append(d, n), 1, Len(d)) = d
  <2>1. /\ SubSeq(Append(d, n), 1, Len(d)) \in Paths
        /\ Len(SubSeq(Append(d, n), 1, Len(d))) = Len(d)
        /\ \A j \in 1..Len(d) : SubSeq(Append(d, n), 1, Len(d))[j] = Append(d, n)[j]
    BY <1>3, FirstFacts
  <2>. QED  BY <1>1, <2>1, PathsEqual
<1>. QED  BY <1>1, <1>2, <1>4

LEMMA PrefixIs ==
  ASSUME NEW p \in Paths, NEW q \in Paths
  PROVE  IsPrefix(p, q) <=> Len(p) <= Len(q) /\ \A i \in 1..Len(p) : p[i] = q[i]
<1>1. Len(p) \in Nat /\ Len(q) \in Nat
  BY PathFacts
<1>2. CASE Len(p) <= Len(q)
  <2>1. /\ SubSeq(p, 1, Len(p)) \in Paths /\ Len(SubSeq(p, 1, Len(p))) = Len(p)
        /\ \A i \in 1..Len(p) : SubSeq(p, 1, Len(p))[i] = p[i]
    BY <1>1, FirstFacts
  <2>2. /\ SubSeq(q, 1, Len(p)) \in Paths /\ Len(SubSeq(q, 1, Len(p))) = Len(p)
        /\ \A i \in 1..Len(p) : SubSeq(q, 1, Len(p))[i] = q[i]
    BY <1>1, <1>2, FirstFacts
  <2>3. SubSeq(p, 1, Len(p)) = SubSeq(q, 1, Len(p)) <=> \A i \in 1..Len(p) : p[i] = q[i]
    BY <2>1, <2>2, PathsEqual
  <2>. QED  BY <1>2, <2>3 DEF IsPrefix
<1>3. CASE ~(Len(p) <= Len(q))
  BY <1>3 DEF IsPrefix
<1>. QED  BY <1>2, <1>3

LEMMA PrecedesIs ==
  ASSUME NEW p \in Paths, NEW q \in Paths
  PROVE  Precedes(p, q) <=>
           \E i \in 1..Len(p) : /\ i <= Len(q) /\ p[i] < q[i]
                                /\ \A j \in 1..(i - 1) : p[j] = q[j]
<1>1. Len(p) \in Nat /\ Len(q) \in Nat
  BY PathFacts
<1>2. ASSUME NEW i \in 1..Len(p), i <= Len(q)
      PROVE  SubSeq(p, 1, i - 1) = SubSeq(q, 1, i - 1) <=> \A j \in 1..(i - 1) : p[j] = q[j]
  <2>1. i - 1 \in 0..Len(p) /\ i - 1 \in 0..Len(q)
    BY <1>1, <1>2
  <2>2. /\ SubSeq(p, 1, i - 1) \in Paths /\ Len(SubSeq(p, 1, i - 1)) = i - 1
        /\ \A j \in 1..(i - 1) : SubSeq(p, 1, i - 1)[j] = p[j]
    BY <2>1, FirstFacts
  <2>3. /\ SubSeq(q, 1, i - 1) \in Paths /\ Len(SubSeq(q, 1, i - 1)) = i - 1
        /\ \A j \in 1..(i - 1) : SubSeq(q, 1, i - 1)[j] = q[j]
    BY <2>1, FirstFacts
  <2>. QED  BY <2>2, <2>3, PathsEqual
<1>. QED  BY <1>2 DEF Precedes

\* What comes before a path comes before all below it, and so does all below
\* what comes before it.
LEMMA PrecedesChild ==
  ASSUME NEW p \in Paths, NEW q \in Paths, Precedes(p, q), NEW n \in Names
  PROVE  /\ Append(p, n) \in Paths => Precedes(Append(p, n), q)
         /\ Append(q, n) \in Paths => Precedes(p, Append(q, n))
<1>1. Len(p) \in Nat /\ Len(q) \in Nat
  BY PathFacts
<1>2. PICK i \in 1..Len(p) : /\ i <= Len(q) /\ p[i] < q[i]
                             /\ \A j \in 1..(i - 1) : p[j] = q[j]
  BY PrecedesIs
<1>3. ASSUME Append(p, n) \in Paths PROVE Precedes(Append(p, n), q)
  <2>1. /\ Len(Append(p, n)) = Len(p) + 1
        /\ \A j \in 1..Len(p) : Append(p, n)[j] = p[j]
    BY <1>3, ChildFacts
  <2>2. /\ i \in 1..Len(Append(p, n)) /\ Append(p, n)[i] < q[i]
        /\ \A j \in 1..(i - 1) : Append(p, n)[j] = q[j]
    BY <1>1, <1>2, <2>1
  <2>. QED  BY <1>2, <1>3, <2>2, PrecedesIs
<1>4. ASSUME Append(q, n) \in Paths PROVE Precedes(p, Append(q, n))
  <2>1. /\ Len(Append(q, n)) = Len(q) + 1
        /\ \A j \in 1..Len(q) : Append(q, n)[j] = q[j]
    BY <1>4, ChildFacts
  <2>2. /\ i <= Len(Append(q, n)) /\ p[i] < Append(q, n)[i]
        /\ \A j \in 1..(i - 1) : p[j] = Append(q, n)[j]
    BY <1>1, <1>2, <2>1
  <2>. QED  BY <1>2, <1>4, <2>2, PrecedesIs
<1>. QED  BY <1>3, <1>4

LEMMA SiblingsPrecede ==
  ASSUME NEW d \in Paths, NEW m \in Names, NEW n \in Names, m < n,
         Append(d, m) \in Paths, Append(d, n) \in Paths
  PROVE  Precedes(Append(d, m), Append(d, n))
<1>1. Len(d) \in Nat
  BY PathFacts
<1>2. /\ Len(d) + 1 \in 1..Len(Append(d, m)) /\ Len(d) + 1 <= Len(Append(d, n))
      /\ Append(d, m)[Len(d) + 1] < Append(d, n)[Len(d) + 1]
      /\ \A j \in 1..((Len(d) + 1) - 1) : Append(d, m)[j] = Append(d, n)[j]
  BY <1>1, ChildFacts
<1>. QED  BY <1>2, PrecedesIs
-----------------------------------------------------------------------------
(* Trees and lists of entries.                                             *)

LEMMA LeastNumber ==
  ASSUME NEW T, T \subseteq Nat, T # {}
  PROVE  \E n \in T : \A m \in T : n <= m
<1>. DEFINE R == OpToRel(<, Nat)
<1>1. IsWellFoundedOn(R, Nat)
  BY NatLessThanWellFounded
<1>2. \A n, m \in Nat : n < m => <<n, m>> \in R
  BY DEF OpToRel
<1>. HIDE DEF R
<1>3. PICK n \in T : \A m \in T : <<m, n>> \notin R
  BY <1>1, WFMin
<1>4. ASSUME NEW m \in T PROVE n <= m
  <2>1. n \in Nat /\ m \in Nat /\ ~(m < n)
    BY <1>2, <1>3
  <2>. QED  BY <2>1
<1>. QED  BY <1>4

\* Everything above what exists is a directory.
LEMMA AncestorsAreDirs ==
  ASSUME NEW k \in [Paths -> Kinds], WellFormedTree(k), NEW p \in Paths, k[p] # "none"
  PROVE  \A i \in 0..(Len(p) - 1) : k[SubSeq(p, 1, i)] = "dir"
<1>. DEFINE Bad == {j \in Nat : j \in 1..Len(p) /\ k[SubSeq(p, 1, Len(p) - j)] # "dir"}
<1>0. Len(p) \in Nat
  BY PathFacts
<1>1. ASSUME Bad # {} PROVE FALSE
  <2>1. PICK j \in Bad : \A m \in Bad : j <= m
    <3>1. Bad \subseteq Nat
      OBVIOUS
    <3>. HIDE DEF Bad
    <3>. QED  BY <1>1, <3>1, LeastNumber
  <2>. DEFINE q == SubSeq(p, 1, (Len(p) - j) + 1)
  <2>2. /\ j \in 1..Len(p) /\ (Len(p) - j) + 1 \in 1..Len(p) /\ Len(p) - j \in 0..Len(p)
        /\ k[SubSeq(p, 1, Len(p) - j)] # "dir"
    BY <1>0, <2>1
  <2>3. /\ q \in Paths /\ Len(q) = (Len(p) - j) + 1
        /\ \A i \in 1..((Len(p) - j) + 1) : q[i] = p[i]
    BY <1>0, <2>2, FirstFacts
  <2>. HIDE DEF q
  <2>4. k[q] # "none"
    <3>1. CASE j = 1
      <4>1. Len(q) = Len(p)
        BY <1>0, <2>3, <3>1
      <4>2. q = p
        BY <1>0, <2>3, <3>1, <4>1, PathsEqual
      <4>. QED  BY <4>2
    <3>2. CASE j # 1
      <4>1. j - 1 \in Nat /\ j - 1 \in 1..Len(p) /\ ~(j <= j - 1) /\ Len(p) - (j - 1) = (Len(p) - j) + 1
        BY <1>0, <2>2, <3>2
      <4>2. j - 1 \notin Bad
        BY <2>1, <4>1
      <4>3. k[q] = "dir"
        BY <4>1, <4>2 DEF q
      <4>. QED  BY <4>3
    <3>. QED  BY <3>1, <3>2
  <2>5. q # << >> /\ k[Front(q)] = "dir"
    <3>1. q # << >>
      BY <1>0, <2>2, <2>3, PathFacts
    <3>. QED  BY <2>3, <2>4, <3>1 DEF WellFormedTree
  <2>6. Front(q) = SubSeq(p, 1, Len(p) - j)
    <3>1. Front(q) = SubSeq(q, 1, Len(p) - j) /\ Len(p) - j \in 0..Len(q)
      BY <1>0, <2>2, <2>3 DEF Front
    <3>2. /\ SubSeq(q, 1, Len(p) - j) \in Paths /\ Len(SubSeq(q, 1, Len(p) - j)) = Len(p) - j
          /\ \A i \in 1..(Len(p) - j) : SubSeq(q, 1, Len(p) - j)[i] = q[i]
      BY <2>3, <3>1, FirstFacts
    <3>3. /\ SubSeq(p, 1, Len(p) - j) \in Paths /\ Len(SubSeq(p, 1, Len(p) - j)) = Len(p) - j
          /\ \A i \in 1..(Len(p) - j) : SubSeq(p, 1, Len(p) - j)[i] = p[i]
      BY <2>2, FirstFacts
    <3>4. \A i \in 1..(Len(p) - j) : q[i] = p[i]
      BY <1>0, <2>2, <2>3
    <3>. QED  BY <3>1, <3>2, <3>3, <3>4, PathsEqual
  <2>. QED  BY <2>2, <2>5, <2>6
<1>2. ASSUME NEW i \in 0..(Len(p) - 1) PROVE k[SubSeq(p, 1, i)] = "dir"
  <2>1. Len(p) - i \in Nat /\ Len(p) - i \in 1..Len(p) /\ Len(p) - (Len(p) - i) = i
    BY <1>0
  <2>. QED  BY <1>1, <2>1
<1>. QED  BY <1>2

HasSorted(S) == \E s \in [1..Cardinality(S) -> S] : Sorted(s) /\ ToSet(s) = S

LEMMA SortedExists ==
  ASSUME NEW S, S \subseteq Nat, IsFiniteSet(S)
  PROVE  HasSorted(S)
<1>. DEFINE Bad == {n \in Nat : \E T \in SUBSET Nat :
                                  IsFiniteSet(T) /\ Cardinality(T) = n /\ ~HasSorted(T)}
<1>1. ASSUME Bad # {} PROVE FALSE
  <2>1. PICK n \in Bad : \A m \in Bad : n <= m
    <3>1. Bad \subseteq Nat
      OBVIOUS
    <3>. HIDE DEF Bad
    <3>. QED  BY <1>1, <3>1, LeastNumber
  <2>2. PICK T \in SUBSET Nat : IsFiniteSet(T) /\ Cardinality(T) = n /\ ~HasSorted(T)
    BY <2>1
  <2>3. T # {}
    <3>1. ASSUME T = {} PROVE HasSorted(T)
      <4>. DEFINE s == [i \in 1..0 |-> 0]
      <4>1. Cardinality(T) = 0
        BY <3>1, FS_EmptySet
      <4>2. s \in [1..0 -> T] /\ Sorted(s) /\ ToSet(s) = T
        BY <3>1 DEF Sorted, ToSet
      <4>. QED  BY <4>1, <4>2 DEF HasSorted
    <3>. QED  BY <2>2, <3>1
  <2>4. PICK a \in T : \A b \in T : a <= b
    BY <2>2, <2>3, LeastNumber
  <2>5. n \in Nat \ {0} /\ IsFiniteSet(T \ {a}) /\ Cardinality(T \ {a}) = n - 1
    BY <2>2, <2>3, <2>4, FS_EmptySet, FS_RemoveElement, FS_CardinalityType
  <2>6. HasSorted(T \ {a})
    <3>1. n - 1 \notin Bad
      BY <2>1, <2>5
    <3>. QED  BY <2>2, <2>5, <3>1
  <2>7. PICK t \in [1..(n - 1) -> T \ {a}] : Sorted(t) /\ ToSet(t) = T \ {a}
    BY <2>5, <2>6 DEF HasSorted
  <2>. DEFINE s == [i \in 1..n |-> IF i = 1 THEN a ELSE t[i - 1]]
  <2>8. s \in [1..n -> T]
    BY <2>4, <2>5, <2>7
  <2>9. Sorted(s)
    <3>1. SUFFICES ASSUME NEW i \in 1..n, NEW j \in 1..n, i < j PROVE s[i] < s[j]
      BY DEF Sorted
    <3>2. j # 1 /\ j - 1 \in 1..(n - 1) /\ s[j] = t[j - 1]
      BY <2>5, <3>1
    <3>3. CASE i = 1
      <4>1. t[j - 1] \in T /\ t[j - 1] # a /\ a \in Nat /\ t[j - 1] \in Nat
        BY <2>2, <2>7, <3>2
      <4>. QED  BY <2>4, <3>2, <3>3, <4>1
    <3>4. CASE i # 1
      <4>1. i - 1 \in 1..(n - 1) /\ i - 1 < j - 1 /\ s[i] = t[i - 1]
        BY <2>5, <3>1, <3>4
      <4>. QED  BY <2>7, <3>2, <4>1 DEF Sorted
    <3>. QED  BY <3>3, <3>4
  <2>10. ToSet(s) = T
    <3>1. ASSUME NEW b \in T PROVE b \in ToSet(s)
      <4>1. CASE b = a
        <5>1. 1 \in 1..n /\ s[1] = a
          BY <2>5
        <5>. QED  BY <4>1, <5>1 DEF ToSet
      <4>2. CASE b # a
        <5>1. PICK i \in 1..(n - 1) : t[i] = b
          BY <2>7, <4>2 DEF ToSet
        <5>2. i + 1 \in 1..n /\ s[i + 1] = b
          BY <2>5, <5>1
        <5>. QED  BY <5>2 DEF ToSet
      <4>. QED  BY <4>1, <4>2
    <3>2. ToSet(s) \subseteq T
      BY <2>8 DEF ToSet
    <3>. QED  BY <3>1, <3>2
  <2>. QED  BY <2>2, <2>8, <2>9, <2>10 DEF HasSorted
<1>. QED  BY <1>1, FS_CardinalityType

\* The list of a directory d, walked as p, has its entries in order, each once and no others.
LEMMA ListedFacts ==
  ASSUME NEW k \in [Paths -> Kinds], NEW d \in Paths, NEW p \in Paths
  PROVE  LET list == Listed(k, d, p)
         IN  /\ list \in Seq(Entries) /\ [dir |-> p, rest |-> list] \in Levels
             /\ \A a \in DOMAIN list : /\ Append(p, list[a].name) \in Paths
                                       /\ list[a].kind = k[Append(d, list[a].name)]
             /\ \A a, b \in DOMAIN list : a < b => list[a].name < list[b].name
             /\ \A n \in Children(k, d, p) : \E a \in DOMAIN list : list[a].name = n
<1>. DEFINE children == Children(k, d, p)
            n == Cardinality(children)
            names == CHOOSE s \in [1..n -> children] : Sorted(s) /\ ToSet(s) = children
            list == Listed(k, d, p)
<1>1. children \subseteq Names /\ children \subseteq Nat
  BY SearchAssumption DEF Children
<1>2. IsFiniteSet(children) /\ n \in Nat
  BY <1>1, SearchAssumption, FS_Subset, FS_CardinalityType
<1>3. names \in [1..n -> children] /\ Sorted(names) /\ ToSet(names) = children
  BY <1>1, <1>2, SortedExists DEF HasSorted
<1>4. list = [i \in 1..n |-> [name |-> names[i], kind |-> k[Append(d, names[i])]]]
  BY DEF Listed
<1>. HIDE DEF names, n, list
<1>5. ASSUME NEW a \in 1..n
      PROVE  /\ names[a] \in Names /\ Append(p, names[a]) \in Paths
             /\ k[Append(d, names[a])] \in Kinds \ {"none"}
  BY <1>3 DEF Children
<1>6. list \in [1..n -> Entries] /\ DOMAIN list = 1..n
  BY <1>4, <1>5 DEF Entries
<1>7. list \in Seq(Entries)
  BY <1>2, <1>6, SeqDef
<1>8. \A a \in 1..n : list[a].name = names[a] /\ list[a].kind = k[Append(d, names[a])]
  BY <1>4
<1>9. [dir |-> p, rest |-> list] \in Levels
  BY <1>5, <1>6, <1>7, <1>8 DEF Levels
<1>10. \A a, b \in 1..n : a < b => list[a].name < list[b].name
  BY <1>3, <1>8 DEF Sorted
<1>11. \A c \in children : \E a \in 1..n : list[a].name = c
  BY <1>3, <1>8 DEF ToSet
<1>. QED  BY <1>5, <1>6, <1>7, <1>8, <1>9, <1>10, <1>11 DEF list
-----------------------------------------------------------------------------
(* Types.                                                                  *)

LEMMA FrontFacts ==
  ASSUME NEW q \in Paths, q # << >>
  PROVE  /\ Front(q) \in Paths /\ Front(q) # q /\ ~IsPrefix(q, Front(q)) /\ ~IsPrefix(q, << >>)
         /\ \A p \in Paths : IsPrefix(p, q) <=> p = q \/ IsPrefix(p, Front(q))
<1>1. Len(q) \in Nat \ {0} /\ Len(q) - 1 \in 0..Len(q)
  BY PathFacts
<1>2. /\ Front(q) \in Paths /\ Len(Front(q)) = Len(q) - 1
      /\ \A i \in 1..(Len(q) - 1) : Front(q)[i] = q[i]
  BY <1>1, FirstFacts DEF Front
<1>3. ASSUME NEW p \in Paths PROVE IsPrefix(p, q) <=> p = q \/ IsPrefix(p, Front(q))
  <2>1. Len(p) \in Nat
    BY PathFacts
  <2>2. CASE Len(p) <= Len(q) - 1
    <3>1. IsPrefix(p, q) <=> \A i \in 1..Len(p) : p[i] = q[i]
      BY <1>1, <2>1, <2>2, PrefixIs
    <3>2. IsPrefix(p, Front(q)) <=> \A i \in 1..Len(p) : p[i] = Front(q)[i]
      BY <1>2, <2>2, PrefixIs
    <3>3. (\A i \in 1..Len(p) : Front(q)[i] = q[i]) /\ p # q
      BY <1>1, <1>2, <2>1, <2>2
    <3>. QED  BY <3>1, <3>2, <3>3
  <2>3. CASE ~(Len(p) <= Len(q) - 1)
    <3>1. ~IsPrefix(p, Front(q))
      BY <1>2, <2>3, PrefixIs
    <3>2. IsPrefix(p, q) => Len(p) = Len(q) /\ \A i \in 1..Len(p) : p[i] = q[i]
      BY <1>1, <2>1, <2>3, PrefixIs
    <3>3. IsPrefix(p, q) => p = q
      BY <3>2, PathsEqual
    <3>. QED  BY <1>1, <3>1, <3>3, PrefixIs
  <2>. QED  BY <2>2, <2>3
<1>4. ~IsPrefix(q, Front(q)) /\ ~IsPrefix(q, << >>)
  BY <1>1, <1>2, RootFacts, PrefixIs
<1>. QED  BY <1>1, <1>2, <1>3, <1>4

LEMMA CreateWellFormed ==
  ASSUME NEW k \in [Paths -> Kinds], WellFormedTree(k), NEW p \in Paths,
         k[p] = "none", p # << >>, k[Front(p)] = "dir", NEW new \in {"file", "dir"}
  PROVE  WellFormedTree([k EXCEPT ![p] = new])
<1>. DEFINE k2 == [k EXCEPT ![p] = new]
<1>1. k2[<< >>] = "dir"
  BY RootFacts DEF WellFormedTree
<1>2. ASSUME NEW q \in Paths, k2[q] # "none", q # << >> PROVE k2[Front(q)] = "dir"
  <2>1. CASE q = p
    BY <2>1, FrontFacts
  <2>2. CASE q # p
    BY <1>2, <2>2, FrontFacts DEF WellFormedTree
  <2>. QED  BY <2>1, <2>2
<1>. QED  BY <1>1, <1>2 DEF WellFormedTree

LEMMA VacateWellFormed ==
  ASSUME NEW k \in [Paths -> Kinds], WellFormedTree(k), NEW p \in Paths, p # << >>,
         NEW new \in {"none", "link"}, new = "link" => k[Front(p)] = "dir"
  PROVE  WellFormedTree([q \in Paths |-> IF q = p THEN new
                                         ELSE IF IsPrefix(p, q) THEN "none" ELSE k[q]])
<1>. DEFINE k2 == [q \in Paths |-> IF q = p THEN new ELSE IF IsPrefix(p, q) THEN "none" ELSE k[q]]
<1>1. k2[<< >>] = "dir"
  BY RootFacts, FrontFacts DEF WellFormedTree
<1>2. ASSUME NEW q \in Paths, k2[q] # "none", q # << >> PROVE k2[Front(q)] = "dir"
  <2>1. CASE q = p
    <3>1. k[Front(p)] = "dir" /\ Front(p) \in Paths /\ Front(p) # p /\ ~IsPrefix(p, Front(p))
      BY <1>2, <2>1, FrontFacts
    <3>. QED  BY <2>1, <3>1
  <2>2. CASE q # p
    <3>1. ~IsPrefix(p, q) /\ k[q] # "none"
      BY <1>2, <2>2
    <3>2. Front(q) \in Paths /\ k[Front(q)] = "dir" /\ ~IsPrefix(p, Front(q)) /\ IsPrefix(Front(q), q)
      <4>1. IsPrefix(Front(q), Front(q))
        BY <1>2, FrontFacts, PrefixIs, PathFacts
      <4>. QED  BY <1>2, <2>2, <3>1, <4>1, FrontFacts DEF WellFormedTree
    <3>. QED  BY <3>1, <3>2
  <2>. QED  BY <2>1, <2>2
<1>. QED  BY <1>1, <1>2 DEF WellFormedTree

\* Where a path leads, there is no link any more.
LEMMA RealFacts ==
  ASSUME TreeInv, NEW p \in Paths
  PROVE  /\ Real(target, p) \in Paths \cup {Nowhere}
         /\ LinksOn(target, p) = {} => Real(target, p) = p
         /\ StatKind(kind, target, p) # "none" =>
              /\ Real(target, p) \in Paths
              /\ kind[Real(target, p)] = StatKind(kind, target, p)
              /\ kind[Real(target, p)] \notin {"none", "link"}
<1>. DEFINE followed[n \in 0..MaxLinks] ==
              IF n = 0 THEN {p} ELSE {FollowOnce(target, q) : q \in followed[n - 1]}
            ends == {q \in followed[MaxLinks] \cap Paths : LinksOn(target, q) = {}}
<1>1. Real(target, p) = IF LinksOn(target, p) = {} THEN p
                        ELSE IF ends = {} THEN Nowhere ELSE CHOOSE q \in ends : TRUE
  BY DEF Real
<1>2. \A q \in ends : q \in Paths /\ LinksOn(target, q) = {}
  OBVIOUS
<1>. HIDE DEF ends
<1>3. /\ Real(target, p) \in Paths \cup {Nowhere}
      /\ LinksOn(target, p) = {} => Real(target, p) = p
      /\ Real(target, p) # Nowhere => LinksOn(target, Real(target, p)) = {}
  BY <1>1, <1>2
<1>4. ASSUME NEW q \in Paths, LinksOn(target, q) = {} PROVE kind[q] # "link"
  <2>1. IsPrefix(q, q)
    BY PrefixIs, PathFacts
  <2>. QED  BY <1>4, <2>1 DEF LinksOn, TreeInv
<1>. QED  BY <1>3, <1>4 DEF StatKind

LEMMA MatchFacts ==
  ASSUME CallInv, at <= Len(matches)
  PROVE  Match \in Paths /\ at \in 1..Len(matches) /\ at + 1 \in 1..(Len(matches) + 1)
<1>1. at \in 1..Len(matches) /\ matches \in Seq(Paths) /\ at + 1 \in 1..(Len(matches) + 1)
  BY LenProperties DEF CallInv
<1>. QED  BY <1>1, ElementOfSeq DEF Match

\* Rewriting a file leaves the tree as it is, except that it makes a file
\* that has gone again.
LEMMA OpenFacts ==
  ASSUME TypeInv, OpenForWriting
  PROVE  /\ open' = Real(target, Match) /\ open' \in Paths /\ target' = target
         /\ Readable(Match) => kind' = kind
         /\ kind' \in [Paths -> Kinds] /\ WellFormedTree(kind')
         /\ \A p \in Paths : kind'[p] = "link" <=> kind[p] = "link"
<1>1. Match \in Paths /\ target' = target
  BY MatchFacts DEF OpenForWriting, Goto, TypeInv, CallInv
<1>2. open' = Real(target, Match) /\ open' \in Paths
  BY <1>1, RealFacts DEF OpenForWriting, Readable, Creatable, TypeInv
<1>3. ASSUME Readable(Match) PROVE kind' = kind
  <2>1. kind[open'] = "file"
    BY <1>1, <1>2, <1>3, RealFacts DEF Readable, TypeInv
  <2>. QED  BY <1>2, <2>1 DEF OpenForWriting, TypeInv, TreeInv
<1>4. ASSUME Creatable(open')
      PROVE  /\ kind' \in [Paths -> Kinds] /\ WellFormedTree(kind')
             /\ \A p \in Paths : kind'[p] = "link" <=> kind[p] = "link"
  <2>1. /\ kind' = [kind EXCEPT ![open'] = "file"] /\ kind \in [Paths -> Kinds] /\ WellFormedTree(kind)
        /\ kind[open'] = "none" /\ open' # << >> /\ kind[Front(open')] = "dir"
    BY <1>2, <1>4 DEF OpenForWriting, Creatable, TypeInv, TreeInv
  <2>. QED  BY <1>2, <2>1, CreateWellFormed DEF Kinds
<1>. QED
  BY <1>1, <1>2, <1>3, <1>4 DEF OpenForWriting, TypeInv, TreeInv

\* All below a path goes, and what comes in its place, if anything, is a link.
LEMMA VacateFacts ==
  ASSUME TypeInv, NEW p \in Touched, RemoveTree(p) \/ PutLink(p)
  PROVE  TreeInv' /\ open' \in {open, Nowhere}
<1>0. p \in Paths /\ p # << >>
  BY PathAssumption
<1>1. PICK new \in {"none", "link"} :
        /\ Vacate(p, new) /\ (new = "link" => kind[Front(p)] = "dir")
        /\ new = "none" => RemoveTree(p)
        /\ new = "link" => PutLink(p)
  BY DEF RemoveTree, PutLink
<1>2. /\ kind' = [q \in Paths |-> IF q = p THEN new
                                  ELSE IF IsPrefix(p, q) THEN "none" ELSE kind[q]]
      /\ text' = text
  BY <1>1 DEF Vacate
<1>3. kind \in [Paths -> Kinds] /\ WellFormedTree(kind) /\ TextsOK(text)
      /\ DOMAIN target = {q \in Paths : kind[q] = "link"} /\ \A q \in DOMAIN target : target[q] \in Paths
  BY DEF TypeInv, TreeInv
<1>4. kind' \in [Paths -> Kinds] /\ WellFormedTree(kind')
  <2>1. kind' \in [Paths -> Kinds]
    BY <1>2, <1>3 DEF Kinds
  <2>. QED  BY <1>0, <1>1, <1>2, <1>3, <2>1, VacateWellFormed
<1>5. IsPrefix(p, p)
  BY <1>0, PrefixIs, PathFacts
<1>6. LinksBeside(p) = {q \in Paths : kind[q] = "link" /\ ~IsPrefix(p, q)}
  BY <1>3 DEF LinksBeside
<1>7. target' \in [{q \in Paths : kind'[q] = "link"} -> Paths]
  <2>1. CASE new = "none"
    <3>1. {q \in Paths : kind'[q] = "link"} = LinksBeside(p)
      BY <1>2, <1>5, <1>6, <2>1
    <3>2. target' = [q \in LinksBeside(p) |-> target[q]]
      BY <1>1, <2>1 DEF RemoveTree
    <3>3. \A q \in LinksBeside(p) : target[q] \in Paths
      BY <1>3 DEF LinksBeside
    <3>. QED  BY <3>1, <3>2, <3>3
  <2>2. CASE new = "link"
    <3>1. {q \in Paths : kind'[q] = "link"} = LinksBeside(p) \cup {p}
      BY <1>0, <1>2, <1>5, <1>6, <2>2
    <3>2. PICK end \in Ends :
            target' = [q \in LinksBeside(p) \cup {p} |-> IF q = p THEN end ELSE target[q]]
      BY <1>1, <2>2 DEF PutLink
    <3>3. end \in Paths /\ \A q \in LinksBeside(p) : target[q] \in Paths
      BY <1>3, PathAssumption DEF LinksBeside
    <3>. QED  BY <3>1, <3>2, <3>3
  <2>. QED  BY <2>1, <2>2
<1>. QED  BY <1>1, <1>2, <1>3, <1>4, <1>7 DEF TreeInv, TextsOK, Vacate

LEMMA TreeInvStep == TypeInv /\ [Next]_vars => TreeInv'
<1>. SUFFICES ASSUME TypeInv, [Next]_vars PROVE TreeInv'
  OBVIOUS
<1>. USE DEF TypeInv, TreeInv, TextsOK
<1>1. CASE UNCHANGED tree
  BY <1>1 DEF tree
<1>2. CASE OpenForWriting
  <2>1. text' = [text EXCEPT ![open'] = 0]
    BY <1>2 DEF OpenForWriting
  <2>2. {q \in Paths : kind'[q] = "link"} = {q \in Paths : kind[q] = "link"}
    BY <1>2, OpenFacts
  <2>. QED  BY <1>2, <2>1, <2>2, OpenFacts
<1>3. CASE Put
  <2>1. loaded \in Nat /\ req.grows \in Nat /\ open \in Paths \cup {Nowhere}
    BY <1>3, SearchRequestAssumption DEF Put, Goto, CallInv
  <2>2. loaded * req.grows \in Nat
    BY <2>1
  <2>. QED  BY <1>3, <2>2 DEF Put
<1>4. ASSUME NEW p \in Touched, Edit(p) PROVE TreeInv'
  <2>1. PICK t \in Text : text' = [text EXCEPT ![p] = t]
    BY <1>4 DEF Edit
  <2>2. text' \in [Paths -> Nat \cup {Binary}] /\ kind' = kind /\ target' = target
    BY <1>4, <2>1, SearchAssumption DEF Edit, Text
  <2>. QED  BY <2>2
<1>5. ASSUME NEW p \in Touched, RemoveTree(p) \/ PutLink(p) PROVE TreeInv'
  BY <1>5, VacateFacts
<1>6. ASSUME NEW p \in Touched, Create(p) PROVE TreeInv'
  <2>1. PICK k \in {"file", "dir"}, t \in Text :
          kind' = [kind EXCEPT ![p] = k] /\ text' = [text EXCEPT ![p] = t]
    BY <1>6 DEF Create
  <2>2. kind' \in [Paths -> Kinds] /\ text' \in [Paths -> Nat \cup {Binary}] /\ target' = target
    BY <1>6, <2>1, SearchAssumption DEF Text, Kinds, Create
  <2>3. WellFormedTree(kind') /\ kind[p] = "none" /\ p \in Paths
    BY <1>6, <2>1, CreateWellFormed, PathAssumption DEF Create, Creatable
  <2>4. {q \in Paths : kind'[q] = "link"} = {q \in Paths : kind[q] = "link"}
    BY <2>1, <2>3
  <2>. QED  BY <2>2, <2>3, <2>4
<1>7. Begin \/ Refuse \/ Walk \/ LoadPass \/ LoadPreview \/ Load \/ LoadFails \/ Answer
      \/ OpenFails \/ PutFails \/ Stop => UNCHANGED tree
  BY DEF Begin, Refuse, Walk, StatRoot, ListDir, ListFails, EndOfDir, Truncate, Leave, Skip, Descend,
         Approve, Look, Take, StatLink, Search, SearchFails, Block, LoadPass, LoadPreview, Load,
         LoadFails, Answer, OpenFails, PutFails, Stop, SameTree, vars
<1>. QED
  BY <1>1, <1>2, <1>3, <1>4, <1>5, <1>6, <1>7 DEF Next, Replace, OtherChanges, vars

\* The directory being walked, and the entry that is next.
LEMMA FrameFacts ==
  ASSUME CallInv, stack # << >>
  PROVE  /\ Len(stack) \in Nat \ {0} /\ Len(stack) \in DOMAIN stack /\ DOMAIN stack = 1..Len(stack)
         /\ Frame = stack[Len(stack)] /\ Frame \in Levels
         /\ Frame.dir \in Paths /\ Frame.rest \in Seq(Entries)
         /\ DOMAIN Frame.rest = 1..Len(Frame.rest) /\ Len(Frame.rest) \in Nat
         /\ Frame.rest # << >> =>
              /\ 1 \in DOMAIN Frame.rest /\ NextEntry = Frame.rest[1]
              /\ NextEntry.name \in Names /\ NextEntry.kind \in Kinds \ {"none"}
              /\ NextPath \in Paths /\ NextPath = EntryPath(Len(stack), 1)
<1>1. stack \in Seq(Levels) /\ Len(stack) \in Nat \ {0} /\ DOMAIN stack = 1..Len(stack)
  BY EmptySeq, LenProperties DEF CallInv
<1>2. Frame = stack[Len(stack)] /\ Frame \in Levels
  BY <1>1, ElementOfSeq DEF Frame, Last
<1>3. /\ Frame.dir \in Paths /\ Frame.rest \in Seq(Entries)
      /\ \A a \in DOMAIN Frame.rest : Append(Frame.dir, Frame.rest[a].name) \in Paths
  BY <1>2 DEF Levels
<1>4. DOMAIN Frame.rest = 1..Len(Frame.rest) /\ Len(Frame.rest) \in Nat
  BY <1>3, LenProperties
<1>5. ASSUME Frame.rest # << >>
      PROVE  /\ 1 \in DOMAIN Frame.rest /\ NextEntry = Frame.rest[1]
             /\ NextEntry.name \in Names /\ NextEntry.kind \in Kinds \ {"none"}
             /\ NextPath \in Paths /\ NextPath = EntryPath(Len(stack), 1)
  <2>1. 1 \in 1..Len(Frame.rest) /\ NextEntry = Frame.rest[1]
    BY <1>3, <1>4, <1>5, EmptySeq DEF NextEntry
  <2>2. NextEntry \in Entries
    BY <1>3, <2>1, ElementOfSeq
  <2>. QED  BY <1>2, <1>3, <1>4, <2>1, <2>2 DEF Entries, NextPath, EntryPath
<1>. QED  BY <1>1, <1>2, <1>3, <1>4, <1>5

\* walkDir returns: the directories above are as they were.
LEMMA LeaveFacts ==
  ASSUME CallInv, Leave
  PROVE  /\ stack # << >> /\ stack' \in Seq(Levels)
         /\ DOMAIN stack' = 1..(Len(stack) - 1)
         /\ \A l \in DOMAIN stack' : l \in DOMAIN stack /\ stack'[l] = stack[l]
         /\ Len(stack) > 1 <=> stack' # << >>
<1>1. pc = "next" /\ stack # << >> /\ stack \in Seq(Levels) /\ stack' = SubSeq(stack, 1, Len(stack) - 1)
  BY DEF Leave, CallInv, Front
<1>2. Len(stack) \in Nat \ {0} /\ DOMAIN stack = 1..Len(stack)
  BY <1>1, FrameFacts
<1>3. \A l \in 1..(Len(stack) - 1) : stack[l] \in Levels
  BY <1>1, <1>2, ElementOfSeq
<1>. DEFINE n == Len(stack) - 1
            above == SubSeq(stack, 1, n)
<1>4. n \in Nat /\ n + 1 = Len(stack)
  BY <1>2
<1>. HIDE DEF n
<1>5. /\ above \in Seq(Levels)
      /\ Len(above) = IF 1 <= n THEN n - 1 + 1 ELSE 0
      /\ \A l \in 1..(n - 1 + 1) : above[l] = stack[1 + l - 1]
  <2>1. 1 \in Int /\ n \in Int /\ \A l \in 1..n : stack[l] \in Levels
    BY <1>3, <1>4 DEF n
  <2>. QED  BY <2>1, SubSeqProperties
<1>. HIDE DEF above
<1>6. /\ above \in Seq(Levels) /\ Len(above) = n /\ DOMAIN above = 1..n
      /\ \A l \in 1..n : l \in 1..(n + 1) /\ above[l] = stack[l]
  BY <1>4, <1>5, LenProperties
<1>7. Len(stack) > 1 <=> above # << >>
  <2>1. above # << >> <=> Len(above) # 0
    BY <1>6, EmptySeq
  <2>. QED  BY <1>4, <1>6, <2>1
<1>8. stack' = above
  BY <1>1 DEF above, n
<1>. QED  BY <1>1, <1>2, <1>4, <1>6, <1>7, <1>8 DEF n

\* The next entry comes off the list of its directory.
LEMMA TakeFacts ==
  ASSUME CallInv, Take
  PROVE  /\ stack # << >> /\ Frame.rest # << >>
         /\ stack' # << >> /\ stack' \in Seq(Levels) /\ DOMAIN stack' = DOMAIN stack
         /\ \A l \in DOMAIN stack :
              /\ stack'[l].dir = stack[l].dir
              /\ l # Len(stack) => stack'[l] = stack[l]
         /\ DOMAIN stack'[Len(stack)].rest = 1..(Len(Frame.rest) - 1)
         /\ \A a \in DOMAIN stack'[Len(stack)].rest :
              a + 1 \in DOMAIN Frame.rest /\ stack'[Len(stack)].rest[a] = Frame.rest[a + 1]
         /\ cur' = NextPath
<1>1. /\ stack # << >> /\ stack \in Seq(Levels) /\ Frame.rest # << >>
      /\ stack' = [stack EXCEPT ![Len(stack)].rest = Tail(@)]
  BY DEF Take, CallInv
<1>2. /\ Len(stack) \in Nat \ {0} /\ Len(stack) \in 1..Len(stack) /\ DOMAIN stack = 1..Len(stack)
      /\ Frame = stack[Len(stack)] /\ Frame \in Levels
      /\ Frame.dir \in Paths /\ Frame.rest \in Seq(Entries)
      /\ DOMAIN Frame.rest = 1..Len(Frame.rest) /\ Len(Frame.rest) \in Nat
  BY <1>1, FrameFacts
<1>3. /\ Tail(Frame.rest) \in Seq(Entries) /\ Len(Tail(Frame.rest)) = Len(Frame.rest) - 1
      /\ \A a \in 1..Len(Tail(Frame.rest)) : Tail(Frame.rest)[a] = Frame.rest[a + 1]
  BY <1>1, <1>2, HeadTailProperties
<1>4. DOMAIN Tail(Frame.rest) = 1..(Len(Frame.rest) - 1)
  BY <1>3, LenProperties
<1>. DEFINE new == [Frame EXCEPT !.rest = Tail(@)]
<1>5. Frame \in [dir : Paths, rest : Seq(Entries)]
  BY <1>2 DEF Levels
<1>6. new \in [dir : Paths, rest : Seq(Entries)] /\ new.dir = Frame.dir /\ new.rest = Tail(Frame.rest)
  BY <1>3, <1>5
<1>. HIDE DEF new
<1>7. new \in Levels
  <2>1. ASSUME NEW a \in DOMAIN new.rest PROVE Append(new.dir, new.rest[a].name) \in Paths
    <3>1. a + 1 \in DOMAIN Frame.rest /\ new.rest[a] = Frame.rest[a + 1]
      BY <1>2, <1>3, <1>4, <1>6, <2>1
    <3>. QED  BY <1>2, <1>6, <3>1 DEF Levels
  <2>. QED  BY <1>6, <2>1 DEF Levels
<1>8. stack' = [stack EXCEPT ![Len(stack)] = new]
  BY <1>1, <1>2 DEF new
<1>9. /\ stack' \in Seq(Levels) /\ Len(stack') = Len(stack)
      /\ \A l \in 1..Len(stack) : stack'[l] = IF l = Len(stack) THEN new ELSE stack[l]
  <2>. DEFINE st == [stack EXCEPT ![Len(stack)] = new]
  <2>1. /\ st \in Seq(Levels) /\ Len(st) = Len(stack)
        /\ \A l \in 1..Len(stack) : st[l] = IF l = Len(stack) THEN new ELSE stack[l]
    BY <1>1, <1>2, <1>7, ExceptSeq
  <2>. QED  BY <1>8, <2>1
<1>10. DOMAIN stack' = DOMAIN stack /\ stack' # << >>
  BY <1>2, <1>9, EmptySeq, LenProperties
<1>11. \A a \in 1..(Len(Frame.rest) - 1) :
         a + 1 \in DOMAIN Frame.rest /\ Tail(Frame.rest)[a] = Frame.rest[a + 1]
  BY <1>2, <1>3
<1>. QED  BY <1>1, <1>2, <1>4, <1>6, <1>9, <1>10, <1>11 DEF Take

\* A directory's list goes on top of the stack.
LEMMA ListFacts ==
  ASSUME TypeInv, ListDir
  PROVE  /\ StatKind(kind, target, cur) = "dir" /\ Real(target, cur) \in Paths
         /\ stack' \in Seq(Levels) /\ stack' # << >> /\ DOMAIN stack' = 1..(Len(stack) + 1)
         /\ Len(stack) \in Nat /\ DOMAIN stack = 1..Len(stack)
         /\ \A l \in DOMAIN stack : stack'[l] = stack[l]
         /\ stack'[Len(stack) + 1] = [dir |-> cur, rest |-> Listed(kind, Real(target, cur), cur)]
<1>1. /\ stack \in Seq(Levels) /\ cur \in Paths /\ kind \in [Paths -> Kinds]
      /\ StatKind(kind, target, cur) = "dir" /\ Real(target, cur) \in Paths
      /\ stack' = Append(stack, [dir |-> cur, rest |-> Listed(kind, Real(target, cur), cur)])
  BY RealFacts DEF ListDir, Unreadable, TypeInv, TreeInv, CallInv
<1>2. [dir |-> cur, rest |-> Listed(kind, Real(target, cur), cur)] \in Levels
  BY <1>1, ListedFacts
<1>3. Len(stack) \in Nat /\ DOMAIN stack = 1..Len(stack)
  BY <1>1, LenProperties
<1>4. /\ stack' \in Seq(Levels) /\ stack' # << >> /\ Len(stack') = Len(stack) + 1
      /\ \A l \in 1..Len(stack) : stack'[l] = stack[l]
      /\ stack'[Len(stack) + 1] = [dir |-> cur, rest |-> Listed(kind, Real(target, cur), cur)]
  BY <1>1, <1>2, AppendProperties
<1>5. DOMAIN stack' = 1..(Len(stack) + 1)
  BY <1>4, LenProperties
<1>. QED  BY <1>1, <1>3, <1>4, <1>5

LEMMA CallInvInit == Init => CallInv
<1>. SUFFICES ASSUME Init PROVE CallInv
  OBVIOUS
<1>1. << >> \in Seq(Levels) /\ << >> \in Seq(Paths) /\ Len(<< >>) = 0
  OBVIOUS
<1>2. text \in [Paths -> Nat \cup {Binary}]
  BY SearchAssumption DEF Init, Text
<1>3. 1 \in 1..(0 + 1) /\ 0 \in 0..MaxChanges /\ 0 \in Nat
  BY SearchAssumption
<1>4. /\ pc = "idle" /\ req = NoRequest /\ stack = << >> /\ cur = Root /\ matches = << >>
      /\ truncated = FALSE /\ files = << >> /\ at = 1 /\ loaded = 0 /\ open = Nowhere
      /\ result = "none" /\ changes = 0 /\ before = text
  BY DEF Init
<1>. QED
  BY <1>1, <1>2, <1>3, <1>4, RootFacts DEF CallInv, TextsOK, Stages, Walking

LEMMA CallInvStep == TypeInv /\ [Next]_vars => CallInv'
<1>. SUFFICES ASSUME TypeInv, [Next]_vars PROVE CallInv'
  OBVIOUS
<1>. USE DEF TypeInv, CallInv, Goto, Finish, walking, writing
<1>1. CASE Begin
  BY <1>1 DEF Begin, TextsOK, TreeInv, Stages, Walking
<1>2. CASE Refuse \/ ListFails \/ SearchFails \/ LoadFails \/ OpenFails \/ PutFails \/ Block \/ Answer
  BY <1>2 DEF Refuse, ListFails, SearchFails, LoadFails, OpenFails, PutFails, Block, Answer,
              SameTree, history, TextsOK, Stages, Walking
<1>3. CASE StatRoot
  BY <1>3 DEF StatRoot, SameTree, history, TextsOK, Stages, Walking
<1>4. CASE ListDir
  BY <1>4, ListFacts DEF ListDir, SameTree, history, TextsOK, Stages, Walking
<1>5. CASE EndOfDir \/ Truncate
  <2>1. Leave /\ truncated' \in BOOLEAN
    BY <1>5 DEF EndOfDir, Truncate
  <2>2. /\ stack' \in Seq(Levels) /\ (stack' # << >> <=> Len(stack) > 1)
    BY <2>1, LeaveFacts
  <2>3. /\ pc = "next" /\ pc' \in {"next", "load", "done"}
        /\ pc' = "next" <=> stack' # << >>
        /\ pc' = "load" => req.tool = "replace"
        /\ result' = IF pc' = "done" THEN "ok" ELSE result
    BY <2>1, <2>2 DEF Leave
  <2>4. UNCHANGED <<req, cur, matches, files, at, loaded, open, changes, before>>
    BY <2>1 DEF Leave, SameTree, history
  <2>. QED
    BY <2>1, <2>2, <2>3, <2>4 DEF TextsOK, Stages, Walking
<1>6. CASE Skip \/ Descend \/ Approve \/ Look
  <2>1. Take
    BY <1>6 DEF Skip, Descend, Approve, Look
  <2>2. stack' # << >> /\ stack' \in Seq(Levels) /\ cur' \in Paths
    BY <2>1, TakeFacts, FrameFacts
  <2>3. matches' \in Seq(Paths) /\ pc' \in {"next", "list", "stat", "read"}
    <3>1. NextPath \in Paths /\ pc = "next"
      BY <2>1, TakeFacts, FrameFacts DEF Take
    <3>2. Append(matches, NextPath) \in Seq(Paths)
      BY <3>1, AppendProperties
    <3>. QED  BY <1>6, <3>1, <3>2 DEF Skip, Descend, Approve, Look, Judge
  <2>4. Len(matches') \in Nat /\ 1 \in 1..(Len(matches') + 1)
    BY <2>3, LenProperties
  <2>. QED  BY <2>1, <2>2, <2>3, <2>4 DEF Take, SameTree, history, TextsOK, Stages, Walking
<1>7. CASE StatLink \/ Search
  <2>0. Append(matches, cur) \in Seq(Paths)
    BY AppendProperties
  <2>1. matches' \in Seq(Paths) /\ pc \in {"stat", "read"} /\ pc' \in {"next", "read"}
    BY <1>7, <2>0 DEF StatLink, Judge, Search
  <2>2. Len(matches') \in Nat /\ 1 \in 1..(Len(matches') + 1)
    BY <2>1, LenProperties
  <2>. QED  BY <1>7, <2>1, <2>2 DEF StatLink, Search, SameTree, history, TextsOK, Stages, Walking
<1>8. CASE LoadPass \/ LoadPreview \/ Load \/ Put
  <2>1. at <= Len(matches)
    BY <1>8, LenProperties DEF LoadPass, LoadPreview, Load, Put, AllMatches
  <2>2. at + 1 \in 1..(Len(matches) + 1) /\ Match \in Paths
    BY <2>1, MatchFacts
  <2>3. loaded' \in Nat
    <3>1. CASE Load
      <4>1. Real(target, Match) \in Paths
        BY <2>2, <3>1, RealFacts DEF Load, Readable
      <4>. QED  BY <3>1, <4>1 DEF Load, Replaceable, TreeInv, TextsOK
    <3>2. CASE LoadPass \/ LoadPreview \/ Put
      BY <3>2 DEF LoadPass, LoadPreview, Put
    <3>. QED  BY <1>8, <3>1, <3>2
  <2>. QED
    BY <1>8, <2>1, <2>2, <2>3
       DEF LoadPass, LoadPreview, Load, Put, Report, SameTree, history, TextsOK, Stages, Walking
<1>9. CASE OpenForWriting
  BY <1>9, OpenFacts DEF OpenForWriting, TextsOK, Stages, Walking
<1>10. ASSUME NEW p \in Touched, Edit(p) \/ Create(p) \/ RemoveTree(p) \/ PutLink(p) PROVE CallInv'
  <2>1. /\ UNCHANGED <<pc, req, stack, cur, matches, truncated, files, at, loaded, result, before>>
        /\ changes < MaxChanges /\ changes' = changes + 1
    BY <1>10 DEF Edit, Create, RemoveTree, PutLink, Vacate, Meanwhile
  <2>2. changes' \in 0..MaxChanges
    BY <2>1, SearchAssumption
  <2>3. open' \in Paths \cup {Nowhere}
    BY <1>10, VacateFacts DEF Edit, Create
  <2>. QED  BY <2>1, <2>2, <2>3 DEF TextsOK
<1>11. CASE UNCHANGED vars
  BY <1>11 DEF vars, history, TextsOK
<1>. QED
  BY <1>1, <1>2, <1>3, <1>4, <1>5, <1>6, <1>7, <1>8, <1>9, <1>10, <1>11
     DEF Next, Walk, Replace, OtherChanges, Stop

LEMMA TypeInvInit == Init => TypeInv
<1>1. Init => TreeInv
  BY SearchAssumption, TreeAssumption DEF Init, TreeInv, TextsOK, Text
<1>. QED  BY <1>1, CallInvInit DEF TypeInv

LEMMA TypeInvStep == TypeInv /\ [Next]_vars => TypeInv'
  BY TreeInvStep, CallInvStep DEF TypeInv

LEMMA TypeInvAlways == Spec => []TypeInv
  BY TypeInvInit, TypeInvStep, PTL DEF Spec

\* Every variable always has its type: what the walk has on its stack are
\* paths of the tree, and a replace never runs past its last match.
THEOREM TypesAlwaysOK == Spec => []TypeOK
<1>1. ASSUME TypeInv PROVE TypeOK
  <2>1. \A l \in 1..Len(stack) : stack[l].dir \in Paths
    BY <1>1, ElementOfSeq DEF TypeInv, CallInv, Levels
  <2>. QED  BY <1>1, <2>1 DEF TypeInv, TreeInv, CallInv, TextsOK, Stages, TypeOK
<1>. QED  BY <1>1, TypeInvAlways, PTL
-----------------------------------------------------------------------------
(* The order of the report.                                                *)

LEMMA EntryFacts ==
  ASSUME CallInv, NEW l \in DOMAIN stack
  PROVE  /\ stack[l].dir \in Paths /\ l \in Nat
         /\ \A a \in DOMAIN stack[l].rest :
              /\ a \in Nat /\ EntryPath(l, a) \in Paths
              /\ stack[l].rest[a].name \in Names /\ stack[l].rest[a].kind \in Kinds \ {"none"}
<1>1. stack[l] \in Levels /\ l \in Nat
  BY LenProperties, ElementOfSeq DEF CallInv
<1>2. stack[l].dir \in Paths /\ stack[l].rest \in Seq(Entries)
      /\ \A a \in DOMAIN stack[l].rest : Append(stack[l].dir, stack[l].rest[a].name) \in Paths
  BY <1>1 DEF Levels
<1>3. \A a \in DOMAIN stack[l].rest : a \in Nat /\ stack[l].rest[a] \in Entries
  BY <1>2, LenProperties, ElementOfSeq
<1>. QED  BY <1>1, <1>2, <1>3 DEF EntryPath, Entries

LEMMA MatchesFacts ==
  ASSUME CallInv
  PROVE  /\ matches \in Seq(Paths) /\ Len(matches) \in Nat /\ DOMAIN matches = 1..Len(matches)
         /\ \A i \in 1..Len(matches) : matches[i] \in Paths
  BY LenProperties, ElementOfSeq DEF CallInv

LEMMA AppendFacts ==
  ASSUME NEW s \in Seq(Paths), NEW x \in Paths
  PROVE  /\ Append(s, x) \in Seq(Paths) /\ Len(Append(s, x)) = Len(s) + 1 /\ Len(s) \in Nat
         /\ \A i \in 1..(Len(s) + 1) : Append(s, x)[i] = IF i <= Len(s) THEN s[i] ELSE x
         /\ ToSet(Append(s, x)) = ToSet(s) \cup {x}
<1>1. /\ Append(s, x) \in Seq(Paths) /\ Len(Append(s, x)) = Len(s) + 1 /\ Len(s) \in Nat
      /\ DOMAIN Append(s, x) = 1..(Len(s) + 1) /\ DOMAIN s = 1..Len(s)
      /\ \A i \in 1..Len(s) : Append(s, x)[i] = s[i]
      /\ Append(s, x)[Len(s) + 1] = x
  BY AppendProperties, LenProperties
<1>2. \A i \in 1..(Len(s) + 1) : Append(s, x)[i] = IF i <= Len(s) THEN s[i] ELSE x
  BY <1>1
<1>3. ToSet(Append(s, x)) \subseteq ToSet(s) \cup {x}
  <2>1. ASSUME NEW i \in 1..(Len(s) + 1) PROVE Append(s, x)[i] \in ToSet(s) \cup {x}
    BY <1>1, <1>2 DEF ToSet
  <2>. QED  BY <1>1, <2>1 DEF ToSet
<1>4. ToSet(s) \cup {x} \subseteq ToSet(Append(s, x))
  <2>1. ASSUME NEW i \in 1..Len(s) PROVE s[i] \in ToSet(Append(s, x))
    BY <1>1 DEF ToSet
  <2>2. x \in ToSet(Append(s, x))
    <3>1. Len(s) + 1 \in 1..(Len(s) + 1)
      BY <1>1
    <3>. QED  BY <1>1, <3>1 DEF ToSet
  <2>. QED  BY <1>1, <2>1, <2>2 DEF ToSet
<1>. QED  BY <1>1, <1>2, <1>3, <1>4

\* After an entry has been taken, those left are those that were behind it.
LEMMA EntryAfterTake ==
  ASSUME CallInv, Take, NEW l \in DOMAIN stack', NEW a \in DOMAIN stack'[l].rest
  PROVE  LET old == IF l = Len(stack) THEN a + 1 ELSE a
         IN  /\ l \in DOMAIN stack /\ old \in DOMAIN stack[l].rest
             /\ stack'[l].rest[a] = stack[l].rest[old]
             /\ EntryPath(l, a)' = EntryPath(l, old)
  BY SMTT(60), TakeFacts, FrameFacts DEF EntryPath

LEMMA TakeInOrder ==
  ASSUME CallInv, OrderInv, Take, NEW l \in DOMAIN stack', NEW a \in DOMAIN stack'[l].rest
  PROVE  /\ \A b \in DOMAIN stack'[l].rest : a < b => stack'[l].rest[a].name < stack'[l].rest[b].name
         /\ \A m \in DOMAIN stack' : l < m => Precedes(stack'[m].dir, EntryPath(l, a)')
         /\ \A i \in 1..Len(matches) : Precedes(matches[i], EntryPath(l, a)')
         /\ Precedes(NextPath, EntryPath(l, a)')
<1>. DEFINE n == Len(stack)
            Old(b) == IF l = n THEN b + 1 ELSE b
<1>1. /\ n \in DOMAIN stack /\ DOMAIN stack = 1..n /\ n \in Nat
      /\ 1 \in DOMAIN stack[n].rest /\ Frame = stack[n]
      /\ NextPath = EntryPath(n, 1) /\ NextPath \in Paths /\ DOMAIN stack' = DOMAIN stack
      /\ \A m \in DOMAIN stack : stack'[m].dir = stack[m].dir
  BY TakeFacts, FrameFacts
<1>2. \A b \in DOMAIN stack'[l].rest :
        /\ l \in DOMAIN stack /\ Old(b) \in DOMAIN stack[l].rest /\ b \in Nat
        /\ stack'[l].rest[b] = stack[l].rest[Old(b)]
        /\ EntryPath(l, b)' = EntryPath(l, Old(b))
  <2>1. \A b \in DOMAIN stack'[l].rest : b \in Nat
    BY TakeFacts, EntryFacts, FrameFacts
  <2>. QED  BY <2>1, EntryAfterTake
<1>3. EntryInOrder(l, Old(a)) /\ l \in 1..n
  BY <1>1, <1>2 DEF OrderInv
<1>4. ASSUME NEW b \in DOMAIN stack'[l].rest, a < b
      PROVE  stack'[l].rest[a].name < stack'[l].rest[b].name
  <2>1. Old(a) < Old(b)
    BY <1>2, <1>4
  <2>. QED  BY <1>2, <1>3, <2>1 DEF EntryInOrder
<1>5. Precedes(NextPath, EntryPath(l, a)')
  <2>1. CASE l = n
    <3>1. Old(a) = a + 1 /\ 1 < a + 1
      <4>1. a \in Nat \ {0}
        BY <2>1, TakeFacts, FrameFacts
      <4>. QED  BY <2>1, <4>1
    <3>2. EntryInOrder(n, 1) /\ a + 1 \in DOMAIN stack[n].rest
      BY <1>1, <1>2, <2>1, <3>1 DEF OrderInv
    <3>3. stack[n].rest[1].name < stack[n].rest[a + 1].name
      BY <3>1, <3>2 DEF EntryInOrder
    <3>4. /\ EntryPath(n, 1) \in Paths /\ EntryPath(n, a + 1) \in Paths /\ stack[n].dir \in Paths
          /\ stack[n].rest[1].name \in Names /\ stack[n].rest[a + 1].name \in Names
      BY <1>1, <3>2, EntryFacts
    <3>5. Precedes(EntryPath(n, 1), EntryPath(n, a + 1))
      BY <3>3, <3>4, SiblingsPrecede DEF EntryPath
    <3>. QED  BY <1>1, <1>2, <2>1, <3>1, <3>5
  <2>2. CASE l # n
    <3>1. Precedes(stack[n].dir, EntryPath(l, a)) /\ l \in DOMAIN stack /\ a \in DOMAIN stack[l].rest
      <4>1. l < n
        BY <1>1, <1>3, <2>2
      <4>. QED  BY <1>1, <1>2, <1>3, <2>2, <4>1 DEF EntryInOrder
    <3>2. /\ EntryPath(l, a) \in Paths /\ stack[n].dir \in Paths
          /\ stack[n].rest[1].name \in Names
      BY <1>1, <3>1, EntryFacts
    <3>3. Precedes(EntryPath(n, 1), EntryPath(l, a))
      BY <1>1, <3>1, <3>2, PrecedesChild DEF EntryPath
    <3>. QED  BY <1>1, <1>2, <2>2, <3>3
  <2>. QED  BY <2>1, <2>2
<1>. QED  BY <1>1, <1>2, <1>3, <1>4, <1>5 DEF EntryInOrder

LEMMA OrderInvStep == TypeInv /\ OrderInv /\ [Next]_vars => OrderInv'
<1>. SUFFICES ASSUME TypeInv, OrderInv, [Next]_vars PROVE OrderInv'
  OBVIOUS
<1>. USE DEF TypeInv, Goto, Finish, walking, writing
<1>0. Limit \in Nat /\ Limit' \in Nat
  <2>1. req.max \in Nat /\ req'.max \in Nat
    BY TypeInvStep, SearchRequestAssumption DEF CallInv, NoRequest
  <2>. QED  BY <2>1, SearchAssumption DEF Limit
<1>1. ASSUME UNCHANGED <<matches, stack, req>>,
             pc' \in {"list", "stat", "read"} => pc = pc' /\ cur' = cur
      PROVE  OrderInv'
  BY <1>1 DEF OrderInv, EntryInOrder, EntryPath, Limit
<1>2. CASE Begin \/ StatRoot
  <2>1. matches' = << >> /\ stack' = << >> /\ pc' \in {"root", "list"} /\ cur' = cur
    BY <1>2 DEF Begin, StatRoot, CallInv
  <2>2. Len(matches') = 0 /\ DOMAIN stack' = {}
    BY <2>1
  <2>. QED  BY <1>0, <2>1, <2>2 DEF OrderInv
<1>3. CASE ListDir
  <2>0. PICK n, list : n = Len(stack) /\ list = Listed(kind, Real(target, cur), cur)
    OBVIOUS
  <2>1. /\ n \in Nat /\ DOMAIN stack = 1..n /\ DOMAIN stack' = 1..(n + 1)
        /\ \A l \in DOMAIN stack : stack'[l] = stack[l]
        /\ stack'[n + 1].dir = cur /\ stack'[n + 1].rest = list
    BY <1>3, <2>0, ListFacts
  <2>2. pc = "list" /\ pc' = "next" /\ UNCHANGED <<matches, req, cur>>
    BY <1>3 DEF ListDir
  <2>3. /\ list \in Seq(Entries)
        /\ \A a, b \in DOMAIN list : a < b => list[a].name < list[b].name
        /\ \A a \in DOMAIN list : Append(cur, list[a].name) \in Paths /\ list[a].name \in Names
    <3>1. list \in Seq(Entries)
      BY <1>3, <2>0, ListFacts, ListedFacts DEF TreeInv, CallInv
    <3>2. ASSUME NEW a \in DOMAIN list PROVE list[a].name \in Names
      <4>1. list[a] \in Entries
        BY <3>1, LenProperties, ElementOfSeq
      <4>. QED  BY <4>1 DEF Entries
    <3>3. /\ \A a, b \in DOMAIN list : a < b => list[a].name < list[b].name
          /\ \A a \in DOMAIN list : Append(cur, list[a].name) \in Paths
      BY <1>3, <2>0, ListFacts, ListedFacts DEF TreeInv, CallInv
    <3>. QED  BY <3>1, <3>2, <3>3
  <2>4. ASSUME NEW a \in DOMAIN list PROVE EntryInOrder(n + 1, a)'
    <3>1. EntryPath(n + 1, a)' = Append(cur, list[a].name)
      BY <2>1 DEF EntryPath
    <3>2. \A i \in 1..Len(matches) : Precedes(matches[i], Append(cur, list[a].name))
      BY <2>2, <2>3, <2>4, MatchesFacts, PrecedesChild DEF OrderInv, CallInv
    <3>3. \A m \in DOMAIN stack' : ~(n + 1 < m)
      BY <2>1
    <3>. QED  BY <2>1, <2>2, <2>3, <3>1, <3>2, <3>3 DEF EntryInOrder
  <2>5. ASSUME NEW l \in DOMAIN stack, NEW a \in DOMAIN stack[l].rest PROVE EntryInOrder(l, a)'
    <3>1. EntryInOrder(l, a) /\ EntryPath(l, a)' = EntryPath(l, a)
      BY <2>1, <2>5 DEF OrderInv, EntryPath
    <3>2. ASSUME NEW m \in DOMAIN stack', l < m PROVE Precedes(stack'[m].dir, EntryPath(l, a))
      <4>1. CASE m = n + 1
        BY <2>1, <2>2, <3>1, <4>1 DEF EntryInOrder
      <4>2. CASE m # n + 1
        <5>1. m \in DOMAIN stack
          BY <2>1, <4>2
        <5>. QED  BY <2>1, <3>1, <3>2, <5>1 DEF EntryInOrder
      <4>. QED  BY <4>1, <4>2
    <3>. QED  BY <2>1, <2>2, <3>1, <3>2 DEF EntryInOrder
  <2>6. ASSUME NEW l \in DOMAIN stack', NEW a \in DOMAIN stack'[l].rest PROVE EntryInOrder(l, a)'
    <3>1. CASE l = n + 1
      BY <2>1, <2>4, <2>6, <3>1
    <3>2. CASE l # n + 1
      <4>1. l \in DOMAIN stack /\ stack'[l] = stack[l]
        BY <2>1, <3>2
      <4>. QED  BY <2>5, <2>6, <4>1
    <3>. QED  BY <3>1, <3>2
  <2>. QED  BY <2>2, <2>6 DEF OrderInv, Limit
<1>4. CASE EndOfDir \/ Truncate
  <2>1. Leave
    BY <1>4 DEF EndOfDir, Truncate
  <2>2. /\ \A l \in DOMAIN stack' : l \in DOMAIN stack /\ stack'[l] = stack[l]
        /\ pc' \notin {"list", "stat", "read"} /\ UNCHANGED <<matches, req>>
    BY <2>1, LeaveFacts DEF Leave
  <2>3. ASSUME NEW l \in DOMAIN stack', NEW a \in DOMAIN stack'[l].rest PROVE EntryInOrder(l, a)'
    <3>1. EntryInOrder(l, a) /\ EntryPath(l, a)' = EntryPath(l, a)
      BY <2>2, <2>3 DEF OrderInv, EntryPath
    <3>. QED  BY <2>2, <3>1 DEF EntryInOrder
  <2>. QED  BY <2>2, <2>3 DEF OrderInv, Limit
<1>5. CASE Skip \/ Descend \/ Approve \/ Look
  <2>1. Take
    BY <1>5 DEF Skip, Descend, Approve, Look
  <2>2. /\ cur' = NextPath /\ req' = req /\ NextPath \in Paths /\ NextPath = EntryPath(Len(stack), 1)
        /\ Len(stack) \in DOMAIN stack /\ 1 \in DOMAIN stack[Len(stack)].rest
    BY <2>1, TakeFacts, FrameFacts DEF Take
  <2>3. \A i \in 1..Len(matches) : Precedes(matches[i], NextPath)
    BY <2>2 DEF OrderInv, EntryInOrder
  <2>4. matches' = matches \/ matches' = Append(matches, NextPath)
    BY <1>5 DEF Skip, Descend, Approve, Look, Judge
  <2>5. pc' \in {"list", "stat", "read"} => matches' = matches
    BY <1>5, <2>1 DEF Skip, Descend, Approve, Look, Judge, Take
  <2>6. \A i \in 1..Len(matches') : (matches'[i] = matches[i] /\ i \in 1..Len(matches))
                                    \/ (matches'[i] = NextPath /\ i = Len(matches) + 1)
    BY <2>2, <2>4, MatchesFacts, AppendFacts
  <2>7. ASSUME NEW l \in DOMAIN stack', NEW a \in DOMAIN stack'[l].rest PROVE EntryInOrder(l, a)'
    BY <2>1, <2>2, <2>6, <2>7, TakeInOrder DEF EntryInOrder
  <2>8. Len(matches') <= Limit /\ (pc' \in {"stat", "read"} => Len(matches') < Limit)
    <3>1. Len(matches) < Limit /\ Len(matches) \in Nat
      BY <1>0, <2>1, MatchesFacts DEF Take, Full
    <3>2. Len(matches') = Len(matches) \/ Len(matches') = Len(matches) + 1
      BY <2>2, <2>4, MatchesFacts, AppendFacts
    <3>. QED  BY <1>0, <2>5, <3>1, <3>2
  <2>9. \A i, j \in 1..Len(matches') : i < j => Precedes(matches'[i], matches'[j])
    <3>1. SUFFICES ASSUME NEW i \in 1..Len(matches'), NEW j \in 1..Len(matches'), i < j
                   PROVE  Precedes(matches'[i], matches'[j])
      OBVIOUS
    <3>2. Len(matches) \in Nat
      BY MatchesFacts
    <3>3. i \in 1..Len(matches) /\ matches'[i] = matches[i]
      <4>1. i # Len(matches) + 1
        BY <2>6, <3>1, <3>2
      <4>. QED  BY <2>6, <4>1
    <3>. QED  BY <2>3, <2>6, <3>1, <3>3 DEF OrderInv
  <2>. QED  BY <2>2, <2>3, <2>5, <2>7, <2>8, <2>9 DEF OrderInv, Limit
<1>6. CASE StatLink \/ Search
  <2>1. /\ pc \in {"stat", "read"} /\ UNCHANGED <<req, stack, cur>> /\ cur \in Paths
        /\ matches' = matches \/ matches' = Append(matches, cur)
        /\ pc' \in {"next", "read"} /\ (pc' = "read" => matches' = matches)
    BY <1>6 DEF StatLink, Judge, Search, CallInv
  <2>2. \A i \in 1..Len(matches') : (matches'[i] = matches[i] /\ i \in 1..Len(matches))
                                    \/ (matches'[i] = cur /\ i = Len(matches) + 1)
    BY <2>1, MatchesFacts, AppendFacts
  <2>3. ASSUME NEW l \in DOMAIN stack, NEW a \in DOMAIN stack[l].rest PROVE EntryInOrder(l, a)'
    <3>1. EntryInOrder(l, a) /\ EntryPath(l, a)' = EntryPath(l, a)
      BY <2>1 DEF OrderInv, EntryPath
    <3>. QED  BY <2>1, <2>2, <3>1 DEF EntryInOrder
  <2>4. Len(matches') <= Limit /\ (pc' = "read" => Len(matches') < Limit)
    <3>1. Len(matches) < Limit /\ Len(matches) \in Nat
      BY <2>1, MatchesFacts DEF OrderInv
    <3>2. Len(matches') = Len(matches) \/ Len(matches') = Len(matches) + 1
      BY <2>1, MatchesFacts, AppendFacts
    <3>. QED  BY <1>0, <2>1, <3>1, <3>2
  <2>5. \A i, j \in 1..Len(matches') : i < j => Precedes(matches'[i], matches'[j])
    <3>1. SUFFICES ASSUME NEW i \in 1..Len(matches'), NEW j \in 1..Len(matches'), i < j
                   PROVE  Precedes(matches'[i], matches'[j])
      OBVIOUS
    <3>2. Len(matches) \in Nat
      BY MatchesFacts
    <3>3. i \in 1..Len(matches) /\ matches'[i] = matches[i]
      <4>1. i # Len(matches) + 1
        BY <2>2, <3>1, <3>2
      <4>. QED  BY <2>2, <4>1
    <3>. QED  BY <2>1, <2>2, <3>1, <3>3 DEF OrderInv
  <2>. QED  BY <2>1, <2>3, <2>4, <2>5 DEF OrderInv, Limit
<1>7. CASE Refuse \/ ListFails \/ SearchFails \/ Block \/ Replace \/ PutFails \/ OtherChanges \/ Stop
           \/ UNCHANGED vars
  <2>1. UNCHANGED <<matches, stack, req>> /\ (pc' \in {"list", "stat", "read"} => pc = pc' /\ cur' = cur)
    BY <1>7 DEF Refuse, ListFails, SearchFails, Block, Replace, LoadPass, LoadPreview, Load, LoadFails,
                Answer, OpenForWriting, OpenFails, Put, PutFails, OtherChanges, Edit, Create,
                RemoveTree, PutLink, Vacate, Meanwhile, Stop, vars
  <2>. QED  BY <1>1, <2>1
<1>. QED
  BY <1>2, <1>3, <1>4, <1>5, <1>6, <1>7 DEF Next, Walk

\* However the tree changes under the walk, what it reports is in
\* lexicographic order, holds nothing twice, and is never too much.
THEOREM ReportsAlwaysOrdered == Spec => []ReportIsOrdered
<1>1. Init => TypeInv /\ OrderInv
  <2>1. Init => Limit \in Nat /\ Len(matches) = 0 /\ DOMAIN stack = {}
    BY SearchAssumption DEF Init, Limit, NoRequest
  <2>. QED  BY <2>1, TypeInvInit DEF Init, OrderInv
<1>2. (TypeInv /\ OrderInv) /\ [Next]_vars => (TypeInv /\ OrderInv)'
  BY TypeInvStep, OrderInvStep
<1>3. OrderInv => ReportIsOrdered
  BY DEF OrderInv, ReportIsOrdered
<1>. QED  BY <1>1, <1>2, <1>3, PTL DEF Spec
-----------------------------------------------------------------------------
(* Nothing is reported that did not qualify.                               *)

LEMMA VisibleFacts ==
  ASSUME NEW p \in Paths, Visible(p)
  PROVE  p \in Inside /\ Len(Root) <= Len(p) /\ \A i \in 1..Len(Root) : p[i] = Root[i]
  BY RootFacts, PrefixIs, PathAssumption DEF Visible

LEMMA VisibleChild ==
  ASSUME NEW d \in Paths, Visible(d), NEW n \in Names, Append(d, n) \in Paths
  PROVE  /\ Append(d, n) # Root
         /\ n \notin Hidden => Visible(Append(d, n))
<1>1. /\ Len(d) \in Nat /\ Len(Root) \in Nat /\ Len(Root) <= Len(d)
      /\ \A i \in 1..Len(Root) : d[i] = Root[i]
  BY PathFacts, RootFacts, VisibleFacts
<1>2. /\ Len(Append(d, n)) = Len(d) + 1 /\ Append(d, n)[Len(d) + 1] = n
      /\ \A i \in 1..Len(d) : Append(d, n)[i] = d[i]
  BY ChildFacts
<1>3. IsPrefix(Root, Append(d, n))
  <2>1. Len(Root) <= Len(Append(d, n)) /\ \A i \in 1..Len(Root) : Append(d, n)[i] = Root[i]
    BY <1>1, <1>2
  <2>. QED  BY <2>1, RootFacts, PrefixIs
<1>. QED  BY <1>1, <1>2, <1>3 DEF Visible

LEMMA UntouchedAbove ==
  ASSUME NEW p \in Paths, p # << >>, Untouched(p)
  PROVE  Untouched(Front(p))
  BY FrontFacts DEF Untouched

\* Only its last name may be a link, if none is on the way to its directory.
LEMMA LastLink ==
  ASSUME TreeInv, NEW p \in Paths, p # << >>, LinksOn(target, Front(p)) = {}
  PROVE  IF kind[p] = "link" THEN p \in DOMAIN target
         ELSE LinksOn(target, p) = {} /\ Real(target, p) = p /\ StatKind(kind, target, p) = kind[p]
<1>1. DOMAIN target = {q \in Paths : kind[q] = "link"}
  BY DEF TreeInv
<1>2. ASSUME kind[p] # "link" PROVE LinksOn(target, p) = {}
  <2>1. ASSUME NEW q \in DOMAIN target, IsPrefix(q, p) PROVE FALSE
    <3>1. q \in Paths /\ q # p
      BY <1>1, <1>2
    <3>2. IsPrefix(q, Front(p))
      BY <2>1, <3>1, FrontFacts
    <3>. QED  BY <3>2 DEF LinksOn
  <2>. QED  BY <2>1 DEF LinksOn
<1>3. ASSUME LinksOn(target, p) = {} PROVE Real(target, p) = p /\ StatKind(kind, target, p) = kind[p]
  <2>1. Real(target, p) = p /\ p # Nowhere
    BY <1>3, RealFacts, SearchAssumption
  <2>. QED  BY <2>1 DEF StatKind
<1>. QED  BY <1>1, <1>2, <1>3

\* What is there and is no directory is, in the end, a file or a pipe.
LEMMA QualifiesNow ==
  ASSUME TypeInv, NEW p \in Paths, p # Root, p \in req.glob, Visible(p), LedInside(p), Untouched(p),
         StatKind(kind, target, p) \notin {"none", "dir"},
         req.regex => Replaceable(text[Real(target, p)])
  PROVE  Qualifies(kind, target, text, req, p)
<1>1. p # << >>
  <2>1. Len(p) # 0
    <3>1. ASSUME Len(p) = 0 PROVE FALSE
      <4>1. Len(Root) = 0
        BY <3>1, VisibleFacts, RootFacts
      <4>. QED  BY <3>1, <4>1, RootFacts, PathsEqual
    <3>. QED  BY <3>1
  <2>. QED  BY <2>1, PathFacts
<1>2. LinksOn(target, Front(p)) = {} /\ Real(target, p) \in Inside
  BY DEF LedInside
<1>3. kind[p] # "none"
  <2>1. kind[p] # "link" => kind[p] = StatKind(kind, target, p)
    BY <1>1, <1>2, LastLink DEF TypeInv
  <2>. QED  BY <2>1
<1>4. StatKind(kind, target, p) \in {"file", "pipe"}
  BY RealFacts DEF TypeInv, TreeInv, Kinds
<1>. QED  BY <1>2, <1>3, <1>4, AncestorsAreDirs DEF Qualifies, Visible, TypeInv, TreeInv

\* While a call is under way, what is noted of links stays noted, and a link
\* not noted leads where it led.
LEMMA LinkChanges ==
  ASSUME [Next]_vars, pc # "idle"
  PROVE  /\ ever \subseteq ever' /\ relinked \subseteq relinked' /\ req' = req
         /\ \A p \in Paths : p \in relinked' \/ LinkState(kind', target', p) = LinkState(kind, target, p)
         /\ \A p \in Paths : Qualifies(kind', target', text', req, p) => 
               p \in ever' \/ Qualifies(kind, target, text, req, p)
<1>1. CASE Observe /\ UNCHANGED req
  BY <1>1 DEF Observe
<1>2. CASE UNCHANGED <<tree, req, history>>
  BY <1>2 DEF tree, history
<1>3. CASE OpenForWriting \/ Put \/ OtherChanges
  BY <1>1, <1>3 DEF OpenForWriting, Put, OtherChanges, Edit, Create, RemoveTree, PutLink, Vacate,
                    Meanwhile
<1>4. CASE \/ Refuse \/ Walk \/ LoadPass \/ LoadPreview \/ Load \/ LoadFails \/ Answer
           \/ OpenFails \/ PutFails \/ Stop \/ UNCHANGED vars
  BY <1>2, <1>4
     DEF Refuse, Walk, StatRoot, ListDir, ListFails, EndOfDir, Truncate, Leave, Skip, Descend,
         Approve, Look, Take, StatLink, Search, SearchFails, Block, LoadPass, LoadPreview, Load,
         LoadFails, Answer, OpenFails, PutFails, Stop, SameTree, vars
<1>. QED
  BY <1>3, <1>4 DEF Next, Replace, Begin, Goto

\* A path that is still untouched is as straight, or as well led, as it was.
LEMMA LinksStay ==
  ASSUME TypeInv, [Next]_vars, pc # "idle", NEW p \in Paths
  PROVE  /\ Untouched(p)' => Untouched(p)
         /\ Straight(p) => Straight(p)'
         /\ p # << >> /\ Visible(p) /\ LedInside(p) => LedInside(p)'
<1>1. relinked \subseteq relinked'
      /\ \A q \in Paths : q \in relinked' \/ LinkState(kind', target', q) = LinkState(kind, target, q)
  BY LinkChanges
<1>2. TreeInv /\ TreeInv' /\ DOMAIN target \subseteq Paths /\ DOMAIN target' \subseteq Paths
  BY TreeInvStep DEF TypeInv, TreeInv
<1>3. \A q : Untouched(q)' => Untouched(q)
  BY <1>1 DEF Untouched
<1>4. ASSUME NEW q \in DOMAIN target', q \notin relinked'
      PROVE  /\ q \in DOMAIN target /\ Real(target', q) = Real(target, q)
             /\ StatKind(kind', target', q) = "none" <=> StatKind(kind, target, q) = "none"
  <2>1. LinkState(kind', target', q) = LinkState(kind, target, q)
    BY <1>1, <1>2, <1>4
  <2>2. LinkState(kind', target', q) = <<Real(target', q), StatKind(kind', target', q) # "none">>
    BY <1>4 DEF LinkState
  <2>3. q \in DOMAIN target
    BY <2>1, <2>2 DEF LinkState
  <2>4. LinkState(kind, target, q) = <<Real(target, q), StatKind(kind, target, q) # "none">>
    BY <2>3 DEF LinkState
  <2>5. \A a, b, x, y : <<a, x>> = <<b, y>> => a = b /\ x = y
    OBVIOUS
  <2>6. PICK x : x = (StatKind(kind', target', q) # "none")
    OBVIOUS
  <2>7. PICK y : y = (StatKind(kind, target, q) # "none")
    OBVIOUS
  <2>8. <<Real(target', q), x>> = <<Real(target, q), y>>
    <3>1. LinkState(kind', target', q) = <<Real(target', q), x>>
      BY <2>2, <2>6
    <3>2. LinkState(kind, target, q) = <<Real(target, q), y>>
      BY <2>4, <2>7
    <3>. QED  BY <2>1, <3>1, <3>2
  <2>9. Real(target', q) = Real(target, q) /\ x = y
    BY <2>5, <2>8
  <2>. QED  BY <2>3, <2>6, <2>7, <2>9
<1>5. ASSUME NEW q \in Paths, Untouched(q)', LinksOn(target, q) = {} PROVE LinksOn(target', q) = {}
  <2>1. ASSUME NEW r \in DOMAIN target', IsPrefix(r, q) PROVE FALSE
    <3>1. r \notin relinked'
      BY <1>2, <1>5, <2>1 DEF Untouched
    <3>. QED  BY <1>4, <1>5, <2>1, <3>1 DEF LinksOn
  <2>. QED  BY <2>1 DEF LinksOn
<1>6. Straight(p) => Straight(p)'
  BY <1>3, <1>5 DEF Straight
<1>7. ASSUME p # << >>, Visible(p), LedInside(p), Untouched(p)'
      PROVE  /\ LinksOn(target', Front(p)) = {}
             /\ StatKind(kind', target', p) # "none" => Real(target', p) \in Inside
  <2>1. Front(p) \in Paths /\ Untouched(Front(p))' /\ Untouched(p)
    BY <1>3, <1>7, FrontFacts DEF Untouched
  <2>2. LinksOn(target, Front(p)) = {} /\ (StatKind(kind, target, p) # "none" => Real(target, p) \in Inside)
    BY <1>7, <2>1 DEF LedInside
  <2>3. LinksOn(target', Front(p)) = {}
    BY <1>5, <2>1, <2>2
  <2>4. CASE p \in DOMAIN target'
    <3>1. p \notin relinked'
      BY <1>7, PrefixIs, PathFacts DEF Untouched
    <3>. QED  BY <1>4, <2>2, <2>3, <2>4, <3>1
  <2>5. CASE p \notin DOMAIN target'
    <3>1. LinksOn(target', p) = {}
      <4>1. ASSUME NEW q \in DOMAIN target', IsPrefix(q, p) PROVE FALSE
        <5>1. IsPrefix(q, Front(p))
          BY <1>2, <1>7, <2>5, <4>1, FrontFacts
        <5>. QED  BY <2>3, <5>1 DEF LinksOn
      <4>. QED  BY <4>1 DEF LinksOn
    <3>2. Real(target', p) = p
      BY <3>1 DEF Real
    <3>. QED  BY <1>7, <2>3, <3>2, VisibleFacts
  <2>. QED  BY <2>4, <2>5
<1>. QED  BY <1>3, <1>6, <1>7 DEF LedInside

LEMMA StraightIsLed ==
  ASSUME TreeInv, NEW p \in Paths, p # << >>, Visible(p), Straight(p)
  PROVE  LedInside(p)
<1>1. SUFFICES ASSUME LinksOn(target, p) = {}
               PROVE  LinksOn(target, Front(p)) = {} /\ Real(target, p) \in Inside
  BY DEF Straight, LedInside
<1>2. LinksOn(target, Front(p)) = {}
  BY <1>1, FrontFacts DEF LinksOn, TreeInv
<1>. QED  BY <1>1, <1>2, RealFacts, VisibleFacts

LEMMA ResolvedIsInside ==
  ASSUME NEW p \in Paths, Resolves(kind, target, p), StatKind(kind, target, p) # "none"
  PROVE  Real(target, p) \in Inside
<1>1. Len(p) \in 0..Len(p) /\ SubSeq(p, 1, Len(p)) = p
  <2>1. Len(p) \in 0..Len(p)
    BY PathFacts
  <2>. QED  BY <2>1, FirstFacts, PathsEqual
<1>2. PICK i \in 0..Len(p) : Len(p) <= i /\ Real(target, SubSeq(p, 1, i)) \in Inside
  BY <1>1 DEF Resolves
<1>3. i = Len(p)
  BY <1>2, PathFacts
<1>. QED  BY <1>1, <1>2, <1>3

LEMMA QualifiesPrime ==
  ASSUME NEW p
  PROVE  Qualifies(kind, target, text, req, p)' <=> Qualifies(kind', target', text', req', p)
  BY DEF Qualifies, StatKind, Real, LinksOn, FollowOnce, IsPrefix

\* What is at hand after a step was at hand before it, or has been looked at.
LEMMA EverKept ==
  ASSUME TypeInv, EverInv, [Next]_vars, pc # "idle", pc' # "idle",
         \A p \in Paths : p \in ToSet(matches') => p \in ToSet(matches) \/ (Untouched(p) => p \in ever),
         \A d \in Paths : AtDir(d)' => AtDir(d) \/ (Visible(d) /\ Straight(d)),
         \A p \in Paths : AtFile(p)' => /\ AtFile(p) \/ (Visible(p) /\ p # Root /\ LedInside(p))
                                        /\ pc' = "read" => p \in req.glob,
         \A p \in Paths, e \in Entries : AtEntry(e, p)' => AtEntry(e, p) \/ Honest(e, p)
  PROVE  EverInv'
<1>1. ever \subseteq ever' /\ req' = req
  BY LinkChanges
<1>2. ASSUME NEW p \in Paths, Qualifies(kind, target, text, req, p)' PROVE p \in ever'
  BY <1>1, <1>2, LinkChanges, QualifiesPrime DEF EverInv
<1>3. ASSUME NEW p \in Paths, (p \in ToSet(matches))', Untouched(p)' PROVE p \in ever'
  <2>1. p \in ToSet(matches') /\ Untouched(p)
    BY <1>3, LinksStay DEF ToSet
  <2>. QED  BY <1>1, <2>1 DEF EverInv
<1>4. \A p : Visible(p)' <=> Visible(p)
  BY DEF Visible, IsPrefix
<1>5. ASSUME NEW d \in Paths, AtDir(d)' PROVE Visible(d)' /\ Straight(d)'
  <2>1. Visible(d) /\ Straight(d)
    BY <1>5 DEF EverInv
  <2>. QED  BY <1>4, <2>1, LinksStay
<1>6. ASSUME NEW p \in Paths, AtFile(p)'
      PROVE  Visible(p)' /\ p # Root /\ LedInside(p)' /\ (pc' = "read" => p \in req'.glob)
  <2>1. Visible(p) /\ p # Root /\ LedInside(p)
    BY <1>6 DEF EverInv
  <2>2. p # << >>
    <3>1. ASSUME Len(p) = 0 PROVE FALSE
      <4>1. Len(Root) = 0
        BY <2>1, <3>1, VisibleFacts, RootFacts
      <4>. QED  BY <2>1, <3>1, <4>1, RootFacts, PathsEqual
    <3>. QED  BY <3>1, RootFacts
  <2>. QED  BY <1>1, <1>4, <1>6, <2>1, <2>2, LinksStay
<1>7. ASSUME NEW p \in Paths, NEW e \in Entries, AtEntry(e, p)' PROVE Honest(e, p)'
  <2>1. Honest(e, p)
    BY <1>7 DEF EverInv
  <2>. QED  BY <1>1, <2>1, LinksStay DEF Honest
<1>. QED  BY <1>2, <1>3, <1>5, <1>6, <1>7 DEF EverInv

LEMMA EverInvStep == TypeInv /\ EverInv /\ [Next]_vars => EverInv'
<1>. SUFFICES ASSUME TypeInv, EverInv, [Next]_vars PROVE EverInv'
  OBVIOUS
<1>. USE DEF Goto, Finish, walking, writing
<1>1. CASE Begin
  <2>1. /\ matches' = << >> /\ stack' = << >> /\ cur' = Root /\ pc = "idle" /\ pc' = "root"
        /\ UNCHANGED <<kind, target, text>>
        /\ ever' = {p \in Paths : Qualifies(kind, target, text, req', p)}
    BY <1>1 DEF Begin, tree, TypeInv, CallInv
  <2>2. /\ DOMAIN matches' = {} /\ DOMAIN stack' = {}
        /\ \A p : ~AtFile(p)' /\ (p \in ToSet(matches))' = FALSE /\ \A e : ~AtEntry(e, p)'
        /\ \A d : AtDir(d)' => d = Root
    BY <2>1 DEF ToSet, AtFile, AtEntry, AtDir
  <2>3. Visible(Root)' /\ Straight(Root)'
    <3>1. Visible(Root)'
      <4>1. IsPrefix(Root, Root) /\ Len(Root) \in Nat
        BY RootFacts, PrefixIs
      <4>. QED  BY <4>1 DEF Visible, IsPrefix
    <3>2. LinksOn(target, Root) = {}
      BY <2>1 DEF EverInv
    <3>. QED  BY <2>1, <3>1, <3>2 DEF Straight, LinksOn, IsPrefix
  <2>4. ASSUME NEW p \in Paths, Qualifies(kind, target, text, req, p)' PROVE p \in ever'
    BY <2>1, <2>4, QualifiesPrime
  <2>. QED  BY <2>1, <2>2, <2>3, <2>4 DEF EverInv
<1>2. CASE UNCHANGED vars
  <2>1. UNCHANGED <<target, matches, stack, cur, pc>>
    BY <1>2 DEF vars, tree
  <2>2. \A p : (AtDir(p)' <=> AtDir(p)) /\ (AtFile(p)' <=> AtFile(p)) /\ \A e : AtEntry(e, p)' <=> AtEntry(e, p)
    BY <2>1 DEF AtDir, AtFile, AtEntry, EntryPath
  <2>3. CASE pc = "idle"
    <3>1. DOMAIN matches = {} /\ DOMAIN stack = {} /\ LinksOn(target, Root) = {}
      BY <2>3 DEF TypeInv, CallInv, EverInv
    <3>2. \A p : ~AtDir(p) /\ ~AtFile(p) /\ (p \in ToSet(matches))' = FALSE /\ \A e : ~AtEntry(e, p)
      BY <2>1, <2>3, <3>1 DEF AtDir, AtFile, AtEntry, ToSet
    <3>3. LinksOn(target, Root)' = {}
      BY <2>1, <3>1 DEF LinksOn, IsPrefix
    <3>. QED  BY <2>1, <2>2, <2>3, <3>2, <3>3 DEF EverInv
  <2>4. CASE pc # "idle"
    <3>1. \A p \in Paths : AtFile(p)' /\ pc' = "read" => p \in req.glob
      BY <2>1, <2>2 DEF EverInv
    <3>. QED  BY <2>1, <2>2, <2>4, <3>1, EverKept
  <2>. QED  BY <2>3, <2>4
<1>3. CASE StatRoot
  <2>1. /\ pc = "root" /\ pc' = "list" /\ UNCHANGED <<matches, stack, cur>>
    BY <1>3 DEF StatRoot
  <2>. QED  BY <2>1, EverKept DEF AtDir, AtFile, AtEntry, EntryPath
<1>4. CASE ListDir
  <2>0. PICK n, list : n = Len(stack) /\ list = Listed(kind, Real(target, cur), cur)
    OBVIOUS
  <2>1. /\ n \in Nat /\ DOMAIN stack = 1..n /\ DOMAIN stack' = 1..(n + 1)
        /\ \A l \in DOMAIN stack : stack'[l] = stack[l]
        /\ stack'[n + 1].dir = cur /\ stack'[n + 1].rest = list /\ Real(target, cur) \in Paths
    BY <1>4, <2>0, ListFacts
  <2>2. /\ pc = "list" /\ pc' = "next" /\ UNCHANGED <<matches, req, ever>>
        /\ cur \in Paths /\ Visible(cur) /\ Straight(cur)
    BY <1>4 DEF ListDir, SameTree, history, TypeInv, CallInv, EverInv, AtDir
  <2>3. ASSUME NEW a \in DOMAIN list
        PROVE  /\ Append(cur, list[a].name) \in Paths /\ list[a].name \in Names
               /\ list[a].kind = kind[Append(Real(target, cur), list[a].name)]
    <3>0. kind \in [Paths -> Kinds]
      BY DEF TypeInv, TreeInv
    <3>1. /\ list \in Seq(Entries)
          /\ \A b \in DOMAIN list : /\ Append(cur, list[b].name) \in Paths
                                    /\ list[b].kind = kind[Append(Real(target, cur), list[b].name)]
      <4>1. PICK d \in Paths : d = Real(target, cur)
        BY <2>1
      <4>2. list = Listed(kind, d, cur)
        BY <2>0, <4>1
      <4>3. list \in Seq(Entries)
        BY <2>2, <3>0, <4>2, ListedFacts
      <4>4. \A b \in DOMAIN list : Append(cur, list[b].name) \in Paths
        BY <2>2, <3>0, <4>2, ListedFacts
      <4>5. \A b \in DOMAIN list : list[b].kind = kind[Append(d, list[b].name)]
        BY <2>2, <3>0, <4>2, ListedFacts
      <4>. QED  BY <4>1, <4>3, <4>4, <4>5
    <3>2. list[a].name \in Names
      <4>1. list[a] \in Entries
        BY <3>1, LenProperties, ElementOfSeq
      <4>. QED  BY <4>1 DEF Entries
    <3>. QED  BY <2>3, <3>1, <3>2
  <2>4. ASSUME NEW a \in DOMAIN list PROVE Honest(list[a], Append(cur, list[a].name))
    <3>1. PICK p \in Paths : p = Append(cur, list[a].name)
      BY <2>3
    <3>2. /\ p # << >> /\ Front(p) = cur /\ p # Root /\ (list[a].name \notin Hidden => Visible(p))
      BY <2>2, <2>3, <3>1, ChildFacts, VisibleChild
    <3>3. ASSUME Untouched(p), list[a].kind # "link"
          PROVE  /\ LinksOn(target, p) = {} /\ StatKind(kind, target, p) = list[a].kind
      <4>1. LinksOn(target, cur) = {}
        BY <2>2, <3>2, <3>3, UntouchedAbove DEF Straight
      <4>2. Real(target, cur) = cur
        BY <2>2, <4>1, RealFacts DEF TypeInv
      <4>3. kind[p] = list[a].kind
        BY <2>3, <3>1, <4>2
      <4>. QED  BY <3>2, <3>3, <4>1, <4>3, LastLink DEF TypeInv
    <3>4. list[a].kind # "link" => Straight(p)
      BY <3>3 DEF Straight
    <3>5. ASSUME list[a].kind \in {"file", "pipe"}, list[a].name \notin Hidden, p \in req.glob, ~req.regex,
                 Untouched(p)
          PROVE  p \in ever
      <4>1. LedInside(p) /\ StatKind(kind, target, p) \notin {"none", "dir"}
        BY <3>2, <3>3, <3>4, <3>5, StraightIsLed DEF TypeInv
      <4>2. Qualifies(kind, target, text, req, p)
        BY <3>2, <3>5, <4>1, QualifiesNow
      <4>. QED  BY <2>2, <4>2 DEF EverInv
    <3>. QED  BY <3>1, <3>4, <3>5 DEF Honest
  <2>5. \A d \in Paths : AtDir(d)' => AtDir(d)
    <3>1. ASSUME NEW d \in Paths, NEW l \in DOMAIN stack', stack'[l].dir = d PROVE AtDir(d)
      <4>1. CASE l = n + 1
        BY <2>1, <2>2, <3>1, <4>1 DEF AtDir
      <4>2. CASE l # n + 1
        <5>1. l \in DOMAIN stack /\ stack[l].dir = d
          BY <2>1, <3>1, <4>2
        <5>. QED  BY <5>1 DEF AtDir
      <4>. QED  BY <4>1, <4>2
    <3>. QED  BY <2>2, <3>1 DEF AtDir
  <2>6. ASSUME NEW p \in Paths, NEW e \in Entries, AtEntry(e, p)' PROVE AtEntry(e, p) \/ Honest(e, p)
    <3>1. PICK l \in DOMAIN stack' : \E a \in DOMAIN stack'[l].rest :
            e = stack'[l].rest[a] /\ p = Append(stack'[l].dir, stack'[l].rest[a].name)
      BY <2>6 DEF AtEntry, EntryPath
    <3>2. CASE l = n + 1
      BY <2>1, <2>4, <3>1, <3>2
    <3>3. CASE l # n + 1
      <4>1. l \in DOMAIN stack /\ stack'[l] = stack[l]
        BY <2>1, <3>3
      <4>. QED  BY <3>1, <4>1 DEF AtEntry, EntryPath
    <3>. QED  BY <3>2, <3>3
  <2>7. \A p : ~AtFile(p)'
    BY <2>2 DEF AtFile
  <2>. QED  BY <2>2, <2>5, <2>6, <2>7, EverKept
<1>5. CASE EndOfDir \/ Truncate
  <2>1. Leave
    BY <1>5 DEF EndOfDir, Truncate
  <2>2. /\ \A l \in DOMAIN stack' : l \in DOMAIN stack /\ stack'[l] = stack[l]
        /\ pc = "next" /\ pc' \notin {"idle", "root", "list", "stat", "read"} /\ matches' = matches
    BY <2>1, LeaveFacts DEF Leave, TypeInv
  <2>3. \A d : (AtDir(d)' => AtDir(d)) /\ ~AtFile(d)'
    BY <2>2 DEF AtDir, AtFile
  <2>4. \A e, p : AtEntry(e, p)' => AtEntry(e, p)
    BY <2>2 DEF AtEntry, EntryPath
  <2>. QED  BY <2>2, <2>3, <2>4, EverKept
<1>6. CASE Skip \/ Descend \/ Approve \/ Look
  <2>1. Take
    BY <1>6 DEF Skip, Descend, Approve, Look
  <2>2. /\ cur' = NextPath /\ pc = "next" /\ NextPath \in Paths
        /\ NextPath = EntryPath(Len(stack), 1) /\ NextPath = Append(Frame.dir, NextEntry.name)
        /\ Len(stack) \in DOMAIN stack /\ 1 \in DOMAIN Frame.rest
        /\ Frame = stack[Len(stack)] /\ NextEntry = Frame.rest[1]
        /\ Frame.dir \in Paths /\ NextEntry.name \in Names /\ NextEntry.kind \in Kinds \ {"none"}
        /\ NextEntry \in Entries
    <3>1. NextEntry \in Entries
      <4>1. /\ Frame.rest \in Seq(Entries) /\ 1 \in 1..Len(Frame.rest) /\ NextEntry = Frame.rest[1]
        BY <2>1, TakeFacts, FrameFacts DEF TypeInv
      <4>. QED  BY <4>1, ElementOfSeq
    <3>. QED  BY <2>1, <3>1, TakeFacts, FrameFacts DEF Take, TypeInv, NextPath
  <2>3. PICK p \in Paths : p = NextPath
    BY <2>2
  <2>4. /\ p # << >> /\ p # Root /\ Front(p) = Frame.dir /\ Straight(Frame.dir)
        /\ NextEntry.name \notin Hidden => Visible(p)
    <3>1. Visible(Frame.dir) /\ Straight(Frame.dir)
      <4>1. AtDir(Frame.dir)
        BY <2>2 DEF AtDir
      <4>. QED  BY <2>2, <4>1 DEF EverInv
    <3>. QED  BY <2>2, <2>3, <3>1, ChildFacts, VisibleChild
  <2>5. Honest(NextEntry, p)
    <3>1. AtEntry(NextEntry, p)
      BY <2>2, <2>3 DEF AtEntry
    <3>. QED  BY <2>2, <3>1 DEF EverInv
  <2>6. ASSUME ~Skip PROVE NextEntry.name \notin Hidden /\ Visible(p)
    BY <1>6, <2>4, <2>6 DEF Descend, Approve, Look, Skipped
  <2>7. ASSUME ~Skip PROVE IF NextEntry.kind = "link" THEN LedInside(p) ELSE Straight(p) /\ LedInside(p)
    <3>1. CASE NextEntry.kind = "link"
      <4>1. Resolves(kind, target, p)
        BY <1>6, <2>3, <2>7, <3>1 DEF Descend, Approve, Look, Skipped
      <4>2. Untouched(p) => LinksOn(target, Front(p)) = {}
        BY <2>4, UntouchedAbove DEF Straight
      <4>. QED  BY <3>1, <4>1, <4>2, ResolvedIsInside DEF LedInside
    <3>2. CASE NextEntry.kind # "link"
      BY <2>4, <2>5, <2>6, <2>7, <3>2, StraightIsLed DEF Honest, TypeInv
    <3>. QED  BY <3>1, <3>2
  <2>8. pc' \in {"next", "list", "stat", "read"} /\ pc' # "idle"
    BY <1>6, <2>2 DEF Skip, Descend, Approve, Look, Judge
  <2>9. ASSUME NEW d \in Paths, AtDir(d)' PROVE AtDir(d) \/ (Visible(d) /\ Straight(d))
    <3>1. CASE pc' \in {"root", "list"} /\ cur' = d
      <4>1. Descend /\ ~Skip
        BY <1>6, <2>2, <3>1 DEF Skip, Descend, Approve, Look, Judge
      <4>2. NextEntry.kind # "link"
        BY <4>1 DEF Descend
      <4>. QED  BY <2>2, <2>3, <2>6, <2>7, <3>1, <4>1, <4>2
    <3>2. ASSUME NEW l \in DOMAIN stack', stack'[l].dir = d PROVE AtDir(d)
      <4>1. l \in DOMAIN stack /\ stack'[l].dir = stack[l].dir
        BY <2>1, <3>2, TakeFacts DEF TypeInv
      <4>. QED  BY <3>2, <4>1 DEF AtDir
    <3>. QED  BY <2>9, <3>1, <3>2 DEF AtDir
  <2>10. ASSUME NEW q \in Paths, AtFile(q)'
         PROVE  Visible(q) /\ q # Root /\ LedInside(q) /\ (pc' = "read" => q \in req.glob)
    <3>1. q = p /\ pc' \in {"stat", "read"}
      BY <2>2, <2>3, <2>10 DEF AtFile
    <3>2. ~Skip /\ (pc' = "read" => p \in req.glob)
      BY <1>6, <2>2, <2>3, <3>1 DEF Skip, Descend, Approve, Look, Judge
    <3>. QED  BY <2>4, <2>6, <2>7, <3>1, <3>2
  <2>11. ASSUME NEW q \in Paths, NEW e \in Entries, AtEntry(e, q)' PROVE AtEntry(e, q)
    <3>1. PICK l \in DOMAIN stack' : \E a \in DOMAIN stack'[l].rest :
            e = stack'[l].rest[a] /\ q = EntryPath(l, a)'
      BY <2>11 DEF AtEntry, EntryPath
    <3>2. PICK a \in DOMAIN stack'[l].rest : e = stack'[l].rest[a] /\ q = EntryPath(l, a)'
      BY <3>1
    <3>3. \E old : /\ l \in DOMAIN stack /\ old \in DOMAIN stack[l].rest
                   /\ stack'[l].rest[a] = stack[l].rest[old] /\ EntryPath(l, a)' = EntryPath(l, old)
      BY <2>1, EntryAfterTake DEF TypeInv
    <3>. QED  BY <3>2, <3>3 DEF AtEntry
  <2>12. ASSUME NEW q \in Paths, q \in ToSet(matches')
         PROVE  q \in ToSet(matches) \/ (Untouched(q) => q \in ever)
    <3>1. CASE matches' = matches
      BY <2>12, <3>1
    <3>2. CASE matches' # matches
      <4>1. /\ Look /\ matches' = Append(matches, p) /\ p \in req.glob /\ ~req.regex
            /\ NextEntry.kind \in {"file", "pipe"} /\ NextEntry.name \notin Hidden
        BY <1>6, <2>2, <2>3, <3>2 DEF Skip, Descend, Approve, Look, Judge, Skipped, Kinds
      <4>2. ToSet(matches') = ToSet(matches) \cup {p}
        BY <4>1, AppendFacts DEF TypeInv, CallInv
      <4>. QED  BY <2>5, <2>12, <4>1, <4>2 DEF Honest
    <3>. QED  BY <3>1, <3>2
  <2>. QED  BY <2>2, <2>8, <2>9, <2>10, <2>11, <2>12, EverKept
<1>7. CASE StatLink \/ Search
  <2>1. PICK p \in Paths : p = cur
    BY DEF TypeInv, CallInv
  <2>2. /\ pc \in {"stat", "read"} /\ pc' \in {"next", "read"} /\ UNCHANGED <<stack, cur>>
        /\ pc' = "read" => p \in req.glob
    BY <1>7, <2>1 DEF StatLink, Judge, Search
  <2>3. Visible(p) /\ p # Root /\ LedInside(p) /\ (pc = "read" => p \in req.glob)
    <3>1. AtFile(p)
      BY <2>1, <2>2 DEF AtFile
    <3>. QED  BY <3>1 DEF EverInv
  <2>4. ASSUME matches' # matches
        PROVE  /\ matches' = Append(matches, p) /\ p \in req.glob
               /\ StatKind(kind, target, p) \notin {"none", "dir"}
               /\ req.regex => Replaceable(text[Real(target, p)])
    BY <1>7, <2>1, <2>3, <2>4 DEF StatLink, Judge, LeadsToFile, Search, Readable
  <2>5. ASSUME NEW q \in Paths, q \in ToSet(matches')
        PROVE  q \in ToSet(matches) \/ (Untouched(q) => q \in ever)
    <3>1. CASE matches' = matches
      BY <2>5, <3>1
    <3>2. CASE matches' # matches
      <4>1. ToSet(matches') = ToSet(matches) \cup {p}
        BY <2>4, <3>2, AppendFacts DEF TypeInv, CallInv
      <4>2. Untouched(p) => Qualifies(kind, target, text, req, p)
        BY <2>3, <2>4, <3>2, QualifiesNow
      <4>. QED  BY <2>2, <2>5, <4>1, <4>2 DEF EverInv
    <3>. QED  BY <3>1, <3>2
  <2>6. \A d \in Paths : /\ AtDir(d)' => AtDir(d)
                         /\ AtFile(d)' => AtFile(d) /\ (pc' = "read" => d \in req.glob)
    BY <2>1, <2>2 DEF AtDir, AtFile
  <2>7. \A q, e : AtEntry(e, q)' => AtEntry(e, q)
    BY <2>2 DEF AtEntry, EntryPath
  <2>. QED  BY <2>2, <2>5, <2>6, <2>7, EverKept
<1>8. CASE Refuse \/ ListFails \/ SearchFails \/ Block \/ Replace \/ PutFails \/ OtherChanges
  <2>1. /\ UNCHANGED <<matches, stack, cur>> /\ pc # "idle"
        /\ pc' = pc \/ pc' \notin {"idle", "root", "list", "stat", "read"}
    BY <1>8 DEF Refuse, ListFails, SearchFails, Block, Replace, LoadPass, LoadPreview, Load, LoadFails,
                Answer, OpenForWriting, OpenFails, Put, PutFails, OtherChanges, Edit, Create,
                RemoveTree, PutLink, Vacate, Meanwhile
  <2>2. \A d \in Paths : (AtDir(d)' => AtDir(d)) /\ (AtFile(d)' => AtFile(d))
    BY <2>1 DEF AtDir, AtFile
  <2>3. \A q, e : AtEntry(e, q)' => AtEntry(e, q)
    BY <2>1 DEF AtEntry, EntryPath
  <2>4. \A p \in Paths : AtFile(p)' /\ pc' = "read" => p \in req.glob
    BY <2>1, <2>2 DEF EverInv, AtFile
  <2>. QED  BY <2>1, <2>2, <2>3, <2>4, EverKept
<1>. QED
  BY <1>1, <1>2, <1>3, <1>4, <1>5, <1>6, <1>7, <1>8 DEF Next, Walk, Stop

LEMMA EverInvInit == Init => EverInv
<1>. SUFFICES ASSUME Init PROVE EverInv
  OBVIOUS
<1>1. /\ DOMAIN matches = {} /\ DOMAIN stack = {} /\ pc = "idle" /\ kind \in Trees
      /\ DOMAIN target = {q \in Paths : kind[q] = "link"}
  BY DEF Init
<1>2. LinksOn(target, Root) = {}
  BY <1>1, TreeAssumption DEF LinksOn
<1>. QED  BY <1>1, <1>2 DEF EverInv, ToSet, AtDir, AtFile, AtEntry

\* Whatever is reported did qualify at some moment of the call, so that the
\* walk has not been led behind a link, out of the sandbox or to a hidden name,
\* unless during the call another program put a link on the way to it, took one
\* away, or made one lead elsewhere, to something new or to nothing.
THEOREM ReportedAlwaysQualified == Spec => []ReportedQualified
<1>1. (TypeInv /\ EverInv) /\ [Next]_vars => (TypeInv /\ EverInv)'
  BY TypeInvStep, EverInvStep
<1>2. TypeInv /\ EverInv => ReportedQualified
  <2>1. SUFFICES ASSUME TypeInv, EverInv, NEW p \in ToSet(matches)
                 PROVE  p \in ever \/ \E q \in relinked : IsPrefix(q, p)
    BY DEF ReportedQualified
  <2>2. p \in Paths
    BY <2>1, MatchesFacts DEF ToSet, TypeInv
  <2>. QED  BY <2>1, <2>2 DEF EverInv, Untouched
<1>. QED  BY TypeInvInit, EverInvInit, <1>1, <1>2, PTL DEF Spec
-----------------------------------------------------------------------------
(* Nothing that qualified all the time is passed over.                     *)

\* What is noted as steady qualifies, and never grows.
LEMMA SteadyShrinks ==
  ASSUME TypeInv, SteadyInv, [Next]_vars
  PROVE  /\ pc' # "idle" => \A p \in steady' : p \in Paths /\ Qualifies(kind, target, text, req, p)'
         /\ pc # "idle" => steady' \subseteq steady
<1>1. CASE Begin
  BY <1>1, QualifiesPrime DEF Begin, Goto, tree
<1>2. CASE UNCHANGED <<kind, target, text, req, steady>> /\ (pc' = "idle" <=> pc = "idle")
  BY <1>2, QualifiesPrime DEF SteadyInv
<1>3. CASE Observe /\ UNCHANGED req /\ (pc' = "idle" <=> pc = "idle")
  BY <1>3, QualifiesPrime DEF SteadyInv, Observe
<1>4. Refuse \/ Walk \/ LoadPass \/ LoadPreview \/ Load \/ LoadFails \/ Answer \/ OpenFails
      \/ PutFails \/ Stop \/ UNCHANGED vars
      => UNCHANGED <<kind, target, text, req, steady>> /\ (pc' = "idle" <=> pc = "idle")
  BY DEF Refuse, Walk, StatRoot, ListDir, ListFails, EndOfDir, Truncate, Leave, Skip, Descend,
         Approve, Look, Judge, Take, StatLink, Search, SearchFails, Block, LoadPass, LoadPreview,
         Load, LoadFails, Answer, OpenFails, PutFails, Stop, SameTree, Goto, Finish, vars, tree, history
<1>5. OpenForWriting \/ Put \/ OtherChanges => Observe /\ UNCHANGED req /\ (pc' = "idle" <=> pc = "idle")
  BY DEF OpenForWriting, Put, OtherChanges, Edit, Create, RemoveTree, PutLink, Vacate, Meanwhile, Goto
<1>. QED
  BY <1>1, <1>2, <1>3, <1>4, <1>5 DEF Next, Replace

\* What qualifies is there, leads to a file inside, and has only directories
\* above it.
LEMMA QualifiedFacts ==
  ASSUME TypeInv, NEW p \in Paths, Qualifies(kind, target, text, req, p)
  PROVE  /\ Visible(p) /\ p # Root /\ p \in req.glob
         /\ StatKind(kind, target, p) \in {"file", "pipe"} /\ Real(target, p) \in Inside
         /\ kind[p] \notin {"none", "dir"}
         /\ \A q \in Paths : IsPrefix(q, p) /\ q # p =>
              kind[q] = "dir" /\ Len(q) < Len(p) /\ LinksOn(target, q) = {}
         /\ req.regex => Replaceable(text[Real(target, p)])
<1>1. ASSUME NEW q \in Paths, IsPrefix(q, p), q # p PROVE kind[q] = "dir" /\ Len(q) < Len(p)
  <2>1. Len(q) \in Nat /\ Len(p) \in Nat /\ Len(q) <= Len(p) /\ \A i \in 1..Len(q) : q[i] = p[i]
    BY <1>1, PathFacts, PrefixIs
  <2>2. Len(q) # Len(p)
    BY <1>1, <2>1, PathsEqual
  <2>3. Len(q) \in 0..(Len(p) - 1) /\ Len(q) \in 0..Len(p)
    BY <2>1, <2>2
  <2>4. SubSeq(p, 1, Len(q)) = q
    <3>1. /\ SubSeq(p, 1, Len(q)) \in Paths /\ Len(SubSeq(p, 1, Len(q))) = Len(q)
          /\ \A j \in 1..Len(q) : SubSeq(p, 1, Len(q))[j] = p[j]
      BY <2>3, FirstFacts
    <3>. QED  BY <2>1, <3>1, PathsEqual
  <2>5. kind[SubSeq(p, 1, Len(q))] = "dir"
    BY <2>3 DEF Qualifies
  <2>6. Len(q) < Len(p)
    BY <2>1, <2>2
  <2>. QED  BY <2>4, <2>5, <2>6
<1>2. ASSUME NEW q \in Paths, IsPrefix(q, p), q # p PROVE LinksOn(target, q) = {}
  <2>1. ASSUME NEW r \in DOMAIN target, IsPrefix(r, q) PROVE FALSE
    <3>1. r \in Paths /\ kind[r] = "link"
      BY DEF TypeInv, TreeInv
    <3>2. /\ Len(r) \in Nat /\ Len(q) \in Nat /\ Len(p) \in Nat /\ Len(q) < Len(p)
          /\ Len(r) <= Len(q) /\ \A i \in 1..Len(r) : r[i] = q[i]
          /\ Len(q) <= Len(p) /\ \A i \in 1..Len(q) : q[i] = p[i]
      BY <1>1, <1>2, <2>1, <3>1, PathFacts, PrefixIs
    <3>3. r # p
      BY <3>2
    <3>4. IsPrefix(r, p)
      <4>1. Len(r) <= Len(p) /\ \A i \in 1..Len(r) : r[i] = p[i]
        BY <3>2
      <4>. QED  BY <3>1, <4>1, PrefixIs
    <3>. QED  BY <1>1, <3>1, <3>3, <3>4
  <2>. QED  BY <2>1 DEF LinksOn
<1>3. StatKind(kind, target, p) \in {"file", "pipe"}
  BY DEF Qualifies
<1>4. kind[p] \notin {"none", "dir"}
  <2>1. p # << >>
    <3>1. ASSUME p = << >> PROVE p = Root
      <4>1. Len(Root) <= 0 /\ Len(p) = 0
        BY <3>1, RootFacts, PrefixIs DEF Qualifies
      <4>2. Len(Root) = 0
        BY <4>1, RootFacts
      <4>. QED  BY <4>1, <4>2, RootFacts, PathsEqual
    <3>. QED  BY <3>1 DEF Qualifies
  <2>2. LinksOn(target, Front(p)) = {}
    <3>1. IsPrefix(Front(p), p) /\ Front(p) \in Paths /\ Front(p) # p
      <4>1. IsPrefix(Front(p), Front(p))
        BY <2>1, FrontFacts, PrefixIs, PathFacts
      <4>. QED  BY <2>1, <4>1, FrontFacts
    <3>. QED  BY <1>2, <3>1
  <2>. QED  BY <1>3, <2>1, <2>2, LastLink DEF TypeInv
<1>. QED  BY <1>1, <1>2, <1>3, <1>4 DEF Qualifies, Visible

LEMMA ListedOwn ==
  ASSUME NEW k \in [Paths -> Kinds], NEW d \in Paths, NEW list, list = Listed(k, d, d),
         NEW n \in Children(k, d, d)
  PROVE  \E a \in DOMAIN list : list[a].name = n /\ list[a].kind = k[Append(d, n)]
<1>1. \A a \in DOMAIN list : list[a].kind = k[Append(d, list[a].name)]
  BY ListedFacts
<1>2. \A m \in Children(k, d, d) : \E a \in DOMAIN list : list[a].name = m
  BY ListedFacts
<1>. QED  BY <1>1, <1>2

\* The entry under which a path comes, in the list of a directory above it.
LEMMA ListedAbove ==
  ASSUME TypeInv, NEW p \in Paths, Qualifies(kind, target, text, req, p),
         NEW d \in Paths, IsPrefix(d, p), d # p, NEW list, list = Listed(kind, Real(target, d), d)
  PROVE  \E a \in DOMAIN list :
           /\ Append(d, list[a].name) \in Paths /\ IsPrefix(Append(d, list[a].name), p)
           /\ list[a].kind = "dir" <=> Append(d, list[a].name) # p
<1>1. /\ Len(d) \in Nat /\ Len(p) \in Nat /\ Len(d) < Len(p) /\ \A i \in 1..Len(d) : d[i] = p[i]
      /\ kind[p] \notin {"none", "dir"} /\ LinksOn(target, d) = {}
      /\ \A q \in Paths : IsPrefix(q, p) /\ q # p => kind[q] = "dir"
  BY QualifiedFacts, PathFacts, PrefixIs
<1>2. PICK n \in Names : n = p[Len(d) + 1]
  BY <1>1, PathFacts
<1>3. PICK q \in Paths : /\ Len(q) = Len(d) + 1 /\ \A i \in 1..(Len(d) + 1) : q[i] = p[i]
                         /\ IsPrefix(q, p) /\ q = Append(d, n)
  <2>1. Len(d) + 1 \in 0..Len(p)
    BY <1>1
  <2>2. PICK q : q = SubSeq(p, 1, Len(d) + 1)
    OBVIOUS
  <2>3. q \in Paths /\ Len(q) = Len(d) + 1 /\ \A i \in 1..(Len(d) + 1) : q[i] = p[i]
    BY <2>1, <2>2, FirstFacts
  <2>4. IsPrefix(q, p)
    BY <1>1, <2>3, PrefixIs
  <2>5. Append(d, n) \in Seq(Names) /\ Len(Append(d, n)) = Len(d) + 1
        /\ (\A i \in 1..Len(d) : Append(d, n)[i] = d[i]) /\ Append(d, n)[Len(d) + 1] = n
    BY <1>1, PathFacts, AppendProperties
  <2>6. q \in Seq(Names) /\ \A i \in 1..Len(q) : q[i] = Append(d, n)[i]
    <3>1. ASSUME NEW i \in 1..Len(q) PROVE q[i] = Append(d, n)[i]
      <4>1. i \in 1..Len(d) \/ i = Len(d) + 1
        BY <1>1, <2>3
      <4>. QED  BY <1>1, <1>2, <2>3, <2>5, <4>1
    <3>. QED  BY <2>3, <3>1, PathFacts
  <2>7. q = Append(d, n)
    BY <2>3, <2>5, <2>6, SeqEqual
  <2>. QED  BY <2>3, <2>4, <2>7
<1>4. kind[q] # "none" /\ (kind[q] = "dir" <=> q # p)
  BY <1>1, <1>3
<1>5. kind \in [Paths -> Kinds] /\ list = Listed(kind, d, d)
  BY <1>1, RealFacts DEF TypeInv, TreeInv
<1>6. n \in Children(kind, d, d)
  BY <1>3, <1>4 DEF Children
<1>7. PICK a \in DOMAIN list : list[a].name = n /\ list[a].kind = kind[Append(d, n)]
  BY <1>5, <1>6, ListedOwn
<1>. QED  BY <1>3, <1>4, <1>7

\* Taking an entry loses no other.
LEMMA OthersStay ==
  ASSUME CallInv, Take, NEW p, NEW l \in DOMAIN stack, NEW a \in DOMAIN stack[l].rest,
         LeadsTo(l, a, p), ~(l = Len(stack) /\ a = 1)
  PROVE  \E m \in DOMAIN stack' : \E b \in DOMAIN stack'[m].rest : LeadsTo(m, b, p)'
<1>1. /\ DOMAIN stack' = DOMAIN stack /\ stack # << >> /\ Frame.rest # << >>
      /\ \A m \in DOMAIN stack : /\ stack'[m].dir = stack[m].dir
                                 /\ m # Len(stack) => stack'[m] = stack[m]
      /\ DOMAIN stack'[Len(stack)].rest = 1..(Len(Frame.rest) - 1)
      /\ \A b \in DOMAIN stack'[Len(stack)].rest : stack'[Len(stack)].rest[b] = Frame.rest[b + 1]
  BY TakeFacts
<1>2. CASE l # Len(stack)
  <2>1. stack'[l] = stack[l] /\ l \in DOMAIN stack' /\ a \in DOMAIN stack'[l].rest
    BY <1>1, <1>2
  <2>2. EntryPath(l, a)' = EntryPath(l, a)
    BY <2>1 DEF EntryPath
  <2>3. LeadsTo(l, a, p)'
    BY <2>1, <2>2 DEF LeadsTo
  <2>. QED  BY <2>1, <2>3
<1>3. CASE l = Len(stack)
  <2>1. Frame = stack[l] /\ DOMAIN Frame.rest = 1..Len(Frame.rest) /\ Len(Frame.rest) \in Nat
    BY <1>1, <1>3, FrameFacts
  <2>2. PICK b \in Nat : b = a - 1 /\ b \in 1..(Len(Frame.rest) - 1) /\ a = b + 1
    <3>1. a - 1 \in Nat /\ a - 1 \in 1..(Len(Frame.rest) - 1) /\ a = (a - 1) + 1
      BY <1>3, <2>1
    <3>. QED  BY <3>1
  <2>3. /\ l \in DOMAIN stack' /\ b \in DOMAIN stack'[l].rest
        /\ stack'[l].rest[b] = stack[l].rest[a] /\ stack'[l].dir = stack[l].dir
    BY <1>1, <1>3, <2>1, <2>2
  <2>4. EntryPath(l, b)' = EntryPath(l, a)
    BY <2>3 DEF EntryPath
  <2>5. LeadsTo(l, b, p)'
    BY <2>3, <2>4 DEF LeadsTo
  <2>. QED  BY <2>3, <2>5
<1>. QED  BY <1>2, <1>3

\* The entry that leads to p is not skipped: the walk goes down to p, or has
\* reached it.
LEMMA NextLeadsTo ==
  ASSUME TypeInv, NEW p \in Paths, Qualifies(kind, target, text, req, p), Take,
         Skip \/ Descend \/ Approve \/ Look, LeadsTo(Len(stack), 1, p), Visible(Frame.dir)
  PROVE  \/ pc' = "list" /\ IsPrefix(cur, p)'
         \/ pc' \in {"stat", "read"} /\ cur' = p
         \/ matches' = Append(matches, p)
<1>1. /\ NextPath = EntryPath(Len(stack), 1) /\ NextPath \in Paths /\ NextPath = Append(Frame.dir, NextEntry.name)
      /\ Frame = stack[Len(stack)] /\ NextEntry = Frame.rest[1] /\ NextEntry = stack[Len(stack)].rest[1]
      /\ Frame.dir \in Paths /\ NextEntry.name \in Names /\ NextEntry.kind \in Kinds \ {"none"}
      /\ cur' = NextPath
  BY TakeFacts, FrameFacts DEF TypeInv, NextPath
<1>2. IsPrefix(NextPath, p) /\ (NextEntry.kind = "dir" <=> NextPath # p)
  BY <1>1 DEF LeadsTo
<1>3. /\ Visible(p) /\ p \in req.glob /\ StatKind(kind, target, p) \in {"file", "pipe"}
      /\ Real(target, p) \in Inside /\ kind[p] \notin {"none", "dir"}
  BY QualifiedFacts
<1>4. NextEntry.name \notin Hidden
  <2>1. Len(NextPath) = Len(Frame.dir) + 1 /\ NextPath[Len(Frame.dir) + 1] = NextEntry.name
    BY <1>1, ChildFacts
  <2>2. Len(Frame.dir) \in Nat /\ Len(NextPath) <= Len(p) /\ Len(p) \in Nat
        /\ \A i \in 1..Len(NextPath) : NextPath[i] = p[i]
    BY <1>1, <1>2, PathFacts, PrefixIs
  <2>3. Len(Frame.dir) + 1 \in 1..Len(p) /\ p[Len(Frame.dir) + 1] = NextEntry.name
    BY <2>1, <2>2
  <2>4. Len(Root) <= Len(Frame.dir) /\ Len(Root) \in Nat
    BY <1>1, VisibleFacts, RootFacts
  <2>5. Len(Frame.dir) + 1 \in (Len(Root) + 1)..Len(p)
    BY <2>2, <2>3, <2>4
  <2>. QED  BY <1>3, <2>3, <2>5 DEF Visible
<1>5. CASE NextEntry.kind = "dir"
  <2>1. Descend
    BY <1>4, <1>5 DEF Skip, Approve, Look, Skipped
  <2>2. IsPrefix(cur, p)'
    BY <1>1, <1>2 DEF IsPrefix
  <2>. QED  BY <2>1, <2>2 DEF Descend
<1>6. CASE NextEntry.kind # "dir"
  <2>1. NextPath = p
    BY <1>2, <1>6
  <2>2. CASE NextEntry.kind = "link"
    <3>1. Resolves(kind, target, p)
      <4>1. Len(p) \in Nat /\ Len(p) \in 0..Len(p)
        BY PathFacts
      <4>2. SubSeq(p, 1, Len(p)) = p
        BY <4>1, FirstFacts, PathsEqual
      <4>3. \A j \in 0..Len(p) : j <= Len(p)
        BY <4>1
      <4>. QED  BY <1>3, <4>1, <4>2, <4>3 DEF Resolves
    <3>2. Approve
      BY <1>4, <2>1, <2>2, <3>1 DEF Skip, Descend, Look, Skipped
    <3>. QED  BY <1>1, <2>1, <3>2 DEF Approve
  <2>3. CASE NextEntry.kind # "link"
    <3>1. ~Gone
      <4>1. /\ NextPath # << >> /\ Front(NextPath) = Frame.dir
            /\ Len(NextPath) = Len(Frame.dir) + 1 /\ NextPath[Len(Frame.dir) + 1] = NextEntry.name
        <5>1. PICK d \in Paths, n \in Names : d = Frame.dir /\ n = NextEntry.name
          BY <1>1
        <5>2. NextPath = Append(d, n) /\ Append(d, n) \in Paths
          BY <1>1, <5>1
        <5>. QED  BY <5>1, <5>2, ChildFacts
      <4>2. Last(NextPath) = NextEntry.name
        <5>1. Len(Frame.dir) \in Nat
          BY <1>1, PathFacts
        <5>. QED  BY <4>1, <5>1 DEF Last
      <4>3. IsPrefix(Frame.dir, p) /\ Frame.dir # p
        <5>1. IsPrefix(Front(p), Front(p))
          BY <2>1, <4>1, FrontFacts, PrefixIs, PathFacts
        <5>. QED  BY <2>1, <4>1, <5>1, FrontFacts
      <4>4. Real(target, Frame.dir) = Frame.dir /\ Frame.dir # Nowhere
        BY <1>1, <4>3, QualifiedFacts, RealFacts, SearchAssumption DEF TypeInv
      <4>5. LstatKind(kind, target, NextPath) = kind[p]
        BY <1>1, <2>1, <4>1, <4>2, <4>4 DEF LstatKind
      <4>. QED  BY <1>3, <4>5 DEF Gone
    <3>2. Look
      BY <1>4, <1>6, <2>3, <3>1 DEF Skip, Descend, Approve, Skipped
    <3>. QED  BY <1>1, <1>3, <2>1, <3>2 DEF Look, Judge
  <2>. QED  BY <2>2, <2>3
<1>. QED  BY <1>5, <1>6

LEMMA SteadyInvStep == TypeInv /\ EverInv /\ SteadyInv /\ [Next]_vars => SteadyInv'
<1>. SUFFICES ASSUME TypeInv, EverInv, SteadyInv, [Next]_vars PROVE SteadyInv'
  OBVIOUS
<1>. USE DEF Goto, Finish, walking, writing
<1>. DEFINE Found(p) == p \in ToSet(matches) \/ Expected(p)
            Going == pc \notin {"idle", "blocked"} /\ result # "failed" /\ ~truncated
<1>0. /\ Going => \A p \in steady : Found(p)
      /\ pc # "idle" => \A p \in steady : p \in Paths /\ Qualifies(kind, target, text, req, p)
  BY DEF SteadyInv
<1>1. /\ pc' # "idle" => \A p \in steady' : p \in Paths /\ Qualifies(kind, target, text, req, p)'
      /\ pc # "idle" => steady' \subseteq steady
  BY SteadyShrinks
<1>2. ASSUME pc' = "read" => req'.regex,
             Going' => \A p \in steady' : Found(p)'
      PROVE  SteadyInv'
  BY <1>1, <1>2 DEF SteadyInv
<1>3. ASSUME UNCHANGED <<matches, stack, req, cur, truncated>>,
             pc' = "read" => pc = "read",
             Going' => Going,
             Going' => pc' = pc \/ pc \notin {"root", "list", "stat", "read"}
      PROVE  SteadyInv'
  <2>1. pc' = "read" => req'.regex
    BY <1>3 DEF SteadyInv
  <2>2. ASSUME Going', NEW p \in steady' PROVE Found(p)'
    <3>1. Found(p) /\ (pc' = pc \/ pc \notin {"root", "list", "stat", "read"})
      BY <1>0, <1>1, <1>3, <2>2
    <3>2. ASSUME NEW l \in DOMAIN stack, NEW a \in DOMAIN stack[l].rest, LeadsTo(l, a, p)
          PROVE  l \in DOMAIN stack' /\ a \in DOMAIN stack'[l].rest /\ LeadsTo(l, a, p)'
      BY <1>3, <3>2 DEF LeadsTo, EntryPath
    <3>3. IsPrefix(cur, p) => IsPrefix(cur, p)'
      BY <1>3 DEF IsPrefix
    <3>4. p \in ToSet(matches) => p \in ToSet(matches)'
      BY <1>3 DEF ToSet
    <3>. QED  BY <1>3, <3>1, <3>2, <3>3, <3>4 DEF Expected
  <2>. QED  BY <1>2, <2>1, <2>2
<1>4. CASE Begin
  <2>1. /\ cur' = Root /\ pc' = "root" /\ pc = "idle"
        /\ steady' = {p \in Paths : Qualifies(kind, target, text, req', p)}
    BY <1>4 DEF Begin, TypeInv, CallInv
  <2>2. \A p \in steady' : IsPrefix(Root, p)
    BY <2>1 DEF Qualifies
  <2>3. ASSUME NEW p \in steady' PROVE Expected(p)'
    <3>1. IsPrefix(cur', p)
      BY <2>1, <2>2, <2>3
    <3>2. IsPrefix(cur, p)'
      BY <3>1 DEF IsPrefix
    <3>. QED  BY <2>1, <3>2 DEF Expected
  <2>. QED  BY <1>2, <2>1, <2>3
<1>5. CASE StatRoot
  <2>1. /\ pc = "root" /\ pc' = "list" /\ UNCHANGED <<matches, stack, cur, truncated, result, steady>>
    BY <1>5 DEF StatRoot, SameTree, history
  <2>2. ASSUME Going', NEW p \in steady' PROVE Found(p)'
    <3>1. Found(p) /\ stack = << >>
      BY <1>0, <2>1, <2>2 DEF TypeInv, CallInv
    <3>2. p \in ToSet(matches) \/ IsPrefix(cur, p)
      BY <2>1, <3>1 DEF Expected
    <3>3. IsPrefix(cur, p) => IsPrefix(cur, p)'
      BY <2>1 DEF IsPrefix
    <3>4. p \in ToSet(matches) => p \in ToSet(matches)'
      BY <2>1 DEF ToSet
    <3>. QED  BY <2>1, <3>2, <3>3, <3>4 DEF Expected
  <2>. QED  BY <1>2, <2>1, <2>2
<1>6. CASE ListDir
  <2>0. PICK n, list : n = Len(stack) /\ list = Listed(kind, Real(target, cur), cur)
    OBVIOUS
  <2>1. /\ n \in Nat /\ DOMAIN stack = 1..n /\ DOMAIN stack' = 1..(n + 1)
        /\ StatKind(kind, target, cur) = "dir"
        /\ \A l \in DOMAIN stack : stack'[l] = stack[l]
        /\ stack'[n + 1].dir = cur /\ stack'[n + 1].rest = list
    BY <1>6, <2>0, ListFacts
  <2>2. /\ pc = "list" /\ pc' = "next" /\ UNCHANGED <<matches, cur, truncated, result, steady>>
        /\ cur \in Paths
    BY <1>6 DEF ListDir, SameTree, history, TypeInv, CallInv
  <2>3. ASSUME Going', NEW p \in steady' PROVE Found(p)'
    <3>1. Found(p) /\ p \in Paths /\ Qualifies(kind, target, text, req, p)
      BY <1>0, <2>2, <2>3
    <3>2. p \in ToSet(matches) => p \in ToSet(matches)'
      BY <2>2 DEF ToSet
    <3>3. ASSUME NEW l \in DOMAIN stack, NEW a \in DOMAIN stack[l].rest, LeadsTo(l, a, p)
          PROVE  Expected(p)'
      <4>1. l \in DOMAIN stack' /\ stack'[l] = stack[l] /\ a \in DOMAIN stack'[l].rest
        BY <2>1, <3>3
      <4>2. EntryPath(l, a)' = EntryPath(l, a)
        BY <4>1 DEF EntryPath
      <4>3. LeadsTo(l, a, p)'
        BY <3>3, <4>1, <4>2 DEF LeadsTo
      <4>. QED  BY <4>1, <4>3 DEF Expected
    <3>4. ASSUME IsPrefix(cur, p) PROVE Expected(p)'
      <4>1. cur # p
        BY <2>1, <3>1, QualifiedFacts
      <4>2. PICK a \in DOMAIN list :
              /\ IsPrefix(Append(cur, list[a].name), p)
              /\ list[a].kind = "dir" <=> Append(cur, list[a].name) # p
        BY <2>0, <2>2, <3>1, <3>4, <4>1, ListedAbove
      <4>3. PICK m : m = n + 1
        OBVIOUS
      <4>4. m \in DOMAIN stack' /\ stack'[m].dir = cur /\ stack'[m].rest = list /\ a \in DOMAIN stack'[m].rest
        BY <2>1, <4>2, <4>3
      <4>5. EntryPath(m, a)' = Append(cur, list[a].name)
        BY <4>4 DEF EntryPath
      <4>6. LeadsTo(m, a, p)'
        BY <4>2, <4>4, <4>5 DEF LeadsTo
      <4>. QED  BY <4>4, <4>6 DEF Expected
    <3>. QED  BY <2>2, <3>1, <3>2, <3>3, <3>4 DEF Expected
  <2>. QED  BY <1>2, <2>2, <2>3
<1>7. CASE EndOfDir
  <2>1. Leave /\ Frame.rest = << >> /\ stack # << >> /\ UNCHANGED <<matches, truncated, req, steady>>
    BY <1>7, LeaveFacts DEF EndOfDir, Leave, SameTree, history, TypeInv
  <2>2. /\ pc = "next" /\ pc' \in {"next", "load", "done"} /\ result = "none"
        /\ Len(stack) \in Nat /\ DOMAIN stack = 1..Len(stack) /\ DOMAIN stack' = 1..(Len(stack) - 1)
        /\ Frame = stack[Len(stack)]
        /\ \A l \in DOMAIN stack' : stack'[l] = stack[l]
    BY <2>1, LeaveFacts, FrameFacts DEF Leave, TypeInv, CallInv
  <2>3. ASSUME Going', NEW p \in steady' PROVE Found(p)'
    <3>1. Found(p)
      BY <1>0, <2>1, <2>2, <2>3
    <3>2. p \in ToSet(matches) => p \in ToSet(matches)'
      BY <2>1 DEF ToSet
    <3>3. ASSUME NEW l \in DOMAIN stack, NEW a \in DOMAIN stack[l].rest, LeadsTo(l, a, p)
          PROVE  Expected(p)'
      <4>1. l # Len(stack)
        BY <2>1, <2>2, <3>3, EmptySeq
      <4>2. l \in DOMAIN stack' /\ stack'[l] = stack[l] /\ a \in DOMAIN stack'[l].rest
        BY <2>2, <3>3, <4>1
      <4>3. EntryPath(l, a)' = EntryPath(l, a)
        BY <4>2 DEF EntryPath
      <4>4. LeadsTo(l, a, p)'
        BY <3>3, <4>2, <4>3 DEF LeadsTo
      <4>. QED  BY <4>2, <4>4 DEF Expected
    <3>. QED  BY <2>2, <3>1, <3>2, <3>3 DEF Expected
  <2>. QED  BY <1>2, <2>2, <2>3
<1>8. CASE Truncate
  BY <1>2, <1>8 DEF Truncate, Leave
<1>9. CASE Skip \/ Descend \/ Approve \/ Look
  <2>1. Take
    BY <1>9 DEF Skip, Descend, Approve, Look, Judge
  <2>2. /\ pc = "next" /\ UNCHANGED <<req, truncated, result, steady>> /\ matches \in Seq(Paths)
        /\ NextPath \in Paths /\ Len(stack) \in DOMAIN stack
        /\ matches' = matches \/ matches' = Append(matches, NextPath)
        /\ pc' = "read" => req.regex
    BY <1>9, <2>1, TakeFacts, FrameFacts DEF Take, Skip, Descend, Approve, Look, Judge, SameTree, history, TypeInv, CallInv
  <2>4. Visible(Frame.dir)
    BY <2>1, TakeFacts, FrameFacts DEF EverInv, AtDir, TypeInv
  <2>3. ASSUME Going', NEW p \in steady' PROVE Found(p)'
    <3>1. Found(p) /\ p \in Paths /\ Qualifies(kind, target, text, req, p)
      BY <1>0, <2>2, <2>3
    <3>2. ToSet(matches) \subseteq ToSet(matches')
      <4>1. ToSet(Append(matches, NextPath)) = ToSet(matches) \cup {NextPath}
        BY <2>2, AppendFacts
      <4>. QED  BY <2>2, <4>1
    <3>3. ASSUME NEW l \in DOMAIN stack, NEW a \in DOMAIN stack[l].rest, LeadsTo(l, a, p)
          PROVE  Found(p)'
      <4>1. CASE l = Len(stack) /\ a = 1
        <5>1. \/ pc' = "list" /\ IsPrefix(cur, p)'
              \/ pc' \in {"stat", "read"} /\ cur' = p
              \/ matches' = Append(matches, p)
          BY <1>9, <2>1, <2>4, <3>1, <3>3, <4>1, NextLeadsTo
        <5>2. matches' = Append(matches, p) => p \in ToSet(matches')
          BY <2>2, <3>1, AppendFacts
        <5>. QED  BY <5>1, <5>2 DEF Expected, ToSet
      <4>2. CASE ~(l = Len(stack) /\ a = 1)
        BY <2>1, <3>3, <4>2, OthersStay DEF TypeInv, Expected
      <4>. QED  BY <4>1, <4>2
    <3>4. p \in ToSet(matches) => p \in ToSet(matches)'
      BY <3>2 DEF ToSet
    <3>. QED  BY <2>2, <3>1, <3>3, <3>4 DEF Expected
  <2>. QED  BY <1>2, <2>2, <2>3
<1>10. CASE StatLink \/ Search
  <2>1. /\ pc \in {"stat", "read"} /\ UNCHANGED <<req, stack, cur, truncated, result, steady>>
        /\ cur \in Paths /\ matches \in Seq(Paths)
    BY <1>10 DEF StatLink, Search, SameTree, history, TypeInv, CallInv
  <2>4. /\ matches' = matches \/ matches' = Append(matches, cur)
        /\ pc' \in {"next", "read"} /\ (pc' = "read" => req.regex)
    <3>1. CASE StatLink
      BY <3>1 DEF StatLink, Judge
    <3>2. CASE Search
      BY <3>2 DEF Search
    <3>. QED  BY <1>10, <3>1, <3>2
  <2>2. ASSUME Qualifies(kind, target, text, req, cur) PROVE pc' = "read" \/ matches' = Append(matches, cur)
    <3>1. /\ StatKind(kind, target, cur) \in {"file", "pipe"} /\ cur \in req.glob
          /\ req.regex => Replaceable(text[Real(target, cur)])
      BY <2>1, <2>2, QualifiedFacts
    <3>2. CASE StatLink
      BY <3>1, <3>2 DEF StatLink, LeadsToFile, Judge
    <3>3. CASE Search
      BY <3>1, <3>3 DEF Search, SteadyInv
    <3>. QED  BY <1>10, <3>2, <3>3
  <2>3. ASSUME Going', NEW p \in steady' PROVE Found(p)'
    <3>1. Found(p) /\ p \in Paths /\ Qualifies(kind, target, text, req, p)
      BY <1>0, <2>1, <2>3
    <3>2. ToSet(matches) \subseteq ToSet(matches')
      <4>1. ToSet(Append(matches, cur)) = ToSet(matches) \cup {cur}
        BY <2>1, AppendFacts
      <4>. QED  BY <2>4, <4>1
    <3>3. cur = p => p \in ToSet(matches') \/ Expected(p)'
      <4>1. cur = p => p \in ToSet(matches') \/ pc' = "read"
        BY <2>1, <2>2, <3>1, AppendFacts
      <4>. QED  BY <2>1, <2>4, <4>1 DEF Expected
    <3>4. ASSUME NEW l \in DOMAIN stack, NEW a \in DOMAIN stack[l].rest, LeadsTo(l, a, p)
          PROVE  l \in DOMAIN stack' /\ a \in DOMAIN stack'[l].rest /\ LeadsTo(l, a, p)'
      BY <2>1, <3>4 DEF LeadsTo, EntryPath
    <3>5. p \in ToSet(matches') => p \in ToSet(matches)'
      BY DEF ToSet
    <3>6. p \in ToSet(matches) => p \in ToSet(matches')
      BY <3>2
    <3>7. Expected(p) => cur = p \/ Expected(p)'
      BY <2>1, <3>4 DEF Expected
    <3>. QED  BY <3>1, <3>3, <3>5, <3>6, <3>7
  <2>. QED  BY <1>2, <2>1, <2>3, <2>4
<1>11. CASE \/ Refuse \/ ListFails \/ SearchFails \/ Block \/ Replace \/ PutFails \/ OtherChanges
            \/ Stop \/ UNCHANGED vars
  <2>1. /\ UNCHANGED <<matches, stack, req, cur, truncated>> /\ (pc' = "read" => pc = "read")
        /\ Going' => pc' = pc \/ pc \in {"load", "open", "write"}
        /\ result' = "failed" \/ pc' = "blocked" \/ result' = "ok" \/ result' = result
        /\ result' = "ok" => result = "ok" \/ result = "none"
    BY <1>11 DEF Refuse, ListFails, SearchFails, Block, Replace, LoadPass, LoadPreview, Load, LoadFails,
                 Answer, OpenForWriting, OpenFails, Put, PutFails, OtherChanges, Edit, Create,
                 RemoveTree, PutLink, Vacate, Meanwhile, Stop, vars, TypeInv, CallInv
  <2>. QED  BY <1>3, <2>1
<1>. QED
  BY <1>4, <1>5, <1>6, <1>7, <1>8, <1>9, <1>10, <1>11 DEF Next, Walk

LEMMA SteadyInvInit == Init => SteadyInv
  BY DEF Init, SteadyInv

\* A walk that ends without saying that it was cut short has found every file
\* that qualified from its beginning to its end.
THEOREM SteadyAlwaysFound == Spec => []SteadyFilesAreFound
<1>1. (TypeInv /\ EverInv /\ SteadyInv) /\ [Next]_vars => (TypeInv /\ EverInv /\ SteadyInv)'
  BY TypeInvStep, EverInvStep, SteadyInvStep
<1>2. TypeInv /\ SteadyInv => SteadyFilesAreFound
  <2>1. SUFFICES ASSUME TypeInv, SteadyInv, pc = "done", result = "ok", ~truncated, NEW p \in steady
                 PROVE  p \in ToSet(matches)
    BY DEF SteadyFilesAreFound
  <2>2. stack = << >> /\ (p \in ToSet(matches) \/ Expected(p))
    BY <2>1 DEF TypeInv, CallInv, SteadyInv
  <2>. QED  BY <2>1, <2>2, EmptySeq DEF Expected
<1>. QED  BY TypeInvInit, EverInvInit, SteadyInvInit, <1>1, <1>2, PTL DEF Spec
-----------------------------------------------------------------------------
(* What a replace in a tree of its own has rewritten.                      *)

LEMMA Primes ==
  /\ Real(target, Match)' = Real(target', Match')
  /\ Rewritten' = {Real(target', files'[i].path) : i \in 1..Len(files')}
  /\ Distinct' <=> \A i, j \in 1..Len(matches') :
                    Real(target', matches'[i]) = Real(target', matches'[j]) => i = j
  /\ Readable(Match)' <=> /\ StatKind(kind', target', Match') = "file"
                          /\ Real(target', Match') \notin Locked
<1>1. Real(target, Match)' = Real(target', Match')
  BY DEF Real, LinksOn, FollowOnce, IsPrefix
<1>2. Rewritten' = {Real(target', files'[i].path) : i \in 1..Len(files')}
  BY DEF Rewritten, Real, LinksOn, FollowOnce, IsPrefix
<1>3. Distinct' <=> \A i, j \in 1..Len(matches') :
                      Real(target', matches'[i]) = Real(target', matches'[j]) => i = j
  BY DEF Distinct, Real, LinksOn, FollowOnce, IsPrefix
<1>4. Readable(Match)' <=> /\ StatKind(kind', target', Match') = "file"
                           /\ Real(target', Match') \notin Locked
  BY DEF Readable, StatKind, Real, LinksOn, FollowOnce, IsPrefix
<1>. QED  BY <1>1, <1>2, <1>3, <1>4

\* Nothing but another program changes where a path leads.
LEMMA SamePaths ==
  ASSUME [Next]_vars, alone', pc # "idle"
  PROVE  alone /\ target' = target
<1>1. CASE OtherChanges
  BY <1>1 DEF OtherChanges, Edit, Create, RemoveTree, PutLink, Vacate, Meanwhile
<1>2. CASE Begin
  BY <1>2 DEF Begin, Goto
<1>3. CASE OpenForWriting \/ Put
  BY <1>3 DEF OpenForWriting, Put
<1>4. CASE \/ Refuse \/ Walk \/ LoadPass \/ LoadPreview \/ Load \/ LoadFails \/ Answer \/ OpenFails
           \/ PutFails \/ Stop \/ UNCHANGED vars
  BY <1>4 DEF Refuse, Walk, StatRoot, ListDir, ListFails, EndOfDir, Truncate, Leave, Skip, Descend,
              Approve, Look, Take, StatLink, Search, SearchFails, Block, LoadPass, LoadPreview, Load,
              LoadFails, Answer, OpenFails, PutFails, Stop, SameTree, tree, history, vars
<1>. QED  BY <1>1, <1>2, <1>3, <1>4 DEF Next, Replace

\* The matches are final once the walk has ended.
LEMMA SameMatches ==
  ASSUME [Next]_vars, alone', Distinct', matches' = matches, pc # "idle"
  PROVE  Distinct
  BY SamePaths, Primes DEF Distinct

\* Where no file has been reported yet, what is exact is as before.
LEMMA ExactAtFirst ==
  ASSUME files = << >>, text = before
  PROVE  \A p \in Paths : Exact(p)
<1>1. Rewritten = {}
  BY DEF Rewritten
<1>. QED  BY <1>1 DEF Exact

LEMMA ExactStays ==
  ASSUME UNCHANGED <<text, before, req, files, target>>, NEW p \in Paths, Exact(p)
  PROVE  Exact(p)'
<1>1. Rewritten' = Rewritten
  BY Primes DEF Rewritten
<1>. QED  BY <1>1 DEF Exact

\* The file at hand has not been rewritten yet.
LEMMA NotYetRewritten ==
  ASSUME TypeInv, ReplaceInv, Distinct, at <= Len(matches)
  PROVE  Real(target, Match) \notin Rewritten
<1>1. at \in 1..Len(matches) /\ at \in Nat /\ Len(matches) \in Nat
  BY MatchFacts, MatchesFacts DEF TypeInv, CallInv
<1>2. ASSUME NEW f \in 1..Len(files), Real(target, files[f].path) = Real(target, Match)
      PROVE  FALSE
  <2>1. PICK i \in 1..(at - 1) : files[f].path = matches[i]
    BY DEF ReplaceInv
  <2>2. i \in 1..Len(matches) /\ i # at
    BY <1>1
  <2>3. Real(target, matches[i]) = Real(target, matches[at])
    BY <1>2, <2>1 DEF Match
  <2>. QED  BY <1>1, <2>2, <2>3 DEF Distinct
<1>. QED  BY <1>2 DEF Rewritten

\* A file reported is the match at hand.
LEMMA ReportFacts ==
  ASSUME TypeInv, ReplaceInv, at <= Len(matches), NEW count \in Nat, Report(count),
         UNCHANGED <<matches, target>>
  PROVE  /\ files' \in Seq(Reports)
         /\ \A f \in 1..Len(files') : \E i \in 1..(at' - 1) : files'[f].path = matches'[i]
         /\ Rewritten' = Rewritten \cup {Real(target, Match)}
<1>1. PICK r : r = [path |-> Match, replacements |-> count]
  OBVIOUS
<1>2. r \in Reports /\ r.path = Match /\ Match = matches[at] /\ at \in Nat \ {0} /\ at' = at + 1
  BY <1>1, MatchFacts DEF TypeInv, CallInv, Reports, Match, Report
<1>3. files' = Append(files, r) /\ files \in Seq(Reports)
  BY <1>1 DEF Report, ReplaceInv
<1>4. /\ files' \in Seq(Reports) /\ Len(files) \in Nat /\ Len(files') = Len(files) + 1
      /\ \A f \in 1..Len(files) : files'[f] = files[f]
      /\ files'[Len(files) + 1] = r
  BY <1>2, <1>3, AppendProperties, LenProperties
<1>5. ASSUME NEW f \in 1..Len(files') PROVE \E i \in 1..(at' - 1) : files'[f].path = matches'[i]
  <2>1. CASE f \in 1..Len(files)
    <3>1. PICK i \in 1..(at - 1) : files[f].path = matches[i]
      BY <2>1 DEF ReplaceInv
    <3>2. i \in 1..(at' - 1)
      BY <1>2
    <3>. QED  BY <1>4, <2>1, <3>1, <3>2
  <2>2. CASE f = Len(files) + 1
    <3>1. at \in 1..(at' - 1)
      BY <1>2
    <3>. QED  BY <1>2, <1>4, <2>2, <3>1
  <2>. QED  BY <1>4, <2>1, <2>2
<1>6. Rewritten' = Rewritten \cup {Real(target, Match)}
  <2>1. Rewritten' = {Real(target, files'[f].path) : f \in 1..(Len(files) + 1)}
    BY <1>4, Primes
  <2>2. \A f \in 1..(Len(files) + 1) :
          \/ f \in 1..Len(files) /\ Real(target, files'[f].path) = Real(target, files[f].path)
          \/ f = Len(files) + 1 /\ Real(target, files'[f].path) = Real(target, Match)
    BY <1>2, <1>4
  <2>3. Len(files) + 1 \in 1..(Len(files) + 1) /\ 1..Len(files) \subseteq 1..(Len(files) + 1)
    BY <1>4
  <2>4. Rewritten' \subseteq Rewritten \cup {Real(target, Match)}
    BY <2>1, <2>2 DEF Rewritten
  <2>5. Real(target, Match) \in Rewritten'
    BY <2>1, <2>2, <2>3
  <2>6. ASSUME NEW f \in 1..Len(files) PROVE Real(target, files[f].path) \in Rewritten'
    BY <1>4, <2>1, <2>3
  <2>. QED  BY <2>4, <2>5, <2>6 DEF Rewritten
<1>. QED  BY <1>4, <1>5, <1>6
LEMMA ReplaceInvStep == TypeInv /\ ReplaceInv /\ [Next]_vars => ReplaceInv'
<1>. SUFFICES ASSUME TypeInv, ReplaceInv, [Next]_vars PROVE ReplaceInv'
  OBVIOUS
<1>. USE DEF Goto, Finish, walking, writing
<1>. DEFINE Quiet == alone /\ Distinct /\ pc # "idle" /\ req.tool = "replace"
            Reported == /\ files \in Seq(Reports)
                        /\ \A f \in 1..Len(files) : \E i \in 1..(at - 1) : files[f].path = matches[i]
            InTurn == /\ pc = "load" => \A p \in Paths : Exact(p)
                      /\ pc = "open" => /\ \A p \in Paths : Exact(p)
                                        /\ Readable(Match) /\ ~req.dry
                                        /\ loaded = before[Real(target, Match)]
                      /\ pc = "write" => /\ open = Real(target, Match) /\ open \in Paths /\ ~req.dry
                                         /\ loaded = before[open]
                                         /\ \A p \in Paths \ {open} : Exact(p)
                      /\ pc = "done" =>
                           \A p \in Paths :
                             (result = "failed" /\ ~AllMatches => p # Real(target, Match)) => Exact(p)
<1>0. ReplaceInv <=> Reported /\ (alone /\ pc \in Walking => text = before) /\ (Quiet => InTurn)
  BY DEF ReplaceInv
<1>1. ReplaceInv' <=> /\ Reported'
                      /\ (alone /\ pc \in Walking => text = before)'
                      /\ (Quiet' => InTurn')
  BY DEF ReplaceInv
<1>2. alone' /\ pc # "idle" => alone /\ target' = target
  BY SamePaths
<1>3. Quiet' /\ pc # "idle" /\ matches' = matches /\ req' = req => Quiet
  BY <1>2, SameMatches
<1>4. ASSUME UNCHANGED <<files, matches>>, at' = at \/ at' = at + 1 PROVE Reported'
  <2>1. at \in Nat
    BY DEF TypeInv, CallInv
  <2>2. 1..(at - 1) \subseteq 1..(at' - 1)
    BY <1>4, <2>1
  <2>. QED  BY <1>0, <1>4, <2>2
<1>5. ASSUME files = << >>, files' = files PROVE Reported'
  BY <1>5, EmptySeq DEF ReplaceInv
<1>6. ASSUME UNCHANGED <<text, before, req, files>>, alone', pc # "idle", NEW p \in Paths, Exact(p)
      PROVE  Exact(p)'
  BY <1>2, <1>6, ExactStays
<1>7. CASE Begin
  <2>1. files' = files /\ files = << >> /\ text' = before' /\ pc' = "root"
    BY <1>7 DEF Begin, tree, TypeInv, CallInv, Walking
  <2>. QED  BY <1>1, <1>5, <2>1
<1>8. CASE \/ Refuse \/ StatRoot \/ ListDir \/ ListFails \/ EndOfDir \/ Truncate \/ Skip \/ Descend
            \/ Approve \/ Look \/ StatLink \/ Search \/ SearchFails
  <2>1. /\ pc \in Walking /\ pc # "idle" /\ UNCHANGED <<text, before, req, files, alone>>
        /\ pc' \in Walking \cup {"load", "done"}
    BY <1>8 DEF Refuse, StatRoot, ListDir, ListFails, EndOfDir, Truncate, Leave, Skip,
                Descend, Approve, Look, Judge, Take, StatLink, Search, SearchFails, SameTree, tree,
                history, Walking
  <2>2. files = << >>
    BY <2>1 DEF TypeInv, CallInv
  <2>3. ASSUME alone', NEW p \in Paths PROVE text = before /\ Exact(p)'
    <3>1. text = before
      BY <1>0, <2>1, <2>3
    <3>2. Exact(p)
      BY <2>2, <3>1, ExactAtFirst
    <3>. QED  BY <1>6, <2>1, <2>3, <3>1, <3>2
  <2>4. alone' => text' = before'
    BY <1>0, <2>1
  <2>5. pc' # "open" /\ pc' # "write"
    BY <2>1 DEF Walking
  <2>. QED  BY <1>1, <1>5, <2>1, <2>2, <2>3, <2>4, <2>5
<1>9. CASE LoadPass
  <2>1. /\ pc = "load" /\ pc' = "load" /\ at' = at + 1
        /\ UNCHANGED <<text, before, req, files, matches>>
    BY <1>9 DEF LoadPass, SameTree, tree, history
  <2>2. ASSUME Quiet', NEW p \in Paths PROVE Exact(p)'
    BY <1>0, <1>3, <1>6, <2>1, <2>2
  <2>. QED  BY <1>1, <1>4, <2>1, <2>2 DEF Walking
<1>10. CASE LoadPreview
  <2>1. PICK count : count = text[Real(target, Match)]
    OBVIOUS
  <2>2. /\ pc = "load" /\ pc' = "load" /\ at <= Len(matches) /\ Report(count) /\ req.dry
        /\ UNCHANGED <<text, before, req, matches, target>> /\ Replaceable(count) /\ Readable(Match)
    <3>1. at \in Nat /\ Len(matches) \in Nat
      BY MatchesFacts DEF TypeInv, CallInv
    <3>. QED  BY <1>10, <2>1, <3>1 DEF LoadPreview, SameTree, tree, history, AllMatches
  <2>3. count \in Nat
    <3>1. Real(target, Match) \in Paths
      BY <2>2, MatchFacts, RealFacts DEF TypeInv, Readable
    <3>. QED  BY <2>1, <2>2, <3>1 DEF TypeInv, TreeInv, TextsOK, Replaceable
  <2>4. Reported'
    BY <2>2, <2>3, ReportFacts
  <2>5. ASSUME Quiet', NEW p \in Paths PROVE Exact(p)'
    BY <1>0, <1>3, <2>2, <2>5 DEF Exact
  <2>. QED  BY <1>1, <2>2, <2>4, <2>5 DEF Walking
<1>11. CASE Load
  <2>1. /\ pc = "load" /\ pc' = "open" /\ at <= Len(matches) /\ ~req.dry /\ Readable(Match)
        /\ loaded' = text[Real(target, Match)]
        /\ UNCHANGED <<text, before, req, matches, tree, files, at>>
    <3>1. at \in Nat /\ Len(matches) \in Nat
      BY MatchesFacts DEF TypeInv, CallInv
    <3>. QED  BY <1>11, <3>1 DEF Load, SameTree, tree, history, AllMatches
  <2>2. ASSUME Quiet', NEW p \in Paths PROVE Exact(p)'
    BY <1>0, <1>3, <1>6, <2>1, <2>2
  <2>3. ASSUME Quiet' PROVE loaded' = before[Real(target, Match)]
    <3>1. Quiet /\ InTurn
      BY <1>0, <1>3, <2>1, <2>3
    <3>2. Real(target, Match) \in Paths /\ Real(target, Match) \notin Rewritten
      BY <2>1, <3>1, MatchFacts, RealFacts, NotYetRewritten DEF TypeInv, Readable
    <3>. QED  BY <2>1, <3>1, <3>2 DEF Exact
  <2>4. /\ Readable(Match)' /\ ~req'.dry
        /\ before'[Real(target, Match)'] = before[Real(target, Match)]
    BY <2>1, Primes DEF Readable, Match, tree
  <2>. QED  BY <1>1, <1>4, <2>1, <2>2, <2>3, <2>4 DEF Walking
<1>12. CASE LoadFails \/ Answer \/ OpenFails
  <2>1. /\ pc \in {"load", "open"} /\ pc' = "done"
        /\ UNCHANGED <<text, before, req, files, matches, at>>
    BY <1>12 DEF LoadFails, Answer, OpenFails, SameTree, tree, history
  <2>2. ASSUME Quiet', NEW p \in Paths PROVE Exact(p)'
    BY <1>0, <1>3, <1>6, <2>1, <2>2
  <2>. QED  BY <1>1, <1>4, <2>1, <2>2 DEF Walking
<1>13. CASE OpenForWriting
  <2>1. PICK q : q = Real(target, Match)
    OBVIOUS
  <2>2. /\ pc = "open" /\ pc' = "write" /\ at <= Len(matches)
        /\ text' = [text EXCEPT ![q] = 0] /\ open' = q /\ q \in Paths
        /\ UNCHANGED <<before, req, matches, files, at, loaded, target>>
        /\ Readable(Match) => kind' = kind
    <3>1. open' = q /\ q \in Paths /\ (Readable(Match) => kind' = kind)
      BY <1>13, <2>1, OpenFacts
    <3>. QED  BY <1>13, <2>1, <3>1 DEF OpenForWriting, TypeInv, CallInv
  <2>3. ASSUME Quiet' PROVE InTurn'
    <3>1. Quiet /\ InTurn
      BY <1>0, <1>3, <2>2, <2>3
    <3>2. kind' = kind /\ ~req.dry /\ loaded = before[q]
      BY <2>1, <2>2, <3>1
    <3>3. Real(target, Match)' = q
      BY <2>1, <2>2, Primes DEF Match
    <3>4. ASSUME NEW p \in Paths \ {q} PROVE Exact(p)'
      <4>1. Rewritten' = Rewritten
        BY <2>2, Primes DEF Rewritten
      <4>2. text'[p] = text[p]
        BY <2>2, <3>4 DEF TypeInv, TreeInv, TextsOK
      <4>. QED  BY <2>2, <3>1, <4>1, <4>2 DEF Exact
    <3>. QED  BY <2>2, <3>2, <3>3, <3>4
  <2>. QED  BY <1>1, <1>4, <2>2, <2>3 DEF Walking
<1>14. CASE Put
  <2>1. /\ pc = "write" /\ pc' = "load" /\ at <= Len(matches) /\ Report(loaded) /\ loaded \in Nat
        /\ text' = IF open = Nowhere THEN text ELSE [text EXCEPT ![open] = loaded * req.grows]
        /\ UNCHANGED <<before, req, matches, target>>
    BY <1>14 DEF Put, TypeInv, CallInv
  <2>2. Reported' /\ Rewritten' = Rewritten \cup {Real(target, Match)}
    BY <2>1, ReportFacts
  <2>3. ASSUME Quiet', NEW p \in Paths PROVE Exact(p)'
    <3>1. Quiet /\ InTurn
      BY <1>0, <1>3, <2>1, <2>3
    <3>2. /\ open = Real(target, Match) /\ open \in Paths /\ ~req.dry /\ loaded = before[open]
          /\ open # Nowhere
      BY <2>1, <3>1, SearchAssumption
    <3>3. CASE p = open
      BY <2>1, <2>2, <3>2, <3>3 DEF Exact, TypeInv, TreeInv, TextsOK
    <3>4. CASE p # open
      <4>1. Exact(p) /\ text'[p] = text[p]
        BY <2>1, <3>1, <3>2, <3>4 DEF TypeInv, TreeInv, TextsOK
      <4>. QED  BY <2>1, <2>2, <3>2, <3>4, <4>1 DEF Exact
    <3>. QED  BY <3>3, <3>4
  <2>. QED  BY <1>1, <2>1, <2>2, <2>3 DEF Walking
<1>15. CASE PutFails
  <2>1. /\ pc = "write" /\ pc' = "done" /\ result' = "failed"
        /\ UNCHANGED <<text, before, req, files, matches, at, target>>
        /\ at \in Nat /\ Len(matches) \in Nat /\ at <= Len(matches)
    BY <1>15, MatchesFacts DEF PutFails, SameTree, tree, history, TypeInv, CallInv
  <2>2. ASSUME Quiet', NEW p \in Paths, p # Real(target, Match)' PROVE Exact(p)'
    <3>1. Quiet /\ InTurn
      BY <1>0, <1>3, <2>1, <2>2
    <3>2. p # open
      BY <2>1, <2>2, <3>1, Primes DEF Match
    <3>. QED  BY <1>6, <2>1, <2>2, <3>1, <3>2
  <2>3. ~AllMatches'
    BY <2>1 DEF AllMatches
  <2>. QED  BY <1>1, <1>4, <2>1, <2>2, <2>3 DEF Walking
<1>16. CASE Block
  <2>1. pc' = "blocked" /\ UNCHANGED <<files, matches, at>>
    BY <1>16 DEF Block
  <2>. QED  BY <1>1, <1>4, <2>1 DEF Walking
<1>17. CASE OtherChanges
  <2>1. ~alone' /\ UNCHANGED <<files, matches, at>>
    BY <1>17 DEF OtherChanges, Edit, Create, RemoveTree, PutLink, Vacate, Meanwhile
  <2>. QED  BY <1>1, <1>4, <2>1
<1>18. CASE Stop \/ UNCHANGED vars
  <2>1. UNCHANGED vars
    BY <1>18 DEF Stop
  <2>2. Quiet' => Quiet
    BY <2>1, SameMatches DEF vars, tree, history
  <2>3. ASSUME Quiet', NEW p \in Paths, Exact(p) PROVE Exact(p)'
    BY <2>1, <2>3, ExactStays DEF vars, tree, history
  <2>4. /\ Real(target, Match)' = Real(target, Match)
        /\ Readable(Match)' <=> Readable(Match)
    BY <2>1, Primes DEF vars, tree, Match, Readable
  <2>5. Reported' <=> Reported
    BY <2>1 DEF vars
  <2>. QED  BY <1>0, <1>1, <2>1, <2>2, <2>3, <2>4, <2>5 DEF vars, tree, history, AllMatches
<1>. QED
  BY <1>7, <1>8, <1>9, <1>10, <1>11, <1>12, <1>13, <1>14, <1>15, <1>16, <1>17, <1>18
  DEF Next, Walk, Replace

LEMMA ReplaceInvInit == Init => ReplaceInv
  BY EmptySeq DEF Init, ReplaceInv

\* With the tree to itself, a replace has rewritten the files it reports and
\* no others, each of them entirely, however it ends.
THEOREM QuietReplacesAlwaysExact == Spec => []QuietReplaceIsExact
<1>1. (TypeInv /\ ReplaceInv) /\ [Next]_vars => (TypeInv /\ ReplaceInv)'
  BY TypeInvStep, ReplaceInvStep
<1>2. ReplaceInv => QuietReplaceIsExact
  BY DEF ReplaceInv, QuietReplaceIsExact, Distinct, Exact, Rewritten
<1>. QED  BY TypeInvInit, ReplaceInvInit, <1>1, <1>2, PTL DEF Spec
=============================================================================
