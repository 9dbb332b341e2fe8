---------------------------- MODULE QueryProofs -----------------------------
(***************************************************************************)
(* What Query.tla promises, for every request and every list of names.     *)
(***************************************************************************)
EXTENDS Query, GlobProofs

-----------------------------------------------------------------------------
(* Chosen as steps that take smaller patterns.                             *)

FirstOf(f, g) ==
  IF Head(g).k = "choice" THEN UNION {f[b] : b \in ToSet(Head(g).branches)} ELSE {<<Head(g)>>}

ChosenStep(f, g) ==
  IF g = << >> THEN {<< >>} ELSE {a \o b : a \in FirstOf(f, g), b \in f[Tail(g)]}

LEMMA SmallerParts ==
  ASSUME NEW g \in Seq(GlobAtoms), g # << >>
  PROVE  /\ Head(g) \in GlobAtoms /\ Tail(g) \in Seq(GlobAtoms) /\ TextSize[Tail(g)] < TextSize[g]
         /\ g = <<Head(g)>> \o Tail(g)
         /\ Head(g).k = "choice" => \A b \in ToSet(Head(g).branches) : b \in Seq(GlobAtoms) /\ TextSize[b] < TextSize[g]
<1>. DEFINE e == Head(g)
            s == Tail(g)
<1>1. e \in GlobAtoms /\ s \in Seq(GlobAtoms) /\ g = <<e>> \o s
  BY HeadAndTail
<1>. HIDE DEF e, s
<1>2. /\ TextSize[s] < TextSize[g]
      /\ e \in ChoiceAtoms => \A i \in 1..Len(e.branches) : TextSize[e.branches[i]] < TextSize[g]
  BY <1>1, PartsShorter
<1>3. ASSUME e.k = "choice", NEW b \in ToSet(e.branches) PROVE b \in Seq(GlobAtoms) /\ TextSize[b] < TextSize[g]
  <2>1. e \in ChoiceAtoms
    BY <1>1, <1>3 DEF ChoiceAtoms
  <2>2. ChoiceText(e)
    BY <2>1, ChoiceTextIs
  <2>3. e.branches \in Seq(Seq(GlobAtoms))
    BY <2>2 DEF ChoiceText
  <2>4. PICK i \in DOMAIN e.branches : b = e.branches[i]
    BY DEF ToSet
  <2>5. i \in 1..Len(e.branches)
    BY <2>3, LenProperties
  <2>6. e.branches[i] \in Seq(GlobAtoms)
    BY <2>3, <2>5, ElementOfSeq
  <2>. QED  BY <1>2, <2>1, <2>4, <2>5, <2>6
<1>. QED  BY <1>1, <1>2, <1>3 DEF e, s

\* What is in the concatenations of two sets, and what they contain.
LEMMA ConcatOf ==
  ASSUME NEW A, NEW B, NEW x, x \in {a \o b : a \in A, b \in B}
  PROVE  \E a \in A, b \in B : x = a \o b
BY SMT

LEMMA ConcatIn ==
  ASSUME NEW A, NEW B, NEW a \in A, NEW b \in B
  PROVE  a \o b \in {c \o d : c \in A, d \in B}
BY SMT

LEMMA ChosenStepType ==
  ASSUME NEW p \in Seq(GlobAtoms), NEW f \in [Seq(GlobAtoms) -> SUBSET Seq(FlatAtoms)]
  PROVE  ChosenStep(f, p) \in SUBSET Seq(FlatAtoms)
<1>1. CASE p = << >>
  BY <1>1 DEF ChosenStep
<1>2. CASE p # << >>
  <2>. DEFINE F == Seq(FlatAtoms)
              A == FirstOf(f, p)
              B == f[Tail(p)]
              e == Head(p)
  <2>1. /\ e \in GlobAtoms /\ Tail(p) \in Seq(GlobAtoms)
        /\ e.k = "choice" => \A b \in ToSet(e.branches) : b \in Seq(GlobAtoms)
    BY <1>2, SmallerParts
  <2>2. B \subseteq F
    BY <2>1
  <2>. HIDE DEF e
  <2>3. A \subseteq F
    <3>1. CASE e.k = "choice"
      <4>1. A = UNION {f[b] : b \in ToSet(e.branches)}
        BY <3>1 DEF FirstOf, e
      <4>2. \A b \in ToSet(e.branches) : f[b] \subseteq F
        BY <2>1, <3>1
      <4>. QED  BY <4>1, <4>2
    <3>2. CASE e.k # "choice"
      <4>1. A = {<<e>>}
        BY <3>2 DEF FirstOf, e
      <4>2. e \in FlatAtoms
        BY <2>1, <3>2 DEF FlatAtoms
      <4>. QED  BY <4>1, <4>2
    <3>. QED  BY <3>1, <3>2
  <2>4. ChosenStep(f, p) = {a \o b : a \in A, b \in B}
    BY <1>2 DEF ChosenStep
  <2>. HIDE DEF A, B
  <2>5. ASSUME NEW x \in ChosenStep(f, p) PROVE x \in F
    <3>1. PICK a \in A, b \in B : x = a \o b
      <4>1. x \in {a \o b : a \in A, b \in B}
        BY <2>4
      <4>. QED  BY SMTT(60), <4>1, ConcatOf
    <3>. QED  BY <2>2, <2>3, <3>1, ConcatProperties
  <2>. QED  BY <2>5
<1>. QED  BY <1>1, <1>2

LEMMA ChosenStepLocal ==
  ASSUME NEW p \in Seq(GlobAtoms), NEW f, NEW g, \A r \in Seq(GlobAtoms) : TextSize[r] < TextSize[p] => f[r] = g[r]
  PROVE  ChosenStep(f, p) = ChosenStep(g, p)
<1>1. CASE p = << >>
  BY <1>1 DEF ChosenStep
<1>2. CASE p # << >>
  <2>. DEFINE e == Head(p)
              s == Tail(p)
  <2>1. /\ s \in Seq(GlobAtoms) /\ TextSize[s] < TextSize[p]
        /\ e.k = "choice" => \A b \in ToSet(e.branches) : b \in Seq(GlobAtoms) /\ TextSize[b] < TextSize[p]
    BY <1>2, SmallerParts
  <2>. HIDE DEF e, s
  <2>2. f[s] = g[s]
    BY <2>1
  <2>3. FirstOf(f, p) = FirstOf(g, p)
    <3>1. CASE e.k = "choice"
      <4>1. \A b \in ToSet(e.branches) : f[b] = g[b]
        BY <2>1, <3>1
      <4>2. {f[b] : b \in ToSet(e.branches)} = {g[b] : b \in ToSet(e.branches)}
        BY <4>1
      <4>. QED  BY <4>2 DEF FirstOf, e
    <3>2. CASE e.k # "choice"
      BY <3>2 DEF FirstOf, e
    <3>. QED  BY <3>1, <3>2
  <2>. QED  BY <1>2, <2>2, <2>3 DEF ChosenStep, s
<1>. QED  BY <1>1, <1>2

LEMMA ChosenIs ==
  /\ Chosen \in [Seq(GlobAtoms) -> SUBSET Seq(FlatAtoms)]
  /\ \A q \in Seq(GlobAtoms) : Chosen[q] = ChosenStep(Chosen, q)
<1>. DEFINE D == Seq(GlobAtoms)
            X == SUBSET Seq(FlatAtoms)
            step == [a \in Seq(GlobAtoms) \X [Seq(GlobAtoms) -> X] |-> ChosenStep(a[2], a[1])]
            Solves(f) == f = [q \in Seq(GlobAtoms) |-> ChosenStep(f, q)]
            x == {}
<1>1. Stepping(step, Seq(GlobAtoms), X)
  BY ChosenStepType DEF Stepping
<1>2. ASSUME NEW q \in Seq(GlobAtoms), NEW g \in [Seq(GlobAtoms) -> X], NEW h \in [Seq(GlobAtoms) -> X],
             \A r \in Seq(GlobAtoms) : TextSize[r] < TextSize[q] => g[r] = h[r]
      PROVE  step[<<q, g>>] = step[<<q, h>>]
  BY <1>2, ChosenStepLocal
<1>3. \A q \in Seq(GlobAtoms), f \in [Seq(GlobAtoms) -> X] : step[<<q, f>>] = ChosenStep(f, q)
  OBVIOUS
<1>4. x \in X /\ Sized(TextSize, D) /\ TextSize \in [D -> Nat]
  BY TextSizes DEF Maps
<1>. HIDE DEF step, x, X
<1>5. PICK f \in [Seq(GlobAtoms) -> X] : \A q \in Seq(GlobAtoms) : f[q] = step[<<q, f>>]
  <2>1. Local(step, Seq(GlobAtoms), X, TextSize)
    BY <1>2 DEF Local
  <2>2. \E f : Solution(f, step, Seq(GlobAtoms), X)
    BY <1>1, <1>4, <2>1, SolutionExists
  <2>. QED  BY <2>2 DEF Solution
<1>6. Solves(f)
  <2>1. f = [q \in Seq(GlobAtoms) |-> f[q]] /\ \A q \in Seq(GlobAtoms) : f[q] = ChosenStep(f, q)
    BY <1>3, <1>5
  <2>. QED  BY <2>1, ZenonT(30)
<1>7. Chosen = CHOOSE g : Solves(g)
  BY DEF Chosen, ChosenStep, FirstOf
<1>8. Solves(Chosen)
  <2>. HIDE DEF Solves
  <2>. QED  BY <1>6, <1>7
<1>9. \A q \in Seq(GlobAtoms) : Chosen[q] = ChosenStep(Chosen, q)
  BY <1>8, ZenonT(30)
<1>. DEFINE T == {q \in Seq(GlobAtoms) : Chosen[q] = f[q]}
<1>10. ASSUME NEW q \in Seq(GlobAtoms), \A r \in Seq(GlobAtoms) : TextSize[r] < TextSize[q] => r \in T PROVE q \in T
  <2>1. ChosenStep(Chosen, q) = ChosenStep(f, q)
    <3>1. \A r \in Seq(GlobAtoms) : TextSize[r] < TextSize[q] => Chosen[r] = f[r]
      BY <1>10
    <3>. QED  BY <3>1, ChosenStepLocal
  <2>. QED  BY <1>3, <1>5, <1>9, <2>1
<1>11. Seq(GlobAtoms) \subseteq T
  <2>1. \A q \in D : (\A r \in D : TextSize[r] < TextSize[q] => r \in T) => q \in T
    BY <1>10
  <2>. HIDE DEF T, D
  <2>2. D \subseteq T
    BY <1>4, <2>1, SizeInduction
  <2>. QED  BY <2>2 DEF D
<1>12. Chosen = f
  <2>1. Chosen = [q \in Seq(GlobAtoms) |-> Chosen[q]]
    BY <1>8, ZenonT(30)
  <2>2. \A q \in Seq(GlobAtoms) : Chosen[q] = f[q]
    BY <1>11
  <2>. QED  BY <1>5, <2>1, <2>2
<1>. QED  BY <1>5, <1>9, <1>12 DEF X

-----------------------------------------------------------------------------
(* Where Expand finds the first group.                                     *)

LEMMA OutsideIs == Outside \in States /\ ~Outside.escape /\ Outside.depth = 0 /\ Outside = At(0)
BY DEF Outside, States, At

\* A group of text J with u before it and v after it, as Expand goes over it.
Braced(J) == <<"{">> \o (J \o <<"}">>)

Passed(u, J, v, p) ==
  LET g == Nesting(Outside, p)
      n == Len(u)
      l == Len(J)
      h == Nesting(At(1), J)
  IN  /\ n \in Nat /\ l \in Nat /\ Len(v) \in Nat /\ Len(p) = n + 1 + l + 1 + Len(v) /\ DOMAIN p = 1..Len(p)
      /\ \A i \in 1..n : p[i] = u[i]
      /\ \A i \in 1..n : p[i] = "{" => g[i - 1].escape
      /\ p[n + 1] = "{" /\ ~g[n].escape
      /\ \A i \in 1..l : p[n + 1 + i] = J[i]
      /\ \A i \in 0..l : g[n + 1 + i] = h[i] /\ h[i].depth > 0
      /\ g[n + 1 + l + 1].depth = 0
      /\ \A i \in 1..Len(v) : p[n + 1 + l + 1 + i] = v[i]

BracedFacts(u, J, v) ==
  /\ u \o (Braced(J) \o v) \in Texts /\ Braced(J) \in Texts /\ <<"}">> \o v \in Texts
  /\ J \o (<<"}">> \o v) \in Texts /\ <<"{">> \o (J \o (<<"}">> \o v)) \in Texts
  /\ u \o (Braced(J) \o v) = u \o (<<"{">> \o (J \o (<<"}">> \o v)))

LEMMA BracedSplit == \A u, J, v \in Texts : BracedFacts(u, J, v)
<1>. SUFFICES ASSUME NEW u \in Texts, NEW J \in Texts, NEW v \in Texts PROVE BracedFacts(u, J, v)
  OBVIOUS
<1>. DEFINE o == <<"{">>
            c == <<"}">>
            m == J \o c
            w == c \o v
<1>1. o \in Texts /\ c \in Texts
  BY CommaText
<1>. HIDE DEF o, c
<1>2. m \in Texts /\ w \in Texts /\ m \o v = J \o w
  <2>1. J \o c \in Texts /\ c \o v \in Texts
    <3>1. JoinsText(J, c) /\ JoinsText(c, v)
      BY <1>1, TextsJoin
    <3>. QED  BY <3>1 DEF JoinsText
  <2>2. (J \o c) \o v = J \o (c \o v)
    <3>1. Associates(J, c, v)
      BY <1>1, TextsAssociates
    <3>. QED  BY <3>1 DEF Associates
  <2>. QED  BY <2>1, <2>2
<1>. HIDE DEF m, w
<1>3. J \o w \in Texts /\ o \o m \in Texts /\ (o \o m) \o v = o \o (m \o v) /\ m \o v \in Texts
  <2>1. J \o w \in Texts /\ m \o v \in Texts
    <3>1. JoinsText(J, w) /\ JoinsText(m, v)
      BY <1>2, TextsJoin
    <3>. QED  BY <3>1 DEF JoinsText
  <2>2. o \o m \in Texts
    <3>1. JoinsText(o, m)
      BY <1>1, <1>2, TextsJoin
    <3>. QED  BY <3>1 DEF JoinsText
  <2>3. (o \o m) \o v = o \o (m \o v)
    <3>1. o \in Texts /\ m \in Texts
      BY <1>1, <1>2
    <3>2. Associates(o, m, v)
      BY <3>1, TextsAssociates
    <3>. QED  BY <3>2 DEF Associates
  <2>. QED  BY <2>1, <2>2, <2>3
<1>4. o \o (J \o w) \in Texts
  <2>. DEFINE x == J \o w
  <2>1. x \in Texts /\ o \in Texts
    BY <1>1, <1>3
  <2>. HIDE DEF x
  <2>2. JoinsText(o, x)
    BY <2>1, TextsJoin
  <2>. QED  BY <2>2 DEF JoinsText, x
<1>5. u \o (o \o (J \o w)) \in Texts
  <2>. DEFINE x == o \o (J \o w)
  <2>1. x \in Texts
    BY <1>4
  <2>. HIDE DEF x
  <2>2. JoinsText(u, x)
    BY <2>1, TextsJoin
  <2>. QED  BY <2>2 DEF JoinsText, x
<1>. QED  BY <1>2, <1>3, <1>4, <1>5 DEF BracedFacts, Braced, o, c, m, w

LEMMA GroupPassed ==
  ASSUME NEW u \in Texts, Neutral(u), NEW J \in Texts, Ringed(J), NEW v \in Texts
  PROVE  Passed(u, J, v, u \o (Braced(J) \o v))
<1>. DEFINE b == "{"
            e == "}"
            y == J \o (<<e>> \o v)
            x == <<b>> \o y
            p == u \o x
            r == Outside
            m == At(1)
            n == Len(u)
            l == Len(J)
            k == n + 1
            j == k + l
            g == Nesting(r, p)
            h == Nesting(m, J)
<1>1. p = u \o (Braced(J) \o v) /\ y \in Texts /\ x \in Texts /\ p \in Texts /\ b \in Symbols /\ e \in Symbols
  <2>1. b \in Symbols /\ e \in Symbols
    BY CommaText
  <2>2. BracedFacts(u, J, v)
    BY BracedSplit
  <2>3. y \in Texts /\ x \in Texts /\ u \o (Braced(J) \o v) \in Texts /\ p = u \o (Braced(J) \o v)
    BY <2>2 DEF BracedFacts
  <2>. HIDE DEF p, y, x, b, e
  <2>. QED  BY <2>1, <2>3
<1>b. /\ u \in Seq(Symbols) /\ J \in Seq(Symbols) /\ v \in Seq(Symbols) /\ y \in Seq(Symbols)
      /\ b \in Symbols /\ e \in Symbols
  BY <1>1 DEF Texts
<1>2. /\ n \in Nat /\ Len(y) \in Nat /\ Len(p) = n + 1 + Len(y) /\ DOMAIN p = 1..Len(p) /\ p[k] = b
      /\ \A i \in 1..n : p[i] = u[i]
      /\ \A i \in 1..Len(y) : p[n + 1 + i] = y[i]
  <2>1. u \in Seq(Symbols) /\ y \in Seq(Symbols) /\ b \in Symbols
    BY <1>b
  <2>. HIDE DEF y, b, k, j, l, r, m, g, h
  <2>2. LET f == u \o (<<b>> \o y)
        IN  /\ f \in Seq(Symbols) /\ Len(u) \in Nat /\ Len(y) \in Nat /\ Len(f) = Len(u) + 1 + Len(y)
            /\ DOMAIN f = 1..Len(f) /\ f[Len(u) + 1] = b
            /\ \A i \in 1..Len(u) : f[i] = u[i]
            /\ \A i \in 1..Len(y) : f[Len(u) + 1 + i] = y[i]
    BY <2>1, Middle
  <2>3. p = u \o (<<b>> \o y)
    OBVIOUS
  <2>. HIDE DEF p
  <2>. QED  BY <2>2, <2>3 DEF k
<1>3. /\ l \in Nat /\ Len(v) \in Nat /\ Len(y) = l + 1 + Len(v) /\ y[l + 1] = e
      /\ \A i \in 1..l : y[i] = J[i]
      /\ \A i \in 1..Len(v) : y[l + 1 + i] = v[i]
  <2>1. J \in Seq(Symbols) /\ v \in Seq(Symbols) /\ e \in Symbols
    BY <1>b
  <2>. HIDE DEF e, p, x, k, j, r, m, g, h, n
  <2>2. LET f == J \o (<<e>> \o v)
        IN  /\ f \in Seq(Symbols) /\ Len(J) \in Nat /\ Len(v) \in Nat /\ Len(f) = Len(J) + 1 + Len(v)
            /\ DOMAIN f = 1..Len(f) /\ f[Len(J) + 1] = e
            /\ \A i \in 1..Len(J) : f[i] = J[i]
            /\ \A i \in 1..Len(v) : f[Len(J) + 1 + i] = v[i]
    BY <2>1, Middle
  <2>3. y = J \o (<<e>> \o v)
    OBVIOUS
  <2>. HIDE DEF y
  <2>. QED  BY <2>2, <2>3
<1>4. r \in States /\ ~r.escape /\ r.depth = 0 /\ m \in States /\ ~m.escape /\ m.depth = 1 /\ r = At(0)
  BY OutsideIs, AtStates
<1>5. Enter(r, b) = m /\ Enter(m, e) = r
  <2>1. r.depth + 1 = 1 /\ m.depth # 0 /\ m.depth - 1 = 0
    BY <1>4
  <2>2. Enter(r, b) = At(r.depth + 1)
    BY <1>4, EnterIs
  <2>3. Enter(m, e) = At(IF m.depth = 0 THEN 0 ELSE m.depth - 1)
    <3>. HIDE DEF m
    <3>. QED  BY <1>4, EnterIs
  <2>4. Enter(m, e) = At(0)
    BY <2>1, <2>3
  <2>. QED  BY <1>4, <2>1, <2>2, <2>4
<1>6. Run(r, u, r, CalmAt(0))
  BY <1>4 DEF Neutral
<1>7. Run(m, J, m, RingAt(1))
  BY DEF Ringed
<1>8. Nests(g, r, p) /\ Nests(h, m, J)
  <2>. HIDE DEF p, m, r
  <2>. QED  BY <1>1, <1>4, NestingIs
<1>9. \A i \in 0..n : g[i] = Nesting(r, u)[i]
  <2>1. Carries(r, u, x)
    <3>. HIDE DEF x, r
    <3>. QED  BY <1>1, <1>4, NestingConcat
  <2>. QED  BY <2>1 DEF Carries
<1>a. n \in 0..n /\ k \in 0..Len(p) /\ k # 0 /\ k - 1 = n /\ n + 1 + (l + 1) = j + 1 /\ l \in 0..l
      /\ j + 1 \in 0..Len(p) /\ j + 1 # 0 /\ (j + 1) - 1 = j /\ l + 1 \in 1..Len(y) /\ Len(p) = n + 1 + l + 1 + Len(v)
      /\ k \in Nat /\ k + l <= Len(p)
  <2>1. n \in Nat /\ l \in Nat /\ Len(v) \in Nat /\ Len(p) = n + 1 + Len(y) /\ Len(y) = l + 1 + Len(v)
    BY <1>2, <1>3
  <2>. HIDE DEF p, y, n, l
  <2>. QED  BY <2>1
<1>. HIDE DEF p, x, y, r, m, g, h, b, e
<1>10. g[n] = r /\ \A i \in 1..n : u[i] = b => g[i - 1].escape
  <2>1. Nesting(r, u)[n] = r /\ \A i \in 1..n : <<u[i], Nesting(r, u)[i - 1], Nesting(r, u)[i]>> \in CalmAt(0)
    BY <1>6 DEF Run
  <2>2. g[n] = r
    BY <1>9, <1>a, <2>1
  <2>3. ASSUME NEW i \in 1..n, u[i] = b PROVE g[i - 1].escape
    <3>1. i - 1 \in 0..n
      BY <1>2
    <3>2. g[i - 1] = Nesting(r, u)[i - 1]
      BY <1>9, <3>1
    <3>3. <<u[i], g[i - 1], Nesting(r, u)[i]>> \in CalmAt(0)
      BY <2>1, <3>2
    <3>. HIDE DEF n
    <3>. QED  BY <2>3, <3>3 DEF CalmAt, b
  <2>. QED  BY <2>2, <2>3
<1>11. g[k] = m
  <2>1. g[k] = Enter(g[k - 1], p[k])
    BY <1>8, <1>a DEF Nests
  <2>. QED  BY <1>2, <1>5, <1>10, <1>a, <2>1
<1>12. \A i \in 1..l : p[k + i] = J[i]
  <2>. SUFFICES ASSUME NEW i \in 1..l PROVE p[k + i] = J[i]
    OBVIOUS
  <2>1. i \in 1..Len(y)
    BY <1>3
  <2>. QED  BY <1>2, <1>3, <2>1
<1>13. \A i \in 0..l : g[k + i] = h[i]
  <2>1. PartOf(J, p, k)
    BY <1>12, <1>a DEF PartOf
  <2>2. Nests(g, r, p) /\ Nests(h, m, J) /\ p \in Texts /\ g[k] = m
    BY <1>1, <1>8, <1>11
  <2>. HIDE DEF k
  <2>3. \A i \in 0..Len(J) : g[k + i] = h[i]
    BY <2>1, <2>2, NestingWithin
  <2>. QED  BY <2>3
<1>14. h[l] = m /\ \A i \in 0..l : h[i].depth > 0
  <2>1. h[l] = m /\ \A i \in 1..l : <<J[i], h[i - 1], h[i]>> \in RingAt(1)
    BY <1>7 DEF Run, h
  <2>2. h[0] = m
    <3>1. 0 \in 0..l
      BY <1>3
    <3>. QED  BY <1>8, <3>1 DEF Nests
  <2>3. ASSUME NEW i \in 0..l PROVE h[i].depth > 0
    <3>1. CASE i = 0
      BY <1>4, <2>2, <3>1
    <3>2. CASE i # 0
      <4>1. i \in 1..l
        BY <1>3, <3>2
      <4>2. <<J[i], h[i - 1], h[i]>> \in RingAt(1)
        BY <2>1, <4>1
      <4>3. h[i].depth >= 1 /\ h[i].depth \in Nat
        BY <4>2 DEF RingAt, Steps, States
      <4>. QED  BY <4>3
    <3>. QED  BY <3>1, <3>2
  <2>. QED  BY <2>1, <2>3
<1>15. g[j + 1].depth = 0
  <2>1. g[j + 1] = Enter(g[(j + 1) - 1], p[j + 1])
    BY <1>8, <1>a DEF Nests
  <2>2. g[j] = m
    BY <1>13, <1>14, <1>a
  <2>3. p[j + 1] = e
    <3>1. p[n + 1 + (l + 1)] = e
      BY <1>2, <1>3, <1>a
    <3>. QED  BY <1>a, <3>1
  <2>. QED  BY <1>4, <1>5, <1>a, <2>1, <2>2, <2>3
<1>16. Passed(u, J, v, p)
  <2>1. \A i \in 1..n : p[i] = b => g[i - 1].escape
    BY <1>2, <1>10
  <2>2. \A i \in 1..Len(v) : p[n + 1 + l + 1 + i] = v[i]
    <3>. SUFFICES ASSUME NEW i \in 1..Len(v) PROVE p[n + 1 + l + 1 + i] = v[i]
      OBVIOUS
    <3>1. l + 1 + i \in 1..Len(y) /\ n + 1 + (l + 1 + i) = n + 1 + l + 1 + i
      BY <1>2, <1>3
    <3>2. p[n + 1 + (l + 1 + i)] = y[l + 1 + i] /\ y[l + 1 + i] = v[i]
      BY <1>2, <1>3, <3>1
    <3>. QED  BY <3>1, <3>2
  <2>. QED  BY <1>2, <1>3, <1>4, <1>10, <1>12, <1>13, <1>14, <1>15, <1>a, <2>1, <2>2 DEF Passed, g, h, r, m, b
<1>. QED  BY <1>1, <1>16

\* What Expand makes of the first group.
Cut(u, J, v, p) ==
  /\ OpensOf(p) # {} /\ EndsOf(p) # {}
  /\ SubSeq(p, 1, OpenOf(p) - 1) = u /\ Drop(p, EndOf(p)) = v
  /\ GroupIn(p) = J /\ CommasOf(p) = TopCommas(J)

LEMMA SamePiece ==
  ASSUME NEW S, NEW s \in Seq(S), NEW p \in Seq(S), NEW a \in Nat, NEW b \in Nat, b = a + Len(s), b <= Len(p),
         \A i \in 1..Len(s) : p[a + i] = s[i]
  PROVE  SubSeq(p, a + 1, b) = s
<1>. DEFINE q == SubSeq(p, a + 1, b)
<1>1. Len(s) \in Nat
  BY LenProperties
<1>2. a <= b /\ b - a = Len(s)
  BY <1>1
<1>3. q \in Seq(S) /\ Len(q) = Len(s) /\ \A i \in 1..Len(s) : q[i] = p[a + i]
  BY <1>2, PieceIs
<1>. HIDE DEF q
<1>4. q = s
  BY <1>3, SeqEqual
<1>. QED  BY <1>4 DEF q

LEMMA GroupCut ==
  ASSUME NEW u \in Texts, NEW J \in Texts, NEW v \in Texts, NEW p \in Texts, Passed(u, J, v, p)
  PROVE  Cut(u, J, v, p)
<1>. DEFINE g == Nesting(Outside, p)
            h == Nesting(At(1), J)
            n == Len(u)
            l == Len(J)
            k == n + 1
            e == k + l + 1
            b == "{"
            y == Len(v)
            x == Len(p)
            O == OpensOf(p)
            E == EndsOf(p)
<1>1. /\ n \in Nat /\ l \in Nat /\ Len(v) \in Nat /\ Len(p) = e + Len(v) /\ DOMAIN p = 1..Len(p)
      /\ \A i \in 1..n : p[i] = b => g[i - 1].escape
      /\ p[k] = b /\ ~g[n].escape
      /\ \A i \in 1..l : p[k + i] = J[i]
      /\ \A i \in 0..l : g[k + i] = h[i] /\ h[i].depth > 0
      /\ g[e].depth = 0
      /\ \A i \in 1..Len(v) : p[e + i] = v[i]
  BY DEF Passed
<1>13. n \in Nat /\ l \in Nat /\ y \in Nat /\ x = e + y
  BY <1>1
<1>14. \A i \in 1..n : p[i] = u[i]
  BY DEF Passed
<1>2. \A i : i \in O <=> i \in 1..Len(p) /\ p[i] = b /\ ~g[i - 1].escape
  BY <1>1 DEF OpensOf
<1>3. \A i : i \in E <=> i \in 1..Len(p) /\ i > OpenOf(p) /\ g[i].depth = 0
  BY <1>1 DEF EndsOf
<1>4. /\ k \in 1..Len(p) /\ k - 1 = n /\ e \in 1..Len(p) /\ e > k /\ k \in Nat /\ e \in Nat /\ k + l = e - 1 /\ Len(p) \in Nat
      /\ k + l \in Nat /\ e + Len(v) = Len(p)
  <2>. HIDE DEF n, l, y, x
  <2>1. k \in 1..x /\ k - 1 = n /\ e \in 1..x /\ e > k /\ k \in Nat /\ e \in Nat /\ k + l = e - 1 /\ x \in Nat
        /\ k + l \in Nat /\ e + y = x
    BY <1>13
  <2>. QED  BY <2>1 DEF x, y
<1>5. SubSeq(p, 1, n) = u /\ SubSeq(p, k + 1, k + l) = J /\ Drop(p, e) = v
  <2>. DEFINE z == 0
              m == Len(p)
              w == k + l
  <2>1. z \in Nat /\ n = z + Len(u) /\ n <= m /\ z + 1 = 1 /\ n \in Nat /\ \A i \in 1..Len(u) : z + i = i
    <3>1. n <= m
      <4>. HIDE DEF n, l, x, y
      <4>1. n <= x
        BY <1>13
      <4>. QED  BY <4>1 DEF x
    <3>2. n \in Nat
      BY <1>13
    <3>. QED  BY <3>1, <3>2
  <2>2. \A i \in 1..Len(u) : p[i] = u[i]
    BY <1>14
  <2>3. k \in Nat /\ w \in Nat /\ w = k + Len(J) /\ w <= m /\ e \in Nat /\ m \in Nat /\ m = e + Len(v)
    <3>. HIDE DEF n, l, x, y
    <3>1. k \in Nat /\ w \in Nat /\ w = k + l /\ w <= x /\ e \in Nat /\ x \in Nat /\ x = e + y
      BY <1>13
    <3>. QED  BY <3>1 DEF x, y, l
  <2>4. \A i \in 1..Len(J) : p[k + i] = J[i]
    BY <1>1
  <2>5. \A i \in 1..Len(v) : p[e + i] = v[i]
    BY <1>1
  <2>6. u \in Seq(Symbols) /\ J \in Seq(Symbols) /\ v \in Seq(Symbols) /\ p \in Seq(Symbols)
    BY DEF Texts
  <2>. HIDE DEF z, n, k, w, e
  <2>7. SubSeq(p, z + 1, n) = u
    <3>1. \A i \in 1..Len(u) : p[z + i] = u[i]
      BY <2>1, <2>2
    <3>2. n <= Len(p)
      BY <2>1
    <3>. QED  BY <2>1, <2>6, <3>1, <3>2, SamePiece
  <2>8. SubSeq(p, k + 1, w) = J
    <3>1. w <= Len(p)
      BY <2>3
    <3>. QED  BY <2>3, <2>4, <2>6, <3>1, SamePiece
  <2>9. SubSeq(p, e + 1, m) = v
    <3>1. m <= Len(p)
      BY LenProperties
    <3>. HIDE DEF m
    <3>. QED  BY <2>3, <2>5, <2>6, <3>1, SamePiece
  <2>. QED  BY <2>1, <2>7, <2>8, <2>9 DEF Drop, w
<1>. HIDE DEF O, E, g, h
<1>6. OpenOf(p) = k /\ k \in O
  <2>1. k \in O
    BY <1>1, <1>2, <1>4
  <2>2. ASSUME NEW i \in O PROVE k <= i
    <3>1. i \in 1..Len(p) /\ p[i] = b /\ ~g[i - 1].escape
      BY <1>2
    <3>2. i \notin 1..n
      BY <1>1, <3>1
    <3>. HIDE DEF n, l, x, y
    <3>3. i \in 1..x
      BY <3>1 DEF x
    <3>. QED  BY <1>13, <3>2, <3>3
  <2>3. O \subseteq Nat
    <3>1. \A i \in 1..Len(p) : i \in Nat
      OBVIOUS
    <3>. QED  BY <1>2, <3>1
  <2>. HIDE DEF k
  <2>4. Least(O) = k
    BY <2>1, <2>2, <2>3, LeastIs
  <2>. QED  BY <2>1, <2>4 DEF OpenOf, O
<1>7. EndOf(p) = e /\ e \in E
  <2>1. e \in E
    BY <1>1, <1>3, <1>4, <1>6
  <2>2. ASSUME NEW i \in E PROVE e <= i
    <3>1. i \in 1..Len(p) /\ i > k /\ g[i].depth = 0
      BY <1>3, <1>6
    <3>2. ASSUME i < e PROVE FALSE
      <4>1. i - k \in 0..l /\ k + (i - k) = i
        <5>. HIDE DEF n, l, x, y
        <5>1. i \in 1..x
          BY <3>1 DEF x
        <5>. QED  BY <1>13, <3>1, <3>2, <5>1
      <4>2. g[i] = h[i - k] /\ h[i - k].depth > 0
        BY <1>1, <4>1
      <4>3. ~(0 > 0)
        OBVIOUS
      <4>4. g[i].depth > 0
        BY <4>2
      <4>. DEFINE z == g[i].depth
      <4>5. z = 0 /\ z > 0
        BY <3>1, <4>4
      <4>. HIDE DEF z
      <4>. QED  BY <4>3, <4>5
    <3>3. i \in Nat /\ e \in Nat
      BY <1>4, <3>1
    <3>. HIDE DEF e
    <3>. QED  BY <3>2, <3>3
  <2>3. E \subseteq Nat
    BY <1>3, <1>4
  <2>. HIDE DEF e
  <2>4. Least(E) = e
    BY <2>1, <2>2, <2>3, LeastIs
  <2>. QED  BY <2>1, <2>4 DEF EndOf, E
<1>8. OpensOf(p) # {} /\ EndsOf(p) # {}
  BY <1>6, <1>7 DEF O, E
<1>9. k - 1 = n /\ e - 1 = k + l
  BY <1>4
<1>10. GroupIn(p) = J
  BY <1>5, <1>6, <1>7, <1>9 DEF GroupIn
<1>11. CommasOf(p) = TopCommas(J)
  <2>1. DOMAIN J = 1..l
    BY LenProperties DEF Texts
  <2>2. \A i : i \in CommasOf(p) <=> i \in 1..l /\ J[i] = "," /\ ~g[k + i - 1].escape /\ g[k + i].depth = 1
    BY <1>6, <1>10, <2>1 DEF CommasOf, g
  <2>3. \A i : i \in TopCommas(J) <=> i \in 1..l /\ J[i] = "," /\ ~h[i - 1].escape /\ h[i].depth = 1
    BY <2>1 DEF TopCommas, h
  <2>4. ASSUME NEW i \in 1..l PROVE g[k + i - 1] = h[i - 1] /\ g[k + i] = h[i]
    <3>1. i \in 0..l /\ i - 1 \in 0..l /\ k + i - 1 = k + (i - 1)
      <4>. HIDE DEF n, l
      <4>. QED  BY <1>13
    <3>2. g[k + (i - 1)] = h[i - 1] /\ g[k + i] = h[i]
      BY <1>1, <3>1
    <3>. QED  BY <3>1, <3>2
  <2>5. ASSUME NEW i PROVE i \in CommasOf(p) <=> i \in TopCommas(J)
    <3>1. CASE i \in 1..l
      <4>1. g[k + i - 1] = h[i - 1] /\ g[k + i] = h[i]
        BY <2>4, <3>1
      <4>. HIDE DEF k, l
      <4>. QED  BY <2>2, <2>3, <4>1
    <3>2. CASE i \notin 1..l
      BY <2>2, <2>3, <3>2
    <3>. QED  BY <3>1, <3>2
  <2>. QED  BY <2>5
<1>12. SubSeq(p, 1, OpenOf(p) - 1) = u /\ Drop(p, EndOf(p)) = v
  BY <1>5, <1>6, <1>7, <1>9
<1>. QED  BY <1>8, <1>10, <1>11, <1>12 DEF Cut

-----------------------------------------------------------------------------
(* What is chosen from a pattern, part by part.                            *)

After(P, a, Q) == \A x : x \in P <=> \E y \in Q : x = a \o y

LEMMA ChosenNone == Chosen[<< >>] = {<< >>}
<1>. DEFINE z == << >>
<1>1. z \in Seq(GlobAtoms)
  OBVIOUS
<1>2. Chosen[z] = ChosenStep(Chosen, z)
  <2>. HIDE DEF z
  <2>. QED  BY <1>1, ChosenIs
<1>. QED  BY <1>2 DEF ChosenStep

LEMMA ConsParts ==
  ASSUME NEW S, NEW a \in S, NEW s \in Seq(S)
  PROVE  LET g == <<a>> \o s
         IN  g \in Seq(S) /\ g # << >> /\ Head(g) = a /\ Tail(g) = s
<1>. DEFINE g == <<a>> \o s
            n == 1
<1>1. g \in Seq(S) /\ g[n] = a /\ Len(s) \in Nat /\ Len(g) = n + Len(s) /\ \A i \in 1..Len(s) : g[n + i] = s[i]
  BY ConsFacts
<1>. HIDE DEF g
<1>2. g # << >>
  BY <1>1
<1>3. Head(g) = a /\ Tail(g) \in Seq(S) /\ Len(Tail(g)) = Len(s)
  BY <1>1, <1>2, HeadAndTail
<1>4. Tail(g) = s
  <2>1. \A i \in 1..Len(s) : Tail(g)[i] = s[i]
    BY <1>1, <1>2, <1>3, HeadTailProperties
  <2>. QED  BY <1>3, <2>1, SeqEqual
<1>. QED  BY <1>1, <1>2, <1>3, <1>4 DEF g

LEMMA ChosenFlat == \A a \in FlatAtoms, s \in Seq(GlobAtoms) : After(Chosen[<<a>> \o s], <<a>>, Chosen[s])
<1>. SUFFICES ASSUME NEW a \in FlatAtoms, NEW s \in Seq(GlobAtoms)
              PROVE  After(Chosen[<<a>> \o s], <<a>>, Chosen[s])
  OBVIOUS
<1>. DEFINE g == <<a>> \o s
            o == <<a>>
            B == Chosen[Tail(g)]
            A == FirstOf(Chosen, g)
<1>1. a \in GlobAtoms /\ a.k # "choice"
  BY DEF FlatAtoms
<1>2. g \in Seq(GlobAtoms) /\ g # << >> /\ Head(g) = a /\ Tail(g) = s
  BY <1>1, ConsParts
<1>. HIDE DEF g
<1>3. A = {o} /\ B = Chosen[s]
  BY <1>1, <1>2 DEF FirstOf
<1>4. Chosen[g] = {c \o d : c \in A, d \in B}
  <2>1. Chosen[g] = ChosenStep(Chosen, g)
    BY <1>2, ChosenIs
  <2>. QED  BY <1>2, <2>1 DEF ChosenStep
<1>. HIDE DEF A, B, o
<1>5. ASSUME NEW x \in Chosen[g] PROVE \E y \in B : x = o \o y
  <2>1. x \in {c \o d : c \in A, d \in B}
    BY <1>4
  <2>2. \E c \in A, d \in B : x = c \o d
    BY SMTT(60), <2>1, ConcatOf
  <2>. QED  BY <1>3, <2>2
<1>6. ASSUME NEW y \in B PROVE o \o y \in Chosen[g]
  <2>1. o \in A
    BY <1>3
  <2>2. o \o y \in {c \o d : c \in A, d \in B}
    BY <2>1, ConcatIn
  <2>. QED  BY SMTT(60), <1>4, <2>2
<1>. QED  BY <1>3, <1>5, <1>6 DEF After, g, o

\* What is chosen after a choice: one of its branches, as chosen, and the rest.
OneOf(P, bs, Q) == \A x : x \in P <=> \E i \in 1..Len(bs) : \E a \in Chosen[bs[i]], y \in Q : x = a \o y

LEMMA ChosenChoice == \A c \in ChoiceAtoms, s \in Seq(GlobAtoms) : OneOf(Chosen[<<c>> \o s], c.branches, Chosen[s])
<1>. SUFFICES ASSUME NEW c \in ChoiceAtoms, NEW s \in Seq(GlobAtoms)
              PROVE  OneOf(Chosen[<<c>> \o s], c.branches, Chosen[s])
  OBVIOUS
<1>. DEFINE g == <<c>> \o s
            bs == c.branches
            B == Chosen[Tail(g)]
            A == FirstOf(Chosen, g)
<1>1. c \in GlobAtoms /\ c.k = "choice"
  BY DEF ChoiceAtoms
<1>2. g \in Seq(GlobAtoms) /\ g # << >> /\ Head(g) = c /\ Tail(g) = s
  BY <1>1, ConsParts
<1>. HIDE DEF g
<1>3. A = UNION {Chosen[b] : b \in ToSet(bs)} /\ B = Chosen[s]
  BY <1>1, <1>2 DEF FirstOf
<1>4. Chosen[g] = {d \o e : d \in A, e \in B}
  <2>1. Chosen[g] = ChosenStep(Chosen, g)
    BY <1>2, ChosenIs
  <2>. QED  BY <1>2, <2>1 DEF ChosenStep
<1>a. bs \in Seq(Seq(GlobAtoms))
  <2>1. ChoiceText(c)
    BY ChoiceTextIs
  <2>. QED  BY <2>1 DEF ChoiceText
<1>. HIDE DEF bs
<1>b. ToSet(bs) = {bs[i] : i \in 1..Len(bs)}
  BY <1>a, LenProperties DEF ToSet
<1>5. \A d : d \in A <=> \E i \in 1..Len(bs) : d \in Chosen[bs[i]]
  BY <1>3, <1>b
<1>. HIDE DEF A, B
<1>6. ASSUME NEW x \in Chosen[g] PROVE \E i \in 1..Len(bs) : \E a \in Chosen[bs[i]], y \in B : x = a \o y
  <2>1. x \in {d \o e : d \in A, e \in B}
    BY <1>4
  <2>2. PICK d \in A, e \in B : x = d \o e
    BY SMTT(60), <2>1, ConcatOf
  <2>. QED  BY <1>5, <2>2
<1>7. ASSUME NEW i \in 1..Len(bs), NEW a \in Chosen[bs[i]], NEW y \in B PROVE a \o y \in Chosen[g]
  <2>1. a \in A
    BY <1>5
  <2>. DEFINE w == a \o y
              P == {d \o e : d \in A, e \in B}
  <2>3. w \in P
    BY SMTT(60), <2>1, ConcatIn
  <2>5. Chosen[g] = P
    BY <1>4
  <2>. HIDE DEF w, P
  <2>4. w \in Chosen[g]
    BY <2>3, <2>5
  <2>. QED  BY <2>4 DEF w
<1>8. \A x : x \in Chosen[g] <=> \E i \in 1..Len(bs) : \E a \in Chosen[bs[i]], y \in B : x = a \o y
  <2>. HIDE DEF B
  <2>. QED  BY <1>6, <1>7
<1>9. OneOf(Chosen[g], bs, B)
  <2>. HIDE DEF B
  <2>. QED  BY <1>8 DEF OneOf
<1>. QED  BY <1>9, <1>3 DEF g, bs

\* What is chosen has the atoms that are not choices, as they stand.
LEMMA ChosenFlats ==
  ASSUME NEW s \in Seq(GlobAtoms)
  PROVE  \A f \in Seq(FlatAtoms) : After(Chosen[f \o s], f, Chosen[s])
<1>. DEFINE T == {f \in Seq(FlatAtoms) : After(Chosen[f \o s], f, Chosen[s])}
            B == Chosen[s]
            z == << >>
<1>0. B \subseteq Seq(FlatAtoms) /\ FlatAtoms \subseteq GlobAtoms /\ Seq(FlatAtoms) \subseteq Seq(GlobAtoms)
  <2>1. FlatAtoms \subseteq GlobAtoms
    BY DEF FlatAtoms
  <2>. QED  BY <2>1, ChosenIs
<1>1. z \in T
  <2>1. z \o s = s /\ \A y \in B : z \o y = y
    BY <1>0, ConcatEmptySeq
  <2>2. z \in Seq(FlatAtoms)
    OBVIOUS
  <2>. HIDE DEF z, B
  <2>3. After(B, z, B)
    BY <2>1 DEF After
  <2>. QED  BY <2>1, <2>2, <2>3 DEF B
<1>2. ASSUME NEW f \in Seq(FlatAtoms), NEW e \in FlatAtoms, f \in T PROVE <<e>> \o f \in T
  <2>. DEFINE o == <<e>>
              r == f \o s
  <2>1. r \in Seq(GlobAtoms) /\ f \in Seq(GlobAtoms) /\ o \in Seq(FlatAtoms) /\ o \in Seq(GlobAtoms)
    BY <1>0, ConcatProperties
  <2>2. After(Chosen[o \o r], o, Chosen[r])
    BY <2>1, ChosenFlat
  <2>3. After(Chosen[r], f, B)
    BY <1>2
  <2>. HIDE DEF o
  <2>4. (o \o f) \o s = o \o r /\ \A y \in B : (o \o f) \o y = o \o (f \o y)
    <3>1. Associates(o, f, s) /\ \A y \in B : Associates(o, f, y)
      BY <1>0, <2>1, ConcatAssociates
    <3>. QED  BY <3>1 DEF Associates
  <2>5. o \o f \in Seq(FlatAtoms)
    BY <2>1, ConcatProperties
  <2>. HIDE DEF r, B
  <2>6. After(Chosen[o \o r], o \o f, B)
    <3>1. ASSUME NEW x \in Chosen[o \o r] PROVE \E y \in B : x = (o \o f) \o y
      <4>1. PICK q \in Chosen[r] : x = o \o q
        BY <2>2 DEF After
      <4>2. PICK y \in B : q = f \o y
        BY <2>3 DEF After
      <4>. QED  BY <2>4, <4>1, <4>2
    <3>2. ASSUME NEW y \in B PROVE (o \o f) \o y \in Chosen[o \o r]
      <4>1. f \o y \in Chosen[r]
        BY <2>3 DEF After
      <4>2. o \o (f \o y) \in Chosen[o \o r]
        BY <2>2, <4>1 DEF After
      <4>. QED  BY <2>4, <4>2
    <3>. QED  BY <3>1, <3>2 DEF After
  <2>. QED  BY <2>4, <2>5, <2>6 DEF o, B
<1>. HIDE DEF T
<1>3. Seq(FlatAtoms) \subseteq T
  BY <1>1, <1>2, ConsInduction DEF z
<1>. QED  BY <1>3 DEF T

-----------------------------------------------------------------------------
(* Expand[Written(g)] is what is chosen from g, written.                   *)

LEMMA FlatAlone ==
  ASSUME NEW f \in Seq(FlatAtoms), Tidy(f)
  PROVE  Expand[Written(f)] = <<Written(f)>>
<1>. DEFINE p == Written(f)
            g == Nesting(Outside, p)
            d == 0
<1>1. p \in Texts
  BY FlatFacts, WrittenIs
<1>2. PICK m \in States : Run(At(0), p, m, CalmAt(0))
  BY FlatRuns
<1>3. \A i \in 1..Len(p) : <<p[i], g[i - 1], g[i]>> \in CalmAt(0)
  BY <1>2, OutsideIs DEF Run
<1>4. OpensOf(p) = {}
  <2>1. DOMAIN p = 1..Len(p)
    <3>. HIDE DEF p
    <3>. QED  BY <1>1, LenProperties DEF Texts
  <2>2. ASSUME NEW i \in 1..Len(p), p[i] = "{" PROVE g[i - 1].escape
    <3>1. <<p[i], g[i - 1], g[i]>> \in CalmAt(0)
      BY <1>3
    <3>. HIDE DEF p, g
    <3>. QED  BY <2>2, <3>1 DEF CalmAt
  <2>. QED  BY <2>1, <2>2 DEF OpensOf
<1>. HIDE DEF p
<1>5. Expand[p] = ExpandStep(Expand, p)
  BY <1>1, ExpandIs
<1>6. Expand[p] = <<p>>
  BY <1>4, <1>5 DEF ExpandStep
<1>. QED  BY <1>6 DEF p

\* The alternatives of a pattern with a group, by those of its parts.
Parts(p, u, bs, v) ==
  \A x : x \in ToSet(Expand[p]) <=>
           \E i \in 1..Len(bs) : \E b \in ToSet(Expand[Written(bs[i])]), y \in ToSet(Expand[v]) : x = (u \o b) \o y

LEMMA GroupParts ==
  ASSUME NEW u \in Texts, Neutral(u), NEW c \in ChoiceAtoms, NEW v \in Texts
  PROVE  Parts(u \o (c.text \o v), u, c.branches, v)
<1>. DEFINE bs == c.branches
            J == Joined(bs)
            p == u \o (Braced(J) \o v)
            P == Mapped(WholeText, bs)
            ss == Alts(Expand, P)
            us == <<u>>
            Q == Products(us, ss)
            ys == Expand[v]
<1>1. bs \in Seq(Seq(GlobAtoms)) /\ Len(bs) > 1 /\ c.text = Braced(J) /\ J \in Texts
  BY ChoiceGroups DEF ChoiceText, Braced
<1>2. Ringed(J) /\ Pieces(J, TopCommas(J)) = P /\ TopCommas(J) # {}
  <2>1. GroupOf(bs)
    BY ChoiceGroups
  <2>. HIDE DEF bs
  <2>. DEFINE n == Len(bs)
  <2>2. n \in Nat /\ n > 1
    BY <1>1, LenProperties
  <2>. HIDE DEF n
  <2>3. n # 1
    BY <2>2
  <2>. QED  BY <2>1, <2>3 DEF GroupOf, n
<1>. HIDE DEF bs, J, P
<1>3. Cut(u, J, v, p) /\ p \in Texts
  <2>1. BracedFacts(u, J, v)
    BY <1>1, BracedSplit
  <2>2. p \in Texts
    BY <2>1 DEF BracedFacts
  <2>3. Passed(u, J, v, p)
    BY <1>1, <1>2, GroupPassed
  <2>. HIDE DEF p
  <2>. QED  BY <1>1, <2>2, <2>3, GroupCut
<1>. HIDE DEF p
<1>4. PiecesOf(p) = P
  BY <1>2, <1>3 DEF PiecesOf, Cut
<1>5. Expand[p] = Products(Q, ys)
  <2>1. Expand[p] = ExpandStep(Expand, p)
    BY <1>3, ExpandIs
  <2>. QED  BY <1>2, <1>3, <1>4, <2>1 DEF ExpandStep, Cut
<1>6. P \in Seq(Texts) /\ DOMAIN P = 1..Len(bs) /\ \A i \in 1..Len(bs) : P[i] = Written(bs[i])
  <2>1. Maps(WholeText, Seq(GlobAtoms), Texts) /\ \A b \in Seq(GlobAtoms) : WholeText[b] = Written(b)
    BY TextsMapped
  <2>2. P \in Seq(Texts) /\ Len(P) = Len(bs) /\ \A i \in 1..Len(bs) : P[i] = WholeText[bs[i]]
    BY <1>1, <2>1, MappedType DEF P
  <2>3. DOMAIN P = 1..Len(P)
    BY <2>2, LenProperties
  <2>4. \A i \in 1..Len(bs) : bs[i] \in Seq(GlobAtoms)
    BY <1>1, ElementOfSeq
  <2>. QED  BY <2>1, <2>2, <2>3, <2>4
<1>7. ss \in Seq(Texts) /\ ToSet(ss) = UNION {ToSet(Expand[P[i]]) : i \in DOMAIN P}
  BY <1>6, ExpandIs, AltsAre
<1>8. ys \in Seq(Texts) /\ us \in Seq(Texts) /\ ToSet(us) = {u}
  BY ExpandIs, OneIn
<1>. HIDE DEF ss, us, ys
<1>9. Q \in Seq(Texts) /\ Pairs(ToSet(Q), ToSet(us), ToSet(ss))
  BY <1>7, <1>8, ProductsAre
<1>. HIDE DEF Q
<1>10. Pairs(ToSet(Expand[p]), ToSet(Q), ToSet(ys))
  BY <1>5, <1>8, <1>9, ProductsAre
<1>11. \A b : b \in ToSet(ss) <=> \E i \in 1..Len(bs) : b \in ToSet(Expand[Written(bs[i])])
  <2>1. \A b : b \in ToSet(ss) <=> \E i \in DOMAIN P : b \in ToSet(Expand[P[i]])
    BY <1>7
  <2>. QED  BY <1>6, <2>1
<1>12. \A q : q \in ToSet(Q) <=> \E b \in ToSet(ss) : q = u \o b
  BY <1>8, <1>9 DEF Pairs
<1>13. ASSUME NEW x \in ToSet(Expand[p])
       PROVE  \E i \in 1..Len(bs) : \E b \in ToSet(Expand[Written(bs[i])]), y \in ToSet(ys) : x = (u \o b) \o y
  <2>1. PICK q \in ToSet(Q), y \in ToSet(ys) : x = q \o y
    BY <1>10 DEF Pairs
  <2>2. PICK b \in ToSet(ss) : q = u \o b
    BY <1>12
  <2>3. PICK i \in 1..Len(bs) : b \in ToSet(Expand[Written(bs[i])])
    BY <1>11
  <2>. QED  BY <2>1, <2>2, <2>3
<1>14. ASSUME NEW i \in 1..Len(bs), NEW b \in ToSet(Expand[Written(bs[i])]), NEW y \in ToSet(ys)
       PROVE  (u \o b) \o y \in ToSet(Expand[p])
  <2>1. b \in ToSet(ss)
    BY <1>11
  <2>. DEFINE q == u \o b
  <2>2. q \in ToSet(Q)
    BY <1>12, <2>1
  <2>. HIDE DEF q
  <2>3. q \o y \in ToSet(Expand[p])
    BY <1>10, <2>2 DEF Pairs
  <2>. QED  BY <2>3 DEF q
<1>15. Parts(p, u, bs, v)
  BY <1>13, <1>14 DEF Parts, ys
<1>. QED  BY <1>1, <1>15 DEF p, bs

\* What a pattern expands to is what is chosen from it.
Expands(g) == \A x : x \in ToSet(Expand[Written(g)]) <=> \E f \in Chosen[g] : x = Written(f)

LEMMA TidyParts ==
  ASSUME NEW f \in Seq(FlatAtoms), NEW c \in ChoiceAtoms, NEW r \in Seq(GlobAtoms), Tidy(f \o (<<c>> \o r))
  PROVE  Calm(f) /\ Tidy(r)
<1>. DEFINE g == f \o (<<c>> \o r)
            n == Len(f)
            m == Len(r)
<1>1. f \in Seq(GlobAtoms) /\ c \in GlobAtoms /\ c.k = "choice"
  <2>1. FlatAtoms \subseteq GlobAtoms
    BY DEF FlatAtoms
  <2>. QED  BY <2>1 DEF ChoiceAtoms
<1>2. /\ n \in Nat /\ m \in Nat /\ Len(g) = n + 1 + m /\ g[n + 1] = c
      /\ \A i \in 1..n : g[i] = f[i]
      /\ \A i \in 1..m : g[n + 1 + i] = r[i]
  BY <1>1, Middle
<1>3. \A i \in 1..Len(g) : g[i] = Unfinished => i = Len(g) \/ g[i + 1] = Slash
  BY DEF Tidy
<1>. HIDE DEF g
<1>4. c # Slash
  BY <1>1 DEF Slash
<1>5. ASSUME NEW i \in 1..n, f[i] = Unfinished PROVE i # n /\ f[i + 1] = Slash
  <2>1. i \in 1..Len(g) /\ i # Len(g)
    <3>. HIDE DEF n, m
    <3>. QED  BY <1>2
  <2>2. g[i + 1] = Slash
    BY <1>2, <1>3, <1>5, <2>1
  <2>3. i # n
    BY <1>2, <1>4, <2>2
  <2>4. i + 1 \in 1..n
    <3>. HIDE DEF n, m
    <3>. QED  BY <1>2, <2>3
  <2>. QED  BY <1>2, <2>2, <2>3, <2>4
<1>6. ASSUME NEW i \in 1..m, r[i] = Unfinished PROVE i = m \/ r[i + 1] = Slash
  <2>. DEFINE j == n + 1 + i
  <2>1. j \in 1..Len(g) /\ (j = Len(g) => i = m) /\ (i # m => i + 1 \in 1..m /\ j + 1 = n + 1 + (i + 1))
    <3>. HIDE DEF n, m
    <3>. QED  BY <1>2
  <2>2. g[j] = Unfinished
    BY <1>2, <1>6
  <2>3. j = Len(g) \/ g[j + 1] = Slash
    <3>. HIDE DEF j
    <3>. QED  BY <1>3, <2>1, <2>2
  <2>. HIDE DEF n, m
  <2>4. CASE i # m
    <3>1. g[j + 1] = Slash /\ i + 1 \in 1..m /\ j + 1 = n + 1 + (i + 1)
      BY <2>1, <2>3, <2>4
    <3>2. g[n + 1 + (i + 1)] = r[i + 1]
      BY <1>2, <3>1
    <3>. QED  BY <3>1, <3>2
  <2>. QED  BY <2>4
<1>. QED  BY <1>5, <1>6 DEF Calm, Tidy

LEMMA AlternativesTidy == \A b \in Alternatives : Tidy(b)
<1>. SUFFICES ASSUME NEW b \in Alternatives, NEW i \in 1..Len(b), b[i] = Unfinished PROVE FALSE
  BY DEF Tidy
<1>1. b[i] \in GlobAtoms \ {Unfinished}
  BY ElementOfSeq DEF Alternatives
<1>. QED  BY <1>1

LEMMA RestShorter ==
  ASSUME NEW f \in Seq(GlobAtoms), NEW c \in ChoiceAtoms, NEW r \in Seq(GlobAtoms)
  PROVE  LET g == f \o (<<c>> \o r)
         IN  /\ g \in Seq(GlobAtoms) /\ Written(g) = Written(f) \o (c.text \o Written(r))
             /\ TextSize[r] < TextSize[g]
             /\ \A i \in 1..Len(c.branches) : TextSize[c.branches[i]] < TextSize[g]
<1>. DEFINE q == <<c>> \o r
            g == f \o q
            w == Written(f)
            t == Written(q)
<1>1. c \in GlobAtoms
  BY DEF ChoiceAtoms
<1>2. q \in Seq(GlobAtoms) /\ t = c.text \o Written(r)
  BY <1>1, TextsMapped, WrittenCons
<1>3. TextSize[r] < TextSize[q] /\ \A i \in 1..Len(c.branches) : TextSize[c.branches[i]] < TextSize[q]
  BY <1>1, PartsShorter
<1>. HIDE DEF q
<1>4. g \in Seq(GlobAtoms) /\ Written(g) = w \o t /\ w \in Texts /\ t \in Texts
  BY <1>2, TextsMapped, WrittenIs, ConcatProperties
<1>. HIDE DEF g, w, t
<1>5. Len(w \o t) = Len(w) + Len(t) /\ Len(w) \in Nat /\ Len(t) \in Nat
  BY <1>4, TextLens
<1>6. TextSize[g] = Len(w \o t) /\ TextSize[q] = Len(t)
  BY <1>2, <1>4, TextSizes DEF t
<1>7. TextSize[q] <= TextSize[g] /\ TextSize[q] \in Nat /\ TextSize[g] \in Nat
  BY <1>5, <1>6
<1>8. TextSize[r] < TextSize[g]
  <2>1. TextSize[r] \in Nat
    BY TextSizes DEF Maps
  <2>. QED  BY <1>3, <1>7, <2>1
<1>9. ASSUME NEW i \in 1..Len(c.branches) PROVE TextSize[c.branches[i]] < TextSize[g]
  <2>. DEFINE b == c.branches[i]
  <2>1. b \in Seq(GlobAtoms)
    <3>1. c.branches \in Seq(Seq(GlobAtoms))
      BY ChoiceTextIs DEF ChoiceText
    <3>. QED  BY <3>1, ElementOfSeq
  <2>2. TextSize[b] \in Nat
    BY <2>1, TextSizes DEF Maps
  <2>3. TextSize[b] < TextSize[q]
    BY <1>3
  <2>. HIDE DEF b
  <2>4. TextSize[b] < TextSize[g]
    BY <1>7, <2>2, <2>3
  <2>. QED  BY <2>4 DEF b
<1>. QED  BY <1>2, <1>4, <1>8, <1>9 DEF g, q, w

LEMMA FlatExpands ==
  ASSUME NEW g \in Seq(FlatAtoms), Tidy(g)
  PROVE  Expands(g)
<1>. DEFINE z == << >>
<1>1. z \in Seq(GlobAtoms) /\ Chosen[z] = {z} /\ g \o z = g
  <2>1. Chosen[z] = {z}
    BY ChosenNone
  <2>2. z \in Seq(GlobAtoms)
    OBVIOUS
  <2>3. g \o z = g
    BY ConcatEmptySeq
  <2>. QED  BY <2>1, <2>2, <2>3
<1>. HIDE DEF z
<1>2. After(Chosen[g \o z], g, Chosen[z])
  BY <1>1, ChosenFlats
<1>3. \A x : x \in Chosen[g] <=> x = g
  BY <1>1, <1>2 DEF After
<1>4. Expand[Written(g)] = <<Written(g)>>
  BY FlatAlone
<1>5. ToSet(Expand[Written(g)]) = {Written(g)}
  BY <1>4, OneIn
<1>. QED  BY <1>3, <1>5 DEF Expands

LEMMA GroupExpands ==
  ASSUME NEW f \in Seq(FlatAtoms), Calm(f), NEW c \in ChoiceAtoms, NEW r \in Seq(GlobAtoms), Expands(r),
         \A i \in 1..Len(c.branches) : Expands(c.branches[i])
  PROVE  Expands(f \o (<<c>> \o r))
<1>. DEFINE q == <<c>> \o r
            g == f \o q
            bs == c.branches
            u == Written(f)
            v == Written(r)
            R == Chosen[r]
<1>1. f \in Seq(GlobAtoms) /\ c \in GlobAtoms /\ bs \in Seq(Seq(GlobAtoms)) /\ f \in Seq(SlashAtoms)
  <2>1. FlatAtoms \subseteq GlobAtoms /\ FlatAtoms \subseteq SlashAtoms
    BY FlatFacts DEF FlatAtoms, Slashes, SlashAtoms
  <2>2. bs \in Seq(Seq(GlobAtoms))
    BY ChoiceTextIs DEF ChoiceText
  <2>. QED  BY <2>1, <2>2 DEF ChoiceAtoms
<1>2. Written(g) = u \o (c.text \o v) /\ q \in Seq(GlobAtoms)
  <2>1. q \in Seq(GlobAtoms)
    BY <1>1, ConsParts
  <2>. QED  BY <1>1, <2>1, RestShorter
<1>3. u \in Texts /\ v \in Texts /\ Neutral(u)
  BY <1>1, TextsMapped, CalmNeutral
<1>4. Parts(Written(g), u, bs, v)
  <2>1. Parts(u \o (c.text \o v), u, bs, v)
    <3>. HIDE DEF u, v
    <3>. QED  BY <1>3, GroupParts
  <2>. HIDE DEF g, u, v, bs
  <2>. QED  BY <1>2, <2>1
<1>5. OneOf(Chosen[q], bs, R) /\ After(Chosen[g], f, Chosen[q])
  BY <1>2, ChosenChoice, ChosenFlats
<1>6. \A i \in 1..Len(bs) : \A a \in Chosen[bs[i]], y \in R :
        a \in Seq(GlobAtoms) /\ y \in Seq(GlobAtoms) /\ Written(f \o (a \o y)) = (u \o Written(a)) \o Written(y)
  <2>. SUFFICES ASSUME NEW i \in 1..Len(bs), NEW a \in Chosen[bs[i]], NEW y \in R
                PROVE  a \in Seq(GlobAtoms) /\ y \in Seq(GlobAtoms) /\ Written(f \o (a \o y)) = (u \o Written(a)) \o Written(y)
    OBVIOUS
  <2>1. a \in Seq(GlobAtoms) /\ y \in Seq(GlobAtoms)
    <3>1. bs[i] \in Seq(GlobAtoms)
      BY <1>1, ElementOfSeq
    <3>2. a \in Seq(FlatAtoms) /\ y \in Seq(FlatAtoms)
      BY <3>1, ChosenIs
    <3>. QED  BY <3>2 DEF FlatAtoms
  <2>2. a \o y \in Seq(GlobAtoms) /\ Written(a \o y) = Written(a) \o Written(y)
    BY <2>1, TextsMapped, WrittenIs, ConcatProperties
  <2>. DEFINE m == a \o y
  <2>3. Written(f \o m) = u \o Written(m)
    <3>. HIDE DEF m
    <3>1. m \in Seq(GlobAtoms)
      BY <2>2 DEF m
    <3>. QED  BY <1>1, <3>1, TextsMapped, WrittenIs
  <2>4. Written(a) \in Texts /\ Written(y) \in Texts
    BY <2>1, TextsMapped
  <2>5. (u \o Written(a)) \o Written(y) = u \o (Written(a) \o Written(y))
    <3>. HIDE DEF u
    <3>1. Associates(u, Written(a), Written(y))
      BY <1>3, <2>4, TextsAssociates
    <3>. QED  BY <3>1 DEF Associates
  <2>. QED  BY <2>1, <2>2, <2>3, <2>5
<1>7. \A y : y \in ToSet(Expand[v]) <=> \E e \in R : y = Written(e)
  BY DEF Expands
<1>8. \A i \in 1..Len(bs) : \A b : b \in ToSet(Expand[Written(bs[i])]) <=> \E a \in Chosen[bs[i]] : b = Written(a)
  BY DEF Expands
<1>. HIDE DEF g, q, bs, u, v, R
<1>9. ASSUME NEW x \in ToSet(Expand[Written(g)]) PROVE \E h \in Chosen[g] : x = Written(h)
  <2>1. PICK i \in 1..Len(bs) : \E b \in ToSet(Expand[Written(bs[i])]), y \in ToSet(Expand[v]) : x = (u \o b) \o y
    BY <1>4 DEF Parts
  <2>2. PICK b \in ToSet(Expand[Written(bs[i])]), y \in ToSet(Expand[v]) : x = (u \o b) \o y
    BY <2>1
  <2>3. PICK a \in Chosen[bs[i]] : b = Written(a)
    BY <1>8
  <2>4. PICK e \in R : y = Written(e)
    BY <1>7
  <2>. DEFINE m == a \o e
  <2>5. m \in Chosen[q]
    BY <1>5 DEF OneOf
  <2>6. Written(f \o m) = x
    BY <1>6, <2>2, <2>3, <2>4
  <2>. HIDE DEF m
  <2>7. f \o m \in Chosen[g]
    BY <1>5, <2>5 DEF After
  <2>. QED  BY <2>6, <2>7
<1>10. ASSUME NEW h \in Chosen[g] PROVE Written(h) \in ToSet(Expand[Written(g)])
  <2>1. PICK m \in Chosen[q] : h = f \o m
    BY <1>5 DEF After
  <2>2. PICK i \in 1..Len(bs) : \E a \in Chosen[bs[i]], y \in R : m = a \o y
    BY <1>5 DEF OneOf
  <2>3. PICK a \in Chosen[bs[i]], e \in R : m = a \o e
    BY <2>2
  <2>. DEFINE b == Written(a)
              y == Written(e)
              x == (u \o b) \o y
  <2>4. b \in ToSet(Expand[Written(bs[i])]) /\ y \in ToSet(Expand[v])
    BY <1>7, <1>8
  <2>5. Written(h) = x
    BY <1>6, <2>1, <2>3
  <2>. HIDE DEF b, y
  <2>6. x \in ToSet(Expand[Written(g)])
    BY <1>4, <2>4 DEF Parts
  <2>. QED  BY <2>5, <2>6
<1>11. Expands(g)
  BY <1>9, <1>10 DEF Expands
<1>. QED  BY <1>11 DEF g, q

\* Braces in braces expand to the texts of what can be chosen from them, each of
\* those and no other, whatever is quoted in them (Expand, glob.go:283).
THEOREM TidyExpands == \A g \in Seq(GlobAtoms) : Tidy(g) => Expands(g)
<1>. DEFINE D == Seq(GlobAtoms)
            T == {g \in D : Tidy(g) => Expands(g)}
<1>1. TextSize \in [D -> Nat]
  BY TextSizes DEF Maps
<1>2. ASSUME NEW g \in D, \A r \in D : TextSize[r] < TextSize[g] => r \in T, Tidy(g) PROVE Expands(g)
  <2>1. FirstIn(GlobAtoms, ChoiceAtoms, g)
    BY FirstSuch
  <2>2. GlobAtoms \ ChoiceAtoms = FlatAtoms /\ ChoiceAtoms \subseteq GlobAtoms /\ FlatAtoms \subseteq GlobAtoms
    BY DEF FlatAtoms, ChoiceAtoms
  <2>3. CASE g \in Seq(FlatAtoms)
    BY <1>2, <2>3, FlatExpands
  <2>4. CASE \E f \in Seq(FlatAtoms), c \in ChoiceAtoms, r \in Seq(GlobAtoms) : g = f \o (<<c>> \o r)
    <3>1. PICK f \in Seq(FlatAtoms), c \in ChoiceAtoms, r \in Seq(GlobAtoms) : g = f \o (<<c>> \o r)
      BY <2>4
    <3>2. Calm(f) /\ Tidy(r)
      BY <1>2, <3>1, TidyParts
    <3>3. f \in Seq(GlobAtoms)
      BY <2>2
    <3>4. /\ TextSize[r] < TextSize[g]
          /\ \A i \in 1..Len(c.branches) : TextSize[c.branches[i]] < TextSize[g]
      BY <3>1, <3>3, RestShorter
    <3>5. Expands(r)
      BY <1>2, <3>2, <3>4
    <3>6. ASSUME NEW i \in 1..Len(c.branches) PROVE Expands(c.branches[i])
      <4>. DEFINE b == c.branches[i]
      <4>1. b \in Alternatives
        <5>1. c.branches \in Seq(Alternatives)
          BY ChoiceGroups
        <5>. QED  BY <5>1, ElementOfSeq
      <4>2. b \in D /\ Tidy(b)
        BY <4>1, TextsMapped, AlternativesTidy
      <4>3. TextSize[b] < TextSize[g]
        BY <3>4
      <4>. QED  BY <1>2, <4>2, <4>3
    <3>7. Expands(f \o (<<c>> \o r))
      BY <3>2, <3>5, <3>6, GroupExpands
    <3>. QED  BY <3>1, <3>7
  <2>5. g \in Seq(FlatAtoms) \/ \E f \in Seq(FlatAtoms), c \in ChoiceAtoms, r \in Seq(GlobAtoms) : g = f \o (<<c>> \o r)
    <3>1. GlobAtoms \cap ChoiceAtoms = ChoiceAtoms
      BY <2>2
    <3>. QED  BY <2>1, <2>2, <3>1 DEF FirstIn
  <2>. QED  BY <2>3, <2>4, <2>5
<1>3. \A g \in D : (\A r \in D : TextSize[r] < TextSize[g] => r \in T) => g \in T
  BY <1>2
<1>. HIDE DEF T, D
<1>4. D \subseteq T
  BY <1>1, <1>3, SizeInduction
<1>. QED  BY <1>4 DEF T, D

-----------------------------------------------------------------------------
(* The segments of an alternative and the names they are laid over.        *)

PlainNames == Seq(Chars) \ {<<".">>, <<".", ".">>}
Fitting    == {x \in GoodSegs \X Seq(PlainNames) : SegmentFits(x[1], x[2])}

LEMMA PlainPaths == Seq(PlainNames) \subseteq PathNames /\ \A ns \in Seq(PlainNames) : Len(ns) \in Nat /\ DOMAIN ns = 1..Len(ns)
<1>1. PlainNames \subseteq Seq(Chars)
  BY DEF PlainNames
<1>2. \A ns \in Seq(PlainNames) : Len(ns) \in Nat /\ DOMAIN ns = 1..Len(ns)
  BY LenProperties
<1>. HIDE DEF PlainNames
<1>. QED  BY <1>1, <1>2 DEF PathNames

LEMMA GoodSegsAre == \A s \in GoodSegs : s \in Seq(SegAtoms) /\ s # << >> /\ Ended(s) /\ Written(s) \in Texts /\ WrittenText[s] = Written(s)
<1>1. \A s \in GoodSegs : s \in Seq(SegAtoms) /\ s # << >> /\ Ended(s)
  BY DEF GoodSegs
<1>2. \A s \in Seq(SegAtoms) : Written(s) \in Texts /\ WrittenText[s] = Written(s)
  BY SegmentSlashless DEF WrittenText
<1>. QED  BY <1>1, <1>2

LEMMA MatchedFits ==
  ASSUME NEW s \in GoodSegs, NEW ns \in Seq(PlainNames), <<Written(s), ns>> \in Taking({"match"})
  PROVE  SegmentFits(s, ns)
<1>. DEFINE V == {"match"}
            t == Written(s)
            cs == ns[1]
<1>1. t \in Texts /\ ns \in PathNames /\ s \in Seq(SegAtoms) /\ s # << >> /\ Ended(s)
  BY GoodSegsAre, PlainPaths
<1>. HIDE DEF V
<1>2. IF t = GlobStar THEN Visible(ns) ELSE Len(ns) = 1 /\ MatchSegment(t, cs) \in V
  <2>1. <<t, ns>> \in Taking(V)
    BY DEF V
  <2>. HIDE DEF t
  <2>. QED  BY <1>1, <2>1, TakingIs
<1>3. t = GlobStar <=> s = <<Star, Star>>
  BY <1>1, StarSegment
<1>4. CASE t = GlobStar
  BY <1>2, <1>3, <1>4 DEF SegmentFits, Visible
<1>5. CASE t # GlobStar
  <2>1. Len(ns) = 1 /\ MatchSegment(t, cs) = "match"
    BY <1>2, <1>5 DEF V
  <2>2. cs \in Seq(Chars) /\ cs \notin {<<".">>, <<".", ".">>}
    <3>1. cs \in PlainNames
      BY <2>1, ElementOfSeq
    <3>. QED  BY <3>1 DEF PlainNames
  <2>. HIDE DEF cs
  <2>3. DotRule(s, cs) /\ Covers(s, cs, Fits)
    BY <1>1, <2>1, <2>2, SegmentAnswers
  <2>. QED  BY <1>3, <1>5, <2>1, <2>3 DEF SegmentFits, DotRule, cs
<1>. QED  BY <1>4, <1>5

LEMMA FitsTaken ==
  ASSUME NEW s \in GoodSegs, NEW ns \in Seq(PlainNames), SegmentFits(s, ns)
  PROVE  <<Written(s), ns>> \in Taking({"match", "error", "panic"})
<1>. DEFINE V == {"match", "error", "panic"}
            t == Written(s)
            cs == ns[1]
            v == MatchSegment(t, cs)
<1>1. t \in Texts /\ ns \in PathNames /\ s \in Seq(SegAtoms) /\ s # << >> /\ Ended(s)
  BY GoodSegsAre, PlainPaths
<1>3. t = GlobStar <=> s = <<Star, Star>>
  BY <1>1, StarSegment
<1>4. CASE t = GlobStar
  <2>1. Visible(ns)
    BY <1>3, <1>4 DEF SegmentFits, Visible
  <2>. HIDE DEF V, t
  <2>2. <<t, ns>> \in Taking(V)
    BY <1>1, <1>4, <2>1, TakingIs
  <2>. QED  BY <2>2 DEF V, t
<1>5. CASE t # GlobStar
  <2>1. Len(ns) = 1 /\ DotRule(s, cs) /\ Covers(s, cs, Fits)
    BY <1>3, <1>5 DEF SegmentFits, DotRule
  <2>2. cs \in Seq(Chars) /\ cs \notin {<<".">>, <<".", ".">>}
    <3>1. cs \in PlainNames
      BY <2>1, ElementOfSeq
    <3>. QED  BY <3>1 DEF PlainNames
  <2>3. v \in Verdicts
    BY <1>1, MatchSegmentType
  <2>4. v # "mismatch"
    <3>. HIDE DEF cs
    <3>. QED  BY <1>1, <2>1, <2>2, SegmentAnswers
  <2>5. v \in V
    BY <2>3, <2>4 DEF Verdicts
  <2>. HIDE DEF V, t
  <2>6. <<t, ns>> \in Taking(V)
    BY <1>1, <1>5, <2>1, <2>5, TakingIs
  <2>. QED  BY <2>6 DEF V, t
<1>. QED  BY <1>4, <1>5

LEMMA FittingIs == \A s \in GoodSegs, ns \in Seq(PlainNames) : <<s, ns>> \in Fitting <=> SegmentFits(s, ns)
BY DEF Fitting

\* A relation of segments, and of their texts.
LEMMA WrittenLays ==
  ASSUME NEW p \in Seq(GoodSegs), NEW n \in Seq(PlainNames)
  PROVE  LET t == Mapped(WrittenText, p)
         IN  /\ t \in Seq(Texts) /\ Len(t) = Len(p) /\ \A i \in 1..Len(p) : t[i] = Written(p[i])
             /\ Lays(t, n, Taking({"match"})) => Lays(p, n, Fitting)
             /\ Lays(p, n, Fitting) => Lays(t, n, Taking({"match", "error", "panic"}))
<1>. DEFINE t == Mapped(WrittenText, p)
            X == Taking({"match"})
            Y == Taking({"match", "error", "panic"})
<1>1. t \in Seq(Texts) /\ Len(t) = Len(p) /\ \A i \in 1..Len(p) : t[i] = Written(p[i])
  <2>1. Maps(WrittenText, Seq(SegAtoms), Texts) /\ p \in Seq(Seq(SegAtoms))
    <3>1. GoodSegs \subseteq Seq(SegAtoms)
      BY DEF GoodSegs
    <3>. HIDE DEF GoodSegs
    <3>. QED  BY <3>1, FlatFacts
  <2>2. t \in Seq(Texts) /\ Len(t) = Len(p) /\ \A i \in 1..Len(p) : t[i] = WrittenText[p[i]]
    BY <2>1, MappedType
  <2>3. \A i \in 1..Len(p) : p[i] \in GoodSegs
    BY ElementOfSeq
  <2>. HIDE DEF t
  <2>. QED  BY <2>2, <2>3, GoodSegsAre
<1>2. Len(p) \in Nat /\ Len(n) \in Nat /\ \A i \in 1..Len(p) : p[i] \in GoodSegs
  BY LenProperties, ElementOfSeq
<1>. HIDE DEF t
<1>3. \A cut \in [0..Len(p) -> 0..Len(n)] : \A i \in 1..Len(p) : cut[i - 1] <= cut[i] =>
        SubSeq(n, cut[i - 1] + 1, cut[i]) \in Seq(PlainNames)
  <2>. SUFFICES ASSUME NEW cut \in [0..Len(p) -> 0..Len(n)], NEW i \in 1..Len(p), cut[i - 1] <= cut[i]
                PROVE  SubSeq(n, cut[i - 1] + 1, cut[i]) \in Seq(PlainNames)
    OBVIOUS
  <2>. DEFINE a == cut[i - 1]
              b == cut[i]
  <2>1. a \in 0..Len(n) /\ b \in 0..Len(n)
    <3>1. i - 1 \in 0..Len(p) /\ i \in 0..Len(p)
      BY <1>2
    <3>. QED  BY <3>1
  <2>2. a \in Nat /\ b \in Nat /\ b <= Len(n) /\ a <= b
    BY <1>2, <2>1
  <2>. HIDE DEF a, b
  <2>3. SubSeq(n, a + 1, b) \in Seq(PlainNames)
    BY <2>2, PieceIs
  <2>. QED  BY <2>3 DEF a, b
<1>4. ASSUME Lays(t, n, X) PROVE Lays(p, n, Fitting)
  <2>1. PICK cut : Cutting(cut, t, n, X)
    BY <1>4 DEF Lays
  <2>2. /\ cut \in [0..Len(p) -> 0..Len(n)] /\ cut[0] = 0 /\ cut[Len(p)] = Len(n)
        /\ \A i \in 1..Len(p) : cut[i - 1] <= cut[i] /\ <<t[i], SubSeq(n, cut[i - 1] + 1, cut[i])>> \in X
    BY <1>1, <2>1 DEF Cutting
  <2>3. ASSUME NEW i \in 1..Len(p) PROVE cut[i - 1] <= cut[i] /\ <<p[i], SubSeq(n, cut[i - 1] + 1, cut[i])>> \in Fitting
    <3>. DEFINE q == SubSeq(n, cut[i - 1] + 1, cut[i])
                s == p[i]
    <3>1. q \in Seq(PlainNames) /\ s \in GoodSegs /\ <<Written(s), q>> \in X /\ cut[i - 1] <= cut[i]
      BY <1>1, <1>2, <1>3, <2>2
    <3>. HIDE DEF q, s
    <3>2. SegmentFits(s, q)
      BY <3>1, MatchedFits
    <3>3. <<s, q>> \in Fitting
      BY <3>1, <3>2, FittingIs
    <3>. QED  BY <3>1, <3>3 DEF q, s
  <2>. QED  BY <2>2, <2>3 DEF Lays, Cutting
<1>5. ASSUME Lays(p, n, Fitting) PROVE Lays(t, n, Y)
  <2>1. PICK cut : Cutting(cut, p, n, Fitting)
    BY <1>5 DEF Lays
  <2>2. /\ cut \in [0..Len(p) -> 0..Len(n)] /\ cut[0] = 0 /\ cut[Len(p)] = Len(n)
        /\ \A i \in 1..Len(p) : cut[i - 1] <= cut[i] /\ <<p[i], SubSeq(n, cut[i - 1] + 1, cut[i])>> \in Fitting
    BY <2>1 DEF Cutting
  <2>3. ASSUME NEW i \in 1..Len(p) PROVE cut[i - 1] <= cut[i] /\ <<t[i], SubSeq(n, cut[i - 1] + 1, cut[i])>> \in Y
    <3>. DEFINE q == SubSeq(n, cut[i - 1] + 1, cut[i])
                s == p[i]
    <3>1. q \in Seq(PlainNames) /\ s \in GoodSegs /\ <<s, q>> \in Fitting /\ cut[i - 1] <= cut[i] /\ t[i] = Written(s)
      BY <1>1, <1>2, <1>3, <2>2
    <3>. HIDE DEF q, s
    <3>2. SegmentFits(s, q)
      BY <3>1, FittingIs
    <3>3. <<Written(s), q>> \in Y
      BY <3>1, <3>2, FitsTaken
    <3>. QED  BY <3>1, <3>3 DEF q
  <2>4. Cutting(cut, t, n, Y)
    BY <1>1, <2>2, <2>3 DEF Cutting
  <2>. QED  BY <2>4 DEF Lays
<1>. QED  BY <1>1, <1>4, <1>5 DEF t

-----------------------------------------------------------------------------
(* One alternative.                                                        *)

\* A malformed segment of an alternative is malformed in it.
LEMMA BadSegment ==
  ASSUME NEW f \in Seq(FlatAtoms), NEW i \in 1..Len(SplitOf(f)), SplitOf(f) \in Seq(GoodSegs), BadIn(SplitOf(f)[i])
  PROVE  BadIn(f)
<1>. DEFINE S == {a \in FlatAtoms : a.k # "bad"}
            p == SplitOf(f)
<1>1. SUFFICES ASSUME ~BadIn(f) PROVE FALSE
  OBVIOUS
<1>2. Len(f) \in Nat /\ DOMAIN f = 1..Len(f) /\ \A j \in 1..Len(f) : f[j] \in S
  BY <1>1, LenProperties, ElementOfSeq DEF BadIn
<1>3. f \in Seq(S)
  <2>1. f \in [1..Len(f) -> S]
    BY <1>2
  <2>2. f \in Seq(S)
    <3>. HIDE DEF S
    <3>. QED  BY <1>2, <2>1, SeqMade
  <2>. QED  BY <2>2
<1>. HIDE DEF S
<1>4. p \in Seq(Seq(S))
  <2>. DEFINE P == Pieces(f, CutsAt(f, Slashes))
  <2>1. P \in Seq(Seq(S))
    BY <1>3, PiecesType DEF SomePieces
  <2>. HIDE DEF P
  <2>2. Kept(P) \in Seq(Seq(S))
    BY <2>1, KeptIs
  <2>. QED  BY <2>2 DEF SplitOf, P
<1>. HIDE DEF p
<1>5. i \in 1..Len(p) /\ BadIn(p[i])
  BY DEF p
<1>. DEFINE s == p[i]
<1>6. s \in Seq(S)
  BY <1>4, <1>5, ElementOfSeq
<1>. HIDE DEF s
<1>7. DOMAIN s = 1..Len(s) /\ \A j \in 1..Len(s) : s[j] \in S
  BY <1>6, LenProperties, ElementOfSeq
<1>8. BadIn(s)
  BY <1>5 DEF s
<1>. QED  BY <1>7, <1>8 DEF BadIn, S

\* A malformed segment is laid over no names.
LEMMA BadUnlaid ==
  ASSUME NEW p \in Seq(GoodSegs), NEW n, NEW i \in 1..Len(p), BadIn(p[i])
  PROVE  ~Lays(p, n, Fitting)
<1>. SUFFICES ASSUME Lays(p, n, Fitting) PROVE FALSE
  OBVIOUS
<1>1. PICK cut : Cutting(cut, p, n, Fitting)
  BY DEF Lays
<1>. DEFINE q == SubSeq(n, cut[i - 1] + 1, cut[i])
            s == p[i]
<1>2. <<s, q>> \in Fitting
  BY <1>1 DEF Cutting
<1>3. s \in GoodSegs
  BY ElementOfSeq
<1>. HIDE DEF q, s
<1>4. SegmentFits(s, q)
  BY <1>2 DEF Fitting
<1>5. BadIn(s) /\ s \in Seq(SegAtoms)
  BY <1>3, GoodSegsAre DEF s
<1>6. s # <<Star, Star>>
  <2>1. ASSUME s = <<Star, Star>> PROVE FALSE
    <3>1. PICK j \in DOMAIN s : s[j].k = "bad"
      BY <1>5 DEF BadIn
    <3>2. s[j] = Star
      BY <2>1, <3>1
    <3>. QED  BY <3>1, <3>2 DEF Star
  <2>. QED  BY <2>1
<1>7. Covers(s, q[1], Fits)
  BY <1>4, <1>6 DEF SegmentFits
<1>. QED  BY <1>5, <1>7, BadCovers

Answer(f, N) == MatchSegs[[pat |-> SplitText(Written(f)), name |-> N, memo |-> {}]].verdict

LEMMA AlternativeAnswers ==
  ASSUME NEW f \in Seq(FlatAtoms), BadsEnd(f), NEW N \in Seq(PlainNames)
  PROVE  LET v == Answer(f, N)
         IN  /\ v \in Verdicts
             /\ v = "match" => Lays(SplitOf(f), N, Fitting)
             /\ v \in {"mismatch", "error"} => ~Lays(SplitOf(f), N, Fitting)
             /\ v = "error" => BadIn(f)
             /\ v = "mismatch" => ~Lays(SplitText(Written(f)), N, Taking({"match", "error", "panic"}))
<1>. DEFINE v == Answer(f, N)
            p == SplitOf(f)
            t == SplitText(Written(f))
            Y == Taking({"match", "error", "panic"})
<1>1. p \in Seq(GoodSegs) /\ t = Mapped(WrittenText, p)
  BY SplitsAs DEF SplitAs
<1>. HIDE DEF p, t
<1>2. /\ t \in Seq(Texts) /\ Len(t) = Len(p) /\ \A i \in 1..Len(p) : t[i] = Written(p[i])
      /\ Lays(t, N, Taking({"match"})) => Lays(p, N, Fitting)
      /\ Lays(p, N, Fitting) => Lays(t, N, Y)
  BY <1>1, WrittenLays
<1>3. v \in Verdicts /\ Right(t, N, t, N, v)
  <2>1. N \in PathNames
    BY PlainPaths
  <2>2. LET w == MatchSegs[[pat |-> t, name |-> N, memo |-> {}]].verdict
        IN  w \in Verdicts /\ Right(t, N, t, N, w)
    BY <1>2, <2>1, SegmentsAreLaid
  <2>. QED  BY <2>2 DEF Answer, t
<1>. HIDE DEF v
<1>4. /\ v = "match" => Lays(t, N, Taking({"match"}))
      /\ v = "mismatch" => ~Lays(t, N, Y)
      /\ v = "error" => Failing(t, N, "error")
  BY <1>3 DEF Right
<1>5. ASSUME v = "error" PROVE BadIn(f) /\ ~Lays(p, N, Fitting)
  <2>1. PICK i \in 1..Len(t), j \in 1..Len(N) : t[i] # GlobStar /\ MatchSegment(t[i], N[j]) = "error"
    BY <1>4, <1>5 DEF Failing
  <2>. DEFINE s == p[i]
              cs == N[j]
  <2>2. i \in 1..Len(p) /\ s \in GoodSegs /\ MatchSegment(Written(s), cs) = "error" /\ cs \in PlainNames
    <3>1. i \in 1..Len(p)
      BY <1>2, <2>1
    <3>. QED  BY <1>1, <1>2, <2>1, <3>1, ElementOfSeq
  <2>. HIDE DEF s, cs
  <2>3. cs \in Seq(Chars) /\ cs \notin {<<".">>, <<".", ".">>}
    BY <2>2 DEF PlainNames
  <2>4. BadIn(s)
    BY <2>2, <2>3, GoodSegsAre, SegmentAnswers
  <2>5. BadIn(p[i])
    BY <2>4 DEF s
  <2>6. BadIn(f)
    <3>1. i \in 1..Len(SplitOf(f)) /\ SplitOf(f) \in Seq(GoodSegs) /\ BadIn(SplitOf(f)[i])
      BY <1>1, <2>2, <2>5 DEF p
    <3>. QED  BY <3>1, BadSegment
  <2>7. ~Lays(p, N, Fitting)
    BY <1>1, <2>2, <2>5, BadUnlaid
  <2>. QED  BY <2>6, <2>7
<1>. QED  BY <1>2, <1>3, <1>4, <1>5 DEF v, p, t

-----------------------------------------------------------------------------
(* All of them.                                                            *)

DenotedBy(f, N) == Covers(SplitOf(f), N, SegmentFits)

LEMMA DenotesIs ==
  ASSUME NEW g \in Seq(GlobAtoms)
  PROVE  \A N : Denotes(g, N) <=> \E f \in Chosen[g] : DenotedBy(f, N)
<1>1. Chosen[g] \subseteq Seq(FlatAtoms)
  BY ChosenIs
<1>2. \A f \in Chosen[g] : Segments(f, LAMBDA a : a.k = "slash") = SplitOf(f)
  BY <1>1, SegmentsAre
<1>3. ASSUME NEW N, NEW f \in Chosen[g]
      PROVE  Covers(Segments(f, LAMBDA a : a.k = "slash"), N, SegmentFits) <=> DenotedBy(f, N)
  BY <1>2 DEF DenotedBy
<1>. QED  BY <1>3 DEF Denotes

LEMMA DenotedLays ==
  ASSUME NEW f \in Seq(FlatAtoms), BadsEnd(f), NEW N \in Seq(PlainNames)
  PROVE  DenotedBy(f, N) <=> Lays(SplitOf(f), N, Fitting)
<1>. DEFINE p == SplitOf(f)
<1>1. p \in Seq(GoodSegs)
  BY SplitsAs DEF SplitAs
<1>. HIDE DEF p
<1>2. Len(p) \in Nat /\ Len(N) \in Nat /\ \A i \in 1..Len(p) : p[i] \in GoodSegs
  BY <1>1, LenProperties, ElementOfSeq
<1>3. ASSUME NEW cut \in [0..Len(p) -> 0..Len(N)], NEW i \in 1..Len(p), cut[i - 1] <= cut[i]
      PROVE  SegmentFits(p[i], SubSeq(N, cut[i - 1] + 1, cut[i])) <=>
             <<p[i], SubSeq(N, cut[i - 1] + 1, cut[i])>> \in Fitting
  <2>. DEFINE a == cut[i - 1]
              b == cut[i]
              s == p[i]
  <2>1. a \in 0..Len(N) /\ b \in 0..Len(N)
    <3>1. i - 1 \in 0..Len(p) /\ i \in 0..Len(p)
      BY <1>2
    <3>. QED  BY <3>1
  <2>2. a \in Nat /\ b \in Nat /\ b <= Len(N) /\ a <= b /\ s \in GoodSegs
    BY <1>2, <1>3, <2>1
  <2>. HIDE DEF a, b, s
  <2>3. SubSeq(N, a + 1, b) \in Seq(PlainNames)
    BY <2>2, PieceIs
  <2>4. <<s, SubSeq(N, a + 1, b)>> \in Fitting <=> SegmentFits(s, SubSeq(N, a + 1, b))
    BY <2>2, <2>3, FittingIs
  <2>. QED  BY <2>4 DEF a, b, s
<1>4. ASSUME Lays(p, N, Fitting) PROVE Covers(p, N, SegmentFits)
  <2>1. PICK cut : Cutting(cut, p, N, Fitting)
    BY <1>4 DEF Lays
  <2>2. /\ cut \in [0..Len(p) -> 0..Len(N)] /\ cut[0] = 0 /\ cut[Len(p)] = Len(N)
        /\ \A i \in 1..Len(p) : cut[i - 1] <= cut[i] /\ <<p[i], SubSeq(N, cut[i - 1] + 1, cut[i])>> \in Fitting
    BY <2>1 DEF Cutting
  <2>3. \A i \in 1..Len(p) : cut[i - 1] <= cut[i] /\ SegmentFits(p[i], SubSeq(N, cut[i - 1] + 1, cut[i]))
    BY <1>3, <2>2
  <2>. QED  BY <2>2, <2>3 DEF Covers
<1>5. ASSUME Covers(p, N, SegmentFits) PROVE Lays(p, N, Fitting)
  <2>1. PICK cut \in [0..Len(p) -> 0..Len(N)] :
          /\ cut[0] = 0 /\ cut[Len(p)] = Len(N)
          /\ \A i \in 1..Len(p) : cut[i - 1] <= cut[i] /\ SegmentFits(p[i], SubSeq(N, cut[i - 1] + 1, cut[i]))
    BY <1>5 DEF Covers
  <2>2. \A i \in 1..Len(p) : cut[i - 1] <= cut[i] /\ <<p[i], SubSeq(N, cut[i - 1] + 1, cut[i])>> \in Fitting
    BY <1>3, <2>1
  <2>. QED  BY <2>1, <2>2 DEF Lays, Cutting
<1>. QED  BY <1>4, <1>5 DEF DenotedBy, p

\* What the verdicts decide.
LEMMA DecidedIs ==
  ASSUME NEW w \in Seq(Verdicts)
  PROVE  LET v == Decided(w)
         IN  /\ v = "match" => \E i \in 1..Len(w) : w[i] = "match"
             /\ v \in {"mismatch", "error"} => \A i \in 1..Len(w) : w[i] \in {"mismatch", "error"}
             /\ v = "error" => \E i \in 1..Len(w) : w[i] = "error"
             /\ v = "mismatch" => \A i \in 1..Len(w) : w[i] = "mismatch"
<1>. DEFINE T == {i \in DOMAIN w : Settles(w[i])}
            v == Decided(w)
<1>1. DOMAIN w = 1..Len(w) /\ \A i \in 1..Len(w) : w[i] \in Verdicts
  BY LenProperties, ElementOfSeq
<1>2. v = IF T # {} THEN w[Least(T)] ELSE IF "error" \in ToSet(w) THEN "error" ELSE "mismatch"
  BY DEF Decided
<1>3. \A i \in 1..Len(w) : i \notin T <=> w[i] \in {"mismatch", "error"}
  BY <1>1 DEF Verdicts, Settles
<1>4. "error" \in ToSet(w) <=> \E i \in 1..Len(w) : w[i] = "error"
  BY <1>1 DEF ToSet
<1>5. T # {} => Least(T) \in 1..Len(w) /\ w[Least(T)] \in {"match", "panic"}
  <2>1. T \subseteq Nat
    BY <1>1
  <2>2. \A i \in T : i \in 1..Len(w) /\ w[i] \in {"match", "panic"}
    BY <1>1 DEF Settles
  <2>. HIDE DEF T
  <2>. QED  BY <2>1, <2>2, LeastIn
<1>6. T = {} => \A i \in 1..Len(w) : i \notin T
  OBVIOUS
<1>. HIDE DEF T, v
<1>7. v = "match" => \E i \in 1..Len(w) : w[i] = "match"
  BY <1>2, <1>5
<1>8. v \in {"mismatch", "error"} => T = {}
  BY <1>2, <1>5
<1>9. v = "error" => \E i \in 1..Len(w) : w[i] = "error"
  BY <1>2, <1>4, <1>8
<1>10. v = "mismatch" => \A i \in 1..Len(w) : w[i] = "mismatch"
  BY <1>2, <1>3, <1>4, <1>6, <1>8
<1>. QED  BY <1>3, <1>6, <1>7, <1>8, <1>9, <1>10 DEF v

LEMMA MatchAnswers ==
  ASSUME NEW g \in Seq(GlobAtoms), Tidy(g), \A f \in Chosen[g] : BadsEnd(f), NEW N \in Seq(PlainNames)
  PROVE  LET v == Match(Written(g), N)
         IN  /\ v = "match" => \E f \in Chosen[g] : Answer(f, N) = "match"
             /\ v \in {"mismatch", "error"} => \A f \in Chosen[g] : Answer(f, N) \in {"mismatch", "error"}
             /\ v = "error" => \E f \in Chosen[g] : Answer(f, N) = "error"
             /\ v = "mismatch" => \A f \in Chosen[g] : Answer(f, N) = "mismatch"
<1>. DEFINE v == Match(Written(g), N)
            alts == Expand[Written(g)]
            call(t) == [pat |-> splitSegments(t), name |-> N, memo |-> {}]
            w == [i \in DOMAIN alts |-> MatchSegs[call(alts[i])].verdict]
<1>1. alts \in Seq(Texts) /\ Expands(g)
  <2>1. Written(g) \in Texts
    BY TextsMapped
  <2>. QED  BY <2>1, ExpandIs, TidyExpands
<1>2. v = Decided(w)
  BY DEF Match
<1>3. Chosen[g] \subseteq Seq(FlatAtoms)
  BY ChosenIs
<1>4. \A f \in Chosen[g] : MatchSegs[call(Written(f))].verdict = Answer(f, N) /\ Answer(f, N) \in Verdicts
  <2>. SUFFICES ASSUME NEW f \in Chosen[g] PROVE MatchSegs[call(Written(f))].verdict = Answer(f, N) /\ Answer(f, N) \in Verdicts
    OBVIOUS
  <2>1. splitSegments(Written(f)) = SplitText(Written(f))
    BY SegmentsAre
  <2>2. Answer(f, N) \in Verdicts
    BY <1>3, AlternativeAnswers
  <2>. QED  BY <2>1, <2>2 DEF Answer
<1>. HIDE DEF v, alts, call
<1>5. Len(alts) \in Nat /\ DOMAIN alts = 1..Len(alts)
  BY <1>1, LenProperties
<1>6. \A i \in 1..Len(alts) : \E f \in Chosen[g] : alts[i] = Written(f)
  <2>1. \A i \in 1..Len(alts) : alts[i] \in ToSet(alts)
    BY <1>5 DEF ToSet
  <2>. QED  BY <1>1, <2>1 DEF Expands, alts
<1>7. \A f \in Chosen[g] : \E i \in 1..Len(alts) : alts[i] = Written(f)
  <2>1. \A f \in Chosen[g] : Written(f) \in ToSet(alts)
    BY <1>1 DEF Expands, alts
  <2>. QED  BY <1>5, <2>1 DEF ToSet
<1>8. \A i \in 1..Len(alts) : w[i] = MatchSegs[call(alts[i])].verdict
  BY <1>5
<1>9. w \in Seq(Verdicts) /\ Len(w) = Len(alts)
  <2>1. \A i \in 1..Len(alts) : w[i] \in Verdicts
    BY <1>4, <1>6, <1>8
  <2>2. w \in [1..Len(alts) -> Verdicts]
    BY <1>5, <2>1
  <2>. HIDE DEF w
  <2>. QED  BY <1>5, <2>2, SeqMade
<1>. HIDE DEF w
<1>10. \A i \in 1..Len(w) : \E f \in Chosen[g] : w[i] = Answer(f, N)
  BY <1>4, <1>6, <1>8, <1>9
<1>11. \A f \in Chosen[g] : \E i \in 1..Len(w) : w[i] = Answer(f, N)
  BY <1>4, <1>7, <1>8, <1>9
<1>12. /\ v = "match" => \E i \in 1..Len(w) : w[i] = "match"
       /\ v \in {"mismatch", "error"} => \A i \in 1..Len(w) : w[i] \in {"mismatch", "error"}
       /\ v = "error" => \E i \in 1..Len(w) : w[i] = "error"
       /\ v = "mismatch" => \A i \in 1..Len(w) : w[i] = "mismatch"
  BY <1>2, <1>9, DecidedIs
<1>13. v = "match" => \E f \in Chosen[g] : Answer(f, N) = "match"
  BY <1>10, <1>12
<1>14. v \in {"mismatch", "error"} => \A f \in Chosen[g] : Answer(f, N) \in {"mismatch", "error"}
  BY <1>11, <1>12
<1>15. v = "error" => \E f \in Chosen[g] : Answer(f, N) = "error"
  BY <1>10, <1>12
<1>16. v = "mismatch" => \A f \in Chosen[g] : Answer(f, N) = "mismatch"
  BY <1>11, <1>12
<1>. QED  BY <1>13, <1>14, <1>15, <1>16 DEF v

\* What Match says of a name is what was meant of it (glob.go:48); a panic in
\* writePosixClass says nothing.
THEOREM MatchIsMeant ==
  ASSUME NEW g \in Seq(GlobAtoms), Tidy(g), \A f \in Chosen[g] : BadsEnd(f), NEW N \in Seq(PlainNames)
  PROVE  LET v == Match(Written(g), N)
         IN  /\ v = "match" => Denotes(g, N)
             /\ v = "mismatch" => ~Denotes(g, N)
             /\ v = "error" => ~Denotes(g, N) /\ \E f \in Chosen[g] : BadIn(f)
<1>. DEFINE v == Match(Written(g), N)
<1>1. /\ v = "match" => \E f \in Chosen[g] : Answer(f, N) = "match"
      /\ v \in {"mismatch", "error"} => \A f \in Chosen[g] : Answer(f, N) \in {"mismatch", "error"}
      /\ v = "error" => \E f \in Chosen[g] : Answer(f, N) = "error"
  BY MatchAnswers
<1>. HIDE DEF v
<1>2. Chosen[g] \subseteq Seq(FlatAtoms)
  BY ChosenIs
<1>3. ASSUME NEW f \in Chosen[g]
      PROVE  /\ Answer(f, N) = "match" => DenotedBy(f, N)
             /\ Answer(f, N) \in {"mismatch", "error"} => ~DenotedBy(f, N)
             /\ Answer(f, N) = "error" => BadIn(f)
  <2>1. f \in Seq(FlatAtoms) /\ BadsEnd(f)
    BY <1>2
  <2>2. DenotedBy(f, N) <=> Lays(SplitOf(f), N, Fitting)
    BY <2>1, DenotedLays
  <2>3. /\ Answer(f, N) = "match" => Lays(SplitOf(f), N, Fitting)
        /\ Answer(f, N) \in {"mismatch", "error"} => ~Lays(SplitOf(f), N, Fitting)
        /\ Answer(f, N) = "error" => BadIn(f)
    BY <2>1, AlternativeAnswers
  <2>. QED  BY <2>2, <2>3
<1>4. Denotes(g, N) <=> \E f \in Chosen[g] : DenotedBy(f, N)
  BY DenotesIs
<1>. QED  BY <1>1, <1>3, <1>4 DEF v

\* An alternative that is one malformed segment is in error for each name of
\* one segment (glob.go:128).
LEMMA TrialFinds ==
  ASSUME NEW g \in Seq(SegAtoms), BadIn(g), BadsEnd(g), NEW cs \in PlainNames, cs[1] # "."
  PROVE  Answer(g, <<cs>>) \notin {"match", "mismatch"}
<1>. DEFINE N == <<cs>>
            t == Written(g)
            p == <<g>>
            ts == <<t>>
            V == {"match", "error", "panic"}
            z == << >>
<1>1. g \in Seq(FlatAtoms) /\ g \in Seq(GlobAtoms) /\ FlatAtoms \ Slashes = SegAtoms /\ Texted(SegAtoms)
  <2>1. SegAtoms \subseteq FlatAtoms /\ FlatAtoms \subseteq GlobAtoms
    BY FlatFacts DEF FlatAtoms
  <2>. QED  BY <2>1, FlatFacts, GlobTexted
<1>2. Len(g) \in Nat /\ DOMAIN g = 1..Len(g) /\ \A i \in 1..Len(g) : g[i] \in SegAtoms
  BY LenProperties, ElementOfSeq
<1>3. g # << >> /\ Ended(g) /\ g # <<Star, Star>>
  <2>1. PICK i \in 1..Len(g) : g[i].k = "bad"
    BY <1>2 DEF BadIn
  <2>2. g # << >>
    BY <2>1
  <2>3. Ended(g)
    <3>1. ASSUME NEW j \in 1..Len(g), g[j].k = "bad", j # Len(g) PROVE FALSE
      <4>1. g[j + 1] = Slash
        BY <3>1 DEF BadsEnd
      <4>. DEFINE n == Len(g)
      <4>3. j + 1 \in 1..n
        <5>1. n \in Nat /\ j \in 1..n /\ j # n
          BY <1>2, <3>1
        <5>. HIDE DEF n
        <5>. QED  BY <5>1
      <4>2. g[j + 1] \in SegAtoms
        BY <1>2, <4>3
      <4>. QED  BY <4>1, <4>2 DEF SegAtoms, Slash
    <3>. QED  BY <3>1 DEF Ended
  <2>4. ASSUME g = <<Star, Star>> PROVE FALSE
    <3>1. g[i] = Star
      BY <2>1, <2>4
    <3>. QED  BY <2>1, <3>1 DEF Star
  <2>. QED  BY <2>2, <2>3, <2>4
<1>4. SplitOf(g) = p
  <2>1. Pieces(g, CutsAt(g, Slashes)) = p
    <3>1. g \in Seq(FlatAtoms \ Slashes)
      BY <1>1
    <3>. QED  BY <3>1, SplitNowhere
  <2>2. Kept(p) = Single(g)
    BY <1>1, KeptIs
  <2>. QED  BY <1>3, <2>1, <2>2 DEF SplitOf, Single
<1>5. SplitText(t) = ts /\ t \in Texts /\ p \in Seq(GoodSegs) /\ WrittenText[g] = t
  <2>1. SplitText(t) = Mapped(WrittenText, p) /\ p \in Seq(GoodSegs)
    BY <1>1, <1>4, SplitsAs DEF SplitAs
  <2>2. Mapped(WrittenText, p) = <<WrittenText[g]>>
    BY FlatFacts, MappedOne
  <2>3. g \in GoodSegs
    BY <1>3 DEF GoodSegs
  <2>4. WrittenText[g] = t /\ t \in Texts
    BY <2>3, GoodSegsAre
  <2>. QED  BY <2>1, <2>2, <2>4
<1>6. N \in Seq(PlainNames) /\ N \in PathNames /\ N # << >> /\ Head(N) = cs /\ Tail(N) = z
  <2>1. N \in Seq(PlainNames)
    OBVIOUS
  <2>2. N # << >> /\ Head(N) = cs /\ Tail(N) = z
    OBVIOUS
  <2>3. N \in PathNames
    <3>. HIDE DEF N
    <3>. QED  BY <2>1, PlainPaths
  <2>. QED  BY <2>1, <2>2, <2>3
<1>7. cs \in Seq(Chars) /\ cs \notin {<<".">>, <<".", ".">>}
  BY DEF PlainNames
<1>8. t # GlobStar /\ MatchSegment(t, cs) \in V
  <2>1. MatchSegment(t, cs) \in {"error", "panic"}
    BY <1>3, <1>7, SegmentAnswers
  <2>2. t # GlobStar
    BY <1>3, StarSegment
  <2>. QED  BY <2>1, <2>2
<1>9. Lays(ts, N, Taking(V))
  <2>1. ts \in Seq(Texts) /\ ts # << >> /\ Head(ts) = t /\ Tail(ts) = z
    <3>. HIDE DEF t
    <3>. QED  BY <1>5
  <2>2. Lays(z, z, Taking(V))
    <3>1. z \in Seq(PlainNames)
      OBVIOUS
    <3>2. z = << >>
      OBVIOUS
    <3>. HIDE DEF z, V
    <3>3. Lays(<< >>, z, Taking(V)) <=> z = << >>
      BY <3>1, LaysNothing
    <3>. QED  BY <3>2, <3>3
  <2>. HIDE DEF ts, V, N, z, t
  <2>3. Lays(ts, N, Taking(V)) <=> N # << >> /\ MatchSegment(Head(ts), Head(N)) \in V /\ Lays(Tail(ts), Tail(N), Taking(V))
    BY <1>6, <1>8, <2>1, SegLays
  <2>. QED  BY <1>6, <1>8, <2>1, <2>2, <2>3
<1>10. Answer(g, N) \notin {"match", "mismatch"}
  <2>1. /\ Answer(g, N) = "match" => Lays(SplitOf(g), N, Fitting)
        /\ Answer(g, N) = "mismatch" => ~Lays(SplitText(Written(g)), N, Taking({"match", "error", "panic"}))
    <3>. HIDE DEF N
    <3>. QED  BY <1>1, <1>6, AlternativeAnswers
  <2>2. ~Lays(p, N, Fitting)
    <3>. DEFINE i == 1
    <3>1. i \in 1..Len(p) /\ p[i] = g
      OBVIOUS
    <3>. HIDE DEF i, p, N
    <3>2. BadIn(p[i])
      BY <3>1
    <3>. QED  BY <1>5, <3>1, <3>2, BadUnlaid
  <2>. QED  BY <1>4, <1>5, <1>9, <2>1, <2>2
<1>. QED  BY <1>10

-----------------------------------------------------------------------------
(* Regexes.                                                                *)

Modes == [inClass : BOOLEAN, from : Nat, escape : BOOLEAN, quote : BOOLEAN]
Idle(s) == ~s.inClass /\ ~s.escape /\ ~s.quote

LEMMA ReadType ==
  ASSUME NEW s \in Modes, NEW p, NEW i \in Nat, NEW q \in BOOLEAN
  PROVE  Read(s, p, i, q) \in Modes
  BY DEF Read, Modes

Scanning(p, n, q, s) == s = [j \in 1..n |-> IF j = 1 THEN Start ELSE Read(s[j - 1], p, j - 1, q)]

LEMMA ScanningExists ==
  ASSUME NEW p, NEW n \in Nat, NEW q \in BOOLEAN
  PROVE  \E s : Scanning(p, n, q, s)
<1>. DEFINE step == [r \in Modes \X Nat |-> IF r[2] = 0 THEN Start ELSE Read(r[1], p, r[2] - 1, q)]
<1>1. Start \in Modes
  BY DEF Start, Modes
<1>2. Maps(step, Modes \X Nat, Modes)
  <2>1. ASSUME NEW r \in Modes \X Nat
        PROVE  (IF r[2] = 0 THEN Start ELSE Read(r[1], p, r[2] - 1, q)) \in Modes
    <3>1. r[1] \in Modes /\ r[2] \in Nat /\ (r[2] # 0 => r[2] - 1 \in Nat)
      OBVIOUS
    <3>. QED  BY <1>1, <3>1, ReadType
  <2>. QED  BY <2>1 DEF Maps
<1>3. \A s \in Modes, j \in Nat \ {0} : step[<<s, j>>] = Read(s, p, j - 1, q)
  OBVIOUS
<1>. HIDE DEF step
<1>. DEFINE one == 1
<1>4. PICK s : Iterates(s, one, n, Start, step, Modes)
  <2>1. one \in Nat
    OBVIOUS
  <2>. HIDE DEF one
  <2>. QED  BY <1>1, <1>2, <2>1, IterationExists
<1>5. ASSUME NEW j \in 1..n PROVE s[j] = IF j = 1 THEN Start ELSE Read(s[j - 1], p, j - 1, q)
  <2>1. j \in Nat \ {0} /\ (j # 1 => s[j - 1] \in Modes)
    BY <1>4 DEF Iterates
  <2>. QED  BY <1>3, <1>4, <2>1 DEF Iterates
<1>6. s = [j \in 1..n |-> s[j]]
  BY <1>4 DEF Iterates
<1>7. [j \in 1..n |-> s[j]] = [j \in 1..n |-> IF j = 1 THEN Start ELSE Read(s[j - 1], p, j - 1, q)]
  BY <1>5
<1>8. s = [j \in 1..n |-> IF j = 1 THEN Start ELSE Read(s[j - 1], p, j - 1, q)]
  BY <1>6, <1>7, Zenon
<1>. QED  BY <1>8 DEF Scanning

LEMMA ScannedIs ==
  ASSUME NEW p, NEW n \in Nat \ {0}, NEW q \in BOOLEAN
  PROVE  \E s : Scanning(p, n, q, s) /\ Scanned(p, n, q) = s[n]
<1>. DEFINE F(s)  == Scanning(p, n, q, s)
            the == CHOOSE s : F(s)
<1>1. Scanned(p, n, q) = the[n]
  BY DEF Scanned, Scanning
<1>2. F(the)
  <2>1. \E s : F(s)
    BY ScanningExists
  <2>. HIDE DEF F
  <2>. QED  BY <2>1
<1>. HIDE DEF the
<1>. QED  BY <1>1, <1>2

\* The state before a character is read from the state before the last one.
LEMMA ScannedSteps ==
  ASSUME NEW p, NEW i \in Nat \ {0}, NEW q \in BOOLEAN
  PROVE  /\ Scanned(p, 1, q) = Start
         /\ Scanned(p, i + 1, q) = Read(Scanned(p, i, q), p, i, q)
<1>1. Scanned(p, 1, q) = Start
  <2>. DEFINE one == 1
  <2>0. one \in Nat \ {0} /\ one \in Nat /\ one \in 1..one
    OBVIOUS
  <2>1. PICK s : Scanning(p, one, q, s) /\ Scanned(p, one, q) = s[one]
    <3>. HIDE DEF one
    <3>. QED  BY <2>0, ScannedIs
  <2>2. \A j \in 1..one : s[j] = IF j = 1 THEN Start ELSE Read(s[j - 1], p, j - 1, q)
    <3>. HIDE DEF one
    <3>1. s = [j \in 1..one |-> IF j = 1 THEN Start ELSE Read(s[j - 1], p, j - 1, q)]
      BY <2>1 DEF Scanning
    <3>. QED  BY <3>1, ZenonT(30)
  <2>. QED  BY <2>1, <2>2
<1>. DEFINE k == i + 1
<1>2. k \in Nat /\ i \in Nat /\ k \in Nat \ {0} /\ i \in 1..k /\ k \in 1..k /\ k - 1 = i /\ k # 1
  OBVIOUS
<1>3. PICK s : Scanning(p, i, q, s) /\ Scanned(p, i, q) = s[i]
  BY ScannedIs
<1>. HIDE DEF k
<1>4. PICK t : Scanning(p, k, q, t) /\ Scanned(p, k, q) = t[k]
  BY <1>2, ScannedIs
<1>5. \A j \in 1..i : s[j] = IF j = 1 THEN Start ELSE Read(s[j - 1], p, j - 1, q)
  <2>1. s = [j \in 1..i |-> IF j = 1 THEN Start ELSE Read(s[j - 1], p, j - 1, q)]
    BY <1>3 DEF Scanning
  <2>. QED  BY <2>1, ZenonT(30)
<1>6. \A j \in 1..k : t[j] = IF j = 1 THEN Start ELSE Read(t[j - 1], p, j - 1, q)
  <2>1. t = [j \in 1..k |-> IF j = 1 THEN Start ELSE Read(t[j - 1], p, j - 1, q)]
    BY <1>4 DEF Scanning
  <2>. QED  BY <2>1, ZenonT(30)
<1>7. t[i] = s[i]
  <2>. DEFINE T == {j \in 1..i : t[j] = s[j]}
  <2>1. 1 \in T
    BY <1>2, <1>5, <1>6
  <2>2. ASSUME NEW j \in 1..i, j < i, j \in T PROVE j + 1 \in T
    <3>1. j + 1 \in 1..i /\ j + 1 \in 1..k /\ j + 1 # 1 /\ (j + 1) - 1 = j
      BY <1>2, <2>2
    <3>2. t[j + 1] = Read(t[j], p, j, q) /\ s[j + 1] = Read(s[j], p, j, q)
      BY <1>5, <1>6, <3>1
    <3>. QED  BY <2>2, <3>1, <3>2
  <2>. HIDE DEF T
  <2>3. 1..i \subseteq T
    BY <2>1, <2>2, RangeInduction
  <2>. QED  BY <2>3 DEF T
<1>8. t[k] = Read(t[i], p, i, q)
  BY <1>2, <1>6
<1>. QED  BY <1>1, <1>3, <1>4, <1>7, <1>8 DEF k

LEMMA ScannedFirst ==
  ASSUME NEW p, NEW q \in BOOLEAN
  PROVE  Scanned(p, 1, q) = Start
<1>. DEFINE one == 1
<1>1. one \in Nat \ {0}
  OBVIOUS
<1>. HIDE DEF one
<1>. QED  BY <1>1, ScannedSteps

LEMMA ScannedType ==
  ASSUME NEW p, NEW i \in Nat \ {0}, NEW q \in BOOLEAN
  PROVE  Scanned(p, i, q) \in Modes
<1>. DEFINE T == {j \in 1..i : Scanned(p, j, q) \in Modes}
<1>1. 1 \in T
  <2>1. Scanned(p, 1, q) = Start /\ 1 \in 1..i
    BY ScannedSteps
  <2>2. Start \in Modes
    BY DEF Start, Modes
  <2>. QED  BY <2>1, <2>2
<1>2. ASSUME NEW j \in 1..i, j < i, j \in T PROVE j + 1 \in T
  <2>1. j \in Nat \ {0} /\ j \in Nat /\ j + 1 \in 1..i
    BY <1>2
  <2>2. Scanned(p, j + 1, q) = Read(Scanned(p, j, q), p, j, q)
    BY <2>1, ScannedSteps
  <2>. QED  BY <1>2, <2>1, <2>2, ReadType
<1>. HIDE DEF T
<1>3. 1..i \subseteq T
  BY <1>1, <1>2, RangeInduction
<1>. QED  BY <1>3 DEF T

-----------------------------------------------------------------------------
(* Reading one character.                                                  *)

Escapes(s) == ~s.inClass /\ s.escape /\ ~s.quote
InClass(s, from) == s.inClass /\ ~s.quote /\ s.from = from
WithinQuote(s)  == ~s.inClass /\ s.quote

Knows(quotes) == quotes

LEMMA ReadIdle ==
  ASSUME NEW s \in Modes, NEW p, NEW i \in Nat, NEW q \in BOOLEAN, Idle(s)
  PROVE  /\ p[i] \notin {"\\", "["} => Idle(Read(s, p, i, q))
         /\ p[i] = "\\" /\ i < Len(p) => Escapes(Read(s, p, i, q))
         /\ p[i] = "[" => InClass(Read(s, p, i, q), i) /\ ~Read(s, p, i, q).escape
<1>1. CASE p[i] \notin {"\\", "["}
  BY <1>1 DEF Idle, Read, Closes, Modes
<1>2. CASE p[i] = "\\"
  BY <1>2 DEF Idle, Read, Closes, Modes, Escapes
<1>3. CASE p[i] = "["
  BY <1>3 DEF Idle, Read, Closes, Modes, InClass
<1>. QED  BY <1>1, <1>2, <1>3

LEMMA ReadEscaped ==
  ASSUME NEW s \in Modes, NEW p, NEW i \in Nat, NEW q \in BOOLEAN, Escapes(s)
  PROVE  /\ p[i] # "Q" \/ ~Knows(q) => Idle(Read(s, p, i, q))
         /\ p[i] = "Q" /\ Knows(q) => WithinQuote(Read(s, p, i, q)) /\ ~Read(s, p, i, q).escape
  BY DEF Escapes, Idle, Read, Modes, WithinQuote, Knows

LEMMA ReadInClass ==
  ASSUME NEW s \in Modes, NEW p, NEW i \in Nat, NEW q \in BOOLEAN, NEW from \in Nat, InClass(s, from)
  PROVE  /\ s.escape => InClass(Read(s, p, i, q), from) /\ ~Read(s, p, i, q).escape
         /\ ~s.escape /\ p[i] = "\\" /\ i < Len(p) =>
              InClass(Read(s, p, i, q), from) /\ Read(s, p, i, q).escape
         /\ ~s.escape /\ p[i] = "]" /\ i > from + 1 => Idle(Read(s, p, i, q))
         /\ ~s.escape /\ p[i] # "\\" /\ ~(p[i] = "]" /\ i > from + 1) => Read(s, p, i, q) = s
<1>1. CASE s.escape
  BY <1>1 DEF InClass, Read, Modes
<1>2. CASE ~s.escape /\ p[i] = "\\"
  <2>1. SUFFICES ASSUME i < Len(p)
                 PROVE  InClass(Read(s, p, i, q), from) /\ Read(s, p, i, q).escape
    BY <1>2
  <2>. QED  BY <1>2, <2>1 DEF InClass, Modes, Read, Closes
<1>3. CASE ~s.escape /\ p[i] # "\\"
  BY <1>3 DEF InClass, Idle, Read, Closes, Modes
<1>. QED  BY <1>1, <1>2, <1>3

LEMMA ReadQuoted ==
  ASSUME NEW s \in Modes, NEW p, NEW i \in Nat, NEW q \in BOOLEAN, Knows(q), WithinQuote(s)
  PROVE  /\ ~s.escape /\ (p[i] = "\\" /\ i < Len(p) => p[i + 1] # "E") =>
              WithinQuote(Read(s, p, i, q)) /\ ~Read(s, p, i, q).escape
         /\ ~s.escape /\ p[i] = "\\" /\ i < Len(p) /\ p[i + 1] = "E" =>
              WithinQuote(Read(s, p, i, q)) /\ Read(s, p, i, q).escape
         /\ s.escape => Idle(Read(s, p, i, q))
<1>1. CASE s.escape
  BY <1>1 DEF Knows, WithinQuote, Read, Modes, Idle
<1>2. CASE ~s.escape /\ p[i] = "\\"
  BY <1>2 DEF Knows, WithinQuote, Read, Closes, Modes
<1>3. CASE ~s.escape /\ p[i] # "\\"
  BY <1>3 DEF Knows, WithinQuote, Read, Closes, Modes
<1>. QED  BY <1>1, <1>2, <1>3

\* The scanner that knows of no literals.
LEMMA ReadPlain ==
  ASSUME NEW s \in Modes, NEW p, NEW i \in Nat, NEW q \in BOOLEAN, ~Knows(q), ~s.inClass, ~s.quote, p[i] # "["
  PROVE  /\ ~Read(s, p, i, q).inClass /\ ~Read(s, p, i, q).quote
         /\ p[i] # "\\" \/ s.escape => ~Read(s, p, i, q).escape
<1>1. CASE s.escape
  BY <1>1 DEF Knows, Read, Modes
<1>2. CASE ~s.escape /\ p[i] = "\\"
  BY <1>2 DEF Knows, Read, Modes
<1>3. CASE ~s.escape /\ p[i] # "\\"
  BY <1>3 DEF Knows, Read, Closes, Modes
<1>. QED  BY <1>1, <1>2, <1>3

-----------------------------------------------------------------------------
(* Reading a node that stands after b characters.                          *)

Placed(p, b, t) ==
  /\ p \in Seq(STRING) /\ b \in Nat /\ t \in Seq(STRING) /\ b + Len(t) <= Len(p)
  /\ \A i \in 1..Len(t) : p[b + i] = t[i]

\* Before the i-th character of the node.
ScannedAt(p, b, i, q) == Scanned(p, b + i, q)

LEMMA AtSteps ==
  ASSUME NEW p, NEW b, NEW t, Placed(p, b, t), NEW i \in 1..Len(t), NEW q \in BOOLEAN
  PROVE  /\ b + i \in Nat /\ i \in Nat /\ p[b + i] = t[i] /\ b + i <= Len(p) /\ b \in Nat
         /\ i < Len(t) => b + i < Len(p) /\ p[b + i + 1] = t[i + 1]
         /\ ScannedAt(p, b, i, q) \in Modes
         /\ ScannedAt(p, b, i + 1, q) = Read(ScannedAt(p, b, i, q), p, b + i, q)
<1>1. b \in Nat /\ Len(t) \in Nat /\ Len(p) \in Nat /\ i \in Nat
  BY LenProperties DEF Placed
<1>2. b + i \in Nat \ {0} /\ b + i \in Nat /\ b + (i + 1) = (b + i) + 1 /\ b + i <= Len(p)
  BY <1>1 DEF Placed
<1>3. ASSUME i < Len(t) PROVE b + i < Len(p) /\ p[b + i + 1] = t[i + 1]
  <2>1. i + 1 \in 1..Len(t) /\ b + i + 1 = b + (i + 1)
    BY <1>1, <1>3
  <2>. QED  BY <1>1, <2>1 DEF Placed
<1>4. Scanned(p, b + i, q) \in Modes
  BY <1>2, ScannedType
<1>5. Scanned(p, (b + i) + 1, q) = Read(Scanned(p, b + i, q), p, b + i, q)
  <2>. DEFINE k == b + i
  <2>1. k \in Nat \ {0}
    BY <1>2
  <2>. HIDE DEF k
  <2>2. Scanned(p, k + 1, q) = Read(Scanned(p, k, q), p, k, q)
    BY <2>1, ScannedSteps
  <2>. QED  BY <2>2 DEF k
<1>. QED  BY <1>1, <1>2, <1>3, <1>4, <1>5 DEF Placed, ScannedAt

LEMMA BareRead ==
  ASSUME NEW p, NEW b, NEW t, Placed(p, b, t), NEW q \in BOOLEAN, NEW k \in 1..Len(t),
         Idle(ScannedAt(p, b, k, q)), \A i \in k..Len(t) : t[i] \notin {"\\", "["}
  PROVE  \A i \in k..(Len(t) + 1) : Idle(ScannedAt(p, b, i, q))
<1>. DEFINE n == Len(t) + 1
            T == {i \in k..n : Idle(ScannedAt(p, b, i, q))}
<1>1. Len(t) \in Nat /\ k \in Nat /\ n \in Nat /\ k \in k..n
  BY LenProperties DEF Placed
<1>2. k \in T
  BY <1>1
<1>3. ASSUME NEW i \in k..n, i < n, i \in T PROVE i + 1 \in T
  <2>1. i \in 1..Len(t) /\ i \in k..Len(t) /\ i + 1 \in k..n
    BY <1>1, <1>3
  <2>2. Idle(Read(ScannedAt(p, b, i, q), p, b + i, q))
    <3>1. /\ b + i \in Nat /\ p[b + i] = t[i] /\ ScannedAt(p, b, i, q) \in Modes
      BY <2>1, AtSteps
    <3>2. Idle(ScannedAt(p, b, i, q)) /\ p[b + i] \notin {"\\", "["}
      BY <1>3, <2>1, <3>1
    <3>. QED  BY <3>1, <3>2, ReadIdle
  <2>3. ScannedAt(p, b, i + 1, q) = Read(ScannedAt(p, b, i, q), p, b + i, q)
    BY <2>1, AtSteps
  <2>. QED  BY <2>1, <2>2, <2>3
<1>. HIDE DEF T, n
<1>4. k..n \subseteq T
  BY <1>1, <1>2, <1>3, RangeInduction
<1>. QED  BY <1>4 DEF T, n

LEMMA PairRead ==
  ASSUME NEW p, NEW b, NEW t, Placed(p, b, t), NEW q \in BOOLEAN,
         Idle(ScannedAt(p, b, 1, q)), Len(t) >= 2, t[1] = "\\"
  PROVE  /\ Escapes(ScannedAt(p, b, 2, q))
         /\ t[2] # "Q" \/ ~Knows(q) => Idle(ScannedAt(p, b, 3, q))
         /\ t[2] = "Q" /\ Knows(q)  => WithinQuote(ScannedAt(p, b, 3, q)) /\ ~ScannedAt(p, b, 3, q).escape
<1>1. Len(t) \in Nat /\ 1 \in 1..Len(t) /\ 2 \in 1..Len(t) /\ 1 < Len(t) /\ 1 + 1 = 2 /\ 2 + 1 = 3
  BY LenProperties DEF Placed
<1>2. /\ b + 1 \in Nat /\ p[b + 1] = t[1] /\ b + 1 < Len(p) /\ ScannedAt(p, b, 1, q) \in Modes
      /\ ScannedAt(p, b, 2, q) = Read(ScannedAt(p, b, 1, q), p, b + 1, q)
  BY <1>1, AtSteps
<1>3. Escapes(ScannedAt(p, b, 2, q))
  BY <1>2, ReadIdle
<1>4. /\ b + 2 \in Nat /\ p[b + 2] = t[2] /\ ScannedAt(p, b, 2, q) \in Modes
      /\ ScannedAt(p, b, 3, q) = Read(ScannedAt(p, b, 2, q), p, b + 2, q)
  BY <1>1, AtSteps
<1>. QED  BY <1>3, <1>4, ReadEscaped

\* What a class is made of.
ClassShape(t, esc) ==
  /\ Len(t) \in Nat /\ Len(t) > 2 /\ t[1] = "[" /\ t[Len(t)] = "]" /\ DOMAIN t = 1..Len(t)
  /\ \A i \in 2..(Len(t) - 1) : i \in esc <=> t[i] = "\\" /\ i - 1 \notin esc
  /\ \A i \in esc : t[i + 1] \notin {"<", ">", "b", "Q"}
  /\ 0 \notin esc /\ 1 \notin esc /\ Len(t) \notin esc /\ Len(t) - 1 \notin esc
  /\ \A i \in Unescaped(t, esc, "]"), o \in Unescaped(t, esc, "[") : i = o + 1 => i = 2

LEMMA ClassParts ==
  ASSUME NEW t \in Seq(STRING), NEW esc, esc \subseteq 2..(Len(t) - 2), IsClass(t, esc)
  PROVE  ClassShape(t, esc)
<1>. DEFINE n == Len(t)
<1>1. /\ n > 2 /\ t[1] = "[" /\ t[n] = "]"
      /\ \A i \in 2..(n - 1) : i \in esc <=> t[i] = "\\" /\ i - 1 \notin esc
      /\ \A i \in esc : t[i + 1] \notin {"<", ">", "b", "Q"}
      /\ \A i \in Unescaped(t, esc, "]") : StandsFirst(t, esc, i) => i = 2 \/ (i = 3 /\ t[2] = "^")
  BY DEF IsClass
<1>2. n \in Nat /\ DOMAIN t = 1..n
  BY LenProperties
<1>3. 0 \notin esc /\ 1 \notin esc /\ n \notin esc /\ n - 1 \notin esc
  <2>1. esc \subseteq 2..(n - 2)
    OBVIOUS
  <2>. HIDE DEF n
  <2>. QED  BY <1>2, <2>1
<1>4. ASSUME NEW i \in Unescaped(t, esc, "]"), NEW o \in Unescaped(t, esc, "["), i = o + 1 PROVE i = 2
  <2>1. StandsFirst(t, esc, i)
    BY <1>4 DEF StandsFirst
  <2>2. t[o] = "[" /\ o \in 1..n
    BY <1>2 DEF Unescaped
  <2>3. i = 2 \/ (i = 3 /\ t[2] = "^")
    BY <1>1, <2>1
  <2>4. CASE i = 3 /\ t[2] = "^"
    <3>1. o = 2
      BY <1>4, <2>2, <2>4
    <3>. QED  BY <2>2, <2>4, <3>1
  <2>. QED  BY <2>3, <2>4
<1>. QED  BY <1>1, <1>2, <1>3, <1>4 DEF ClassShape

LEMMA SeenSteps ==
  ASSUME NEW t \in Seq(STRING), NEW esc, esc \subseteq 2..(Len(t) - 2), IsClass(t, esc), NEW i \in 2..Len(t)
  PROVE  /\ Seen(t, esc, 2)
         /\ i - 1 \in esc \/ t[i] \notin {"[", "]"} => (Seen(t, esc, i + 1) <=> Seen(t, esc, i))
         /\ i - 1 \notin esc /\ t[i] = "[" => Seen(t, esc, i + 1)
         /\ i - 1 \notin esc /\ t[i] = "]" => (Seen(t, esc, i + 1) <=> i = 2)
<1>. DEFINE U == Unescaped(t, esc, "[")
            V == Unescaped(t, esc, "]")
            Open(k, m) == k < m /\ \A j \in V : j \in (k + 1)..(m - 1) => j = 2
            n == Len(t)
<1>0. ClassShape(t, esc)
  BY ClassParts
<1>1. U \subseteq Nat /\ V \subseteq Nat /\ i \in Nat /\ i > 1 /\ 1 \in U
  <2>1. U \subseteq DOMAIN t /\ V \subseteq DOMAIN t
    BY DEF Unescaped
  <2>2. n \in Nat /\ n > 2 /\ DOMAIN t = 1..n /\ t[1] = "[" /\ 0 \notin esc
    BY <1>0 DEF ClassShape
  <2>3. 1 \in 1..n /\ 1 - 1 = 0
    <3>. HIDE DEF n
    <3>. QED  BY <2>2
  <2>4. 1 \in U
    BY <2>2, <2>3 DEF Unescaped
  <2>. QED  BY <2>1, <2>2, <2>4
<1>2. /\ i \in U <=> i - 1 \notin esc /\ t[i] = "["
      /\ i \in V <=> i - 1 \notin esc /\ t[i] = "]"
  <2>1. n \in Nat /\ DOMAIN t = 1..n
    BY <1>0 DEF ClassShape
  <2>2. i \in 1..n
    <3>. HIDE DEF n
    <3>. QED  BY <2>1
  <2>. QED  BY <2>1, <2>2 DEF Unescaped
<1>3. \A m : Seen(t, esc, m) <=> \E k \in U : Open(k, m)
  BY DEF Seen
<1>. HIDE DEF U, V
<1>4. Seen(t, esc, 2)
  <2>1. Open(1, 2)
    BY <1>1
  <2>. QED  BY <1>1, <1>3, <2>1
<1>5. ASSUME i \notin U, i \notin V, NEW k \in U PROVE Open(k, i + 1) <=> Open(k, i)
  <2>1. k \in Nat /\ (k < i + 1 <=> k < i)
    BY <1>1, <1>5
  <2>2. \A j \in V : j \in (k + 1)..((i + 1) - 1) <=> j \in (k + 1)..(i - 1)
    BY <1>1, <1>5, <2>1
  <2>. QED  BY <2>1, <2>2
<1>6. ASSUME i \in U PROVE Seen(t, esc, i + 1)
  <2>1. Open(i, i + 1)
    BY <1>1
  <2>. QED  BY <1>3, <1>6, <2>1
<1>7. ASSUME i \in V, i \notin U PROVE Seen(t, esc, i + 1) <=> i = 2
  <2>1. ASSUME i = 2 PROVE Open(1, i + 1)
    BY <1>1, <2>1
  <2>2. ASSUME NEW k \in U, Open(k, i + 1) PROVE i = 2
    <3>1. k \in Nat /\ k < i
      BY <1>1, <1>7, <2>2
    <3>2. i \in (k + 1)..((i + 1) - 1)
      BY <1>1, <3>1
    <3>. QED  BY <1>7, <2>2, <3>2
  <2>. QED  BY <1>1, <1>3, <2>1, <2>2
<1>. HIDE DEF Open
<1>8. ASSUME i \notin U, i \notin V PROVE Seen(t, esc, i + 1) <=> Seen(t, esc, i)
  BY <1>3, <1>5, <1>8
<1>. QED  BY <1>2, <1>4, <1>6, <1>7, <1>8

\* Outside of literals.
LEMMA ReadAnywhere ==
  ASSUME NEW s \in Modes, NEW p, NEW k \in Nat, NEW q \in BOOLEAN, ~s.quote
  PROVE  LET r == Read(s, p, k, q)
         IN  /\ r \in Modes
             /\ s.escape => /\ r.inClass = s.inClass /\ r.from = s.from /\ ~r.escape
                            /\ p[k] # "Q" => ~r.quote
             /\ ~s.escape /\ p[k] = "\\" /\ k < Len(p) =>
                  r.inClass = s.inClass /\ r.from = s.from /\ r.escape /\ ~r.quote
             /\ ~s.escape /\ p[k] = "[" =>
                  r.inClass /\ r.from = (IF s.inClass THEN s.from ELSE k) /\ ~r.escape /\ ~r.quote
             /\ ~s.escape /\ p[k] = "]" /\ s.inClass /\ k > s.from + 1 => Idle(r)
             /\ ~s.escape /\ p[k] \notin {"\\", "["} /\ ~(p[k] = "]" /\ s.inClass /\ k > s.from + 1) => r = s
<1>1. Read(s, p, k, q) \in Modes
  BY ReadType
<1>2. CASE s.escape
  BY <1>1, <1>2 DEF Read, Modes
<1>3. CASE ~s.escape /\ p[k] = "\\"
  <2>. DEFINE r == Read(s, p, k, q)
  <2>1. ASSUME k < Len(p) PROVE r.inClass = s.inClass /\ r.from = s.from /\ r.escape /\ ~r.quote
    <3>1. CASE s.inClass
      BY <1>3, <2>1, <3>1 DEF Read, Closes, Modes
    <3>2. CASE ~s.inClass
      BY <1>3, <2>1, <3>2 DEF Read, Closes, Modes
    <3>. QED  BY <3>1, <3>2
  <2>. HIDE DEF r
  <2>. QED  BY <1>1, <1>3, <2>1 DEF r
<1>4. CASE ~s.escape /\ p[k] = "["
  <2>1. CASE s.inClass
    BY <1>1, <1>4, <2>1 DEF Read, Closes, Modes
  <2>2. CASE ~s.inClass
    BY <1>1, <1>4, <2>2 DEF Read, Closes, Modes
  <2>. QED  BY <2>1, <2>2
<1>5. CASE ~s.escape /\ p[k] \notin {"\\", "["}
  BY <1>1, <1>5 DEF Read, Closes, Modes, Idle
<1>. QED  BY <1>2, <1>3, <1>4, <1>5

\* In a class: the scanner is inside just where what it reads is seen as such,
\* having entered at a "[" that was not closed since.
AsSeen(s, t, esc, b, i) ==
  /\ s \in Modes /\ ~s.quote /\ (s.escape <=> i - 1 \in esc)
  /\ s.inClass <=> Seen(t, esc, i)
  /\ s.inClass => \E f \in Unescaped(t, esc, "[") :
       f < i /\ s.from = b + f /\ \A j \in Unescaped(t, esc, "]") : j \in (f + 1)..(i - 1) => j = 2

LEMMA AsSeenSteps ==
  ASSUME NEW p, NEW b, NEW t, Placed(p, b, t), NEW q \in BOOLEAN,
         NEW esc, esc \subseteq 2..(Len(t) - 2), IsClass(t, esc), NEW i \in 2..Len(t),
         AsSeen(ScannedAt(p, b, i, q), t, esc, b, i)
  PROVE  /\ i < Len(t) => AsSeen(ScannedAt(p, b, i + 1, q), t, esc, b, i + 1)
         /\ i = Len(t) => Idle(ScannedAt(p, b, i + 1, q))
<1>. DEFINE n == Len(t)
            k == b + i
            s == ScannedAt(p, b, i, q)
            r == ScannedAt(p, b, i + 1, q)
            U == Unescaped(t, esc, "[")
            V == Unescaped(t, esc, "]")
            Entered(x, m) == \E f \in U : f < m /\ x.from = b + f /\ \A j \in V : j \in (f + 1)..(m - 1) => j = 2
<1>1. t \in Seq(STRING) /\ b \in Nat
  BY DEF Placed
<1>0. ClassShape(t, esc)
  BY <1>1, ClassParts
<1>2. /\ n \in Nat /\ n > 2 /\ t[n] = "]" /\ DOMAIN t = 1..n /\ 1 \notin esc /\ n - 1 \notin esc
      /\ i < n => (i \in esc <=> t[i] = "\\" /\ i - 1 \notin esc)
      /\ i - 1 \in esc => t[i] # "Q"
      /\ \A j \in V, o \in U : j = o + 1 => j = 2
  <2>1. n \in Nat /\ i \in 2..n
    BY <1>0 DEF ClassShape
  <2>2. (i < n => i \in 2..(n - 1)) /\ (i - 1) + 1 = i
    <3>. HIDE DEF n
    <3>. QED  BY <2>1
  <2>. QED  BY <1>0, <2>1, <2>2 DEF ClassShape
<1>3. /\ k \in Nat /\ p[k] = t[i] /\ (i < n => k < Len(p)) /\ s \in Modes /\ r = Read(s, p, k, q)
  <2>1. i \in 1..n
    <3>1. n \in Nat /\ i \in 2..n
      BY <1>2
    <3>. HIDE DEF n
    <3>. QED  BY <3>1
  <2>. QED  BY <2>1, AtSteps
<1>4. /\ i - 1 \in esc \/ t[i] \notin {"[", "]"} => (Seen(t, esc, i + 1) <=> Seen(t, esc, i))
      /\ i - 1 \notin esc /\ t[i] = "[" => Seen(t, esc, i + 1)
      /\ i - 1 \notin esc /\ t[i] = "]" => (Seen(t, esc, i + 1) <=> i = 2)
      /\ Seen(t, esc, 2)
  BY <1>1, SeenSteps
<1>5. /\ ~s.quote /\ (s.escape <=> i - 1 \in esc) /\ (s.inClass <=> Seen(t, esc, i))
      /\ s.inClass => Entered(s, i)
  BY DEF AsSeen
<1>6. /\ r \in Modes
      /\ s.escape => r.inClass = s.inClass /\ r.from = s.from /\ ~r.escape /\ (p[k] # "Q" => ~r.quote)
      /\ ~s.escape /\ p[k] = "\\" /\ k < Len(p) => r.inClass = s.inClass /\ r.from = s.from /\ r.escape /\ ~r.quote
      /\ ~s.escape /\ p[k] = "[" => r.inClass /\ r.from = (IF s.inClass THEN s.from ELSE k) /\ ~r.escape /\ ~r.quote
      /\ ~s.escape /\ p[k] = "]" /\ s.inClass /\ k > s.from + 1 => Idle(r)
      /\ ~s.escape /\ p[k] \notin {"\\", "["} /\ ~(p[k] = "]" /\ s.inClass /\ k > s.from + 1) => r = s
  <2>. HIDE DEF s, r, k
  <2>. QED  BY <1>3, <1>5, ReadAnywhere
<1>7. /\ U \subseteq 1..n /\ V \subseteq 1..n
      /\ i \in U <=> t[i] = "[" /\ i - 1 \notin esc
      /\ i \in V <=> t[i] = "]" /\ i - 1 \notin esc
  <2>1. i \in DOMAIN t
    <3>1. n \in Nat /\ DOMAIN t = 1..n /\ i \in 2..n
      BY <1>2
    <3>. HIDE DEF n
    <3>. QED  BY <3>1
  <2>. QED  BY <1>2, <2>1 DEF Unescaped
<1>8. AsSeen(r, t, esc, b, i + 1) <=>
        /\ r \in Modes /\ ~r.quote /\ (r.escape <=> i \in esc) /\ (r.inClass <=> Seen(t, esc, i + 1))
        /\ r.inClass => Entered(r, i + 1)
  <2>1. (i + 1) - 1 = i
    OBVIOUS
  <2>. QED  BY <2>1 DEF AsSeen
<1>9. i \in Nat /\ i > 1 /\ (i < n \/ i = n)
  <2>1. n \in Nat /\ i \in 2..n
    BY <1>2
  <2>. HIDE DEF n
  <2>. QED  BY <2>1
<1>. HIDE DEF n, k, s, r, U, V
<1>10. ASSUME Entered(s, i), i \notin V, r.from = s.from PROVE Entered(r, i + 1)
  <2>1. PICK f \in U : f < i /\ s.from = b + f /\ \A j \in V : j \in (f + 1)..(i - 1) => j = 2
    BY <1>10
  <2>2. f \in Nat
    BY <1>7
  <2>3. ASSUME NEW j \in V, j \in (f + 1)..((i + 1) - 1) PROVE j = 2
    <3>1. j # i /\ j \in Nat
      BY <1>7, <1>10
    <3>2. j \in (f + 1)..(i - 1)
      BY <1>9, <2>2, <2>3, <3>1
    <3>. QED  BY <2>1, <3>2
  <2>4. f < i + 1
    BY <1>9, <2>1, <2>2
  <2>. QED  BY <1>10, <2>1, <2>3, <2>4
<1>11. ASSUME i - 1 \in esc PROVE i < n /\ AsSeen(r, t, esc, b, i + 1)
  <2>1. i < n
    BY <1>2, <1>9, <1>11
  <2>2. i \notin esc /\ t[i] # "Q"
    BY <1>2, <1>11, <2>1
  <2>3. i \notin V /\ s.escape
    BY <1>5, <1>7, <1>11
  <2>4. ~r.quote /\ ~r.escape /\ r.inClass = s.inClass /\ r.from = s.from
    BY <1>3, <1>6, <2>2, <2>3
  <2>5. r.inClass <=> Seen(t, esc, i + 1)
    BY <1>4, <1>5, <1>11, <2>4
  <2>6. r.inClass => Entered(r, i + 1)
    BY <1>5, <1>10, <2>3, <2>4
  <2>. QED  BY <1>6, <1>8, <2>1, <2>2, <2>4, <2>5, <2>6
<1>12. ASSUME i - 1 \notin esc, t[i] = "\\" PROVE i < n /\ AsSeen(r, t, esc, b, i + 1)
  <2>1. i < n /\ i \in esc
    BY <1>2, <1>9, <1>12
  <2>2. i \notin V /\ ~s.escape /\ k < Len(p) /\ p[k] = "\\"
    BY <1>3, <1>5, <1>7, <1>12, <2>1
  <2>3. ~r.quote /\ r.escape /\ r.inClass = s.inClass /\ r.from = s.from
    BY <1>6, <2>2
  <2>4. r.inClass <=> Seen(t, esc, i + 1)
    BY <1>4, <1>5, <1>12, <2>3
  <2>5. r.inClass => Entered(r, i + 1)
    BY <1>5, <1>10, <2>2, <2>3
  <2>. QED  BY <1>6, <1>8, <2>1, <2>3, <2>4, <2>5
<1>13. ASSUME i - 1 \notin esc, t[i] = "[" PROVE i < n /\ AsSeen(r, t, esc, b, i + 1)
  <2>1. i < n /\ i \notin esc /\ i \in U /\ i \notin V /\ ~s.escape /\ p[k] = "["
    BY <1>2, <1>3, <1>5, <1>7, <1>9, <1>13
  <2>2. r.inClass /\ r.from = (IF s.inClass THEN s.from ELSE k) /\ ~r.escape /\ ~r.quote
    BY <1>6, <2>1
  <2>3. CASE s.inClass
    <3>1. Entered(r, i + 1)
      BY <1>5, <1>10, <2>1, <2>2, <2>3
    <3>. QED  BY <1>4, <1>6, <1>8, <1>13, <2>1, <2>2, <3>1
  <2>4. CASE ~s.inClass
    <3>1. r.from = b + i
      BY <2>2, <2>4 DEF k
    <3>2. \A j \in V : j \in (i + 1)..((i + 1) - 1) => j = 2
      BY <1>9
    <3>3. i < i + 1
      BY <1>9
    <3>4. Entered(r, i + 1)
      BY <2>1, <3>1, <3>2, <3>3
    <3>. QED  BY <1>4, <1>6, <1>8, <1>13, <2>1, <2>2, <3>4
  <2>. QED  BY <2>3, <2>4
<1>14. ASSUME i - 1 \notin esc, t[i] = "]"
       PROVE  /\ i < n => AsSeen(r, t, esc, b, i + 1)
              /\ i = n => Idle(r)
  <2>1. i \in V /\ ~s.escape /\ p[k] = "]" /\ (i < n => i \notin esc)
    BY <1>2, <1>3, <1>5, <1>7, <1>14
  <2>2. CASE ~s.inClass
    <3>1. r = s
      BY <1>6, <2>1, <2>2
    <3>2. i # 2
      BY <1>4, <1>5, <2>2
    <3>3. Idle(r)
      BY <1>5, <2>1, <2>2, <3>1 DEF Idle
    <3>. QED  BY <1>4, <1>6, <1>8, <1>14, <2>1, <3>2, <3>3 DEF Idle
  <2>3. CASE s.inClass
    <3>1. PICK f \in U : f < i /\ s.from = b + f /\ \A j \in V : j \in (f + 1)..(i - 1) => j = 2
      BY <1>5, <2>3
    <3>2. f \in Nat
      BY <1>7
    <3>3. k > s.from + 1 <=> i # f + 1
      BY <1>1, <1>9, <3>1, <3>2 DEF k
    <3>4. i = f + 1 => i = 2
      BY <1>2, <2>1
    <3>5. CASE i = f + 1
      <4>1. r = s /\ i = 2
        BY <1>6, <2>1, <3>3, <3>4, <3>5
      <4>2. \A j \in V : j \in (f + 1)..((i + 1) - 1) => j = 2
        <5>1. (f + 1)..((i + 1) - 1) = {2}
          BY <3>2, <3>5, <4>1
        <5>. QED  BY <5>1
      <4>3. Entered(r, i + 1)
        <5>1. f < i + 1
          BY <1>9, <3>1, <3>2
        <5>. QED  BY <3>1, <4>1, <4>2, <5>1
      <4>4. i < n
        BY <1>2, <1>9, <4>1
      <4>. QED  BY <1>4, <1>5, <1>6, <1>8, <1>14, <2>1, <2>3, <4>1, <4>3, <4>4
    <3>6. CASE i # f + 1
      <4>1. Idle(r)
        BY <1>6, <2>1, <2>3, <3>3, <3>6
      <4>2. i # 2
        <5>1. f # 0
          BY <1>7
        <5>. QED  BY <1>9, <3>1, <3>2, <3>6, <5>1
      <4>. QED  BY <1>4, <1>6, <1>8, <1>14, <2>1, <4>1, <4>2 DEF Idle
    <3>. QED  BY <3>5, <3>6
  <2>. QED  BY <2>2, <2>3
<1>15. ASSUME i - 1 \notin esc, t[i] \notin {"\\", "[", "]"} PROVE i < n /\ AsSeen(r, t, esc, b, i + 1)
  <2>1. i < n /\ i \notin esc /\ i \notin V /\ ~s.escape /\ r = s
    BY <1>2, <1>3, <1>5, <1>6, <1>7, <1>9, <1>15
  <2>2. r.inClass => Entered(r, i + 1)
    BY <1>5, <1>10, <2>1
  <2>. QED  BY <1>4, <1>5, <1>6, <1>8, <1>15, <2>1, <2>2
<1>16. /\ i < n => AsSeen(r, t, esc, b, i + 1)
       /\ i = n => Idle(r)
  BY <1>9, <1>11, <1>12, <1>13, <1>14, <1>15
<1>. QED  BY <1>16 DEF n, r

\* A class: what of it is seen as one, and that it is over at its end.
LEMMA ClassRead ==
  ASSUME NEW p, NEW b, NEW t, Placed(p, b, t), NEW q \in BOOLEAN, Idle(ScannedAt(p, b, 1, q)),
         NEW esc, esc \subseteq 2..(Len(t) - 2), IsClass(t, esc)
  PROVE  /\ \A i \in 2..Len(t) : AsSeen(ScannedAt(p, b, i, q), t, esc, b, i)
         /\ Idle(ScannedAt(p, b, Len(t) + 1, q))
<1>. DEFINE n == Len(t)
            T == {i \in 2..n : AsSeen(ScannedAt(p, b, i, q), t, esc, b, i)}
            two == 2
<1>1. /\ t \in Seq(STRING) /\ n \in Nat /\ n > 2 /\ b \in Nat /\ t[1] = "[" /\ 1 \notin esc /\ DOMAIN t = 1..n /\ 0 \notin esc
  <2>1. t \in Seq(STRING) /\ b \in Nat
    BY DEF Placed
  <2>2. ClassShape(t, esc)
    BY <2>1, ClassParts
  <2>. QED  BY <2>1, <2>2 DEF ClassShape
<1>2. AsSeen(ScannedAt(p, b, 2, q), t, esc, b, 2)
  <2>1. 1 \in 1..Len(t) /\ 1 + 1 = 2 /\ 2 - 1 = 1 /\ 2 \in 2..n
    BY <1>1
  <2>2. /\ b + 1 \in Nat /\ p[b + 1] = t[1] /\ ScannedAt(p, b, 1, q) \in Modes /\ ScannedAt(p, b, 2, q) \in Modes
        /\ ScannedAt(p, b, 2, q) = Read(ScannedAt(p, b, 1, q), p, b + 1, q)
    <3>1. 2 \in 1..Len(t)
      BY <1>1
    <3>. QED  BY <2>1, <3>1, AtSteps
  <2>3. InClass(ScannedAt(p, b, 2, q), b + 1) /\ ~ScannedAt(p, b, 2, q).escape
    BY <1>1, <2>2, ReadIdle
  <2>4. Seen(t, esc, 2)
    BY <1>1, <2>1, SeenSteps
  <2>5. 1 \in Unescaped(t, esc, "[")
    BY <1>1, <2>1 DEF Unescaped
  <2>6. 1 < 2 /\ (\A j \in Unescaped(t, esc, "]") : j \in (1 + 1)..(2 - 1) => j = 2)
    BY <1>1
  <2>. QED  BY <1>1, <2>1, <2>2, <2>3, <2>4, <2>5, <2>6 DEF AsSeen, InClass
<1>3. ASSUME NEW i \in two..n, i \in T
      PROVE  /\ i < n => i + 1 \in T
             /\ i = n => Idle(ScannedAt(p, b, i + 1, q))
  <2>1. /\ i < n => AsSeen(ScannedAt(p, b, i + 1, q), t, esc, b, i + 1)
        /\ i = n => Idle(ScannedAt(p, b, i + 1, q))
    BY <1>3, AsSeenSteps
  <2>2. i < n => i + 1 \in 2..n
    BY <1>1
  <2>. QED  BY <2>1, <2>2
<1>4. two \in Nat /\ n \in Nat /\ two \in T /\ n \in two..n
  BY <1>1, <1>2
<1>. HIDE DEF T, n, two
<1>5. two..n \subseteq T
  BY <1>3, <1>4, RangeInduction
<1>. QED  BY <1>3, <1>4, <1>5 DEF T, n, two

\* A literal, for the scanner that knows of them.
LEMMA LiteralRead ==
  ASSUME NEW p, NEW b, NEW t, Placed(p, b, t), NEW q \in BOOLEAN, Knows(q), Idle(ScannedAt(p, b, 1, q)), IsLiteral(t)
  PROVE  /\ Escapes(ScannedAt(p, b, 2, q))
         /\ \A i \in 3..Len(t) : WithinQuote(ScannedAt(p, b, i, q))
         /\ Idle(ScannedAt(p, b, Len(t) + 1, q))
<1>. DEFINE n == Len(t)
            T == {i \in 3..(n - 1) : WithinQuote(ScannedAt(p, b, i, q)) /\ ~ScannedAt(p, b, i, q).escape}
<1>1. /\ n \in Nat /\ n > 3 /\ t[1] = "\\" /\ t[2] = "Q" /\ t[n - 1] = "\\" /\ t[n] = "E"
      /\ \A i \in 3..(n - 2) : t[i] = "\\" => t[i + 1] # "E"
  <2>1. t \in Seq(STRING) /\ n \in Nat /\ n > 3
    BY LenProperties DEF Placed, IsLiteral
  <2>2. SubSeq(t, 1, 2) = <<"\\", "Q">> /\ SubSeq(t, n - 1, n) = <<"\\", "E">>
    BY DEF IsLiteral
  <2>3. SubSeq(t, 1, 2)[1] = t[1] /\ SubSeq(t, 1, 2)[2] = t[2]
    BY <2>1
  <2>4. SubSeq(t, n - 1, n)[1] = t[n - 1] /\ SubSeq(t, n - 1, n)[2] = t[n]
    BY <2>1
  <2>5. <<"\\", "Q">>[1] = "\\" /\ <<"\\", "Q">>[2] = "Q" /\ <<"\\", "E">>[1] = "\\" /\ <<"\\", "E">>[2] = "E"
    OBVIOUS
  <2>6. t[1] = "\\" /\ t[2] = "Q" /\ t[n - 1] = "\\" /\ t[n] = "E"
    BY <2>2, <2>3, <2>4, <2>5
  <2>. QED  BY <2>1, <2>6 DEF IsLiteral
<1>2. Escapes(ScannedAt(p, b, 2, q)) /\ WithinQuote(ScannedAt(p, b, 3, q)) /\ ~ScannedAt(p, b, 3, q).escape
  BY <1>1, PairRead
<1>3. 3 \in T
  BY <1>1, <1>2
<1>4. ASSUME NEW i \in 3..(n - 1), i < n - 1, i \in T PROVE i + 1 \in T
  <2>1. i \in 1..Len(t) /\ i < Len(t) /\ i \in 3..(n - 2) /\ i + 1 \in 3..(n - 1)
    BY <1>1, <1>4
  <2>2. /\ b + i \in Nat /\ p[b + i] = t[i] /\ ScannedAt(p, b, i, q) \in Modes
        /\ b + i < Len(p) /\ p[b + i + 1] = t[i + 1]
        /\ ScannedAt(p, b, i + 1, q) = Read(ScannedAt(p, b, i, q), p, b + i, q)
    BY <2>1, AtSteps
  <2>3. p[b + i] = "\\" /\ b + i < Len(p) => p[b + i + 1] # "E"
    BY <1>1, <2>1, <2>2
  <2>4. WithinQuote(ScannedAt(p, b, i, q)) /\ ~ScannedAt(p, b, i, q).escape
    BY <1>4
  <2>5. WithinQuote(Read(ScannedAt(p, b, i, q), p, b + i, q)) /\ ~Read(ScannedAt(p, b, i, q), p, b + i, q).escape
    BY <2>2, <2>3, <2>4, ReadQuoted
  <2>. QED  BY <2>1, <2>2, <2>5
<1>. HIDE DEF T
<1>5. 3..(n - 1) \subseteq T
  <2>. DEFINE three == 3
              m     == n - 1
  <2>1. /\ three \in Nat /\ m \in Nat /\ three \in T
        /\ \A i \in three..m : i < m /\ i \in T => i + 1 \in T
    BY <1>1, <1>3, <1>4
  <2>2. three..m \subseteq T
    <3>. HIDE DEF three, m
    <3>. QED  BY <2>1, RangeInduction
  <2>. QED  BY <2>2
<1>6. /\ n - 1 \in 3..(n - 1) /\ n - 1 \in 1..Len(t) /\ n \in 1..Len(t) /\ n - 1 < Len(t) /\ (n - 1) + 1 = n
  BY <1>1
<1>7. WithinQuote(ScannedAt(p, b, n, q)) /\ ScannedAt(p, b, n, q).escape
  <2>. DEFINE k == n - 1
  <2>1. k \in 1..Len(t) /\ k < Len(t) /\ k + 1 = n /\ t[k] = "\\" /\ t[k + 1] = "E" /\ k \in T
    BY <1>1, <1>5, <1>6
  <2>. HIDE DEF k
  <2>2. /\ b + k \in Nat /\ p[b + k] = t[k] /\ ScannedAt(p, b, k, q) \in Modes
        /\ b + k < Len(p) /\ p[b + k + 1] = t[k + 1]
        /\ ScannedAt(p, b, k + 1, q) = Read(ScannedAt(p, b, k, q), p, b + k, q)
    BY <2>1, AtSteps
  <2>3. WithinQuote(ScannedAt(p, b, k, q)) /\ ~ScannedAt(p, b, k, q).escape
    BY <2>1 DEF T
  <2>. QED  BY <2>1, <2>2, <2>3, ReadQuoted
<1>8. Idle(ScannedAt(p, b, n + 1, q))
  <2>1. /\ b + n \in Nat /\ ScannedAt(p, b, n, q) \in Modes
        /\ ScannedAt(p, b, n + 1, q) = Read(ScannedAt(p, b, n, q), p, b + n, q)
    BY <1>6, AtSteps
  <2>. DEFINE k == b + n
              s == ScannedAt(p, b, n, q)
  <2>2. k \in Nat /\ s \in Modes /\ WithinQuote(s) /\ s.escape
    BY <1>7, <2>1
  <2>3. Idle(Read(s, p, k, q))
    <3>. HIDE DEF k, s
    <3>. QED  BY <2>2, ReadQuoted
  <2>. QED  BY <2>1, <2>3
<1>9. ASSUME NEW i \in 3..n PROVE WithinQuote(ScannedAt(p, b, i, q))
  <2>1. i = n \/ i \in 3..(n - 1)
    BY <1>1
  <2>. QED  BY <1>5, <1>7, <2>1 DEF T
<1>. QED  BY <1>2, <1>8, <1>9

\* A literal, for the scanner that does not.
LEMMA LiteralReadPlain ==
  ASSUME NEW p, NEW b, NEW t, Placed(p, b, t), NEW q \in BOOLEAN, ~Knows(q), Idle(ScannedAt(p, b, 1, q)), IsLiteral(t)
  PROVE  /\ \A i \in 1..(Len(t) + 1) : ~ScannedAt(p, b, i, q).inClass /\ ~ScannedAt(p, b, i, q).quote
         /\ Idle(ScannedAt(p, b, Len(t) + 1, q))
<1>. DEFINE n == Len(t)
            T == {i \in 1..(n + 1) : /\ ~ScannedAt(p, b, i, q).inClass /\ ~ScannedAt(p, b, i, q).quote
                                     /\ i = n + 1 => ~ScannedAt(p, b, i, q).escape}
<1>1. /\ n \in Nat /\ n > 3 /\ t[1] = "\\" /\ t[2] = "Q" /\ t[n - 1] = "\\" /\ t[n] = "E"
      /\ \A i \in 3..(n - 2) : t[i] # "["
  <2>1. t \in Seq(STRING) /\ n \in Nat /\ n > 3
    BY LenProperties DEF Placed, IsLiteral
  <2>2. SubSeq(t, 1, 2) = <<"\\", "Q">> /\ SubSeq(t, n - 1, n) = <<"\\", "E">>
    BY DEF IsLiteral
  <2>3. SubSeq(t, 1, 2)[1] = t[1] /\ SubSeq(t, 1, 2)[2] = t[2]
    BY <2>1
  <2>4. SubSeq(t, n - 1, n)[1] = t[n - 1] /\ SubSeq(t, n - 1, n)[2] = t[n]
    BY <2>1
  <2>5. <<"\\", "Q">>[1] = "\\" /\ <<"\\", "Q">>[2] = "Q" /\ <<"\\", "E">>[1] = "\\" /\ <<"\\", "E">>[2] = "E"
    OBVIOUS
  <2>6. t[1] = "\\" /\ t[2] = "Q" /\ t[n - 1] = "\\" /\ t[n] = "E"
    BY <2>2, <2>3, <2>4, <2>5
  <2>7. \A i \in 3..(n - 2) : t[i] # "["
    BY Zenon DEF IsLiteral
  <2>. QED  BY <2>1, <2>6, <2>7
<1>2. 1 \in T
  BY <1>1 DEF Idle
<1>3. ASSUME NEW i \in 1..(n + 1), i < n + 1, i \in T PROVE i + 1 \in T
  <2>1. i \in 1..Len(t) /\ i + 1 \in 1..(n + 1)
    BY <1>1, <1>3
  <2>2. t[i] # "[" /\ (i + 1 = n + 1 => t[i] # "\\")
    <3>1. i \in {1, 2, n - 1, n} \/ i \in 3..(n - 2)
      BY <1>1, <2>1
    <3>. QED  BY <1>1, <2>1, <3>1
  <2>3. /\ b + i \in Nat /\ p[b + i] = t[i] /\ ScannedAt(p, b, i, q) \in Modes
        /\ ScannedAt(p, b, i + 1, q) = Read(ScannedAt(p, b, i, q), p, b + i, q)
    BY <2>1, AtSteps
  <2>4. ~ScannedAt(p, b, i, q).inClass /\ ~ScannedAt(p, b, i, q).quote
    BY <1>3
  <2>5. /\ ~ScannedAt(p, b, i + 1, q).inClass /\ ~ScannedAt(p, b, i + 1, q).quote
        /\ p[b + i] # "\\" => ~ScannedAt(p, b, i + 1, q).escape
    BY <2>2, <2>3, <2>4, ReadPlain
  <2>. QED  BY <2>1, <2>2, <2>3, <2>5
<1>. HIDE DEF T
<1>4. 1..(n + 1) \subseteq T
  <2>. DEFINE one == 1
              m   == n + 1
  <2>1. /\ one \in Nat /\ m \in Nat /\ one \in T
        /\ \A i \in one..m : i < m /\ i \in T => i + 1 \in T
    BY <1>1, <1>2, <1>3
  <2>2. one..m \subseteq T
    <3>. HIDE DEF one, m
    <3>. QED  BY <2>1, RangeInduction
  <2>. QED  BY <2>2
<1>5. n + 1 \in 1..(n + 1)
  BY <1>1
<1>. QED  BY <1>4, <1>5 DEF T, Idle

-----------------------------------------------------------------------------
(* Nodes.                                                                  *)

Sound(n) == IsNode(n) /\ n.sort # "tricky"

PairNode(n) ==
  /\ Len(n.text) = 2 /\ n.text[1] = "\\" /\ n.text[2] \notin {"<", ">", "Q"} /\ n.sort = "plain"
  /\ n.text[2] \in Shorthands => n.meant = <<unicodeClassReplacement[n.text[2]]>>
  /\ n.text[2] \notin Shorthands => n.meant = n.text

BareNode(n) ==
  /\ Len(n.text) > 0 /\ n.text[1] # "{" /\ \A i \in 1..Len(n.text) : n.text[i] \notin {"\\", "["}
  /\ n.sort \in {"plain", "broken"} /\ (n.sort = "plain" => n.meant = n.text)

BoundaryNode(n) ==
  /\ Len(n.text) >= 2 /\ n.text[1] = "\\" /\ n.sort = "rust"
  /\ \/ Len(n.text) = 2 /\ n.text[2] \in {"<", ">"}
     \/ Len(n.text) > 3 /\ n.text[2] = "b" /\ n.text[3] = "{"
  /\ \A i \in 3..Len(n.text) : n.text[i] \notin {"\\", "["}

LiteralNode(n) == IsLiteral(n.text) /\ n.sort = "plain" /\ n.meant = n.text

ClassNode(n, esc) ==
  /\ esc \subseteq 2..(Len(n.text) - 2) /\ IsClass(n.text, esc) /\ n.sort = ClassSort(n.text, esc)
  /\ n.sort \in {"plain", "rust", "nested", "hidden"} /\ (n.sort = "plain" => n.meant = n.text)

LEMMA NodeKinds ==
  ASSUME NEW n, Sound(n)
  PROVE  /\ n.text \in Seq(STRING)
         /\ PairNode(n) \/ BareNode(n) \/ BoundaryNode(n) \/ LiteralNode(n) \/ \E esc : ClassNode(n, esc)
<1>. DEFINE t == n.text
<1>1. t \in Seq(STRING) /\ Len(t) \in Nat
  BY LenProperties DEF Sound, IsNode
<1>2. ASSUME Bare(t), n.sort \in {"plain", "broken"}, n.sort = "plain" => n.meant = t PROVE BareNode(n)
  <2>1. Len(t) > 0
    <3>1. t # << >>
      BY <1>2 DEF Bare
    <3>. QED  BY <1>1, <3>1, EmptySeq
  <2>2. \A i \in 1..Len(t) : t[i] \in ToSet(t)
    BY <1>1 DEF ToSet
  <2>. QED  BY <1>2, <2>1, <2>2 DEF Bare, BareNode
<1>3. ASSUME IsEscape(t), n.sort = "plain", n.meant = t PROVE PairNode(n)
  BY <1>3 DEF IsEscape, PairNode
<1>4. ASSUME IsShorthand(n), n.sort = "plain" PROVE PairNode(n)
  <2>1. PICK c \in Shorthands : t = <<"\\", c>> /\ n.meant = <<unicodeClassReplacement[c]>>
    BY <1>4 DEF IsShorthand
  <2>2. Len(t) = 2 /\ t[1] = "\\" /\ t[2] = c
    BY <2>1
  <2>3. c \notin {"<", ">", "Q"}
    BY DEF Shorthands
  <2>. HIDE DEF t
  <2>4. Len(t) = 2 /\ t[1] = "\\" /\ t[2] \notin {"<", ">", "Q"} /\ t[2] \in Shorthands
        /\ n.meant = <<unicodeClassReplacement[t[2]]>>
    BY <2>1, <2>2, <2>3
  <2>. QED  BY <1>4, <2>4 DEF PairNode, t
<1>5. ASSUME IsBoundary(t), n.sort = "rust" PROVE BoundaryNode(n)
  <2>1. CASE t \in {<<"\\", "<">>, <<"\\", ">">>}
    <3>1. Len(t) = 2 /\ t[1] = "\\" /\ t[2] \in {"<", ">"}
      BY <2>1
    <3>2. 3..Len(t) = {}
      BY <3>1
    <3>. QED  BY <1>5, <3>1, <3>2 DEF BoundaryNode
  <2>2. CASE t \notin {<<"\\", "<">>, <<"\\", ">">>}
    <3>1. /\ Len(t) > 3 /\ SubSeq(t, 1, 3) = <<"\\", "b", "{">>
          /\ ToSet(SubSeq(t, 4, Len(t))) \cap {"\\", "["} = {}
      BY <1>5, <2>2 DEF IsBoundary
    <3>. HIDE DEF t
    <3>2. SubSeq(t, 1, 3)[1] = t[1] /\ SubSeq(t, 1, 3)[2] = t[2] /\ SubSeq(t, 1, 3)[3] = t[3]
      <4>1. Len(t) > 3
        BY <3>1
      <4>. QED  BY <1>1, <4>1
    <3>3. <<"\\", "b", "{">>[1] = "\\" /\ <<"\\", "b", "{">>[2] = "b" /\ <<"\\", "b", "{">>[3] = "{"
      OBVIOUS
    <3>4. t[1] = "\\" /\ t[2] = "b" /\ t[3] = "{"
      BY <3>1, <3>2, <3>3
    <3>5. ASSUME NEW i \in 4..Len(t) PROVE t[i] \notin {"\\", "["}
      <4>. DEFINE u == SubSeq(t, 4, Len(t))
      <4>1. Len(u) = Len(t) - 3 /\ u \in Seq(STRING) /\ u[i - 3] = t[i] /\ i - 3 \in 1..Len(u)
        <5>1. Len(t) > 3
          BY <3>1
        <5>. QED  BY <1>1, <5>1
      <4>2. DOMAIN u = 1..Len(u)
        BY <4>1, LenProperties
      <4>3. u[i - 3] \in ToSet(u)
        BY <4>1, <4>2 DEF ToSet
      <4>. QED  BY <3>1, <4>1, <4>3
    <3>6. \A i \in 3..Len(t) : i = 3 \/ i \in 4..Len(t)
      BY <1>1
    <3>7. \A i \in 3..Len(t) : t[i] \notin {"\\", "["}
      BY <3>4, <3>5, <3>6
    <3>8. Len(t) >= 2 /\ Len(t) > 3
      <4>1. Len(t) > 3
        BY <3>1
      <4>. QED  BY <1>1, <4>1
    <3>. QED  BY <1>5, <3>4, <3>7, <3>8 DEF BoundaryNode, t
  <2>. QED  BY <2>1, <2>2
<1>6. ASSUME ClassOf(t, n.sort), n.sort \in {"plain", "rust", "nested", "hidden"}, n.sort = "plain" => n.meant = t
      PROVE  \E esc : ClassNode(n, esc)
  <2>1. PICK esc \in SUBSET {i \in 2..(Len(t) - 2) : t[i] = "\\"} : IsClass(t, esc) /\ ClassSort(t, esc) = n.sort
    BY <1>6 DEF ClassOf
  <2>2. esc \subseteq 2..(Len(t) - 2)
    OBVIOUS
  <2>3. ClassNode(n, esc)
    BY <1>6, <2>1, <2>2 DEF ClassNode
  <2>. QED  BY <2>3
<1>7. CASE n.sort = "plain" /\ ~IsShorthand(n)
  <2>1. n.meant = t /\ (Bare(t) \/ IsEscape(t) \/ IsLiteral(t) \/ ClassOf(t, "plain"))
    BY <1>7 DEF Sound, IsNode
  <2>2. CASE Bare(t)
    BY <1>1, <1>2, <1>7, <2>1, <2>2
  <2>3. CASE IsEscape(t)
    BY <1>1, <1>3, <1>7, <2>1, <2>3
  <2>4. CASE IsLiteral(t)
    BY <1>1, <1>7, <2>1, <2>4 DEF LiteralNode
  <2>5. CASE ClassOf(t, "plain")
    BY <1>1, <1>6, <1>7, <2>1, <2>5
  <2>. QED  BY <2>1, <2>2, <2>3, <2>4, <2>5
<1>8. CASE n.sort = "plain" /\ IsShorthand(n)
  BY <1>1, <1>4, <1>8
<1>9. CASE n.sort \in {"rust", "nested", "hidden"}
  <2>1. ClassOf(t, n.sort) \/ (n.sort = "rust" /\ IsBoundary(t))
    BY <1>9 DEF Sound, IsNode
  <2>2. CASE n.sort = "rust" /\ IsBoundary(t)
    BY <1>1, <1>5, <2>2
  <2>3. CASE ClassOf(t, n.sort)
    BY <1>1, <1>6, <1>9, <2>3
  <2>. QED  BY <2>1, <2>2, <2>3
<1>10. CASE n.sort = "broken"
  <2>1. Bare(t)
    BY <1>10 DEF Sound, IsNode
  <2>. QED  BY <1>1, <1>2, <1>10, <2>1
<1>11. n.sort \in {"plain", "rust", "nested", "hidden", "broken"}
  BY DEF Sound, IsNode
<1>. QED  BY <1>7, <1>8, <1>9, <1>10, <1>11

\* A node leaves both scanners as it found them.
LEMMA NodeLeaves ==
  ASSUME NEW p, NEW b, NEW n, Sound(n), Placed(p, b, n.text), NEW q \in BOOLEAN,
         Idle(ScannedAt(p, b, 1, q))
  PROVE  Idle(ScannedAt(p, b, Len(n.text) + 1, q))
<1>. DEFINE t == n.text
<1>1. t \in Seq(STRING) /\ Len(t) \in Nat /\ Placed(p, b, t)
  BY LenProperties DEF Placed
<1>2. CASE PairNode(n)
  <2>1. Len(t) = 2 /\ t[1] = "\\" /\ t[2] # "Q" /\ Len(t) + 1 = 3 /\ Len(t) >= 2
    BY <1>2 DEF PairNode
  <2>. HIDE DEF t
  <2>2. Idle(ScannedAt(p, b, 3, q))
    BY <1>1, <2>1, PairRead
  <2>. QED  BY <2>1, <2>2 DEF t
<1>3. CASE BareNode(n)
  <2>1. Len(t) > 0 /\ \A i \in 1..Len(t) : t[i] \notin {"\\", "["}
    BY <1>3 DEF BareNode
  <2>. DEFINE one == 1
  <2>2. one \in 1..Len(t) /\ Idle(ScannedAt(p, b, one, q)) /\ (\A i \in one..Len(t) : t[i] \notin {"\\", "["})
        /\ Len(t) + 1 \in one..(Len(t) + 1)
    BY <1>1, <2>1
  <2>3. \A i \in one..(Len(t) + 1) : Idle(ScannedAt(p, b, i, q))
    <3>. HIDE DEF one, t
    <3>. QED  BY <1>1, <2>2, BareRead
  <2>. QED  BY <2>2, <2>3
<1>4. CASE BoundaryNode(n)
  <2>1. Len(t) >= 2 /\ t[1] = "\\" /\ t[2] # "Q" /\ \A i \in 3..Len(t) : t[i] \notin {"\\", "["}
    BY <1>4 DEF BoundaryNode
  <2>2. Idle(ScannedAt(p, b, 3, q))
    <3>. HIDE DEF t
    <3>. QED  BY <1>1, <2>1, PairRead
  <2>3. CASE Len(t) = 2
    <3>1. Len(t) + 1 = 3
      BY <2>3
    <3>. QED  BY <2>2, <3>1
  <2>4. CASE Len(t) # 2
    <3>. DEFINE k == 3
    <3>1. k \in 1..Len(t) /\ Idle(ScannedAt(p, b, k, q)) /\ (\A i \in k..Len(t) : t[i] \notin {"\\", "["})
          /\ Len(t) + 1 \in k..(Len(t) + 1)
      <4>1. k \in 1..Len(t) /\ Len(t) + 1 \in k..(Len(t) + 1)
        <5>. DEFINE m == Len(t)
        <5>1. m >= 2 /\ m # 2 /\ m \in Nat
          BY <1>1, <2>1, <2>4
        <5>. HIDE DEF m
        <5>2. k \in 1..m /\ m + 1 \in k..(m + 1)
          BY <5>1
        <5>. QED  BY <5>2 DEF m
      <4>. QED  BY <2>1, <2>2, <4>1
    <3>2. \A i \in k..(Len(t) + 1) : Idle(ScannedAt(p, b, i, q))
      <4>. HIDE DEF k, t
      <4>. QED  BY <1>1, <3>1, BareRead
    <3>. QED  BY <3>1, <3>2
  <2>. QED  BY <2>3, <2>4
<1>5. CASE LiteralNode(n)
  <2>1. IsLiteral(t)
    BY <1>5 DEF LiteralNode
  <2>. HIDE DEF t
  <2>2. CASE Knows(q)
    BY <1>1, <2>1, <2>2, LiteralRead DEF t
  <2>3. CASE ~Knows(q)
    BY <1>1, <2>1, <2>3, LiteralReadPlain DEF t
  <2>. QED  BY <2>2, <2>3
<1>6. ASSUME NEW esc, ClassNode(n, esc) PROVE Idle(ScannedAt(p, b, Len(t) + 1, q))
  <2>1. esc \subseteq 2..(Len(t) - 2) /\ IsClass(t, esc)
    BY <1>6 DEF ClassNode
  <2>. HIDE DEF t
  <2>. QED  BY <1>1, <2>1, ClassRead DEF t
<1>. QED  BY <1>2, <1>3, <1>4, <1>5, <1>6, NodeKinds

LEMMA NodeFirst ==
  ASSUME NEW n, Sound(n)
  PROVE  n.text \in Seq(STRING) /\ Len(n.text) \in Nat \ {0} /\ n.text[1] # "{"
<1>. DEFINE m == Len(n.text)
            c == n.text[1]
<1>1. n.text \in Seq(STRING) /\ m \in Nat
  BY NodeKinds, LenProperties
<1>2. CASE PairNode(n)
  <2>1. m = 2 /\ c = "\\"
    BY <1>2 DEF PairNode
  <2>. HIDE DEF m, c
  <2>2. m \in Nat \ {0} /\ c # "{"
    BY <2>1
  <2>. QED  BY <1>1, <2>2 DEF m, c
<1>3. CASE BareNode(n)
  <2>1. m > 0 /\ c # "{"
    BY <1>3 DEF BareNode
  <2>. HIDE DEF m, c
  <2>2. m \in Nat \ {0}
    <3>1. m > 0 /\ m \in Nat
      BY <1>1, <2>1
    <3>. QED  BY <3>1
  <2>. QED  BY <1>1, <2>1, <2>2 DEF m, c
<1>4. CASE BoundaryNode(n)
  <2>1. m >= 2 /\ c = "\\"
    BY <1>4 DEF BoundaryNode
  <2>. HIDE DEF m, c
  <2>2. m \in Nat \ {0} /\ c # "{"
    BY <1>1, <2>1
  <2>. QED  BY <1>1, <2>2 DEF m, c
<1>5. CASE LiteralNode(n)
  <2>1. m > 3 /\ SubSeq(n.text, 1, 2) = <<"\\", "Q">>
    BY <1>5 DEF LiteralNode, IsLiteral
  <2>2. SubSeq(n.text, 1, 2)[1] = n.text[1]
    <3>1. Len(n.text) > 3
      BY <2>1
    <3>. QED  BY <1>1, <3>1
  <2>3. <<"\\", "Q">>[1] = "\\"
    OBVIOUS
  <2>4. m > 3 /\ c = "\\"
    BY <2>1, <2>2, <2>3
  <2>. HIDE DEF m, c
  <2>5. m \in Nat \ {0} /\ c # "{"
    BY <1>1, <2>4
  <2>. QED  BY <1>1, <2>5 DEF m, c
<1>6. ASSUME NEW esc, ClassNode(n, esc) PROVE m \in Nat \ {0} /\ c # "{"
  <2>1. m > 2 /\ c = "["
    BY <1>6 DEF ClassNode, IsClass
  <2>. HIDE DEF m, c
  <2>. QED  BY <1>1, <2>1
<1>. QED  BY <1>1, <1>2, <1>3, <1>4, <1>5, <1>6, NodeKinds

\* The translation's scanner is outside everything where text begins.
Ready(p, b) == Idle(ScannedAt(p, b, 1, TRUE))

\* What the sort of a class says of its doubled signs.
LEMMA ClassSortIs ==
  ASSUME NEW t, NEW esc
  PROVE  LET seen == {i \in Doubled(t, esc) : Seen(t, esc, i)}
         IN  /\ ClassSort(t, esc) = "plain" => \A i \in 2..Len(t) : Seen(t, esc, i)
             /\ ClassSort(t, esc) \in {"plain", "nested", "hidden"} => seen = {}
             /\ ClassSort(t, esc) = "rust" => seen # {}
<1>. DEFINE seen == {i \in Doubled(t, esc) : Seen(t, esc, i)}
            sort == ClassSort(t, esc)
<1>1. sort = IF Operations(t, esc) \cap seen # {} THEN "rust"
             ELSE IF Operations(t, esc) # {} /\ seen = {} THEN "hidden"
             ELSE IF Doubled(t, esc) # {} THEN "tricky"
             ELSE IF \A i \in 2..Len(t) : Seen(t, esc, i) THEN "plain" ELSE "nested"
  BY DEF ClassSort
<1>2. sort \in {"plain", "nested"} => Doubled(t, esc) = {}
  <2>. HIDE DEF sort, seen
  <2>. QED  BY <1>1
<1>3. /\ sort = "plain" => \A i \in 2..Len(t) : Seen(t, esc, i)
      /\ sort = "hidden" => seen = {}
      /\ sort = "rust" => seen # {}
  <2>. HIDE DEF sort, seen
  <2>. QED  BY <1>1
<1>. QED  BY <1>2, <1>3

\* Only a shorthand is rewritten, and every shorthand is.
LEMMA NodeRewritten ==
  ASSUME NEW p, NEW b, NEW n, Sound(n), n.sort = "plain", Placed(p, b, n.text), Ready(p, b),
         NEW i \in 1..Len(n.text)
  PROVE  Rewritten(p, b + i) <=> PairNode(n) /\ n.text[2] \in Shorthands /\ i = 1
<1>. DEFINE t == n.text
            k == b + i
            s == Scanned(p, k, TRUE)
            q == TRUE
<1>0. Knows(q) /\ q \in BOOLEAN
  BY DEF Knows
<1>1. t \in Seq(STRING) /\ Len(t) \in Nat /\ Placed(p, b, t) /\ b \in Nat /\ Idle(ScannedAt(p, b, 1, q)) /\ i \in 1..Len(t)
  BY LenProperties DEF Placed, Ready
<1>2. s = ScannedAt(p, b, i, q)
  BY DEF ScannedAt
<1>3. /\ k \in Nat /\ p[k] = t[i] /\ k <= Len(p) /\ s \in Modes
      /\ i < Len(t) => k < Len(p) /\ p[k + 1] = t[i + 1]
  <2>. HIDE DEF q, t
  <2>1. /\ b + i \in Nat /\ i \in Nat /\ p[b + i] = t[i] /\ b + i <= Len(p) /\ b \in Nat
        /\ i < Len(t) => b + i < Len(p) /\ p[b + i + 1] = t[i + 1]
        /\ ScannedAt(p, b, i, q) \in Modes
    BY <1>0, <1>1, AtSteps
  <2>. QED  BY <1>2, <2>1
<1>4. Rewritten(p, k) <=> Idle(s) /\ k < Len(p) /\ p[k] = "\\" /\ p[k + 1] \in Shorthands
  BY DEF Rewritten, Idle
<1>. HIDE DEF s, k, q
<1>5. CASE PairNode(n)
  <2>1. Len(t) = 2 /\ t[1] = "\\" /\ t[2] # "Q" /\ Len(t) >= 2
    BY <1>5 DEF PairNode
  <2>2. CASE i = 1
    <3>1. i < Len(t) /\ i + 1 = 2 /\ Idle(s)
      BY <1>1, <1>2, <2>1, <2>2
    <3>. QED  BY <1>3, <1>4, <1>5, <2>1, <2>2, <3>1 DEF k
  <2>3. CASE i # 1
    <3>1. i = 2
      BY <1>1, <2>1, <2>3
    <3>2. Escapes(ScannedAt(p, b, 2, q))
      <4>. HIDE DEF t
      <4>. QED  BY <1>0, <1>1, <2>1, PairRead
    <3>3. ~Idle(s)
      BY <1>2, <3>1, <3>2 DEF Idle, Escapes
    <3>. QED  BY <1>4, <2>3, <3>3 DEF k
  <2>. QED  BY <2>2, <2>3
<1>6. CASE BareNode(n)
  <2>1. t[i] # "\\" /\ ~(PairNode(n) /\ i = 1)
    BY <1>6 DEF BareNode, PairNode
  <2>. QED  BY <1>3, <1>4, <2>1 DEF k
<1>7. CASE BoundaryNode(n)
  BY <1>7 DEF BoundaryNode
<1>8. CASE LiteralNode(n)
  <2>1. IsLiteral(t)
    BY <1>8 DEF LiteralNode
  <2>2. Len(t) > 3 /\ SubSeq(t, 1, 2) = <<"\\", "Q">>
    BY <2>1 DEF IsLiteral
  <2>3. t[2] = "Q"
    <3>1. Len(t) > 3
      BY <2>2
    <3>2. SubSeq(t, 1, 2)[2] = t[2]
      BY <1>1, <3>1
    <3>3. <<"\\", "Q">>[2] = "Q"
      OBVIOUS
    <3>. QED  BY <2>2, <3>2, <3>3
  <2>4. Escapes(ScannedAt(p, b, 2, q)) /\ \A j \in 3..Len(t) : WithinQuote(ScannedAt(p, b, j, q))
    <3>. HIDE DEF t
    <3>. QED  BY <1>0, <1>1, <2>1, LiteralRead
  <2>5. ~Rewritten(p, k)
    <3>1. CASE i = 1
      <4>1. k < Len(p) /\ p[k + 1] = "Q"
        <5>1. Len(t) > 3
          BY <2>2
        <5>. QED  BY <1>1, <1>3, <2>3, <3>1, <5>1
      <4>. QED  BY <1>4, <4>1 DEF Shorthands
    <3>2. CASE i = 2
      BY <1>2, <1>4, <2>4, <3>2 DEF Idle, Escapes
    <3>3. CASE i # 1 /\ i # 2
      <4>1. i \in 3..Len(t)
        BY <1>1, <3>3
      <4>. QED  BY <1>2, <1>4, <2>4, <4>1 DEF Idle, WithinQuote
    <3>. QED  BY <3>1, <3>2, <3>3
  <2>. QED  BY <2>3, <2>5 DEF k, PairNode
<1>9. ASSUME NEW esc, ClassNode(n, esc)
      PROVE  Rewritten(p, b + i) <=> PairNode(n) /\ n.text[2] \in Shorthands /\ i = 1
  <2>1. esc \subseteq 2..(Len(t) - 2) /\ IsClass(t, esc) /\ t[1] = "["
    BY <1>9 DEF ClassNode, IsClass
  <2>2. \A j \in 2..Len(t) : ScannedAt(p, b, j, q).inClass
    <3>1. \A j \in 2..Len(t) : AsSeen(ScannedAt(p, b, j, q), t, esc, b, j)
      <4>. HIDE DEF t
      <4>. QED  BY <1>0, <1>1, <2>1, ClassRead
    <3>2. \A j \in 2..Len(t) : Seen(t, esc, j)
      BY <1>9, ClassSortIs DEF ClassNode
    <3>. QED  BY <3>1, <3>2 DEF AsSeen
  <2>3. ~Rewritten(p, k)
    <3>1. CASE i = 1
      BY <1>3, <1>4, <2>1, <3>1
    <3>2. CASE i # 1
      <4>1. i \in 2..Len(t)
        BY <1>1, <3>2
      <4>. QED  BY <1>2, <1>4, <2>2, <4>1 DEF Idle
    <3>. QED  BY <3>1, <3>2
  <2>. QED  BY <2>1, <2>3 DEF k, PairNode
<1>. QED  BY <1>5, <1>6, <1>7, <1>8, <1>9, NodeKinds DEF k

Refuses(p, j) == SetOperation(p, j) \/ Boundary(p, j)

\* What makes a character of a node refused, in terms of the node.
Opens(p, b, t, i, q) ==
  /\ ScannedAt(p, b, i, q).inClass /\ ~ScannedAt(p, b, i, q).escape /\ i < Len(t)
  /\ t[i] \in {"&", "-", "~"} /\ t[i + 1] = t[i]

Bounds(p, b, t, i, q) ==
  /\ ~ScannedAt(p, b, i, q).inClass /\ ~ScannedAt(p, b, i, q).escape /\ i < Len(t) /\ t[i] = "\\"
  /\ \/ t[i + 1] \in {"<", ">"}
     \/ t[i + 1] = "b" /\ i + 1 < Len(t) /\ t[i + 2] = "{"

LEMMA RefusesIs ==
  ASSUME NEW p, NEW b, NEW t, Placed(p, b, t), Len(p) = b + Len(t), NEW i \in 1..Len(t),
         NEW q, q = FALSE
  PROVE  Refuses(p, b + i) <=> Opens(p, b, t, i, q) \/ Bounds(p, b, t, i, q)
<1>. DEFINE k == b + i
<1>1. b \in Nat /\ Len(t) \in Nat /\ Len(p) \in Nat /\ i \in Nat
  BY LenProperties DEF Placed
<1>2. (k < Len(p) <=> i < Len(t)) /\ (k + 1 < Len(p) <=> i + 1 < Len(t)) /\ p[k] = t[i]
  BY <1>1 DEF Placed
<1>3. ASSUME i < Len(t) PROVE p[k + 1] = t[i + 1]
  <2>1. i + 1 \in 1..Len(t) /\ k + 1 = b + (i + 1)
    BY <1>1, <1>3
  <2>. QED  BY <2>1 DEF Placed
<1>4. ASSUME i + 1 < Len(t) PROVE p[k + 2] = t[i + 2]
  <2>1. i + 2 \in 1..Len(t) /\ k + 2 = b + (i + 2)
    BY <1>1, <1>4
  <2>. QED  BY <2>1 DEF Placed
<1>. DEFINE s == ScannedAt(p, b, i, q)
<1>5. s = Scanned(p, k, FALSE)
  BY DEF ScannedAt
<1>. HIDE DEF s, k
<1>6. SetOperation(p, k) <=> s.inClass /\ ~s.escape /\ i < Len(t) /\ t[i] \in {"&", "-", "~"} /\ t[i + 1] = t[i]
  BY <1>2, <1>3, <1>5 DEF SetOperation
<1>7. Boundary(p, k) <=> /\ ~s.inClass /\ ~s.escape /\ i < Len(t) /\ t[i] = "\\"
                         /\ \/ t[i + 1] \in {"<", ">"}
                            \/ t[i + 1] = "b" /\ i + 1 < Len(t) /\ t[i + 2] = "{"
  BY <1>2, <1>3, <1>4, <1>5 DEF Boundary
<1>. QED  BY <1>6, <1>7 DEF Refuses, Opens, Bounds, s, k

\* A node is refused, somewhere in it, just if it is of Rust's.
LEMMA NodeRefused ==
  ASSUME NEW p, NEW b, NEW n, Sound(n), Placed(p, b, n.text), Len(p) = b + Len(n.text),
         Idle(ScannedAt(p, b, 1, FALSE))
  PROVE  (\E i \in 1..Len(n.text) : Refuses(p, b + i)) <=> n.sort = "rust"
<1>. DEFINE t == n.text
            q == FALSE
            Open(i)  == Opens(p, b, t, i, q)
            Bound(i) == Bounds(p, b, t, i, q)
<1>0. ~Knows(q) /\ q \in BOOLEAN /\ q = FALSE
  BY DEF Knows
<1>1. t \in Seq(STRING) /\ Len(t) \in Nat /\ Placed(p, b, t) /\ b \in Nat /\ Idle(ScannedAt(p, b, 1, q)) /\ Len(p) = b + Len(t)
  BY LenProperties DEF Placed
<1>2. \A i \in 1..Len(t) : Refuses(p, b + i) <=> Open(i) \/ Bound(i)
  <2>. TAKE i \in 1..Len(t)
  <2>. HIDE DEF t, q
  <2>. QED  BY <1>0, <1>1, RefusesIs
<1>. HIDE DEF q
<1>3. CASE PairNode(n)
  <2>1. Len(t) = 2 /\ t[2] \notin {"<", ">"} /\ n.sort = "plain"
    BY <1>3 DEF PairNode
  <2>2. ASSUME NEW i \in 1..Len(t) PROVE ~Open(i) /\ ~Bound(i)
    <3>1. CASE i = 1
      BY <1>1, <2>1, <3>1 DEF Idle, Opens, Bounds
    <3>2. CASE i = 2
      BY <2>1, <3>2 DEF Opens, Bounds
    <3>3. i = 1 \/ i = 2
      <4>1. Len(t) = 2
        BY <2>1
      <4>. QED  BY <4>1
    <3>. QED  BY <3>1, <3>2, <3>3
  <2>. HIDE DEF Open, Bound
  <2>. QED  BY <1>2, <2>1, <2>2
<1>4. CASE BareNode(n)
  <2>1. Len(t) > 0 /\ (\A i \in 1..Len(t) : t[i] \notin {"\\", "["}) /\ n.sort # "rust"
    BY <1>4 DEF BareNode
  <2>. DEFINE one == 1
  <2>2. one \in 1..Len(t) /\ Idle(ScannedAt(p, b, one, q)) /\ (\A i \in one..Len(t) : t[i] \notin {"\\", "["})
    BY <1>1, <2>1
  <2>3. \A i \in one..(Len(t) + 1) : Idle(ScannedAt(p, b, i, q))
    <3>. HIDE DEF one, t
    <3>. QED  BY <1>0, <1>1, <2>2, BareRead
  <2>4. ASSUME NEW i \in 1..Len(t) PROVE ~Open(i) /\ ~Bound(i)
    <3>1. i \in one..(Len(t) + 1)
      BY <1>1
    <3>2. ~ScannedAt(p, b, i, q).inClass /\ t[i] # "\\"
      BY <2>1, <2>3, <3>1 DEF Idle
    <3>. QED  BY <3>2 DEF Opens, Bounds
  <2>. HIDE DEF Open, Bound
  <2>. QED  BY <1>2, <2>1, <2>4
<1>5. CASE BoundaryNode(n)
  <2>1. /\ Len(t) >= 2 /\ t[1] = "\\" /\ n.sort = "rust"
        /\ \/ t[2] \in {"<", ">"}
           \/ Len(t) > 3 /\ t[2] = "b" /\ t[3] = "{"
    BY <1>5 DEF BoundaryNode
  <2>. DEFINE m == Len(t)
  <2>2. 1 \in 1..m /\ 1 < m
    <3>1. m >= 2 /\ m \in Nat
      BY <1>1, <2>1
    <3>. HIDE DEF m
    <3>. QED  BY <3>1
  <2>3. Bound(1)
    <3>1. ~ScannedAt(p, b, 1, q).inClass /\ ~ScannedAt(p, b, 1, q).escape
      BY <1>1 DEF Idle
    <3>2. t[1 + 1] \in {"<", ">"} \/ (t[1 + 1] = "b" /\ 1 + 1 < m /\ t[1 + 2] = "{")
      <4>1. CASE t[2] \in {"<", ">"}
        <5>1. 1 + 1 = 2
          OBVIOUS
        <5>. HIDE DEF t
        <5>. QED  BY <4>1, <5>1
      <4>2. CASE t[2] \notin {"<", ">"}
        <5>1. m > 3 /\ t[2] = "b" /\ t[3] = "{"
          BY <2>1, <4>2
        <5>2. 1 + 1 = 2 /\ 1 + 2 = 3
          OBVIOUS
        <5>3. 1 + 1 < m
          <6>1. m > 3 /\ m \in Nat
            BY <1>1, <5>1
          <6>. HIDE DEF m
          <6>. QED  BY <6>1
        <5>. HIDE DEF m, t
        <5>. QED  BY <5>1, <5>2, <5>3
      <4>. QED  BY <4>1, <4>2
    <3>. QED  BY <2>1, <2>2, <3>1, <3>2 DEF Bounds
  <2>. HIDE DEF Open, Bound
  <2>. QED  BY <1>2, <2>1, <2>2, <2>3
<1>6. CASE LiteralNode(n)
  <2>1. IsLiteral(t) /\ n.sort = "plain"
    BY <1>6 DEF LiteralNode
  <2>. DEFINE m == Len(t)
  <2>2. m > 3 /\ SubSeq(t, 1, 2) = <<"\\", "Q">> /\ SubSeq(t, m - 1, m) = <<"\\", "E">>
    BY <2>1 DEF IsLiteral
  <2>3. m > 3 /\ m \in Nat
    BY <1>1, <2>2
  <2>4. SubSeq(t, 1, 2)[2] = t[2] /\ SubSeq(t, m - 1, m)[1] = t[m - 1] /\ SubSeq(t, m - 1, m)[2] = t[m]
    BY <1>1, <2>3
  <2>5. <<"\\", "Q">>[2] = "Q" /\ <<"\\", "E">>[1] = "\\" /\ <<"\\", "E">>[2] = "E"
    OBVIOUS
  <2>6. t[2] = "Q" /\ t[m - 1] = "\\" /\ t[m] = "E"
    BY <2>2, <2>4, <2>5
  <2>7. \A i \in 3..(m - 2) : t[i] \notin {"[", "<", ">", "{"}
    BY <2>1 DEF IsLiteral
  <2>8. ASSUME NEW i \in 2..m PROVE t[i] \notin {"<", ">", "{"}
    <3>1. i \in {2, m - 1, m} \/ i \in 3..(m - 2)
      BY <2>3
    <3>. QED  BY <2>6, <2>7, <3>1
  <2>9. \A i \in 1..(m + 1) : ~ScannedAt(p, b, i, q).inClass
    <3>. HIDE DEF t
    <3>. QED  BY <1>0, <1>1, <2>1, LiteralReadPlain
  <2>10. ASSUME NEW i \in 1..m PROVE ~Open(i) /\ ~Bound(i)
    <3>1. i \in 1..(m + 1) /\ (i < m => i + 1 \in 2..m) /\ (i + 1 < m => i + 2 \in 2..m)
      BY <2>3
    <3>. QED  BY <2>8, <2>9, <3>1 DEF Opens, Bounds
  <2>. HIDE DEF Open, Bound
  <2>. QED  BY <1>2, <2>1, <2>10
<1>7. ASSUME NEW esc, ClassNode(n, esc)
      PROVE  (\E i \in 1..Len(t) : Refuses(p, b + i)) <=> n.sort = "rust"
  <2>. DEFINE seen == {i \in Doubled(t, esc) : Seen(t, esc, i)}
  <2>1. esc \subseteq 2..(Len(t) - 2) /\ IsClass(t, esc) /\ (n.sort = "rust" <=> seen # {})
    BY <1>7, ClassSortIs DEF ClassNode
  <2>2. /\ t[1] = "["
        /\ \A i \in 2..(Len(t) - 1) : i \in esc <=> t[i] = "\\" /\ i - 1 \notin esc
        /\ \A i \in esc : t[i + 1] \notin {"<", ">", "b"}
    <3>1. ClassShape(t, esc)
      <4>. HIDE DEF t
      <4>. QED  BY <1>1, <2>1, ClassParts
    <3>. QED  BY <3>1 DEF ClassShape
  <2>3. \A i \in 2..Len(t) : /\ ScannedAt(p, b, i, q).inClass <=> Seen(t, esc, i)
                             /\ ScannedAt(p, b, i, q).escape <=> i - 1 \in esc
    <3>1. \A i \in 2..Len(t) : AsSeen(ScannedAt(p, b, i, q), t, esc, b, i)
      <4>. HIDE DEF t
      <4>. QED  BY <1>0, <1>1, <2>1, ClassRead
    <3>. QED  BY <3>1 DEF AsSeen
  <2>4. ASSUME NEW i \in 1..Len(t)
        PROVE  Open(i) \/ Bound(i) <=> i \in seen
    <3>1. CASE i = 1
      <4>1. ~Open(i) /\ ~Bound(i)
        BY <1>1, <2>2, <3>1 DEF Idle, Opens, Bounds
      <4>2. i \notin seen
        BY <3>1 DEF Doubled
      <4>. QED  BY <4>1, <4>2
    <3>2. CASE i # 1
      <4>1. i \in 2..Len(t) /\ (i \in 2..(Len(t) - 1) <=> i < Len(t))
        BY <1>1, <3>2
      <4>2. i \in seen <=> /\ i < Len(t) /\ t[i] \in {"&", "-", "~"} /\ t[i + 1] = t[i]
                           /\ i - 1 \notin esc /\ Seen(t, esc, i)
        <5>1. i \in Doubled(t, esc) <=> /\ i < Len(t) /\ t[i] \in {"&", "-", "~"} /\ t[i + 1] = t[i]
                                        /\ i - 1 \notin esc
          BY <4>1 DEF Doubled
        <5>. QED  BY <5>1
      <4>3. Open(i) <=> i \in seen
        BY <2>3, <4>1, <4>2 DEF Opens
      <4>4. ~Bound(i)
        BY <2>2, <2>3, <4>1 DEF Bounds
      <4>. QED  BY <4>3, <4>4
    <3>. QED  BY <3>1, <3>2
  <2>5. seen \subseteq 1..Len(t)
    BY <1>1 DEF Doubled
  <2>. HIDE DEF Open, Bound, seen
  <2>. QED  BY <1>2, <2>1, <2>4, <2>5
<1>. QED  BY <1>3, <1>4, <1>5, <1>6, <1>7, NodeKinds

-----------------------------------------------------------------------------
(* Whole patterns.                                                         *)

LEMMA ReadSame ==
  ASSUME NEW s, NEW p, NEW r, NEW i, NEW q, p[i] = r[i], p[i + 1] = r[i + 1], i < Len(p), i < Len(r)
  PROVE  Read(s, p, i, q) = Read(s, r, i, q)
<1>1. Closes(s, p, i) = Closes(s, r, i)
  BY DEF Closes
<1>2. (i < Len(p)) = (i < Len(r))
  OBVIOUS
<1>. QED  BY <1>1, <1>2 DEF Read

LEMMA ConcatIs ==
  ASSUME NEW S, NEW p \in Seq(S), NEW t \in Seq(S)
  PROVE  /\ p \o t \in Seq(S) /\ Len(p) \in Nat /\ Len(t) \in Nat /\ Len(p \o t) = Len(p) + Len(t)
         /\ \A i \in 1..Len(p) : (p \o t)[i] = p[i]
         /\ \A i \in 1..Len(t) : (p \o t)[Len(p) + i] = t[i]
<1>1. /\ p \o t \in Seq(S) /\ Len(p) \in Nat /\ Len(t) \in Nat /\ Len(p \o t) = Len(p) + Len(t)
      /\ \A i \in 1..(Len(p) + Len(t)) : (p \o t)[i] = IF i <= Len(p) THEN p[i] ELSE t[i - Len(p)]
  BY ConcatProperties, LenProperties
<1>2. ASSUME NEW i \in 1..Len(p) PROVE (p \o t)[i] = p[i]
  <2>1. i \in 1..(Len(p) + Len(t)) /\ i <= Len(p)
    BY <1>1
  <2>. QED  BY <1>1, <2>1
<1>3. ASSUME NEW i \in 1..Len(t) PROVE (p \o t)[Len(p) + i] = t[i]
  <2>1. Len(p) + i \in 1..(Len(p) + Len(t)) /\ ~(Len(p) + i <= Len(p)) /\ Len(p) + i - Len(p) = i
    BY <1>1
  <2>. QED  BY <1>1, <2>1
<1>. QED  BY <1>1, <1>2, <1>3

LEMMA ScannedPrefix ==
  ASSUME NEW p \in Seq(STRING), NEW t \in Seq(STRING), NEW q \in BOOLEAN
  PROVE  \A i \in 1..Len(p) : Scanned(p \o t, i, q) = Scanned(p, i, q)
<1>. DEFINE r == p \o t
            n == Len(p)
            T == {i \in 1..n : Scanned(r, i, q) = Scanned(p, i, q)}
            one == 1
<1>1. /\ r \in Seq(STRING) /\ n \in Nat /\ Len(t) \in Nat /\ Len(r) = n + Len(t)
      /\ \A i \in 1..n : r[i] = p[i]
  BY ConcatIs
<1>. HIDE DEF r
<1>2. CASE n = 0
  <2>1. 1..n = {}
    BY <1>2
  <2>. QED  BY <2>1
<1>3. CASE n # 0
  <2>1. one \in T /\ one \in Nat
    <3>1. Scanned(r, 1, q) = Start /\ Scanned(p, 1, q) = Start
      BY ScannedFirst
    <3>. QED  BY <1>1, <1>3, <3>1
  <2>2. ASSUME NEW i \in one..n, i < n, i \in T PROVE i + 1 \in T
    <3>1. i \in Nat \ {0} /\ i \in 1..n /\ i + 1 \in 1..n /\ i < Len(r)
      BY <1>1, <2>2
    <3>2. Scanned(r, i + 1, q) = Read(Scanned(r, i, q), r, i, q)
      BY <3>1, ScannedSteps
    <3>3. Scanned(p, i + 1, q) = Read(Scanned(p, i, q), p, i, q)
      BY <3>1, ScannedSteps
    <3>4. r[i] = p[i] /\ r[i + 1] = p[i + 1]
      BY <1>1, <3>1
    <3>5. Read(Scanned(p, i, q), r, i, q) = Read(Scanned(p, i, q), p, i, q)
      BY <2>2, <3>1, <3>4, ReadSame
    <3>. QED  BY <2>2, <3>1, <3>2, <3>3, <3>5
  <2>3. one..n \subseteq T
    <3>. HIDE DEF one, T, n
    <3>. QED  BY <1>1, <2>1, <2>2, RangeInduction
  <2>. QED  BY <2>3 DEF r
<1>. QED  BY <1>2, <1>3

\* A pattern after which both scanners are idle, whatever follows.
Whole(p) == \A post \in Seq(STRING), q \in BOOLEAN : Idle(Scanned(p \o post, Len(p) + 1, q))

LEMMA WholeEmpty == Whole(<< >>)
<1>. SUFFICES ASSUME NEW post \in Seq(STRING), NEW q \in BOOLEAN
              PROVE  Idle(Scanned(<< >> \o post, Len(<< >>) + 1, q))
  BY DEF Whole
<1>. DEFINE one == 1
<1>1. << >> \o post = post /\ Len(<< >>) + 1 = one
  BY ConcatEmptySeq
<1>2. Scanned(post, 1, q) = Start
  BY ScannedFirst
<1>3. Idle(Start)
  BY DEF Idle, Start
<1>. QED  BY <1>1, <1>2, <1>3

LEMMA PlacedAfter ==
  ASSUME NEW p \in Seq(STRING), NEW t \in Seq(STRING), NEW post \in Seq(STRING)
  PROVE  Placed(p \o (t \o post), Len(p), t)
<1>1. /\ t \o post \in Seq(STRING) /\ Len(t) \in Nat /\ Len(t \o post) = Len(t) + Len(post) /\ Len(post) \in Nat
      /\ \A i \in 1..Len(t) : (t \o post)[i] = t[i]
  BY ConcatIs
<1>. DEFINE u == t \o post
<1>2. u \in Seq(STRING)
  BY <1>1
<1>3. /\ p \o u \in Seq(STRING) /\ Len(p) \in Nat /\ Len(p \o u) = Len(p) + Len(u)
      /\ \A i \in 1..Len(u) : (p \o u)[Len(p) + i] = u[i]
  <2>. HIDE DEF u
  <2>. QED  BY <1>2, ConcatIs
<1>4. \A i \in 1..Len(t) : i \in 1..Len(u)
  BY <1>1
<1>. QED  BY <1>1, <1>3, <1>4 DEF Placed

LEMMA WholeAppend ==
  ASSUME NEW p \in Seq(STRING), Whole(p), NEW n, Sound(n)
  PROVE  Whole(p \o n.text)
<1>. DEFINE t == n.text
<1>0. t \in Seq(STRING)
  BY NodeFirst
<1>. HIDE DEF t
<1>. SUFFICES ASSUME NEW post \in Seq(STRING), NEW q \in BOOLEAN
              PROVE  Idle(Scanned((p \o t) \o post, Len(p \o t) + 1, q))
  BY DEF Whole, t
<1>. DEFINE u == t \o post
            r == p \o u
<1>1. u \in Seq(STRING) /\ (p \o t) \o post = r /\ Len(p \o t) = Len(p) + Len(t) /\ Len(p) \in Nat /\ Len(t) \in Nat
  BY <1>0, ConcatIs, ConcatAssociative
<1>2. Placed(r, Len(p), t)
  BY <1>0, PlacedAfter
<1>3. Idle(ScannedAt(r, Len(p), 1, q))
  <2>1. Idle(Scanned(p \o u, Len(p) + 1, q))
    <3>. HIDE DEF u
    <3>. QED  BY <1>1 DEF Whole
  <2>. QED  BY <2>1 DEF ScannedAt
<1>4. Idle(ScannedAt(r, Len(p), Len(t) + 1, q))
  <2>. HIDE DEF r
  <2>. QED  BY <1>2, <1>3, NodeLeaves DEF t
<1>5. Len(p) + (Len(t) + 1) = Len(p \o t) + 1
  BY <1>1
<1>. QED  BY <1>1, <1>4, <1>5 DEF ScannedAt

\* It goes on with what no boundary does.
Continues(t) == t # << >> /\ t[1] # "{"

\* What is added after such a pattern changes nothing of what was refused and
\* rewritten before.
LEMMA WholeRefuses ==
  ASSUME NEW p \in Seq(STRING), Whole(p), NEW t \in Seq(STRING), Continues(t),
         NEW j \in 1..Len(p)
  PROVE  Refuses(p \o t, j) <=> Refuses(p, j)
<1>1. /\ p \o t \in Seq(STRING) /\ Len(p) \in Nat /\ Len(t) \in Nat /\ Len(p \o t) = Len(p) + Len(t)
      /\ \A i \in 1..Len(p) : (p \o t)[i] = p[i]
      /\ \A i \in 1..Len(t) : (p \o t)[Len(p) + i] = t[i]
  BY ConcatIs
<1>. DEFINE r == p \o t
            n == Len(p)
            q == FALSE
            s == Scanned(p, j, FALSE)
<1>2. Scanned(r, j, FALSE) = s /\ s \in Modes
  <2>1. q \in BOOLEAN
    OBVIOUS
  <2>2. Scanned(r, j, q) = Scanned(p, j, q)
    <3>. HIDE DEF q
    <3>. QED  BY <2>1, ScannedPrefix
  <2>3. j \in Nat \ {0}
    BY <1>1
  <2>4. Scanned(p, j, q) \in Modes
    <3>. HIDE DEF q
    <3>. QED  BY <2>1, <2>3, ScannedType
  <2>. QED  BY <2>2, <2>4
<1>3. Idle(Scanned(r, Len(p) + 1, FALSE))
  BY DEF Whole
<1>4. Scanned(r, j + 1, FALSE) = Read(s, r, j, FALSE)
  <2>1. j \in Nat \ {0} /\ q \in BOOLEAN
    BY <1>1
  <2>2. Scanned(r, j + 1, q) = Read(Scanned(r, j, q), r, j, q)
    <3>. HIDE DEF q, r
    <3>. QED  BY <2>1, ScannedSteps
  <2>. QED  BY <1>2, <2>2
<1>5. r[n + 1] # "{"
  <2>1. 1 \in 1..Len(t)
    <3>1. t # << >>
      BY DEF Continues
    <3>. QED  BY <1>1, <3>1, EmptySeq
  <2>. QED  BY <1>1, <2>1 DEF Continues
<1>8. n < Len(r)
  <2>1. Len(t) > 0
    <3>1. t # << >>
      BY DEF Continues
    <3>. QED  BY <1>1, <3>1, EmptySeq
  <2>. QED  BY <1>1, <2>1
<1>10. n \in Nat /\ j \in 1..n /\ Len(r) \in Nat /\ \A i \in 1..n : r[i] = p[i]
  BY <1>1
<1>. HIDE DEF s, r, n
<1>6. CASE j < n
  <2>1. /\ j < Len(r) /\ r[j] = p[j] /\ r[j + 1] = p[j + 1]
        /\ j + 1 < n => r[j + 2] = p[j + 2]
        /\ j + 1 < Len(r)
    BY <1>6, <1>8, <1>10
  <2>2. ~(j + 1 < n) => j + 2 = n + 1
    BY <1>6, <1>8, <1>10
  <2>3. SetOperation(r, j) <=> SetOperation(p, j)
    BY <1>2, <1>6, <2>1 DEF SetOperation, s, n
  <2>4. Boundary(r, j) <=> Boundary(p, j)
    BY <1>2, <1>5, <1>6, <2>1, <2>2 DEF Boundary, s, n
  <2>. QED  BY <2>3, <2>4 DEF Refuses, r
<1>7. CASE j = n
  <2>1. ~Refuses(p, j)
    <3>1. ~(j < n)
      BY <1>7, <1>8, <1>10
    <3>. QED  BY <3>1 DEF n, Refuses, SetOperation, Boundary
  <2>2. Idle(Read(s, r, j, FALSE))
    BY <1>3, <1>4, <1>7 DEF r, n
  <2>3. ~SetOperation(r, j)
    <3>1. SUFFICES ASSUME s.inClass, ~s.escape, r[j] \in {"&", "-", "~"} PROVE FALSE
      BY <1>2 DEF SetOperation
    <3>2. Read(s, r, j, FALSE) = s
      BY <1>2, <3>1 DEF Read, Closes, Modes
    <3>. QED  BY <2>2, <3>1, <3>2 DEF Idle
  <2>4. ~Boundary(r, j)
    <3>1. SUFFICES ASSUME ~s.inClass, ~s.escape, j < Len(r), r[j] = "\\", r[j + 1] # "E" PROVE FALSE
      BY <1>2 DEF Boundary
    <3>2. CASE s.quote
      BY <1>2, <2>2, <3>1, <3>2 DEF Read, Closes, Modes, Idle
    <3>3. CASE ~s.quote
      BY <1>2, <2>2, <3>1, <3>3 DEF Read, Closes, Modes, Idle
    <3>. QED  BY <3>2, <3>3
  <2>. QED  BY <2>1, <2>3, <2>4 DEF Refuses, r
<1>9. j < n \/ j = n
  BY <1>8, <1>10
<1>. QED  BY <1>6, <1>7, <1>9

LEMMA WholeRewritten ==
  ASSUME NEW p \in Seq(STRING), Whole(p), NEW t \in Seq(STRING), NEW j \in 1..Len(p)
  PROVE  Rewritten(p \o t, j) <=> Rewritten(p, j)
<1>1. /\ p \o t \in Seq(STRING) /\ Len(p) \in Nat /\ Len(t) \in Nat /\ Len(p \o t) = Len(p) + Len(t)
      /\ \A i \in 1..Len(p) : (p \o t)[i] = p[i]
  BY ConcatIs
<1>. DEFINE r == p \o t
            n == Len(p)
            q == TRUE
            s == Scanned(p, j, TRUE)
<1>2. Scanned(r, j, TRUE) = s /\ s \in Modes
  <2>1. q \in BOOLEAN
    OBVIOUS
  <2>2. Scanned(r, j, q) = Scanned(p, j, q)
    <3>. HIDE DEF q
    <3>. QED  BY <2>1, ScannedPrefix
  <2>3. j \in Nat \ {0}
    BY <1>1
  <2>4. Scanned(p, j, q) \in Modes
    <3>. HIDE DEF q
    <3>. QED  BY <2>1, <2>3, ScannedType
  <2>. QED  BY <2>2, <2>4
<1>3. Idle(Scanned(r, Len(p) + 1, TRUE))
  BY DEF Whole
<1>4. Scanned(r, j + 1, TRUE) = Read(s, r, j, TRUE)
  <2>1. j \in Nat \ {0} /\ q \in BOOLEAN
    BY <1>1
  <2>2. Scanned(r, j + 1, q) = Read(Scanned(r, j, q), r, j, q)
    <3>. HIDE DEF q, r
    <3>. QED  BY <2>1, ScannedSteps
  <2>. QED  BY <1>2, <2>2
<1>5. n \in Nat /\ j \in 1..n /\ Len(r) \in Nat /\ n <= Len(r) /\ \A i \in 1..n : r[i] = p[i]
  BY <1>1
<1>. HIDE DEF s, r, n
<1>6. CASE j < n
  <2>1. j < Len(r) /\ r[j] = p[j] /\ r[j + 1] = p[j + 1]
    BY <1>5, <1>6
  <2>. QED  BY <1>2, <1>6, <2>1 DEF Rewritten, s, r, n
<1>7. CASE j = n
  <2>1. ~Rewritten(p, j)
    <3>1. ~(j < n)
      BY <1>5, <1>7
    <3>. QED  BY <3>1 DEF Rewritten, n
  <2>2. Idle(Read(s, r, j, TRUE))
    BY <1>3, <1>4, <1>7 DEF r, n
  <2>3. ~Rewritten(r, j)
    <3>1. SUFFICES ASSUME ~s.inClass, ~s.escape, ~s.quote, j < Len(r), r[j] = "\\" PROVE FALSE
      BY <1>2 DEF Rewritten
    <3>. QED  BY <1>2, <2>2, <3>1 DEF Read, Closes, Modes, Idle
  <2>. QED  BY <2>1, <2>3 DEF r
<1>8. j < n \/ j = n
  BY <1>5
<1>. QED  BY <1>6, <1>7, <1>8

-----------------------------------------------------------------------------
(* Patterns written with nodes.                                            *)

LEMMA TextSteps ==
  ASSUME NEW N, \A n \in N : n.text \in Seq(STRING), NEW nodes \in Seq(N), NEW n \in N
  PROVE  /\ Text(nodes) \in Seq(STRING)
         /\ Text(Append(nodes, n)) = Text(nodes) \o n.text
<1>. DEFINE f == [m \in N |-> m.text]
<1>1. Maps(f, N, Seq(STRING)) /\ \A m \in N : f[m] = m.text
  BY DEF Maps
<1>. HIDE DEF f
<1>2. \A s \in Seq(N) : Text(s) = FlattenSeq(Mapped(f, s))
  <2>. TAKE s \in Seq(N)
  <2>1. DOMAIN s = 1..Len(s) /\ \A i \in 1..Len(s) : s[i] \in N
    BY LenProperties, ElementOfSeq
  <2>2. [i \in DOMAIN s |-> s[i].text] = [i \in DOMAIN s |-> f[s[i]]]
    BY <1>1, <2>1
  <2>. QED  BY <2>2 DEF Text, Mapped
<1>3. Mapped(f, nodes) \in Seq(Seq(STRING)) /\ Mapped(f, Append(nodes, n)) = Append(Mapped(f, nodes), f[n])
  BY <1>1, MappedType, MappedAppend
<1>4. f[n] \in Seq(STRING)
  BY <1>1
<1>. DEFINE m == Mapped(f, nodes)
            x == f[n]
<1>5. FlattenSeq(m) \in Seq(STRING) /\ FlattenSeq(Append(m, x)) = FlattenSeq(m) \o x
  <2>1. m \in Seq(Seq(STRING)) /\ x \in Seq(STRING)
    BY <1>3, <1>4
  <2>. HIDE DEF m, x
  <2>. QED  BY <2>1, FlattenAppend, FlattenType
<1>6. Append(nodes, n) \in Seq(N)
  BY AppendProperties
<1>. QED  BY <1>1, <1>2, <1>3, <1>5, <1>6

\* What a translated pattern is made of: characters and replacements.
Out == STRING \cup {unicodeClassReplacement[c] : c \in Shorthands}

\* Characters, and what the shorthands are replaced by, are such elements.
LEMMA OutType ==
  /\ \A c \in Shorthands : unicodeClassReplacement[c] \in Out
  /\ \A x \in STRING : x \in Out
  /\ \A x \in Out : <<x>> \in Seq(Out)
  /\ Seq(STRING) \subseteq Seq(Out)
<1>1. \A c \in Shorthands : unicodeClassReplacement[c] \in Out
  BY DEF Out
<1>2. \A x \in STRING : x \in Out
  BY DEF Out
<1>3. ASSUME NEW p \in Seq(STRING) PROVE p \in Seq(Out)
  <2>1. Len(p) \in Nat /\ p = [i \in 1..Len(p) |-> p[i]] /\ \A i \in 1..Len(p) : p[i] \in STRING
    BY LenProperties, ElementOfSeq
  <2>2. [i \in 1..Len(p) |-> p[i]] \in Seq(Out)
    BY <1>2, <2>1
  <2>. QED  BY <2>1, <2>2
<1>4. \A x \in Out : <<x>> \in Seq(Out)
  OBVIOUS
<1>. QED  BY <1>1, <1>2, <1>3, <1>4

LEMMA MeantSteps ==
  ASSUME NEW N, \A n \in N : n.meant \in Seq(Out), NEW nodes \in Seq(N), NEW n \in N
  PROVE  /\ Meant(nodes) \in Seq(Out)
         /\ Meant(Append(nodes, n)) = Meant(nodes) \o n.meant
<1>. DEFINE f == [m \in N |-> m.meant]
<1>1. Maps(f, N, Seq(Out)) /\ \A m \in N : f[m] = m.meant
  BY DEF Maps
<1>. HIDE DEF f
<1>2. \A s \in Seq(N) : Meant(s) = FlattenSeq(Mapped(f, s))
  <2>. TAKE s \in Seq(N)
  <2>1. DOMAIN s = 1..Len(s) /\ \A i \in 1..Len(s) : s[i] \in N
    BY LenProperties, ElementOfSeq
  <2>2. [i \in DOMAIN s |-> s[i].meant] = [i \in DOMAIN s |-> f[s[i]]]
    BY <1>1, <2>1
  <2>. QED  BY <2>2 DEF Meant, Mapped
<1>3. Mapped(f, nodes) \in Seq(Seq(Out)) /\ Mapped(f, Append(nodes, n)) = Append(Mapped(f, nodes), f[n])
  BY <1>1, MappedType, MappedAppend
<1>4. f[n] \in Seq(Out)
  BY <1>1
<1>. DEFINE m == Mapped(f, nodes)
            x == f[n]
<1>5. FlattenSeq(m) \in Seq(Out) /\ FlattenSeq(Append(m, x)) = FlattenSeq(m) \o x
  <2>1. m \in Seq(Seq(Out)) /\ x \in Seq(Out)
    BY <1>3, <1>4
  <2>. HIDE DEF m, x
  <2>. QED  BY <2>1, FlattenAppend, FlattenType
<1>6. Append(nodes, n) \in Seq(N)
  BY AppendProperties
<1>. QED  BY <1>1, <1>2, <1>3, <1>5, <1>6

LEMMA SortsSteps ==
  ASSUME NEW N, NEW nodes \in Seq(N), NEW n \in N
  PROVE  Sorts(Append(nodes, n)) = Sorts(nodes) \cup {n.sort}
<1>1. /\ Append(nodes, n) \in Seq(N) /\ Len(nodes) \in Nat /\ Len(Append(nodes, n)) = Len(nodes) + 1
      /\ Append(nodes, n)[Len(nodes) + 1] = n
      /\ \A i \in 1..Len(nodes) : Append(nodes, n)[i] = nodes[i]
  BY AppendProperties, LenProperties
<1>2. DOMAIN nodes = 1..Len(nodes) /\ DOMAIN Append(nodes, n) = 1..(Len(nodes) + 1)
  BY <1>1, LenProperties
<1>3. \A i : i \in 1..(Len(nodes) + 1) <=> i \in 1..Len(nodes) \/ i = Len(nodes) + 1
  BY <1>1
<1>. QED  BY <1>1, <1>2, <1>3 DEF Sorts

\* What the two checks of a pattern say, by its nodes.
LEMMA UnsupportedIs ==
  ASSUME NEW N, \A n \in N : Sound(n), NEW nodes \in Seq(N)
  PROVE  /\ Text(nodes) \in Seq(STRING) /\ Whole(Text(nodes))
         /\ checkUnsupported(Text(nodes)) <=> "rust" \in Sorts(nodes)
<1>. DEFINE T == {s \in Seq(N) : /\ Text(s) \in Seq(STRING) /\ Whole(Text(s))
                                 /\ (\E j \in 1..Len(Text(s)) : Refuses(Text(s), j)) <=> "rust" \in Sorts(s)}
<1>0. \A n \in N : n.text \in Seq(STRING)
  BY NodeFirst
<1>1. << >> \in T
  <2>1. Text(<< >>) = << >> /\ Sorts(<< >>) = {}
    BY FlattenEmpty DEF Text, Sorts
  <2>. DEFINE e == Text(<< >>)
  <2>2. e \in Seq(STRING) /\ Whole(e) /\ 1..Len(e) = {}
    <3>1. << >> \in Seq(STRING) /\ 1..Len(<< >>) = {}
      OBVIOUS
    <3>2. e = << >>
      BY <2>1
    <3>. HIDE DEF e
    <3>. QED  BY <3>1, <3>2, WholeEmpty
  <2>3. "rust" \notin Sorts(<< >>) /\ << >> \in Seq(N)
    BY <2>1
  <2>. HIDE DEF e
  <2>. QED  BY <2>2, <2>3 DEF e
<1>2. ASSUME NEW s \in Seq(N), NEW n \in N, s \in T PROVE Append(s, n) \in T
  <2>. DEFINE p == Text(s)
              t == n.text
              r == p \o t
  <2>1. p \in Seq(STRING) /\ Whole(p) /\ ((\E j \in 1..Len(p) : Refuses(p, j)) <=> "rust" \in Sorts(s))
    BY <1>2
  <2>2. t \in Seq(STRING) /\ Sound(n) /\ Text(Append(s, n)) = r
    BY <1>0, TextSteps
  <2>3. Continues(t)
    <3>1. Len(t) # 0
      BY NodeFirst
    <3>2. t # << >>
      BY <3>1
    <3>3. t[1] # "{"
      BY NodeFirst
    <3>. QED  BY <3>2, <3>3 DEF Continues
  <2>. HIDE DEF p, t
  <2>4. r \in Seq(STRING) /\ Len(p) \in Nat /\ Len(t) \in Nat /\ Len(r) = Len(p) + Len(t)
    BY <2>1, <2>2, ConcatIs
  <2>5. Whole(r)
    BY <2>1, <2>2, WholeAppend DEF t
  <2>6. \A j \in 1..Len(p) : Refuses(r, j) <=> Refuses(p, j)
    BY <2>1, <2>2, <2>3, WholeRefuses
  <2>7. (\E i \in 1..Len(t) : Refuses(r, Len(p) + i)) <=> n.sort = "rust"
    <3>. DEFINE post == << >>
    <3>1. post \in Seq(STRING) /\ t \o post = t /\ p \o (t \o post) = r
      BY <2>2, ConcatEmptySeq
    <3>2. Placed(p \o (t \o post), Len(p), t)
      <4>. HIDE DEF post
      <4>. QED  BY <2>1, <2>2, <3>1, PlacedAfter
    <3>3. Idle(Scanned(p \o t, Len(p) + 1, FALSE))
      BY <2>1, <2>2 DEF Whole
    <3>4. Placed(r, Len(p), t) /\ Idle(ScannedAt(r, Len(p), 1, FALSE))
      BY <3>1, <3>2, <3>3 DEF ScannedAt
    <3>. HIDE DEF r
    <3>. QED  BY <2>2, <2>4, <3>4, NodeRefused DEF t
  <2>8. (\E j \in 1..Len(r) : Refuses(r, j)) <=>
          (\E j \in 1..Len(p) : Refuses(r, j)) \/ (\E i \in 1..Len(t) : Refuses(r, Len(p) + i))
    <3>1. \A j \in 1..Len(r) : j \in 1..Len(p) \/ (j - Len(p) \in 1..Len(t) /\ Len(p) + (j - Len(p)) = j)
      BY <2>4
    <3>2. \A j \in 1..Len(p) : j \in 1..Len(r)
      BY <2>4
    <3>3. \A i \in 1..Len(t) : Len(p) + i \in 1..Len(r)
      BY <2>4
    <3>. HIDE DEF r
    <3>. QED  BY <3>1, <3>2, <3>3
  <2>9. "rust" \in Sorts(Append(s, n)) <=> "rust" \in Sorts(s) \/ n.sort = "rust"
    BY SortsSteps
  <2>10. (\E j \in 1..Len(r) : Refuses(r, j)) <=> "rust" \in Sorts(Append(s, n))
    <3>. HIDE DEF r
    <3>. QED  BY <2>1, <2>6, <2>7, <2>8, <2>9
  <2>11. Append(s, n) \in Seq(N)
    BY AppendProperties
  <2>. HIDE DEF r
  <2>. QED  BY <2>2, <2>4, <2>5, <2>10, <2>11
<1>. HIDE DEF T
<1>3. Seq(N) \subseteq T
  BY <1>1, <1>2, AppendInduction
<1>4. \A p \in Seq(STRING) : checkUnsupported(p) <=> \E j \in 1..Len(p) : Refuses(p, j)
  BY LenProperties DEF checkUnsupported, Refuses
<1>. QED  BY <1>3, <1>4 DEF T

\* What the translation puts at a position.
Piece(p, i) ==
  IF Rewritten(p, i) THEN <<unicodeClassReplacement[p[i + 1]]>>
  ELSE IF i > 1 /\ Rewritten(p, i - 1) THEN << >>
  ELSE <<p[i]>>

\* A piece is a piece of text.
LEMMA PieceType ==
  ASSUME NEW p \in Seq(STRING), NEW i \in 1..Len(p)
  PROVE  Piece(p, i) \in Seq(Out)
<1>1. p[i] \in Out
  BY ElementOfSeq, OutType
<1>2. \A c \in Shorthands : <<unicodeClassReplacement[c]>> \in Seq(Out)
  BY OutType
<1>3. Rewritten(p, i) => <<unicodeClassReplacement[p[i + 1]]>> \in Seq(Out)
  BY <1>2 DEF Rewritten
<1>4. CASE Rewritten(p, i)
  BY <1>3, <1>4 DEF Piece
<1>5. CASE ~Rewritten(p, i)
  <2>. DEFINE x == p[i]
  <2>1. <<x>> \in Seq(Out) /\ << >> \in Seq(Out)
    <3>1. x \in Out
      BY <1>1
    <3>. HIDE DEF x
    <3>. QED  BY <3>1, OutType
  <2>2. Piece(p, i) = << >> \/ Piece(p, i) = <<x>>
    BY <1>5 DEF Piece
  <2>. QED  BY <2>1, <2>2
<1>. QED  BY <1>4, <1>5

\* The pieces of a plain node make what is meant with it.
LEMMA NodePieces ==
  ASSUME NEW p, NEW b, NEW n, Sound(n), n.sort = "plain", Placed(p, b, n.text),
         Ready(p, b), b > 0 => ~Rewritten(p, b)
  PROVE  /\ [i \in 1..Len(n.text) |-> Piece(p, b + i)] \in Seq(Seq(Out))
         /\ FlattenSeq([i \in 1..Len(n.text) |-> Piece(p, b + i)]) = n.meant
<1>. DEFINE t == n.text
            pieces == [i \in 1..Len(t) |-> Piece(p, b + i)]
<1>1. t \in Seq(STRING) /\ Len(t) \in Nat /\ b \in Nat /\ \A i \in 1..Len(t) : p[b + i] = t[i]
  BY LenProperties DEF Placed
<1>2. \A i \in 1..Len(t) : Rewritten(p, b + i) <=> PairNode(n) /\ t[2] \in Shorthands /\ i = 1
  BY NodeRewritten
<1>3. CASE PairNode(n) /\ t[2] \in Shorthands
  <2>1. Len(t) = 2 /\ n.meant = <<unicodeClassReplacement[t[2]]>>
    BY <1>3 DEF PairNode
  <2>2. 1 \in 1..Len(t) /\ 2 \in 1..Len(t) /\ b + 2 > 1 /\ (b + 2) - 1 = b + 1 /\ (b + 1) + 1 = b + 2
    BY <1>1, <2>1
  <2>3. Rewritten(p, b + 1) /\ ~Rewritten(p, b + 2) /\ p[b + 2] = t[2]
    BY <1>1, <1>2, <1>3, <2>2
  <2>4. Piece(p, b + 1) = n.meant
    BY <2>1, <2>2, <2>3 DEF Piece
  <2>5. Piece(p, b + 2) = << >>
    BY <2>2, <2>3 DEF Piece
  <2>7. n.meant \in Seq(Out)
    BY <1>3, <2>1, OutType
  <2>8. pieces = <<n.meant, << >>>>
    <3>1. pieces = [i \in 1..2 |-> Piece(p, b + i)]
      BY <2>1
    <3>2. [i \in 1..2 |-> Piece(p, b + i)] = <<Piece(p, b + 1), Piece(p, b + 2)>>
      OBVIOUS
    <3>. QED  BY <2>4, <2>5, <3>1, <3>2
  <2>9. <<n.meant, << >>>> = Append(<<n.meant>>, << >>) /\ <<n.meant>> \in Seq(Seq(Out)) /\ << >> \in Seq(Out)
    BY <2>7
  <2>. DEFINE x == n.meant
              m == <<x>>
              e == << >>
  <2>10. FlattenSeq(m) = x
    <3>1. x \in Seq(Out)
      BY <2>7
    <3>. HIDE DEF x
    <3>. QED  BY <3>1, FlattenOne
  <2>11. FlattenSeq(Append(m, e)) = FlattenSeq(m) \o e
    <3>1. m \in Seq(Seq(Out)) /\ e \in Seq(Out)
      BY <2>9
    <3>. HIDE DEF m, e
    <3>. QED  BY <3>1, FlattenAppend
  <2>12. x \o e = x
    BY <2>7, ConcatEmptySeq
  <2>13. pieces = Append(m, e)
    BY <2>8, <2>9
  <2>14. pieces \in Seq(Seq(Out))
    <3>1. m \in Seq(Seq(Out)) /\ e \in Seq(Out)
      BY <2>9
    <3>. HIDE DEF m, e
    <3>2. Append(m, e) \in Seq(Seq(Out))
      BY <3>1, AppendProperties
    <3>. HIDE DEF pieces
    <3>. QED  BY <2>13, <3>2
  <2>. QED  BY <2>10, <2>11, <2>12, <2>13, <2>14
<1>4. CASE ~(PairNode(n) /\ t[2] \in Shorthands)
  <2>1. n.meant = t
    <3>1. CASE PairNode(n)
      BY <1>4, <3>1 DEF PairNode
    <3>2. CASE ~PairNode(n)
      BY <3>2, NodeKinds DEF BareNode, BoundaryNode, LiteralNode, ClassNode
    <3>. QED  BY <3>1, <3>2
  <2>2. ASSUME NEW i \in 1..Len(t) PROVE Piece(p, b + i) = <<t[i]>>
    <3>1. ~Rewritten(p, b + i) /\ p[b + i] = t[i]
      BY <1>1, <1>2, <1>4
    <3>2. b + i > 1 => ~Rewritten(p, (b + i) - 1)
      <4>1. CASE i = 1
        <5>1. (b + i) - 1 = b /\ (b + i > 1 => b > 0)
          BY <1>1, <4>1
        <5>. QED  BY <5>1
      <4>2. CASE i # 1
        <5>1. i - 1 \in 1..Len(t) /\ b + (i - 1) = (b + i) - 1
          BY <1>1, <4>2
        <5>2. ~Rewritten(p, b + (i - 1))
          BY <1>2, <1>4, <5>1
        <5>. QED  BY <5>1, <5>2
      <4>. QED  BY <4>1, <4>2
    <3>. QED  BY <3>1, <3>2 DEF Piece
  <2>3. DOMAIN t = 1..Len(t)
    BY <1>1, LenProperties
  <2>4. pieces = [i \in DOMAIN t |-> <<t[i]>>]
    BY <2>2, <2>3
  <2>5. t \in Seq(Out)
    BY <1>1, OutType
  <2>. HIDE DEF t
  <2>6. /\ [i \in DOMAIN t |-> <<t[i]>>] \in Seq(Seq(Out))
        /\ FlattenSeq([i \in DOMAIN t |-> <<t[i]>>]) = t
    BY <2>5, FlattenSingles
  <2>. QED  BY <2>1, <2>4, <2>6 DEF t
<1>. QED  BY <1>3, <1>4

\* What is translated is what was meant.
LEMMA TranslatedIs ==
  ASSUME NEW N, \A n \in N : Sound(n) /\ n.sort = "plain", NEW nodes \in Seq(N)
  PROVE  translateUnicodeClasses(Text(nodes)) = Meant(nodes)
<1>. DEFINE Rendered(p) == [i \in 1..Len(p) |-> Piece(p, i)]
            T == {s \in Seq(N) : FlattenSeq(Rendered(Text(s))) = Meant(s)}
<1>0. \A n \in N : n.text \in Seq(STRING) /\ n.meant \in Seq(Out)
  <2>. TAKE n \in N
  <2>1. n.text \in Seq(STRING)
    BY NodeFirst
  <2>2. n.meant = n.text \/ \E c \in Shorthands : n.meant = <<unicodeClassReplacement[c]>>
    BY DEF Sound, IsNode, IsShorthand
  <2>3. \A c \in Shorthands : <<unicodeClassReplacement[c]>> \in Seq(Out)
    BY OutType
  <2>. QED  BY <2>1, <2>2, <2>3, OutType
<1>1. << >> \in T
  <2>1. Text(<< >>) = << >> /\ Meant(<< >>) = << >> /\ << >> \in Seq(N)
    BY FlattenEmpty DEF Text, Meant
  <2>2. Rendered(<< >>) = << >>
    OBVIOUS
  <2>. QED  BY <2>1, <2>2, FlattenEmpty
<1>2. ASSUME NEW s \in Seq(N), NEW n \in N, s \in T PROVE Append(s, n) \in T
  <2>. DEFINE p == Text(s)
              t == n.text
              r == p \o t
              a == Rendered(p)
              b == [i \in 1..Len(t) |-> Piece(r, Len(p) + i)]
  <2>1. p \in Seq(STRING) /\ Whole(p) /\ FlattenSeq(a) = Meant(s) /\ Append(s, n) \in Seq(N)
    BY <1>2, UnsupportedIs, AppendProperties
  <2>2. t \in Seq(STRING) /\ Sound(n) /\ Text(Append(s, n)) = r
    BY <1>0, TextSteps
  <2>. HIDE DEF p, t
  <2>3. /\ r \in Seq(STRING) /\ Len(p) \in Nat /\ Len(t) \in Nat /\ Len(r) = Len(p) + Len(t)
        /\ \A i \in 1..Len(p) : r[i] = p[i]
    BY <2>1, <2>2, ConcatIs
  <2>4. \A j \in 1..Len(p) : Rewritten(r, j) <=> Rewritten(p, j)
    BY <2>1, <2>2, WholeRewritten
  <2>5. b \in Seq(Seq(Out)) /\ FlattenSeq(b) = n.meant
    <3>. DEFINE post == << >>
                k == Len(p)
    <3>1. post \in Seq(STRING) /\ t \o post = t /\ p \o (t \o post) = r
      BY <2>2, ConcatEmptySeq
    <3>2. Placed(p \o (t \o post), k, t)
      <4>. HIDE DEF post
      <4>. QED  BY <2>1, <2>2, <3>1, PlacedAfter
    <3>3. Idle(Scanned(p \o t, k + 1, TRUE))
      BY <2>1, <2>2 DEF Whole
    <3>4. Placed(r, k, t) /\ Ready(r, k)
      BY <3>1, <3>2, <3>3 DEF ScannedAt, Ready
    <3>5. k > 0 => ~Rewritten(r, k)
      <4>1. ASSUME k > 0 PROVE ~Rewritten(p, k)
        <5>1. ~(k < Len(p))
          BY <2>3
        <5>. QED  BY <5>1 DEF Rewritten
      <4>2. k > 0 => k \in 1..Len(p)
        BY <2>3
      <4>. QED  BY <2>4, <4>1, <4>2
    <3>6. n.sort = "plain"
      OBVIOUS
    <3>. HIDE DEF r, k
    <3>7. /\ [i \in 1..Len(n.text) |-> Piece(r, k + i)] \in Seq(Seq(Out))
          /\ FlattenSeq([i \in 1..Len(n.text) |-> Piece(r, k + i)]) = n.meant
      BY <2>2, <3>4, <3>5, <3>6, NodePieces DEF t
    <3>. QED  BY <3>7 DEF k, t
  <2>6. a \in Seq(Seq(Out)) /\ Len(a) = Len(p)
    <3>1. \A i \in 1..Len(p) : Piece(p, i) \in Seq(Out)
      BY <2>1, PieceType
    <3>. QED  BY <2>3, <3>1
  <2>7. Rendered(r) = a \o b
    <3>1. \A i \in 1..Len(p) : Piece(r, i) = Piece(p, i)
      <4>. TAKE i \in 1..Len(p)
      <4>1. i \in Nat /\ (i > 1 => i - 1 \in 1..Len(p))
        BY <2>3
      <4>2. r[i] = p[i] /\ (Rewritten(p, i) => r[i + 1] = p[i + 1])
        <5>1. Rewritten(p, i) => i + 1 \in 1..Len(p)
          BY <2>3, <4>1 DEF Rewritten
        <5>. QED  BY <2>3, <5>1
      <4>3. (Rewritten(r, i) <=> Rewritten(p, i)) /\ (i > 1 => (Rewritten(r, i - 1) <=> Rewritten(p, i - 1)))
        BY <2>4, <4>1
      <4>. HIDE DEF r
      <4>. QED  BY <4>2, <4>3 DEF Piece
    <3>2. /\ a \o b \in Seq(Seq(Out)) /\ Len(a \o b) = Len(a) + Len(b) /\ Len(b) = Len(t)
          /\ \A i \in 1..Len(a) : (a \o b)[i] = a[i]
          /\ \A i \in 1..Len(b) : (a \o b)[Len(a) + i] = b[i]
      <4>1. Len(b) = Len(t)
        BY <2>3
      <4>2. a \in Seq(Seq(Out)) /\ b \in Seq(Seq(Out))
        BY <2>5, <2>6
      <4>. HIDE DEF a, b
      <4>3. /\ a \o b \in Seq(Seq(Out)) /\ Len(a \o b) = Len(a) + Len(b)
            /\ \A i \in 1..Len(a) : (a \o b)[i] = a[i]
            /\ \A i \in 1..Len(b) : (a \o b)[Len(a) + i] = b[i]
        BY <4>2, ConcatIs
      <4>. QED  BY <4>1, <4>3
    <3>3. \A i \in 1..Len(r) : Piece(r, i) = (a \o b)[i]
      <4>. TAKE i \in 1..Len(r)
      <4>1. CASE i \in 1..Len(p)
        <5>1. (a \o b)[i] = a[i] /\ a[i] = Piece(p, i)
          BY <2>6, <3>2, <4>1
        <5>. QED  BY <3>1, <4>1, <5>1
      <4>2. CASE i \notin 1..Len(p)
        <5>. DEFINE j == i - Len(p)
        <5>1. j \in 1..Len(t) /\ Len(p) + j = i
          BY <2>3, <4>2
        <5>2. (a \o b)[Len(p) + j] = b[j] /\ b[j] = Piece(r, Len(p) + j)
          BY <2>6, <3>2, <5>1
        <5>. QED  BY <5>1, <5>2
      <4>. QED  BY <4>1, <4>2
    <3>4. Rendered(r) \in Seq(Seq(Out)) /\ Len(Rendered(r)) = Len(r) /\ Len(r) = Len(a \o b)
      <4>1. \A i \in 1..Len(r) : Piece(r, i) \in Seq(Out)
        BY <2>3, PieceType
      <4>2. Len(r) \in Nat
        BY <2>3
      <4>3. Len(r) = Len(a \o b)
        BY <2>3, <2>6, <3>2
      <4>. HIDE DEF r, a, b
      <4>. QED  BY <4>1, <4>2, <4>3
    <3>5. \A i \in 1..Len(Rendered(r)) : Rendered(r)[i] = (a \o b)[i]
      BY <3>3, <3>4
    <3>. DEFINE u == Rendered(r)
                v == a \o b
    <3>6. u \in Seq(Seq(Out)) /\ v \in Seq(Seq(Out)) /\ Len(u) = Len(v) /\ \A i \in 1..Len(u) : u[i] = v[i]
      BY <3>2, <3>4, <3>5
    <3>7. u = v
      <4>. HIDE DEF u, v
      <4>. QED  BY <3>6, SeqEqual
    <3>. QED  BY <3>7
  <2>8. FlattenSeq(a \o b) = FlattenSeq(a) \o FlattenSeq(b)
    <3>. HIDE DEF a, b
    <3>. QED  BY <2>5, <2>6, FlattenConcat
  <2>9. Meant(Append(s, n)) = Meant(s) \o n.meant
    BY <1>0, MeantSteps
  <2>10. FlattenSeq(Rendered(r)) = Meant(Append(s, n))
    BY <2>1, <2>5, <2>7, <2>8, <2>9
  <2>. QED  BY <2>1, <2>2, <2>10
<1>. HIDE DEF T
<1>3. nodes \in T
  BY <1>1, <1>2, AppendInduction
<1>4. Text(nodes) \in Seq(STRING)
  BY UnsupportedIs
<1>5. translateUnicodeClasses(Text(nodes)) = FlattenSeq(Rendered(Text(nodes)))
  <2>1. DOMAIN Text(nodes) = 1..Len(Text(nodes))
    BY <1>4, LenProperties
  <2>. QED  BY <2>1 DEF translateUnicodeClasses, Piece
<1>. QED  BY <1>3, <1>5 DEF T

-----------------------------------------------------------------------------
(* The walk.                                                               *)

\* The k-th name is the next one; those that matched before it were found.
Reached(k) ==
  /\ rest = SubSeq(Names, k, Len(Names))
  /\ found = {Names[i] : i \in {j \in 1..(k - 1) : Asked(Names[j]) = "match"}}
  /\ \A i \in 1..(k - 1) : Asked(Names[i]) \in {"match", "mismatch"}

Codes == {"none", "ok", "INVALID_GLOB", "INVALID_REGEX", "UNSUPPORTED_REGEX_SYNTAX", "IO_ERROR"}

\* What the handler has come to know where it is.
Progress ==
  /\ pc \in {"idle", "glob", "regex", "walk", "done", "crashed"}
  /\ req \in Requests \cup {NoRequest}
  /\ code \in Codes /\ (code = "none" <=> pc # "done")
  /\ \E k \in 1..(Len(Names) + 1) : Reached(k) /\ (pc \in {"idle", "glob", "regex"} => k = 1)

\* What an answer says of the glob.
GlobAnswers ==
  /\ pc \in {"regex", "walk"} \/ (pc = "done" /\ code # "INVALID_GLOB") =>
       Asked(Probe) \in {"match", "mismatch"}
  /\ code = "INVALID_GLOB" => Asked(Probe) = "error"
  /\ code = "IO_ERROR" => rest # << >> /\ Asked(Head(rest)) = "error"
  /\ code = "ok" => rest = << >>

\* What an answer says of the regex.
RegexAnswers ==
  LET c == Compile(Text(req.regex), req.opts)
  IN  /\ pc = "walk" \/ code \in {"ok", "IO_ERROR"} => compiled = c /\ ~c.unsupported /\ GoAccepts
      /\ code = "UNSUPPORTED_REGEX_SYNTAX" => c.unsupported
      /\ code = "INVALID_REGEX" => ~c.unsupported

Inv == Progress /\ GlobAnswers /\ RegexAnswers

\* Answers do not change while the request does not.
LEMMA SameAsked ==
  ASSUME req' = req
  PROVE  /\ \A name : Asked(name)' = Asked(name)
         /\ \A k : rest' = rest /\ found' = found /\ Reached(k) => Reached(k)'
<1>1. \A name : Asked(name)' = Asked(name)
  BY DEF Asked, NotGiven
<1>2. ASSUME NEW k, rest' = rest, found' = found, Reached(k) PROVE Reached(k)'
  <2>1. \A j \in 1..(k - 1) : Asked(Names[j])' = Asked(Names[j])
    BY <1>1
  <2>2. rest' = SubSeq(Names, k, Len(Names))
    BY <1>2 DEF Reached
  <2>3. {j \in 1..(k - 1) : Asked(Names[j])' = "match"} = {j \in 1..(k - 1) : Asked(Names[j]) = "match"}
    BY <2>1
  <2>4. found' = {Names[i] : i \in {j \in 1..(k - 1) : Asked(Names[j])' = "match"}}
    BY <1>2, <2>3 DEF Reached
  <2>5. \A i \in 1..(k - 1) : Asked(Names[i])' \in {"match", "mismatch"}
    BY <1>2, <2>1 DEF Reached
  <2>. QED  BY <2>2, <2>4, <2>5 DEF Reached
<1>. QED  BY <1>1, <1>2

\* A step that moves neither the walk nor the request keeps what is known of
\* the walk.
LEMMA ProgressStays ==
  ASSUME Progress, req' = req, rest' = rest, found' = found,
         pc' \in {"idle", "glob", "regex", "walk", "done", "crashed"}, code' \in Codes,
         code' = "none" <=> pc' # "done", pc' \in {"idle", "glob", "regex"} => pc \in {"idle", "glob", "regex"}
  PROVE  Progress'
<1>1. PICK k \in 1..(Len(Names) + 1) : Reached(k) /\ (pc \in {"idle", "glob", "regex"} => k = 1)
  BY DEF Progress
<1>2. Reached(k)'
  BY <1>1, SameAsked
<1>. QED  BY <1>1, <1>2 DEF Progress

LEMMA WalkStarts ==
  \A k : k = 1 /\ rest = Names /\ found = {} => Reached(k)
<1>1. Names \in Seq(Seq(Seq(Chars) \ {<< >>, <<".">>, <<".", ".">>}))
  BY NamesAssumption
<1>2. SubSeq(Names, 1, Len(Names)) = Names
  BY <1>1, SubSeqFull
<1>3. 1..(1 - 1) = {}
  OBVIOUS
<1>. QED  BY <1>2, <1>3 DEF Reached

NameType == Seq(Seq(Chars) \ {<< >>, <<".">>, <<".", ".">>})

\* The name the walk is at.
LEMMA AtName ==
  ASSUME NEW k \in 1..(Len(Names) + 1), rest = SubSeq(Names, k, Len(Names)), rest # << >>
  PROVE  k <= Len(Names) /\ Head(rest) = Names[k] /\ Tail(rest) = SubSeq(Names, k + 1, Len(Names))
<1>1. Names \in Seq(NameType) /\ Len(Names) \in Nat /\ k \in Nat
  BY NamesAssumption, LenProperties DEF NameType
<1>2. k <= Len(Names)
  <2>1. SUFFICES ASSUME k > Len(Names) PROVE FALSE
    BY <1>1
  <2>2. rest = << >>
    BY <1>1, <2>1, SubSeqEmpty
  <2>. QED  BY <2>2
<1>. DEFINE m == Len(Names)
<1>3. m \in 1..Len(Names) /\ k \in 1..m
  BY <1>1, <1>2
<1>4. Head(SubSeq(Names, k, m)) = Names[k] /\ Tail(SubSeq(Names, k, m)) = SubSeq(Names, k + 1, m)
  <2>. HIDE DEF m
  <2>. QED  BY <1>1, <1>3, HeadTailOfSubSeq
<1>. QED  BY <1>2, <1>4

\* Visiting a name moves the walk on by one.
LEMMA WalkMoves ==
  ASSUME NEW v, v = Asked(Head(rest)), Progress, pc = "walk", rest # << >>, Visit(v)
  PROVE  Progress'
<1>1. PICK k \in 1..(Len(Names) + 1) : Reached(k)
  BY DEF Progress
<1>2. k <= Len(Names) /\ Head(rest) = Names[k] /\ Tail(rest) = SubSeq(Names, k + 1, Len(Names))
  BY <1>1, AtName DEF Reached
<1>3. k \in Nat /\ Len(Names) \in Nat /\ k + 1 \in 1..(Len(Names) + 1) /\ (k + 1) - 1 = k /\ 1..k = 1..(k - 1) \cup {k}
  <2>1. Len(Names) \in Nat
    BY NamesAssumption, LenProperties
  <2>. QED  BY <1>2, <2>1
<1>4. req' = req /\ rest' = Tail(rest) /\ v = Asked(Names[k]) /\ v \in {"match", "mismatch"}
  BY <1>2 DEF Visit
<1>. DEFINE Hit(n) == {j \in 1..n : Asked(Names[j]) = "match"}
<1>5. \A j : Asked(Names[j])' = Asked(Names[j])
  BY <1>4, SameAsked
<1>6. found' = {Names[i] : i \in Hit(k)}
  <2>1. found = {Names[i] : i \in Hit(k - 1)}
    BY <1>1 DEF Reached
  <2>2. CASE v = "match"
    <3>1. Hit(k) = Hit(k - 1) \cup {k}
      BY <1>3, <1>4, <2>2
    <3>2. found' = found \cup {Names[k]}
      BY <1>2, <2>2 DEF Visit
    <3>. QED  BY <2>1, <3>1, <3>2
  <2>3. CASE v # "match"
    <3>1. Hit(k) = Hit(k - 1)
      BY <1>3, <1>4, <2>3
    <3>2. found' = found
      BY <2>3 DEF Visit
    <3>. QED  BY <2>1, <3>1, <3>2
  <2>. QED  BY <2>2, <2>3
<1>7. \A i \in 1..k : Asked(Names[i])' \in {"match", "mismatch"}
  BY <1>1, <1>3, <1>4, <1>5 DEF Reached
<1>8. Reached(k + 1)'
  <2>1. {j \in 1..k : Asked(Names[j])' = "match"} = Hit(k)
    BY <1>5
  <2>2. found' = {Names[i] : i \in {j \in 1..k : Asked(Names[j])' = "match"}}
    BY <1>6, <2>1
  <2>. QED  BY <1>2, <1>3, <1>4, <1>7, <2>2 DEF Reached
<1>9. pc' = pc /\ code' = code
  BY DEF Visit
<1>. QED  BY <1>3, <1>4, <1>8, <1>9 DEF Progress

\* Each step of the handler keeps what is known of the walk.
LEMMA ProgressKept ==
  ASSUME Inv, [Next]_vars
  PROVE  Progress'
<1>0. Progress
  BY DEF Inv
<1>1. CASE Begin
  <2>1. pc = "idle" /\ pc' = "glob" /\ req' \in Requests /\ rest' = rest /\ found' = found /\ code' = code
    BY <1>1 DEF Begin
  <2>2. PICK k \in 1..(Len(Names) + 1) : Reached(k) /\ k = 1
    BY <1>0, <2>1 DEF Progress
  <2>3. \A i : i \notin 1..(k - 1)
    BY <2>2
  <2>4. Reached(k)'
    BY <2>1, <2>2, <2>3 DEF Reached
  <2>5. code' \in Codes /\ (code' = "none" <=> pc' # "done")
    BY <1>0, <2>1 DEF Progress
  <2>. QED  BY <2>1, <2>2, <2>4, <2>5 DEF Progress
<1>2. CASE CheckGlob
  BY <1>0, <1>2, ProgressStays
  DEF CheckGlob, GlobAccepted, GlobRefused, GlobPanics, Goto, Finish, Crash, Progress, Codes
<1>3. CASE RegexAccepted
  BY <1>0, <1>3, ProgressStays DEF RegexAccepted, Goto, Progress, Codes
<1>4. CASE RegexRefused
  BY <1>0, <1>4, ProgressStays DEF RegexRefused, regexErrCode, Finish, Progress, Codes
<1>5. CASE Look
  <2>1. PICK v : pc = "walk" /\ rest # << >> /\ v = Asked(Head(rest)) /\ (Visit(v) \/ VisitFails(v) \/ VisitPanics(v))
    BY <1>5 DEF Look
  <2>2. CASE Visit(v)
    BY <1>0, <2>1, <2>2, WalkMoves
  <2>3. CASE VisitFails(v) \/ VisitPanics(v)
    BY <1>0, <2>3, ProgressStays DEF VisitFails, VisitPanics, Finish, Crash, Goto, Progress, Codes
  <2>. QED  BY <2>1, <2>2, <2>3
<1>6. CASE Done
  BY <1>0, <1>6, ProgressStays DEF Done, Finish, Progress, Codes
<1>7. CASE UNCHANGED vars
  BY <1>0, <1>7, ProgressStays DEF vars, Progress
<1>. QED  BY <1>1, <1>2, <1>3, <1>4, <1>5, <1>6, <1>7 DEF Next, Stop

\* Each step keeps what the answer, or the place of the handler, says of the
\* glob.
LEMMA GlobAnswersKept ==
  ASSUME Inv, [Next]_vars
  PROVE  GlobAnswers'
<1>0. GlobAnswers /\ code \in Codes /\ (code = "none" <=> pc # "done")
  BY DEF Inv, Progress
<1>1. CASE Begin
  BY <1>0, <1>1 DEF Begin, GlobAnswers
<1>2. ASSUME req' = req PROVE /\ Asked(Probe)' = Asked(Probe)
                              /\ rest' = rest => Asked(Head(rest))' = Asked(Head(rest))
  <2>1. \A name : Asked(name)' = Asked(name)
    BY <1>2, SameAsked
  <2>2. rest' = rest => Asked(Head(rest))' = Asked(Head(rest))
    BY <1>2 DEF Asked, NotGiven
  <2>. QED  BY <2>1, <2>2
<1>3. CASE CheckGlob
  <2>1. req' = req /\ rest' = rest /\ code = "none"
    BY <1>0, <1>3 DEF CheckGlob, GlobAccepted, GlobRefused, GlobPanics, Goto, Finish, Crash
  <2>2. \/ pc' = "regex" /\ code' = "none" /\ Asked(Probe) \in {"match", "mismatch"}
        \/ pc' = "done" /\ code' = "INVALID_GLOB" /\ Asked(Probe) = "error"
        \/ pc' = "crashed" /\ code' = "none"
    BY <1>3, <2>1 DEF CheckGlob, GlobAccepted, GlobRefused, GlobPanics, Goto, Finish, Crash
  <2>. QED  BY <1>2, <2>1, <2>2 DEF GlobAnswers
<1>4. CASE RegexAccepted \/ RegexRefused
  <2>1. req' = req /\ rest' = rest /\ pc = "regex" /\ Asked(Probe) \in {"match", "mismatch"}
    BY <1>0, <1>4 DEF RegexAccepted, RegexRefused, Goto, Finish, GlobAnswers
  <2>2. code' \in {"none", "UNSUPPORTED_REGEX_SYNTAX", "INVALID_REGEX"}
    BY <1>0, <1>4, <2>1 DEF RegexAccepted, RegexRefused, Goto, Finish, regexErrCode
  <2>. QED  BY <1>2, <2>1, <2>2 DEF GlobAnswers
<1>5. CASE Look
  <2>1. PICK v : pc = "walk" /\ rest # << >> /\ v = Asked(Head(rest)) /\ (Visit(v) \/ VisitFails(v) \/ VisitPanics(v))
    BY <1>5 DEF Look
  <2>2. req' = req /\ code = "none" /\ Asked(Probe) \in {"match", "mismatch"}
    BY <1>0, <2>1 DEF Visit, VisitFails, VisitPanics, Finish, Crash, Goto, GlobAnswers
  <2>3. CASE VisitFails(v)
    <3>1. rest' = rest /\ code' = "IO_ERROR" /\ Asked(Head(rest)) = "error"
      BY <2>1, <2>3 DEF VisitFails, Finish
    <3>. QED  BY <1>2, <2>1, <2>2, <3>1 DEF GlobAnswers
  <2>4. CASE Visit(v) \/ VisitPanics(v)
    <3>1. code' = "none"
      BY <2>2, <2>4 DEF Visit, VisitPanics, Crash, Goto
    <3>. QED  BY <1>2, <2>2, <3>1 DEF GlobAnswers
  <2>. QED  BY <2>1, <2>3, <2>4
<1>6. CASE Done
  <2>1. req' = req /\ rest' = rest /\ rest = << >> /\ code' = "ok" /\ Asked(Probe) \in {"match", "mismatch"}
    BY <1>0, <1>6 DEF Done, Finish, GlobAnswers
  <2>. QED  BY <1>2, <2>1 DEF GlobAnswers
<1>7. CASE UNCHANGED vars
  <2>1. req' = req /\ rest' = rest /\ code' = code /\ pc' = pc
    BY <1>7 DEF vars
  <2>. QED  BY <1>0, <1>2, <2>1 DEF GlobAnswers
<1>. QED  BY <1>1, <1>3, <1>4, <1>5, <1>6, <1>7 DEF Next, Stop

\* Each step keeps what the answer, or the place of the handler, says of the
\* regex.
LEMMA RegexAnswersKept ==
  ASSUME Inv, [Next]_vars
  PROVE  RegexAnswers'
<1>. DEFINE c == Compile(Text(req.regex), req.opts)
            Says == /\ pc = "walk" \/ code \in {"ok", "IO_ERROR"} => compiled = c /\ ~c.unsupported /\ GoAccepts
                    /\ code = "UNSUPPORTED_REGEX_SYNTAX" => c.unsupported
                    /\ code = "INVALID_REGEX" => ~c.unsupported
<1>0. Says /\ code \in Codes /\ (code = "none" <=> pc # "done")
  BY DEF Inv, Progress, RegexAnswers
<1>1. CASE Begin
  BY <1>0, <1>1 DEF Begin, RegexAnswers
<1>2. ASSUME req' = req PROVE c' = c /\ (GoAccepts <=> GoAccepts')
  BY <1>2 DEF GoAccepts
<1>. HIDE DEF c
<1>3. CASE CheckGlob
  <2>1. code' \in {"none", "INVALID_GLOB"} /\ pc' # "walk"
    BY <1>0, <1>3 DEF CheckGlob, GlobAccepted, GlobRefused, GlobPanics, Goto, Finish, Crash
  <2>. QED  BY <2>1 DEF RegexAnswers
<1>4. CASE RegexAccepted
  <2>1. req' = req /\ compiled' = c /\ ~c.unsupported /\ GoAccepts /\ code' = "none"
    BY <1>0, <1>4 DEF RegexAccepted, Goto, c
  <2>. QED  BY <1>2, <2>1 DEF RegexAnswers, c
<1>5. CASE RegexRefused
  <2>1. req' = req /\ pc' = "done"
    BY <1>5 DEF RegexRefused, Finish
  <2>2. code' = IF c.unsupported THEN "UNSUPPORTED_REGEX_SYNTAX" ELSE "INVALID_REGEX"
    BY <1>5 DEF RegexRefused, Finish, regexErrCode, c
  <2>. QED  BY <1>2, <2>1, <2>2 DEF RegexAnswers, c
<1>6. CASE Look \/ Done
  <2>1. req' = req /\ compiled' = compiled /\ pc = "walk" /\ code' \in {"none", "ok", "IO_ERROR"}
    BY <1>0, <1>6 DEF Look, Done, Visit, VisitFails, VisitPanics, Finish, Crash, Goto
  <2>. QED  BY <1>0, <1>2, <2>1 DEF RegexAnswers, c
<1>7. CASE UNCHANGED vars
  <2>1. req' = req /\ compiled' = compiled /\ code' = code /\ pc' = pc
    BY <1>7 DEF vars
  <2>. QED  BY <1>0, <1>2, <2>1 DEF RegexAnswers, c
<1>. QED  BY <1>1, <1>3, <1>4, <1>5, <1>6, <1>7 DEF Next, Stop

\* The handler always knows what it should.
THEOREM InvHolds == Spec => []Inv
<1>1. Init => Inv
  <2>. SUFFICES ASSUME Init PROVE Inv
    OBVIOUS
  <2>1. 1 \in 1..(Len(Names) + 1)
    BY NamesAssumption, LenProperties
  <2>2. Reached(1)
    BY WalkStarts DEF Init
  <2>3. Progress
    BY <2>1, <2>2 DEF Init, Progress, Codes
  <2>4. GlobAnswers /\ RegexAnswers
    BY DEF Init, GlobAnswers, RegexAnswers
  <2>. QED  BY <2>3, <2>4 DEF Inv
<1>2. Inv /\ [Next]_vars => Inv'
  BY ProgressKept, GlobAnswersKept, RegexAnswersKept DEF Inv
<1>. QED  BY <1>1, <1>2, PTL DEF Spec

\* What is left of a sequence is a suffix of it.
LEMMA RestIsSuffix ==
  ASSUME NEW S, NEW s \in Seq(S), NEW k \in 1..(Len(s) + 1)
  PROVE  IsSuffix(SubSeq(s, k, Len(s)), s)
<1>. DEFINE r == SubSeq(s, k, Len(s))
            n == Len(s)
            m == n - k + 1
<1>1. n \in Nat /\ k \in Nat /\ m \in Nat /\ m <= n
  BY LenProperties
<1>2. r \in Seq(S) /\ Len(r) = m /\ \A i \in 1..m : r[i] = s[k + i - 1]
  <2>1. \A i \in k..n : s[i] \in S
    BY ElementOfSeq
  <2>. DEFINE e == n
  <2>2. SubSeq(s, k, e) \in Seq(S) /\ Len(SubSeq(s, k, e)) = (IF k <= e THEN e - k + 1 ELSE 0)
        /\ \A i \in 1..(e - k + 1) : SubSeq(s, k, e)[i] = s[k + i - 1]
    <3>1. k \in Int /\ e \in Int /\ \A i \in k..e : s[i] \in S
      BY <1>1, <2>1
    <3>. HIDE DEF e
    <3>. QED  BY <3>1, SubSeqProperties
  <2>. QED  BY <1>1, <2>2
<1>. HIDE DEF r, m
<1>3. Reverse(r) = [i \in 1..m |-> r[(m - i) + 1]] /\ Reverse(s) = [i \in 1..n |-> s[(n - i) + 1]]
  BY <1>2 DEF Reverse
<1>4. \A i \in 1..m : Reverse(r)[i] = Reverse(s)[i]
  <2>. TAKE i \in 1..m
  <2>1. (m - i) + 1 \in 1..m /\ k + ((m - i) + 1) - 1 = (n - i) + 1 /\ i \in 1..n
    BY <1>1 DEF m
  <2>2. r[(m - i) + 1] = s[k + ((m - i) + 1) - 1]
    BY <1>2, <2>1
  <2>. QED  BY <1>3, <2>1, <2>2
<1>5. /\ Len(Reverse(r)) = m /\ Len(Reverse(s)) = n
  BY <1>1, <1>3
<1>6. SubSeq(Reverse(r), 1, m) = [i \in 1..m |-> Reverse(r)[i]]
      /\ SubSeq(Reverse(s), 1, m) = [i \in 1..m |-> Reverse(s)[i]]
  BY <1>1
<1>. QED  BY <1>1, <1>4, <1>5, <1>6 DEF IsSuffix, IsPrefix, r

\* Every variable holds what the code puts there.
THEOREM TypesHold == Spec => []TypeOK
<1>1. Inv => TypeOK
  <2>. SUFFICES ASSUME Inv PROVE TypeOK
    OBVIOUS
  <2>1. PICK k \in 1..(Len(Names) + 1) : Reached(k)
    BY DEF Inv, Progress
  <2>2. Names \in Seq(NameType) /\ Len(Names) \in Nat /\ DOMAIN Names = 1..Len(Names) /\ k \in Nat
    BY NamesAssumption, LenProperties DEF NameType
  <2>3. IsSuffix(rest, Names)
    BY <2>1, <2>2, RestIsSuffix DEF Reached
  <2>4. \A x \in ToSet(rest) : \E j \in k..Len(Names) : x = Names[j]
    <3>. DEFINE n == Len(Names)
    <3>1. \A i \in k..n : Names[i] \in NameType
      BY <2>2, ElementOfSeq
    <3>2. rest \in Seq(NameType) /\ Len(rest) = (IF k <= n THEN n - k + 1 ELSE 0)
          /\ \A i \in 1..(n - k + 1) : rest[i] = Names[k + i - 1]
      <4>1. k \in Int /\ n \in Int /\ rest = SubSeq(Names, k, n)
        BY <2>1, <2>2 DEF Reached
      <4>. HIDE DEF n
      <4>. QED  BY <3>1, <4>1, SubSeqProperties
    <3>3. DOMAIN rest = 1..Len(rest)
      BY <3>2, LenProperties
    <3>4. ASSUME NEW i \in 1..Len(rest) PROVE \E j \in k..n : rest[i] = Names[j]
      <4>1. k + i - 1 \in k..n /\ i \in 1..(n - k + 1)
        BY <2>2, <3>2
      <4>. QED  BY <3>2, <4>1
    <3>. QED  BY <3>3, <3>4 DEF ToSet
  <2>5. \A x \in found : \E i \in 1..(k - 1) : x = Names[i]
    BY <2>1 DEF Reached
  <2>6. found \subseteq ToSet(Names) \ ToSet(rest)
    <3>. SUFFICES ASSUME NEW x \in found PROVE x \in ToSet(Names) /\ x \notin ToSet(rest)
      OBVIOUS
    <3>1. PICK i \in 1..(k - 1) : x = Names[i]
      BY <2>5
    <3>2. i \in DOMAIN Names
      BY <2>2, <3>1
    <3>3. ASSUME NEW j \in k..Len(Names), x = Names[j] PROVE FALSE
      <4>1. j \in DOMAIN Names /\ j # i
        BY <2>2, <3>1
      <4>. QED  BY <3>1, <3>2, <3>3, <4>1, NamesAssumption DEF IsInjective
    <3>. QED  BY <2>4, <3>1, <3>2, <3>3 DEF ToSet
  <2>. QED  BY <2>3, <2>6 DEF Inv, Progress, Codes, TypeOK
<1>. QED  BY <1>1, InvHolds, PTL

\* The nodes of a request's regex are what the assumption says.
LEMMA RegexNodes ==
  ASSUME req \in Requests \cup {NoRequest}
  PROVE  req.regex \in Seq(ToSet(req.regex)) /\ \A n \in ToSet(req.regex) : IsNode(n)
<1>1. CASE req \in Requests
  BY <1>1, RegexesAssumption
<1>2. CASE req = NoRequest
  BY <1>2 DEF NoRequest, ToSet
<1>. QED  BY <1>1, <1>2

LEMMA SortsOf ==
  ASSUME NEW nodes
  PROVE  /\ \A n \in ToSet(nodes) : n.sort \in Sorts(nodes)
         /\ Sorts(nodes) = {n.sort : n \in ToSet(nodes)}
  BY DEF ToSet, Sorts

\* For every pattern written with nodes: it is refused as unsupported just if
\* it has a construct of Rust's, but for a set operation that stands behind a
\* "]" of its class (rgx.go:244).
THEOREM UnsupportedIsExactHolds == Spec => []UnsupportedIsExact
<1>1. Inv => UnsupportedIsExact
  <2>. SUFFICES ASSUME Inv, pc = "done", code # "INVALID_GLOB", "tricky" \notin Sorts(req.regex)
                PROVE  code = "UNSUPPORTED_REGEX_SYNTAX" <=> ~req.opts.fixed /\ "rust" \in Sorts(req.regex)
    BY DEF UnsupportedIsExact
  <2>. DEFINE c == Compile(Text(req.regex), req.opts)
              N == ToSet(req.regex)
  <2>1. req \in Requests \cup {NoRequest} /\ code \in Codes /\ code # "none"
    BY DEF Inv, Progress
  <2>2. req.regex \in Seq(N) /\ \A n \in N : Sound(n)
    BY <2>1, RegexNodes, SortsOf DEF Sound
  <2>3. checkUnsupported(Text(req.regex)) <=> "rust" \in Sorts(req.regex)
    <3>. HIDE DEF N
    <3>. QED  BY <2>2, UnsupportedIs
  <2>4. c.unsupported <=> ~req.opts.fixed /\ checkUnsupported(Text(req.regex))
    BY DEF Compile
  <2>5. code = "UNSUPPORTED_REGEX_SYNTAX" <=> c.unsupported
    BY <2>1 DEF Inv, RegexAnswers, Codes
  <2>. QED  BY <2>3, <2>4, <2>5
<1>. QED  BY <1>1, InvHolds, PTL

\* What is compiled is what the caller means.
THEOREM CompiledAsMeantHolds == Spec => []CompiledAsMeant
<1>1. Inv => CompiledAsMeant
  <2>. SUFFICES ASSUME Inv, code = "ok", Sorts(req.regex) \subseteq {"plain", "rust", "broken"}
                PROVE  /\ compiled.text = MeantText
                       /\ req.opts.smartCase /\ ~req.opts.ignoreCase =>
                            compiled.insensitive = (\A i \in DOMAIN Text(req.regex) : Text(req.regex)[i] \notin Upper)
    BY DEF CompiledAsMeant
  <2>. DEFINE c == Compile(Text(req.regex), req.opts)
              N == ToSet(req.regex)
  <2>1. req \in Requests \cup {NoRequest} /\ compiled = c /\ ~c.unsupported /\ GoAccepts
    BY DEF Inv, Progress, RegexAnswers
  <2>2. req.regex \in Seq(N) /\ \A n \in N : Sound(n)
    BY <2>1, RegexNodes, SortsOf DEF Sound
  <2>3. ASSUME ~req.opts.fixed PROVE translateUnicodeClasses(Text(req.regex)) = Meant(req.regex)
    <3>1. checkUnsupported(Text(req.regex)) <=> "rust" \in Sorts(req.regex)
      <4>. HIDE DEF N
      <4>. QED  BY <2>2, UnsupportedIs
    <3>2. ~checkUnsupported(Text(req.regex))
      BY <2>1, <2>3 DEF Compile
    <3>3. "broken" \notin Sorts(req.regex)
      BY <2>1, <2>3 DEF GoAccepts
    <3>4. \A n \in N : n.sort = "plain"
      <4>1. \A n \in N : n.sort \in Sorts(req.regex)
        BY SortsOf
      <4>. HIDE DEF N
      <4>. QED  BY <3>1, <3>2, <3>3, <4>1
    <3>. HIDE DEF N
    <3>. QED  BY <2>2, <3>4, TranslatedIs
  <2>4. compiled.text = MeantText
    <3>1. CASE req.opts.fixed
      BY <2>1, <3>1 DEF Compile, MeantText
    <3>2. CASE ~req.opts.fixed
      BY <2>1, <2>3, <3>2 DEF Compile, MeantText
    <3>. QED  BY <3>1, <3>2
  <2>5. ASSUME req.opts.smartCase, ~req.opts.ignoreCase
        PROVE  compiled.insensitive = (\A i \in DOMAIN Text(req.regex) : Text(req.regex)[i] \notin Upper)
    <3>1. compiled.insensitive = (req.opts.ignoreCase \/ (req.opts.smartCase /\ ~hasUpper(Text(req.regex))))
      BY <2>1 DEF Compile
    <3>. QED  BY <2>5, <3>1 DEF hasUpper
  <2>. QED  BY <2>4, <2>5
<1>. QED  BY <1>1, InvHolds, PTL

-----------------------------------------------------------------------------
(* What was found, and what is an error.                                   *)

LEMMA NamesPlain == NameType \subseteq Seq(PlainNames) /\ Names \in Seq(NameType) /\ Probe \in Seq(PlainNames)
<1>1. NameType \subseteq Seq(PlainNames)
  <2>1. Seq(Chars) \ {<< >>, <<".">>, <<".", ".">>} \subseteq PlainNames
    BY DEF PlainNames
  <2>. HIDE DEF PlainNames
  <2>. QED  BY <2>1 DEF NameType
<1>2. Names \in Seq(NameType)
  BY NamesAssumption DEF NameType
<1>3. Probe \in Seq(PlainNames)
  <2>. DEFINE p == <<"p", "r", "o", "b", "e">>
  <2>1. p \in Seq(Chars)
    <3>1. Probe[1] = p
      BY DEF Probe
    <3>2. ToSet(p) \subseteq Chars
      BY <3>1, NamesAssumption
    <3>3. \A i \in 1..5 : p[i] \in Chars
      <4>1. DOMAIN p = 1..5
        OBVIOUS
      <4>. HIDE DEF p
      <4>. QED  BY <3>2, <4>1 DEF ToSet
    <3>4. p[1] \in Chars /\ p[2] \in Chars /\ p[3] \in Chars /\ p[4] \in Chars /\ p[5] \in Chars
      <4>. HIDE DEF p
      <4>. QED  BY <3>3
    <3>. QED  BY <3>4
  <2>2. p \notin {<<".">>, <<".", ".">>}
    OBVIOUS
  <2>3. Probe = <<p>>
    BY DEF Probe
  <2>4. p \in PlainNames
    BY <2>1, <2>2 DEF PlainNames
  <2>. HIDE DEF p
  <2>. QED  BY <2>3, <2>4
<1>. QED  BY <1>1, <1>2, <1>3

\* A request's glob is one that was written.
LEMMA GlobWritten ==
  ASSUME req \in Requests
  PROVE  /\ req.glob \in Seq(GlobAtoms) /\ Tidy(req.glob)
         /\ \A f \in Chosen[req.glob] : BadsEnd(f)
<1>. DEFINE g == req.glob
<1>1. /\ g \in Seq(GlobAtoms)
      /\ \A i \in DOMAIN g : g[i] = Unfinished => EndsSegment(g, i)
      /\ \A f \in Chosen[g] : \A i \in DOMAIN f : f[i].k = "bad" => EndsSegment(f, i)
  BY GlobsAssumption
<1>. HIDE DEF g
<1>2. Chosen[g] \subseteq Seq(FlatAtoms)
  BY <1>1, ChosenIs
<1>3. Tidy(g)
  <2>1. DOMAIN g = 1..Len(g)
    BY <1>1, LenProperties
  <2>. QED  BY <1>1, <2>1 DEF Tidy, EndsSegment
<1>4. ASSUME NEW f \in Chosen[g] PROVE BadsEnd(f)
  <2>1. DOMAIN f = 1..Len(f)
    BY <1>2, LenProperties
  <2>. QED  BY <1>1, <2>1 DEF BadsEnd, EndsSegment
<1>. QED  BY <1>1, <1>3, <1>4 DEF g

\* What the handler is told of a name, and what was meant of it.
Told(N) ==
  /\ Asked(N) = "match" => Denotes(req.glob, N)
  /\ Asked(N) = "mismatch" => ~Denotes(req.glob, N)
  /\ Asked(N) = "error" => ~Denotes(req.glob, N) /\ Malformed(req.glob)

LEMMA AskedIsMeant ==
  ASSUME req \in Requests \cup {NoRequest}, ~NotGiven
  PROVE  req \in Requests /\ \A N \in Seq(PlainNames) : Told(N)
<1>1. req \in Requests
  BY DEF NotGiven, NoRequest
<1>2. ASSUME NEW N \in Seq(PlainNames) PROVE Told(N)
  <2>. DEFINE g == req.glob
              v == Match(Written(g), N)
  <2>1. Asked(N) = v
    BY DEF Asked
  <2>2. g \in Seq(GlobAtoms) /\ Tidy(g) /\ \A f \in Chosen[g] : BadsEnd(f)
    BY <1>1, GlobWritten
  <2>. HIDE DEF g
  <2>3. /\ v = "match" => Denotes(g, N)
        /\ v = "mismatch" => ~Denotes(g, N)
        /\ v = "error" => ~Denotes(g, N) /\ \E f \in Chosen[g] : BadIn(f)
    BY <2>2, MatchIsMeant
  <2>4. Malformed(g) <=> \E f \in Chosen[g] : BadIn(f)
    BY DEF Malformed, BadIn
  <2>. HIDE DEF v
  <2>. QED  BY <2>1, <2>3, <2>4 DEF Told, g
<1>. QED  BY <1>1, <1>2

\* For every glob and every list of names: a walk that ends well has found the
\* names the glob was written to match and no other (glob.go:48, tools.go:625).
THEOREM FoundAreDenotedHolds == Spec => []FoundAreDenoted
<1>1. Inv => FoundAreDenoted
  <2>. SUFFICES ASSUME Inv, code = "ok", ~NotGiven PROVE found = {n \in ToSet(Names) : Denotes(req.glob, n)}
    BY DEF FoundAreDenoted
  <2>1. req \in Requests \cup {NoRequest} /\ rest = << >>
    BY DEF Inv, Progress, GlobAnswers
  <2>2. PICK k \in 1..(Len(Names) + 1) : Reached(k)
    BY DEF Inv, Progress
  <2>3. Names \in Seq(NameType) /\ Len(Names) \in Nat /\ DOMAIN Names = 1..Len(Names)
    BY NamesPlain, LenProperties
  <2>4. k - 1 = Len(Names)
    <3>1. ASSUME k <= Len(Names) PROVE FALSE
      <4>. DEFINE m == Len(Names)
                  s == SubSeq(Names, k, m)
      <4>1. k \in 1..m /\ m \in 1..m /\ k <= m + 1 /\ m - k + 1 > 0 /\ k \in Nat /\ m \in Nat
        <5>1. m \in Nat /\ k <= m
          BY <2>3, <3>1
        <5>. HIDE DEF m
        <5>. QED  BY <5>1
      <4>2. Len(s) = IF k <= m THEN m - k + 1 ELSE 0
        <5>. HIDE DEF m
        <5>. QED  BY <2>3, <4>1, SubSeqProperties
      <4>3. s = << >>
        BY <2>1, <2>2 DEF Reached
      <4>. HIDE DEF s
      <4>. QED  BY <3>1, <4>1, <4>2, <4>3
    <3>. DEFINE m == Len(Names)
    <3>2. m \in Nat /\ ~(k <= m) /\ k \in 1..(m + 1)
      BY <2>2, <2>3, <3>1
    <3>. HIDE DEF m
    <3>3. k - 1 = m
      BY <3>2
    <3>. QED  BY <3>3 DEF m
  <2>5. /\ found = {Names[i] : i \in {j \in 1..Len(Names) : Asked(Names[j]) = "match"}}
        /\ \A i \in 1..Len(Names) : Asked(Names[i]) \in {"match", "mismatch"}
    BY <2>2, <2>4 DEF Reached
  <2>6. \A i \in 1..Len(Names) : Told(Names[i])
    <3>1. \A i \in 1..Len(Names) : Names[i] \in Seq(PlainNames)
      BY <2>3, NamesPlain, ElementOfSeq
    <3>. QED  BY <2>1, <3>1, AskedIsMeant
  <2>7. \A i \in 1..Len(Names) : Asked(Names[i]) = "match" <=> Denotes(req.glob, Names[i])
    BY <2>5, <2>6 DEF Told
  <2>8. ToSet(Names) = {Names[i] : i \in 1..Len(Names)}
    BY <2>3 DEF ToSet
  <2>9. ASSUME NEW n PROVE n \in found <=> n \in ToSet(Names) /\ Denotes(req.glob, n)
    BY <2>5, <2>7, <2>8
  <2>. QED  BY <2>9
<1>. QED  BY <1>1, InvHolds, PTL

\* For every glob: a name it was written to match is never in error, and where
\* no alternative was written to match the trial's name, the trial finds any
\* that is one malformed segment (glob.go:54, tools.go:625).
THEOREM GlobErrorsAreTrueHolds == Spec => []GlobErrorsAreTrue
<1>1. ASSUME Inv, code \in {"INVALID_GLOB", "IO_ERROR"}
      PROVE  Malformed(req.glob) /\ ~Denotes(req.glob, IF code = "IO_ERROR" THEN Head(rest) ELSE Probe)
  <2>. DEFINE N == IF code = "IO_ERROR" THEN Head(rest) ELSE Probe
  <2>1. req \in Requests \cup {NoRequest}
    BY <1>1 DEF Inv, Progress
  <2>2. Asked(N) = "error" /\ (code = "IO_ERROR" => rest # << >>)
    BY <1>1 DEF Inv, GlobAnswers
  <2>3. N \in Seq(PlainNames)
    <3>1. CASE code = "IO_ERROR"
      <4>1. PICK k \in 1..(Len(Names) + 1) : Reached(k)
        BY <1>1 DEF Inv, Progress
      <4>2. k <= Len(Names) /\ Head(rest) = Names[k]
        BY <2>2, <3>1, <4>1, AtName DEF Reached
      <4>3. k \in 1..Len(Names)
        BY <4>2
      <4>4. Names[k] \in NameType
        BY <4>3, NamesPlain, ElementOfSeq
      <4>. QED  BY <3>1, <4>2, <4>4, NamesPlain
    <3>2. CASE code # "IO_ERROR"
      BY <3>2, NamesPlain
    <3>. QED  BY <3>1, <3>2
  <2>. HIDE DEF N
  <2>4. ~NotGiven
    BY <2>2 DEF Asked
  <2>5. Told(N)
    BY <2>1, <2>3, <2>4, AskedIsMeant
  <2>. QED  BY <2>2, <2>5 DEF Told, N
<1>2. ASSUME Inv, pc = "done", ~Denotes(req.glob, Probe), NEW f \in Chosen[req.glob], OneBadSegment(f),
             code # "INVALID_GLOB"
      PROVE  FALSE
  <2>. DEFINE g == req.glob
  <2>1. req \in Requests \cup {NoRequest} /\ Asked(Probe) \in {"match", "mismatch"}
    BY <1>2 DEF Inv, Progress, GlobAnswers
  <2>2. BadIn(f) /\ \A i \in DOMAIN f : f[i].k # "slash"
    BY <1>2 DEF OneBadSegment, BadIn
  <2>3. ~NotGiven
    <3>1. ASSUME NotGiven PROVE FALSE
      <4>1. f = << >>
        BY <1>2, <3>1, ChosenNone DEF NotGiven
      <4>. QED  BY <2>2, <4>1 DEF BadIn
    <3>. QED  BY <3>1
  <2>4. req \in Requests
    BY <2>1, <2>3, AskedIsMeant
  <2>5. g \in Seq(GlobAtoms) /\ Tidy(g) /\ \A h \in Chosen[g] : BadsEnd(h)
    BY <2>4, GlobWritten
  <2>6. Asked(Probe) = Match(Written(g), Probe)
    BY <2>3 DEF Asked
  <2>7. f \in Seq(SegAtoms)
    <3>. DEFINE n == Len(f)
    <3>1. f \in Seq(FlatAtoms)
      BY <1>2, <2>5, ChosenIs
    <3>2. n \in Nat /\ DOMAIN f = 1..n /\ \A i \in 1..n : f[i] \in FlatAtoms
      BY <3>1, LenProperties, ElementOfSeq
    <3>3. \A i \in 1..n : f[i] \in SegAtoms
      BY <2>2, <3>2 DEF SegAtoms, FlatAtoms
    <3>4. f \in [1..n -> SegAtoms]
      <4>1. f = [i \in DOMAIN f |-> f[i]]
        BY <3>1
      <4>. HIDE DEF n
      <4>. QED  BY <3>2, <3>3, <4>1
    <3>. HIDE DEF n
    <3>. QED  BY <3>2, <3>4, SeqMade
  <2>. DEFINE cs == Probe[1]
  <2>8. Probe = <<cs>> /\ cs \in PlainNames /\ cs[1] # "." /\ Probe \in Seq(PlainNames)
    <3>1. Probe = <<cs>> /\ cs[1] # "."
      BY DEF Probe
    <3>2. Probe \in Seq(PlainNames) /\ Len(Probe) = 1
      BY NamesPlain DEF Probe
    <3>3. 1 \in 1..Len(Probe)
      BY <3>2
    <3>4. cs \in PlainNames
      BY <3>2, <3>3, ElementOfSeq
    <3>. QED  BY <3>1, <3>2, <3>4
  <2>. HIDE DEF cs
  <2>9. Answer(f, Probe) \notin {"match", "mismatch"}
    <3>1. BadsEnd(f)
      BY <1>2, <2>5
    <3>2. Answer(f, <<cs>>) \notin {"match", "mismatch"}
      BY <2>2, <2>7, <2>8, <3>1, TrialFinds
    <3>. QED  BY <2>8, <3>2
  <2>10. Asked(Probe) # "match"
    <3>1. Told(Probe)
      BY <2>1, <2>3, <2>8, AskedIsMeant
    <3>. QED  BY <1>2, <3>1 DEF Told
  <2>11. Asked(Probe) # "mismatch"
    <3>1. f \in Chosen[g]
      BY <1>2
    <3>. HIDE DEF g
    <3>2. Match(Written(g), Probe) = "mismatch" => \A h \in Chosen[g] : Answer(h, Probe) = "mismatch"
      BY <2>5, <2>8, MatchAnswers
    <3>. QED  BY <2>6, <2>9, <3>1, <3>2
  <2>. QED  BY <2>1, <2>10, <2>11
<1>3. Inv => GlobErrorsAreTrue
  BY <1>1, <1>2 DEF GlobErrorsAreTrue
<1>. QED  BY <1>3, InvHolds, PTL

=============================================================================
