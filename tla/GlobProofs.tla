----------------------------- MODULE GlobProofs -----------------------------
(***************************************************************************)
(* What the operators of Glob compute, for every pattern and name.         *)
(***************************************************************************)
EXTENDS GlobMeaning, SequenceTheorems, FiniteSetTheorems, WellFoundedInduction, TLAPS

-----------------------------------------------------------------------------
(* Sequences, and functions defined by recursion over them.                *)

LEMMA LeastNumber ==
  ASSUME NEW T, T \subseteq Nat, T # {}
  PROVE  \E n \in T : \A m \in T : n <= m
<1>. DEFINE R == OpToRel(<, Nat)
<1>1. IsWellFoundedOn(R, Nat)
  BY NatLessThanWellFounded
<1>2. \A n, m \in Nat : n < m => <<n, m>> \in R
  BY DEF OpToRel
<1>. HIDE DEF R
<1>3. PICK n \in T : \A m \in T : <<m, n>> \notin R
  BY <1>1, WFMin
<1>4. ASSUME NEW m \in T PROVE n <= m
  <2>1. n \in Nat /\ m \in Nat /\ ~(m < n)
    BY <1>2, <1>3
  <2>. QED  BY <2>1
<1>. QED  BY <1>4

Sized(size, D)            == size \in [D -> Nat]
Stepping(step, D, X)      == step \in [D \X [D -> X] -> X]
Local(step, D, X, size)   ==
  \A q \in D : \A g, h \in [D -> X] :
    (\A r \in D : size[r] < size[q] => g[r] = h[r]) => step[<<q, g>>] = step[<<q, h>>]
Solution(f, step, D, X)   == f \in [D -> X] /\ \A q \in D : f[q] = step[<<q, f>>]

\* A function that is to take, at each argument, the value a step computes from
\* its values at smaller ones: there is one.
LEMMA SolutionExists ==
  ASSUME NEW D, NEW X, NEW x \in X, NEW size, Sized(size, D),
         NEW step, Stepping(step, D, X), Local(step, D, X, size)
  PROVE  \E f : Solution(f, step, D, X)
<1>. USE DEF Sized, Stepping, Local, Solution
<1>. DEFINE Good(n, f) == f \in [D -> X] /\ \A q \in D : size[q] < n => f[q] = step[<<q, f>>]
            Lacking == {n \in Nat : ~\E f : Good(n, f)}
<1>1. Lacking = {}
  <2>. SUFFICES ASSUME Lacking # {} PROVE FALSE
    OBVIOUS
  <2>1. PICK n \in Lacking : \A m \in Lacking : n <= m
    BY LeastNumber
  <2>2. Good(0, [q \in D |-> x])
    OBVIOUS
  <2>3. n \in Nat \ {0} /\ n - 1 \in Nat /\ n - 1 \notin Lacking
    <3>1. 0 \notin Lacking
      BY <2>2
    <3>2. n \in Nat
      BY <2>1
    <3>. HIDE DEF Lacking
    <3>3. n # 0
      BY <2>1, <3>1
    <3>4. n - 1 \in Nat /\ ~(n <= n - 1)
      BY <3>2, <3>3
    <3>. QED  BY <2>1, <3>2, <3>3, <3>4
  <2>4. PICK f : Good(n - 1, f)
    BY <2>3
  <2>. DEFINE h == [q \in D |-> step[<<q, f>>]]
  <2>5. h \in [D -> X] /\ f \in [D -> X]
    BY <2>4
  <2>6. ASSUME NEW q \in D, size[q] < n PROVE h[q] = step[<<q, h>>]
    <3>1. ASSUME NEW r \in D, size[r] < size[q] PROVE h[r] = f[r]
      <4>1. size[r] \in Nat /\ size[q] \in Nat
        OBVIOUS
      <4>2. size[r] < n - 1
        BY <2>3, <2>6, <3>1, <4>1
      <4>. QED  BY <2>4, <4>2
    <3>2. step[<<q, h>>] = step[<<q, f>>]
      <4>. HIDE DEF h
      <4>. QED  BY <2>5, <3>1
    <3>. QED  BY <3>2
  <2>7. Good(n, h)
    <3>. HIDE DEF h
    <3>. QED  BY <2>5, <2>6
  <2>. QED  BY <2>1, <2>7
<1>. DEFINE part == [n \in Nat |-> CHOOSE f : Good(n, f)]
<1>2. \A n \in Nat : Good(n, part[n])
  <2>. TAKE n \in Nat
  <2>1. \E f : Good(n, f)
    BY <1>1
  <2>. HIDE DEF Good
  <2>. QED  BY <2>1
<1>. HIDE DEF part, Lacking
\* Two of them agree as far as both go.
<1>3. ASSUME NEW n \in Nat, NEW m \in Nat, NEW q \in D, size[q] < n, size[q] < m
      PROVE  part[n][q] = part[m][q]
  <2>. DEFINE Apart == {size[r] : r \in {r \in D : /\ size[r] < n /\ size[r] < m
                                                /\ part[n][r] # part[m][r]}}
  <2>. SUFFICES ASSUME Apart # {} PROVE FALSE
    BY ZenonT(60), <1>3
  <2>1. Apart \subseteq Nat
    OBVIOUS
  <2>2. PICK k \in Apart : \A j \in Apart : k <= j
    BY <2>1, LeastNumber
  <2>3. PICK r \in D : size[r] = k /\ size[r] < n /\ size[r] < m /\ part[n][r] # part[m][r]
    BY <2>2
  <2>4. Good(n, part[n]) /\ Good(m, part[m])
    BY <1>2
  <2>5. ASSUME NEW s \in D, size[s] < size[r] PROVE part[n][s] = part[m][s]
    <3>1. size[s] \in Nat /\ size[r] \in Nat /\ size[s] < n /\ size[s] < m
      BY <2>3, <2>5
    <3>2. size[s] \notin Apart
      <4>. HIDE DEF Apart
      <4>1. ~(k <= size[s])
        BY <2>3, <2>5, <3>1
      <4>. QED  BY <2>2, <4>1
    <3>. QED  BY <3>1, <3>2
  <2>6. step[<<r, part[n]>>] = step[<<r, part[m]>>]
    BY <2>4, <2>5
  <2>. QED  BY <2>3, <2>4, <2>6
<1>. DEFINE whole == [q \in D |-> part[size[q] + 1][q]]
<1>4. whole \in [D -> X]
  BY <1>2
<1>5. ASSUME NEW q \in D PROVE whole[q] = step[<<q, whole>>]
  <2>1. size[q] \in Nat /\ size[q] + 1 \in Nat /\ size[q] < size[q] + 1
    OBVIOUS
  <2>2. Good(size[q] + 1, part[size[q] + 1])
    BY <1>2, <2>1
  <2>3. ASSUME NEW r \in D, size[r] < size[q] PROVE whole[r] = part[size[q] + 1][r]
    <3>1. size[r] \in Nat /\ size[r] + 1 \in Nat /\ size[r] < size[r] + 1 /\ size[r] < size[q] + 1
      BY <2>1, <2>3
    <3>. QED  BY <1>3, <2>1, <3>1
  <2>4. step[<<q, whole>>] = step[<<q, part[size[q] + 1]>>]
    <3>. HIDE DEF whole
    <3>. QED  BY <1>4, <2>2, <2>3
  <2>. QED  BY <2>1, <2>2, <2>4
<1>. QED  BY <1>4, <1>5

\* Induction, over the elements of a set by their sizes and over sequences.
LEMMA SizeInduction ==
  ASSUME NEW D, NEW size \in [D -> Nat], NEW T,
         \A q \in D : (\A r \in D : size[r] < size[q] => r \in T) => q \in T
  PROVE  D \subseteq T
<1>. DEFINE Missing == {size[q] : q \in D \ T}
<1>. SUFFICES ASSUME Missing # {} PROVE FALSE
  OBVIOUS
<1>1. Missing \subseteq Nat
  OBVIOUS
<1>2. PICK n \in Missing : \A m \in Missing : n <= m
  BY <1>1, LeastNumber
<1>3. PICK q \in D \ T : size[q] = n
  BY <1>2
<1>4. ASSUME NEW r \in D, size[r] < size[q] PROVE r \in T
  <2>1. size[r] \in Nat /\ size[q] \in Nat
    OBVIOUS
  <2>2. ~(n <= size[r])
    BY <1>3, <1>4, <2>1
  <2>. QED  BY <1>2, <2>2
<1>. QED  BY <1>3, <1>4

LEMMA AppendInduction ==
  ASSUME NEW S, NEW T, << >> \in T,
         \A s \in Seq(S), e \in S : s \in T => Append(s, e) \in T
  PROVE  Seq(S) \subseteq T
<1>. DEFINE size == [s \in Seq(S) |-> Len(s)]
<1>1. size \in [Seq(S) -> Nat]
  BY LenProperties
<1>2. ASSUME NEW s \in Seq(S), \A r \in Seq(S) : size[r] < size[s] => r \in T
      PROVE  s \in T
  <2>1. CASE s # << >>
    <3>1. PICK r \in Seq(S), e \in S : s = Append(r, e)
      BY <2>1, SequenceEmptyOrAppend
    <3>2. Len(r) < Len(s)
      BY <3>1, AppendProperties, LenProperties
    <3>. QED  BY <1>2, <3>1, <3>2
  <2>. QED  BY <2>1
<1>. DEFINE D == Seq(S)
<1>3. /\ size \in [D -> Nat]
      /\ \A s \in D : (\A r \in D : size[r] < size[s] => r \in T) => s \in T
  BY <1>1, <1>2
<1>. HIDE DEF size, D
<1>4. D \subseteq T
  BY <1>3, SizeInduction
<1>. QED  BY <1>4 DEF D

LEMMA HeadAndTail ==
  ASSUME NEW S, NEW s \in Seq(S), s # << >>
  PROVE  /\ Head(s) \in S /\ Tail(s) \in Seq(S) /\ s = <<Head(s)>> \o Tail(s)
         /\ Len(s) \in Nat \ {0} /\ Len(Tail(s)) = Len(s) - 1 /\ Head(s) = s[1]
<1>1. /\ Head(s) \in S /\ Tail(s) \in Seq(S) /\ Len(Tail(s)) = Len(s) - 1
      /\ \A i \in 1..Len(Tail(s)) : Tail(s)[i] = s[i + 1]
  BY HeadTailProperties
<1>2. Len(s) \in Nat \ {0} /\ Head(s) = s[1]
  BY EmptySeq
<1>3. <<Head(s)>> \in Seq(S) /\ Len(<<Head(s)>>) = 1 /\ <<Head(s)>>[1] = Head(s)
  BY <1>1
<1>4. /\ <<Head(s)>> \o Tail(s) \in Seq(S) /\ Len(<<Head(s)>> \o Tail(s)) = Len(s)
      /\ \A i \in 1..Len(s) : (<<Head(s)>> \o Tail(s))[i] = IF i <= 1 THEN Head(s) ELSE Tail(s)[i - 1]
  BY <1>1, <1>2, <1>3, ConcatProperties
<1>5. \A i \in 1..Len(s) : (<<Head(s)>> \o Tail(s))[i] = s[i]
  BY <1>1, <1>2, <1>4
<1>. QED  BY <1>1, <1>2, <1>4, <1>5, SeqEqual

LEMMA ConsInduction ==
  ASSUME NEW S, NEW T, << >> \in T,
         \A s \in Seq(S), e \in S : s \in T => <<e>> \o s \in T
  PROVE  Seq(S) \subseteq T
<1>. DEFINE size == [s \in Seq(S) |-> Len(s)]
<1>1. size \in [Seq(S) -> Nat]
  BY LenProperties
<1>2. ASSUME NEW s \in Seq(S), \A r \in Seq(S) : size[r] < size[s] => r \in T
      PROVE  s \in T
  <2>1. CASE s # << >>
    <3>1. /\ Head(s) \in S /\ Tail(s) \in Seq(S) /\ s = <<Head(s)>> \o Tail(s)
          /\ Len(s) \in Nat \ {0} /\ Len(Tail(s)) = Len(s) - 1
      BY <2>1, HeadAndTail
    <3>2. size[Tail(s)] = Len(Tail(s)) /\ size[s] = Len(s) /\ Len(Tail(s)) < Len(s)
      BY <3>1
    <3>3. Tail(s) \in T
      <4>. HIDE DEF size
      <4>. QED  BY <1>2, <3>1, <3>2
    <3>. QED  BY <3>1, <3>3
  <2>. QED  BY <2>1
<1>. DEFINE D == Seq(S)
<1>3. /\ size \in [D -> Nat]
      /\ \A s \in D : (\A r \in D : size[r] < size[s] => r \in T) => s \in T
  BY <1>1, <1>2
<1>. HIDE DEF size, D
<1>4. D \subseteq T
  BY <1>3, SizeInduction
<1>. QED  BY <1>4 DEF D

-----------------------------------------------------------------------------
(* FlattenSeq.                                                             *)

Flattening(s, n, g) == g = [i \in 1..n |-> IF i = 1 THEN s[i] ELSE g[i - 1] \o s[i]]

LEMMA FlatteningSteps ==
  ASSUME NEW s, NEW n \in Nat, NEW g, Flattening(s, n, g)
  PROVE  \A i \in 1..n : g[i] = IF i = 1 THEN s[i] ELSE g[i - 1] \o s[i]
<1>1. g = [i \in 1..n |-> IF i = 1 THEN s[i] ELSE g[i - 1] \o s[i]]
  BY DEF Flattening
<1>. QED  BY <1>1, ZenonT(30)

LEMMA FlatteningExists ==
  ASSUME NEW s, NEW n \in Nat
  PROVE  \E g : Flattening(s, n, g)
<1>. DEFINE Lacking == {m \in Nat : ~\E g : Flattening(s, m, g)}
<1>. SUFFICES ASSUME Lacking # {} PROVE FALSE
  OBVIOUS
<1>1. PICK m \in Lacking : \A k \in Lacking : m <= k
  BY LeastNumber
<1>2. m # 0
  <2>1. Flattening(s, 0, << >>)
    BY DEF Flattening
  <2>. QED  BY <2>1, <1>1
<1>3. PICK g : Flattening(s, m - 1, g)
  BY <1>1, <1>2
<1>. DEFINE h == [i \in 1..m |-> IF i = m THEN (IF m = 1 THEN s[m] ELSE g[m - 1] \o s[m]) ELSE g[i]]
<1>4. m \in Nat \ {0} /\ m - 1 \in Nat
  BY <1>1, <1>2
<1>5. \A i \in 1..(m - 1) : g[i] = IF i = 1 THEN s[i] ELSE g[i - 1] \o s[i]
  BY <1>3, <1>4, FlatteningSteps
<1>6. ASSUME NEW i \in 1..m PROVE h[i] = IF i = 1 THEN s[i] ELSE h[i - 1] \o s[i]
  <2>1. i \in Nat /\ (i # 1 => i - 1 \in 1..m /\ i - 1 # m) /\ (i # m => i \in 1..(m - 1))
    BY <1>4
  <2>2. CASE i = m
    BY <2>1, <2>2
  <2>3. CASE i # m
    BY <1>5, <2>1, <2>3
  <2>. QED  BY <2>2, <2>3
<1>7. h = [i \in 1..m |-> h[i]]
  OBVIOUS
<1>. HIDE DEF h
<1>8. h = [i \in 1..m |-> IF i = 1 THEN s[i] ELSE h[i - 1] \o s[i]]
  <2>1. [i \in 1..m |-> h[i]] = [i \in 1..m |-> IF i = 1 THEN s[i] ELSE h[i - 1] \o s[i]]
    BY <1>6
  <2>. QED  BY <1>7, <2>1, Zenon
<1>9. Flattening(s, m, h)
  BY <1>8 DEF Flattening
<1>. QED  BY <1>1, <1>9

LEMMA FlattenIs ==
  ASSUME NEW s, Len(s) \in Nat
  PROVE  \E g : /\ Flattening(s, Len(s), g)
                /\ FlattenSeq(s) = IF Len(s) = 0 THEN s ELSE g[Len(s)]
<1>. DEFINE N       == Len(s)
            F(g)    == Flattening(s, N, g)
            flatten == CHOOSE g : F(g)
<1>1. FlattenSeq(s) = IF N = 0 THEN s ELSE flatten[N]
  BY DEF FlattenSeq, Flattening
<1>. HIDE DEF N
<1>2. F(flatten)
  <2>1. \E g : F(g)
    BY FlatteningExists DEF N
  <2>. HIDE DEF F
  <2>. QED  BY <2>1
<1>. HIDE DEF flatten
<1>. QED  BY <1>1, <1>2 DEF N

LEMMA FlattenEmpty == FlattenSeq(<< >>) = << >>
BY DEF FlattenSeq

LEMMA FlattenAppend ==
  ASSUME NEW S, NEW s \in Seq(Seq(S)), NEW x \in Seq(S)
  PROVE  FlattenSeq(Append(s, x)) = FlattenSeq(s) \o x
<1>. DEFINE n == Len(s)
            t == Append(s, x)
<1>1. /\ n \in Nat /\ t \in Seq(Seq(S)) /\ Len(t) = n + 1 /\ t[n + 1] = x
      /\ \A i \in 1..n : t[i] = s[i]
  BY LenProperties, AppendProperties
<1>. HIDE DEF t
<1>2. PICK g : /\ Flattening(s, n, g)
               /\ FlattenSeq(s) = IF n = 0 THEN s ELSE g[n]
  BY <1>1, FlattenIs
<1>3. PICK h : /\ Flattening(t, n + 1, h)
               /\ FlattenSeq(t) = IF n + 1 = 0 THEN t ELSE h[n + 1]
  <2>1. Len(t) \in Nat
    BY <1>1
  <2>. QED  BY <2>1, <1>1, FlattenIs
<1>4. \A i \in 1..n : g[i] = IF i = 1 THEN s[i] ELSE g[i - 1] \o s[i]
  BY <1>1, <1>2, FlatteningSteps
<1>5. \A i \in 1..(n + 1) : h[i] = IF i = 1 THEN t[i] ELSE h[i - 1] \o t[i]
  <2>1. n + 1 \in Nat
    BY <1>1
  <2>. QED  BY <2>1, <1>3, FlatteningSteps
<1>6. \A i \in 1..n : h[i] = g[i]
  <2>. DEFINE Apart == {i \in 1..n : h[i] # g[i]}
  <2>. SUFFICES ASSUME Apart # {} PROVE FALSE
    OBVIOUS
  <2>1. Apart \subseteq Nat
    BY <1>1
  <2>2. PICK i \in Apart : \A j \in Apart : i <= j
    BY <2>1, LeastNumber
  <2>3. CASE i = 1
    BY <1>1, <1>4, <1>5, <2>2, <2>3
  <2>4. CASE i # 1
    <3>1. i \in 1..n /\ i \in 1..(n + 1) /\ i - 1 \in 1..n /\ ~(i <= i - 1)
      BY <1>1, <2>2, <2>4
    <3>2. h[i - 1] = g[i - 1]
      BY <2>2, <3>1
    <3>. QED  BY <1>1, <1>4, <1>5, <2>2, <2>4, <3>1, <3>2
  <2>. QED  BY <2>3, <2>4
<1>7. FlattenSeq(t) = h[n + 1]
  BY <1>1, <1>3
<1>8. n + 1 \in 1..(n + 1) /\ (n # 0 => n \in 1..n /\ (n + 1) - 1 = n)
  BY <1>1
<1>9. CASE n = 0
  <2>1. h[n + 1] = x
    BY <1>1, <1>5, <1>8, <1>9
  <2>2. s = << >>
    BY <1>9, EmptySeq
  <2>. QED  BY <1>2, <1>7, <1>9, <2>1, <2>2, ConcatEmptySeq DEF t
<1>10. CASE n # 0
  <2>1. h[n + 1] = h[n] \o x
    <3>1. n + 1 # 1 /\ (n + 1) - 1 = n
      BY <1>1, <1>10
    <3>2. h[n + 1] = h[(n + 1) - 1] \o t[n + 1]
      BY <1>5, <1>8, <3>1
    <3>. QED  BY <1>1, <3>1, <3>2
  <2>. QED  BY <1>2, <1>6, <1>7, <1>8, <1>10, <2>1 DEF t
<1>. QED  BY <1>9, <1>10

LEMMA FlattenType ==
  ASSUME NEW S, NEW s \in Seq(Seq(S))
  PROVE  FlattenSeq(s) \in Seq(S)
<1>. DEFINE T == {r \in Seq(Seq(S)) : FlattenSeq(r) \in Seq(S)}
<1>1. << >> \in T
  BY FlattenEmpty, EmptySeq
<1>2. ASSUME NEW r \in Seq(Seq(S)), NEW e \in Seq(S), r \in T PROVE Append(r, e) \in T
  <2>1. FlattenSeq(Append(r, e)) = FlattenSeq(r) \o e
    BY FlattenAppend
  <2>2. Append(r, e) \in Seq(Seq(S)) /\ FlattenSeq(r) \o e \in Seq(S)
    BY <1>2, AppendProperties, ConcatProperties
  <2>. QED  BY <2>1, <2>2
<1>. HIDE DEF T
<1>3. Seq(Seq(S)) \subseteq T
  BY <1>1, <1>2, AppendInduction
<1>. QED  BY <1>3 DEF T

\* Without \o in sight the provers find what to associate at once.
Associates(a, b, c) == (a \o b) \o c = a \o (b \o c)

LEMMA ConcatAssociates ==
  ASSUME NEW S, NEW a \in Seq(S), NEW b \in Seq(S), NEW c \in Seq(S)
  PROVE  Associates(a, b, c)
BY ConcatAssociative DEF Associates

LEMMA FlattenConcat ==
  ASSUME NEW S, NEW s \in Seq(Seq(S)), NEW t \in Seq(Seq(S))
  PROVE  FlattenSeq(s \o t) = FlattenSeq(s) \o FlattenSeq(t)
<1>. DEFINE T == {r \in Seq(Seq(S)) : FlattenSeq(s \o r) = FlattenSeq(s) \o FlattenSeq(r)}
<1>0. FlattenSeq(s) \in Seq(S)
  BY FlattenType
<1>1. << >> \in T
  BY <1>0, FlattenEmpty, EmptySeq, ConcatEmptySeq
<1>2. ASSUME NEW r \in Seq(Seq(S)), NEW e \in Seq(S), r \in T PROVE Append(r, e) \in T
  <2>1. Append(r, e) \in Seq(Seq(S)) /\ s \o Append(r, e) = Append(s \o r, e) /\ s \o r \in Seq(Seq(S))
    <3>1. <<e>> \in Seq(Seq(S)) /\ s \o r \in Seq(Seq(S)) /\ Append(r, e) \in Seq(Seq(S))
      BY AppendProperties, ConcatProperties
    <3>2. Append(r, e) = r \o <<e>> /\ Append(s \o r, e) = (s \o r) \o <<e>>
      BY <3>1, AppendIsConcat
    <3>3. Associates(s, r, <<e>>)
      <4>. DEFINE o == <<e>>
      <4>1. o \in Seq(Seq(S))
        BY <3>1
      <4>. HIDE DEF o
      <4>2. Associates(s, r, o)
        BY <4>1, ConcatAssociates
      <4>. QED  BY <4>2 DEF o
    <3>. QED  BY <3>1, <3>2, <3>3 DEF Associates
  <2>2. FlattenSeq(s \o Append(r, e)) = FlattenSeq(s \o r) \o e
    BY <2>1, FlattenAppend
  <2>3. FlattenSeq(Append(r, e)) = FlattenSeq(r) \o e /\ FlattenSeq(r) \in Seq(S)
    BY FlattenAppend, FlattenType
  <2>4. (FlattenSeq(s) \o FlattenSeq(r)) \o e = FlattenSeq(s) \o (FlattenSeq(r) \o e)
    <3>1. Associates(FlattenSeq(s), FlattenSeq(r), e)
      BY <1>0, <2>3, ConcatAssociates
    <3>. QED  BY <3>1 DEF Associates
  <2>. QED  BY <1>2, <2>1, <2>2, <2>3, <2>4
<1>. HIDE DEF T
<1>3. Seq(Seq(S)) \subseteq T
  BY <1>1, <1>2, AppendInduction
<1>. QED  BY <1>3 DEF T

LEMMA FlattenOne ==
  ASSUME NEW S, NEW x \in Seq(S)
  PROVE  FlattenSeq(<<x>>) = x
<1>1. << >> \in Seq(Seq(S)) /\ <<x>> = Append(<< >>, x)
  OBVIOUS
<1>2. FlattenSeq(Append(<< >>, x)) = FlattenSeq(<< >>) \o x
  BY <1>1, FlattenAppend
<1>3. << >> \o x = x
  BY ConcatEmptySeq
<1>. QED  BY <1>1, <1>2, <1>3, FlattenEmpty

LEMMA FlattenCons ==
  ASSUME NEW S, NEW x \in Seq(S), NEW s \in Seq(Seq(S))
  PROVE  FlattenSeq(<<x>> \o s) = x \o FlattenSeq(s)
<1>1. <<x>> \in Seq(Seq(S))
  OBVIOUS
<1>2. FlattenSeq(<<x>> \o s) = FlattenSeq(<<x>>) \o FlattenSeq(s)
  BY <1>1, FlattenConcat
<1>3. FlattenSeq(<<x>>) = x
  BY FlattenOne
<1>. QED  BY <1>2, <1>3

-----------------------------------------------------------------------------
(* Ranges of numbers, and sequences made element by element.               *)

LEMMA RangeInduction ==
  ASSUME NEW m \in Nat, NEW n \in Nat, NEW T, m \in T,
         \A i \in m..n : i < n /\ i \in T => i + 1 \in T
  PROVE  m..n \subseteq T
<1>. DEFINE Missing == (m..n) \ T
<1>. SUFFICES ASSUME Missing # {} PROVE FALSE
  OBVIOUS
<1>1. Missing \subseteq Nat
  OBVIOUS
<1>2. PICK i \in Missing : \A j \in Missing : i <= j
  BY <1>1, LeastNumber
<1>3. i \in m..n /\ i \notin T /\ i # m
  BY <1>2
<1>4. i - 1 \in m..n /\ i - 1 < n /\ (i - 1) + 1 = i /\ ~(i <= i - 1)
  BY <1>3
<1>5. i - 1 \in T
  <2>. SUFFICES ASSUME i - 1 \notin T PROVE FALSE
    OBVIOUS
  <2>1. i - 1 \in Missing
    BY <1>4
  <2>. QED  BY <1>2, <1>4, <2>1
<1>. QED  BY <1>3, <1>4, <1>5

Mapped(f, s)  == [i \in DOMAIN s |-> f[s[i]]]
Maps(f, S, R) == f \in [S -> R]

LEMMA MappedType ==
  ASSUME NEW S, NEW R, NEW f, Maps(f, S, R), NEW s \in Seq(S)
  PROVE  /\ Mapped(f, s) \in Seq(R) /\ Len(Mapped(f, s)) = Len(s)
         /\ \A i \in 1..Len(s) : Mapped(f, s)[i] = f[s[i]]
<1>1. Len(s) \in Nat /\ DOMAIN s = 1..Len(s) /\ \A i \in 1..Len(s) : s[i] \in S
  BY LenProperties, ElementOfSeq
<1>2. Mapped(f, s) = [i \in 1..Len(s) |-> f[s[i]]]
  BY <1>1 DEF Mapped
<1>3. [i \in 1..Len(s) |-> f[s[i]]] \in Seq(R)
  BY <1>1 DEF Maps
<1>. QED  BY <1>1, <1>2, <1>3

LEMMA MappedAppend ==
  ASSUME NEW S, NEW R, NEW f, Maps(f, S, R), NEW s \in Seq(S), NEW x \in S
  PROVE  Mapped(f, Append(s, x)) = Append(Mapped(f, s), f[x])
<1>. DEFINE a == Mapped(f, Append(s, x))
            b == Append(Mapped(f, s), f[x])
<1>1. /\ Append(s, x) \in Seq(S) /\ Len(Append(s, x)) = Len(s) + 1 /\ Len(s) \in Nat
      /\ Append(s, x)[Len(s) + 1] = x /\ \A i \in 1..Len(s) : Append(s, x)[i] = s[i]
  BY AppendProperties, LenProperties
<1>2. /\ Mapped(f, s) \in Seq(R) /\ Len(Mapped(f, s)) = Len(s)
      /\ \A i \in 1..Len(s) : Mapped(f, s)[i] = f[s[i]]
  BY MappedType
<1>3. /\ a \in Seq(R) /\ Len(a) = Len(s) + 1 /\ \A i \in 1..(Len(s) + 1) : a[i] = f[Append(s, x)[i]]
  <2>. DEFINE u == Append(s, x)
  <2>1. /\ Mapped(f, u) \in Seq(R) /\ Len(Mapped(f, u)) = Len(u)
        /\ \A i \in 1..Len(u) : Mapped(f, u)[i] = f[u[i]]
    <3>1. u \in Seq(S)
      BY <1>1
    <3>. HIDE DEF u
    <3>. QED  BY <3>1, MappedType
  <2>. QED  BY <1>1, <2>1
<1>4. /\ b \in Seq(R) /\ Len(b) = Len(s) + 1 /\ b[Len(s) + 1] = f[x]
      /\ \A i \in 1..Len(s) : b[i] = Mapped(f, s)[i]
  <2>1. f[x] \in R
    BY DEF Maps
  <2>. QED  BY <1>2, <2>1, AppendProperties
<1>. HIDE DEF a, b
<1>5. \A i \in 1..Len(a) : a[i] = b[i]
  <2>. TAKE i \in 1..Len(a)
  <2>1. CASE i = Len(s) + 1
    BY <1>1, <1>3, <1>4, <2>1
  <2>2. CASE i # Len(s) + 1
    <3>1. i \in 1..Len(s) /\ i \in 1..(Len(s) + 1)
      BY <1>1, <1>3, <2>2
    <3>. QED  BY SMTT(60), <1>1, <1>2, <1>3, <1>4, <3>1
  <2>. QED  BY <2>1, <2>2
<1>6. a = b
  BY <1>3, <1>4, <1>5, SeqEqual
<1>. QED  BY <1>6 DEF a, b

LEMMA MappedConcat ==
  ASSUME NEW S, NEW R, NEW f, Maps(f, S, R), NEW s \in Seq(S), NEW t \in Seq(S)
  PROVE  Mapped(f, s \o t) = Mapped(f, s) \o Mapped(f, t)
<1>. DEFINE a == Mapped(f, s \o t)
            b == Mapped(f, s) \o Mapped(f, t)
<1>1. /\ s \o t \in Seq(S) /\ Len(s \o t) = Len(s) + Len(t) /\ Len(s) \in Nat /\ Len(t) \in Nat
      /\ \A i \in 1..(Len(s) + Len(t)) : (s \o t)[i] = IF i <= Len(s) THEN s[i] ELSE t[i - Len(s)]
  BY ConcatProperties, LenProperties
<1>2. /\ Mapped(f, s) \in Seq(R) /\ Len(Mapped(f, s)) = Len(s)
      /\ \A i \in 1..Len(s) : Mapped(f, s)[i] = f[s[i]]
  BY MappedType
<1>3. /\ Mapped(f, t) \in Seq(R) /\ Len(Mapped(f, t)) = Len(t)
      /\ \A i \in 1..Len(t) : Mapped(f, t)[i] = f[t[i]]
  BY MappedType
<1>4. a \in Seq(R) /\ Len(a) = Len(s) + Len(t) /\ \A i \in 1..(Len(s) + Len(t)) : a[i] = f[(s \o t)[i]]
  <2>. DEFINE u == s \o t
  <2>1. /\ Mapped(f, u) \in Seq(R) /\ Len(Mapped(f, u)) = Len(u)
        /\ \A i \in 1..Len(u) : Mapped(f, u)[i] = f[u[i]]
    <3>1. u \in Seq(S)
      BY <1>1
    <3>. HIDE DEF u
    <3>. QED  BY <3>1, MappedType
  <2>. QED  BY <1>1, <2>1
<1>5. /\ b \in Seq(R) /\ Len(b) = Len(s) + Len(t)
      /\ \A i \in 1..(Len(s) + Len(t)) : b[i] = IF i <= Len(s) THEN Mapped(f, s)[i] ELSE Mapped(f, t)[i - Len(s)]
  <2>1. /\ b \in Seq(R) /\ Len(b) = Len(Mapped(f, s)) + Len(Mapped(f, t))
        /\ \A i \in 1..(Len(Mapped(f, s)) + Len(Mapped(f, t))) :
             b[i] = IF i <= Len(Mapped(f, s)) THEN Mapped(f, s)[i] ELSE Mapped(f, t)[i - Len(Mapped(f, s))]
    BY ZenonT(60), <1>2, <1>3, ConcatProperties
  <2>. QED  BY <1>2, <1>3, <2>1
<1>. HIDE DEF a, b
<1>6. \A i \in 1..Len(a) : a[i] = b[i]
  <2>. TAKE i \in 1..Len(a)
  <2>1. CASE i <= Len(s)
    BY <1>1, <1>2, <1>4, <1>5, <2>1
  <2>2. CASE ~(i <= Len(s))
    <3>1. i - Len(s) \in 1..Len(t) /\ i \in 1..(Len(s) + Len(t))
      BY <1>1, <1>4, <2>2
    <3>. QED  BY <1>1, <1>3, <1>4, <1>5, <2>2, <3>1
  <2>. QED  BY <2>1, <2>2
<1>7. a = b
  BY <1>4, <1>5, <1>6, SeqEqual
<1>. QED  BY <1>7 DEF a, b

LEMMA MappedOne ==
  ASSUME NEW S, NEW R, NEW f, Maps(f, S, R), NEW x \in S
  PROVE  Mapped(f, <<x>>) = <<f[x]>>
<1>1. <<x>> \in Seq(S) /\ Len(<<x>>) = 1 /\ <<x>>[1] = x
  OBVIOUS
<1>2. /\ Mapped(f, <<x>>) \in Seq(R) /\ Len(Mapped(f, <<x>>)) = 1
      /\ Mapped(f, <<x>>)[1] = f[x]
  <2>. DEFINE u == <<x>>
  <2>1. /\ Mapped(f, u) \in Seq(R) /\ Len(Mapped(f, u)) = Len(u)
        /\ \A i \in 1..Len(u) : Mapped(f, u)[i] = f[u[i]]
    <3>1. u \in Seq(S)
      BY <1>1
    <3>. HIDE DEF u
    <3>. QED  BY <3>1, MappedType
  <2>. QED  BY <1>1, <2>1
<1>3. <<f[x]>> \in Seq(R) /\ Len(<<f[x]>>) = 1 /\ <<f[x]>>[1] = f[x]
  <2>1. f[x] \in R
    BY DEF Maps
  <2>. QED  BY <2>1
<1>. QED  BY <1>2, <1>3, SeqEqual

LEMMA FlattenSingles ==
  ASSUME NEW S, NEW s \in Seq(S)
  PROVE  /\ [i \in DOMAIN s |-> <<s[i]>>] \in Seq(Seq(S))
         /\ FlattenSeq([i \in DOMAIN s |-> <<s[i]>>]) = s
<1>. DEFINE f == [x \in S |-> <<x>>]
            T == {r \in Seq(S) : FlattenSeq(Mapped(f, r)) = r}
<1>1. Maps(f, S, Seq(S)) /\ \A x \in S : f[x] = <<x>>
  BY DEF Maps
<1>. HIDE DEF f
<1>2. << >> \in T
  <2>1. Mapped(f, << >>) = << >>
    BY DEF Mapped
  <2>. QED  BY <2>1, FlattenEmpty
<1>3. ASSUME NEW r \in Seq(S), NEW x \in S, r \in T PROVE Append(r, x) \in T
  <2>1. Mapped(f, Append(r, x)) = Append(Mapped(f, r), f[x]) /\ Mapped(f, r) \in Seq(Seq(S))
    BY <1>1, MappedAppend, MappedType
  <2>2. FlattenSeq(Mapped(f, Append(r, x))) = FlattenSeq(Mapped(f, r)) \o f[x]
    <3>1. f[x] \in Seq(S)
      BY <1>1 DEF Maps
    <3>. QED  BY <2>1, <3>1, FlattenAppend
  <2>3. Append(r, x) \in Seq(S) /\ Append(r, x) = r \o <<x>>
    BY AppendProperties, AppendIsConcat
  <2>. QED  BY <1>1, <1>3, <2>2, <2>3
<1>. HIDE DEF T
<1>4. Seq(S) \subseteq T
  BY <1>2, <1>3, AppendInduction
<1>5. Mapped(f, s) = [i \in DOMAIN s |-> <<s[i]>>]
  BY <1>1, ElementOfSeq, LenProperties DEF Mapped
<1>6. Mapped(f, s) \in Seq(Seq(S))
  BY <1>1, MappedType
<1>. QED  BY <1>4, <1>5, <1>6 DEF T

\* Steps from a first value: the values after each of them.
Iterates(g, a, n, x, step, X) ==
  g \in [a..n -> X] /\ \A i \in a..n : g[i] = IF i = a THEN x ELSE step[<<g[i - 1], i>>]

LEMMA IterationExists ==
  ASSUME NEW X, NEW x \in X, NEW a \in Nat, NEW n \in Nat, NEW step, Maps(step, X \X Nat, X)
  PROVE  \E g : Iterates(g, a, n, x, step, X)
<1>. DEFINE Goes(m, g) == /\ g \in [a..m -> X]
                          /\ \A i \in a..m : g[i] = IF i = a THEN x ELSE step[<<g[i - 1], i>>]
            Lacking == {m \in Nat : ~\E g : Goes(m, g)}
<1>1. Lacking = {}
  <2>. SUFFICES ASSUME Lacking # {} PROVE FALSE
    OBVIOUS
  <2>1. PICK m \in Lacking : \A k \in Lacking : m <= k
    BY LeastNumber
  <2>2. m > a
    <3>. SUFFICES ASSUME ~(m > a) PROVE FALSE
      OBVIOUS
    <3>1. m \in Nat /\ \A i \in a..m : i = a
      BY <2>1
    <3>2. Goes(m, [i \in a..m |-> x])
      BY <3>1
    <3>. QED  BY <2>1, <3>2
  <2>3. m \in Nat \ {0} /\ m - 1 \in Nat /\ ~(m <= m - 1)
    BY <2>1, <2>2
  <2>4. \E g : Goes(m - 1, g)
    <3>1. m - 1 \notin Lacking
      BY <2>1, <2>3
    <3>. QED  BY <2>3, <3>1
  <2>5. PICK g : Goes(m - 1, g)
    BY <2>4
  <2>6. m - 1 \in a..(m - 1) /\ step[<<g[m - 1], m>>] \in X
    BY <2>2, <2>3, <2>5 DEF Maps
  <2>. DEFINE h == [i \in a..m |-> IF i = m THEN step[<<g[m - 1], m>>] ELSE g[i]]
  <2>7. h \in [a..m -> X]
    BY <2>3, <2>5, <2>6
  <2>8. ASSUME NEW i \in a..m PROVE h[i] = IF i = a THEN x ELSE step[<<h[i - 1], i>>]
    <3>1. i \in Nat /\ (i # a => i - 1 \in a..m /\ i - 1 # m) /\ (i # m => i \in a..(m - 1)) /\ m # a
      BY <2>2, <2>3
    <3>2. CASE i = m
      BY <3>1, <3>2
    <3>3. CASE i # m
      BY <2>5, <3>1, <3>3
    <3>. QED  BY <3>2, <3>3
  <2>9. Goes(m, h)
    <3>. HIDE DEF h
    <3>. QED  BY <2>7, <2>8
  <2>. QED  BY <2>1, <2>9
<1>2. \E g : Goes(n, g)
  BY <1>1
<1>. QED  BY <1>2 DEF Iterates

-----------------------------------------------------------------------------
(* Patterns as they are read and translated.                               *)

Texts == Seq(Symbols)

JoinsText(a, b) == a \o b \in Texts

LEMMA TextsAssociates ==
  ASSUME NEW a \in Texts, NEW b \in Texts, NEW c \in Texts
  PROVE  Associates(a, b, c) /\ JoinsText(a, b) /\ JoinsText(b, c)
<1>1. a \in Seq(Symbols) /\ b \in Seq(Symbols) /\ c \in Seq(Symbols)
  BY DEF Texts
<1>2. Associates(a, b, c)
  BY <1>1, ConcatAssociates
<1>3. a \o b \in Seq(Symbols) /\ b \o c \in Seq(Symbols)
  BY <1>1, ConcatProperties
<1>. QED  BY <1>2, <1>3 DEF Texts, JoinsText

LEMMA TextsJoin ==
  ASSUME NEW a \in Texts, NEW b \in Texts
  PROVE  JoinsText(a, b)
BY TextsAssociates
Length == [q \in Texts |-> Len(q)]

LEMMA LengthType == Maps(Length, Texts, Nat) /\ \A q \in Texts : Length[q] = Len(q)
BY LenProperties DEF Length, Maps, Texts

LEMMA DropType ==
  ASSUME NEW S, NEW q \in Seq(S), NEW n \in Nat, n <= Len(q)
  PROVE  /\ Drop(q, n) \in Seq(S) /\ Len(Drop(q, n)) = Len(q) - n
         /\ \A i \in 1..(Len(q) - n) : Drop(q, n)[i] = q[n + i]
<1>. DEFINE m == n + 1
            l == Len(q)
<1>1. l \in Nat /\ m \in Int /\ l \in Int /\ \A i \in m..l : q[i] \in S
  <2>1. l \in Nat
    BY LenProperties
  <2>. QED  BY <2>1, ElementOfSeq
<1>2. /\ SubSeq(q, m, l) \in Seq(S)
      /\ Len(SubSeq(q, m, l)) = IF m <= l THEN l - m + 1 ELSE 0
      /\ \A i \in 1..(l - m + 1) : SubSeq(q, m, l)[i] = q[m + i - 1]
  <2>. HIDE DEF m, l
  <2>. QED  BY <1>1, SubSeqProperties
<1>3. l - m + 1 = l - n /\ (m <= l \/ l = n) /\ \A i \in Int : m + i - 1 = n + i
  BY <1>1
<1>. DEFINE d == SubSeq(q, m, l)
<1>. HIDE DEF d
<1>4. Len(d) = l - n
  <2>1. Len(d) = IF m <= l THEN l - m + 1 ELSE 0
    BY <1>2 DEF d
  <2>. QED  BY <1>1, <2>1
<1>5. \A i \in 1..(l - n) : d[i] = q[n + i]
  <2>1. \A i \in 1..(l - m + 1) : d[i] = q[m + i - 1]
    BY <1>2 DEF d
  <2>. HIDE DEF m
  <2>. QED  BY <1>3, <2>1
<1>. USE DEF d
<1>. QED  BY <1>2, <1>4, <1>5 DEF Drop

LEMMA DropConcat ==
  ASSUME NEW S, NEW t \in Seq(S), NEW r \in Seq(S)
  PROVE  /\ t \o r \in Seq(S) /\ Len(t) \in Nat /\ Len(r) \in Nat /\ Len(t \o r) = Len(t) + Len(r)
         /\ \A i \in 1..Len(t) : (t \o r)[i] = t[i]
         /\ \A i \in 1..Len(r) : (t \o r)[Len(t) + i] = r[i]
         /\ Drop(t \o r, Len(t)) = r
<1>. DEFINE n == Len(t)
            u == t \o r
<1>1. /\ u \in Seq(S) /\ n \in Nat /\ Len(r) \in Nat /\ Len(u) = n + Len(r)
      /\ \A i \in 1..(n + Len(r)) : u[i] = IF i <= n THEN t[i] ELSE r[i - n]
  BY ConcatProperties, LenProperties
<1>2. \A i \in 1..n : u[i] = t[i]
  <2>. TAKE i \in 1..n
  <2>1. i \in 1..(n + Len(r)) /\ i <= n
    BY <1>1
  <2>. QED  BY <1>1, <2>1
<1>3. \A i \in 1..Len(r) : u[n + i] = r[i]
  <2>. TAKE i \in 1..Len(r)
  <2>1. n + i \in 1..(n + Len(r)) /\ ~(n + i <= n) /\ (n + i) - n = i
    BY <1>1
  <2>. QED  BY <1>1, <2>1
<1>4. n <= Len(u) /\ Len(u) - n = Len(r)
  BY <1>1
<1>5. /\ Drop(u, n) \in Seq(S) /\ Len(Drop(u, n)) = Len(u) - n
      /\ \A i \in 1..(Len(u) - n) : Drop(u, n)[i] = u[n + i]
  <2>. HIDE DEF u, n
  <2>. QED  BY <1>1, <1>4, DropType
<1>6. Drop(u, n) = r
  <2>. DEFINE d == Drop(u, n)
  <2>1. d \in Seq(S) /\ Len(d) = Len(r) /\ \A i \in 1..Len(d) : d[i] = r[i]
    BY <1>3, <1>4, <1>5
  <2>. HIDE DEF d
  <2>. QED  BY <2>1, SeqEqual DEF d
<1>. QED  BY <1>1, <1>2, <1>3, <1>6

\* Tail is one dropped.
LEMMA TailIsDrop ==
  ASSUME NEW S, NEW q \in Seq(S), q # << >>
  PROVE  Tail(q) = Drop(q, 1) /\ Tail(q) \in Seq(S) /\ Len(Tail(q)) = Len(q) - 1 /\ Len(q) \in Nat \ {0}
<1>1. Tail(q) = SubSeq(q, 2, Len(q))
  BY TailIsSubSeq
<1>. QED  BY <1>1, HeadAndTail DEF Drop

-----------------------------------------------------------------------------
(* The functions of Glob are defined by recursion over the length of their *)
(* argument; there are such functions.                                     *)

ReadRanges == {[ok |-> FALSE]} \cup [ok : {TRUE}, set : SUBSET Chars, rest : Texts]

RangesStep(f, q) ==
  LET lo   == Esc(q)
      dash == Len(q) > lo.n /\ q[lo.n + 1] = "-"
      hi   == IF dash THEN Esc(Drop(q, lo.n + 1)) ELSE lo
      rest == Drop(q, IF dash THEN lo.n + 1 + hi.n ELSE lo.n)
      more == f[rest]
  IN  IF lo.n = 0 \/ hi.n = 0 \/ rest = << >> THEN [ok |-> FALSE]
      ELSE IF rest[1] = "]" THEN [ok |-> TRUE, set |-> Upto(lo.c, hi.c), rest |-> Tail(rest)]
      ELSE IF more.ok THEN [more EXCEPT !.set = @ \cup Upto(lo.c, hi.c)] ELSE more

LEMMA EscType ==
  ASSUME NEW q \in Texts
  PROVE  /\ Esc(q).n \in {0, 1, 2} /\ Esc(q).n <= Len(q) /\ Len(q) \in Nat
<1>1. Len(q) \in Nat /\ (q # << >> => Len(q) > 0)
  BY EmptySeq, LenProperties DEF Texts
<1>2. CASE q = << >> \/ q[1] \in {"-", "]"} \/ (q[1] = "\\" /\ Len(q) = 1)
  BY <1>1, <1>2 DEF Esc
<1>3. CASE ~(q = << >> \/ q[1] \in {"-", "]"} \/ (q[1] = "\\" /\ Len(q) = 1))
  <2>1. CASE q[1] = "\\"
    <3>1. Esc(q) = [n |-> 2, c |-> q[2]]
      BY <1>3, <2>1 DEF Esc
    <3>. DEFINE l == Len(q)
    <3>2. l > 0 /\ l # 1 /\ l \in Nat
      BY <1>1, <1>3, <2>1
    <3>3. Esc(q).n = 2
      BY <3>1
    <3>. HIDE DEF l
    <3>4. 2 <= l
      BY <3>2
    <3>. QED  BY <3>2, <3>3, <3>4 DEF l
  <2>2. CASE q[1] # "\\"
    <3>1. Esc(q) = [n |-> 1, c |-> q[1]]
      BY <1>3, <2>2 DEF Esc
    <3>. QED  BY <1>1, <1>3, <3>1
  <2>. QED  BY <2>1, <2>2
<1>. QED  BY <1>2, <1>3

\* What is left after the first range.
AfterRange(q) ==
  LET lo   == Esc(q)
      dash == Len(q) > lo.n /\ q[lo.n + 1] = "-"
      hi   == IF dash THEN Esc(Drop(q, lo.n + 1)) ELSE lo
  IN  Drop(q, IF dash THEN lo.n + 1 + hi.n ELSE lo.n)

LEMMA AfterRangeType ==
  ASSUME NEW q \in Texts
  PROVE  /\ AfterRange(q) \in Texts /\ Len(q) \in Nat /\ Len(AfterRange(q)) \in Nat
         /\ Esc(q).n # 0 => Len(AfterRange(q)) < Len(q)
<1>. DEFINE lo   == Esc(q)
            dash == Len(q) > lo.n /\ q[lo.n + 1] = "-"
            d    == Drop(q, lo.n + 1)
            hi   == IF dash THEN Esc(d) ELSE lo
            k    == IF dash THEN lo.n + 1 + hi.n ELSE lo.n
<1>1. lo.n \in {0, 1, 2} /\ lo.n <= Len(q) /\ Len(q) \in Nat
  BY EscType
<1>2. ASSUME dash PROVE d \in Texts /\ Len(d) = Len(q) - (lo.n + 1)
  <2>. DEFINE m == lo.n + 1
  <2>1. m \in Nat /\ m <= Len(q)
    BY <1>1, <1>2
  <2>. HIDE DEF m
  <2>2. Drop(q, m) \in Texts /\ Len(Drop(q, m)) = Len(q) - m
    BY <2>1, DropType DEF Texts
  <2>. QED  BY <2>2 DEF m
<1>3. ASSUME dash PROVE Esc(d).n \in {0, 1, 2} /\ Esc(d).n <= Len(d)
  <2>1. d \in Texts
    BY <1>2, <1>3
  <2>. HIDE DEF d
  <2>. QED  BY <2>1, EscType
<1>. HIDE DEF lo, d
<1>4. k \in Nat /\ k <= Len(q) /\ lo.n <= k
  <2>1. CASE dash
    BY SMTT(60), <1>1, <1>2, <1>3, <2>1
  <2>2. CASE ~dash
    BY <1>1, <2>2
  <2>. QED  BY <2>1, <2>2
<1>5. AfterRange(q) = Drop(q, k)
  BY DEF AfterRange, lo, d
<1>. HIDE DEF k
<1>6. Drop(q, k) \in Texts /\ Len(Drop(q, k)) = Len(q) - k
  BY <1>4, DropType DEF Texts
<1>7. lo.n # 0 => Len(q) - k < Len(q)
  BY <1>1, <1>4
<1>8. Len(q) - k \in Nat
  BY <1>1, <1>4
<1>. QED  BY <1>1, <1>5, <1>6, <1>7, <1>8 DEF lo

\* A step only looks at what is left after the first range, and only if there
\* is one.
LEMMA RangesStepType ==
  ASSUME NEW q \in Texts, NEW f \in [Texts -> ReadRanges]
  PROVE  RangesStep(f, q) \in ReadRanges
<1>. DEFINE lo   == Esc(q)
            dash == Len(q) > lo.n /\ q[lo.n + 1] = "-"
            hi   == IF dash THEN Esc(Drop(q, lo.n + 1)) ELSE lo
            set  == Upto(lo.c, hi.c)
            rest == AfterRange(q)
            more == f[rest]
<1>1. rest \in Texts
  BY AfterRangeType
<1>2. set \in SUBSET Chars
  BY DEF Upto
<1>3. rest # << >> => Tail(rest) \in Texts
  BY <1>1, TailIsDrop DEF Texts
<1>4. more \in ReadRanges
  BY <1>1
<1>5. RangesStep(f, q) = IF lo.n = 0 \/ hi.n = 0 \/ rest = << >> THEN [ok |-> FALSE]
                         ELSE IF rest[1] = "]" THEN [ok |-> TRUE, set |-> set, rest |-> Tail(rest)]
                         ELSE IF more.ok THEN [more EXCEPT !.set = @ \cup set] ELSE more
  BY DEF RangesStep, AfterRange
<1>. HIDE DEF lo, dash, hi, set, rest, more
<1>6. [ok |-> FALSE] \in ReadRanges
  BY DEF ReadRanges
<1>7. rest # << >> => [ok |-> TRUE, set |-> set, rest |-> Tail(rest)] \in ReadRanges
  BY <1>2, <1>3 DEF ReadRanges
<1>8. more.ok => [more EXCEPT !.set = @ \cup set] \in ReadRanges
  BY <1>2, <1>4 DEF ReadRanges
<1>. QED  BY <1>4, <1>5, <1>6, <1>7, <1>8

LEMMA RangesStepLocal ==
  ASSUME NEW q \in Texts, NEW f, NEW g, \A r \in Texts : Length[r] < Length[q] => f[r] = g[r]
  PROVE  RangesStep(f, q) = RangesStep(g, q)
<1>1. CASE Esc(q).n = 0
  BY <1>1 DEF RangesStep
<1>2. CASE Esc(q).n # 0
  <2>1. AfterRange(q) \in Texts /\ Length[AfterRange(q)] < Length[q]
    BY <1>2, AfterRangeType, LengthType
  <2>2. f[AfterRange(q)] = g[AfterRange(q)]
    BY <2>1
  <2>. QED  BY <2>2 DEF RangesStep, AfterRange
<1>. QED  BY <1>1, <1>2

LEMMA RangesIs ==
  /\ Ranges \in [Texts -> ReadRanges]
  /\ \A q \in Texts : Ranges[q] = RangesStep(Ranges, q)
<1>. DEFINE step == [a \in Texts \X [Texts -> ReadRanges] |-> RangesStep(a[2], a[1])]
            Solves(f) == f = [q \in Texts |-> RangesStep(f, q)]
            x == [ok |-> FALSE]
<1>1. Stepping(step, Texts, ReadRanges)
  BY RangesStepType DEF Stepping
<1>2. ASSUME NEW q \in Texts, NEW g \in [Texts -> ReadRanges], NEW h \in [Texts -> ReadRanges],
             \A r \in Texts : Length[r] < Length[q] => g[r] = h[r]
      PROVE  step[<<q, g>>] = step[<<q, h>>]
  BY <1>2, RangesStepLocal
<1>3. \A q \in Texts, f \in [Texts -> ReadRanges] : step[<<q, f>>] = RangesStep(f, q)
  OBVIOUS
<1>4. x \in ReadRanges /\ Sized(Length, Texts) /\ Length \in [Texts -> Nat]
  BY LengthType DEF ReadRanges, Maps, Sized
<1>. HIDE DEF step, x
<1>5. PICK f \in [Texts -> ReadRanges] : \A q \in Texts : f[q] = step[<<q, f>>]
  <2>1. Local(step, Texts, ReadRanges, Length)
    BY <1>2 DEF Local
  <2>2. \E f : Solution(f, step, Texts, ReadRanges)
    BY <1>1, <1>4, <2>1, SolutionExists
  <2>. QED  BY <2>2 DEF Solution
<1>6. Solves(f)
  <2>1. f = [q \in Texts |-> f[q]] /\ \A q \in Texts : f[q] = RangesStep(f, q)
    BY <1>3, <1>5
  <2>. QED  BY <2>1, ZenonT(30)
<1>7. Ranges = CHOOSE g : Solves(g)
  BY DEF Ranges, RangesStep, Texts
<1>8. Solves(Ranges)
  <2>. HIDE DEF Solves
  <2>. QED  BY <1>6, <1>7
<1>9. \A q \in Texts : Ranges[q] = RangesStep(Ranges, q)
  BY <1>8, ZenonT(30)
<1>. DEFINE T == {q \in Texts : Ranges[q] = f[q]}
<1>10. ASSUME NEW q \in Texts, \A r \in Texts : Length[r] < Length[q] => r \in T PROVE q \in T
  <2>1. RangesStep(Ranges, q) = RangesStep(f, q)
    <3>1. \A r \in Texts : Length[r] < Length[q] => Ranges[r] = f[r]
      BY <1>10
    <3>. QED  BY <3>1, RangesStepLocal
  <2>. QED  BY <1>3, <1>5, <1>9, <2>1
<1>11. Texts \subseteq T
  <2>. HIDE DEF T
  <2>. QED  BY <1>4, <1>10, SizeInduction
<1>12. Ranges = f
  <2>1. Ranges = [q \in Texts |-> Ranges[q]]
    BY <1>8, ZenonT(30)
  <2>2. \A q \in Texts : Ranges[q] = f[q]
    BY <1>11
  <2>. QED  BY <1>5, <2>1, <2>2
<1>. QED  BY <1>5, <1>9, <1>12

\* The parts of a step, and what has been read.
LEMMA RangesStepIs ==
  ASSUME NEW q \in Texts, NEW f
  PROVE  \E set \in SUBSET Chars :
           RangesStep(f, q) \in
             {[ok |-> FALSE]}
             \cup (IF Esc(q).n # 0 /\ AfterRange(q) # << >> /\ AfterRange(q)[1] = "]"
                   THEN {[ok |-> TRUE, set |-> set, rest |-> Tail(AfterRange(q))]} ELSE {})
             \cup (IF Esc(q).n # 0 /\ AfterRange(q) # << >> /\ AfterRange(q)[1] # "]"
                   THEN {IF f[AfterRange(q)].ok THEN [f[AfterRange(q)] EXCEPT !.set = @ \cup set]
                         ELSE f[AfterRange(q)]} ELSE {})
<1>. DEFINE lo   == Esc(q)
            dash == Len(q) > lo.n /\ q[lo.n + 1] = "-"
            hi   == IF dash THEN Esc(Drop(q, lo.n + 1)) ELSE lo
            set  == Upto(lo.c, hi.c)
            rest == AfterRange(q)
            more == f[rest]
<1>1. set \in SUBSET Chars
  BY DEF Upto
<1>2. RangesStep(f, q) = IF lo.n = 0 \/ hi.n = 0 \/ rest = << >> THEN [ok |-> FALSE]
                         ELSE IF rest[1] = "]" THEN [ok |-> TRUE, set |-> set, rest |-> Tail(rest)]
                         ELSE IF more.ok THEN [more EXCEPT !.set = @ \cup set] ELSE more
  BY DEF RangesStep, AfterRange
<1>. HIDE DEF dash, hi, set
<1>. WITNESS set \in SUBSET Chars
<1>3. lo = Esc(q) /\ rest = AfterRange(q) /\ more = f[AfterRange(q)]
  OBVIOUS
<1>. HIDE DEF lo, rest, more
<1>. QED  BY <1>2, <1>3

LEMMA ReadFound ==
  ASSUME NEW r \in ReadRanges, r.ok
  PROVE  r = [ok |-> TRUE, set |-> r.set, rest |-> r.rest] /\ r.set \in SUBSET Chars /\ r.rest \in Texts
<1>0. r # [ok |-> FALSE]
  OBVIOUS
<1>1. r \in [ok : {TRUE}, set : SUBSET Chars, rest : Texts]
  BY <1>0 DEF ReadRanges
<1>. QED  BY <1>1

\* What is left after a class is shorter than the class.
LEMMA RangesShorten ==
  ASSUME NEW q \in Texts, Ranges[q].ok
  PROVE  /\ Ranges[q].rest \in Texts /\ Length[Ranges[q].rest] < Length[q]
         /\ Ranges[q].set \in SUBSET Chars
<1>. DEFINE T == {p \in Texts : Ranges[p].ok => Length[Ranges[p].rest] < Length[p]}
<1>1. ASSUME NEW p \in Texts, \A r \in Texts : Length[r] < Length[p] => r \in T PROVE p \in T
  <2>. SUFFICES ASSUME Ranges[p].ok PROVE Length[Ranges[p].rest] < Length[p]
    OBVIOUS
  <2>. DEFINE rest == AfterRange(p)
              more == Ranges[rest]
  <2>1. Ranges[p] = RangesStep(Ranges, p)
    BY RangesIs
  <2>0. PICK set \in SUBSET Chars :
          Ranges[p] \in
             {[ok |-> FALSE]}
             \cup (IF Esc(p).n # 0 /\ rest # << >> /\ rest[1] = "]"
                   THEN {[ok |-> TRUE, set |-> set, rest |-> Tail(rest)]} ELSE {})
             \cup (IF Esc(p).n # 0 /\ rest # << >> /\ rest[1] # "]"
                   THEN {IF more.ok THEN [more EXCEPT !.set = @ \cup set] ELSE more} ELSE {})
    BY <2>1, RangesStepIs
  <2>. HIDE DEF rest, more
  <2>2. Esc(p).n # 0 /\ rest # << >>
    BY <2>0
  <2>. USE DEF rest, more
  <2>3. rest \in Texts /\ Len(rest) \in Nat /\ Len(p) \in Nat /\ Len(rest) < Len(p)
    BY <2>2, AfterRangeType
  <2>4. CASE rest[1] = "]"
    <3>1. Ranges[p].rest = Tail(rest)
      BY <2>0, <2>2, <2>4
    <3>2. Tail(rest) \in Texts /\ Len(Tail(rest)) = Len(rest) - 1
      BY <2>2, <2>3, TailIsDrop DEF Texts
    <3>3. Len(rest) - 1 < Len(p)
      BY <2>3
    <3>. QED  BY <3>1, <3>2, <3>3, LengthType
  <2>5. CASE rest[1] # "]"
    <3>1. more.ok /\ Ranges[p].rest = more.rest
      <4>1. more \in ReadRanges
        BY <2>3, RangesIs
      <4>2. Ranges[p] = IF more.ok THEN [more EXCEPT !.set = @ \cup set] ELSE more
        <5>1. Ranges[p] # [ok |-> FALSE]
          OBVIOUS
        <5>. HIDE DEF rest, more
        <5>. QED  BY <2>0, <2>5, <5>1
      <4>3. more.ok
        <5>. HIDE DEF more
        <5>. QED  BY <4>2
      <4>4. more = [ok |-> TRUE, set |-> more.set, rest |-> more.rest]
        BY <4>1, <4>3, ReadFound
      <4>. HIDE DEF more
      <4>. QED  BY <4>2, <4>3, <4>4
    <3>2. Length[rest] < Length[p]
      BY <2>3, LengthType
    <3>3. Length[more.rest] < Length[rest]
      BY <1>1, <2>3, <3>1, <3>2
    <3>4. more.rest \in Texts
      <4>1. more \in ReadRanges
        BY <2>3, RangesIs
      <4>. QED  BY <3>1, <4>1, ReadFound
    <3>5. Length[more.rest] \in Nat /\ Length[rest] \in Nat /\ Length[p] \in Nat
      BY <2>3, <3>4, LengthType DEF Maps
    <3>. QED  BY <3>1, <3>2, <3>3, <3>5
  <2>. QED  BY <2>4, <2>5
<1>2. Texts \subseteq T
  <2>1. Sized(Length, Texts)
    BY LengthType DEF Maps, Sized
  <2>2. Length \in [Texts -> Nat]
    BY LengthType DEF Maps
  <2>. HIDE DEF T
  <2>. QED  BY <1>1, <2>2, SizeInduction
<1>3. Ranges[q] \in ReadRanges
  BY RangesIs
<1>4. Ranges[q].rest \in Texts /\ Ranges[q].set \in SUBSET Chars
  <2>. DEFINE x == Ranges[q]
  <2>1. x \in ReadRanges /\ x.ok
    BY <1>3
  <2>. HIDE DEF x
  <2>2. x.rest \in Texts /\ x.set \in SUBSET Chars
    BY <2>1, ReadFound
  <2>. QED  BY <2>2 DEF x
<1>. QED  BY <1>2, <1>4

Kinds == {Star} \cup [k : {"one"}, text : Texts, chars : SUBSET Symbols] \cup [k : {"bad"}, text : Texts]

AtomsStep(f, t) ==
  IF t = << >> THEN << >>
  ELSE CASE t[1] = "*" -> <<Star>> \o f[Tail(t)]
         [] t[1] = "?" -> <<One(t, Chars)>> \o f[Tail(t)]
         [] t[1] = "\\" -> IF Len(t) = 1 THEN <<Bad(t)>>
                           ELSE <<One(t, {t[2]})>> \o f[Drop(t, 2)]
         [] t[1] = "[" -> LET neg == Len(t) > 1 /\ t[2] = "^"
                              r   == Ranges[Drop(t, IF neg THEN 2 ELSE 1)]
                          IN  IF ~r.ok THEN <<Bad(t)>>
                              ELSE <<One(t, IF neg THEN Chars \ r.set ELSE r.set)>>
                                   \o f[r.rest]
         [] OTHER -> <<One(t, {t[1]})>> \o f[Tail(t)]

\* The class in a pattern that begins with one.
ClassIn(t) == Ranges[Drop(t, IF Len(t) > 1 /\ t[2] = "^" THEN 2 ELSE 1)]

\* Dropping shortens.
LEMMA DropShortens ==
  ASSUME NEW t \in Texts, NEW n \in Nat \ {0}, n <= Len(t)
  PROVE  Drop(t, n) \in Texts /\ Length[Drop(t, n)] < Length[t]
<1>1. n \in Nat /\ Len(t) \in Nat /\ Len(t) - n < Len(t)
  BY LenProperties DEF Texts
<1>2. Drop(t, n) \in Texts /\ Len(Drop(t, n)) = Len(t) - n
  BY <1>1, DropType DEF Texts
<1>3. Length[Drop(t, n)] = Len(Drop(t, n)) /\ Length[t] = Len(t)
  BY <1>2, LengthType
<1>. QED  BY <1>1, <1>2, <1>3

LEMMA TailShortens ==
  ASSUME NEW t \in Texts, t # << >>
  PROVE  Tail(t) \in Texts /\ Length[Tail(t)] < Length[t] /\ Len(t) \in Nat /\ Len(t) >= 1
<1>1. Tail(t) \in Texts /\ Len(Tail(t)) = Len(t) - 1 /\ Len(t) \in Nat \ {0}
  BY TailIsDrop DEF Texts
<1>2. Length[Tail(t)] = Len(Tail(t)) /\ Length[t] = Len(t)
  BY <1>1, LengthType
<1>. QED  BY <1>1, <1>2

LEMMA ClassInType ==
  ASSUME NEW t \in Texts, t # << >>, ClassIn(t).ok
  PROVE  /\ ClassIn(t).rest \in Texts /\ Length[ClassIn(t).rest] < Length[t]
         /\ ClassIn(t).set \in SUBSET Chars
<1>. DEFINE n == IF Len(t) > 1 /\ t[2] = "^" THEN 2 ELSE 1
            d == Drop(t, n)
<1>1. n \in Nat \ {0} /\ n <= Len(t)
  <2>1. Len(t) \in Nat /\ Len(t) >= 1
    BY TailShortens
  <2>. QED  BY <2>1
<1>2. ClassIn(t) = Ranges[d]
  BY DEF ClassIn
<1>. HIDE DEF n
<1>3. d \in Texts /\ Length[d] < Length[t]
  BY <1>1, DropShortens
<1>. HIDE DEF d
<1>4. Ranges[d].rest \in Texts /\ Length[Ranges[d].rest] < Length[d] /\ Ranges[d].set \in SUBSET Chars
  BY <1>2, <1>3, RangesShorten
<1>5. Length[Ranges[d].rest] \in Nat /\ Length[d] \in Nat /\ Length[t] \in Nat
  BY <1>3, <1>4, LengthType DEF Maps
<1>. QED  BY <1>2, <1>3, <1>4, <1>5

LEMMA CharsAreSymbols == Chars \subseteq Symbols
BY DEF Symbols

LEMMA KindTypes ==
  ASSUME NEW t \in Texts
  PROVE  /\ Star \in Kinds /\ Bad(t) \in Kinds
         /\ \A set \in SUBSET Symbols : One(t, set) \in Kinds
BY DEF Kinds, Star, Bad, One

\* One atom before others.
LEMMA AtomBefore ==
  ASSUME NEW a \in Kinds, NEW s \in Seq(Kinds)
  PROVE  <<a>> \o s \in Seq(Kinds) /\ <<a>> \in Seq(Kinds)
<1>1. <<a>> \in Seq(Kinds)
  OBVIOUS
<1>. QED  BY <1>1, ConcatProperties

LEMMA AtomsStepType ==
  ASSUME NEW t \in Texts, NEW f \in [Texts -> Seq(Kinds)]
  PROVE  AtomsStep(f, t) \in Seq(Kinds)
<1>1. CASE t = << >>
  BY <1>1 DEF AtomsStep
<1>2. CASE t # << >>
  <2>1. /\ f[Tail(t)] \in Seq(Kinds) /\ Len(t) \in Nat /\ Len(t) >= 1
        /\ \A i \in 1..Len(t) : t[i] \in Symbols
    BY <1>2, TailShortens, ElementOfSeq DEF Texts
  <2>2. One(t, Chars) \in Kinds /\ Star \in Kinds /\ Bad(t) \in Kinds
    BY KindTypes, CharsAreSymbols
  <2>3. One(t, {t[1]}) \in Kinds
    <3>0. 1 \in 1..Len(t)
      <4>. DEFINE l == Len(t)
      <4>1. l \in Nat /\ l >= 1
        BY <2>1
      <4>. HIDE DEF l
      <4>2. 1 \in 1..l
        BY <4>1
      <4>. QED  BY <4>2 DEF l
    <3>1. {t[1]} \in SUBSET Symbols
      BY <2>1, <3>0
    <3>. QED  BY <3>1, KindTypes
  <2>4. Len(t) # 1 => One(t, {t[2]}) \in Kinds /\ f[Drop(t, 2)] \in Seq(Kinds)
    <3>. SUFFICES ASSUME Len(t) # 1 PROVE One(t, {t[2]}) \in Kinds /\ f[Drop(t, 2)] \in Seq(Kinds)
      OBVIOUS
    <3>1. 2 <= Len(t) /\ 2 \in 1..Len(t)
      <4>. DEFINE l == Len(t)
      <4>1. l \in Nat /\ l >= 1 /\ l # 1
        BY <2>1
      <4>. HIDE DEF l
      <4>2. 2 <= l /\ 2 \in 1..l
        BY <4>1
      <4>. QED  BY <4>2 DEF l
    <3>2. {t[2]} \in SUBSET Symbols
      BY <2>1, <3>1
    <3>. DEFINE n == 2
    <3>3. n \in Nat \ {0} /\ n <= Len(t)
      BY <3>1
    <3>. HIDE DEF n
    <3>4. Drop(t, n) \in Texts
      BY <3>3, DropShortens
    <3>. QED  BY <3>2, <3>4, KindTypes DEF n
  <2>5. ASSUME ClassIn(t).ok
        PROVE  /\ f[ClassIn(t).rest] \in Seq(Kinds)
               /\ One(t, ClassIn(t).set) \in Kinds /\ One(t, Chars \ ClassIn(t).set) \in Kinds
    BY <1>2, <2>5, ClassInType, KindTypes, CharsAreSymbols
  <2>6. CASE t[1] = "*"
    <3>1. AtomsStep(f, t) = <<Star>> \o f[Tail(t)]
      BY <1>2, <2>6 DEF AtomsStep
    <3>. QED  BY <2>1, <2>2, <3>1, AtomBefore
  <2>7. CASE t[1] = "?"
    <3>1. AtomsStep(f, t) = <<One(t, Chars)>> \o f[Tail(t)]
      BY <1>2, <2>7 DEF AtomsStep
    <3>. QED  BY <2>1, <2>2, <3>1, AtomBefore
  <2>8. CASE t[1] = "\\"
    <3>1. AtomsStep(f, t) = IF Len(t) = 1 THEN <<Bad(t)>> ELSE <<One(t, {t[2]})>> \o f[Drop(t, 2)]
      BY <1>2, <2>8 DEF AtomsStep
    <3>. QED  BY <2>1, <2>2, <2>4, <3>1, AtomBefore
  <2>9. CASE t[1] = "["
    <3>1. AtomsStep(f, t) = IF ~ClassIn(t).ok THEN <<Bad(t)>>
                            ELSE <<One(t, IF Len(t) > 1 /\ t[2] = "^" THEN Chars \ ClassIn(t).set
                                          ELSE ClassIn(t).set)>> \o f[ClassIn(t).rest]
      BY <1>2, <2>9 DEF AtomsStep, ClassIn
    <3>. QED  BY <2>1, <2>2, <2>5, <3>1, AtomBefore
  <2>10. CASE t[1] \notin {"*", "?", "\\", "["}
    <3>1. AtomsStep(f, t) = <<One(t, {t[1]})>> \o f[Tail(t)]
      BY <1>2, <2>10 DEF AtomsStep
    <3>. QED  BY <2>1, <2>3, <3>1, AtomBefore
  <2>. QED  BY <2>6, <2>7, <2>8, <2>9, <2>10
<1>. QED  BY <1>1, <1>2

LEMMA AtomsStepLocal ==
  ASSUME NEW t \in Texts, NEW f, NEW g, \A r \in Texts : Length[r] < Length[t] => f[r] = g[r]
  PROVE  AtomsStep(f, t) = AtomsStep(g, t)
<1>1. CASE t = << >>
  BY <1>1 DEF AtomsStep
<1>2. CASE t # << >>
  <2>1. f[Tail(t)] = g[Tail(t)] /\ Len(t) \in Nat /\ Len(t) >= 1
    BY <1>2, TailShortens
  <2>2. Len(t) # 1 => f[Drop(t, 2)] = g[Drop(t, 2)]
    <3>. DEFINE n == 2
    <3>1. Len(t) # 1 => n \in Nat \ {0} /\ n <= Len(t)
      <4>. DEFINE l == Len(t)
      <4>1. l \in Nat /\ l >= 1
        BY <2>1
      <4>. HIDE DEF l
      <4>2. l # 1 => n <= l
        BY <4>1
      <4>. QED  BY <4>2 DEF l
    <3>. HIDE DEF n
    <3>2. Len(t) # 1 => f[Drop(t, n)] = g[Drop(t, n)]
      BY <3>1, DropShortens
    <3>. QED  BY <3>2 DEF n
  <2>3. ClassIn(t).ok => f[ClassIn(t).rest] = g[ClassIn(t).rest]
    BY <1>2, ClassInType
  <2>. QED  BY <1>2, <2>1, <2>2, <2>3 DEF AtomsStep, ClassIn
<1>. QED  BY <1>1, <1>2

LEMMA AtomsIs ==
  /\ Atoms \in [Texts -> Seq(Kinds)]
  /\ \A q \in Texts : Atoms[q] = AtomsStep(Atoms, q)
<1>. DEFINE X == Seq(Kinds)
            step == [a \in Texts \X [Texts -> X] |-> AtomsStep(a[2], a[1])]
            Solves(f) == f = [q \in Texts |-> AtomsStep(f, q)]
            x == << >>
<1>1. Stepping(step, Texts, X)
  BY AtomsStepType DEF Stepping
<1>2. ASSUME NEW q \in Texts, NEW g \in [Texts -> X], NEW h \in [Texts -> X],
             \A r \in Texts : Length[r] < Length[q] => g[r] = h[r]
      PROVE  step[<<q, g>>] = step[<<q, h>>]
  BY <1>2, AtomsStepLocal
<1>3. \A q \in Texts, f \in [Texts -> X] : step[<<q, f>>] = AtomsStep(f, q)
  OBVIOUS
<1>4. x \in X /\ Sized(Length, Texts) /\ Length \in [Texts -> Nat]
  BY LengthType DEF Maps, Sized
<1>. HIDE DEF step, x, X
<1>5. PICK f \in [Texts -> X] : \A q \in Texts : f[q] = step[<<q, f>>]
  <2>1. Local(step, Texts, X, Length)
    BY <1>2 DEF Local
  <2>2. \E f : Solution(f, step, Texts, X)
    BY <1>1, <1>4, <2>1, SolutionExists
  <2>. QED  BY <2>2 DEF Solution
<1>6. Solves(f)
  <2>1. f = [q \in Texts |-> f[q]] /\ \A q \in Texts : f[q] = AtomsStep(f, q)
    BY <1>3, <1>5
  <2>. QED  BY <2>1, ZenonT(30)
<1>7. Atoms = CHOOSE g : Solves(g)
  BY DEF Atoms, AtomsStep, Texts
<1>8. Solves(Atoms)
  <2>. HIDE DEF Solves
  <2>. QED  BY <1>6, <1>7
<1>9. \A q \in Texts : Atoms[q] = AtomsStep(Atoms, q)
  BY <1>8, ZenonT(30)
<1>. DEFINE T == {q \in Texts : Atoms[q] = f[q]}
<1>10. ASSUME NEW q \in Texts, \A r \in Texts : Length[r] < Length[q] => r \in T PROVE q \in T
  <2>1. AtomsStep(Atoms, q) = AtomsStep(f, q)
    <3>1. \A r \in Texts : Length[r] < Length[q] => Atoms[r] = f[r]
      BY <1>10
    <3>. QED  BY <3>1, AtomsStepLocal
  <2>. QED  BY <1>3, <1>5, <1>9, <2>1
<1>11. Texts \subseteq T
  <2>. HIDE DEF T
  <2>. QED  BY <1>4, <1>10, SizeInduction
<1>12. Atoms = f
  <2>1. Atoms = [q \in Texts |-> Atoms[q]]
    BY <1>8, ZenonT(30)
  <2>2. \A q \in Texts : Atoms[q] = f[q]
    BY <1>11
  <2>. QED  BY <1>5, <2>1, <2>2
<1>. QED  BY <1>5, <1>9, <1>12 DEF X

-----------------------------------------------------------------------------
(* The translation of brackets.                                            *)

Ends == {"ok", "error", "panic"}
Translations == [end : Ends, text : Texts, rest : Texts]

LEMMA BeforeType ==
  ASSUME NEW t \in Texts, NEW x \in Translations
  PROVE  /\ Before(t, x) = [end |-> x.end, text |-> t \o x.text, rest |-> x.rest]
         /\ Before(t, x) \in Translations
<1>1. x.end \in Ends /\ x.text \in Texts /\ x.rest \in Texts
      /\ x = [end |-> x.end, text |-> x.text, rest |-> x.rest]
  BY DEF Translations
<1>. DEFINE u == t \o x.text
<1>2. u \in Texts
  BY <1>1, ConcatProperties DEF Texts
<1>3. Before(t, x) = [end |-> x.end, text |-> u, rest |-> x.rest]
  <2>1. Before(t, x) = [x EXCEPT !.text = t \o x.text]
    BY DEF Before
  <2>. HIDE DEF u
  <2>2. \A y : [x EXCEPT !.text = y] = [end |-> x.end, text |-> y, rest |-> x.rest]
    BY DEF Translations
  <2>. QED  BY <2>1, <2>2 DEF u
<1>. HIDE DEF u
<1>4. Before(t, x) \in Translations
  BY <1>1, <1>2, <1>3 DEF Translations
<1>. QED  BY <1>3, <1>4 DEF u

\* Before is associative.
LEMMA BeforeBefore ==
  ASSUME NEW s \in Texts, NEW t \in Texts, NEW x \in Translations
  PROVE  Before(s, Before(t, x)) = Before(s \o t, x)
<1>1. x.end \in Ends /\ x.text \in Texts /\ x.rest \in Texts
  BY DEF Translations
<1>2. s \o t \in Texts
  BY ConcatProperties DEF Texts
<1>. DEFINE y == Before(t, x)
            w == s \o t
<1>3. y \in Translations /\ y = [end |-> x.end, text |-> t \o x.text, rest |-> x.rest]
  BY BeforeType
<1>4. Before(w, x) = [end |-> x.end, text |-> w \o x.text, rest |-> x.rest]
  <2>. HIDE DEF w
  <2>. QED  BY <1>2, BeforeType DEF w
<1>5. Before(s, y) = [end |-> y.end, text |-> s \o y.text, rest |-> y.rest]
  <2>. HIDE DEF y
  <2>. QED  BY <1>3, BeforeType
<1>6. s \o (t \o x.text) = (s \o t) \o x.text
  <2>. DEFINE z == x.text
  <2>1. s \in Seq(Symbols) /\ t \in Seq(Symbols) /\ z \in Seq(Symbols)
    BY <1>1 DEF Texts
  <2>. HIDE DEF z
  <2>2. (s \o t) \o z = s \o (t \o z)
    <3>1. Associates(s, t, z)
      BY <2>1, ConcatAssociates
    <3>. QED  BY <3>1 DEF Associates
  <2>. QED  BY <2>2 DEF z
<1>7. y.end = x.end /\ y.text = t \o x.text /\ y.rest = x.rest
  BY <1>3
<1>. QED  BY <1>4, <1>5, <1>6, <1>7

LEMMA BasicTexts ==
  /\ << >> \in Texts
  /\ \A a \in Symbols : <<a>> \in Texts
  /\ \A a, b \in Symbols : <<a, b>> \in Texts
BY EmptySeq DEF Texts

LEMMA SymbolsHas ==
  /\ {"*", "?", "\\", "[", "]", "^", "!", ":", "{", "}", ",", "/", ".", "-"} \subseteq Symbols
  /\ DOMAIN posixClasses \subseteq Symbols
BY DEF Symbols

LEMMA ClassNames == DOMAIN posixClasses = {"alpha", "digit", "punct"}
BY DEF posixClasses

LEMMA ClassTexts == \A n \in DOMAIN posixClasses : posixClasses[n] \in Texts
<1>. DEFINE S == Symbols
<1>1. \A n \in DOMAIN posixClasses : ToSet(posixClasses[n]) \subseteq S
  BY DEF Symbols
<1>2. {"-", "\\", "!", "*", ".", ":", "[", "]", "^"} \subseteq S
  BY SymbolsHas
<1>3. "a" \in S /\ "c" \in S
  <2>1. "a" \in ToSet(posixClasses["alpha"]) /\ "c" \in ToSet(posixClasses["alpha"])
    BY DEF posixClasses, ToSet
  <2>. QED  BY <1>1, <2>1, ClassNames
<1>4. "1" \in S /\ "2" \in S
  <2>1. "1" \in ToSet(posixClasses["digit"]) /\ "2" \in ToSet(posixClasses["digit"])
    BY DEF posixClasses, ToSet
  <2>. QED  BY <1>1, <2>1, ClassNames
<1>5. /\ posixClasses["alpha"] = <<"a", "-", "c">>
      /\ posixClasses["digit"] = <<"1", "-", "2">>
      /\ posixClasses["punct"] = <<"\\", "!", "\\", "*", "\\", "-", "\\", ".", "\\", ":",
                                   "\\", "[", "\\", "]", "\\", "^">>
  BY DEF posixClasses
<1>. HIDE DEF S
<1>6. <<"a", "-", "c">> \in Seq(S) /\ <<"1", "-", "2">> \in Seq(S)
  BY <1>2, <1>3, <1>4
<1>7. <<"\\", "!", "\\", "*", "\\", "-", "\\", ".", "\\", ":",
        "\\", "[", "\\", "]", "\\", "^">> \in Seq(S)
  BY <1>2
<1>. QED  BY <1>5, <1>6, <1>7, ClassNames DEF S, Texts

\* The first characters of a text.
LEMMA Leading ==
  ASSUME NEW q \in Texts, q # << >>
  PROVE  /\ Len(q) \in Nat /\ Len(q) >= 1 /\ q[1] \in Symbols
         /\ Len(q) > 1 => q[2] \in Symbols
         /\ Len(q) > 2 => q[3] \in Symbols
<1>1. Len(q) \in Nat /\ Len(q) >= 1
  BY TailShortens
<1>2. \A i \in 1..Len(q) : q[i] \in Symbols
  BY ElementOfSeq DEF Texts
<1>. DEFINE l == Len(q)
<1>3. l \in Nat /\ l >= 1
  BY <1>1
<1>. HIDE DEF l
<1>4. 1 \in 1..l /\ (l > 1 => 2 \in 1..l) /\ (l > 2 => 3 \in 1..l)
  BY <1>3
<1>. QED  BY <1>1, <1>2, <1>4 DEF l

BracketStep(f, q) ==
  IF q = << >> THEN Failed("error")
  ELSE
    CASE q[1] = "]"    -> [end |-> "ok", text |-> <<"]">>, rest |-> Tail(q)]
      [] Panics(q)     -> Failed("panic")
      [] PosixClass(q) -> Before(posixClasses[q[3]], f[Drop(q, 5)])
      [] q[1] = "\\"   -> IF Len(q) > 1 THEN Before(<<"\\", q[2]>>, f[Drop(q, 2)])
                          ELSE Before(<<"\\", "\\">>, f[Tail(q)])
      [] OTHER         -> Before(<<q[1]>>, f[Tail(q)])

\* The cases of the step exclude each other.
LEMMA BracketCases ==
  ASSUME NEW q, NEW f, q # << >>
  PROVE  /\ q[1] = "]" => BracketStep(f, q) = [end |-> "ok", text |-> <<"]">>, rest |-> Tail(q)]
         /\ Panics(q) => BracketStep(f, q) = Failed("panic")
         /\ PosixClass(q) => BracketStep(f, q) = Before(posixClasses[q[3]], f[Drop(q, 5)])
         /\ q[1] = "\\" => BracketStep(f, q) = IF Len(q) > 1 THEN Before(<<"\\", q[2]>>, f[Drop(q, 2)])
                                             ELSE Before(<<"\\", "\\">>, f[Tail(q)])
         /\ q[1] \notin {"]", "\\"} /\ ~Panics(q) /\ ~PosixClass(q) =>
              BracketStep(f, q) = Before(<<q[1]>>, f[Tail(q)])
         /\ Panics(q) => q[1] = "["
         /\ PosixClass(q) => q[1] = "[" /\ ~Panics(q) /\ Len(q) > 4 /\ q[3] \in DOMAIN posixClasses
<1>1. Panics(q) => q[1] = "[" /\ q[3] = "]"
  BY DEF Panics
<1>2. PosixClass(q) => q[1] = "[" /\ q[3] \in DOMAIN posixClasses /\ Len(q) > 4
  BY DEF PosixClass
<1>3. PosixClass(q) => ~Panics(q)
  BY <1>1, <1>2, ClassNames
<1>. QED  BY <1>1, <1>2, <1>3 DEF BracketStep

LEMMA FailedType == ASSUME NEW e \in Ends PROVE Failed(e) \in Translations
BY BasicTexts DEF Failed, Translations

LEMMA BracketStepType ==
  ASSUME NEW q \in Texts, NEW f \in [Texts -> Translations]
  PROVE  BracketStep(f, q) \in Translations
<1>1. CASE q = << >>
  <2>1. BracketStep(f, q) = Failed("error")
    BY <1>1 DEF BracketStep
  <2>. QED  BY <2>1, FailedType DEF Ends
<1>2. CASE q # << >>
  <2>. DEFINE step == BracketStep(f, q)
  <2>0. Tail(q) \in Texts /\ f[Tail(q)] \in Translations /\ q[1] \in Symbols
    BY <1>2, TailShortens, Leading
  <2>1. CASE q[1] = "]"
    <3>1. step = [end |-> "ok", text |-> <<"]">>, rest |-> Tail(q)]
      BY <1>2, <2>1, BracketCases
    <3>2. <<"]">> \in Texts
      BY SymbolsHas, BasicTexts
    <3>. QED  BY <2>0, <3>1, <3>2 DEF Translations, Ends
  <2>2. CASE Panics(q)
    BY <1>2, <2>2, BracketCases, FailedType DEF Ends
  <2>3. CASE PosixClass(q)
    <3>. DEFINE n == 5
                l == Len(q)
    <3>1. step = Before(posixClasses[q[3]], f[Drop(q, n)]) /\ q[3] \in DOMAIN posixClasses /\ l > 4
      BY <1>2, <2>3, BracketCases
    <3>2. l \in Nat
      BY <1>2, Leading
    <3>. HIDE DEF l
    <3>3. n \in Nat \ {0} /\ n <= l
      BY <3>1, <3>2
    <3>. HIDE DEF n
    <3>4. Drop(q, n) \in Texts
      BY <3>3, DropShortens DEF l
    <3>5. f[Drop(q, n)] \in Translations /\ posixClasses[q[3]] \in Texts
      BY <3>1, <3>4, ClassTexts
    <3>. QED  BY <3>1, <3>5, BeforeType
  <2>4. CASE q[1] = "\\"
    <3>1. CASE Len(q) > 1
      <4>. DEFINE n == 2
                  l == Len(q)
      <4>1. step = Before(<<"\\", q[2]>>, f[Drop(q, n)])
        BY <1>2, <2>4, <3>1, BracketCases
      <4>2. l \in Nat /\ l > 1 /\ q[2] \in Symbols
        BY <1>2, <3>1, Leading
      <4>. HIDE DEF l
      <4>3. n \in Nat \ {0} /\ n <= l
        BY <4>2
      <4>. HIDE DEF n
      <4>4. Drop(q, n) \in Texts
        BY <4>3, DropShortens DEF l
      <4>5. <<"\\", q[2]>> \in Texts
        BY <4>2, SymbolsHas, BasicTexts
      <4>. QED  BY <4>1, <4>4, <4>5, BeforeType
    <3>2. CASE ~(Len(q) > 1)
      <4>1. step = Before(<<"\\", "\\">>, f[Tail(q)])
        BY <1>2, <2>4, <3>2, BracketCases
      <4>2. <<"\\", "\\">> \in Texts
        BY SymbolsHas, BasicTexts
      <4>. QED  BY <2>0, <4>1, <4>2, BeforeType
    <3>. QED  BY <3>1, <3>2
  <2>5. CASE q[1] \notin {"]", "\\"} /\ ~Panics(q) /\ ~PosixClass(q)
    <3>1. step = Before(<<q[1]>>, f[Tail(q)]) /\ <<q[1]>> \in Texts
      BY <1>2, <2>0, <2>5, BracketCases, BasicTexts
    <3>. QED  BY <2>0, <3>1, BeforeType
  <2>. QED  BY <2>1, <2>2, <2>3, <2>4, <2>5
<1>. QED  BY <1>1, <1>2

LEMMA BracketStepLocal ==
  ASSUME NEW q \in Texts, NEW f, NEW g, \A r \in Texts : Length[r] < Length[q] => f[r] = g[r]
  PROVE  BracketStep(f, q) = BracketStep(g, q)
<1>1. CASE q = << >>
  BY <1>1 DEF BracketStep
<1>2. CASE q # << >>
  <2>1. f[Tail(q)] = g[Tail(q)] /\ Len(q) \in Nat
    BY <1>2, TailShortens
  <2>2. ASSUME NEW n \in Nat \ {0}, Len(q) > n - 1 PROVE f[Drop(q, n)] = g[Drop(q, n)]
    <3>1. n <= Len(q)
      <4>. DEFINE l == Len(q)
      <4>1. l \in Nat /\ l > n - 1
        BY <2>1, <2>2
      <4>. HIDE DEF l
      <4>2. n <= l
        BY <4>1
      <4>. QED  BY <4>2 DEF l
    <3>. QED  BY <3>1, DropShortens
  <2>3. Len(q) > 1 => f[Drop(q, 2)] = g[Drop(q, 2)]
    BY <2>2
  <2>4. Len(q) > 4 => f[Drop(q, 5)] = g[Drop(q, 5)]
    BY <2>2
  <2>. QED  BY <1>2, <2>1, <2>3, <2>4 DEF BracketStep, PosixClass
<1>. QED  BY <1>1, <1>2

LEMMA BracketBodyIs ==
  /\ BracketBody \in [Texts -> Translations]
  /\ \A q \in Texts : BracketBody[q] = BracketStep(BracketBody, q)
<1>. DEFINE X == Translations
            step == [a \in Texts \X [Texts -> X] |-> BracketStep(a[2], a[1])]
            Solves(f) == f = [q \in Texts |-> BracketStep(f, q)]
            x == Failed("ok")
<1>1. Stepping(step, Texts, X)
  BY BracketStepType DEF Stepping
<1>2. ASSUME NEW q \in Texts, NEW g \in [Texts -> X], NEW h \in [Texts -> X],
             \A r \in Texts : Length[r] < Length[q] => g[r] = h[r]
      PROVE  step[<<q, g>>] = step[<<q, h>>]
  BY <1>2, BracketStepLocal
<1>3. \A q \in Texts, f \in [Texts -> X] : step[<<q, f>>] = BracketStep(f, q)
  OBVIOUS
<1>4. x \in X /\ Sized(Length, Texts) /\ Length \in [Texts -> Nat]
  BY LengthType, FailedType DEF Maps, Sized, Ends
<1>. HIDE DEF step, x, X
<1>5. PICK f \in [Texts -> X] : \A q \in Texts : f[q] = step[<<q, f>>]
  <2>1. Local(step, Texts, X, Length)
    BY <1>2 DEF Local
  <2>2. \E f : Solution(f, step, Texts, X)
    BY <1>1, <1>4, <2>1, SolutionExists
  <2>. QED  BY <2>2 DEF Solution
<1>6. Solves(f)
  <2>1. f = [q \in Texts |-> f[q]] /\ \A q \in Texts : f[q] = BracketStep(f, q)
    BY <1>3, <1>5
  <2>. QED  BY <2>1, ZenonT(30)
<1>7. BracketBody = CHOOSE g : Solves(g)
  BY DEF BracketBody, BracketStep, Texts
<1>8. Solves(BracketBody)
  <2>. HIDE DEF Solves
  <2>. QED  BY <1>6, <1>7
<1>9. \A q \in Texts : BracketBody[q] = BracketStep(BracketBody, q)
  BY <1>8, ZenonT(30)
<1>. DEFINE T == {q \in Texts : BracketBody[q] = f[q]}
<1>10. ASSUME NEW q \in Texts, \A r \in Texts : Length[r] < Length[q] => r \in T PROVE q \in T
  <2>1. BracketStep(BracketBody, q) = BracketStep(f, q)
    <3>1. \A r \in Texts : Length[r] < Length[q] => BracketBody[r] = f[r]
      BY <1>10
    <3>. QED  BY <3>1, BracketStepLocal
  <2>. QED  BY <1>3, <1>5, <1>9, <2>1
<1>11. Texts \subseteq T
  <2>. HIDE DEF T
  <2>. QED  BY <1>4, <1>10, SizeInduction
<1>12. BracketBody = f
  <2>1. BracketBody = [q \in Texts |-> BracketBody[q]]
    BY <1>8, ZenonT(30)
  <2>2. \A q \in Texts : BracketBody[q] = f[q]
    BY <1>11
  <2>. QED  BY <1>5, <2>1, <2>2
<1>. QED  BY <1>5, <1>9, <1>12 DEF X

\* What is left after a bracket is shorter.
LEMMA BracketShortens ==
  ASSUME NEW q \in Texts, BracketBody[q].end = "ok"
  PROVE  Length[BracketBody[q].rest] < Length[q]
<1>. DEFINE T == {p \in Texts : BracketBody[p].end = "ok" => Length[BracketBody[p].rest] < Length[p]}
<1>0. /\ Length \in [Texts -> Nat] /\ BracketBody \in [Texts -> Translations]
      /\ \A p \in Texts : BracketBody[p] = BracketStep(BracketBody, p)
  BY LengthType, BracketBodyIs DEF Maps
<1>1. ASSUME NEW p \in Texts, \A r \in Texts : Length[r] < Length[p] => r \in T PROVE p \in T
  <2>. SUFFICES ASSUME BracketBody[p].end = "ok" PROVE Length[BracketBody[p].rest] < Length[p]
    OBVIOUS
  <2>1. p # << >>
    <3>. SUFFICES ASSUME p = << >> PROVE FALSE
      OBVIOUS
    <3>1. BracketBody[p] = Failed("error")
      BY <1>0 DEF BracketStep
    <3>. QED  BY <3>1 DEF Failed
  <2>. DEFINE b == BracketBody[p]
  <2>2. Tail(p) \in Texts /\ Length[Tail(p)] < Length[p] /\ Len(p) \in Nat /\ Len(p) >= 1
    BY <2>1, TailShortens
  \* What is left of a shorter text is shorter still.
  <2>3. ASSUME NEW t \in Texts, NEW r \in Texts, Length[r] < Length[p],
               b = Before(t, BracketBody[r])
        PROVE  Length[b.rest] < Length[p]
    <3>. DEFINE c == BracketBody[r]
    <3>1. c \in Translations
      BY <1>0
    <3>2. b.end = c.end /\ b.rest = c.rest
      <4>1. b = [end |-> c.end, text |-> t \o c.text, rest |-> c.rest]
        BY <2>3, <3>1, BeforeType
      <4>. HIDE DEF b, c
      <4>. QED  BY <4>1
    <3>3. Length[c.rest] < Length[r]
      BY <1>1, <2>3, <3>2
    <3>4. Length[c.rest] \in Nat /\ Length[r] \in Nat /\ Length[p] \in Nat
      BY <1>0, <3>1 DEF Translations
    <3>. HIDE DEF b, c
    <3>. QED  BY <2>3, <3>2, <3>3, <3>4
  <2>4. CASE p[1] = "]"
    <3>1. b = [end |-> "ok", text |-> <<"]">>, rest |-> Tail(p)]
      BY <1>0, <2>1, <2>4, BracketCases
    <3>. HIDE DEF b
    <3>2. b.rest = Tail(p)
      BY <3>1
    <3>. QED  BY <2>2, <3>2 DEF b
  <2>5. CASE Panics(p)
    <3>1. b = Failed("panic")
      BY <1>0, <2>1, <2>5, BracketCases
    <3>. QED  BY <3>1 DEF Failed
  <2>6. CASE PosixClass(p)
    <3>. DEFINE n == 5
                l == Len(p)
    <3>1. b = Before(posixClasses[p[3]], BracketBody[Drop(p, n)]) /\ p[3] \in DOMAIN posixClasses /\ l > 4
      BY <1>0, <2>1, <2>6, BracketCases
    <3>2. l \in Nat
      BY <2>2
    <3>. HIDE DEF l
    <3>3. n \in Nat \ {0} /\ n <= l
      BY <3>1, <3>2
    <3>. HIDE DEF n
    <3>4. Drop(p, n) \in Texts /\ Length[Drop(p, n)] < Length[p]
      BY <3>3, DropShortens DEF l
    <3>5. posixClasses[p[3]] \in Texts
      BY <3>1, ClassTexts
    <3>. HIDE DEF b
    <3>. QED  BY <2>3, <3>1, <3>4, <3>5 DEF b
  <2>7. CASE p[1] = "\\"
    <3>1. CASE Len(p) > 1
      <4>. DEFINE n == 2
                  l == Len(p)
                  t == <<"\\", p[2]>>
      <4>1. b = Before(t, BracketBody[Drop(p, n)])
        BY <1>0, <2>1, <2>7, <3>1, BracketCases
      <4>2. l \in Nat /\ l > 1 /\ p[2] \in Symbols
        BY <2>1, <3>1, Leading
      <4>. HIDE DEF l
      <4>3. n \in Nat \ {0} /\ n <= l
        BY <4>2
      <4>. HIDE DEF n
      <4>4. Drop(p, n) \in Texts /\ Length[Drop(p, n)] < Length[p]
        BY <4>3, DropShortens DEF l
      <4>5. t \in Texts
        BY <4>2, SymbolsHas, BasicTexts
      <4>. HIDE DEF b, t
      <4>. QED  BY <2>3, <4>1, <4>4, <4>5 DEF b
    <3>2. CASE ~(Len(p) > 1)
      <4>. DEFINE t == <<"\\", "\\">>
      <4>1. b = Before(t, BracketBody[Tail(p)])
        BY <1>0, <2>1, <2>7, <3>2, BracketCases
      <4>2. t \in Texts
        BY SymbolsHas, BasicTexts
      <4>. HIDE DEF b, t
      <4>. QED  BY <2>2, <2>3, <4>1, <4>2 DEF b
    <3>. QED  BY <3>1, <3>2
  <2>8. CASE p[1] \notin {"]", "\\"} /\ ~Panics(p) /\ ~PosixClass(p)
    <3>. DEFINE t == <<p[1]>>
    <3>1. b = Before(t, BracketBody[Tail(p)]) /\ t \in Texts
      BY <1>0, <2>1, <2>8, BracketCases, BasicTexts, Leading
    <3>. HIDE DEF b, t
    <3>. QED  BY <2>2, <2>3, <3>1 DEF b
  <2>. QED  BY <2>4, <2>5, <2>6, <2>7, <2>8
<1>2. Texts \subseteq T
  <2>. HIDE DEF T
  <2>. QED  BY <1>0, <1>1, SizeInduction
<1>. QED  BY <1>2

LEMMA TranslateBracketType ==
  ASSUME NEW p \in Texts, p # << >>
  PROVE  /\ TranslateBracket(p) \in Translations
         /\ TranslateBracket(p).end = "ok" => Length[TranslateBracket(p).rest] < Length[p]
<1>. DEFINE l    == Len(p)
            neg  == l > 1 /\ p[2] \in {"!", "^"}
            n    == IF neg THEN 2 ELSE 1
            body == Drop(p, n)
            lit  == body # << >> /\ body[1] = "]"
            open == IF neg THEN <<"[", "^">> ELSE <<"[">>
            in   == IF lit THEN Before(<<"\\", "]">>, BracketBody[Tail(body)]) ELSE BracketBody[body]
<1>1. TranslateBracket(p) = Before(open, in)
  BY DEF TranslateBracket
<1>2. n \in Nat \ {0} /\ n <= l
  <2>1. l \in Nat /\ l >= 1
    BY Leading
  <2>. HIDE DEF l
  <2>. QED  BY <2>1
<1>. HIDE DEF n
<1>3. body \in Texts /\ Length[body] < Length[p]
  BY <1>2, DropShortens
<1>4. open \in Texts
  BY SymbolsHas, BasicTexts
<1>. HIDE DEF l, neg, body, open
<1>5. BracketBody \in [Texts -> Translations] /\ Length \in [Texts -> Nat]
  BY BracketBodyIs, LengthType DEF Maps
<1>6. in \in Translations /\ (in.end = "ok" => Length[in.rest] < Length[p])
  <2>1. CASE lit
    <3>. DEFINE r == Tail(body)
                t == <<"\\", "]">>
                c == BracketBody[r]
    <3>1. r \in Texts /\ Length[r] < Length[body] /\ t \in Texts
      BY <1>3, <2>1, TailShortens, SymbolsHas, BasicTexts
    <3>2. in = Before(t, c) /\ c \in Translations
      BY <1>5, <2>1, <3>1
    <3>. HIDE DEF in, t
    <3>3. in = [end |-> c.end, text |-> t \o c.text, rest |-> c.rest] /\ in \in Translations
      BY <3>1, <3>2, BeforeType
    <3>4. c.end = "ok" => Length[c.rest] < Length[r]
      BY <3>1, BracketShortens
    <3>5. Length[c.rest] \in Nat /\ Length[r] \in Nat /\ Length[body] \in Nat /\ Length[p] \in Nat
      BY <1>3, <1>5, <3>1, <3>2 DEF Translations
    <3>6. in.end = c.end /\ in.rest = c.rest
      BY <3>3
    <3>. HIDE DEF c, r
    <3>. QED  BY <1>3, <3>1, <3>3, <3>4, <3>5, <3>6
  <2>2. CASE ~lit
    <3>. DEFINE c == BracketBody[body]
    <3>1. in = c /\ c \in Translations
      BY <1>3, <1>5, <2>2
    <3>2. c.end = "ok" => Length[c.rest] < Length[body]
      BY <1>3, BracketShortens
    <3>3. Length[c.rest] \in Nat /\ Length[body] \in Nat /\ Length[p] \in Nat
      BY <1>3, <1>5, <3>1 DEF Translations
    <3>. HIDE DEF c, in
    <3>. QED  BY <1>3, <3>1, <3>2, <3>3
  <2>. QED  BY <2>1, <2>2
<1>. HIDE DEF in
<1>7. Before(open, in) \in Translations /\ Before(open, in).end = in.end /\ Before(open, in).rest = in.rest
  <2>1. Before(open, in) = [end |-> in.end, text |-> open \o in.text, rest |-> in.rest]
        /\ Before(open, in) \in Translations
    BY <1>4, <1>6, BeforeType
  <2>. QED  BY <2>1
<1>. QED  BY <1>1, <1>6, <1>7

TranslateStep(f, p) ==
  IF p = << >> THEN [end |-> "ok", text |-> << >>, rest |-> << >>]
  ELSE
    CASE p[1] = "\\" -> IF Len(p) = 1 THEN Before(p, f[Tail(p)])
                        ELSE Before(SubSeq(p, 1, 2), f[Drop(p, 2)])
      [] p[1] = "["  -> LET bracket == TranslateBracket(p)
                        IN  IF bracket.end # "ok" THEN bracket
                            ELSE Before(bracket.text, f[bracket.rest])
      [] OTHER       -> Before(<<p[1]>>, f[Tail(p)])

LEMMA TranslateCases ==
  ASSUME NEW p, NEW f, p # << >>
  PROVE  /\ p[1] = "\\" => TranslateStep(f, p) = IF Len(p) = 1 THEN Before(p, f[Tail(p)])
                                               ELSE Before(SubSeq(p, 1, 2), f[Drop(p, 2)])
         /\ p[1] = "[" => TranslateStep(f, p) =
                            IF TranslateBracket(p).end # "ok" THEN TranslateBracket(p)
                            ELSE Before(TranslateBracket(p).text, f[TranslateBracket(p).rest])
         /\ p[1] \notin {"\\", "["} => TranslateStep(f, p) = Before(<<p[1]>>, f[Tail(p)])
BY DEF TranslateStep

\* The first two characters.
LEMMA FirstTwo ==
  ASSUME NEW q \in Texts, Len(q) > 1
  PROVE  SubSeq(q, 1, 2) = <<q[1], q[2]>> /\ SubSeq(q, 1, 2) \in Texts
<1>1. q # << >>
  <2>. SUFFICES ASSUME q = << >> PROVE FALSE
    OBVIOUS
  <2>. QED  OBVIOUS
<1>2. q[1] \in Symbols /\ q[2] \in Symbols /\ Len(q) \in Nat
  BY <1>1, Leading
<1>. DEFINE l == Len(q)
            n == 2
            m == 1
            s == SubSeq(q, m, n)
            t == <<q[1], q[2]>>
<1>3. m \in Int /\ n \in Int /\ \A i \in m..n : q[i] \in Symbols
  BY <1>2
<1>4. t \in Texts /\ Len(t) = 2 /\ t[1] = q[1] /\ t[2] = q[2]
  BY <1>2, BasicTexts
<1>. HIDE DEF m, n, t
<1>5. /\ s \in Seq(Symbols)
      /\ Len(s) = IF m <= n THEN n - m + 1 ELSE 0
      /\ \A i \in 1..(n - m + 1) : s[i] = q[m + i - 1]
  BY <1>3, SubSeqProperties
<1>. HIDE DEF s
<1>6. Len(s) = 2 /\ s[1] = q[1] /\ s[2] = q[2]
  BY <1>5 DEF m, n
<1>7. s = t
  <2>1. \A i \in 1..Len(s) : s[i] = t[i]
    BY <1>4, <1>6
  <2>. QED  BY <1>4, <1>5, <1>6, <2>1, SeqEqual DEF Texts
<1>. QED  BY <1>4, <1>7 DEF s, t, m, n

LEMMA TranslateStepType ==
  ASSUME NEW p \in Texts, NEW f \in [Texts -> Translations]
  PROVE  TranslateStep(f, p) \in Translations
<1>1. CASE p = << >>
  BY <1>1, BasicTexts DEF TranslateStep, Translations, Ends
<1>2. CASE p # << >>
  <2>. DEFINE step == TranslateStep(f, p)
  <2>0. Tail(p) \in Texts /\ f[Tail(p)] \in Translations /\ p[1] \in Symbols /\ Len(p) \in Nat /\ Len(p) >= 1
    BY <1>2, TailShortens, Leading
  <2>1. CASE p[1] = "\\"
    <3>1. CASE Len(p) = 1
      <4>1. step = Before(p, f[Tail(p)])
        BY <1>2, <2>1, <3>1, TranslateCases
      <4>. QED  BY <2>0, <4>1, BeforeType
    <3>2. CASE Len(p) # 1
      <4>. DEFINE n == 2
                  l == Len(p)
                  t == SubSeq(p, 1, 2)
      <4>1. step = Before(t, f[Drop(p, n)])
        BY <1>2, <2>1, <3>2, TranslateCases
      <4>2. l \in Nat /\ l >= 1 /\ l # 1
        BY <2>0, <3>2
      <4>. HIDE DEF l
      <4>3. n \in Nat \ {0} /\ n <= l /\ l > 1
        BY <4>2
      <4>4. t \in Texts
        BY <4>3, FirstTwo DEF l
      <4>. HIDE DEF n, t, step
      <4>5. Drop(p, n) \in Texts
        BY <4>3, DropShortens DEF l
      <4>. QED  BY <4>1, <4>4, <4>5, BeforeType DEF step
    <3>. QED  BY <3>1, <3>2
  <2>2. CASE p[1] = "["
    <3>. DEFINE b == TranslateBracket(p)
    <3>1. b \in Translations
      BY <1>2, TranslateBracketType
    <3>2. step = IF b.end # "ok" THEN b ELSE Before(b.text, f[b.rest])
      BY <1>2, <2>2, TranslateCases
    <3>. HIDE DEF b, step
    <3>3. b.text \in Texts /\ b.rest \in Texts
      BY <3>1 DEF Translations
    <3>4. f[b.rest] \in Translations
      BY <3>3
    <3>5. Before(b.text, f[b.rest]) \in Translations
      BY <3>3, <3>4, BeforeType
    <3>. QED  BY <3>1, <3>2, <3>5 DEF step
  <2>3. CASE p[1] \notin {"\\", "["}
    <3>1. step = Before(<<p[1]>>, f[Tail(p)]) /\ <<p[1]>> \in Texts
      BY <1>2, <2>0, <2>3, TranslateCases, BasicTexts
    <3>. QED  BY <2>0, <3>1, BeforeType
  <2>. QED  BY <2>1, <2>2, <2>3
<1>. QED  BY <1>1, <1>2

LEMMA TranslateStepLocal ==
  ASSUME NEW p \in Texts, NEW f, NEW g, \A r \in Texts : Length[r] < Length[p] => f[r] = g[r]
  PROVE  TranslateStep(f, p) = TranslateStep(g, p)
<1>1. CASE p = << >>
  BY <1>1 DEF TranslateStep
<1>2. CASE p # << >>
  <2>1. f[Tail(p)] = g[Tail(p)] /\ Len(p) \in Nat /\ Len(p) >= 1
    BY <1>2, TailShortens
  <2>2. Len(p) # 1 => f[Drop(p, 2)] = g[Drop(p, 2)]
    <3>. DEFINE n == 2
                l == Len(p)
    <3>1. l \in Nat /\ l >= 1
      BY <2>1
    <3>. HIDE DEF l
    <3>2. l # 1 => n \in Nat \ {0} /\ n <= l
      BY <3>1
    <3>. HIDE DEF n
    <3>3. l # 1 => f[Drop(p, n)] = g[Drop(p, n)]
      BY <3>2, DropShortens DEF l
    <3>. QED  BY <3>3 DEF n, l
  <2>3. TranslateBracket(p).end = "ok" => f[TranslateBracket(p).rest] = g[TranslateBracket(p).rest]
    <3>. DEFINE b == TranslateBracket(p)
    <3>1. b \in Translations /\ (b.end = "ok" => Length[b.rest] < Length[p])
      BY <1>2, TranslateBracketType
    <3>. HIDE DEF b
    <3>2. b.rest \in Texts
      BY <3>1 DEF Translations
    <3>3. b.end = "ok" => f[b.rest] = g[b.rest]
      BY <3>1, <3>2
    <3>. QED  BY <3>3 DEF b
  <2>. QED  BY <1>2, <2>1, <2>2, <2>3 DEF TranslateStep
<1>. QED  BY <1>1, <1>2

LEMMA TranslateIs ==
  /\ Translate \in [Texts -> Translations]
  /\ \A q \in Texts : Translate[q] = TranslateStep(Translate, q)
<1>. DEFINE X == Translations
            step == [a \in Texts \X [Texts -> X] |-> TranslateStep(a[2], a[1])]
            Solves(f) == f = [q \in Texts |-> TranslateStep(f, q)]
            x == Failed("ok")
<1>1. Stepping(step, Texts, X)
  BY TranslateStepType DEF Stepping
<1>2. ASSUME NEW q \in Texts, NEW g \in [Texts -> X], NEW h \in [Texts -> X],
             \A r \in Texts : Length[r] < Length[q] => g[r] = h[r]
      PROVE  step[<<q, g>>] = step[<<q, h>>]
  BY <1>2, TranslateStepLocal
<1>3. \A q \in Texts, f \in [Texts -> X] : step[<<q, f>>] = TranslateStep(f, q)
  OBVIOUS
<1>4. x \in X /\ Sized(Length, Texts) /\ Length \in [Texts -> Nat]
  BY LengthType, FailedType DEF Maps, Sized, Ends
<1>. HIDE DEF step, x, X
<1>5. PICK f \in [Texts -> X] : \A q \in Texts : f[q] = step[<<q, f>>]
  <2>1. Local(step, Texts, X, Length)
    BY <1>2 DEF Local
  <2>2. \E f : Solution(f, step, Texts, X)
    BY <1>1, <1>4, <2>1, SolutionExists
  <2>. QED  BY <2>2 DEF Solution
<1>6. Solves(f)
  <2>1. f = [q \in Texts |-> f[q]] /\ \A q \in Texts : f[q] = TranslateStep(f, q)
    BY <1>3, <1>5
  <2>. QED  BY <2>1, ZenonT(30)
<1>7. Translate = CHOOSE g : Solves(g)
  BY DEF Translate, TranslateStep, Texts
<1>8. Solves(Translate)
  <2>. HIDE DEF Solves
  <2>. QED  BY <1>6, <1>7
<1>9. \A q \in Texts : Translate[q] = TranslateStep(Translate, q)
  BY <1>8, ZenonT(30)
<1>. DEFINE T == {q \in Texts : Translate[q] = f[q]}
<1>10. ASSUME NEW q \in Texts, \A r \in Texts : Length[r] < Length[q] => r \in T PROVE q \in T
  <2>1. TranslateStep(Translate, q) = TranslateStep(f, q)
    <3>1. \A r \in Texts : Length[r] < Length[q] => Translate[r] = f[r]
      BY <1>10
    <3>. QED  BY <3>1, TranslateStepLocal
  <2>. QED  BY <1>3, <1>5, <1>9, <2>1
<1>11. Texts \subseteq T
  <2>. HIDE DEF T
  <2>. QED  BY <1>4, <1>10, SizeInduction
<1>12. Translate = f
  <2>1. Translate = [q \in Texts |-> Translate[q]]
    BY <1>8, ZenonT(30)
  <2>2. \A q \in Texts : Translate[q] = f[q]
    BY <1>11
  <2>. QED  BY <1>5, <2>1, <2>2
<1>. QED  BY <1>5, <1>9, <1>12 DEF X

-----------------------------------------------------------------------------
(* Parts laid over a sequence, one after the other.                        *)

LEMMA PieceIs ==
  ASSUME NEW S, NEW n \in Seq(S), NEW a \in Nat, NEW b \in Nat, a <= b, b <= Len(n)
  PROVE  /\ SubSeq(n, a + 1, b) \in Seq(S) /\ Len(SubSeq(n, a + 1, b)) = b - a
         /\ \A i \in 1..(b - a) : SubSeq(n, a + 1, b)[i] = n[a + i]
<1>. DEFINE m == a + 1
            l == Len(n)
            s == SubSeq(n, m, b)
<1>1. l \in Nat /\ \A i \in 1..l : n[i] \in S
  BY LenProperties, ElementOfSeq
<1>2. m \in Int /\ b \in Int /\ m = a + 1 /\ b <= l
  OBVIOUS
<1>. HIDE DEF m, l
<1>3. \A i \in m..b : n[i] \in S
  BY <1>1, <1>2
<1>4. /\ s \in Seq(S)
      /\ Len(s) = IF m <= b THEN b - m + 1 ELSE 0
      /\ \A i \in 1..(b - m + 1) : s[i] = n[m + i - 1]
  BY <1>2, <1>3, SubSeqProperties
<1>. HIDE DEF s
<1>5. Len(s) = b - a
  BY <1>2, <1>4
<1>6. \A i \in 1..(b - a) : s[i] = n[a + i]
  <2>. TAKE i \in 1..(b - a)
  <2>1. i \in 1..(b - m + 1) /\ m + i - 1 = a + i
    BY <1>2
  <2>. QED  BY <1>4, <2>1
<1>. QED  BY <1>4, <1>5, <1>6 DEF s, m

LEMMA PieceOfDrop ==
  ASSUME NEW S, NEW n \in Seq(S), NEW k \in Nat, NEW a \in Nat, NEW b \in Nat, a <= b, k + b <= Len(n)
  PROVE  SubSeq(Drop(n, k), a + 1, b) = SubSeq(n, k + a + 1, k + b)
<1>. DEFINE l == Len(n)
            d == Drop(n, k)
            c == k + a
            e == k + b
            s == SubSeq(d, a + 1, b)
            t == SubSeq(n, c + 1, e)
<1>1. l \in Nat
  BY LenProperties
<1>2. e <= l /\ c \in Nat /\ e \in Nat /\ c <= e /\ k <= l /\ b <= l - k
  <2>. HIDE DEF l
  <2>. QED  BY <1>1 DEF l
<1>. HIDE DEF l
<1>3. d \in Seq(S) /\ Len(d) = l - k /\ \A i \in 1..(l - k) : d[i] = n[k + i]
  BY <1>2, DropType DEF l
<1>4. e - c = b - a /\ \A i \in Int : c + i = k + (a + i)
  OBVIOUS
<1>. HIDE DEF d, c, e
<1>5. s \in Seq(S) /\ Len(s) = b - a /\ \A i \in 1..(b - a) : s[i] = d[a + i]
  BY <1>2, <1>3, PieceIs
<1>6. t \in Seq(S) /\ Len(t) = e - c /\ \A i \in 1..(e - c) : t[i] = n[c + i]
  BY <1>2, PieceIs DEF l
<1>. HIDE DEF s, t
<1>7. \A i \in 1..Len(s) : s[i] = t[i]
  <2>. TAKE i \in 1..Len(s)
  <2>1. i \in 1..(b - a) /\ a + i \in 1..(l - k) /\ i \in 1..(e - c)
    BY <1>1, <1>2, <1>4, <1>5
  <2>. DEFINE j == a + i
  <2>2. j \in 1..(l - k) /\ c + i = k + j /\ s[i] = d[j] /\ t[i] = n[c + i]
    BY <1>4, <1>5, <1>6, <2>1
  <2>. HIDE DEF j
  <2>3. d[j] = n[k + j]
    BY <1>3, <2>2
  <2>. QED  BY <2>2, <2>3
<1>8. s = t
  BY <1>4, <1>5, <1>6, <1>7, SeqEqual
<1>. QED  BY <1>8 DEF s, t, d, c, e

LEMMA PiecesOfDrop ==
  ASSUME NEW S, NEW n \in Seq(S), NEW k \in 0..Len(n)
  PROVE  \A a, b \in Nat : a <= b /\ k + b <= Len(n) => SubSeq(Drop(n, k), a + 1, b) = SubSeq(n, k + a + 1, k + b)
<1>. TAKE a \in Nat, b \in Nat
<1>. HAVE a <= b /\ k + b <= Len(n)
<1>1. k \in Nat
  BY LenProperties
<1>. QED  BY <1>1, PieceOfDrop

Cutting(cut, p, n, R) ==
  /\ cut \in [0..Len(p) -> 0..Len(n)]
  /\ cut[0] = 0 /\ cut[Len(p)] = Len(n)
  /\ \A i \in 1..Len(p) : cut[i - 1] <= cut[i] /\ <<p[i], SubSeq(n, cut[i - 1] + 1, cut[i])>> \in R

Lays(p, n, R) == \E cut : Cutting(cut, p, n, R)

LEMMA LaysNothing ==
  ASSUME NEW S, NEW n \in Seq(S), NEW R
  PROVE  Lays(<< >>, n, R) <=> n = << >>
<1>1. Len(<< >>) = 0 /\ Len(n) \in Nat /\ (Len(n) = 0 <=> n = << >>)
  BY EmptySeq, LenProperties
<1>2. ASSUME Lays(<< >>, n, R) PROVE n = << >>
  BY <1>1, <1>2 DEF Lays, Cutting
<1>3. ASSUME n = << >> PROVE Lays(<< >>, n, R)
  <2>. DEFINE cut == [i \in 0..0 |-> 0]
  <2>1. Cutting(cut, << >>, n, R)
    BY <1>1, <1>3 DEF Cutting
  <2>. QED  BY <2>1 DEF Lays
<1>. QED  BY <1>2, <1>3

\* The first part takes a beginning, the others lie on the rest.
LEMMA LaysFirst ==
  ASSUME NEW A, NEW S, NEW p \in Seq(A), p # << >>, NEW n \in Seq(S), NEW R, Lays(p, n, R)
  PROVE  \E k \in 0..Len(n) : <<Head(p), SubSeq(n, 1, k)>> \in R /\ Lays(Tail(p), Drop(n, k), R)
<1>. DEFINE l == Len(p)
            m == Len(n)
<1>1. PICK cut : Cutting(cut, p, n, R)
  BY DEF Lays
<1>2. /\ l \in Nat \ {0} /\ Tail(p) \in Seq(A) /\ Len(Tail(p)) = l - 1 /\ Head(p) = p[1]
      /\ \A i \in 1..(l - 1) : Tail(p)[i] = p[1 + i]
  <2>1. l \in Nat \ {0} /\ Tail(p) = Drop(p, 1) /\ Tail(p) \in Seq(A) /\ Len(Tail(p)) = l - 1
    BY TailIsDrop
  <2>. DEFINE d == 1
  <2>2. d \in Nat /\ d <= Len(p)
    BY <2>1
  <2>. HIDE DEF d
  <2>3. \A i \in 1..(Len(p) - d) : Drop(p, d)[i] = p[d + i]
    BY <2>2, DropType
  <2>. QED  BY <2>1, <2>3, HeadAndTail DEF d
<1>3. /\ cut \in [0..l -> 0..m] /\ cut[0] = 0 /\ cut[l] = m
      /\ \A i \in 1..l : cut[i - 1] <= cut[i] /\ <<p[i], SubSeq(n, cut[i - 1] + 1, cut[i])>> \in R
  BY <1>1 DEF Cutting
<1>4. m \in Nat
  BY LenProperties
<1>. DEFINE k == cut[1]
            T == {i \in 1..l : k <= cut[i]}
<1>. HIDE DEF l, m
<1>5. 1 \in 1..l /\ k \in 0..m /\ \A i \in 1..l : cut[i] \in 0..m
  BY <1>2, <1>3
<1>6. 1..l \subseteq T
  <2>. DEFINE one == 1
  <2>1. one \in T /\ one \in Nat /\ l \in Nat
    BY <1>2, <1>4, <1>5
  <2>2. \A i \in one..l : i < l /\ i \in T => i + 1 \in T
    <3>. TAKE i \in one..l
    <3>. SUFFICES ASSUME i < l, i \in T PROVE i + 1 \in T
      OBVIOUS
    <3>1. i + 1 \in 1..l /\ (i + 1) - 1 = i
      BY <1>2
    <3>2. cut[i] <= cut[i + 1] /\ cut[i] \in 0..m /\ cut[i + 1] \in 0..m
      BY <1>3, <1>5, <3>1
    <3>3. k <= cut[i + 1]
      BY <1>4, <1>5, <3>2
    <3>. QED  BY <3>1, <3>3
  <2>. HIDE DEF one, T
  <2>3. one..l \subseteq T
    BY <2>1, <2>2, RangeInduction
  <2>. QED  BY <2>3 DEF one
<1>7. <<Head(p), SubSeq(n, 1, k)>> \in R
  <2>1. <<p[1], SubSeq(n, cut[0] + 1, cut[1])>> \in R
    <3>. DEFINE i == 1
    <3>1. i \in 1..l /\ i - 1 = 0
      BY <1>5
    <3>. HIDE DEF i
    <3>2. <<p[i], SubSeq(n, cut[i - 1] + 1, cut[i])>> \in R
      BY <1>3, <3>1
    <3>. QED  BY <3>1, <3>2 DEF i
  <2>2. 0 + 1 = 1
    OBVIOUS
  <2>. QED  BY <1>2, <1>3, <2>1, <2>2
<1>. DEFINE d == Drop(n, k)
            c == [i \in 0..(l - 1) |-> cut[i + 1] - k]
<1>8. d \in Seq(S) /\ Len(d) = m - k
  <2>1. k \in Nat /\ k <= m
    BY <1>4, <1>5
  <2>. HIDE DEF k
  <2>. QED  BY <2>1, DropType DEF m
<1>9. \A i \in 0..(l - 1) : i + 1 \in 1..l /\ cut[i + 1] \in 0..m /\ k <= cut[i + 1]
  BY <1>2, <1>5, <1>6
<1>. HIDE DEF k, T
<1>10. c \in [0..(l - 1) -> 0..(m - k)]
  BY <1>4, <1>5, <1>9
<1>11. c[0] = 0 /\ c[l - 1] = m - k
  <2>1. 0 \in 0..(l - 1) /\ l - 1 \in 0..(l - 1) /\ 0 + 1 = 1 /\ (l - 1) + 1 = l
    BY <1>2
  <2>2. c[0] = cut[1] - k /\ c[l - 1] = cut[l] - k
    BY <2>1
  <2>. QED  BY <1>3, <1>5, <2>2 DEF k
<1>12. ASSUME NEW i \in 1..(l - 1)
       PROVE  c[i - 1] <= c[i] /\ <<Tail(p)[i], SubSeq(d, c[i - 1] + 1, c[i])>> \in R
  <2>1. i \in 0..(l - 1) /\ i - 1 \in 0..(l - 1) /\ (i - 1) + 1 = i /\ i + 1 \in 1..l /\ (i + 1) - 1 = i /\ 1 + i = i + 1
        /\ i \in 1..l
    BY <1>2
  <2>2. c[i - 1] = cut[i] - k /\ c[i] = cut[i + 1] - k
    BY <2>1
  <2>3. cut[i] \in 0..m /\ cut[i + 1] \in 0..m /\ k <= cut[i] /\ cut[i] <= cut[i + 1] /\ k \in 0..m
    BY <1>3, <1>5, <1>6, <2>1 DEF T
  <2>. DEFINE a == c[i - 1]
              b == c[i]
              x == cut[i]
              y == cut[i + 1]
  <2>4. a = x - k /\ b = y - k /\ x \in 0..m /\ y \in 0..m /\ k \in 0..m /\ k <= x /\ x <= y
    BY <2>2, <2>3
  <2>. HIDE DEF a, b, x, y
  <2>5. a \in Nat /\ b \in Nat /\ k \in Nat /\ a <= b /\ k + b <= m /\ k + a = x /\ k + b = y
    BY <1>4, <2>4
  <2>6. SubSeq(d, a + 1, b) = SubSeq(n, k + a + 1, k + b)
    BY <2>5, PieceOfDrop DEF m
  <2>7. <<p[i + 1], SubSeq(n, x + 1, y)>> \in R
    BY <1>3, <2>1 DEF x, y
  <2>8. Tail(p)[i] = p[i + 1]
    BY <1>2, <2>1
  <2>9. k + a + 1 = x + 1
    BY <2>5
  <2>. QED  BY <2>5, <2>6, <2>7, <2>8, <2>9 DEF a, b
<1>. HIDE DEF c, d
<1>13. Cutting(c, Tail(p), d, R)
  <2>. DEFINE t == Tail(p)
  <2>1. Len(t) = l - 1 /\ Len(d) = m - k
    BY <1>2, <1>8
  <2>2. \A i \in 1..Len(t) : c[i - 1] <= c[i] /\ <<t[i], SubSeq(d, c[i - 1] + 1, c[i])>> \in R
    BY <1>12, <2>1
  <2>. HIDE DEF t
  <2>3. Cutting(c, t, d, R)
    BY <1>10, <1>11, <2>1, <2>2 DEF Cutting
  <2>. QED  BY <2>3 DEF t
<1>14. Lays(Tail(p), d, R)
  BY <1>13 DEF Lays
<1>. QED  BY <1>5, <1>7, <1>14 DEF d, m

LEMMA LaysMore ==
  ASSUME NEW A, NEW S, NEW p \in Seq(A), p # << >>, NEW n \in Seq(S), NEW R, NEW k \in 0..Len(n),
         <<Head(p), SubSeq(n, 1, k)>> \in R, Lays(Tail(p), Drop(n, k), R)
  PROVE  Lays(p, n, R)
<1>. DEFINE l == Len(p)
            m == Len(n)
            d == Drop(n, k)
            t == Tail(p)
<1>1. PICK c : Cutting(c, t, d, R)
  BY DEF Lays
<1>2. /\ l \in Nat \ {0} /\ t \in Seq(A) /\ Len(t) = l - 1 /\ Head(p) = p[1]
      /\ \A i \in 1..(l - 1) : t[i] = p[1 + i]
  <2>1. l \in Nat \ {0} /\ Tail(p) = Drop(p, 1) /\ Tail(p) \in Seq(A) /\ Len(Tail(p)) = l - 1
    BY TailIsDrop
  <2>. DEFINE one == 1
  <2>2. one \in Nat /\ one <= Len(p)
    BY <2>1
  <2>. HIDE DEF one
  <2>3. \A i \in 1..(Len(p) - one) : Drop(p, one)[i] = p[one + i]
    BY <2>2, DropType
  <2>. QED  BY <2>1, <2>3, HeadAndTail DEF one
<1>3. m \in Nat /\ k \in Nat /\ k <= m
  BY LenProperties
<1>4. d \in Seq(S) /\ Len(d) = m - k
  <2>. HIDE DEF m
  <2>. QED  BY <1>3, DropType DEF m
<1>11. \A a, b \in Nat : a <= b /\ k + b <= Len(n) => SubSeq(Drop(n, k), a + 1, b) = SubSeq(n, k + a + 1, k + b)
  BY PiecesOfDrop
<1>. HIDE DEF l, m, d, t
<1>5. /\ c \in [0..(l - 1) -> 0..(m - k)] /\ c[0] = 0 /\ c[l - 1] = m - k
      /\ \A i \in 1..(l - 1) : c[i - 1] <= c[i] /\ <<t[i], SubSeq(d, c[i - 1] + 1, c[i])>> \in R
  BY <1>1, <1>2, <1>4 DEF Cutting
<1>. DEFINE cut == [i \in 0..l |-> IF i = 0 THEN 0 ELSE k + c[i - 1]]
<1>6. \A i \in 1..l : i - 1 \in 0..(l - 1) /\ c[i - 1] \in 0..(m - k) /\ i # 0 /\ i \in 0..l
  BY <1>2, <1>5
<1>7. cut \in [0..l -> 0..m]
  BY SMTT(60), <1>2, <1>3, <1>6
<1>8. cut[0] = 0 /\ cut[l] = m
  <2>1. 0 \in 0..l /\ l \in 1..l
    BY <1>2
  <2>2. cut[0] = 0 /\ cut[l] = k + c[l - 1]
    BY <1>6, <2>1
  <2>. QED  BY <1>3, <1>5, <2>2
<1>9. ASSUME NEW i \in 1..l
      PROVE  cut[i - 1] <= cut[i] /\ <<p[i], SubSeq(n, cut[i - 1] + 1, cut[i])>> \in R
  <2>1. cut[i] = k + c[i - 1] /\ c[i - 1] \in 0..(m - k)
    BY <1>6
  <2>2. CASE i = 1
    <3>1. i - 1 = 0 /\ 0 \in 0..l
      BY <1>2, <2>2
    <3>2. cut[i - 1] = 0 /\ cut[i] = k
      BY <1>3, <1>5, <2>1, <3>1
    <3>3. 0 + 1 = 1
      OBVIOUS
    <3>. HIDE DEF cut
    <3>. QED  BY <1>2, <1>3, <2>2, <3>2, <3>3
  <2>3. CASE i # 1
    <3>1. i - 1 \in 1..(l - 1) /\ i - 1 \in 1..l /\ 1 + (i - 1) = i
      BY <1>2, <2>3
    <3>. DEFINE j == i - 1
                a == c[j - 1]
                b == c[j]
    <3>2. j \in 1..(l - 1) /\ j \in 1..l /\ 1 + j = i
      BY <3>1
    <3>3. cut[j] = k + a /\ a \in 0..(m - k)
      BY <1>6, <3>2
    <3>4. cut[i] = k + b /\ b \in 0..(m - k)
      BY <2>1
    <3>5. a <= b /\ <<t[j], SubSeq(d, a + 1, b)>> \in R
      BY <1>5, <3>2
    <3>6. t[j] = p[i]
      BY <1>2, <3>2
    <3>. HIDE DEF j, a, b, cut
    <3>7. a \in Nat /\ b \in Nat /\ k + b <= m /\ k + a <= k + b
      BY <1>3, <3>3, <3>4, <3>5
    <3>8. SubSeq(d, a + 1, b) = SubSeq(n, k + a + 1, k + b)
      <4>1. k \in Nat /\ a <= b /\ k + b <= Len(n)
        BY <1>3, <3>5, <3>7 DEF m
      <4>2. a \in Nat /\ b \in Nat
        BY <3>7
      <4>3. SubSeq(Drop(n, k), a + 1, b) = SubSeq(n, k + a + 1, k + b)
        BY <1>11, <4>1, <4>2
      <4>. QED  BY <4>3 DEF d
    <3>. QED  BY <3>3, <3>4, <3>5, <3>6, <3>7, <3>8 DEF j
  <2>. QED  BY <2>2, <2>3
<1>. HIDE DEF cut
<1>10. Cutting(cut, p, n, R)
  BY <1>7, <1>8, <1>9 DEF Cutting, l, m
<1>. QED  BY <1>10 DEF Lays

LEMMA DropNone ==
  ASSUME NEW S, NEW n \in Seq(S)
  PROVE  Drop(n, 0) = n /\ SubSeq(n, 1, 0) = << >>
<1>. DEFINE z == 0
            d == Drop(n, z)
            e == SubSeq(n, z + 1, z)
            l == Len(n)
<1>1. l \in Nat /\ z \in Nat /\ z <= l /\ z = 0
  BY LenProperties
<1>. HIDE DEF z, l
<1>2. d \in Seq(S) /\ Len(d) = l - z /\ \A i \in 1..(l - z) : d[i] = n[z + i]
  BY <1>1, DropType DEF l
<1>3. l - z = l /\ \A i \in Int : z + i = i
  BY <1>1
<1>4. z <= z
  BY <1>1
<1>5. e \in Seq(S) /\ Len(e) = z - z
  BY <1>1, <1>4, PieceIs DEF l
<1>. HIDE DEF d, e
<1>6. \A i \in 1..Len(n) : d[i] = n[i]
  <2>. TAKE i \in 1..Len(n)
  <2>1. i \in 1..(l - z) /\ i \in Int
    BY <1>1, <1>3 DEF l
  <2>. QED  BY <1>2, <1>3, <2>1
<1>7. d = n
  BY <1>2, <1>3, <1>6, SeqEqual DEF l
<1>8. e = << >>
  <2>1. Len(e) = 0
    BY <1>1, <1>5
  <2>. QED  BY <1>5, <2>1, EmptySeq
<1>9. z + 1 = 1
  BY <1>1
<1>. QED  BY <1>1, <1>7, <1>8, <1>9 DEF d, e

-----------------------------------------------------------------------------
(* matchSegs, at each call, from its answers to shorter ones.              *)

Verdicts  == {"match", "mismatch", "error", "panic"}
PathNames == Seq(Seq(Chars))
Results   == [verdict : Verdicts, memo : Memos]

Known(call) == {e \in call.memo : e.key = Key(call.pat, call.name)}

Unremembered(f, call) ==
  LET pat  == call.pat
      name == call.name
      zero == f[[call EXCEPT !.pat = Tail(pat)]]
      one  == MatchSegment(Head(pat), Head(name))
  IN  IF pat = << >> THEN Verdict(IsMatch(name = << >>), call.memo)
      ELSE IF Head(pat) = GlobStar THEN
        IF zero.verdict # "mismatch" \/ name = << >> \/ Head(name)[1] = "." THEN zero
        ELSE f[[call EXCEPT !.name = Tail(name), !.memo = zero.memo]]
      ELSE IF name = << >> THEN Verdict("mismatch", call.memo)
      ELSE IF one # "match" THEN Verdict(one, call.memo)
      ELSE f[[call EXCEPT !.pat = Tail(pat), !.name = Tail(name)]]

MatchSegsStep(f, call) ==
  IF Known(call) # {} THEN Verdict((CHOOSE e \in Known(call) : TRUE).verdict, call.memo)
  ELSE Remember(call.pat, call.name, Unremembered(f, call))

Rank == [call \in Calls |-> Len(call.pat) + Len(call.name)]

LEMMA AtomsType == ASSUME NEW t \in Texts PROVE Atoms[t] \in Seq(Kinds)
BY AtomsIs

LEMMA MatchSegmentType ==
  ASSUME NEW t \in Texts, NEW cs
  PROVE  MatchSegment(t, cs) \in Verdicts
<1>1. Translate[t] \in Translations
  BY TranslateIs
<1>2. Translate[t].end \in Verdicts \/ Translate[t].end = "ok"
  BY <1>1 DEF Translations, Ends, Verdicts
<1>3. FilepathMatch(Translate[t].text, cs) \in Verdicts
  BY DEF FilepathMatch, MatchAtoms, Verdicts
<1>. QED  BY <1>2, <1>3 DEF MatchSegment, Verdicts

LEMMA CallParts ==
  ASSUME NEW call \in Calls
  PROVE  /\ call.pat \in Seq(Texts) /\ call.name \in PathNames /\ call.memo \in Memos
         /\ call = [pat |-> call.pat, name |-> call.name, memo |-> call.memo]
         /\ Len(call.pat) \in Nat /\ Len(call.name) \in Nat
         /\ Rank[call] = Len(call.pat) + Len(call.name) /\ Rank[call] \in Nat
<1>1. call.pat \in Seq(Texts) /\ call.name \in PathNames /\ call.memo \in Memos
  BY DEF Calls, PathNames, Texts
<1>2. call = [pat |-> call.pat, name |-> call.name, memo |-> call.memo]
  BY DEF Calls
<1>3. Len(call.pat) \in Nat /\ Len(call.name) \in Nat
  BY <1>1, LenProperties DEF PathNames
<1>4. Rank[call] = Len(call.pat) + Len(call.name)
  BY DEF Rank
<1>. QED  BY <1>1, <1>2, <1>3, <1>4

LEMMA RankType == Sized(Rank, Calls) /\ Maps(Rank, Calls, Nat)
<1>1. \A call \in Calls : Len(call.pat) + Len(call.name) \in Nat
  BY CallParts
<1>. QED  BY <1>1 DEF Sized, Maps, Rank

\* The calls a call makes.
LEMMA CallChanged ==
  ASSUME NEW call \in Calls, NEW p \in Seq(Texts), NEW n \in PathNames, NEW m \in Memos
  PROVE  /\ [pat |-> p, name |-> n, memo |-> m] \in Calls
         /\ [call EXCEPT !.pat = p] = [pat |-> p, name |-> call.name, memo |-> call.memo]
         /\ [call EXCEPT !.name = n, !.memo = m] = [pat |-> call.pat, name |-> n, memo |-> m]
         /\ [call EXCEPT !.pat = p, !.name = n] = [pat |-> p, name |-> n, memo |-> call.memo]
<1>. DEFINE x == [call EXCEPT !.pat = p]
            y == [call EXCEPT !.name = n, !.memo = m]
            z == [call EXCEPT !.pat = p, !.name = n]
<1>1. x \in Calls /\ y \in Calls /\ z \in Calls
  BY DEF Calls, PathNames, Texts
<1>2. /\ x.pat = p /\ x.name = call.name /\ x.memo = call.memo
      /\ y.pat = call.pat /\ y.name = n /\ y.memo = m
      /\ z.pat = p /\ z.name = n /\ z.memo = call.memo
  BY DEF Calls
<1>3. [pat |-> p, name |-> n, memo |-> m] \in Calls
  BY DEF Calls, PathNames, Texts
<1>. HIDE DEF x, y, z
<1>4. /\ x = [pat |-> x.pat, name |-> x.name, memo |-> x.memo]
      /\ y = [pat |-> y.pat, name |-> y.name, memo |-> y.memo]
      /\ z = [pat |-> z.pat, name |-> z.name, memo |-> z.memo]
  BY <1>1, CallParts
<1>5. /\ x = [pat |-> p, name |-> call.name, memo |-> call.memo]
      /\ y = [pat |-> call.pat, name |-> n, memo |-> m]
      /\ z = [pat |-> p, name |-> n, memo |-> call.memo]
  BY <1>2, <1>4
<1>. QED  BY <1>3, <1>5 DEF x, y, z

ZeroCall(call)      == [call EXCEPT !.pat = Tail(call.pat)]
MoreCall(call, m)   == [call EXCEPT !.name = Tail(call.name), !.memo = m]
NextCall(call)      == [call EXCEPT !.pat = Tail(call.pat), !.name = Tail(call.name)]

LEMMA ZeroCallIs ==
  ASSUME NEW call \in Calls, call.pat # << >>
  PROVE  /\ ZeroCall(call) = [pat |-> Tail(call.pat), name |-> call.name, memo |-> call.memo]
         /\ ZeroCall(call) \in Calls /\ Rank[ZeroCall(call)] < Rank[call]
<1>. DEFINE p == Tail(call.pat)
            z == [pat |-> p, name |-> call.name, memo |-> call.memo]
<1>1. p \in Seq(Texts) /\ Len(p) = Len(call.pat) - 1 /\ Len(call.pat) \in Nat \ {0}
  BY CallParts, TailIsDrop
<1>2. Len(call.name) \in Nat /\ call.name \in PathNames /\ call.memo \in Memos
      /\ Rank[call] = Len(call.pat) + Len(call.name)
  BY CallParts
<1>. HIDE DEF p
<1>3. z \in Calls /\ [call EXCEPT !.pat = p] = z
  BY <1>1, <1>2, CallChanged
<1>4. Rank[z] = Len(p) + Len(call.name)
  BY <1>3 DEF Rank
<1>5. Rank[z] < Rank[call]
  <2>. DEFINE u == Len(p)
              v == Len(call.name)
              w == Len(call.pat)
  <2>1. u = w - 1 /\ w \in Nat \ {0} /\ v \in Nat /\ Rank[call] = w + v /\ Rank[z] = u + v
    BY <1>1, <1>2, <1>4
  <2>. HIDE DEF u, v, w, z
  <2>. QED  BY <2>1
<1>. HIDE DEF z
<1>6. ZeroCall(call) = z
  BY <1>3 DEF ZeroCall, p
<1>. QED  BY <1>3, <1>5, <1>6 DEF z, p

LEMMA MoreCallIs ==
  ASSUME NEW call \in Calls, call.name # << >>, NEW m \in Memos
  PROVE  /\ MoreCall(call, m) = [pat |-> call.pat, name |-> Tail(call.name), memo |-> m]
         /\ MoreCall(call, m) \in Calls /\ Rank[MoreCall(call, m)] < Rank[call]
<1>. DEFINE n == Tail(call.name)
            z == [pat |-> call.pat, name |-> n, memo |-> m]
<1>1. n \in PathNames /\ Len(n) = Len(call.name) - 1 /\ Len(call.name) \in Nat \ {0}
  BY CallParts, TailIsDrop DEF PathNames
<1>2. Len(call.pat) \in Nat /\ call.pat \in Seq(Texts) /\ Rank[call] = Len(call.pat) + Len(call.name)
  BY CallParts
<1>. HIDE DEF n
<1>3. z \in Calls /\ [call EXCEPT !.name = n, !.memo = m] = z
  BY <1>1, <1>2, CallChanged
<1>4. Rank[z] = Len(call.pat) + Len(n)
  BY <1>3 DEF Rank
<1>5. Rank[z] < Rank[call]
  <2>. DEFINE u == Len(n)
              v == Len(call.pat)
              w == Len(call.name)
  <2>1. u = w - 1 /\ w \in Nat \ {0} /\ v \in Nat /\ Rank[call] = v + w /\ Rank[z] = v + u
    BY <1>1, <1>2, <1>4
  <2>. HIDE DEF u, v, w, z
  <2>. QED  BY <2>1
<1>. HIDE DEF z
<1>6. MoreCall(call, m) = z
  BY <1>3 DEF MoreCall, n
<1>. QED  BY <1>3, <1>5, <1>6 DEF z, n

LEMMA NextCallIs ==
  ASSUME NEW call \in Calls, call.pat # << >>, call.name # << >>
  PROVE  /\ NextCall(call) = [pat |-> Tail(call.pat), name |-> Tail(call.name), memo |-> call.memo]
         /\ NextCall(call) \in Calls /\ Rank[NextCall(call)] < Rank[call]
<1>. DEFINE p == Tail(call.pat)
            n == Tail(call.name)
            z == [pat |-> p, name |-> n, memo |-> call.memo]
<1>1. /\ p \in Seq(Texts) /\ Len(p) = Len(call.pat) - 1 /\ Len(call.pat) \in Nat \ {0}
      /\ n \in PathNames /\ Len(n) = Len(call.name) - 1 /\ Len(call.name) \in Nat \ {0}
  BY CallParts, TailIsDrop DEF PathNames
<1>2. call.memo \in Memos /\ Rank[call] = Len(call.pat) + Len(call.name)
  BY CallParts
<1>. HIDE DEF p, n
<1>3. z \in Calls /\ [call EXCEPT !.pat = p, !.name = n] = z
  BY <1>1, <1>2, CallChanged
<1>4. Rank[z] = Len(p) + Len(n)
  BY <1>3 DEF Rank
<1>5. Rank[z] < Rank[call]
  <2>. DEFINE u == Len(p)
              v == Len(n)
              w == Len(call.pat)
              x == Len(call.name)
  <2>1. u = w - 1 /\ w \in Nat \ {0} /\ v = x - 1 /\ x \in Nat \ {0} /\ Rank[call] = w + x /\ Rank[z] = u + v
    BY <1>1, <1>2, <1>4
  <2>. HIDE DEF u, v, w, x, z
  <2>. QED  BY <2>1
<1>. HIDE DEF z
<1>6. NextCall(call) = z
  BY <1>3 DEF NextCall, p, n
<1>. QED  BY <1>3, <1>5, <1>6 DEF z, p, n

\* The four ways to an answer that is not remembered.
LEMMA UnrememberedIs ==
  ASSUME NEW f, NEW call \in Calls
  PROVE  /\ call.pat = << >> =>
              Unremembered(f, call) = Verdict(IsMatch(call.name = << >>), call.memo)
         /\ call.pat # << >> /\ Head(call.pat) = GlobStar =>
              Unremembered(f, call) =
                IF \/ f[ZeroCall(call)].verdict # "mismatch" \/ call.name = << >>
                   \/ Head(call.name)[1] = "."
                THEN f[ZeroCall(call)] ELSE f[MoreCall(call, f[ZeroCall(call)].memo)]
         /\ call.pat # << >> /\ Head(call.pat) # GlobStar /\ call.name = << >> =>
              Unremembered(f, call) = Verdict("mismatch", call.memo)
         /\ call.pat # << >> /\ Head(call.pat) # GlobStar /\ call.name # << >> =>
              Unremembered(f, call) =
                IF MatchSegment(Head(call.pat), Head(call.name)) # "match"
                THEN Verdict(MatchSegment(Head(call.pat), Head(call.name)), call.memo)
                ELSE f[NextCall(call)]
BY DEF Unremembered, ZeroCall, MoreCall, NextCall

LEMMA VerdictType == \A v \in Verdicts, m \in Memos : Verdict(v, m) \in Results
BY DEF Verdict, Results

LEMMA RememberType ==
  ASSUME NEW call \in Calls, NEW r \in Results
  PROVE  Remember(call.pat, call.name, r) \in Results
<1>. DEFINE k == Key(call.pat, call.name)
<1>1. k \in Nat \X Nat
  BY CallParts DEF Key
<1>. HIDE DEF k
<1>2. r.verdict \in {"error", "panic"} \/ r.verdict \in {"match", "mismatch"}
  BY DEF Results, Verdicts
<1>3. CASE r.verdict \in {"error", "panic"}
  BY <1>3 DEF Remember
<1>4. CASE r.verdict \in {"match", "mismatch"}
  <2>. DEFINE e == [key |-> k, verdict |-> r.verdict]
  <2>1. e \in [key : Nat \X Nat, verdict : {"match", "mismatch"}]
    BY <1>1, <1>4
  <2>. HIDE DEF e
  <2>2. r.memo \cup {e} \in Memos
    BY <2>1 DEF Memos, Results
  <2>3. \A m \in Memos : [r EXCEPT !.memo = m] \in Results
    BY DEF Results
  <2>4. [r EXCEPT !.memo = r.memo \cup {e}] \in Results
    BY <2>2, <2>3
  <2>. QED  BY <1>4, <2>4 DEF Remember, e, k
<1>. QED  BY <1>2, <1>3, <1>4

LEMMA SegsStepType ==
  ASSUME NEW call \in Calls, NEW f \in [Calls -> Results]
  PROVE  MatchSegsStep(f, call) \in Results
<1>1. call.memo \in Memos /\ call.pat \in Seq(Texts)
  BY CallParts
<1>2. CASE Known(call) # {}
  <2>1. (CHOOSE e \in Known(call) : TRUE) \in Known(call)
    BY <1>2
  <2>2. \A e \in Known(call) : e.verdict \in Verdicts
    BY <1>1 DEF Known, Memos, Verdicts
  <2>3. MatchSegsStep(f, call) = Verdict((CHOOSE e \in Known(call) : TRUE).verdict, call.memo)
    BY <1>2 DEF MatchSegsStep
  <2>. QED  BY <1>1, <2>1, <2>2, <2>3, VerdictType
<1>3. CASE Known(call) = {}
  <2>1. Unremembered(f, call) \in Results
    <3>1. CASE call.pat = << >>
      <4>1. IsMatch(call.name = << >>) \in Verdicts
        BY DEF IsMatch, Verdicts
      <4>. QED  BY <1>1, <3>1, <4>1, UnrememberedIs, VerdictType
    <3>2. CASE call.pat # << >> /\ Head(call.pat) = GlobStar
      <4>1. f[ZeroCall(call)] \in Results
        BY <3>2, ZeroCallIs
      <4>2. f[ZeroCall(call)].memo \in Memos
        BY <4>1 DEF Results
      <4>3. call.name # << >> => f[MoreCall(call, f[ZeroCall(call)].memo)] \in Results
        BY <4>2, MoreCallIs
      <4>. QED  BY <3>2, <4>1, <4>3, UnrememberedIs
    <3>3. CASE call.pat # << >> /\ Head(call.pat) # GlobStar /\ call.name = << >>
      <4>1. "mismatch" \in Verdicts
        BY DEF Verdicts
      <4>. QED  BY <1>1, <3>3, <4>1, UnrememberedIs, VerdictType
    <3>4. CASE call.pat # << >> /\ Head(call.pat) # GlobStar /\ call.name # << >>
      <4>1. f[NextCall(call)] \in Results
        BY <3>4, NextCallIs
      <4>2. Head(call.pat) \in Texts
        BY <1>1, <3>4, HeadAndTail
      <4>3. MatchSegment(Head(call.pat), Head(call.name)) \in Verdicts
        BY <4>2, MatchSegmentType
      <4>. QED  BY <1>1, <3>4, <4>1, <4>3, UnrememberedIs, VerdictType
    <3>. QED  BY <3>1, <3>2, <3>3, <3>4
  <2>. QED  BY <1>3, <2>1, RememberType DEF MatchSegsStep
<1>. QED  BY <1>2, <1>3

LEMMA SegsStepLocal ==
  ASSUME NEW call \in Calls, NEW f \in [Calls -> Results], NEW g,
         \A c \in Calls : Rank[c] < Rank[call] => f[c] = g[c]
  PROVE  MatchSegsStep(f, call) = MatchSegsStep(g, call)
<1>1. Unremembered(f, call) = Unremembered(g, call)
  <2>1. CASE call.pat = << >>
    BY <2>1, UnrememberedIs
  <2>2. CASE call.pat # << >> /\ Head(call.pat) = GlobStar
    <3>. DEFINE m == f[ZeroCall(call)].memo
    <3>1. f[ZeroCall(call)] \in Results /\ f[ZeroCall(call)] = g[ZeroCall(call)]
      BY <2>2, ZeroCallIs
    <3>2. m \in Memos
      BY <3>1 DEF Results
    <3>. HIDE DEF m
    <3>3. call.name # << >> => f[MoreCall(call, m)] = g[MoreCall(call, m)]
      BY <3>2, MoreCallIs
    <3>. QED  BY <2>2, <3>1, <3>3, UnrememberedIs DEF m
  <2>3. CASE call.pat # << >> /\ Head(call.pat) # GlobStar /\ call.name = << >>
    BY <2>3, UnrememberedIs
  <2>4. CASE call.pat # << >> /\ Head(call.pat) # GlobStar /\ call.name # << >>
    <3>1. f[NextCall(call)] = g[NextCall(call)]
      BY <2>4, NextCallIs
    <3>. QED  BY <2>4, <3>1, UnrememberedIs
  <2>. QED  BY <2>1, <2>2, <2>3, <2>4
<1>. QED  BY <1>1 DEF MatchSegsStep

LEMMA MatchSegsIs ==
  /\ MatchSegs \in [Calls -> Results]
  /\ \A q \in Calls : MatchSegs[q] = MatchSegsStep(MatchSegs, q)
<1>. DEFINE X == Results
            step == [a \in Calls \X [Calls -> X] |-> MatchSegsStep(a[2], a[1])]
            Solves(f) == f = [q \in Calls |-> MatchSegsStep(f, q)]
            x == Verdict("match", {})
<1>1. Stepping(step, Calls, X)
  BY SegsStepType DEF Stepping
<1>2. ASSUME NEW q \in Calls, NEW g \in [Calls -> X], NEW h \in [Calls -> X],
             \A r \in Calls : Rank[r] < Rank[q] => g[r] = h[r]
      PROVE  step[<<q, g>>] = step[<<q, h>>]
  BY <1>2, SegsStepLocal
<1>3. \A q \in Calls, f \in [Calls -> X] : step[<<q, f>>] = MatchSegsStep(f, q)
  OBVIOUS
<1>4. x \in X /\ Sized(Rank, Calls) /\ Rank \in [Calls -> Nat]
  <2>1. "match" \in Verdicts /\ {} \in Memos
    BY DEF Verdicts, Memos
  <2>. QED  BY <2>1, RankType, VerdictType DEF Maps, Sized
<1>. HIDE DEF step, x, X
<1>5. PICK f \in [Calls -> X] : \A q \in Calls : f[q] = step[<<q, f>>]
  <2>1. Local(step, Calls, X, Rank)
    BY <1>2 DEF Local
  <2>2. \E f : Solution(f, step, Calls, X)
    BY <1>1, <1>4, <2>1, SolutionExists
  <2>. QED  BY <2>2 DEF Solution
<1>6. Solves(f)
  <2>1. f = [q \in Calls |-> f[q]] /\ \A q \in Calls : f[q] = MatchSegsStep(f, q)
    BY <1>3, <1>5
  <2>. QED  BY <2>1, ZenonT(30)
<1>7. MatchSegs = CHOOSE g : Solves(g)
  BY DEF MatchSegs, MatchSegsStep, Known, Unremembered
<1>8. Solves(MatchSegs)
  <2>. HIDE DEF Solves
  <2>. QED  BY <1>6, <1>7
<1>9. \A q \in Calls : MatchSegs[q] = MatchSegsStep(MatchSegs, q)
  BY <1>8, ZenonT(30)
<1>. DEFINE T == {q \in Calls : MatchSegs[q] = f[q]}
<1>10. ASSUME NEW q \in Calls, \A r \in Calls : Rank[r] < Rank[q] => r \in T PROVE q \in T
  <2>1. MatchSegsStep(MatchSegs, q) = MatchSegsStep(f, q)
    <3>1. \A r \in Calls : Rank[r] < Rank[q] => MatchSegs[r] = f[r]
      BY <1>10
    <3>2. f \in [Calls -> Results]
      BY <1>5 DEF X
    <3>3. \A r \in Calls : Rank[r] < Rank[q] => f[r] = MatchSegs[r]
      BY <3>1
    <3>4. MatchSegsStep(f, q) = MatchSegsStep(MatchSegs, q)
      BY <3>2, <3>3, SegsStepLocal
    <3>. QED  BY <3>4
  <2>. QED  BY <1>3, <1>5, <1>9, <2>1
<1>11. Calls \subseteq T
  <2>. HIDE DEF T
  <2>. QED  BY <1>4, <1>10, SizeInduction
<1>12. MatchSegs = f
  <2>1. MatchSegs = [q \in Calls |-> MatchSegs[q]]
    BY <1>8, ZenonT(30)
  <2>2. \A q \in Calls : MatchSegs[q] = f[q]
    BY <1>11
  <2>. QED  BY <1>5, <2>1, <2>2
<1>. QED  BY <1>5, <1>9, <1>12 DEF X

-----------------------------------------------------------------------------
(* What the segments of a pattern take, by what matchSegment says of them. *)

Visible(names) == \A i \in DOMAIN names : names[i][1] # "."

\* "**" takes any names without a dot before them, another segment one name for
\* which the verdict is one of V.
Taking(V) ==
  {x \in Texts \X PathNames : IF x[1] = GlobStar THEN Visible(x[2])
                              ELSE Len(x[2]) = 1 /\ MatchSegment(x[1], x[2][1]) \in V}

LEMMA TakingIs ==
  ASSUME NEW V, NEW t \in Texts, NEW ns \in PathNames
  PROVE  <<t, ns>> \in Taking(V) <=>
           IF t = GlobStar THEN Visible(ns) ELSE Len(ns) = 1 /\ MatchSegment(t, ns[1]) \in V
BY DEF Taking

LEMMA DropMore ==
  ASSUME NEW S, NEW n \in Seq(S), n # << >>, NEW k \in 0..(Len(n) - 1)
  PROVE  /\ Drop(Tail(n), k) = Drop(n, k + 1) /\ k + 1 \in 0..Len(n) /\ k \in 0..Len(Tail(n))
         /\ SubSeq(Tail(n), 1, k) \in Seq(S) /\ SubSeq(n, 1, k + 1) \in Seq(S)
         /\ Len(SubSeq(Tail(n), 1, k)) = k /\ Len(SubSeq(n, 1, k + 1)) = k + 1
         /\ SubSeq(n, 1, k + 1)[1] = Head(n)
         /\ \A i \in 1..k : SubSeq(Tail(n), 1, k)[i] = SubSeq(n, 1, k + 1)[i + 1]
<1>. DEFINE l == Len(n)
            t == Tail(n)
            one == 1
            z == 0
            m == k + 1
<1>1. /\ l \in Nat \ {0} /\ t \in Seq(S) /\ Len(t) = l - 1 /\ t = Drop(n, one) /\ Head(n) = n[1]
  BY TailIsDrop, HeadAndTail
<1>2. /\ one \in Nat /\ one <= l /\ z \in Nat /\ z <= k /\ k <= l - 1 /\ k \in Nat /\ one = 1
      /\ m \in Nat /\ m <= l /\ z <= m /\ z = 0 /\ one + (l - 1) = l /\ l - 1 \in Nat /\ m = one + k
  BY <1>1
<1>. HIDE DEF l, one, z, m
<1>3. \A i \in 1..(l - one) : t[i] = n[one + i]
  BY <1>1, <1>2, DropType DEF l
<1>. HIDE DEF t
<1>4. /\ SubSeq(t, z + 1, k) \in Seq(S) /\ Len(SubSeq(t, z + 1, k)) = k - z
      /\ \A i \in 1..(k - z) : SubSeq(t, z + 1, k)[i] = t[z + i]
  BY <1>1, <1>2, PieceIs
<1>5. /\ SubSeq(n, z + 1, m) \in Seq(S) /\ Len(SubSeq(n, z + 1, m)) = m - z
      /\ \A i \in 1..(m - z) : SubSeq(n, z + 1, m)[i] = n[z + i]
  BY <1>1, <1>2, PieceIs DEF l
<1>6. z + 1 = 1 /\ k - z = k /\ m - z = m /\ \A i \in Int : z + i = i
  BY <1>2
<1>7. SubSeq(n, 1, m)[1] = n[1]
  <2>1. 1 \in 1..m /\ 1 \in Int
    BY <1>2
  <2>. QED  BY <1>5, <1>6, <2>1
<1>8. \A i \in 1..k : SubSeq(t, 1, k)[i] = SubSeq(n, 1, m)[i + 1]
  <2>. TAKE i \in 1..k
  <2>1. i \in 1..(l - one) /\ i + 1 \in 1..m /\ one + i = i + 1 /\ i \in Int /\ i + 1 \in Int
    BY <1>1, <1>2
  <2>. DEFINE j == i + 1
  <2>2. SubSeq(n, 1, m)[j] = n[j]
    BY <1>5, <1>6, <2>1
  <2>3. SubSeq(t, 1, k)[i] = t[i]
    BY <1>4, <1>6, <2>1
  <2>4. t[i] = n[one + i]
    BY <1>3, <2>1
  <2>. QED  BY <2>1, <2>2, <2>3, <2>4
<1>9. Drop(t, k) = Drop(n, m)
  <2>. DEFINE b == l - 1
  <2>1. k <= b /\ one + b <= Len(n) /\ b \in Nat /\ k \in Nat /\ one \in Nat
    BY <1>2 DEF l
  <2>. HIDE DEF b
  <2>2. SubSeq(Drop(n, one), k + 1, b) = SubSeq(n, one + k + 1, one + b)
    BY <2>1, PieceOfDrop
  <2>3. Drop(t, k) = SubSeq(t, k + 1, b) /\ Drop(n, m) = SubSeq(n, m + 1, l)
    BY <1>1 DEF Drop, b, l
  <2>4. one + k + 1 = m + 1 /\ one + b = l
    BY <1>2 DEF b
  <2>. QED  BY <1>1, <2>2, <2>3, <2>4
<1>10. m \in 0..l /\ k \in 0..(l - 1)
  BY <1>1, <1>2
<1>. QED  BY <1>1, <1>4, <1>5, <1>6, <1>7, <1>8, <1>9, <1>10 DEF t, l, m

\* "**" takes none of the names, or the first and then again.
LEMMA StarLays ==
  ASSUME NEW V, NEW p \in Seq(Texts), p # << >>, Head(p) = GlobStar, NEW n \in PathNames
  PROVE  Lays(p, n, Taking(V)) <=>
           \/ Lays(Tail(p), n, Taking(V))
           \/ n # << >> /\ Head(n)[1] # "." /\ Lays(p, Tail(n), Taking(V))
<1>. DEFINE R == Taking(V)
            g == Head(p)
            t == Tail(p)
<1>1. n \in Seq(Seq(Chars)) /\ g \in Texts /\ t \in Seq(Texts) /\ g = GlobStar
  BY HeadAndTail DEF PathNames
<1>2. \A ns \in PathNames : <<g, ns>> \in R <=> Visible(ns)
  BY <1>1, TakingIs
<1>. HIDE DEF R, g, t
<1>3. Drop(n, 0) = n /\ SubSeq(n, 1, 0) = << >> /\ Len(n) \in Nat
  BY <1>1, DropNone, LenProperties
<1>4. ASSUME n # << >>, NEW k \in 0..(Len(n) - 1)
      PROVE  /\ Drop(Tail(n), k) = Drop(n, k + 1) /\ k + 1 \in 0..Len(n) /\ k \in 0..Len(Tail(n))
             /\ SubSeq(Tail(n), 1, k) \in PathNames /\ SubSeq(n, 1, k + 1) \in PathNames
             /\ Visible(SubSeq(n, 1, k + 1)) <=>
                  Head(n)[1] # "." /\ Visible(SubSeq(Tail(n), 1, k))
  <2>. DEFINE a == SubSeq(n, 1, k + 1)
              b == SubSeq(Tail(n), 1, k)
  <2>1. /\ Drop(Tail(n), k) = Drop(n, k + 1) /\ k + 1 \in 0..Len(n) /\ k \in 0..Len(Tail(n))
        /\ b \in PathNames /\ a \in PathNames /\ Len(b) = k /\ Len(a) = k + 1 /\ a[1] = Head(n)
        /\ \A i \in 1..k : b[i] = a[i + 1]
    BY <1>1, <1>4, DropMore DEF PathNames
  <2>. HIDE DEF a, b
  <2>2. DOMAIN a = 1..(k + 1) /\ DOMAIN b = 1..k /\ k \in Nat
    BY <1>3, <1>4, <2>1, LenProperties DEF PathNames
  <2>3. ASSUME Visible(a) PROVE Head(n)[1] # "." /\ Visible(b)
    <3>1. a[1][1] # "."
      <4>1. 1 \in DOMAIN a
        BY <2>2
      <4>. QED  BY <2>3, <4>1 DEF Visible
    <3>2. ASSUME NEW i \in DOMAIN b PROVE b[i][1] # "."
      <4>1. i \in 1..k /\ i + 1 \in DOMAIN a
        BY <2>2
      <4>. DEFINE j == i + 1
      <4>2. a[j][1] # "." /\ b[i] = a[j]
        BY <2>1, <2>3, <4>1 DEF Visible
      <4>. QED  BY <4>2
    <3>. QED  BY <2>1, <3>1, <3>2 DEF Visible
  <2>4. ASSUME Head(n)[1] # ".", Visible(b) PROVE Visible(a)
    <3>. SUFFICES ASSUME NEW j \in DOMAIN a PROVE a[j][1] # "."
      BY DEF Visible
    <3>1. CASE j = 1
      BY <2>1, <2>4, <3>1
    <3>2. CASE j # 1
      <4>. DEFINE i == j - 1
      <4>1. i \in DOMAIN b /\ i \in 1..k /\ i + 1 = j
        BY <2>2, <3>2
      <4>. HIDE DEF i
      <4>2. b[i][1] # "." /\ b[i] = a[j]
        BY <2>1, <2>4, <4>1 DEF Visible
      <4>. QED  BY <4>2
    <3>. QED  BY <3>1, <3>2
  <2>5. Visible(a) <=> Head(n)[1] # "." /\ Visible(b)
    BY <2>3, <2>4
  <2>. QED  BY <2>1, <2>5 DEF a, b
<1>5. ASSUME Lays(p, n, R)
      PROVE  Lays(t, n, R) \/ (n # << >> /\ Head(n)[1] # "." /\ Lays(p, Tail(n), R))
  <2>1. PICK k \in 0..Len(n) : <<g, SubSeq(n, 1, k)>> \in R /\ Lays(t, Drop(n, k), R)
    BY <1>1, <1>5, LaysFirst DEF g, t
  <2>2. CASE k = 0
    BY <1>3, <2>1, <2>2
  <2>3. CASE k # 0
    <3>. DEFINE j == k - 1
    <3>1. n # << >>
      <4>1. n = << >> => Len(n) = 0
        BY EmptySeq
      <4>2. Len(n) # 0
        BY <1>3, <2>3
      <4>. QED  BY <4>1, <4>2
    <3>2. j \in 0..(Len(n) - 1) /\ j + 1 = k
      BY <1>3, <2>3
    <3>. HIDE DEF j
    <3>3. /\ Drop(Tail(n), j) = Drop(n, k) /\ j \in 0..Len(Tail(n))
          /\ SubSeq(Tail(n), 1, j) \in PathNames /\ SubSeq(n, 1, k) \in PathNames
          /\ Visible(SubSeq(n, 1, k)) <=> Head(n)[1] # "." /\ Visible(SubSeq(Tail(n), 1, j))
      BY <1>4, <3>1, <3>2
    <3>4. Head(n)[1] # "." /\ <<g, SubSeq(Tail(n), 1, j)>> \in R
      BY <1>2, <2>1, <3>3
    <3>. DEFINE r == Tail(n)
    <3>5. r \in Seq(Seq(Chars)) /\ Lays(t, Drop(r, j), R)
      BY <1>1, <2>1, <3>1, <3>3, HeadAndTail
    <3>6. j \in 0..Len(r) /\ <<g, SubSeq(r, 1, j)>> \in R
      BY <3>3, <3>4
    <3>. HIDE DEF r
    <3>7. Lays(p, r, R)
      BY <3>5, <3>6, LaysMore DEF g, t
    <3>. QED  BY <3>1, <3>4, <3>7 DEF r
  <2>. QED  BY <2>2, <2>3
<1>6. ASSUME Lays(t, n, R) PROVE Lays(p, n, R)
  <2>1. <<g, << >>>> \in R
    <3>1. << >> \in PathNames /\ Visible(<< >>)
      BY DEF Visible, PathNames
    <3>. QED  BY <1>2, <3>1
  <2>. DEFINE z == 0
  <2>2. z \in 0..Len(n) /\ <<g, SubSeq(n, 1, z)>> \in R /\ Lays(t, Drop(n, z), R)
    BY <1>3, <1>6, <2>1
  <2>. HIDE DEF z
  <2>. QED  BY <1>1, <2>2, LaysMore DEF g, t
<1>7. ASSUME n # << >>, Head(n)[1] # ".", Lays(p, Tail(n), R) PROVE Lays(p, n, R)
  <2>. DEFINE r == Tail(n)
  <2>1. r \in Seq(Seq(Chars)) /\ Lays(p, r, R) /\ Len(r) = Len(n) - 1
    BY <1>1, <1>7, HeadAndTail
  <2>. HIDE DEF r
  <2>2. PICK k \in 0..Len(r) : <<g, SubSeq(r, 1, k)>> \in R /\ Lays(t, Drop(r, k), R)
    BY <2>1, LaysFirst DEF g, t
  <2>3. k \in 0..(Len(n) - 1)
    BY <2>1
  <2>4. /\ Drop(r, k) = Drop(n, k + 1) /\ k + 1 \in 0..Len(n)
        /\ SubSeq(r, 1, k) \in PathNames /\ SubSeq(n, 1, k + 1) \in PathNames
        /\ Visible(SubSeq(n, 1, k + 1)) <=> Head(n)[1] # "." /\ Visible(SubSeq(r, 1, k))
    BY <1>4, <1>7, <2>3 DEF r
  <2>. DEFINE m == k + 1
  <2>5. m \in 0..Len(n) /\ <<g, SubSeq(n, 1, m)>> \in R /\ Lays(t, Drop(n, m), R)
    BY <1>2, <1>7, <2>2, <2>4
  <2>. HIDE DEF m
  <2>. QED  BY <1>1, <2>5, LaysMore DEF g, t
<1>. QED  BY <1>5, <1>6, <1>7 DEF R, t

\* Another segment takes the first name.
LEMMA SegLays ==
  ASSUME NEW V, NEW p \in Seq(Texts), p # << >>, Head(p) # GlobStar, NEW n \in PathNames
  PROVE  Lays(p, n, Taking(V)) <=>
           n # << >> /\ MatchSegment(Head(p), Head(n)) \in V /\ Lays(Tail(p), Tail(n), Taking(V))
<1>. DEFINE R == Taking(V)
            g == Head(p)
            t == Tail(p)
            one == 1
<1>1. n \in Seq(Seq(Chars)) /\ g \in Texts /\ t \in Seq(Texts) /\ g # GlobStar /\ Len(n) \in Nat
  BY HeadAndTail, LenProperties DEF PathNames
<1>2. \A ns \in PathNames : <<g, ns>> \in R <=> Len(ns) = 1 /\ MatchSegment(g, ns[1]) \in V
  BY <1>1, TakingIs
<1>3. one = 1
  OBVIOUS
<1>. HIDE DEF R, g, t, one
<1>4. ASSUME NEW k \in 0..Len(n)
      PROVE  SubSeq(n, 1, k) \in PathNames /\ Len(SubSeq(n, 1, k)) = k
             /\ (k = 1 => SubSeq(n, 1, k)[1] = n[1])
  <2>. DEFINE z == 0
  <2>1. z \in Nat /\ z <= k /\ k \in Nat /\ k <= Len(n) /\ z = 0 /\ z + 1 = 1 /\ k - z = k
    BY <1>1
  <2>. HIDE DEF z
  <2>2. /\ SubSeq(n, z + 1, k) \in PathNames /\ Len(SubSeq(n, z + 1, k)) = k - z
        /\ \A i \in 1..(k - z) : SubSeq(n, z + 1, k)[i] = n[z + i]
    BY <1>1, <2>1, PieceIs DEF PathNames
  <2>3. k = 1 => 1 \in 1..(k - z) /\ z + 1 = 1
    BY <2>1
  <2>. QED  BY <2>1, <2>2, <2>3
<1>5. n # << >> => Drop(n, one) = Tail(n) /\ Head(n) = n[1] /\ one \in 0..Len(n)
  <2>. SUFFICES ASSUME n # << >> PROVE Drop(n, one) = Tail(n) /\ Head(n) = n[1] /\ one \in 0..Len(n)
    OBVIOUS
  <2>1. Len(n) \in Nat \ {0} /\ Head(n) = n[1] /\ Tail(n) = Drop(n, 1)
    BY <1>1, TailIsDrop, HeadAndTail
  <2>2. 1 \in 0..Len(n)
    BY <2>1
  <2>. QED  BY <1>3, <2>1, <2>2
<1>6. ASSUME Lays(p, n, R)
      PROVE  n # << >> /\ MatchSegment(g, Head(n)) \in V /\ Lays(t, Tail(n), R)
  <2>1. PICK k \in 0..Len(n) : <<g, SubSeq(n, 1, k)>> \in R /\ Lays(t, Drop(n, k), R)
    BY <1>1, <1>6, LaysFirst DEF g, t
  <2>2. k = 1 /\ MatchSegment(g, n[1]) \in V
    BY <1>2, <1>4, <2>1
  <2>3. n # << >>
    <3>1. n = << >> => Len(n) = 0
      BY EmptySeq
    <3>2. Len(n) # 0
      BY <1>1, <2>2
    <3>. QED  BY <3>1, <3>2
  <2>. QED  BY <1>3, <1>5, <2>1, <2>2, <2>3
<1>7. ASSUME n # << >>, MatchSegment(g, Head(n)) \in V, Lays(t, Tail(n), R)
      PROVE  Lays(p, n, R)
  <2>1. <<g, SubSeq(n, 1, one)>> \in R
    BY <1>2, <1>3, <1>4, <1>5, <1>7
  <2>2. Lays(t, Drop(n, one), R) /\ one \in 0..Len(n)
    BY <1>5, <1>7
  <2>. QED  BY <1>1, <2>1, <2>2, LaysMore DEF g, t
<1>. QED  BY <1>6, <1>7 DEF R, g, t

-----------------------------------------------------------------------------
(* What is left of a pattern or a name, and what memo says of it.          *)

Endings(s) == {Drop(s, i) : i \in 0..Len(s)}

LEMMA EndingIs ==
  ASSUME NEW S, NEW s \in Seq(S), NEW i \in 0..Len(s)
  PROVE  /\ Drop(s, i) \in Seq(S) /\ Len(Drop(s, i)) = Len(s) - i
         /\ (Drop(s, i) # << >> => i + 1 \in 1..Len(s) /\ Head(Drop(s, i)) = s[i + 1]
                                   /\ Tail(Drop(s, i)) = Drop(s, i + 1))
<1>. DEFINE l == Len(s)
            d == Drop(s, i)
            one == 1
<1>1. l \in Nat /\ i \in Nat /\ i <= l
  BY LenProperties
<1>. HIDE DEF l
<1>2. d \in Seq(S) /\ Len(d) = l - i /\ \A j \in 1..(l - i) : d[j] = s[i + j]
  BY <1>1, DropType DEF l
<1>3. ASSUME d # << >>
      PROVE  i + 1 \in 1..l /\ Head(d) = s[i + 1] /\ Tail(d) = Drop(s, i + 1)
  <2>. HIDE DEF d
  <2>1. Len(d) \in Nat \ {0} /\ Head(d) = d[1] /\ Tail(d) = Drop(d, one)
    BY <1>2, <1>3, HeadAndTail, TailIsDrop
  <2>2. i + 1 \in 1..l /\ 1 \in 1..(l - i) /\ i < l
    BY <1>1, <1>2, <2>1
  <2>3. d[1] = s[i + 1]
    BY <1>2, <2>2
  <2>4. Drop(d, one) = Drop(s, i + 1)
    <3>. DEFINE b == l - i
    <3>1. one \in Nat /\ b \in Nat /\ one <= b /\ i + b = l /\ one = 1 /\ i + one + 1 = (i + 1) + 1
      BY <1>1, <2>2
    <3>2. Drop(d, one) = SubSeq(d, one + 1, b) /\ Drop(s, i + 1) = SubSeq(s, (i + 1) + 1, l)
      BY <1>2 DEF Drop, l
    <3>. HIDE DEF b, one
    <3>3. i + b <= Len(s)
      BY <1>1, <3>1 DEF l
    <3>4. SubSeq(Drop(s, i), one + 1, b) = SubSeq(s, i + one + 1, i + b)
      BY ZenonT(60), <3>1, <3>3, PiecesOfDrop
    <3>. QED  BY <3>1, <3>2, <3>4 DEF d
  <2>. QED  BY <2>1, <2>2, <2>3, <2>4
<1>. QED  BY <1>2, <1>3 DEF d, l

LEMMA EndingsAre ==
  ASSUME NEW S, NEW s \in Seq(S)
  PROVE  /\ s \in Endings(s)
         /\ \A p \in Endings(s) : p \in Seq(S)
         /\ \A p \in Endings(s) : p # << >> =>
              Tail(p) \in Endings(s) /\ \E i \in 1..Len(s) : Head(p) = s[i]
         /\ \A p, q \in Endings(s) : Len(p) = Len(q) => p = q
<1>1. Len(s) \in Nat
  BY LenProperties
<1>2. s \in Endings(s)
  <2>1. 0 \in 0..Len(s) /\ s = Drop(s, 0)
    BY <1>1, DropNone
  <2>. QED  BY <2>1 DEF Endings
<1>3. ASSUME NEW p \in Endings(s)
      PROVE  /\ p \in Seq(S)
             /\ p # << >> => Tail(p) \in Endings(s) /\ \E i \in 1..Len(s) : Head(p) = s[i]
  <2>1. PICK i \in 0..Len(s) : p = Drop(s, i)
    BY DEF Endings
  <2>2. /\ p \in Seq(S)
        /\ p # << >> => i + 1 \in 1..Len(s) /\ Head(p) = s[i + 1] /\ Tail(p) = Drop(s, i + 1)
    BY <2>1, EndingIs
  <2>. DEFINE j == i + 1
  <2>3. j \in 1..Len(s) => j \in 0..Len(s)
    BY <1>1
  <2>. HIDE DEF j
  <2>4. p # << >> => j \in 1..Len(s) /\ Head(p) = s[j] /\ Tail(p) = Drop(s, j)
    BY <2>2 DEF j
  <2>. QED  BY <2>2, <2>3, <2>4 DEF Endings
<1>4. ASSUME NEW p \in Endings(s), NEW q \in Endings(s), Len(p) = Len(q) PROVE p = q
  <2>1. PICK i \in 0..Len(s) : p = Drop(s, i)
    BY DEF Endings
  <2>2. PICK j \in 0..Len(s) : q = Drop(s, j)
    BY DEF Endings
  <2>. DEFINE l == Len(s)
  <2>3. l - i = l - j /\ i \in 0..l /\ j \in 0..l /\ l \in Nat
    BY <1>1, <1>4, <2>1, <2>2, EndingIs
  <2>. HIDE DEF l
  <2>4. i = j
    BY <2>3
  <2>. QED  BY <2>1, <2>2, <2>4
<1>. QED  BY <1>2, <1>3, <1>4

\* A segment that cannot be read, or that panics, on a segment of the name.
Failing(P, N, v) == \E i \in 1..Len(P), j \in 1..Len(N) : P[i] # GlobStar /\ MatchSegment(P[i], N[j]) = v

\* What a verdict on p and n says: a match is one, with "mismatch" there is none
\* even if what cannot be read took any name, and an error or a panic has its
\* segment.
Right(P, N, p, n, v) ==
  /\ v = "match" => Lays(p, n, Taking({"match"}))
  /\ v = "mismatch" => ~Lays(p, n, Taking({"match", "error", "panic"}))
  /\ v \in {"error", "panic"} => Failing(P, N, v)

\* A memo whose answers are right for what the keys name.
Faithful(P, N, memo) ==
  \A e \in memo, p \in Endings(P), n \in Endings(N) :
    e.key = Key(p, n) => Right(P, N, p, n, e.verdict)

Answers(P, N, call) ==
  call.pat \in Endings(P) /\ call.name \in Endings(N) /\ Faithful(P, N, call.memo) =>
    /\ Right(P, N, call.pat, call.name, MatchSegs[call].verdict)
    /\ Faithful(P, N, MatchSegs[call].memo)

LEMMA PartsOfCall ==
  \A c, p, n, m : c = [pat |-> p, name |-> n, memo |-> m] => c.pat = p /\ c.name = n /\ c.memo = m
OBVIOUS

LEMMA VerdictIs == \A v, m : Verdict(v, m).verdict = v /\ Verdict(v, m).memo = m
BY DEF Verdict

LEMMA RememberIs ==
  ASSUME NEW P \in Seq(Texts), NEW N \in PathNames, NEW p \in Endings(P), NEW n \in Endings(N),
         NEW r \in Results, Right(P, N, p, n, r.verdict), Faithful(P, N, r.memo)
  PROVE  /\ Right(P, N, p, n, Remember(p, n, r).verdict) /\ Faithful(P, N, Remember(p, n, r).memo)
<1>. DEFINE e == [key |-> Key(p, n), verdict |-> r.verdict]
            m == r.memo \cup {e}
<1>1. CASE r.verdict \in {"error", "panic"}
  BY <1>1 DEF Remember
<1>2. CASE r.verdict \notin {"error", "panic"}
  <2>1. Remember(p, n, r) = [r EXCEPT !.memo = m]
    BY <1>2 DEF Remember
  <2>2. \A x : [r EXCEPT !.memo = x].verdict = r.verdict /\ [r EXCEPT !.memo = x].memo = x
    BY DEF Results
  <2>3. Remember(p, n, r).verdict = r.verdict /\ Remember(p, n, r).memo = m
    BY <2>1, <2>2
  <2>4. Faithful(P, N, m)
    <3>. SUFFICES ASSUME NEW x \in m, NEW q \in Endings(P), NEW k \in Endings(N), x.key = Key(q, k)
                  PROVE  Right(P, N, q, k, x.verdict)
      BY DEF Faithful
    <3>1. CASE x \in r.memo
      BY <3>1 DEF Faithful
    <3>2. CASE x = e
      <4>1. Len(q) = Len(p) /\ Len(k) = Len(n) /\ x.verdict = r.verdict
        BY <3>2 DEF Key
      <4>2. q = p /\ k = n
        BY <4>1, EndingsAre DEF PathNames
      <4>. QED  BY <4>1, <4>2
    <3>. QED  BY <3>1, <3>2
  <2>. QED  BY <2>3, <2>4
<1>. QED  BY <1>1, <1>2

LEMMA UnrememberedRight ==
  ASSUME NEW P \in Seq(Texts), NEW N \in PathNames, NEW call \in Calls,
         \A c \in Calls : Rank[c] < Rank[call] => Answers(P, N, c),
         call.pat \in Endings(P), call.name \in Endings(N), Faithful(P, N, call.memo)
  PROVE  LET r == Unremembered(MatchSegs, call)
         IN  r \in Results /\ Right(P, N, call.pat, call.name, r.verdict) /\ Faithful(P, N, r.memo)
<1>. DEFINE r == Unremembered(MatchSegs, call)
            p == call.pat
            n == call.name
<1>. SUFFICES r \in Results /\ Right(P, N, p, n, r.verdict) /\ Faithful(P, N, r.memo)
  OBVIOUS
<1>1. call.memo \in Memos /\ p \in Seq(Texts) /\ n \in PathNames
  BY CallParts
<1>2. /\ p # << >> => Tail(p) \in Endings(P) /\ Head(p) \in Texts /\ \E i \in 1..Len(P) : Head(p) = P[i]
      /\ n # << >> => Tail(n) \in Endings(N) /\ Tail(n) \in PathNames /\ \E i \in 1..Len(N) : Head(n) = N[i]
  BY <1>1, EndingsAre, HeadAndTail DEF PathNames
<1>3. MatchSegs \in [Calls -> Results]
  BY MatchSegsIs
<1>4. CASE p = << >>
  <2>1. r = Verdict(IsMatch(n = << >>), call.memo) /\ IsMatch(n = << >>) \in Verdicts
    BY <1>4, UnrememberedIs DEF IsMatch, Verdicts
  <2>2. \A R : Lays(p, n, R) <=> n = << >>
    BY <1>1, <1>4, LaysNothing DEF PathNames
  <2>3. r.verdict = (IF n = << >> THEN "match" ELSE "mismatch") /\ r.memo = call.memo
    BY <2>1, VerdictIs DEF IsMatch
  <2>. HIDE DEF r
  <2>4. Right(P, N, p, n, r.verdict)
    BY <2>2, <2>3 DEF Right
  <2>5. r \in Results
    BY <1>1, <2>1, VerdictType
  <2>. QED  BY <2>3, <2>4, <2>5 DEF r
<1>5. CASE p # << >> /\ Head(p) = GlobStar
  <2>. DEFINE z == MatchSegs[ZeroCall(call)]
              m == MatchSegs[MoreCall(call, z.memo)]
  <2>1. /\ ZeroCall(call) \in Calls /\ Rank[ZeroCall(call)] < Rank[call]
        /\ ZeroCall(call).pat = Tail(p) /\ ZeroCall(call).name = n /\ ZeroCall(call).memo = call.memo
    BY ZenonT(60), <1>5, ZeroCallIs, PartsOfCall
  <2>2. /\ z \in Results /\ z.memo \in Memos
        /\ Right(P, N, Tail(p), n, z.verdict) /\ Faithful(P, N, z.memo)
    <3>1. z \in Results
      BY <1>3, <2>1
    <3>2. Answers(P, N, ZeroCall(call))
      BY <2>1
    <3>. QED  BY <1>2, <1>5, <2>1, <3>1, <3>2 DEF Answers, Results
  <2>3. r = IF z.verdict # "mismatch" \/ n = << >> \/ Head(n)[1] = "." THEN z ELSE m
    BY <1>5, UnrememberedIs
  <2>. HIDE DEF r, z, m
  <2>4. \A V : Lays(p, n, Taking(V)) <=>
                 \/ Lays(Tail(p), n, Taking(V))
                 \/ n # << >> /\ Head(n)[1] # "." /\ Lays(p, Tail(n), Taking(V))
    BY <1>1, <1>5, StarLays
  <2>5. CASE z.verdict # "mismatch"
    <3>1. r = z
      BY <2>3, <2>5
    <3>2. Right(P, N, p, n, z.verdict)
      BY <2>2, <2>4, <2>5 DEF Right
    <3>. QED  BY <2>2, <3>1, <3>2 DEF r
  <2>6. CASE z.verdict = "mismatch" /\ (n = << >> \/ Head(n)[1] = ".")
    <3>1. r = z
      BY <2>3, <2>6
    <3>2. Right(P, N, p, n, z.verdict)
      BY <2>2, <2>4, <2>6 DEF Right
    <3>. QED  BY <2>2, <3>1, <3>2 DEF r
  <2>7. CASE z.verdict = "mismatch" /\ ~(n = << >> \/ Head(n)[1] = ".")
    <3>1. r = m
      BY <2>3, <2>7
    <3>. DEFINE c == MoreCall(call, z.memo)
    <3>2. /\ c \in Calls /\ Rank[c] < Rank[call] /\ c.pat = p /\ c.name = Tail(n) /\ c.memo = z.memo
      <4>1. c = [pat |-> call.pat, name |-> Tail(call.name), memo |-> z.memo]
        BY <2>2, <2>7, MoreCallIs
      <4>2. c \in Calls /\ Rank[c] < Rank[call]
        BY <2>2, <2>7, MoreCallIs
      <4>. HIDE DEF c
      <4>. QED  BY <4>1, <4>2, PartsOfCall
    <3>. HIDE DEF c
    <3>3. m \in Results /\ m = MatchSegs[c]
      BY <1>3, <3>2 DEF m, c
    <3>4. Answers(P, N, c)
      BY <3>2
    <3>5. Right(P, N, p, Tail(n), m.verdict) /\ Faithful(P, N, m.memo)
      BY <1>2, <2>2, <2>7, <3>2, <3>3, <3>4 DEF Answers
    <3>6. Right(P, N, p, n, m.verdict)
      BY <2>2, <2>4, <2>7, <3>5 DEF Right
    <3>. QED  BY <3>1, <3>3, <3>5, <3>6 DEF r
  <2>. QED  BY <2>5, <2>6, <2>7
<1>6. CASE p # << >> /\ Head(p) # GlobStar /\ n = << >>
  <2>1. r = Verdict("mismatch", call.memo)
    BY <1>6, UnrememberedIs
  <2>2. \A V : ~Lays(p, n, Taking(V))
    BY <1>1, <1>6, SegLays
  <2>3. r.verdict = "mismatch" /\ r.memo = call.memo /\ r \in Results
    <3>1. "mismatch" \in Verdicts
      BY DEF Verdicts
    <3>. QED  BY <1>1, <2>1, <3>1, VerdictIs, VerdictType
  <2>. HIDE DEF r
  <2>4. Right(P, N, p, n, r.verdict)
    BY <2>2, <2>3 DEF Right
  <2>. QED  BY <2>3, <2>4 DEF r
<1>7. CASE p # << >> /\ Head(p) # GlobStar /\ n # << >>
  <2>. DEFINE one == MatchSegment(Head(p), Head(n))
  <2>1. one \in Verdicts
    BY <1>2, <1>7, MatchSegmentType
  <2>2. \A V : Lays(p, n, Taking(V)) <=>
                 n # << >> /\ one \in V /\ Lays(Tail(p), Tail(n), Taking(V))
    BY <1>1, <1>7, SegLays
  <2>3. r = IF one # "match" THEN Verdict(one, call.memo) ELSE MatchSegs[NextCall(call)]
    BY <1>7, UnrememberedIs
  <2>4. one \in {"error", "panic"} => Failing(P, N, one)
    BY <1>2, <1>7 DEF Failing
  <2>. HIDE DEF r, one
  <2>5. CASE one # "match"
    <3>1. r.verdict = one /\ r.memo = call.memo /\ r \in Results
      BY <1>1, <2>1, <2>3, <2>5, VerdictIs, VerdictType
    <3>2. Right(P, N, p, n, r.verdict)
      BY <2>2, <2>4, <2>5, <3>1 DEF Right
    <3>. QED  BY <3>1, <3>2 DEF r
  <2>6. CASE one = "match"
    <3>. DEFINE c == NextCall(call)
    <3>1. /\ c \in Calls /\ Rank[c] < Rank[call] /\ c.pat = Tail(p) /\ c.name = Tail(n)
          /\ c.memo = call.memo
      <4>1. c = [pat |-> Tail(call.pat), name |-> Tail(call.name), memo |-> call.memo]
        BY <1>7, NextCallIs
      <4>2. c \in Calls /\ Rank[c] < Rank[call]
        BY <1>7, NextCallIs
      <4>. HIDE DEF c
      <4>. QED  BY <4>1, <4>2, PartsOfCall
    <3>2. r = MatchSegs[c]
      BY <2>3, <2>6
    <3>. HIDE DEF c
    <3>3. r \in Results
      BY <1>3, <3>1, <3>2
    <3>4. Answers(P, N, c)
      BY <3>1
    <3>5. Right(P, N, Tail(p), Tail(n), r.verdict) /\ Faithful(P, N, r.memo)
      BY <1>2, <1>7, <3>1, <3>2, <3>4 DEF Answers
    <3>6. Right(P, N, p, n, r.verdict)
      BY <1>7, <2>2, <2>6, <3>5 DEF Right
    <3>. QED  BY <3>3, <3>5, <3>6 DEF r
  <2>. QED  BY <2>5, <2>6
<1>. QED  BY <1>4, <1>5, <1>6, <1>7

LEMMA SegsAnswer ==
  ASSUME NEW P \in Seq(Texts), NEW N \in PathNames
  PROVE  \A call \in Calls : Answers(P, N, call)
<1>. DEFINE T == {c \in Calls : Answers(P, N, c)}
<1>1. ASSUME NEW call \in Calls, \A c \in Calls : Rank[c] < Rank[call] => c \in T
      PROVE  call \in T
  <2>. SUFFICES ASSUME call.pat \in Endings(P), call.name \in Endings(N), Faithful(P, N, call.memo)
                PROVE  /\ Right(P, N, call.pat, call.name, MatchSegs[call].verdict)
                       /\ Faithful(P, N, MatchSegs[call].memo)
    BY DEF Answers
  <2>1. MatchSegs[call] = MatchSegsStep(MatchSegs, call)
    BY MatchSegsIs
  <2>2. CASE Known(call) # {}
    <3>. DEFINE e == CHOOSE e \in Known(call) : TRUE
    <3>1. MatchSegs[call] = Verdict(e.verdict, call.memo)
      BY <2>1, <2>2 DEF MatchSegsStep
    <3>2. e \in Known(call)
      BY <2>2
    <3>. HIDE DEF e
    <3>3. e \in call.memo /\ e.key = Key(call.pat, call.name)
      BY <3>2 DEF Known
    <3>4. Right(P, N, call.pat, call.name, e.verdict)
      BY <3>3 DEF Faithful
    <3>. QED  BY <3>1, <3>4, VerdictIs
  <2>3. CASE Known(call) = {}
    <3>. DEFINE r == Unremembered(MatchSegs, call)
    <3>1. MatchSegs[call] = Remember(call.pat, call.name, r)
      BY <2>1, <2>3 DEF MatchSegsStep
    <3>2. \A c \in Calls : Rank[c] < Rank[call] => Answers(P, N, c)
      BY <1>1
    <3>3. r \in Results /\ Right(P, N, call.pat, call.name, r.verdict) /\ Faithful(P, N, r.memo)
      BY <3>2, UnrememberedRight
    <3>. HIDE DEF r
    <3>. QED  BY <3>1, <3>3, RememberIs
  <2>. QED  BY <2>2, <2>3
<1>. HIDE DEF T
<1>2. Calls \subseteq T
  <2>1. Rank \in [Calls -> Nat]
    BY RankType DEF Maps
  <2>. QED  BY <1>1, <2>1, SizeInduction
<1>. QED  BY <1>2 DEF T

\* matchSegs, as Match calls it: memo only ever holds answers that are right, so
\* that "match" means the segments can be laid over the name, "mismatch" that they
\* cannot, whatever the ones that cannot be read took, and an error or a panic is
\* that of a segment on a segment of the name.
THEOREM SegmentsAreLaid ==
  ASSUME NEW P \in Seq(Texts), NEW N \in PathNames
  PROVE  LET v == MatchSegs[[pat |-> P, name |-> N, memo |-> {}]].verdict
         IN  v \in Verdicts /\ Right(P, N, P, N, v)
<1>. DEFINE call == [pat |-> P, name |-> N, memo |-> {}]
<1>1. call \in Calls /\ call.pat = P /\ call.name = N /\ call.memo = {}
  BY DEF Calls, PathNames, Texts, Memos
<1>2. P \in Endings(P) /\ N \in Endings(N)
  BY EndingsAre DEF PathNames
<1>. HIDE DEF call
<1>3. Faithful(P, N, call.memo)
  BY <1>1 DEF Faithful
<1>4. Answers(P, N, call)
  BY <1>1, SegsAnswer
<1>5. MatchSegs[call] \in Results
  BY <1>1, MatchSegsIs
<1>6. MatchSegs[call].verdict \in Verdicts /\ Right(P, N, P, N, MatchSegs[call].verdict)
  BY <1>1, <1>2, <1>3, <1>4, <1>5 DEF Answers, Results
<1>. QED  BY <1>6 DEF call

-----------------------------------------------------------------------------
(* Texts that begin with one, two or three given characters.               *)

LEMMA After1 ==
  ASSUME NEW a \in Symbols, NEW v \in Texts
  PROVE  LET q == <<a>> \o v
         IN  /\ q \in Texts /\ q # << >> /\ q[1] = a /\ Tail(q) = v /\ Drop(q, 1) = v
             /\ Len(q) = 1 + Len(v) /\ Len(v) \in Nat /\ (v # << >> => q[2] = v[1] /\ Len(q) > 1)
<1>. DEFINE t == <<a>>
            q == t \o v
            n == 1
<1>1. t \in Texts /\ Len(t) = n /\ t[n] = a
  BY BasicTexts
<1>3. n \in 1..n /\ n + n = 2 /\ n = 1
  OBVIOUS
<1>. HIDE DEF t, n
<1>2. /\ q \in Texts /\ Len(v) \in Nat /\ Len(q) = Len(t) + Len(v)
      /\ \A i \in 1..Len(t) : q[i] = t[i]
      /\ \A i \in 1..Len(v) : q[Len(t) + i] = v[i]
      /\ Drop(q, Len(t)) = v
  BY ZenonT(60), <1>1, DropConcat DEF Texts
<1>. HIDE DEF q
<1>4. q[1] = a /\ Drop(q, 1) = v /\ Len(q) = 1 + Len(v)
  BY <1>1, <1>2, <1>3
<1>5. q # << >>
  <2>1. Len(q) # 0
    <3>. DEFINE l == Len(v)
    <3>1. l \in Nat /\ Len(q) = 1 + l
      BY <1>2, <1>4
    <3>. HIDE DEF l
    <3>. QED  BY <3>1
  <2>. QED  BY <2>1, EmptySeq
<1>6. Tail(q) = v
  BY <1>2, <1>4, <1>5, TailIsDrop DEF Texts
<1>7. v # << >> => q[2] = v[1] /\ Len(q) > 1
  <2>. SUFFICES ASSUME v # << >> PROVE q[2] = v[1] /\ Len(q) > 1
    OBVIOUS
  <2>. DEFINE l == Len(v)
  <2>1. l \in Nat /\ l # 0 /\ Len(q) = 1 + l
    BY <1>2, <1>4, EmptySeq DEF Texts
  <2>. HIDE DEF l
  <2>2. n \in 1..l /\ Len(q) > 1
    BY <1>3, <2>1
  <2>3. q[n + n] = v[n]
    BY <1>1, <1>2, <2>2 DEF l
  <2>. QED  BY <1>3, <2>2, <2>3
<1>. QED  BY <1>2, <1>4, <1>5, <1>6, <1>7 DEF q, t

LEMMA TwoJoined ==
  ASSUME NEW S, NEW a \in S, NEW b \in S
  PROVE  <<a>> \o <<b>> = <<a, b>>
<1>. DEFINE r == <<a>>
            d == <<b>>
            s == <<a, b>>
            t == r \o d
<1>1. /\ r \in Seq(S) /\ Len(r) = 1 /\ r[1] = a /\ d \in Seq(S) /\ Len(d) = 1 /\ d[1] = b
      /\ s \in Seq(S) /\ Len(s) = 2 /\ s[1] = a /\ s[2] = b
  OBVIOUS
<1>. HIDE DEF r, d, s
<1>2. /\ t \in Seq(S) /\ Len(t) = Len(r) + Len(d)
      /\ \A i \in 1..(Len(r) + Len(d)) : t[i] = IF i <= Len(r) THEN r[i] ELSE d[i - Len(r)]
  BY <1>1, ConcatProperties
<1>. HIDE DEF t
<1>3. Len(t) = 2 /\ \A i \in 1..2 : t[i] = IF i <= 1 THEN r[i] ELSE d[i - 1]
  BY <1>1, <1>2
<1>4. t[1] = a /\ t[2] = b
  BY <1>1, <1>3
<1>5. \A i \in 1..Len(t) : t[i] = s[i]
  BY <1>1, <1>3, <1>4
<1>6. t = s
  BY <1>1, <1>2, <1>3, <1>5, SeqEqual
<1>. QED  BY <1>6 DEF t, r, d, s

LEMMA ThreeJoined ==
  ASSUME NEW S, NEW a \in S, NEW b \in S, NEW c \in S
  PROVE  <<a, b>> \o <<c>> = <<a, b, c>> /\ <<a>> \o <<b, c>> = <<a, b, c>>
<1>. DEFINE r == <<a>>
            d == <<b>>
            e == <<c>>
            x == <<a, b>>
            s == <<a, b, c>>
            t == x \o e
<1>1. /\ r \in Seq(S) /\ d \in Seq(S) /\ e \in Seq(S) /\ Len(e) = 1 /\ e[1] = c
      /\ x \in Seq(S) /\ Len(x) = 2 /\ x[1] = a /\ x[2] = b
      /\ s \in Seq(S) /\ Len(s) = 3 /\ s[1] = a /\ s[2] = b /\ s[3] = c
  OBVIOUS
<1>2. r \o d = x /\ d \o e = <<b, c>>
  BY TwoJoined
<1>. HIDE DEF r, d, e, x, s
<1>3. /\ t \in Seq(S) /\ Len(t) = Len(x) + Len(e)
      /\ \A i \in 1..(Len(x) + Len(e)) : t[i] = IF i <= Len(x) THEN x[i] ELSE e[i - Len(x)]
  BY <1>1, ConcatProperties
<1>. HIDE DEF t
<1>4. Len(t) = 3 /\ \A i \in 1..3 : t[i] = IF i <= 2 THEN x[i] ELSE e[i - 2]
  BY <1>1, <1>3
<1>5. t[1] = a /\ t[2] = b /\ t[3] = c
  BY <1>1, <1>4
<1>6. \A i \in 1..Len(t) : t[i] = s[i]
  BY <1>1, <1>4, <1>5
<1>7. t = s
  BY <1>1, <1>3, <1>4, <1>6, SeqEqual
<1>8. (r \o d) \o e = r \o (d \o e)
  <2>1. Associates(r, d, e)
    BY <1>1, ConcatAssociates
  <2>. QED  BY <2>1 DEF Associates
<1>9. x \o e = s /\ r \o <<b, c>> = s
  BY <1>2, <1>7, <1>8 DEF t
<1>. QED  BY <1>9 DEF r, e, x, s

LEMMA After2 ==
  ASSUME NEW a \in Symbols, NEW b \in Symbols, NEW v \in Texts
  PROVE  LET q == <<a, b>> \o v
         IN  /\ q \in Texts /\ q # << >> /\ q[1] = a /\ q[2] = b /\ Len(q) > 1 /\ Len(q) = 2 + Len(v)
             /\ Drop(q, 2) = v /\ <<b>> \o v \in Texts /\ <<a, b>> \in Texts
<1>. DEFINE t == <<a>>
            u == <<b>>
            w == u \o v
            q == t \o w
            one == 1
<1>1. t \in Texts /\ u \in Texts /\ t \o u = <<a, b>> /\ <<a, b>> \in Texts
  <2>1. t \in Texts /\ u \in Texts /\ <<a, b>> \in Texts
    BY BasicTexts
  <2>2. t \o u = <<a, b>>
    BY TwoJoined
  <2>. QED  BY <2>1, <2>2
<1>2. w \in Texts /\ w[1] = b /\ w # << >> /\ Len(w) = 1 + Len(v) /\ Len(v) \in Nat /\ Drop(w, 1) = v
  BY After1
<1>. HIDE DEF w
<1>3. /\ q \in Texts /\ q # << >> /\ q[1] = a /\ Drop(q, 1) = w /\ Len(q) = 1 + Len(w)
      /\ q[2] = b /\ Len(q) > 1
  BY <1>2, After1
<1>4. q = (t \o u) \o v
  BY <1>1, ConcatAssociative DEF w, Texts
<1>. HIDE DEF q, t, u
<1>5. Len(q) = 2 + Len(v)
  BY <1>2, <1>3
<1>6. Drop(q, 2) = v
  <2>. DEFINE x == <<a, b>>
              n == 2
  <2>1. x \in Texts /\ Len(x) = n
    BY <1>1
  <2>. HIDE DEF x
  <2>2. Drop(x \o v, Len(x)) = v
    BY <2>1, DropConcat DEF Texts
  <2>. QED  BY <1>1, <1>4, <2>1, <2>2 DEF x
<1>7. q = <<a, b>> \o v
  BY <1>1, <1>4
<1>. QED  BY <1>1, <1>2, <1>3, <1>5, <1>6, <1>7 DEF q, t, w, u

LEMMA Nested2 ==
  ASSUME NEW a \in Symbols, NEW b \in Symbols, NEW v \in Texts
  PROVE  <<a, b>> \o v = <<a>> \o (<<b>> \o v)
<1>. DEFINE t == <<a>>
            u == <<b>>
<1>1. t \in Texts /\ u \in Texts
  BY BasicTexts
<1>2. t \o u = <<a, b>>
  BY TwoJoined
<1>. HIDE DEF t, u
<1>3. (t \o u) \o v = t \o (u \o v)
  <2>1. Associates(t, u, v)
    BY <1>1, ConcatAssociates DEF Texts
  <2>. QED  BY <2>1 DEF Associates
<1>. QED  BY <1>2, <1>3 DEF t, u

LEMMA After3 ==
  ASSUME NEW a \in Symbols, NEW b \in Symbols, NEW c \in Symbols, NEW v \in Texts
  PROVE  LET q == <<a, b, c>> \o v
         IN  /\ q \in Texts /\ q # << >> /\ q[1] = a /\ q[2] = b /\ Len(q) = 3 + Len(v)
             /\ Drop(q, 1) = <<b, c>> \o v /\ Drop(q, 2) = <<c>> \o v /\ Drop(q, 3) = v
             /\ q = <<a>> \o (<<b>> \o (<<c>> \o v)) /\ <<b, c>> \o v \in Texts /\ <<c>> \o v \in Texts
             /\ <<a, b, c>> \in Texts
<1>. DEFINE t == <<a>>
            u == <<b, c>>
            w == u \o v
            q == t \o w
            d == <<a, b>>
            e == <<c>>
            m == e \o v
            y == <<a, b, c>>
<1>1. /\ t \in Texts /\ u \in Texts /\ t \o u = y /\ d \in Texts /\ e \in Texts /\ d \o e = y
      /\ Len(y) = 3
  <2>1. t \in Texts /\ u \in Texts /\ d \in Texts /\ e \in Texts
    BY BasicTexts
  <2>2. t \o u = y
    BY ThreeJoined
  <2>3. d \o e = y
    BY ThreeJoined
  <2>4. Len(y) = 3
    OBVIOUS
  <2>. QED  BY <2>1, <2>2, <2>3, <2>4
<1>2. y \in Texts
  BY <1>1, ConcatProperties DEF Texts
<1>3. /\ w \in Texts /\ w # << >> /\ w[1] = b /\ Len(w) = 2 + Len(v) /\ w = <<b>> \o m /\ m \in Texts
  <2>1. LET r == <<b, c>> \o v
        IN  /\ r \in Texts /\ r # << >> /\ r[1] = b /\ Len(r) = 2 + Len(v) /\ <<c>> \o v \in Texts
    BY After2
  <2>2. <<b, c>> \o v = <<b>> \o (<<c>> \o v)
    BY Nested2
  <2>. QED  BY <2>1, <2>2
<1>. HIDE DEF w
<1>4. /\ q \in Texts /\ q # << >> /\ q[1] = a /\ Drop(q, 1) = w /\ Len(q) = 1 + Len(w) /\ q[2] = b
  BY <1>3, After1
<1>5. Drop(d \o m, 2) = m
  <2>1. m \in Texts
    BY <1>3
  <2>. HIDE DEF m
  <2>. DEFINE k == 2
  <2>2. d \in Texts /\ Len(d) = k
    BY <1>1
  <2>. HIDE DEF d, k
  <2>3. Drop(d \o m, Len(d)) = m
    BY <2>1, <2>2, DropConcat DEF Texts
  <2>. QED  BY <2>2, <2>3 DEF k
<1>6. q = y \o v /\ d \o m = y \o v
  BY <1>1, ConcatAssociative DEF w, m, q, Texts
<1>. HIDE DEF y, d, e, m, q, t, u
<1>7. Drop(y \o v, 3) = v
  <2>1. Drop(y \o v, Len(y)) = v
    BY <1>2, DropConcat DEF Texts
  <2>. QED  BY <1>1, <2>1
<1>8. Len(q) = 3 + Len(v)
  <2>. DEFINE l == Len(v)
  <2>1. Len(q) = 1 + (2 + l) /\ l \in Nat
    BY <1>3, <1>4, LenProperties DEF Texts
  <2>. HIDE DEF l
  <2>2. Len(q) = 3 + l
    BY <2>1
  <2>. QED  BY <2>2 DEF l
<1>9. q = <<a>> \o (<<b>> \o m)
  BY <1>3 DEF q, t
<1>10. Drop(q, 2) = m
  BY <1>5, <1>6
<1>11. Drop(q, 1) = w /\ Drop(q, 3) = v
  BY <1>4, <1>6, <1>7
<1>. QED  BY <1>2, <1>3, <1>4, <1>6, <1>8, <1>9, <1>10, <1>11 DEF q, w, u, m, e, y

LEMMA PairText ==
  ASSUME NEW a \in Symbols, NEW b \in Symbols
  PROVE  <<a, b>> \in Texts /\ Len(<<a, b>>) = 2 /\ <<a, b>>[1] = a /\ <<a, b>>[2] = b
<1>1. <<a, b>> \in Texts
  BY BasicTexts
<1>. QED  BY <1>1

LEMMA TripleText ==
  ASSUME NEW a \in Symbols, NEW b \in Symbols, NEW c \in Symbols
  PROVE  /\ <<a, b, c>> \in Texts /\ Len(<<a, b, c>>) = 3
         /\ <<a, b, c>>[1] = a /\ <<a, b, c>>[2] = b /\ <<a, b, c>>[3] = c
<1>. DEFINE s == <<a, b>>
            t == <<c>>
<1>1. s \in Texts /\ t \in Texts
  BY BasicTexts
<1>2. s \o t = <<a, b, c>>
  BY ThreeJoined
<1>. HIDE DEF s, t
<1>3. s \o t \in Texts
  BY <1>1, ConcatProperties DEF Texts
<1>. QED  BY <1>2, <1>3

\* The same, of a text that is given whole.
LEMMA AfterText ==
  ASSUME NEW t \in Texts, t # << >>, NEW v \in Texts
  PROVE  /\ t \o v \in Texts /\ t \o v # << >>
         /\ \A i \in 1..Len(t) : (t \o v)[i] = t[i]
         /\ Len(t \o v) = Len(t) + Len(v) /\ Len(t) \in Nat /\ Len(v) \in Nat /\ Len(t) >= 1
         /\ Drop(t \o v, Len(t)) = v
         /\ (v # << >> => (t \o v)[Len(t) + 1] = v[1] /\ Len(v) >= 1)
         /\ (t \o v)[1] = t[1]
<1>. DEFINE q == t \o v
            k == Len(t)
            m == Len(v)
            one == 1
<1>1. /\ q \in Texts /\ m \in Nat /\ k \in Nat /\ Len(q) = k + m
      /\ \A i \in 1..k : q[i] = t[i]
      /\ \A i \in 1..m : q[k + i] = v[i]
      /\ Drop(q, k) = v
  BY DropConcat DEF Texts
<1>2. k >= 1 /\ (v # << >> => m >= 1)
  BY Leading
<1>. HIDE DEF q, k, m
<1>3. Len(q) # 0 /\ one \in 1..k /\ (v # << >> => one \in 1..m) /\ one = 1
  BY <1>1, <1>2
<1>. HIDE DEF one
<1>4. q[one] = t[one] /\ (v # << >> => q[k + one] = v[one])
  BY <1>1, <1>3
<1>5. q # << >>
  BY <1>3, EmptySeq
<1>. QED  BY <1>1, <1>2, <1>3, <1>4, <1>5 DEF q, k, m

LEMMA AfterPair ==
  ASSUME NEW t \in Texts, Len(t) = 2, NEW v \in Texts
  PROVE  /\ t \o v \in Texts /\ t \o v # << >> /\ (t \o v)[1] = t[1] /\ (t \o v)[2] = t[2]
         /\ Len(t \o v) > 1 /\ Drop(t \o v, 2) = v /\ Len(t \o v) = 2 + Len(v)
         /\ (v # << >> => (t \o v)[3] = v[1] /\ Len(t \o v) > 2)
<1>. DEFINE q == t \o v
            k == Len(t)
            m == Len(v)
            two == 2
<1>1. t # << >> /\ k = two /\ two = 2 /\ two \in 1..two /\ two + 1 = 3
  BY EmptySeq
<1>. HIDE DEF two
<1>2. /\ q \in Texts /\ q # << >> /\ \A i \in 1..k : q[i] = t[i]
      /\ Len(q) = k + m /\ m \in Nat /\ Drop(q, k) = v /\ q[1] = t[1]
      /\ (v # << >> => q[k + 1] = v[1] /\ m >= 1)
  BY <1>1, AfterText
<1>. HIDE DEF q, k, m
<1>3. q[two] = t[two] /\ Drop(q, two) = v
  BY <1>1, <1>2
<1>4. Len(q) > 1 /\ Len(q) = 2 + m /\ (m >= 1 => Len(q) > 2)
  BY <1>1, <1>2
<1>5. v # << >> => q[3] = v[1]
  BY <1>1, <1>2
<1>. QED  BY <1>1, <1>2, <1>3, <1>4, <1>5 DEF q, m

LEMMA AfterTriple ==
  ASSUME NEW t \in Texts, Len(t) = 3, NEW v \in Texts
  PROVE  /\ t \o v \in Texts /\ t \o v # << >> /\ (t \o v)[1] = t[1] /\ (t \o v)[2] = t[2]
         /\ (t \o v)[3] = t[3] /\ Len(t \o v) > 2 /\ Drop(t \o v, 3) = v
<1>. DEFINE q == t \o v
            k == Len(t)
            m == Len(v)
            two == 2
            three == 3
<1>1. t # << >> /\ k = three /\ two = 2 /\ three = 3 /\ two \in 1..three /\ three \in 1..three
  BY EmptySeq
<1>. HIDE DEF two, three
<1>2. /\ q \in Texts /\ q # << >> /\ \A i \in 1..k : q[i] = t[i]
      /\ Len(q) = k + m /\ m \in Nat /\ Drop(q, k) = v /\ q[1] = t[1]
  BY <1>1, AfterText
<1>. HIDE DEF q, k, m
<1>3. q[two] = t[two] /\ q[three] = t[three] /\ Drop(q, three) = v
  BY <1>1, <1>2
<1>4. Len(q) > 2
  BY <1>1, <1>2
<1>. QED  BY <1>1, <1>2, <1>3, <1>4 DEF q

-----------------------------------------------------------------------------
(* One range of a class, before something that does not make it a longer   *)
(* one.                                                                    *)

LEMMA CodeOf == \A c \in Chars : Code(c) \in Nat /\ Alphabet[Code(c)] = c
<1>. TAKE c \in Chars
<1>1. \E i \in DOMAIN Alphabet : Alphabet[i] = c
  BY DEF Chars, ToSet
<1>2. Code(c) \in DOMAIN Alphabet /\ Alphabet[Code(c)] = c
  BY <1>1 DEF Code
<1>3. DOMAIN Alphabet = 1..Len(Alphabet) /\ Len(Alphabet) \in Nat
  BY AlphabetAssumption, LenProperties
<1>. QED  BY <1>2, <1>3

LEMMA UptoSame == \A c \in Chars : Upto(c, c) = {c}
<1>. TAKE c \in Chars
<1>1. ASSUME NEW d \in Chars, Code(c) <= Code(d), Code(d) <= Code(c) PROVE d = c
  <2>1. Code(c) \in Nat /\ Code(d) \in Nat
    BY CodeOf
  <2>2. Code(c) = Code(d)
    BY <1>1, <2>1
  <2>. QED  BY <2>2, CodeOf
<1>2. Code(c) <= Code(c)
  <2>1. Code(c) \in Nat
    BY CodeOf
  <2>. QED  BY <2>1
<1>. QED  BY <1>1, <1>2 DEF Upto

LEMMA EscOf ==
  ASSUME NEW q \in Texts, q # << >>, q[1] \notin {"-", "]"}
  PROVE  /\ q[1] # "\\" => Esc(q) = [n |-> 1, c |-> q[1]]
         /\ q[1] = "\\" /\ Len(q) > 1 => Esc(q) = [n |-> 2, c |-> q[2]]
<1>1. Len(q) > 1 => Len(q) # 1
  <2>. DEFINE l == Len(q)
  <2>1. l \in Nat
    BY LenProperties DEF Texts
  <2>. HIDE DEF l
  <2>2. l > 1 => l # 1
    BY <2>1
  <2>. QED  BY <2>2 DEF l
<1>. QED  BY <1>1 DEF Esc

\* What Ranges says when its first range is set and v comes after it.
RangeThen(set, v) ==
  IF v[1] = "]" THEN [ok |-> TRUE, set |-> set, rest |-> Tail(v)]
  ELSE IF Ranges[v].ok THEN [Ranges[v] EXCEPT !.set = @ \cup set] ELSE Ranges[v]

LEMMA SingleRange ==
  ASSUME NEW q \in Texts, NEW n \in {1, 2}, NEW c, Esc(q) = [n |-> n, c |-> c],
         NEW v \in Texts, v # << >>, Drop(q, n) = v, q[n + 1] # "-"
  PROVE  Ranges[q] = RangeThen(Upto(c, c), v)
<1>1. Esc(q).n = n /\ Esc(q).c = c /\ n # 0
  OBVIOUS
<1>2. ~(Len(q) > Esc(q).n /\ q[Esc(q).n + 1] = "-")
  BY <1>1
<1>3. Ranges[q] = RangesStep(Ranges, q)
  BY RangesIs
<1>. QED  BY <1>1, <1>2, <1>3 DEF RangesStep, RangeThen

LEMMA DoubleRange ==
  ASSUME NEW q \in Texts, NEW lo, NEW hi, Esc(q) = [n |-> 1, c |-> lo], Len(q) > 1, q[2] = "-",
         Esc(Drop(q, 2)) = [n |-> 1, c |-> hi],
         NEW v \in Texts, v # << >>, Drop(q, 3) = v
  PROVE  Ranges[q] = RangeThen(Upto(lo, hi), v)
<1>1. Esc(q).n = 1 /\ Esc(q).c = lo /\ 1 + 1 = 2
  OBVIOUS
<1>2. Len(q) > Esc(q).n /\ q[Esc(q).n + 1] = "-"
  BY <1>1
<1>. DEFINE h == Esc(Drop(q, Esc(q).n + 1))
<1>3. h.n = 1 /\ h.c = hi /\ h.n # 0
  BY <1>1
<1>4. Drop(q, Esc(q).n + 1 + h.n) = v
  <2>1. Esc(q).n + 1 + h.n = 3
    BY <1>1, <1>3
  <2>. QED  BY <2>1
<1>. HIDE DEF h
<1>5. Ranges[q] = RangesStep(Ranges, q)
  BY RangesIs
<1>. QED  BY <1>1, <1>2, <1>3, <1>4, <1>5 DEF RangesStep, RangeThen, h

-----------------------------------------------------------------------------
(* Sequences of ranges, up to the bracket that ends them.                  *)

SingleUnits == {[text |-> <<c>>, set |-> {c}] : c \in Chars \ {"\\", "-", "]"}}
QuotedUnits == {[text |-> <<"\\", c>>, set |-> {c}] : c \in Chars}
RangeUnits  == {[text |-> <<lo, "-", hi>>, set |-> Upto(lo, hi)] :
                  lo \in Chars \ {"\\", "-", "]"}, hi \in Chars \ {"\\", "-", "]"}}
Units       == SingleUnits \cup QuotedUnits \cup RangeUnits

LEMMA CharSymbols == Chars \subseteq Symbols /\ {"\\", "-", "]", "[", "^", "!", ":", "*", "?", "/", "{", "}", ",", "."} \subseteq Symbols
BY CharsAreSymbols, SymbolsHas

LEMMA UnitType ==
  ASSUME NEW u \in Units
  PROVE  /\ u.text \in Texts /\ u.text # << >> /\ u.text[1] \in Symbols \ {"-", "]"}
         /\ u.set \in SUBSET Chars
<1>1. CASE u \in SingleUnits
  <2>1. PICK c \in Chars \ {"\\", "-", "]"} : u = [text |-> <<c>>, set |-> {c}]
    BY <1>1 DEF SingleUnits
  <2>2. <<c>> \in Texts /\ c \in Symbols
    BY CharSymbols, BasicTexts
  <2>. QED  BY <2>1, <2>2
<1>2. CASE u \in QuotedUnits
  <2>1. PICK c \in Chars : u = [text |-> <<"\\", c>>, set |-> {c}]
    BY <1>2 DEF QuotedUnits
  <2>2. <<"\\", c>> \in Texts /\ "\\" \in Symbols
    BY CharSymbols, BasicTexts
  <2>. QED  BY <2>1, <2>2
<1>3. CASE u \in RangeUnits
  <2>1. PICK lo \in Chars \ {"\\", "-", "]"}, hi \in Chars \ {"\\", "-", "]"} :
          u = [text |-> <<lo, "-", hi>>, set |-> Upto(lo, hi)]
    BY <1>3 DEF RangeUnits
  <2>. DEFINE d == "-"
  <2>2. d \in Symbols /\ lo \in Symbols /\ hi \in Symbols
    BY CharSymbols
  <2>. HIDE DEF d
  <2>3. <<lo, d, hi>> \in Texts
    BY <2>2, After3, BasicTexts
  <2>4. Upto(lo, hi) \in SUBSET Chars
    BY DEF Upto
  <2>. QED  BY <2>1, <2>2, <2>3, <2>4 DEF d
<1>. QED  BY <1>1, <1>2, <1>3 DEF Units

\* One unit is one range.
LEMMA UnitRead ==
  ASSUME NEW u \in Units, NEW v \in Texts, v # << >>, v[1] # "-"
  PROVE  Ranges[u.text \o v] = RangeThen(u.set, v)
<1>1. CASE u \in SingleUnits
  <2>1. PICK c \in Chars \ {"\\", "-", "]"} : u = [text |-> <<c>>, set |-> {c}]
    BY <1>1 DEF SingleUnits
  <2>. DEFINE q == <<c>> \o v
              n == 1
  <2>2. c \in Symbols /\ c \notin {"\\", "-", "]"} /\ c \in Chars
    BY CharSymbols
  <2>3. q \in Texts /\ q # << >> /\ q[1] = c /\ Drop(q, 1) = v /\ q[2] = v[1]
    BY <2>2, After1
  <2>. HIDE DEF q
  <2>4. Esc(q) = [n |-> 1, c |-> c]
    BY <2>2, <2>3, EscOf
  <2>5. n \in {1, 2} /\ n = 1 /\ n + 1 = 2
    OBVIOUS
  <2>. HIDE DEF n
  <2>6. Ranges[q] = RangeThen(Upto(c, c), v)
    <3>1. Esc(q) = [n |-> n, c |-> c] /\ Drop(q, n) = v /\ q[n + 1] # "-"
      BY <2>3, <2>4, <2>5
    <3>. QED  BY <2>3, <2>5, <3>1, SingleRange
  <2>7. Upto(c, c) = {c}
    BY <2>2, UptoSame
  <2>. QED  BY <2>1, <2>6, <2>7 DEF q
<1>2. CASE u \in QuotedUnits
  <2>1. PICK c \in Chars : u = [text |-> <<"\\", c>>, set |-> {c}]
    BY <1>2 DEF QuotedUnits
  <2>. DEFINE t == <<"\\", c>>
              q == t \o v
              n == 2
  <2>2. t \in Texts /\ Len(t) = 2 /\ t[1] = "\\" /\ t[2] = c
    <3>1. "\\" \in Symbols /\ c \in Symbols
      BY CharSymbols
    <3>. QED  BY <3>1, PairText
  <2>. HIDE DEF t
  <2>3. q \in Texts /\ q # << >> /\ q[1] = t[1] /\ q[2] = t[2] /\ Len(q) > 1 /\ Drop(q, 2) = v /\ q[3] = v[1]
    BY <2>2, AfterPair
  <2>. HIDE DEF q
  <2>5. Esc(q) = [n |-> 2, c |-> c]
    BY <2>2, <2>3, EscOf
  <2>6. n \in {1, 2} /\ n = 2 /\ n + 1 = 3
    OBVIOUS
  <2>. HIDE DEF n
  <2>7. Ranges[q] = RangeThen(Upto(c, c), v)
    <3>1. Esc(q) = [n |-> n, c |-> c] /\ Drop(q, n) = v /\ q[n + 1] # "-"
      BY <2>3, <2>5, <2>6
    <3>. QED  BY <2>3, <2>6, <3>1, SingleRange
  <2>8. Upto(c, c) = {c}
    BY UptoSame
  <2>. QED  BY <2>1, <2>7, <2>8 DEF q, t
<1>3. CASE u \in RangeUnits
  <2>1. PICK lo \in Chars \ {"\\", "-", "]"}, hi \in Chars \ {"\\", "-", "]"} :
          u = [text |-> <<lo, "-", hi>>, set |-> Upto(lo, hi)]
    BY <1>3 DEF RangeUnits
  <2>. DEFINE d == "-"
              q == <<lo, d, hi>> \o v
              w == <<hi>> \o v
  <2>2. d \in Symbols /\ lo \in Symbols /\ hi \in Symbols
    BY CharSymbols
  <2>3. /\ q \in Texts /\ q # << >> /\ q[1] = lo /\ q[2] = d /\ Drop(q, 2) = w /\ Drop(q, 3) = v
        /\ Len(q) > 2 /\ w \in Texts /\ w # << >> /\ w[1] = hi
    <3>. HIDE DEF d
    <3>. DEFINE t == <<lo, d, hi>>
                s == <<lo, d>>
    <3>1. /\ t \in Texts /\ Len(t) = 3 /\ t[1] = lo /\ t[2] = d /\ s \in Texts /\ Len(s) = 2
          /\ t = s \o <<hi>> /\ <<hi>> \in Texts
      BY <2>2, TripleText, PairText, ThreeJoined, BasicTexts
    <3>2. w \in Texts /\ w # << >> /\ w[1] = hi
      BY <2>2, After1
    <3>. HIDE DEF t, s
    <3>3. /\ q \in Texts /\ q # << >> /\ q[1] = lo /\ q[2] = d /\ Drop(q, 3) = v /\ Len(q) > 2
      BY <3>1, AfterTriple DEF t
    <3>4. q = s \o w
      BY <3>1, ConcatAssociative DEF t, Texts
    <3>. HIDE DEF w
    <3>5. Drop(s \o w, 2) = w
      BY <3>1, <3>2, AfterPair
    <3>. HIDE DEF q
    <3>. QED  BY <3>2, <3>3, <3>4, <3>5
  <2>4. Len(q) > 1
    <3>. DEFINE l == Len(q)
    <3>1. l \in Nat /\ l > 2
      BY <2>3, LenProperties DEF Texts
    <3>. HIDE DEF l
    <3>2. l > 1
      BY <3>1
    <3>. QED  BY <3>2 DEF l
  <2>. HIDE DEF q, w
  <2>5. Esc(q) = [n |-> 1, c |-> lo] /\ Esc(w) = [n |-> 1, c |-> hi]
    BY <2>3, EscOf
  <2>6. Ranges[q] = RangeThen(Upto(lo, hi), v)
    BY <2>3, <2>4, <2>5, DoubleRange
  <2>. QED  BY <2>1, <2>6 DEF q
<1>. QED  BY <1>1, <1>2, <1>3 DEF Units

UnitText  == [u \in Units |-> u.text]
Spelt(us) == FlattenSeq(Mapped(UnitText, us))
Stood(us) == UNION {us[i].set : i \in DOMAIN us}

LEMMA UnitTextIs == Maps(UnitText, Units, Texts) /\ \A u \in Units : UnitText[u] = u.text
BY UnitType DEF Maps, UnitText

LEMMA SpeltIs ==
  /\ Spelt(<< >>) = << >> /\ Stood(<< >>) = {}
  /\ \A us \in Seq(Units) : Spelt(us) \in Texts
  /\ \A us, ws \in Seq(Units) : Spelt(us \o ws) = Spelt(us) \o Spelt(ws)
  /\ \A u \in Units : Spelt(<<u>>) = u.text
<1>1. Spelt(<< >>) = << >> /\ Stood(<< >>) = {}
  <2>1. Mapped(UnitText, << >>) = << >>
    BY DEF Mapped
  <2>. QED  BY <2>1, FlattenEmpty DEF Spelt, Stood
<1>2. \A us \in Seq(Units) : Mapped(UnitText, us) \in Seq(Texts)
  BY UnitTextIs, MappedType
<1>3. \A us \in Seq(Units) : Spelt(us) \in Texts
  BY <1>2, FlattenType DEF Spelt, Texts
<1>4. ASSUME NEW us \in Seq(Units), NEW ws \in Seq(Units)
      PROVE  Spelt(us \o ws) = Spelt(us) \o Spelt(ws)
  <2>1. Mapped(UnitText, us \o ws) = Mapped(UnitText, us) \o Mapped(UnitText, ws)
    BY UnitTextIs, MappedConcat
  <2>. DEFINE a == Mapped(UnitText, us)
              b == Mapped(UnitText, ws)
  <2>2. a \in Seq(Seq(Symbols)) /\ b \in Seq(Seq(Symbols))
    BY <1>2 DEF Texts
  <2>. HIDE DEF a, b
  <2>3. FlattenSeq(a \o b) = FlattenSeq(a) \o FlattenSeq(b)
    BY <2>2, FlattenConcat
  <2>. QED  BY <2>1, <2>3 DEF Spelt, a, b
<1>5. ASSUME NEW u \in Units PROVE Spelt(<<u>>) = u.text
  <2>. DEFINE t == UnitText[u]
  <2>1. Mapped(UnitText, <<u>>) = <<t>>
    BY UnitTextIs, MappedOne
  <2>2. t \in Seq(Symbols) /\ t = u.text
    BY UnitTextIs, UnitType DEF Texts
  <2>. HIDE DEF t
  <2>3. FlattenSeq(<<t>>) = t
    BY <2>2, FlattenOne
  <2>. QED  BY <2>1, <2>2, <2>3 DEF Spelt
<1>. QED  BY <1>1, <1>3, <1>4, <1>5

LEMMA StoodBoth ==
  ASSUME NEW S, NEW us \in Seq(S), NEW ws \in Seq(S)
  PROVE  Stood(us \o ws) = Stood(us) \cup Stood(ws)
<1>. DEFINE vs == us \o ws
            m == Len(us)
            n == Len(ws)
<1>1. /\ vs \in Seq(S) /\ Len(vs) = m + n /\ m \in Nat /\ n \in Nat
      /\ \A i \in 1..m : vs[i] = us[i]
      /\ \A i \in 1..n : vs[m + i] = ws[i]
  BY DropConcat
<1>2. DOMAIN vs = 1..Len(vs) /\ DOMAIN us = 1..m /\ DOMAIN ws = 1..n
  BY <1>1, LenProperties
<1>. HIDE DEF vs, m, n
<1>3. DOMAIN vs = 1..(m + n)
  BY <1>1, <1>2
<1>4. ASSUME NEW x \in Stood(vs) PROVE x \in Stood(us) \cup Stood(ws)
  <2>1. PICK i \in 1..(m + n) : x \in vs[i].set
    BY <1>3, <1>4 DEF Stood
  <2>2. CASE i <= m
    <3>1. i \in 1..m
      BY <1>1, <2>2
    <3>. QED  BY <1>1, <1>2, <2>1, <3>1 DEF Stood
  <2>3. CASE ~(i <= m)
    <3>. DEFINE j == i - m
    <3>1. j \in 1..n /\ m + j = i
      BY <1>1, <2>3
    <3>. HIDE DEF j
    <3>2. vs[i] = ws[j]
      BY <1>1, <3>1
    <3>. QED  BY <1>2, <2>1, <3>1, <3>2 DEF Stood
  <2>. QED  BY <2>2, <2>3
<1>5. ASSUME NEW x \in Stood(us) PROVE x \in Stood(vs)
  <2>1. PICK i \in 1..m : x \in us[i].set
    BY <1>2, <1>5 DEF Stood
  <2>2. i \in 1..(m + n) /\ vs[i] = us[i]
    BY <1>1
  <2>. QED  BY <1>3, <2>1, <2>2 DEF Stood
<1>6. ASSUME NEW x \in Stood(ws) PROVE x \in Stood(vs)
  <2>1. PICK i \in 1..n : x \in ws[i].set
    BY <1>2, <1>6 DEF Stood
  <2>. DEFINE j == m + i
  <2>2. j \in 1..(m + n) /\ vs[j] = ws[i]
    BY <1>1
  <2>. HIDE DEF j
  <2>. QED  BY <1>3, <2>1, <2>2 DEF Stood
<1>. QED  BY <1>4, <1>5, <1>6 DEF vs

LEMMA StoodConcat ==
  ASSUME NEW us \in Seq(Units), NEW ws \in Seq(Units)
  PROVE  Stood(us \o ws) = Stood(us) \cup Stood(ws)
BY StoodBoth

LEMMA StoodOne == ASSUME NEW u PROVE Stood(<<u>>) = u.set
BY DEF Stood

LEMMA RangeWidened ==
  ASSUME NEW x, NEW y, NEW z, NEW r, r = [ok |-> TRUE, set |-> x, rest |-> z]
  PROVE  [r EXCEPT !.set = @ \cup y] = [ok |-> TRUE, set |-> x \cup y, rest |-> z]
<1>. DEFINE S == [ok : {TRUE}, set : {x, x \cup y}, rest : {z}]
            q == [r EXCEPT !.set = @ \cup y]
            p == [ok |-> TRUE, set |-> x \cup y, rest |-> z]
<1>1. q \in S /\ p \in S
  OBVIOUS
<1>2. q.ok = p.ok /\ q.set = p.set /\ q.rest = p.rest
  OBVIOUS
<1>. HIDE DEF p, q
<1>3. q = [ok |-> q.ok, set |-> q.set, rest |-> q.rest] /\ p = [ok |-> p.ok, set |-> p.set, rest |-> p.rest]
  BY <1>1
<1>. QED  BY <1>2, <1>3 DEF p, q

\* The ranges of a sequence of units that a "]" ends.
LEMMA UnitsRead ==
  ASSUME NEW v \in Texts
  PROVE  \A us \in Seq(Units) : us # << >> =>
           Ranges[Spelt(us) \o (<<"]">> \o v)] = [ok |-> TRUE, set |-> Stood(us), rest |-> v]
<1>. DEFINE b == "]"
            e == <<b>> \o v
            T == {us \in Seq(Units) : us # << >> =>
                    Ranges[Spelt(us) \o e] = [ok |-> TRUE, set |-> Stood(us), rest |-> v]}
<1>1. b \in Symbols /\ b # "-"
  BY CharSymbols
<1>2. e \in Texts /\ e # << >> /\ e[1] = b /\ Tail(e) = v
  <2>. HIDE DEF b
  <2>. QED  BY <1>1, After1
<1>. HIDE DEF e
<1>3. << >> \in T
  OBVIOUS
<1>4. ASSUME NEW us \in Seq(Units), NEW u \in Units, us \in T PROVE <<u>> \o us \in T
  <2>. DEFINE one == <<u>>
              ws == one \o us
  <2>1. one \in Seq(Units) /\ Spelt(one) = u.text /\ Stood(one) = u.set
    BY SpeltIs, StoodOne
  <2>. HIDE DEF one
  <2>2. /\ ws \in Seq(Units) /\ Spelt(ws) = u.text \o Spelt(us) /\ Stood(ws) = u.set \cup Stood(us)
    BY <2>1, ConcatProperties, SpeltIs, StoodConcat
  <2>3. u.text \in Texts /\ Spelt(us) \in Texts /\ u.set \in SUBSET Chars
    BY UnitType, SpeltIs
  <2>. DEFINE t == u.text
              s == Spelt(us)
              r == s \o e
  <2>4. (t \o s) \o e = t \o r /\ r \in Texts
    <3>1. t \in Seq(Symbols) /\ s \in Seq(Symbols) /\ e \in Seq(Symbols)
      BY <1>2, <2>3 DEF Texts
    <3>. HIDE DEF t, s
    <3>2. Associates(t, s, e) /\ JoinsText(s, e)
      BY <3>1, TextsAssociates DEF Texts
    <3>. QED  BY <3>2 DEF Associates, JoinsText
  <2>. HIDE DEF ws
  <2>5. Spelt(ws) \o e = u.text \o r
    BY <2>2, <2>4
  <2>6. ASSUME us = << >>
        PROVE  Ranges[Spelt(ws) \o e] = [ok |-> TRUE, set |-> Stood(ws), rest |-> v]
    <3>1. s = << >> /\ Stood(us) = {}
      BY <2>6, SpeltIs
    <3>2. r = e
      <4>. HIDE DEF s
      <4>. QED  BY <1>2, <3>1, ConcatEmptySeq DEF Texts
    <3>. HIDE DEF r
    <3>3. Ranges[u.text \o r] = RangeThen(u.set, r)
      BY <1>1, <1>2, <3>2, UnitRead
    <3>4. RangeThen(u.set, e) = [ok |-> TRUE, set |-> u.set, rest |-> v]
      BY <1>2 DEF RangeThen
    <3>5. Stood(ws) = u.set
      BY <2>2, <3>1
    <3>6. Ranges[Spelt(ws) \o e] = [ok |-> TRUE, set |-> Stood(ws), rest |-> v]
      BY <2>5, <3>2, <3>3, <3>4, <3>5
    <3>. QED  BY <3>6
  <2>7. ASSUME us # << >>
        PROVE  Ranges[Spelt(ws) \o e] = [ok |-> TRUE, set |-> Stood(ws), rest |-> v]
    <3>1. Ranges[r] = [ok |-> TRUE, set |-> Stood(us), rest |-> v]
      BY <1>4, <2>7
    <3>2. r # << >> /\ r[1] \notin {"-", "]"}
      <4>. DEFINE h == Head(us)
                  l == Tail(us)
                  o == <<h>>
      <4>1. h \in Units /\ l \in Seq(Units) /\ us = o \o l
        BY <2>7, HeadAndTail
      <4>2. o \in Seq(Units) /\ Spelt(o) = h.text
        BY <4>1, SpeltIs
      <4>3. h.text \in Texts /\ h.text # << >> /\ h.text[1] \notin {"-", "]"}
        BY <4>1, UnitType
      <4>. DEFINE x == h.text
                  y == Spelt(l)
      <4>4. s = x \o y /\ y \in Texts
        <5>. HIDE DEF o, l
        <5>. QED  BY <4>1, <4>2, SpeltIs
      <4>. HIDE DEF x, y, s
      <4>5. r = x \o (y \o e) /\ y \o e \in Texts /\ x \in Texts
        <5>1. x \in Seq(Symbols) /\ y \in Seq(Symbols) /\ e \in Seq(Symbols)
          BY <1>2, <4>3, <4>4 DEF Texts, x
        <5>2. Associates(x, y, e) /\ JoinsText(y, e) /\ x \in Texts
          BY <5>1, TextsAssociates DEF Texts
        <5>. QED  BY <4>4, <5>2 DEF Associates, JoinsText
      <4>6. Len(x) \in Nat /\ Len(x) >= 1
        BY <4>3, Leading DEF x
      <4>. DEFINE z == y \o e
                  k == Len(x)
      <4>7. 1 \in 1..k /\ k \in Nat
        BY <4>6
      <4>. HIDE DEF z, r
      <4>8. /\ \A i \in 1..Len(x) : (x \o z)[i] = x[i]
            /\ Len(x \o z) = Len(x) + Len(z) /\ Len(z) \in Nat
        BY <4>5, DropConcat DEF Texts, z
      <4>9. r[1] = x[1]
        BY <4>5, <4>7, <4>8 DEF z, k
      <4>10. r # << >>
        <5>. DEFINE m == Len(z)
        <5>1. Len(r) = k + m /\ m \in Nat /\ k \in Nat /\ k >= 1
          BY <4>5, <4>6, <4>8 DEF z, k
        <5>. HIDE DEF k, m
        <5>2. Len(r) # 0
          BY <5>1
        <5>. QED  BY <5>2, EmptySeq
      <4>. QED  BY <4>3, <4>9, <4>10 DEF x
    <3>. HIDE DEF r
    <3>3. Ranges[u.text \o r] = RangeThen(u.set, r)
      BY <2>4, <3>2, UnitRead
    <3>4. RangeThen(u.set, r) = [Ranges[r] EXCEPT !.set = @ \cup u.set]
      BY <3>1, <3>2 DEF RangeThen
    <3>5. [Ranges[r] EXCEPT !.set = @ \cup u.set]
             = [ok |-> TRUE, set |-> Stood(us) \cup u.set, rest |-> v]
      <4>. DEFINE x == Stood(us)
                  y == u.set
                  k == Ranges[r]
      <4>1. k = [ok |-> TRUE, set |-> x, rest |-> v]
        BY <3>1
      <4>. HIDE DEF x, y, k
      <4>2. [k EXCEPT !.set = @ \cup y] = [ok |-> TRUE, set |-> x \cup y, rest |-> v]
        BY <4>1, RangeWidened
      <4>. QED  BY <4>2 DEF x, y, k
    <3>6. Ranges[Spelt(ws) \o e] = [ok |-> TRUE, set |-> Stood(us) \cup u.set, rest |-> v]
      BY <2>5, <3>3, <3>4, <3>5
    <3>7. Stood(us) \cup u.set = Stood(ws)
      BY <2>2
    <3>8. Ranges[Spelt(ws) \o e] = [ok |-> TRUE, set |-> Stood(ws), rest |-> v]
      BY <3>6, <3>7
    <3>. QED  BY <3>8
  <2>8. ws \in T
    <3>1. ws # << >> => Ranges[Spelt(ws) \o e] = [ok |-> TRUE, set |-> Stood(ws), rest |-> v]
      BY <2>6, <2>7
    <3>. QED  BY <2>2, <3>1
  <2>. QED  BY <2>8 DEF ws, one
<1>. HIDE DEF T
<1>5. Seq(Units) \subseteq T
  BY <1>3, <1>4, ConsInduction
<1>. QED  BY <1>5 DEF T, e, b

-----------------------------------------------------------------------------
(* Texts of sequences of what has one.                                     *)

Texted(X) == \A a \in X : a.text \in Texts

LEMMA WrittenIs ==
  ASSUME NEW X, Texted(X)
  PROVE  /\ Written(<< >>) = << >>
         /\ \A s \in Seq(X) : Written(s) \in Texts
         /\ \A s, t \in Seq(X) : Written(s \o t) = Written(s) \o Written(t)
         /\ \A a \in X : Written(<<a>>) = a.text
<1>. DEFINE f == [a \in X |-> a.text]
<1>1. Maps(f, X, Texts) /\ \A a \in X : f[a] = a.text
  BY DEF Maps, Texted
<1>2. ASSUME NEW s \in Seq(X)
      PROVE  Written(s) = FlattenSeq(Mapped(f, s)) /\ Mapped(f, s) \in Seq(Texts)
  <2>1. \A i \in DOMAIN s : s[i] \in X
    BY LenProperties, ElementOfSeq
  <2>2. [i \in DOMAIN s |-> s[i].text] = [i \in DOMAIN s |-> f[s[i]]]
    BY <1>1, <2>1
  <2>. HIDE DEF f
  <2>. QED  BY <1>1, <2>2, MappedType DEF Written, Mapped
<1>. HIDE DEF f
<1>3. Written(<< >>) = << >>
  <2>1. << >> \in Seq(X) /\ Mapped(f, << >>) = << >>
    BY DEF Mapped
  <2>. QED  BY <1>2, <2>1, FlattenEmpty
<1>4. \A s \in Seq(X) : Written(s) \in Texts
  BY <1>2, FlattenType DEF Texts
<1>5. ASSUME NEW s \in Seq(X), NEW t \in Seq(X) PROVE Written(s \o t) = Written(s) \o Written(t)
  <2>. DEFINE a == Mapped(f, s)
              b == Mapped(f, t)
              c == s \o t
  <2>1. c \in Seq(X) /\ Mapped(f, c) = a \o b
    BY <1>1, ConcatProperties, MappedConcat
  <2>. HIDE DEF c
  <2>2. Written(c) = FlattenSeq(Mapped(f, c)) /\ Written(s) = FlattenSeq(a) /\ Written(t) = FlattenSeq(b)
        /\ a \in Seq(Seq(Symbols)) /\ b \in Seq(Seq(Symbols))
    BY <1>2, <2>1 DEF Texts
  <2>. HIDE DEF a, b
  <2>3. FlattenSeq(a \o b) = FlattenSeq(a) \o FlattenSeq(b)
    BY <2>2, FlattenConcat
  <2>. QED  BY <2>1, <2>2, <2>3 DEF c
<1>6. ASSUME NEW a \in X PROVE Written(<<a>>) = a.text
  <2>. DEFINE t == f[a]
              o == <<a>>
  <2>1. o \in Seq(X) /\ Mapped(f, o) = <<t>>
    BY <1>1, MappedOne
  <2>2. t \in Seq(Symbols) /\ t = a.text
    BY <1>1 DEF Texted, Texts
  <2>. HIDE DEF t, o
  <2>3. FlattenSeq(<<t>>) = t
    BY <2>2, FlattenOne
  <2>4. Written(o) = FlattenSeq(Mapped(f, o))
    BY <1>2, <2>1
  <2>. QED  BY <2>1, <2>2, <2>3, <2>4 DEF o
<1>. QED  BY <1>3, <1>4, <1>5, <1>6

LEMMA WrittenCons ==
  ASSUME NEW X, Texted(X), NEW a \in X, NEW s \in Seq(X)
  PROVE  <<a>> \o s \in Seq(X) /\ Written(<<a>> \o s) = a.text \o Written(s) /\ a.text \in Texts /\ Written(s) \in Texts
<1>. DEFINE o == <<a>>
<1>1. o \in Seq(X) /\ Written(o) = a.text /\ a.text \in Texts /\ Written(s) \in Texts
  BY WrittenIs DEF Texted
<1>. HIDE DEF o
<1>2. o \o s \in Seq(X) /\ Written(o \o s) = Written(o) \o Written(s)
  BY <1>1, WrittenIs, ConcatProperties
<1>. QED  BY <1>1, <1>2 DEF o

-----------------------------------------------------------------------------
(* The items of a bracket, as ranges.                                      *)

\* Quoted characters, one after the other.
LEMMA QuotedText ==
  ASSUME NEW m \in Nat, NEW T \in Texts, Len(T) = 2 * m,
         \A i \in 1..m : T[2 * i - 1] = "\\" /\ T[2 * i] \in Chars
  PROVE  \E us \in Seq(Units) : Spelt(us) = T /\ Stood(us) = {T[2 * i] : i \in 1..m}
<1>. DEFINE Spells(k) == \E us \in Seq(Units) : Spelt(us) = SubSeq(T, 1, 2 * k) /\ Stood(us) = {T[2 * i] : i \in 1..k}
            A == {k \in 0..m : Spells(k)}
            z == 0
<1>1. Spells(0)
  <2>1. SubSeq(T, 1, 0) = << >>
    BY DropNone DEF Texts
  <2>2. 2 * 0 = 0 /\ {T[2 * i] : i \in 1..0} = {}
    OBVIOUS
  <2>3. << >> \in Seq(Units) /\ Spelt(<< >>) = << >> /\ Stood(<< >>) = {}
    BY SpeltIs
  <2>. QED  BY <2>1, <2>2, <2>3
<1>2. ASSUME NEW k \in z..m, k < m, k \in A PROVE k + 1 \in A
  <2>1. PICK us \in Seq(Units) : Spelt(us) = SubSeq(T, 1, 2 * k) /\ Stood(us) = {T[2 * i] : i \in 1..k}
    BY <1>2
  <2>. DEFINE j == k + 1
              c == T[2 * j]
              u == [text |-> <<"\\", c>>, set |-> {c}]
              o == <<u>>
              ws == us \o o
              p == <<"\\", c>>
              s == SubSeq(T, 1, 2 * k)
              r == SubSeq(T, 1, 2 * j)
  <2>2. j \in 1..m /\ k \in Nat /\ 2 * j = 2 * k + 2 /\ 2 * j - 1 = 2 * k + 1 /\ 2 * j <= Len(T) /\ 2 * k <= Len(T)
        /\ 2 * k \in Nat /\ 2 * j \in Nat
    BY <1>2
  <2>3. c \in Chars /\ T[2 * j - 1] = "\\"
    BY <2>2
  <2>4. u \in Units /\ u.text = p /\ u.set = {c}
    BY <2>3 DEF Units, QuotedUnits
  <2>. HIDE DEF u
  <2>5. o \in Seq(Units) /\ Spelt(o) = p /\ Stood(o) = {c}
    <3>1. o \in Seq(Units)
      BY <2>4
    <3>2. Spelt(<<u>>) = u.text
      BY <2>4, SpeltIs
    <3>3. Stood(<<u>>) = u.set
      BY <2>4, StoodOne
    <3>. QED  BY <2>4, <3>1, <3>2, <3>3
  <2>. HIDE DEF o
  <2>6. ws \in Seq(Units) /\ Spelt(ws) = s \o p /\ Stood(ws) = {T[2 * i] : i \in 1..k} \cup {c}
    BY <2>1, <2>5, ConcatProperties, SpeltIs, StoodConcat
  <2>. HIDE DEF ws
  <2>7. {T[2 * i] : i \in 1..j} = {T[2 * i] : i \in 1..k} \cup {c}
    <3>1. 1..j = (1..k) \cup {j}
      BY <2>2
    <3>. QED  BY <3>1
  <2>8. s \o p = r
    <3>. DEFINE a == 2 * k
                b == 2 * j
    <3>1. a \in Nat /\ b \in Nat /\ b = a + 2 /\ a <= Len(T) /\ b <= Len(T) /\ T[a + 1] = "\\" /\ T[b] = c
      BY <2>2, <2>3
    <3>2. p \in Texts /\ Len(p) = 2 /\ p[1] = "\\" /\ p[2] = c
      <4>1. "\\" \in Symbols /\ c \in Symbols
        BY <2>3, CharSymbols
      <4>. HIDE DEF c
      <4>. QED  BY <4>1, PairText
    <3>. HIDE DEF a, b, c, p
    <3>. DEFINE zero == 0
    <3>3. zero \in Nat /\ zero <= a /\ zero <= b /\ zero + 1 = 1 /\ a - zero = a /\ b - zero = b
          /\ \A i \in Int : zero + i = i
      BY <3>1
    <3>. HIDE DEF zero
    <3>4. /\ SubSeq(T, zero + 1, a) \in Texts /\ Len(SubSeq(T, zero + 1, a)) = a - zero
          /\ \A i \in 1..(a - zero) : SubSeq(T, zero + 1, a)[i] = T[zero + i]
      BY <3>1, <3>3, PieceIs DEF Texts
    <3>5. /\ SubSeq(T, zero + 1, b) \in Texts /\ Len(SubSeq(T, zero + 1, b)) = b - zero
          /\ \A i \in 1..(b - zero) : SubSeq(T, zero + 1, b)[i] = T[zero + i]
      BY <3>1, <3>3, PieceIs DEF Texts
    <3>. DEFINE x == SubSeq(T, 1, a)
                y == SubSeq(T, 1, b)
                q == x \o p
    <3>6. /\ x \in Texts /\ Len(x) = a /\ \A i \in 1..a : x[i] = T[i]
          /\ y \in Texts /\ Len(y) = b /\ \A i \in 1..b : y[i] = T[i]
      BY <3>1, <3>3, <3>4, <3>5
    <3>. HIDE DEF x, y
    <3>10. /\ q \in Texts /\ Len(q) = Len(x) + Len(p) /\ \A i \in 1..Len(x) : q[i] = x[i]
          /\ \A i \in 1..Len(p) : q[Len(x) + i] = p[i]
      <4>1. x \in Seq(Symbols) /\ p \in Seq(Symbols)
        BY <3>2, <3>6 DEF Texts
      <4>. QED  BY <4>1, DropConcat DEF Texts
    <3>. HIDE DEF q
    <3>7. /\ q \in Texts /\ Len(q) = a + 2 /\ \A i \in 1..a : q[i] = x[i]
          /\ \A i \in 1..2 : q[a + i] = p[i]
      BY <3>2, <3>6, <3>10
    <3>8. \A i \in 1..Len(q) : q[i] = y[i]
      <4>. TAKE i \in 1..Len(q)
      <4>1. CASE i \in 1..a
        <5>1. i \in 1..b
          BY <3>1, <4>1
        <5>. QED  BY <3>6, <3>7, <4>1, <5>1
      <4>2. CASE i = a + 1
        <5>1. 1 \in 1..2 /\ i \in 1..b
          BY <3>1, <4>2
        <5>. QED  BY <3>1, <3>2, <3>6, <3>7, <4>2, <5>1
      <4>3. CASE i = a + 2
        <5>1. 2 \in 1..2 /\ i \in 1..b
          BY <3>1, <4>3
        <5>. QED  BY <3>1, <3>2, <3>6, <3>7, <4>3, <5>1
      <4>. QED  BY <3>1, <3>7, <4>1, <4>2, <4>3
    <3>9. q = y
      BY <3>1, <3>6, <3>7, <3>8, SeqEqual DEF Texts
    <3>. QED  BY <3>9 DEF q, x, y, a, b
  <2>9. Spells(j)
    BY <2>6, <2>7, <2>8
  <2>. HIDE DEF Spells
  <2>. QED  BY <2>2, <2>9
<1>3. z \in A /\ z \in Nat
  <2>. HIDE DEF Spells
  <2>. QED  BY <1>1
<1>. HIDE DEF A, z, Spells
<1>4. z..m \subseteq A
  BY <1>2, <1>3, RangeInduction
<1>5. Spells(m)
  BY <1>4 DEF A, z
<1>6. SubSeq(T, 1, 2 * m) = T
  <2>. DEFINE l == Len(T)
  <2>1. SubSeq(T, 0 + 1, l) = T
    BY DropNone DEF Drop, Texts
  <2>2. 0 + 1 = 1 /\ l = 2 * m
    OBVIOUS
  <2>. QED  BY <2>1, <2>2
<1>. QED  BY <1>5, <1>6 DEF Spells

\* What the assumption on the alphabet says of the classes.
LEMMA ClassSymbols ==
  \A n \in DOMAIN posixClasses : \A i \in DOMAIN posixClasses[n] : posixClasses[n][i] \in Chars \cup {"\\"}
BY AlphabetAssumption DEF ToSet

LEMMA PunctuationChars == {"!", "*", "-", ".", ":", "[", "]", "^"} \subseteq Chars
<1>. DEFINE T == posixClasses["punct"]
<1>1. /\ DOMAIN T = 1..16
      /\ T[2] = "!" /\ T[4] = "*" /\ T[6] = "-" /\ T[8] = "." /\ T[10] = ":" /\ T[12] = "["
      /\ T[14] = "]" /\ T[16] = "^"
  BY DEF posixClasses
<1>2. \A i \in DOMAIN T : T[i] \in Chars \cup {"\\"}
  BY ClassSymbols, ClassNames
<1>. HIDE DEF T
<1>3. /\ T[2] \in Chars \cup {"\\"} /\ T[4] \in Chars \cup {"\\"} /\ T[6] \in Chars \cup {"\\"}
      /\ T[8] \in Chars \cup {"\\"} /\ T[10] \in Chars \cup {"\\"} /\ T[12] \in Chars \cup {"\\"}
      /\ T[14] \in Chars \cup {"\\"} /\ T[16] \in Chars \cup {"\\"}
  BY <1>1, <1>2
<1>. QED  BY <1>1, <1>3

LEMMA ClassEnds == {"a", "c", "1", "2"} \subseteq Chars
<1>. DEFINE T == posixClasses["alpha"]
            U == posixClasses["digit"]
<1>1. /\ DOMAIN T = 1..3 /\ T[1] = "a" /\ T[3] = "c"
      /\ DOMAIN U = 1..3 /\ U[1] = "1" /\ U[3] = "2"
  BY DEF posixClasses
<1>2. (\A i \in DOMAIN T : T[i] \in Chars \cup {"\\"}) /\ \A i \in DOMAIN U : U[i] \in Chars \cup {"\\"}
  BY ClassSymbols, ClassNames
<1>. HIDE DEF T, U
<1>3. /\ T[1] \in Chars \cup {"\\"} /\ T[3] \in Chars \cup {"\\"}
      /\ U[1] \in Chars \cup {"\\"} /\ U[3] \in Chars \cup {"\\"}
  BY <1>1, <1>2
<1>. QED  BY <1>1, <1>3

ItemMarks == {"\\", "-", "{", "}", ","}
EndMarks  == ItemMarks \cup {"[", "]", "!", "^"}

PlainItems  == {Item(c) : c \in Chars \ ItemMarks}
QuotedItems == {QuotedItem(c) : c \in Chars}
RangeItems  == {FromTo(lo, hi) : lo \in Chars \ EndMarks, hi \in Chars \ EndMarks}
ClassItems  == {ClassItem(n) : n \in DOMAIN classChars}
Items       == PlainItems \cup QuotedItems \cup RangeItems \cup ClassItems

LEMMA ItemIs ==
  ASSUME NEW neg, NEW its, NEW i, IsItem(neg, its, i)
  PROVE  its[i] \in Items
<1>1. CASE \E c \in Chars \ ItemMarks : its[i] = Item(c)
  BY <1>1 DEF Items, PlainItems
<1>2. CASE \E c \in Chars : its[i] = QuotedItem(c)
  BY <1>2 DEF Items, QuotedItems
<1>3. CASE \E lo, hi \in Chars \ EndMarks : its[i] = FromTo(lo, hi)
  BY <1>3 DEF Items, RangeItems
<1>4. CASE \E n \in DOMAIN classChars : its[i] = ClassItem(n)
  BY <1>4 DEF Items, ClassItems
<1>5. Chars \ EndMarks = Chars \ {"\\", "-", "{", "}", ",", "[", "]", "!", "^"}
  BY DEF EndMarks, ItemMarks
<1>. QED  BY <1>1, <1>2, <1>3, <1>4, <1>5 DEF IsItem, ItemMarks

LEMMA ItemText ==
  ASSUME NEW it \in Items
  PROVE  /\ it.text \in Texts /\ it.text # << >> /\ it.set \in SUBSET Chars
         /\ it.text[1] \in Symbols
<1>1. CASE it \in PlainItems
  <2>1. PICK c \in Chars \ ItemMarks : it = [text |-> <<c>>, set |-> {c}]
    BY <1>1 DEF PlainItems, Item
  <2>2. <<c>> \in Texts /\ c \in Symbols
    BY CharSymbols, BasicTexts
  <2>. QED  BY <2>1, <2>2
<1>2. CASE it \in QuotedItems
  <2>1. PICK c \in Chars : it = [text |-> <<"\\", c>>, set |-> {c}]
    BY <1>2 DEF QuotedItems, QuotedItem
  <2>2. <<"\\", c>> \in Texts /\ "\\" \in Symbols
    BY CharSymbols, BasicTexts
  <2>. QED  BY <2>1, <2>2
<1>3. CASE it \in RangeItems
  <2>1. PICK lo \in Chars \ EndMarks, hi \in Chars \ EndMarks : it = [text |-> <<lo, "-", hi>>, set |-> Upto(lo, hi)]
    BY <1>3 DEF RangeItems, FromTo
  <2>. DEFINE d == "-"
              t == <<lo, d, hi>>
  <2>2. d \in Symbols /\ lo \in Symbols /\ hi \in Symbols
    BY CharSymbols
  <2>. HIDE DEF d
  <2>3. t \in Texts /\ Len(t) = 3 /\ t[1] = lo
    BY <2>2, TripleText
  <2>. HIDE DEF t
  <2>4. t # << >>
    BY <2>3
  <2>5. Upto(lo, hi) \in SUBSET Chars
    BY DEF Upto
  <2>6. it.text = t /\ it.set = Upto(lo, hi)
    BY <2>1 DEF t, d
  <2>. QED  BY <2>2, <2>3, <2>4, <2>5, <2>6
<1>4. CASE it \in ClassItems
  <2>1. PICK n \in DOMAIN classChars : it = [text |-> <<"[", ":", n, ":", "]">>, set |-> classChars[n]]
    BY <1>4 DEF ClassItems, ClassItem
  <2>. DEFINE a == "["
              b == ":"
              e == "]"
              t == <<a, b, n, b, e>>
  <2>2. n \in Symbols
    BY SymbolsHas, ClassNames DEF classChars
  <2>3. a \in Symbols /\ b \in Symbols /\ e \in Symbols
    BY CharSymbols
  <2>. HIDE DEF a, b, e
  <2>4. t \in Seq(Symbols) /\ t # << >> /\ t[1] = a
    BY <2>2, <2>3
  <2>5. classChars[n] \in SUBSET Chars
    <3>1. Upto("a", "c") \in SUBSET Chars /\ Upto("1", "2") \in SUBSET Chars
      BY DEF Upto
    <3>2. {"!", "*", "-", ".", ":", "[", "]", "^"} \in SUBSET Chars
      BY PunctuationChars
    <3>. QED  BY <3>1, <3>2 DEF classChars
  <2>6. it.text = t /\ it.set = classChars[n]
    BY <2>1 DEF t, a, b, e
  <2>. HIDE DEF t
  <2>. QED  BY <2>3, <2>4, <2>5, <2>6 DEF Texts
<1>. QED  BY <1>1, <1>2, <1>3, <1>4 DEF Items

LEMMA ClassUnits ==
  ASSUME NEW n \in DOMAIN classChars
  PROVE  \E us \in Seq(Units) : us # << >> /\ Spelt(us) = posixClasses[n] /\ Stood(us) = classChars[n]
<1>1. CASE n = "alpha" \/ n = "digit"
  <2>. DEFINE lo == IF n = "alpha" THEN "a" ELSE "1"
              hi == IF n = "alpha" THEN "c" ELSE "2"
              u == [text |-> <<lo, "-", hi>>, set |-> Upto(lo, hi)]
              us == <<u>>
  <2>1. lo \in Chars \ {"\\", "-", "]"} /\ hi \in Chars \ {"\\", "-", "]"}
    BY ClassEnds
  <2>2. posixClasses[n] = <<lo, "-", hi>> /\ classChars[n] = Upto(lo, hi)
    BY <1>1 DEF posixClasses, classChars
  <2>. HIDE DEF lo, hi
  <2>3. u \in Units /\ u.text = posixClasses[n] /\ u.set = classChars[n]
    BY <2>1, <2>2 DEF Units, RangeUnits
  <2>. HIDE DEF u
  <2>4. us \in Seq(Units) /\ us # << >>
    BY <2>3
  <2>5. Spelt(<<u>>) = u.text
    BY <2>3, SpeltIs
  <2>6. Stood(<<u>>) = u.set
    BY <2>3, StoodOne
  <2>. QED  BY <2>3, <2>4, <2>5, <2>6
<1>2. CASE n = "punct"
  <2>. DEFINE T == posixClasses["punct"]
              m == 8
  <2>1. T \in Texts
    BY ClassTexts, ClassNames
  <2>2. /\ Len(T) = 16
        /\ T[1] = "\\" /\ T[2] = "!" /\ T[3] = "\\" /\ T[4] = "*" /\ T[5] = "\\" /\ T[6] = "-"
        /\ T[7] = "\\" /\ T[8] = "." /\ T[9] = "\\" /\ T[10] = ":" /\ T[11] = "\\" /\ T[12] = "["
        /\ T[13] = "\\" /\ T[14] = "]" /\ T[15] = "\\" /\ T[16] = "^"
    BY DEF posixClasses
  <2>. HIDE DEF T
  <2>3. {"!", "*", "-", ".", ":", "[", "]", "^"} \in SUBSET Chars
    BY PunctuationChars
  <2>4. m \in Nat /\ Len(T) = 2 * m /\ 1..m = {1, 2, 3, 4, 5, 6, 7, 8}
    BY <2>2
  <2>5. \A i \in 1..m : T[2 * i - 1] = "\\" /\ T[2 * i] \in Chars
    <3>. HIDE DEF m
    <3>1. \A i \in {1, 2, 3, 4, 5, 6, 7, 8} : T[2 * i - 1] = "\\"
      BY <2>2
    <3>2. \A i \in {1, 2, 3, 4, 5, 6, 7, 8} : T[2 * i] \in Chars
      BY <2>2, <2>3
    <3>. QED  BY <2>4, <3>1, <3>2
  <2>6. {T[2 * i] : i \in 1..m} = {"!", "*", "-", ".", ":", "[", "]", "^"}
    <3>. HIDE DEF m
    <3>1. {T[2 * i] : i \in 1..m} = {T[2 * i] : i \in {1, 2, 3, 4, 5, 6, 7, 8}}
      BY <2>4
    <3>. QED  BY <2>2, <3>1
  <2>. HIDE DEF m
  <2>7. PICK us \in Seq(Units) : Spelt(us) = T /\ Stood(us) = {T[2 * i] : i \in 1..m}
    BY <2>1, <2>4, <2>5, QuotedText
  <2>8. us # << >>
    <3>1. T # << >>
      BY SMTT(60), <2>2
    <3>. QED  BY <2>7, <3>1, SpeltIs
  <2>9. classChars["punct"] = {"!", "*", "-", ".", ":", "[", "]", "^"}
    BY DEF classChars
  <2>. QED  BY <1>2, <2>6, <2>7, <2>8, <2>9 DEF T
<1>. QED  BY <1>1, <1>2 DEF classChars

-----------------------------------------------------------------------------
(* What translateBracket makes of an item.                                 *)

LEMMA PlainStep ==
  ASSUME NEW c \in Symbols \ {"]", "\\"}, NEW r \in Texts, c = "[" => r # << >> /\ r[1] # ":"
  PROVE  BracketBody[<<c>> \o r] = Before(<<c>>, BracketBody[r])
<1>. DEFINE q == <<c>> \o r
<1>1. q \in Texts /\ q # << >> /\ q[1] = c /\ Tail(q) = r /\ (r # << >> => q[2] = r[1])
  BY After1
<1>. HIDE DEF q
<1>2. c = "[" => q[2] # ":"
  BY <1>1
<1>3. ~Panics(q) /\ ~PosixClass(q)
  BY <1>1, <1>2 DEF Panics, PosixClass
<1>4. BracketBody[q] = BracketStep(BracketBody, q)
  BY <1>1, BracketBodyIs
<1>. DEFINE f == BracketBody
<1>5. BracketStep(f, q) = Before(<<q[1]>>, f[Tail(q)])
  <2>. HIDE DEF f
  <2>. QED  BY <1>1, <1>3, BracketCases
<1>. QED  BY <1>1, <1>4, <1>5 DEF q

LEMMA QuotedStep ==
  ASSUME NEW c \in Symbols, NEW r \in Texts
  PROVE  BracketBody[<<"\\", c>> \o r] = Before(<<"\\", c>>, BracketBody[r])
<1>. DEFINE t == <<"\\", c>>
            q == t \o r
            f == BracketBody
<1>1. t \in Texts /\ Len(t) = 2 /\ t[1] = "\\" /\ t[2] = c
  <2>1. "\\" \in Symbols
    BY CharSymbols
  <2>. QED  BY <2>1, PairText
<1>2. t = <<t[1], t[2]>>
  OBVIOUS
<1>. HIDE DEF t
<1>3. q \in Texts /\ q # << >> /\ q[1] = t[1] /\ q[2] = t[2] /\ Len(q) > 1 /\ Drop(q, 2) = r
  BY <1>1, AfterPair
<1>. HIDE DEF q
<1>4. f[q] = BracketStep(f, q)
  BY <1>3, BracketBodyIs
<1>5. BracketStep(f, q) = Before(<<"\\", q[2]>>, f[Drop(q, 2)])
  <2>. HIDE DEF f
  <2>. QED  BY <1>1, <1>3, BracketCases
<1>6. <<"\\", q[2]>> = t
  BY <1>1, <1>2, <1>3
<1>. QED  BY <1>3, <1>4, <1>5, <1>6 DEF q, t

LEMMA ClassStep ==
  ASSUME NEW n \in DOMAIN posixClasses, NEW r \in Texts
  PROVE  BracketBody[<<"[", ":", n, ":", "]">> \o r] = Before(posixClasses[n], BracketBody[r])
<1>. DEFINE t == <<"[", ":", n, ":", "]">>
            q == t \o r
            f == BracketBody
            five == 5
<1>1. t \in Texts /\ t # << >> /\ Len(t) = five
      /\ t[1] = "[" /\ t[2] = ":" /\ t[3] = n /\ t[4] = ":" /\ t[5] = "]"
  <2>1. n \in Symbols /\ "[" \in Symbols /\ ":" \in Symbols /\ "]" \in Symbols
    BY CharSymbols, SymbolsHas
  <2>2. t \in Seq(Symbols)
    <3>. DEFINE a == "["
                b == ":"
                e == "]"
                s == <<a, b, n, b, e>>
    <3>1. a \in Symbols /\ b \in Symbols /\ e \in Symbols
      BY CharSymbols
    <3>. HIDE DEF a, b, e
    <3>2. s \in Seq(Symbols)
      BY <2>1, <3>1
    <3>. QED  BY <3>2 DEF a, b, e
  <2>. QED  BY <2>2 DEF Texts
<1>2. five = 5 /\ five \in 1..five /\ 2 \in 1..five /\ 3 \in 1..five /\ 4 \in 1..five
  OBVIOUS
<1>. HIDE DEF t, five
<1>3. /\ q \in Texts /\ q # << >> /\ \A i \in 1..Len(t) : q[i] = t[i]
      /\ Len(q) = Len(t) + Len(r) /\ Len(r) \in Nat /\ Drop(q, Len(t)) = r /\ q[1] = t[1]
  BY <1>1, AfterText
<1>. DEFINE m == Len(r)
            l == Len(q)
<1>4. l = five + m /\ m \in Nat
  BY <1>1, <1>3
<1>. HIDE DEF q, m, l
<1>5. l > 4
  BY <1>2, <1>4
<1>6. q[five] = t[five] /\ q[2] = t[2] /\ q[3] = t[3] /\ q[4] = t[4] /\ Drop(q, five) = r
  BY <1>1, <1>2, <1>3
<1>7. q[1] = "[" /\ q[2] = ":" /\ q[3] = n /\ q[4] = ":" /\ q[5] = "]" /\ Drop(q, 5) = r
  BY <1>1, <1>2, <1>3, <1>6
<1>8. PosixClass(q)
  BY <1>5, <1>7 DEF PosixClass, l
<1>9. f[q] = BracketStep(f, q)
  BY <1>3, BracketBodyIs
<1>10. BracketStep(f, q) = Before(posixClasses[q[3]], f[Drop(q, 5)])
  <2>. HIDE DEF f
  <2>. QED  BY <1>3, <1>8, BracketCases
<1>. QED  BY <1>7, <1>9, <1>10 DEF q, t

LEMMA TripleStep ==
  ASSUME NEW a \in Symbols \ {"]", "\\", "["}, NEW b \in Symbols \ {"]", "\\", "["},
         NEW c \in Symbols \ {"]", "\\", "["}, NEW r \in Texts
  PROVE  BracketBody[<<a, b, c>> \o r] = Before(<<a, b, c>>, BracketBody[r])
<1>. DEFINE x == <<a>>
            y == <<b>>
            z == <<c>>
            d == <<a, b>>
            t == <<a, b, c>>
<1>1. x \in Texts /\ y \in Texts /\ z \in Texts /\ d \in Texts
  BY BasicTexts
<1>2. x \o y = d /\ d \o z = t
  BY ZenonT(60), TwoJoined, ThreeJoined
<1>3. BracketBody \in [Texts -> Translations]
  BY BracketBodyIs
<1>4. \A w \in Texts : /\ BracketBody[x \o w] = Before(x, BracketBody[w])
                       /\ BracketBody[y \o w] = Before(y, BracketBody[w])
                       /\ BracketBody[z \o w] = Before(z, BracketBody[w])
  BY PlainStep
<1>. HIDE DEF x, y, z, d, t
<1>. DEFINE zr == z \o r
            yr == y \o zr
            e == BracketBody[r]
<1>5. zr \in Texts /\ yr \in Texts /\ e \in Translations
  <2>1. x \in Seq(Symbols) /\ y \in Seq(Symbols) /\ z \in Seq(Symbols) /\ r \in Seq(Symbols)
    BY <1>1 DEF Texts
  <2>2. zr \in Seq(Symbols)
    BY <2>1, ConcatProperties
  <2>. HIDE DEF zr
  <2>3. yr \in Seq(Symbols)
    BY <2>1, <2>2, ConcatProperties
  <2>. QED  BY <1>3, <2>2, <2>3 DEF Texts
<1>6. t \o r = x \o yr
  <2>1. x \in Seq(Symbols) /\ y \in Seq(Symbols) /\ z \in Seq(Symbols) /\ r \in Seq(Symbols) /\ d \in Seq(Symbols)
    BY <1>1 DEF Texts
  <2>0. (d \o z) \o r = d \o (z \o r)
    <3>1. Associates(d, z, r)
      BY <2>1, ConcatAssociates
    <3>. QED  BY <3>1 DEF Associates
  <2>2. t \o r = d \o zr
    BY <1>2, <2>0
  <2>3. zr \in Seq(Symbols)
    BY <1>5 DEF Texts
  <2>. HIDE DEF zr
  <2>4. (x \o y) \o zr = x \o (y \o zr)
    <3>1. Associates(x, y, zr)
      BY <2>1, <2>3, ConcatAssociates
    <3>. QED  BY <3>1 DEF Associates
  <2>. QED  BY <1>2, <2>2, <2>4
<1>7. BracketBody[x \o yr] = Before(x, BracketBody[yr]) /\ BracketBody[yr] = Before(y, BracketBody[zr])
      /\ BracketBody[zr] = Before(z, e)
  BY <1>4, <1>5
<1>. HIDE DEF zr, yr, e
<1>8. Before(x, Before(y, Before(z, e))) = Before(t, e)
  <2>1. Before(z, e) \in Translations
    BY <1>1, <1>5, BeforeType
  <2>. DEFINE g == Before(z, e)
  <2>2. Before(x, Before(y, g)) = Before(x \o y, g)
    BY <1>1, <2>1, BeforeBefore
  <2>3. Before(d, Before(z, e)) = Before(d \o z, e)
    BY <1>1, <1>5, BeforeBefore
  <2>. QED  BY <1>2, <2>2, <2>3
<1>. QED  BY <1>6, <1>7, <1>8 DEF e, t

\* A "^" only comes first where it was written as it is.
Begins(us, it) == Spelt(us)[1] = "^" => it = Item("^")

LEMMA ItemRead ==
  ASSUME NEW it \in Items, it # Item("]"), NEW r \in Texts, r # << >>, it = Item("[") => r[1] # ":"
  PROVE  \E us \in Seq(Units) : /\ us # << >> /\ Stood(us) = it.set /\ Begins(us, it)
                               /\ BracketBody[it.text \o r] = Before(Spelt(us), BracketBody[r])
<1>1. ASSUME NEW u \in Units, u.text = it.text, u.set = it.set,
             BracketBody[it.text \o r] = Before(it.text, BracketBody[r]), u.text[1] = "^" => it = Item("^")
      PROVE  \E us \in Seq(Units) : /\ us # << >> /\ Stood(us) = it.set /\ Begins(us, it)
                                    /\ BracketBody[it.text \o r] = Before(Spelt(us), BracketBody[r])
  <2>1. <<u>> \in Seq(Units) /\ <<u>> # << >>
    OBVIOUS
  <2>2. Spelt(<<u>>) = u.text
    BY SpeltIs
  <2>3. Stood(<<u>>) = u.set
    BY StoodOne
  <2>4. Begins(<<u>>, it)
    BY <1>1, <2>2 DEF Begins
  <2>. QED  BY <1>1, <2>1, <2>2, <2>3, <2>4
<1>2. CASE it \in PlainItems
  <2>1. PICK c \in Chars \ ItemMarks : it = Item(c)
    BY <1>2 DEF PlainItems
  <2>2. c # "]" /\ (c = "[" => r[1] # ":") /\ c \notin {"\\", "-"} /\ c \in Symbols
    BY <2>1, CharSymbols DEF ItemMarks
  <2>3. it.text = <<c>> /\ it.set = {c}
    BY <2>1 DEF Item
  <2>. DEFINE u == [text |-> <<c>>, set |-> {c}]
  <2>4. u \in Units /\ u.text = it.text /\ u.set = it.set
    BY <2>2, <2>3 DEF Units, SingleUnits
  <2>5. BracketBody[<<c>> \o r] = Before(<<c>>, BracketBody[r])
    BY <2>2, PlainStep
  <2>6. u.text[1] = "^" => it = Item("^")
    BY <2>1
  <2>. HIDE DEF u
  <2>. QED  BY <1>1, <2>3, <2>4, <2>5, <2>6
<1>3. CASE it \in QuotedItems
  <2>1. PICK c \in Chars : it = QuotedItem(c)
    BY <1>3 DEF QuotedItems
  <2>2. it.text = <<"\\", c>> /\ it.set = {c} /\ c \in Symbols
    BY <2>1, CharSymbols DEF QuotedItem
  <2>. DEFINE u == [text |-> <<"\\", c>>, set |-> {c}]
  <2>4. u \in Units /\ u.text = it.text /\ u.set = it.set
    BY <2>2 DEF Units, QuotedUnits
  <2>5. BracketBody[<<"\\", c>> \o r] = Before(<<"\\", c>>, BracketBody[r])
    BY <2>2, QuotedStep
  <2>6. u.text[1] # "^"
    OBVIOUS
  <2>. HIDE DEF u
  <2>. QED  BY <1>1, <2>2, <2>4, <2>5, <2>6
<1>4. CASE it \in RangeItems
  <2>1. PICK lo \in Chars \ EndMarks, hi \in Chars \ EndMarks : it = FromTo(lo, hi)
    BY <1>4 DEF RangeItems
  <2>2. /\ it.text = <<lo, "-", hi>> /\ it.set = Upto(lo, hi)
        /\ lo \in Chars \ {"\\", "-", "]"} /\ hi \in Chars \ {"\\", "-", "]"}
        /\ lo \in Symbols \ {"]", "\\", "["} /\ hi \in Symbols \ {"]", "\\", "["}
        /\ "-" \in Symbols \ {"]", "\\", "["}
    BY <2>1, CharSymbols DEF FromTo, EndMarks, ItemMarks
  <2>. DEFINE u == [text |-> <<lo, "-", hi>>, set |-> Upto(lo, hi)]
  <2>4. u \in Units /\ u.text = it.text /\ u.set = it.set
    BY <2>2 DEF Units, RangeUnits
  <2>5. BracketBody[<<lo, "-", hi>> \o r] = Before(<<lo, "-", hi>>, BracketBody[r])
    BY <2>2, TripleStep
  <2>6. u.text[1] # "^"
    BY <2>1 DEF EndMarks, ItemMarks
  <2>. HIDE DEF u
  <2>. QED  BY <1>1, <2>2, <2>4, <2>5, <2>6
<1>5. CASE it \in ClassItems
  <2>1. PICK n \in DOMAIN classChars : it = ClassItem(n)
    BY <1>5 DEF ClassItems
  <2>2. it.text = <<"[", ":", n, ":", "]">> /\ it.set = classChars[n] /\ n \in DOMAIN posixClasses
    BY <2>1, ClassNames DEF ClassItem, classChars
  <2>3. BracketBody[<<"[", ":", n, ":", "]">> \o r] = Before(posixClasses[n], BracketBody[r])
    BY <2>2, ClassStep
  <2>4. PICK us \in Seq(Units) : us # << >> /\ Spelt(us) = posixClasses[n] /\ Stood(us) = classChars[n]
    BY ClassUnits
  <2>5. posixClasses[n][1] # "^"
    BY <2>2, ClassNames DEF posixClasses
  <2>6. Begins(us, it)
    BY <2>4, <2>5 DEF Begins
  <2>. QED  BY <2>2, <2>3, <2>4, <2>6
<1>. QED  BY <1>2, <1>3, <1>4, <1>5 DEF Items

\* Items after which none is taken together with what follows it.
Apart(its, i) == its[i] # Item("]") /\ (its[i] = Item("[") /\ i < Len(its) => its[i + 1].text[1] # ":")
Following(its) == \A i \in 1..Len(its) : Apart(its, i)

LEMMA SpeltBegins ==
  ASSUME NEW us \in Seq(Units), us # << >>, NEW ws \in Seq(Units)
  PROVE  /\ us \o ws \in Seq(Units) /\ us \o ws # << >> /\ Spelt(us \o ws)[1] = Spelt(us)[1]
         /\ Spelt(us) \in Texts /\ Spelt(us) # << >>
<1>1. /\ Head(us) \in Units /\ Tail(us) \in Seq(Units) /\ us = <<Head(us)>> \o Tail(us)
  BY HeadAndTail
<1>. DEFINE h == Head(us)
            o == <<h>>
            t == Tail(us)
<1>2. o \in Seq(Units) /\ Spelt(o) = h.text /\ h.text \in Texts /\ h.text # << >>
  BY <1>1, SpeltIs, UnitType
<1>. HIDE DEF h
<1>. HIDE DEF o, t
<1>3. Spelt(us) = Spelt(o) \o Spelt(t) /\ Spelt(o) \in Texts /\ Spelt(t) \in Texts /\ Spelt(ws) \in Texts
      /\ Spelt(us \o ws) = Spelt(us) \o Spelt(ws)
  BY <1>1, <1>2, SpeltIs DEF o, t, h
<1>. DEFINE so == Spelt(o)
            st == Spelt(t)
            sw == Spelt(ws)
            su == Spelt(us)
<1>4. so \in Texts /\ so # << >> /\ st \in Texts /\ sw \in Texts /\ su = so \o st /\ Spelt(us \o ws) = su \o sw
  BY <1>2, <1>3
<1>. HIDE DEF so, st, sw, su
<1>5. su \in Texts /\ su # << >>
  BY <1>4, AfterText
<1>6. (su \o sw)[1] = su[1]
  BY <1>4, <1>5, AfterText
<1>7. us \o ws \in Seq(Units) /\ us \o ws # << >>
  BY ConcatProperties
<1>. QED  BY <1>4, <1>5, <1>6, <1>7 DEF su

\* The first character after some items: that of the next, or what comes after
\* them all.
LEMMA ItemsText ==
  /\ Texted(Items)
  /\ \A its \in Seq(Items) : Written(its) \in Texts /\ (its # << >> => Written(its) # << >> /\ Written(its)[1] = its[1].text[1])
<1>1. Texted(Items)
  BY ItemText DEF Texted
<1>2. ASSUME NEW its \in Seq(Items), its # << >> PROVE Written(its) # << >> /\ Written(its)[1] = its[1].text[1]
  <2>1. Head(its) \in Items /\ Tail(its) \in Seq(Items) /\ its = <<Head(its)>> \o Tail(its) /\ Head(its) = its[1]
    BY <1>2, HeadAndTail
  <2>. DEFINE h == Head(its)
              r == Tail(its)
              t == h.text
              w == Written(r)
  <2>2. Written(<<h>> \o r) = t \o w /\ t \in Texts /\ w \in Texts
    BY <1>1, <2>1, WrittenCons
  <2>3. t # << >> /\ Written(its) = t \o w
    BY <2>1, <2>2, ItemText
  <2>. HIDE DEF t, w
  <2>4. (t \o w)[1] = t[1] /\ t \o w # << >>
    BY <2>2, <2>3, AfterText
  <2>. QED  BY <2>1, <2>3, <2>4 DEF t
<1>. QED  BY <1>1, <1>2, WrittenIs

ReadAs(its, us, p) ==
  /\ us \in Seq(Units) /\ Stood(us) = Stood(its)
  /\ its # << >> => us # << >> /\ Begins(us, its[1])
  /\ BracketBody[Written(its) \o (<<"]">> \o p)] = [end |-> "ok", text |-> Spelt(us) \o <<"]">>, rest |-> p]

LEMMA NoItems ==
  ASSUME NEW p \in Texts
  PROVE  ReadAs(<< >>, << >>, p)
<1>. DEFINE b == "]"
            q == <<b>> \o p
<1>1. b \in Symbols
  BY CharSymbols
<1>2. q \in Texts /\ q # << >> /\ q[1] = b /\ Tail(q) = p
  <2>. HIDE DEF b
  <2>. QED  BY <1>1, After1
<1>3. BracketBody[q] = [end |-> "ok", text |-> <<"]">>, rest |-> p]
  <2>. HIDE DEF q
  <2>. QED  BY <1>2, BracketBodyIs, BracketCases
<1>4. Written(<< >>) = << >> /\ Spelt(<< >>) = << >> /\ Stood(<< >>) = {}
  BY ItemsText, WrittenIs, SpeltIs
<1>5. << >> \o q = q /\ << >> \o <<"]">> = <<"]">>
  <2>1. q \in Seq(Symbols) /\ <<"]">> \in Seq(Symbols)
    BY <1>1, <1>2 DEF Texts
  <2>. HIDE DEF q
  <2>. QED  BY <2>1, ConcatEmptySeq
<1>6. << >> \in Seq(Units)
  OBVIOUS
<1>. QED  BY <1>3, <1>4, <1>5, <1>6 DEF ReadAs

LEMMA ItemsStep ==
  ASSUME NEW e \in Items, NEW s \in Seq(Items), Following(<<e>> \o s), NEW p \in Texts, NEW ws, ReadAs(s, ws, p)
  PROVE  \E vs : ReadAs(<<e>> \o s, vs, p)
<1>. DEFINE its == <<e>> \o s
            b == "]"
            d == <<b>>
            z == d \o p
            w == Written(s)
            r == w \o z
            t == e.text
<1>1. b \in Symbols /\ d \in Texts
  BY CharSymbols, BasicTexts
<1>2. z \in Texts /\ z # << >> /\ z[1] = b
  <2>. HIDE DEF b
  <2>. QED  BY <1>1, After1
<1>3. w \in Texts /\ (s # << >> => w # << >> /\ w[1] = s[1].text[1]) /\ (s = << >> => w = << >>)
  BY ItemsText, WrittenIs
<1>. HIDE DEF b, d
<1>. HIDE DEF z, w
<1>4. r \in Texts /\ r # << >> /\ r[1] = IF s = << >> THEN b ELSE s[1].text[1]
  <2>1. CASE s = << >>
    <3>1. r = z
      <4>1. z \in Seq(Symbols)
        BY <1>2 DEF Texts
      <4>. QED  BY <1>3, <2>1, <4>1, ConcatEmptySeq
    <3>. QED  BY <1>2, <2>1, <3>1
  <2>2. CASE s # << >>
    BY <1>2, <1>3, <2>2, AfterText
  <2>. QED  BY <2>1, <2>2
<1>5. its[1] = e /\ Len(its) \in Nat /\ Len(its) >= 1 /\ (s # << >> => its[2] = s[1] /\ Len(its) > 1)
  <2>1. <<e>> \in Seq(Items) /\ Len(<<e>>) = 1 /\ <<e>>[1] = e
    OBVIOUS
  <2>. DEFINE o == <<e>>
              m == 1
  <2>2. o \in Seq(Items) /\ Len(o) = m /\ o[m] = e /\ m \in 1..Len(o)
    BY <2>1
  <2>. HIDE DEF o
  <2>3. /\ Len(o \o s) = Len(o) + Len(s) /\ Len(s) \in Nat
        /\ \A i \in 1..Len(o) : (o \o s)[i] = o[i]
        /\ \A i \in 1..Len(s) : (o \o s)[Len(o) + i] = s[i]
    BY ZenonT(60), <2>2, DropConcat
  <2>4. (o \o s)[m] = e
    BY <2>2, <2>3
  <2>5. ASSUME s # << >> PROVE (o \o s)[m + m] = s[m] /\ Len(s) >= 1
    <3>1. m \in 1..Len(s) /\ Len(s) >= 1
      BY <2>3, <2>5, HeadAndTail
    <3>2. \A i \in 1..Len(s) : (o \o s)[m + i] = s[i]
      BY <2>2, <2>3
    <3>. HIDE DEF m
    <3>. QED  BY <3>1, <3>2
  <2>. QED  BY <2>2, <2>3, <2>4, <2>5 DEF o
<1>6. e # Item("]") /\ (e = Item("[") => r[1] # ":")
  <2>1. Apart(its, 1)
    BY <1>5 DEF Following
  <2>2. b # ":"
    BY DEF b
  <2>. QED  BY <1>4, <1>5, <2>1, <2>2 DEF Apart
<1>. HIDE DEF r
<1>7. PICK us \in Seq(Units) : /\ us # << >> /\ Stood(us) = e.set /\ Begins(us, e)
                              /\ BracketBody[e.text \o r] = Before(Spelt(us), BracketBody[r])
  BY <1>4, <1>6, ItemRead
<1>. DEFINE vs == us \o ws
<1>8. /\ ws \in Seq(Units) /\ Stood(ws) = Stood(s)
      /\ BracketBody[r] = [end |-> "ok", text |-> Spelt(ws) \o d, rest |-> p]
  BY DEF ReadAs, r, w, z, d, b
<1>9. vs \in Seq(Units) /\ vs # << >> /\ Spelt(vs)[1] = Spelt(us)[1] /\ Spelt(us) \in Texts
  BY <1>7, <1>8, SpeltBegins
<1>10. Spelt(vs) = Spelt(us) \o Spelt(ws) /\ Spelt(ws) \in Texts
  BY <1>7, <1>8, SpeltIs
<1>11. Stood(vs) = Stood(its)
  <2>1. Stood(vs) = Stood(us) \cup Stood(ws)
    BY <1>7, <1>8, StoodConcat
  <2>. DEFINE o == <<e>>
  <2>2. o \in Seq(Items) /\ Stood(o) = e.set
    BY StoodOne
  <2>. HIDE DEF o
  <2>3. Stood(o \o s) = Stood(o) \cup Stood(s)
    BY <2>2, StoodBoth
  <2>. QED  BY <1>7, <1>8, <2>1, <2>2, <2>3 DEF o
<1>12. Written(its) \o z = t \o r
  <2>1. Written(its) = t \o w /\ t \in Texts
    BY ItemsText, WrittenCons DEF w
  <2>. HIDE DEF t, its
  <2>2. (t \o w) \o z = t \o (w \o z)
    <3>1. Associates(t, w, z)
      BY <1>2, <1>3, <2>1, TextsAssociates
    <3>. QED  BY <3>1 DEF Associates
  <2>. QED  BY <2>1, <2>2 DEF r
<1>13. Before(Spelt(us), BracketBody[r]) = [end |-> "ok", text |-> Spelt(vs) \o d, rest |-> p]
  <2>. DEFINE su == Spelt(us)
              sw == Spelt(ws)
              x == [end |-> "ok", text |-> sw \o d, rest |-> p]
  <2>1. su \in Texts /\ sw \in Texts /\ Spelt(vs) = su \o sw /\ BracketBody[r] = x
    BY <1>8, <1>9, <1>10
  <2>. HIDE DEF su, sw
  <2>2. sw \o d \in Texts /\ (su \o sw) \o d = su \o (sw \o d)
    <3>1. JoinsText(sw, d) /\ Associates(su, sw, d)
      BY <1>1, <2>1, TextsAssociates
    <3>. QED  BY <3>1 DEF Associates, JoinsText
  <2>3. x \in Translations /\ x.end = "ok" /\ x.text = sw \o d /\ x.rest = p
    BY <2>2 DEF Translations, Ends
  <2>. HIDE DEF x
  <2>4. Before(su, x) = [end |-> x.end, text |-> su \o x.text, rest |-> x.rest]
    BY <2>1, <2>3, BeforeType
  <2>. QED  BY <2>1, <2>2, <2>3, <2>4 DEF su
<1>14. Begins(vs, its[1])
  BY <1>5, <1>7, <1>9 DEF Begins
<1>15. BracketBody[Written(its) \o z] = [end |-> "ok", text |-> Spelt(vs) \o d, rest |-> p]
  BY <1>7, <1>12, <1>13
<1>16. ReadAs(its, vs, p)
  BY <1>9, <1>11, <1>14, <1>15 DEF ReadAs, z, d, b
<1>. QED  BY <1>16

\* Items are read as ranges, up to the bracket that closes them.
LEMMA ItemsRead ==
  ASSUME NEW p \in Texts
  PROVE  \A its \in Seq(Items) : Following(its) => \E us : ReadAs(its, us, p)
<1>. DEFINE T == {its \in Seq(Items) : Following(its) => \E us : ReadAs(its, us, p)}
<1>1. << >> \in T
  BY NoItems
<1>2. ASSUME NEW s \in Seq(Items), NEW e \in Items, s \in T PROVE <<e>> \o s \in T
  <2>. DEFINE o == <<e>>
              m == 1
              its == o \o s
  <2>1. o \in Seq(Items) /\ Len(o) = m
    OBVIOUS
  <2>. HIDE DEF o
  <2>2. /\ its \in Seq(Items) /\ Len(its) = Len(o) + Len(s) /\ Len(s) \in Nat
        /\ \A i \in 1..Len(s) : its[Len(o) + i] = s[i]
    BY <2>1, DropConcat
  <2>. HIDE DEF its
  <2>3. Len(its) = m + Len(s) /\ \A i \in 1..Len(s) : its[m + i] = s[i]
    BY <2>1, <2>2
  <2>4. ASSUME Following(its) PROVE Following(s)
    <3>1. SUFFICES ASSUME NEW i \in 1..Len(s) PROVE Apart(s, i)
      BY DEF Following
    <3>. DEFINE j == m + i
    <3>2. j \in 1..Len(its) /\ its[j] = s[i] /\ (i < Len(s) => j < Len(its) /\ i + 1 \in 1..Len(s) /\ j + 1 = m + (i + 1))
      BY <2>2, <2>3
    <3>3. i < Len(s) => its[j + 1] = s[i + 1]
      <4>. DEFINE k == i + 1
      <4>. HIDE DEF m, j, k
      <4>1. i < Len(s) => k \in 1..Len(s) /\ j + 1 = m + k
        BY <3>2 DEF k
      <4>2. i < Len(s) => its[m + k] = s[k]
        BY <2>3, <4>1
      <4>. QED  BY <4>1, <4>2 DEF k
    <3>. HIDE DEF j
    <3>4. Apart(its, j)
      BY <2>4, <3>2 DEF Following
    <3>. QED  BY <3>2, <3>3, <3>4 DEF Apart
  <2>5. ASSUME Following(its) PROVE \E vs : ReadAs(its, vs, p)
    <3>1. PICK ws : ReadAs(s, ws, p)
      BY <1>2, <2>4, <2>5
    <3>. QED  BY <2>5, <3>1, ItemsStep DEF its, o
  <2>. QED  BY <2>2, <2>5 DEF its, o
<1>. HIDE DEF T
<1>3. Seq(Items) \subseteq T
  BY <1>1, <1>2, ConsInduction
<1>. QED  BY <1>3 DEF T

LEMMA TextHeads ==
  /\ \A c : Item(c).text[1] = c
  /\ \A lo, hi : FromTo(lo, hi).text[1] = lo
BY DEF Item, FromTo

\* What an item may be where it stands.
LEMMA ItemFacts ==
  ASSUME NEW neg, NEW its, NEW i, IsItem(neg, its, i)
  PROVE  /\ its[i] = Item("]") => i = 1
         /\ its[i] = Item("[") => i = Len(its) \/ its[i + 1].text[1] # ":"
         /\ its[i].text[1] \in {"!", "^"} => i > 1 \/ neg # << >>
         /\ its[i].text[1] = "]" => its[i] = Item("]")
<1>. DEFINE it == its[i]
<1>1. ASSUME NEW c \in Chars \ {"\\", "-", "{", "}", ","}, it = Item(c),
             c = "]" => i = 1, c \in {"!", "^"} => i > 1 \/ neg # << >>,
             c = "[" => i = Len(its) \/ its[i + 1].text[1] # ":"
      PROVE  /\ it = Item("]") => i = 1
             /\ it = Item("[") => i = Len(its) \/ its[i + 1].text[1] # ":"
             /\ it.text[1] \in {"!", "^"} => i > 1 \/ neg # << >>
             /\ it.text[1] = "]" => it = Item("]")
  <2>1. it.text[1] = c
    BY <1>1, TextHeads
  <2>2. Item("]").text[1] = "]" /\ Item("[").text[1] = "["
    BY DEF Item
  <2>. HIDE DEF it
  <2>. QED  BY <1>1, <2>1, <2>2
<1>2. ASSUME NEW c \in Chars, it = QuotedItem(c)
      PROVE  it.text[1] = "\\"
  BY <1>2 DEF QuotedItem
<1>3. ASSUME NEW lo \in Chars \ {"\\", "-", "{", "}", ",", "[", "]", "!", "^"}, NEW hi \in Chars, it = FromTo(lo, hi)
      PROVE  it.text[1] \notin {"!", "^", "[", "]"}
  <2>1. it.text[1] = lo
    BY ZenonT(60), <1>3, TextHeads
  <2>. HIDE DEF it
  <2>. QED  BY <2>1
<1>4. ASSUME NEW n \in DOMAIN classChars, it = ClassItem(n)
      PROVE  it.text[1] = "[" /\ it # Item("[")
  <2>1. it.text = <<"[", ":", n, ":", "]">> /\ Item("[").text = <<"[">>
    BY <1>4 DEF ClassItem, Item
  <2>2. Len(<<"[", ":", n, ":", "]">>) = 5 /\ Len(<<"[">>) = 1
    OBVIOUS
  <2>. HIDE DEF it
  <2>3. it.text[1] = "["
    BY <2>1
  <2>4. it # Item("[")
    <3>1. SUFFICES ASSUME it = Item("[") PROVE FALSE
      OBVIOUS
    <3>2. Len(it.text) = 5 /\ Len(it.text) = 1
      BY <2>1, <2>2, <3>1
    <3>. QED  BY <3>2
  <2>. QED  BY <2>3, <2>4
<1>5. Item("]").text[1] = "]" /\ Item("[").text[1] = "["
  BY DEF Item
<1>6. \/ \E c \in Chars \ {"\\", "-", "{", "}", ","} :
           /\ it = Item(c)
           /\ c = "]" => i = 1
           /\ c \in {"!", "^"} => i > 1 \/ neg # << >>
           /\ c = "[" => i = Len(its) \/ its[i + 1].text[1] # ":"
      \/ \E c \in Chars : it = QuotedItem(c)
      \/ \E lo, hi \in Chars \ {"\\", "-", "{", "}", ",", "[", "]", "!", "^"} : it = FromTo(lo, hi)
      \/ \E n \in DOMAIN classChars : it = ClassItem(n)
  BY DEF IsItem
<1>. HIDE DEF it
<1>7. /\ it = Item("]") => i = 1
      /\ it = Item("[") => i = Len(its) \/ its[i + 1].text[1] # ":"
      /\ it.text[1] \in {"!", "^"} => i > 1 \/ neg # << >>
      /\ it.text[1] = "]" => it = Item("]")
  <2>1. CASE \E c \in Chars \ {"\\", "-", "{", "}", ","} :
           /\ it = Item(c)
           /\ c = "]" => i = 1
           /\ c \in {"!", "^"} => i > 1 \/ neg # << >>
           /\ c = "[" => i = Len(its) \/ its[i + 1].text[1] # ":"
    BY <2>1, <1>1
  <2>2. CASE \E c \in Chars : it = QuotedItem(c)
    BY <2>2, <1>2, <1>5
  <2>3. CASE \E lo, hi \in Chars \ {"\\", "-", "{", "}", ",", "[", "]", "!", "^"} : it = FromTo(lo, hi)
    BY <2>3, <1>3, <1>5
  <2>4. CASE \E n \in DOMAIN classChars : it = ClassItem(n)
    BY <2>4, <1>4, <1>5
  <2>. QED  BY <1>6, <2>1, <2>2, <2>3, <2>4
<1>. QED  BY <1>7 DEF it

\* A bracket by its parts: what it begins with, and what is in it.
Opening(neg) == IF neg = << >> THEN <<"[">> ELSE <<"[", "^">>

LEMMA BracketOf ==
  ASSUME NEW y \in Texts, y # << >>, NEW neg \in {<< >>, <<"!">>, <<"^">>},
         neg = << >> => y[1] \notin {"!", "^"}
  PROVE  TranslateBracket(<<"[">> \o (neg \o y)) =
           Before(Opening(neg), IF y[1] = "]" THEN Before(<<"\\", "]">>, BracketBody[Tail(y)]) ELSE BracketBody[y])
<1>. DEFINE b == "["
            q == <<b>> \o (neg \o y)
            isNeg == Len(q) > 1 /\ q[2] \in {"!", "^"}
<1>1. b \in Symbols /\ y \in Seq(Symbols)
  BY CharSymbols DEF Texts
<1>2. CASE neg = << >>
  <2>1. neg \o y = y
    BY <1>1, <1>2, ConcatEmptySeq
  <2>2. q \in Texts /\ q # << >> /\ q[2] = y[1] /\ Drop(q, 1) = y
    <3>. HIDE DEF b
    <3>. QED  BY <1>1, <2>1, After1
  <2>3. ~isNeg
    BY <1>2, <2>2
  <2>4. Opening(neg) = <<"[">>
    BY <1>2 DEF Opening
  <2>. HIDE DEF q
  <2>5. TranslateBracket(q) = Before(<<"[">>, IF y[1] = "]" THEN Before(<<"\\", "]">>, BracketBody[Tail(y)]) ELSE BracketBody[y])
    BY <2>2, <2>3 DEF TranslateBracket
  <2>. QED  BY <2>4, <2>5 DEF q
<1>3. ASSUME NEW c \in {"!", "^"}, neg = <<c>>
      PROVE  TranslateBracket(q) = Before(Opening(neg), IF y[1] = "]" THEN Before(<<"\\", "]">>, BracketBody[Tail(y)]) ELSE BracketBody[y])
  <2>1. c \in Symbols
    BY CharSymbols
  <2>. DEFINE r == <<c>> \o y
              pr == <<b, c>>
  <2>2. r \in Texts /\ r # << >> /\ r[1] = c
    BY <2>1, After1
  <2>. HIDE DEF r
  <2>3. <<b>> \o r \in Texts /\ <<b>> \o r # << >> /\ (<<b>> \o r)[2] = r[1] /\ Len(<<b>> \o r) > 1
    <3>. HIDE DEF b
    <3>. QED  BY <1>1, <2>2, After1
  <2>4. q = <<b>> \o r
    BY <1>3 DEF r
  <2>5. isNeg
    BY <1>3, <2>2, <2>3, <2>4
  <2>6. pr \in Texts /\ Len(pr) = 2 /\ pr \o y = <<b>> \o r
    <3>. HIDE DEF b
    <3>. QED  BY SMTT(60), <1>1, <2>1, PairText, Nested2 DEF r
  <2>7. Drop(q, 2) = y
    <3>. HIDE DEF pr
    <3>1. Drop(pr \o y, 2) = y
      BY <2>6, AfterPair
    <3>. QED  BY <2>4, <2>6, <3>1
  <2>8. Opening(neg) = <<"[", "^">>
    BY <1>3 DEF Opening
  <2>. HIDE DEF q
  <2>9. TranslateBracket(q) = Before(<<"[", "^">>, IF y[1] = "]" THEN Before(<<"\\", "]">>, BracketBody[Tail(y)]) ELSE BracketBody[y])
    BY <2>5, <2>7 DEF TranslateBracket
  <2>. QED  BY <2>8, <2>9
<1>. QED  BY <1>2, <1>3 DEF q

LEMMA SeqOfSome ==
  ASSUME NEW S, NEW R, NEW s \in Seq(S), \A i \in 1..Len(s) : s[i] \in R
  PROVE  s \in Seq(R)
<1>1. Len(s) \in Nat /\ DOMAIN s = 1..Len(s) /\ s = [i \in 1..Len(s) |-> s[i]]
  BY LenProperties
<1>. DEFINE n == Len(s)
<1>2. n \in Nat /\ s = [i \in 1..n |-> s[i]] /\ \A i \in 1..n : s[i] \in R
  BY <1>1
<1>. HIDE DEF n
<1>3. s \in [1..n -> R]
  BY <1>2
<1>. QED  BY <1>2, <1>3

\* The items of a bracket.
LEMMA BracketItems ==
  ASSUME NEW a, IsBracket(a)
  PROVE  /\ a.items \in Seq(Items) /\ a.items # << >> /\ a.neg \in {<< >>, <<"!">>, <<"^">>}
         /\ a.items[1].text[1] \in {"!", "^"} => a.neg # << >>
         /\ a.items[1].text[1] = "]" => a.items[1] = Item("]")
         /\ \A i \in 1..Len(a.items) :
              /\ a.items[i] = Item("]") => i = 1
              /\ a.items[i] = Item("[") => i = Len(a.items) \/ a.items[i + 1].text[1] # ":"
<1>. DEFINE its == a.items
<1>1. /\ a.neg \in {<< >>, <<"!">>, <<"^">>} /\ its \in Seq(ToSet(its)) /\ its # << >>
      /\ \A i \in DOMAIN its : IsItem(a.neg, its, i)
  BY DEF IsBracket
<1>. HIDE DEF its
<1>2. DOMAIN its = 1..Len(its) /\ Len(its) \in Nat /\ 1 \in 1..Len(its)
  BY <1>1, LenProperties, HeadAndTail
<1>3. its \in Seq(Items)
  <2>1. \A i \in 1..Len(its) : its[i] \in Items
    BY <1>1, <1>2, ItemIs
  <2>. QED  BY <1>1, <2>1, SeqOfSome
<1>4. \A i \in 1..Len(its) :
        /\ its[i] = Item("]") => i = 1
        /\ its[i] = Item("[") => i = Len(its) \/ its[i + 1].text[1] # ":"
  <2>1. SUFFICES ASSUME NEW i \in 1..Len(its)
                 PROVE  /\ its[i] = Item("]") => i = 1
                        /\ its[i] = Item("[") => i = Len(its) \/ its[i + 1].text[1] # ":"
    OBVIOUS
  <2>2. IsItem(a.neg, its, i)
    BY <1>1, <1>2
  <2>. QED  BY <2>2, ItemFacts
<1>5. /\ its[1].text[1] \in {"!", "^"} => a.neg # << >>
      /\ its[1].text[1] = "]" => its[1] = Item("]")
  <2>1. IsItem(a.neg, its, 1)
    BY <1>1, <1>2
  <2>. DEFINE m == 1
  <2>2. IsItem(a.neg, its, m) /\ ~(m > 1)
    BY <2>1
  <2>. HIDE DEF m
  <2>3. /\ its[m].text[1] \in {"!", "^"} => a.neg # << >>
        /\ its[m].text[1] = "]" => its[m] = Item("]")
    BY <2>2, ItemFacts
  <2>. QED  BY <2>3 DEF m
<1>. QED  BY <1>1, <1>3, <1>4, <1>5 DEF its

BracketIn(us, a) ==
  /\ us \in Seq(Units) /\ us # << >> /\ Stood(us) = Stood(a.items)
  /\ a.neg = << >> => Spelt(us)[1] # "^"

\* A bracket that begins with "]".
LEMMA LiteralFirst ==
  ASSUME NEW its \in Seq(Items), its # << >>, its[1] = Item("]"), NEW p \in Texts,
         \A i \in 1..Len(its) :
           /\ its[i] = Item("]") => i = 1
           /\ its[i] = Item("[") => i = Len(its) \/ its[i + 1].text[1] # ":"
  PROVE  LET y == Written(its) \o (<<"]">> \o p)
         IN  /\ y[1] = "]" /\ y # << >> /\ y \in Texts
             /\ \E us \in Seq(Units) :
                  /\ us # << >> /\ Stood(us) = Stood(its) /\ Spelt(us)[1] # "^"
                  /\ Before(<<"\\", "]">>, BracketBody[Tail(y)]) =
                       [end |-> "ok", text |-> Spelt(us) \o <<"]">>, rest |-> p]
<1>. DEFINE b == "]"
            d == <<b>>
            z == d \o p
            h == Head(its)
            s == Tail(its)
            w == Written(s)
            y == Written(its) \o z
            lit == <<"\\", b>>
<1>1. h = Item(b) /\ h \in Items /\ s \in Seq(Items) /\ its = <<h>> \o s /\ Len(its) \in Nat \ {0} /\ Len(s) = Len(its) - 1
      /\ h.text = d /\ h.set = {b} /\ b \in Chars /\ b \in Symbols /\ d \in Texts
  <2>1. h = its[1] /\ h \in Items /\ s \in Seq(Items) /\ its = <<h>> \o s /\ Len(its) \in Nat \ {0} /\ Len(s) = Len(its) - 1
    BY HeadAndTail
  <2>2. Item(b).text = d /\ Item(b).set = {b}
    BY DEF Item
  <2>3. b \in Chars /\ b \in Symbols /\ d \in Texts
    BY PunctuationChars, CharSymbols, BasicTexts
  <2>. QED  BY <2>1, <2>2, <2>3
<1>. HIDE DEF h, s
<1>2. z \in Texts
  <2>. HIDE DEF b
  <2>. QED  BY <1>1, After1
<1>3. Written(its) = d \o w /\ w \in Texts
  <2>0. Texted(Items) /\ h \in Items /\ s \in Seq(Items)
    BY <1>1, ItemsText
  <2>1. Written(<<h>> \o s) = h.text \o Written(s) /\ Written(s) \in Texts
    BY <2>0, WrittenCons
  <2>. QED  BY <1>1, <2>1
<1>4. Following(s)
  <2>1. SUFFICES ASSUME NEW i \in 1..Len(s) PROVE Apart(s, i)
    BY DEF Following
  <2>. DEFINE m == 1
              j == m + i
  <2>2. \A k \in 1..Len(s) : its[m + k] = s[k]
    <3>. DEFINE o == <<h>>
    <3>1. o \in Seq(Items) /\ Len(o) = m
      <4>1. h \in Items
        BY <1>1
      <4>. QED  BY <4>1
    <3>. HIDE DEF o, m
    <3>2. \A k \in 1..Len(s) : (o \o s)[m + k] = s[k]
      BY <1>1, <3>1, DropConcat
    <3>. QED  BY <1>1, <3>2 DEF o
  <2>3. Len(s) \in Nat
    BY <1>1, LenProperties
  <2>4. j \in 1..Len(its) /\ j # 1 /\ (j = Len(its) <=> i = Len(s)) /\ (i # Len(s) => i + 1 \in 1..Len(s))
    <3>1. Len(its) \in Nat /\ Len(s) = Len(its) - 1
      BY <1>1
    <3>. QED  BY <2>3, <3>1
  <2>5. its[j] = s[i] /\ (i # Len(s) => its[j + 1] = s[i + 1])
    <3>. DEFINE k == i + 1
    <3>1. j + 1 = m + k /\ (i # Len(s) => k \in 1..Len(s))
      BY <2>4
    <3>. HIDE DEF m, k, s
    <3>. QED  BY <2>2, <3>1 DEF k
  <2>6. i < Len(s) => i # Len(s)
    BY <2>3
  <2>7. /\ its[j] = Item("]") => j = 1
        /\ its[j] = Item("[") => j = Len(its) \/ its[j + 1].text[1] # ":"
    <3>. HIDE DEF j, s
    <3>. QED  BY <2>4
  <2>. HIDE DEF j, s
  <2>. QED  BY <2>4, <2>5, <2>6, <2>7 DEF Apart
<1>5. PICK ws : ReadAs(s, ws, p)
  BY <1>1, <1>4, ItemsRead
<1>. DEFINE u == [text |-> lit, set |-> {b}]
            o == <<u>>
            us == o \o ws
<1>6. u \in Units /\ lit \in Texts
  BY <1>1, CharSymbols, BasicTexts DEF Units, QuotedUnits
<1>7. o \in Seq(Units) /\ o # << >> /\ Spelt(o) = lit /\ Stood(o) = {b}
  <2>1. u.text = lit /\ u.set = {b}
    OBVIOUS
  <2>. HIDE DEF u
  <2>2. Spelt(<<u>>) = u.text /\ Stood(<<u>>) = u.set /\ <<u>> \in Seq(Units)
    BY <1>6, SpeltIs, StoodOne
  <2>. QED  BY <2>1, <2>2
<1>8. ws \in Seq(Units) /\ Stood(ws) = Stood(s) /\ Spelt(ws) \in Texts
      /\ BracketBody[w \o z] = [end |-> "ok", text |-> Spelt(ws) \o d, rest |-> p]
  BY <1>5, SpeltIs DEF ReadAs
<1>. DEFINE sw == Spelt(ws)
            wz == w \o z
<1>. HIDE DEF o, u
<1>9. us \in Seq(Units) /\ us # << >> /\ Spelt(us) = lit \o sw /\ Stood(us) = {b} \cup Stood(s) /\ Spelt(us)[1] = lit[1]
  <2>1. Spelt(us) = Spelt(o) \o Spelt(ws)
    BY <1>7, <1>8, SpeltIs
  <2>2. Stood(us) = Stood(o) \cup Stood(ws)
    BY <1>7, <1>8, StoodConcat
  <2>3. us \in Seq(Units) /\ us # << >> /\ Spelt(us)[1] = Spelt(o)[1]
    BY <1>7, <1>8, SpeltBegins
  <2>. HIDE DEF us, lit
  <2>. QED  BY <1>7, <1>8, <2>1, <2>2, <2>3
<1>10. Stood(its) = {b} \cup Stood(s)
  <2>. DEFINE v == <<h>>
  <2>1. v \in Seq(Items) /\ Stood(v) = {b}
    <3>1. Stood(v) = h.set /\ h \in Items
      BY <1>1, StoodOne
    <3>. QED  BY <1>1, <3>1
  <2>. HIDE DEF v
  <2>0. s \in Seq(Items)
    BY <1>1
  <2>2. Stood(v \o s) = Stood(v) \cup Stood(s)
    BY <2>0, <2>1, StoodBoth
  <2>. QED  BY <1>1, <2>1, <2>2 DEF v
<1>11. wz \in Texts /\ y = d \o wz
  <2>1. d \in Texts
    BY <1>1
  <2>. HIDE DEF w, z, d
  <2>2. (d \o w) \o z = d \o (w \o z) /\ w \o z \in Texts
    <3>1. Associates(d, w, z) /\ JoinsText(w, z)
      BY <1>2, <1>3, <2>1, TextsAssociates
    <3>. QED  BY <3>1 DEF Associates, JoinsText
  <2>. QED  BY <1>3, <2>2
<1>12. y \in Texts /\ y # << >> /\ y[1] = b /\ Tail(y) = wz
  <2>. HIDE DEF wz, y, b
  <2>. QED  BY <1>1, <1>11, After1
<1>13. Before(lit, BracketBody[wz]) = [end |-> "ok", text |-> Spelt(us) \o d, rest |-> p]
  <2>. DEFINE x == [end |-> "ok", text |-> sw \o d, rest |-> p]
  <2>0. d \in Texts /\ lit \in Texts
    BY <1>1, <1>6
  <2>. HIDE DEF sw, d, lit
  <2>1. sw \in Texts
    BY <1>8 DEF sw
  <2>2. sw \o d \in Texts /\ (lit \o sw) \o d = lit \o (sw \o d)
    <3>1. JoinsText(sw, d) /\ Associates(lit, sw, d)
      BY <2>0, <2>1, TextsAssociates
    <3>. QED  BY <3>1 DEF Associates, JoinsText
  <2>3. x \in Translations /\ x.end = "ok" /\ x.text = sw \o d /\ x.rest = p
    BY <2>2 DEF Translations, Ends
  <2>. HIDE DEF x
  <2>4. Before(lit, x) = [end |-> x.end, text |-> lit \o x.text, rest |-> x.rest]
    BY <1>6, <2>3, BeforeType
  <2>5. BracketBody[wz] = x
    BY <1>8 DEF x, sw, wz
  <2>6. Spelt(us) = lit \o sw
    BY <1>9
  <2>. QED  BY <2>2, <2>3, <2>4, <2>5, <2>6
<1>14. lit[1] # "^"
  OBVIOUS
<1>. HIDE DEF y, wz, us
<1>. QED  BY <1>9, <1>10, <1>12, <1>13, <1>14 DEF y

\* What translateBracket makes of a bracket: the same opening, ranges that
\* stand for the same characters, and "]".
LEMMA BracketRead ==
  ASSUME NEW a, IsBracket(a), NEW p \in Texts
  PROVE  /\ a.text \in Texts
         /\ \E us \in Seq(Units) :
              /\ BracketIn(us, a)
              /\ TranslateBracket(a.text \o p) =
                   [end |-> "ok", text |-> Opening(a.neg) \o (Spelt(us) \o <<"]">>), rest |-> p]
<1>. DEFINE its == a.items
            neg == a.neg
            b == "]"
            c == "["
            d == <<b>>
            op == <<c>>
            w == Written(its)
            z == d \o p
            y == w \o z
<1>1. /\ its \in Seq(Items) /\ its # << >> /\ neg \in {<< >>, <<"!">>, <<"^">>}
      /\ its[1].text[1] \in {"!", "^"} => neg # << >>
      /\ its[1].text[1] = b => its[1] = Item("]")
      /\ \A i \in 1..Len(its) :
              /\ its[i] = Item("]") => i = 1
              /\ its[i] = Item("[") => i = Len(its) \/ its[i + 1].text[1] # ":"
  BY BracketItems
<1>2. b \in Symbols /\ c \in Symbols /\ d \in Texts /\ op \in Texts
  BY CharSymbols, BasicTexts
<1>3. neg \in Texts
  <2>1. << >> \in Texts /\ <<"!">> \in Texts /\ <<"^">> \in Texts
    BY CharSymbols, BasicTexts
  <2>. HIDE DEF neg
  <2>. QED  BY <1>1, <2>1
<1>4. a.text = ((op \o neg) \o w) \o d
  <2>1. a = Bracket(neg, its)
    BY DEF IsBracket
  <2>2. Bracket(neg, its).text = ((op \o neg) \o w) \o d
    BY DEF Bracket
  <2>. QED  BY <2>1, <2>2
<1>. HIDE DEF its, neg
<1>5. w \in Texts /\ w # << >> /\ w[1] = its[1].text[1]
  BY <1>1, ItemsText
<1>. HIDE DEF w, d, op
<1>6. z \in Texts /\ y \in Texts /\ y # << >> /\ y[1] = w[1]
  <2>1. z \in Texts
    <3>1. JoinsText(d, p)
      BY <1>2, TextsJoin
    <3>. QED  BY <3>1 DEF JoinsText
  <2>. HIDE DEF z
  <2>. QED  BY <1>5, <2>1, AfterText
<1>7. a.text \in Texts /\ a.text \o p = op \o (neg \o y)
  <2>. DEFINE e == op \o neg
              f == e \o w
  <2>1. e \in Texts
    <3>1. JoinsText(op, neg)
      BY <1>2, <1>3, TextsJoin
    <3>. QED  BY <3>1 DEF JoinsText
  <2>. HIDE DEF e
  <2>2. f \in Texts /\ e \o (w \o z) = (e \o w) \o z
    <3>1. Associates(e, w, z) /\ JoinsText(e, w)
      BY <1>5, <1>6, <2>1, TextsAssociates
    <3>. QED  BY <3>1 DEF Associates, JoinsText
  <2>. HIDE DEF f
  <2>3. f \o d \in Texts /\ (f \o d) \o p = f \o (d \o p)
    <3>1. JoinsText(f, d) /\ Associates(f, d, p)
      BY <1>2, <2>2, TextsAssociates
    <3>. QED  BY <3>1 DEF Associates, JoinsText
  <2>4. a.text = f \o d
    BY <1>4 DEF f, e
  <2>5. f \o z = e \o y
    BY <2>2 DEF f
  <2>. HIDE DEF y
  <2>6. (op \o neg) \o y = op \o (neg \o y)
    <3>1. Associates(op, neg, y)
      BY <1>2, <1>3, <1>6, TextsAssociates
    <3>. QED  BY <3>1 DEF Associates
  <2>. QED  BY <2>3, <2>4, <2>5, <2>6 DEF e
<1>8. neg = << >> => y[1] \notin {"!", "^"}
  BY <1>1, <1>5, <1>6
<1>9. TranslateBracket(a.text \o p) =
        Before(Opening(neg), IF y[1] = b THEN Before(<<"\\", "]">>, BracketBody[Tail(y)]) ELSE BracketBody[y])
  <2>. HIDE DEF y
  <2>1. TranslateBracket(<<"[">> \o (neg \o y)) =
        Before(Opening(neg), IF y[1] = "]" THEN Before(<<"\\", "]">>, BracketBody[Tail(y)]) ELSE BracketBody[y])
    BY <1>1, <1>6, <1>8, BracketOf
  <2>. QED  BY <1>7, <2>1 DEF op
<1>10. \E us \in Seq(Units) :
         /\ BracketIn(us, a)
         /\ (IF y[1] = b THEN Before(<<"\\", "]">>, BracketBody[Tail(y)]) ELSE BracketBody[y]) =
              [end |-> "ok", text |-> Spelt(us) \o d, rest |-> p]
  <2>1. CASE y[1] = b
    <3>1. its[1] = Item("]")
      BY <1>1, <1>5, <1>6, <2>1
    <3>2. PICK us \in Seq(Units) :
                  /\ us # << >> /\ Stood(us) = Stood(its) /\ Spelt(us)[1] # "^"
                  /\ Before(<<"\\", "]">>, BracketBody[Tail(y)]) =
                       [end |-> "ok", text |-> Spelt(us) \o <<"]">>, rest |-> p]
      BY <1>1, <3>1, LiteralFirst DEF y, w, z, d
    <3>3. BracketIn(us, a)
      BY <3>2 DEF BracketIn, its
    <3>. HIDE DEF y
    <3>. QED  BY <2>1, <3>2, <3>3 DEF d
  <2>2. CASE y[1] # b
    <3>1. Item("]").text[1] = "]"
      BY DEF Item
    <3>2. its[1] # Item("]")
      BY <1>5, <1>6, <2>2, <3>1
    <3>3. Following(its)
      <4>1. SUFFICES ASSUME NEW i \in 1..Len(its) PROVE Apart(its, i)
        BY DEF Following
      <4>2. its[i] # Item("]")
        BY <1>1, <3>2
      <4>3. its[i] = Item("[") /\ i < Len(its) => its[i + 1].text[1] # ":"
        <5>1. Len(its) \in Nat
          BY <1>1, LenProperties
        <5>2. i < Len(its) => i # Len(its)
          BY <5>1
        <5>. QED  BY <1>1, <5>2
      <4>. QED  BY <4>2, <4>3 DEF Apart
    <3>4. PICK us : ReadAs(its, us, p)
      BY <1>1, <3>3, ItemsRead
    <3>5. us \in Seq(Units) /\ us # << >> /\ Stood(us) = Stood(its) /\ Begins(us, its[1])
          /\ BracketBody[y] = [end |-> "ok", text |-> Spelt(us) \o d, rest |-> p]
      BY <1>1, <3>4 DEF ReadAs, y, w, z, d
    <3>6. neg = << >> => Spelt(us)[1] # "^"
      <4>1. Item("^").text[1] = "^"
        BY DEF Item
      <4>. QED  BY <1>1, <3>5, <4>1 DEF Begins
    <3>7. BracketIn(us, a)
      BY <3>5, <3>6 DEF BracketIn, its, neg
    <3>. HIDE DEF y
    <3>. QED  BY <2>2, <3>5, <3>7
  <2>. QED  BY <2>1, <2>2
<1>11. PICK us \in Seq(Units) :
         /\ BracketIn(us, a)
         /\ (IF y[1] = b THEN Before(<<"\\", "]">>, BracketBody[Tail(y)]) ELSE BracketBody[y]) =
              [end |-> "ok", text |-> Spelt(us) \o d, rest |-> p]
  BY <1>10
<1>. DEFINE x == [end |-> "ok", text |-> Spelt(us) \o d, rest |-> p]
<1>12. x \in Translations /\ x.end = "ok" /\ x.text = Spelt(us) \o d /\ x.rest = p
  <2>. DEFINE su == Spelt(us)
  <2>1. su \in Texts
    BY SpeltIs
  <2>. HIDE DEF su
  <2>2. su \o d \in Texts
    <3>1. JoinsText(su, d)
      BY <1>2, <2>1, TextsJoin
    <3>. QED  BY <3>1 DEF JoinsText
  <2>. QED  BY <2>2 DEF su, Translations, Ends
<1>13. Opening(neg) \in Texts
  BY BasicTexts, CharSymbols DEF Opening
<1>14. TranslateBracket(a.text \o p) = Before(Opening(neg), x)
  BY <1>9, <1>11
<1>. HIDE DEF x
<1>15. Before(Opening(neg), x) = [end |-> x.end, text |-> Opening(neg) \o x.text, rest |-> x.rest]
  BY <1>12, <1>13, BeforeType
<1>. QED  BY <1>7, <1>11, <1>12, <1>14, <1>15 DEF d, neg

\* What filepath.Match reads in a bracket that translateBracket has written.
LEMMA BracketAtoms ==
  ASSUME NEW a, NEW us, BracketIn(us, a), NEW v \in Texts
  PROVE  LET t == Opening(a.neg) \o (Spelt(us) \o <<"]">>)
         IN  /\ t \in Texts
             /\ Atoms[t \o v] = <<One(t \o v, IF a.neg = << >> THEN Stood(a.items) ELSE Chars \ Stood(a.items))>> \o Atoms[v]
<1>. DEFINE neg == a.neg
            su == Spelt(us)
            b == "]"
            d == <<b>>
            op == Opening(neg)
            t == op \o (su \o d)
            q == t \o v
            z == d \o v
            y == su \o z
            set == Stood(us)
<1>1. us \in Seq(Units) /\ us # << >> /\ Stood(us) = Stood(a.items) /\ (neg = << >> => su[1] # "^")
  BY DEF BracketIn
<1>2. su \in Texts /\ su # << >>
  <2>1. << >> \in Seq(Units)
    OBVIOUS
  <2>. QED  BY <1>1, <2>1, SpeltBegins
<1>3. d \in Texts /\ op \in Texts /\ "[" \in Symbols /\ "^" \in Symbols
  BY BasicTexts, CharSymbols DEF Opening
<1>4. z \in Texts /\ Ranges[y] = [ok |-> TRUE, set |-> set, rest |-> v]
  <2>1. z \in Texts
    <3>. HIDE DEF d
    <3>1. JoinsText(d, v)
      BY <1>3, TextsJoin
    <3>. QED  BY <3>1 DEF JoinsText
  <2>. QED  BY <1>1, <2>1, UnitsRead
<1>. HIDE DEF neg, su, d, op, set
<1>5. t \in Texts /\ y \in Texts /\ y # << >> /\ y[1] = su[1] /\ q = op \o y
  <2>. DEFINE s == su \o d
  <2>1. s \in Texts /\ s \o v = su \o z
    <3>1. Associates(su, d, v) /\ JoinsText(su, d)
      BY <1>2, <1>3, TextsAssociates
    <3>. QED  BY <3>1 DEF Associates, JoinsText
  <2>2. y \in Texts /\ y # << >> /\ y[1] = su[1]
    <3>. HIDE DEF z
    <3>. QED  BY <1>2, <1>4, AfterText
  <2>. HIDE DEF s
  <2>3. op \o s \in Texts /\ (op \o s) \o v = op \o (s \o v)
    <3>1. op \in Texts /\ s \in Texts /\ v \in Texts
      BY <1>2, <1>3, <2>1
    <3>2. Associates(op, s, v) /\ JoinsText(op, s)
      BY <3>1, TextsAssociates
    <3>. QED  BY <3>2 DEF Associates, JoinsText
  <2>. QED  BY <2>1, <2>2, <2>3 DEF s
<1>. HIDE DEF t, y
<1>6. q \in Texts /\ q # << >> /\ q[1] = "[" /\ ClassIn(q) = Ranges[y]
      /\ ((Len(q) > 1 /\ q[2] = "^") <=> neg # << >>)
  <2>1. CASE neg = << >>
    <3>. DEFINE c == "["
    <3>1. op = <<c>> /\ c \in Symbols
      BY <1>3, <2>1 DEF op, Opening
    <3>. HIDE DEF c
    <3>2. q \in Texts /\ q # << >> /\ q[1] = c /\ Drop(q, 1) = y /\ q[2] = y[1] /\ Len(q) > 1
      BY <1>5, <3>1, After1
    <3>3. q[2] # "^"
      BY <1>1, <1>5, <2>1, <3>2 DEF neg, su
    <3>. HIDE DEF q
    <3>4. ClassIn(q) = Ranges[y]
      BY <3>2, <3>3 DEF ClassIn
    <3>. QED  BY <2>1, <3>2, <3>3, <3>4 DEF c
  <2>2. CASE neg # << >>
    <3>1. op = <<"[", "^">>
      BY <2>2 DEF op, Opening
    <3>2. op \in Texts /\ Len(op) = 2 /\ op[1] = "[" /\ op[2] = "^"
      BY <1>3, <3>1
    <3>3. q \in Texts /\ q # << >> /\ q[1] = "[" /\ q[2] = "^" /\ Len(q) > 1 /\ Drop(q, 2) = y
      BY <1>5, <3>2, AfterPair
    <3>. HIDE DEF q
    <3>4. ClassIn(q) = Ranges[y]
      BY <3>3 DEF ClassIn
    <3>. QED  BY <2>2, <3>3, <3>4
  <2>. QED  BY <2>1, <2>2
<1>. HIDE DEF q
<1>7. Atoms[q] = <<One(q, IF neg # << >> THEN Chars \ set ELSE set)>> \o Atoms[v]
  <2>1. Atoms[q] = IF ~ClassIn(q).ok THEN <<Bad(q)>>
                   ELSE <<One(q, IF Len(q) > 1 /\ q[2] = "^" THEN Chars \ ClassIn(q).set ELSE ClassIn(q).set)>> \o Atoms[ClassIn(q).rest]
    BY <1>6, AtomsIs DEF AtomsStep, ClassIn
  <2>2. ClassIn(q).ok = TRUE /\ ClassIn(q).set = set /\ ClassIn(q).rest = v
    BY <1>4, <1>6
  <2>. QED  BY <1>6, <2>1, <2>2
<1>8. t = Opening(a.neg) \o (Spelt(us) \o <<"]">>)
  BY DEF t, op, neg, su, d
<1>9. (IF neg # << >> THEN Chars \ set ELSE set) = (IF a.neg = << >> THEN Stood(a.items) ELSE Chars \ Stood(a.items))
  BY <1>1 DEF neg, set
<1>. QED  BY <1>5, <1>7, <1>8, <1>9 DEF q, neg

-----------------------------------------------------------------------------
(* The atoms of a segment, as they are read.                               *)

\* What filepath.Match reads is what was written.
Alike(x, a) == x.k = a.k /\ (a.k = "one" => x.chars = a.chars)

ReadAlike(a, p, w) ==
  /\ w \in Texts /\ Translate[a.text \o p] = Before(w, Translate[p])
  /\ \A v \in Texts : \E x : Alike(x, a) /\ Atoms[w \o v] = <<x>> \o Atoms[v]

\* A character that neither reader treats in a way of its own.
LEMMA LitRead ==
  ASSUME NEW c \in Symbols \ {"\\", "*", "?", "["}, NEW p \in Texts
  PROVE  ReadAlike(Lit(c), p, <<c>>)
<1>. DEFINE w == <<c>>
<1>1. c \in Symbols /\ w \in Texts
  BY BasicTexts
<1>2. Lit(c).text = w /\ Lit(c).k = "one" /\ Lit(c).chars = {c}
  BY DEF Lit, One
<1>3. \A v \in Texts : w \o v \in Texts /\ w \o v # << >> /\ (w \o v)[1] = c /\ Tail(w \o v) = v
  BY <1>1, After1
<1>4. Translate[w \o p] = Before(w, Translate[p])
  <2>. DEFINE q == w \o p
  <2>1. q \in Texts /\ q # << >> /\ q[1] = c /\ Tail(q) = p
    BY <1>3
  <2>. HIDE DEF q
  <2>2. TranslateStep(Translate, q) = Before(<<q[1]>>, Translate[Tail(q)])
    BY <2>1, TranslateCases
  <2>. QED  BY <2>1, <2>2, TranslateIs DEF q
<1>5. ASSUME NEW v \in Texts PROVE \E x : Alike(x, Lit(c)) /\ Atoms[w \o v] = <<x>> \o Atoms[v]
  <2>. DEFINE q == w \o v
              x == One(q, {c})
  <2>1. q \in Texts /\ q # << >> /\ q[1] = c /\ Tail(q) = v
    BY <1>3
  <2>2. x.k = "one" /\ x.chars = {c}
    BY DEF One
  <2>. HIDE DEF q
  <2>3. Atoms[q] = <<One(q, {q[1]})>> \o Atoms[Tail(q)]
    BY <2>1, AtomsIs DEF AtomsStep
  <2>. QED  BY <1>2, <2>1, <2>2, <2>3 DEF Alike, q
<1>. QED  BY <1>1, <1>2, <1>4, <1>5 DEF ReadAlike

LEMMA StarRead ==
  ASSUME NEW p \in Texts
  PROVE  ReadAlike(Star, p, <<"*">>)
<1>. DEFINE c == "*"
            w == <<c>>
<1>1. c \in Symbols /\ w \in Texts
  BY BasicTexts, CharSymbols
<1>2. Star.text = w /\ Star.k = "star"
  BY DEF Star
<1>3. \A v \in Texts : w \o v \in Texts /\ w \o v # << >> /\ (w \o v)[1] = c /\ Tail(w \o v) = v
  <2>. HIDE DEF c
  <2>. QED  BY <1>1, After1
<1>4. Translate[w \o p] = Before(w, Translate[p])
  <2>. DEFINE q == w \o p
  <2>1. q \in Texts /\ q # << >> /\ q[1] = c /\ Tail(q) = p
    BY <1>3
  <2>. HIDE DEF q
  <2>2. TranslateStep(Translate, q) = Before(<<q[1]>>, Translate[Tail(q)])
    BY <2>1, TranslateCases
  <2>. QED  BY <2>1, <2>2, TranslateIs DEF q
<1>5. ASSUME NEW v \in Texts PROVE \E x : Alike(x, Star) /\ Atoms[w \o v] = <<x>> \o Atoms[v]
  <2>. DEFINE q == w \o v
  <2>1. q \in Texts /\ q # << >> /\ q[1] = c /\ Tail(q) = v
    BY <1>3
  <2>. HIDE DEF q
  <2>3. Atoms[q] = <<Star>> \o Atoms[Tail(q)]
    BY <2>1, AtomsIs DEF AtomsStep
  <2>. QED  BY <1>2, <2>1, <2>3 DEF Alike, q
<1>. QED  BY <1>1, <1>2, <1>4, <1>5 DEF ReadAlike

LEMMA AnyRead ==
  ASSUME NEW p \in Texts
  PROVE  ReadAlike(AnyOne, p, <<"?">>)
<1>. DEFINE c == "?"
            w == <<c>>
<1>1. c \in Symbols /\ w \in Texts
  BY BasicTexts, CharSymbols
<1>2. AnyOne.text = w /\ AnyOne.k = "one" /\ AnyOne.chars = Chars
  BY DEF AnyOne, One
<1>3. \A v \in Texts : w \o v \in Texts /\ w \o v # << >> /\ (w \o v)[1] = c /\ Tail(w \o v) = v
  <2>. HIDE DEF c
  <2>. QED  BY <1>1, After1
<1>4. Translate[w \o p] = Before(w, Translate[p])
  <2>. DEFINE q == w \o p
  <2>1. q \in Texts /\ q # << >> /\ q[1] = c /\ Tail(q) = p
    BY <1>3
  <2>. HIDE DEF q
  <2>2. TranslateStep(Translate, q) = Before(<<q[1]>>, Translate[Tail(q)])
    BY <2>1, TranslateCases
  <2>. QED  BY <2>1, <2>2, TranslateIs DEF q
<1>5. ASSUME NEW v \in Texts PROVE \E x : Alike(x, AnyOne) /\ Atoms[w \o v] = <<x>> \o Atoms[v]
  <2>. DEFINE q == w \o v
              x == One(q, Chars)
  <2>1. q \in Texts /\ q # << >> /\ q[1] = c /\ Tail(q) = v
    BY <1>3
  <2>2. x.k = "one" /\ x.chars = Chars
    BY DEF One
  <2>. HIDE DEF q
  <2>3. Atoms[q] = <<One(q, Chars)>> \o Atoms[Tail(q)]
    BY <2>1, AtomsIs DEF AtomsStep
  <2>. QED  BY <1>2, <2>1, <2>2, <2>3 DEF Alike, q
<1>. QED  BY <1>1, <1>2, <1>4, <1>5 DEF ReadAlike

LEMMA QuotedRead ==
  ASSUME NEW c \in Chars, NEW p \in Texts
  PROVE  ReadAlike(Quoted(c), p, <<"\\", c>>)
<1>. DEFINE b == "\\"
            w == <<b, c>>
<1>1. b \in Symbols /\ c \in Symbols
  BY CharSymbols
<1>2. Quoted(c).text = w /\ Quoted(c).k = "one" /\ Quoted(c).chars = {c}
  BY DEF Quoted, One
<1>3. w \in Texts /\ Len(w) = 2 /\ w[1] = b /\ w[2] = c
  <2>. HIDE DEF b
  <2>. QED  BY <1>1, PairText
<1>. HIDE DEF w
<1>4. \A v \in Texts : /\ w \o v \in Texts /\ w \o v # << >> /\ (w \o v)[1] = b /\ (w \o v)[2] = c
                       /\ Len(w \o v) > 1 /\ Drop(w \o v, 2) = v /\ Len(w \o v) # 1
  <2>1. SUFFICES ASSUME NEW v \in Texts
                 PROVE  /\ w \o v \in Texts /\ w \o v # << >> /\ (w \o v)[1] = b /\ (w \o v)[2] = c
                        /\ Len(w \o v) > 1 /\ Drop(w \o v, 2) = v /\ Len(w \o v) # 1
    OBVIOUS
  <2>. DEFINE q == w \o v
  <2>2. /\ q \in Texts /\ q # << >> /\ q[1] = b /\ q[2] = c /\ Len(q) > 1 /\ Drop(q, 2) = v
    BY <1>3, AfterPair
  <2>. HIDE DEF q
  <2>3. Len(q) \in Nat
    BY <2>2, LenProperties DEF Texts
  <2>4. Len(q) # 1
    BY <2>2, <2>3
  <2>. QED  BY <2>2, <2>4 DEF q
<1>5. Translate[w \o p] = Before(w, Translate[p])
  <2>. DEFINE q == w \o p
  <2>1. q \in Texts /\ q # << >> /\ q[1] = b /\ q[2] = c /\ Len(q) > 1 /\ Drop(q, 2) = p /\ Len(q) # 1
    BY <1>4
  <2>. HIDE DEF q
  <2>2. TranslateStep(Translate, q) = Before(SubSeq(q, 1, 2), Translate[Drop(q, 2)])
    BY <2>1, TranslateCases
  <2>3. SubSeq(q, 1, 2) = <<b, c>>
    BY <2>1, FirstTwo
  <2>. QED  BY <2>1, <2>2, <2>3, TranslateIs DEF q, w
<1>6. ASSUME NEW v \in Texts PROVE \E x : Alike(x, Quoted(c)) /\ Atoms[w \o v] = <<x>> \o Atoms[v]
  <2>. DEFINE q == w \o v
              x == One(q, {c})
  <2>1. q \in Texts /\ q # << >> /\ q[1] = b /\ q[2] = c /\ Drop(q, 2) = v /\ Len(q) # 1
    BY <1>4
  <2>2. x.k = "one" /\ x.chars = {c}
    BY DEF One
  <2>. HIDE DEF q
  <2>3. Atoms[q] = <<One(q, {q[2]})>> \o Atoms[Drop(q, 2)]
    BY <2>1, AtomsIs DEF AtomsStep
  <2>. QED  BY <1>2, <2>1, <2>2, <2>3 DEF Alike, q
<1>. QED  BY <1>2, <1>3, <1>5, <1>6 DEF ReadAlike, w

LEMMA BracketAlike ==
  ASSUME NEW a, IsBracket(a), NEW p \in Texts
  PROVE  \E w : ReadAlike(a, p, w)
<1>1. PICK us \in Seq(Units) :
              /\ BracketIn(us, a)
              /\ TranslateBracket(a.text \o p) =
                   [end |-> "ok", text |-> Opening(a.neg) \o (Spelt(us) \o <<"]">>), rest |-> p]
  BY BracketRead
<1>. DEFINE w == Opening(a.neg) \o (Spelt(us) \o <<"]">>)
            set == IF a.neg = << >> THEN Stood(a.items) ELSE Chars \ Stood(a.items)
            q == a.text \o p
<1>2. << >> \in Texts
  BY BasicTexts
<1>3. w \in Texts /\ \A v \in Texts : Atoms[w \o v] = <<One(w \o v, set)>> \o Atoms[v]
  BY <1>1, <1>2, BracketAtoms
<1>4. a.k = "one" /\ a.chars = set
  <2>1. a = Bracket(a.neg, a.items)
    BY DEF IsBracket
  <2>2. Bracket(a.neg, a.items).k = "one" /\ Bracket(a.neg, a.items).chars = set
    BY DEF Bracket, Stood
  <2>. QED  BY <2>1, <2>2
<1>5. q \in Texts /\ q # << >> /\ q[1] = "["
  <2>. DEFINE m == <<"[">>
  <2>1. a.text \in Texts /\ a.text = ((m \o a.neg) \o Written(a.items)) \o <<"]">>
    <3>1. a = Bracket(a.neg, a.items)
      BY DEF IsBracket
    <3>2. Bracket(a.neg, a.items).text = ((m \o a.neg) \o Written(a.items)) \o <<"]">>
      BY DEF Bracket
    <3>. QED  BY <3>1, <3>2, BracketRead
  <2>2. m \in Texts /\ m # << >> /\ m[1] = "[" /\ <<"]">> \in Texts
    BY BasicTexts, CharSymbols
  <2>3. a.neg \in Texts /\ Written(a.items) \in Texts
    <3>1. <<"!">> \in Texts /\ <<"^">> \in Texts
      BY BasicTexts, CharSymbols
    <3>. QED  BY <1>2, <3>1, BracketItems, ItemsText
  <2>. DEFINE n == a.neg
              r == Written(a.items)
              e == <<"]">>
              mn == m \o n
              mr == mn \o r
              t == a.text
  <2>. HIDE DEF m, n, r, e
  <2>4. mn \in Texts /\ mn # << >> /\ mn[1] = m[1]
    BY <2>2, <2>3, AfterText DEF n
  <2>. HIDE DEF mn
  <2>5. mr \in Texts /\ mr # << >> /\ mr[1] = m[1]
    BY <2>3, <2>4, AfterText DEF r
  <2>. HIDE DEF mr
  <2>6. t = mr \o e /\ e \in Texts
    BY <2>1, <2>2 DEF mr, mn, n, r, e
  <2>. HIDE DEF t
  <2>7. t \in Texts /\ t # << >> /\ t[1] = m[1]
    BY <2>5, <2>6, AfterText
  <2>8. t \o p \in Texts /\ t \o p # << >> /\ (t \o p)[1] = t[1]
    BY <2>7, AfterText
  <2>. QED  BY <2>2, <2>7, <2>8 DEF t
<1>6. Translate[q] = Before(w, Translate[p])
  <2>1. TranslateBracket(q).end = "ok" /\ TranslateBracket(q).text = w /\ TranslateBracket(q).rest = p
    BY <1>1
  <2>. HIDE DEF q, w
  <2>2. TranslateStep(Translate, q) = Before(TranslateBracket(q).text, Translate[TranslateBracket(q).rest])
    BY <1>5, <2>1, TranslateCases
  <2>. QED  BY <1>5, <2>1, <2>2, TranslateIs
<1>7. ASSUME NEW v \in Texts PROVE \E x : Alike(x, a) /\ Atoms[w \o v] = <<x>> \o Atoms[v]
  <2>. DEFINE x == One(w \o v, set)
  <2>1. x.k = "one" /\ x.chars = set
    BY DEF One
  <2>2. Alike(x, a)
    BY <1>4, <2>1 DEF Alike
  <2>3. Atoms[w \o v] = <<x>> \o Atoms[v]
    BY <1>3
  <2>. HIDE DEF x, w
  <2>. QED  BY <2>2, <2>3
<1>. HIDE DEF w
<1>8. ReadAlike(a, p, w)
  BY <1>3, <1>6, <1>7 DEF ReadAlike
<1>. QED  BY <1>8

LEMMA AtomAlike ==
  ASSUME NEW a, a = Star \/ (a.k = "one" /\ IsOne(a)), a # Odd, NEW p \in Texts
  PROVE  \E w : ReadAlike(a, p, w)
<1>1. CASE a = Star
  BY <1>1, StarRead
<1>2. ASSUME NEW c \in Chars \ {"\\", "*", "?", "[", "{", "}", ","}, a = Lit(c) PROVE \E w : ReadAlike(a, p, w)
  <2>1. c \in Symbols \ {"\\", "*", "?", "["}
    BY CharSymbols
  <2>. QED  BY <1>2, <2>1, LitRead
<1>3. ASSUME NEW c \in Chars, a = Quoted(c) PROVE \E w : ReadAlike(a, p, w)
  BY <1>3, QuotedRead
<1>4. CASE a = AnyOne
  BY <1>4, AnyRead
<1>5. CASE IsBracket(a)
  BY <1>5, BracketAlike
<1>6. CASE IsOne(a)
  <2>1. \/ \E c \in Chars \ {"\\", "*", "?", "[", "{", "}", ","} : a = Lit(c)
        \/ \E c \in Chars : a = Quoted(c)
        \/ a = AnyOne
        \/ IsBracket(a)
    BY <1>6 DEF IsOne
  <2>. QED  BY <2>1, <1>2, <1>3, <1>4, <1>5
<1>. QED  BY <1>1, <1>6

\* The bracket that panics, and the two that are never finished.
LEMMA OddPanics ==
  ASSUME NEW p \in Texts
  PROVE  Odd.text \in Texts /\ Translate[Odd.text \o p].end = "panic"
<1>. DEFINE b == "["
            c == ":"
            e == "]"
            u == <<b, c, e>>
            o == <<b>>
            t == <<b, b, c, e>>
            y == u \o p
            q == o \o y
<1>1. b \in Symbols /\ c \in Symbols /\ e \in Symbols /\ Odd.text = t
  BY CharSymbols DEF Odd, One
<1>2. u \in Texts /\ Len(u) = 3 /\ u[1] = b /\ u[2] = c /\ u[3] = e
  <2>. HIDE DEF b, c, e
  <2>. QED  BY <1>1, TripleText
<1>3. o \o u = t /\ o \in Texts /\ t \in Texts
  <2>1. o \in Texts
    BY <1>1, BasicTexts
  <2>2. o \in Seq(Symbols) /\ u \in Seq(Symbols) /\ Len(o) = 1 /\ o[1] = b
    BY <1>2, <2>1 DEF Texts
  <2>. DEFINE w == o \o u
              n == 1
  <2>3. Len(o) = n /\ Len(u) = 3 /\ n \in 1..Len(o)
    BY <1>2, <2>2
  <2>. HIDE DEF o, u, n
  <2>4. /\ w \in Seq(Symbols) /\ Len(w) = Len(o) + Len(u)
        /\ \A i \in 1..Len(o) : w[i] = o[i]
        /\ \A i \in 1..Len(u) : w[Len(o) + i] = u[i]
    BY SMTT(60), <2>2, DropConcat
  <2>. HIDE DEF w
  <2>5. Len(w) = 4 /\ w[1] = b /\ w[2] = u[1] /\ w[3] = u[2] /\ w[4] = u[3]
    <3>1. \A i \in 1..3 : w[n + i] = u[i]
      BY <2>3, <2>4
    <3>2. w[1 + 1] = u[1] /\ w[1 + 2] = u[2] /\ w[1 + 3] = u[3] /\ w[1] = o[1] /\ Len(w) = n + 3
      BY <2>3, <2>4, <3>1 DEF n
    <3>. QED  BY <2>2, <3>2 DEF n
  <2>6. t \in Seq(Symbols) /\ Len(t) = 4 /\ t[1] = b /\ t[2] = b /\ t[3] = c /\ t[4] = e
    <3>. HIDE DEF b, c, e
    <3>. QED  BY <1>1
  <2>. HIDE DEF t
  <2>7. w = t
    <3>1. w[2] = b /\ w[3] = c /\ w[4] = e /\ w[1] = b
      BY <1>2, <2>2, <2>5
    <3>. HIDE DEF b, c, e
    <3>2. \A i \in 1..Len(w) : w[i] = t[i]
      BY <2>5, <2>6, <3>1
    <3>. QED  BY <2>4, <2>5, <2>6, <3>2, SeqEqual
  <2>. QED  BY <2>1, <2>4, <2>7 DEF w, Texts
<1>. HIDE DEF o, u, t
<1>4. y \in Texts /\ y # << >> /\ y[1] = b /\ y[2] = c /\ y[3] = e /\ Len(y) > 2
  BY <1>2, AfterTriple
<1>5. t \o p = q
  <2>1. (o \o u) \o p = o \o (u \o p)
    <3>1. o \in Texts /\ u \in Texts
      BY <1>2, <1>3
    <3>2. Associates(o, u, p)
      BY <3>1, TextsAssociates
    <3>. QED  BY <3>2 DEF Associates
  <2>. QED  BY <1>3, <2>1
<1>. HIDE DEF y
<1>6. q \in Texts /\ q # << >> /\ q[1] = b /\ Drop(q, 1) = y /\ q[2] = b
  <2>. HIDE DEF b
  <2>. QED  BY <1>1, <1>4, After1 DEF o
<1>. HIDE DEF q
<1>7. Panics(y) /\ y[1] # "]"
  BY <1>4 DEF Panics
<1>8. BracketBody[y] = Failed("panic")
  BY <1>4, <1>7, BracketBodyIs, BracketCases
<1>9. TranslateBracket(q) = Before(<<"[">>, BracketBody[y])
  BY <1>6, <1>7 DEF TranslateBracket
<1>10. TranslateBracket(q).end = "panic"
  <2>1. Failed("panic") \in Translations /\ Failed("panic").end = "panic"
    BY FailedType DEF Ends, Failed
  <2>2. <<"[">> \in Texts
    BY <1>1, BasicTexts
  <2>. DEFINE x == Failed("panic")
              w == <<"[">>
  <2>3. x \in Translations /\ x.end = "panic" /\ w \in Texts
    BY <2>1, <2>2
  <2>. HIDE DEF x, w
  <2>4. Before(w, x).end = x.end
    <3>1. Before(w, x) = [end |-> x.end, text |-> w \o x.text, rest |-> x.rest]
      BY <2>3, BeforeType
    <3>. QED  BY <3>1
  <2>. QED  BY <1>8, <1>9, <2>3, <2>4 DEF x, w
<1>11. Translate[q] = TranslateBracket(q)
  BY <1>6, <1>10, TranslateIs, TranslateCases
<1>. QED  BY <1>1, <1>3, <1>5, <1>10, <1>11

\* Without a "]" a bracket is in error.
LEMMA NeverClosed ==
  \A q \in Seq(Symbols \ {"\\", "[", "]"}) : BracketBody[q].end = "error"
<1>. DEFINE S == Symbols \ {"\\", "[", "]"}
            T == {q \in Seq(S) : BracketBody[q].end = "error"}
<1>1. Seq(S) \subseteq Texts
  BY DEF Texts
<1>2. << >> \in T
  <2>1. << >> \in Texts /\ << >> \in Seq(S)
    BY BasicTexts
  <2>2. BracketBody[<< >>] = Failed("error")
    BY <2>1, BracketBodyIs DEF BracketStep
  <2>. QED  BY <2>1, <2>2 DEF Failed
<1>3. ASSUME NEW r \in Seq(S), NEW c \in S, r \in T PROVE <<c>> \o r \in T
  <2>. DEFINE q == <<c>> \o r
              d == <<c>>
  <2>1. r \in Texts /\ c \in Symbols
    BY <1>1
  <2>2. q \in Texts /\ q # << >> /\ q[1] = c /\ Tail(q) = r
    BY <2>1, After1
  <2>3. q \in Seq(S)
    <3>1. d \in Seq(S)
      OBVIOUS
    <3>. HIDE DEF d, S
    <3>. QED  BY <3>1, ConcatProperties DEF d
  <2>. HIDE DEF q
  <2>4. ~Panics(q) /\ ~PosixClass(q) /\ q[1] \notin {"]", "\\"}
    BY <2>2 DEF Panics, PosixClass
  <2>5. BracketBody[q] = Before(d, BracketBody[r])
    BY <2>2, <2>4, BracketBodyIs, BracketCases
  <2>6. BracketBody[r] \in Translations /\ d \in Texts
    BY <2>1, BracketBodyIs, BasicTexts
  <2>. DEFINE x == BracketBody[r]
  <2>7. x \in Translations /\ x.end = "error"
    BY <1>3, <2>6
  <2>. HIDE DEF x, d
  <2>8. Before(d, x).end = x.end
    BY <2>6, <2>7, BeforeType
  <2>. QED  BY <2>3, <2>5, <2>7, <2>8 DEF x, q
<1>. HIDE DEF T, S
<1>4. Seq(S) \subseteq T
  BY <1>2, <1>3, ConsInduction
<1>. QED  BY <1>4 DEF T, S

LEMMA OpenFails ==
  ASSUME NEW a, IsOpen(a)
  PROVE  a.text \in Texts /\ Translate[a.text].end = "error"
<1>. DEFINE q == a.text
            S == Symbols \ {"\\", "[", "]"}
            n == IF q[2] \in {"!", "^"} THEN 2 ELSE 1
            y == Drop(q, n)
<1>1. /\ q \in Texts /\ Len(q) > 1 /\ q[1] = "["
      /\ ToSet(Tail(q)) \cap {"\\", "[", "]", "{", "}", ",", "/"} = {}
  BY DEF IsOpen, Texts
<1>. HIDE DEF q
<1>2. q # << >> /\ Tail(q) = Drop(q, 1) /\ Tail(q) \in Texts /\ Len(q) \in Nat \ {0} /\ Len(Tail(q)) = Len(q) - 1
  <2>1. q # << >>
    <3>1. Len(<< >>) = 0
      BY EmptySeq
    <3>2. Len(q) > 1
      BY <1>1
    <3>. QED  BY <3>1, <3>2
  <2>. QED  BY <1>1, <2>1, TailIsDrop DEF Texts
<1>3. \A i \in 1..Len(Tail(q)) : Tail(q)[i] \in S
  <2>. DEFINE r == Tail(q)
  <2>1. r \in Texts /\ ToSet(r) \cap {"\\", "[", "]"} = {}
    BY <1>1, <1>2
  <2>. HIDE DEF r
  <2>2. \A i \in 1..Len(r) : r[i] \in ToSet(r) /\ r[i] \in Symbols
    BY <2>1, LenProperties, ElementOfSeq DEF Texts, ToSet
  <2>. QED  BY <2>1, <2>2 DEF r
<1>4. \A i \in 2..Len(q) : q[i] \in S
  <2>1. SUFFICES ASSUME NEW i \in 2..Len(q) PROVE q[i] \in S
    OBVIOUS
  <2>. DEFINE m == 1
              j == i - 1
  <2>2. m \in Nat /\ m <= Len(q) /\ j \in 1..(Len(q) - m) /\ m + j = i
    BY <1>2
  <2>3. \A k \in 1..(Len(q) - m) : Drop(q, m)[k] = q[m + k]
    <3>. HIDE DEF m
    <3>. QED  BY ZenonT(60), <1>1, <2>2, DropType DEF Texts
  <2>4. Drop(q, m)[j] = q[i] /\ Drop(q, m) = Tail(q) /\ j \in 1..Len(Tail(q))
    BY <1>2, <2>2, <2>3
  <2>5. Tail(q)[j] \in S
    BY <1>3, <2>4
  <2>. QED  BY <2>4, <2>5
<1>5. n \in {1, 2} /\ n \in Nat /\ n <= Len(q)
  <2>1. n \in {1, 2}
    OBVIOUS
  <2>2. Len(q) > 1 /\ Len(q) \in Nat
    BY <1>1, <1>2
  <2>. HIDE DEF n
  <2>. QED  BY <2>1, <2>2
<1>6. y \in Texts /\ Len(y) = Len(q) - n /\ \A i \in 1..(Len(q) - n) : y[i] = q[n + i]
  <2>1. q \in Seq(Symbols)
    BY <1>1 DEF Texts
  <2>. HIDE DEF n
  <2>. QED  BY <1>5, <2>1, DropType DEF Texts
<1>7. y \in Seq(S)
  <2>1. \A i \in 1..Len(y) : y[i] \in S
    <3>1. SUFFICES ASSUME NEW i \in 1..Len(y) PROVE y[i] \in S
      OBVIOUS
    <3>2. i \in 1..(Len(q) - n) /\ n + i \in 2..Len(q)
      <4>. HIDE DEF n, y
      <4>. QED  BY <1>2, <1>5, <1>6
    <3>. HIDE DEF n, y, S
    <3>. QED  BY <1>4, <1>6, <3>2
  <2>. HIDE DEF y, S
  <2>. QED  BY <1>6, <2>1, SeqOfSome DEF Texts
<1>8. BracketBody[y].end = "error" /\ BracketBody[y] \in Translations
  <2>. HIDE DEF y
  <2>. QED  BY <1>6, <1>7, NeverClosed, BracketBodyIs
<1>9. y # << >> => y[1] # "]"
  <2>. HIDE DEF y, n
  <2>1. ASSUME y # << >> PROVE y[1] \in S
    <3>1. y[1] = Head(y) /\ Head(y) \in S
      BY <1>7, <2>1, HeadAndTail
    <3>. QED  BY <3>1
  <2>. QED  BY <2>1
<1>10. TranslateBracket(q) = Before(IF q[2] \in {"!", "^"} THEN <<"[", "^">> ELSE <<"[">>, BracketBody[y])
  <2>1. (Len(q) > 1 /\ q[2] \in {"!", "^"}) <=> q[2] \in {"!", "^"}
    BY <1>1
  <2>2. ~(y # << >> /\ y[1] = "]")
    BY <1>9
  <2>. QED  BY <2>1, <2>2 DEF TranslateBracket
<1>11. TranslateBracket(q).end = "error"
  <2>. DEFINE x == BracketBody[y]
              w == IF q[2] \in {"!", "^"} THEN <<"[", "^">> ELSE <<"[">>
  <2>1. w \in Texts
    BY BasicTexts, CharSymbols
  <2>2. x \in Translations /\ x.end = "error"
    BY <1>8
  <2>. HIDE DEF x, w, y
  <2>3. Before(w, x).end = x.end
    BY <2>1, <2>2, BeforeType
  <2>. QED  BY <1>10, <2>2, <2>3 DEF x, w
<1>12. Translate[q] = TranslateBracket(q)
  BY <1>1, <1>2, <1>11, TranslateIs, TranslateCases
<1>. QED  BY <1>1, <1>11, <1>12 DEF q

LEMMA UnfinishedRead ==
  /\ Unfinished.text \in Texts /\ Translate[Unfinished.text].end = "ok"
  /\ Translate[Unfinished.text].text = <<"\\">> /\ Atoms[<<"\\">>] = <<Bad(<<"\\">>)>>
<1>. DEFINE b == "\\"
            q == <<b>>
            x == [end |-> "ok", text |-> << >>, rest |-> << >>]
<1>1. b \in Symbols /\ q \in Texts /\ Unfinished.text = q /\ Len(q) = 1 /\ q # << >> /\ q[1] = b /\ Tail(q) = << >>
  <2>1. b \in Symbols
    BY CharSymbols
  <2>. QED  BY <2>1, BasicTexts DEF Unfinished, Bad
<1>2. << >> \in Texts /\ Translate[<< >>] = x
  BY BasicTexts, TranslateIs DEF TranslateStep
<1>3. x \in Translations /\ x.end = "ok" /\ x.text = << >>
  BY <1>2 DEF Translations, Ends
<1>4. Atoms[q] = <<Bad(q)>>
  <2>. HIDE DEF q
  <2>. QED  BY <1>1, AtomsIs DEF AtomsStep
<1>. HIDE DEF x
<1>5. Translate[q] = Before(q, x)
  <2>. HIDE DEF q
  <2>1. TranslateStep(Translate, q) = Before(q, Translate[Tail(q)])
    BY <1>1, TranslateCases
  <2>. QED  BY <1>1, <1>2, <2>1, TranslateIs
<1>6. Before(q, x).end = "ok" /\ Before(q, x).text = q
  <2>. HIDE DEF q
  <2>1. Before(q, x) = [end |-> x.end, text |-> q \o x.text, rest |-> x.rest]
    BY <1>1, <1>3, BeforeType
  <2>2. q \o << >> = q
    BY <1>1, ConcatEmptySeq DEF Texts
  <2>. QED  BY <1>3, <2>1, <2>2
<1>. QED  BY <1>1, <1>4, <1>5, <1>6

LEMMA ConsFacts ==
  ASSUME NEW S, NEW a \in S, NEW r \in Seq(S)
  PROVE  LET o == <<a>> \o r
         IN  /\ o \in Seq(S) /\ o # << >> /\ o[1] = a /\ Len(r) \in Nat /\ Len(o) = 1 + Len(r)
             /\ \A i \in 1..Len(r) : o[1 + i] = r[i]
             /\ DOMAIN o = 1..(1 + Len(r)) /\ DOMAIN r = 1..Len(r)
<1>. DEFINE u == <<a>>
            n == 1
            o == u \o r
<1>1. u \in Seq(S) /\ Len(u) = n /\ u[1] = a /\ n \in 1..Len(u)
  OBVIOUS
<1>. HIDE DEF u
<1>2. /\ o \in Seq(S) /\ Len(r) \in Nat /\ Len(o) = Len(u) + Len(r)
      /\ \A i \in 1..Len(u) : o[i] = u[i]
      /\ \A i \in 1..Len(r) : o[Len(u) + i] = r[i]
  BY ZenonT(60), <1>1, DropConcat
<1>. HIDE DEF o
<1>3. o # << >>
  <2>1. Len(<< >>) = 0
    BY EmptySeq
  <2>2. Len(o) # 0
    BY <1>1, <1>2
  <2>. QED  BY <2>1, <2>2
<1>4. o[1] = a /\ \A i \in 1..Len(r) : o[1 + i] = r[i]
  BY <1>1, <1>2
<1>5. DOMAIN o = 1..Len(o) /\ DOMAIN r = 1..Len(r)
  BY <1>2, LenProperties
<1>. QED  BY <1>1, <1>2, <1>3, <1>4, <1>5 DEF o, u

BadIn(s)        == \E i \in DOMAIN s : s[i].k = "bad"
OddIn(s)        == \E i \in DOMAIN s : s[i] = Odd
Ended(s)        == \A i \in 1..Len(s) : s[i].k = "bad" => i = Len(s)
AllAlike(xs, s) == Len(xs) = Len(s) /\ \A i \in 1..Len(s) : Alike(xs[i], s[i])

LEMMA ConsBad ==
  ASSUME NEW S, NEW a \in S, NEW r \in Seq(S)
  PROVE  /\ BadIn(<<a>> \o r) <=> a.k = "bad" \/ BadIn(r)
         /\ OddIn(<<a>> \o r) <=> a = Odd \/ OddIn(r)
         /\ Ended(<<a>> \o r) => Ended(r) /\ (a.k = "bad" => r = << >>)
<1>. DEFINE o == <<a>> \o r
            n == 1
<1>1. /\ o[n] = a /\ Len(r) \in Nat /\ Len(o) = n + Len(r)
      /\ \A i \in 1..Len(r) : o[n + i] = r[i]
      /\ DOMAIN o = 1..(n + Len(r)) /\ DOMAIN r = 1..Len(r)
  BY ConsFacts
<1>. HIDE DEF o
<1>2. ASSUME NEW i \in DOMAIN o PROVE i = n \/ \E j \in DOMAIN r : o[i] = r[j]
  <2>. DEFINE j == i - n
  <2>1. i # n => j \in DOMAIN r /\ n + j = i
    BY <1>1
  <2>. HIDE DEF j, n
  <2>. QED  BY <1>1, <2>1
<1>3. n \in DOMAIN o /\ \A j \in DOMAIN r : n + j \in DOMAIN o /\ o[n + j] = r[j]
  BY <1>1
<1>4. BadIn(o) <=> a.k = "bad" \/ BadIn(r)
  <2>. HIDE DEF n
  <2>. QED  BY <1>1, <1>2, <1>3 DEF BadIn
<1>5. OddIn(o) <=> a = Odd \/ OddIn(r)
  <2>. HIDE DEF n
  <2>. QED  BY <1>1, <1>2, <1>3 DEF OddIn
<1>6. ASSUME Ended(o) PROVE Ended(r) /\ (a.k = "bad" => r = << >>)
  <2>1. ASSUME NEW i \in 1..Len(r), r[i].k = "bad" PROVE i = Len(r)
    <3>. DEFINE j == n + i
    <3>1. j \in 1..Len(o) /\ (j = Len(o) <=> i = Len(r))
      <4>1. Len(o) = 1 + Len(r) /\ Len(r) \in Nat
        BY <1>1
      <4>. QED  BY <4>1
    <3>2. o[j] = r[i]
      <4>. HIDE DEF n
      <4>. QED  BY <1>1
    <3>. HIDE DEF j
    <3>. QED  BY <1>6, <2>1, <3>1, <3>2 DEF Ended
  <2>2. ASSUME a.k = "bad" PROVE r = << >>
    <3>1. n \in 1..Len(o)
      BY <1>1
    <3>2. n = Len(o)
      <4>. HIDE DEF n
      <4>. QED  BY <1>1, <1>6, <2>2, <3>1 DEF Ended
    <3>3. Len(r) = 0
      BY <1>1, <3>2
    <3>. QED  BY <3>3, EmptySeq
  <2>. QED  BY <2>1, <2>2 DEF Ended
<1>. QED  BY <1>4, <1>5, <1>6 DEF o

LEMMA ConsAlike ==
  ASSUME NEW S, NEW a \in S, NEW r \in Seq(S), NEW R, NEW x \in R, NEW xs \in Seq(R), Alike(x, a), AllAlike(xs, r)
  PROVE  AllAlike(<<x>> \o xs, <<a>> \o r)
<1>. DEFINE o == <<a>> \o r
            p == <<x>> \o xs
            n == 1
<1>1. /\ o[n] = a /\ Len(r) \in Nat /\ Len(o) = n + Len(r)
      /\ \A i \in 1..Len(r) : o[n + i] = r[i]
  BY ConsFacts
<1>2. /\ p[n] = x /\ Len(xs) \in Nat /\ Len(p) = n + Len(xs)
      /\ \A i \in 1..Len(xs) : p[n + i] = xs[i]
  BY ConsFacts
<1>3. Len(xs) = Len(r) /\ \A i \in 1..Len(r) : Alike(xs[i], r[i])
  BY DEF AllAlike
<1>. HIDE DEF o, p
<1>4. ASSUME NEW i \in 1..Len(o) PROVE Alike(p[i], o[i])
  <2>1. CASE i = n
    <3>. HIDE DEF n
    <3>. QED  BY <1>1, <1>2, <2>1
  <2>2. CASE i # n
    <3>. DEFINE j == i - n
    <3>1. j \in 1..Len(r) /\ n + j = i
      BY <1>1, <2>2
    <3>. HIDE DEF j, n
    <3>2. o[i] = r[j] /\ p[i] = xs[j]
      BY <1>1, <1>2, <1>3, <3>1
    <3>. QED  BY <1>3, <3>1, <3>2
  <2>. QED  BY <2>1, <2>2
<1>5. Len(p) = Len(o)
  BY <1>1, <1>2, <1>3
<1>. QED  BY <1>4, <1>5 DEF AllAlike, o, p

-----------------------------------------------------------------------------
(* Segments, as they are read.                                             *)

SegAtoms == {a \in GlobAtoms : a.k \notin {"slash", "choice"}}

LEMMA SegAtomCases ==
  ASSUME NEW a \in SegAtoms
  PROVE  \/ a = Star \/ (a.k = "one" /\ IsOne(a))
         \/ a.k = "bad" /\ (a = Unfinished \/ IsOpen(a))
<1>1. \/ a \in {Star, Slash, Unfinished}
      \/ a.k = "one" /\ IsOne(a)
      \/ a.k = "bad" /\ IsOpen(a)
      \/ a.k = "choice" /\ IsChoice(a)
  BY GlobAtomsAssumption DEF SegAtoms
<1>2. a # Slash /\ a.k # "choice"
  BY DEF SegAtoms, Slash
<1>3. Unfinished.k = "bad"
  BY DEF Unfinished, Bad
<1>. QED  BY <1>1, <1>2, <1>3

LEMMA OneTexted ==
  ASSUME NEW a, a = Star \/ (a.k = "one" /\ IsOne(a))
  PROVE  a.text \in Texts
<1>0. << >> \in Texts
  BY BasicTexts
<1>1. CASE a = Star
  BY <1>1, CharSymbols, BasicTexts DEF Star
<1>2. ASSUME NEW c \in Chars, a = Lit(c) PROVE a.text \in Texts
  BY <1>2, CharSymbols, BasicTexts DEF Lit, One
<1>3. ASSUME NEW c \in Chars, a = Quoted(c) PROVE a.text \in Texts
  <2>1. "\\" \in Symbols /\ c \in Symbols
    BY CharSymbols
  <2>. DEFINE b == "\\"
  <2>2. <<b, c>> \in Texts
    <3>. HIDE DEF b
    <3>. QED  BY <2>1, BasicTexts DEF b
  <2>. QED  BY <1>3, <2>2 DEF Quoted, One
<1>4. CASE a = AnyOne
  BY <1>4, CharSymbols, BasicTexts DEF AnyOne, One
<1>5. CASE a = Odd
  BY <1>0, <1>5, OddPanics
<1>6. CASE IsBracket(a)
  BY <1>0, <1>6, BracketRead
<1>. QED  BY <1>1, <1>2, <1>3, <1>4, <1>5, <1>6 DEF IsOne

LEMMA GlobTexted == Texted(GlobAtoms) /\ Texted(SegAtoms)
<1>1. ASSUME NEW a \in GlobAtoms PROVE a.text \in Texts
  <2>1. \/ a \in {Star, Slash, Unfinished}
        \/ a.k = "one" /\ IsOne(a)
        \/ a.k = "bad" /\ IsOpen(a)
        \/ a.k = "choice" /\ IsChoice(a)
    BY GlobAtomsAssumption
  <2>2. CASE a = Star \/ (a.k = "one" /\ IsOne(a))
    BY <2>2, OneTexted
  <2>3. CASE a = Slash
    BY <2>3, CharSymbols, BasicTexts DEF Slash
  <2>4. CASE a = Unfinished
    BY <2>4, UnfinishedRead
  <2>5. CASE IsOpen(a)
    BY <2>5, OpenFails
  <2>6. CASE IsChoice(a)
    BY <2>6 DEF IsChoice, Texts
  <2>. QED  BY <2>1, <2>2, <2>3, <2>4, <2>5, <2>6
<1>. QED  BY <1>1 DEF Texted, SegAtoms

SegmentRead(s) ==
  LET t == Translate[Written(s)]
  IN  /\ OddIn(s) => t.end = "panic"
      /\ ~OddIn(s) /\ ~BadIn(s) => t.end = "ok" /\ AllAlike(Atoms[t.text], s)
      /\ ~OddIn(s) /\ BadIn(s) => t.end = "error" \/ (t.end = "ok" /\ BadIn(Atoms[t.text]))

LEMMA SoundFirst ==
  ASSUME NEW a \in SegAtoms, a.k # "bad", a # Odd, NEW r \in Seq(SegAtoms), SegmentRead(r)
  PROVE  SegmentRead(<<a>> \o r)
<1>. DEFINE s == <<a>> \o r
            p == Written(r)
            y == Translate[p]
            v == y.text
            t == Translate[Written(s)]
<1>1. p \in Texts /\ Written(s) = a.text \o p /\ y \in Translations /\ v \in Texts
  <2>1. p \in Texts /\ Written(s) = a.text \o p
    BY GlobTexted, WrittenCons
  <2>. HIDE DEF p
  <2>2. y \in Translations
    BY <2>1, TranslateIs
  <2>. QED  BY <2>1, <2>2 DEF Translations
<1>2. a = Star \/ (a.k = "one" /\ IsOne(a))
  BY SegAtomCases
<1>. HIDE DEF p
<1>3. PICK w : ReadAlike(a, p, w)
  BY <1>1, <1>2, AtomAlike
<1>4. w \in Texts /\ t = Before(w, y)
  BY <1>1, <1>3 DEF ReadAlike
<1>5. PICK x : Alike(x, a) /\ Atoms[w \o v] = <<x>> \o Atoms[v]
  BY <1>1, <1>3 DEF ReadAlike
<1>6. t.end = y.end /\ t.text = w \o v
  <2>. HIDE DEF y
  <2>1. Before(w, y) = [end |-> y.end, text |-> w \o y.text, rest |-> y.rest]
    BY <1>1, <1>4, BeforeType
  <2>. QED  BY <1>4, <2>1
<1>. DEFINE xs == Atoms[v]
            R == Kinds \cup {x}
<1>7. x \in R /\ xs \in Seq(R) /\ Atoms[t.text] = <<x>> \o xs
  <2>1. xs \in Seq(Kinds)
    BY <1>1, AtomsIs
  <2>2. xs \in Seq(R)
    <3>1. \A i \in 1..Len(xs) : xs[i] \in R
      <4>. HIDE DEF xs
      <4>. QED  BY <2>1, LenProperties, ElementOfSeq
    <3>. HIDE DEF xs, R
    <3>. QED  BY <2>1, <3>1, SeqOfSome
  <2>. QED  BY <1>5, <1>6, <2>2
<1>8. /\ BadIn(s) <=> BadIn(r)
      /\ OddIn(s) <=> OddIn(r)
      /\ BadIn(xs) => BadIn(<<x>> \o xs)
  <2>. HIDE DEF xs, R
  <2>. QED  BY <1>7, ConsBad
<1>9. AllAlike(xs, r) => AllAlike(<<x>> \o xs, s)
  <2>. HIDE DEF xs, R
  <2>. QED  BY <1>5, <1>7, ConsAlike
<1>10. /\ OddIn(r) => y.end = "panic"
       /\ ~OddIn(r) /\ ~BadIn(r) => y.end = "ok" /\ AllAlike(xs, r)
       /\ ~OddIn(r) /\ BadIn(r) => y.end = "error" \/ (y.end = "ok" /\ BadIn(xs))
  BY DEF SegmentRead, p
<1>11. /\ OddIn(s) => t.end = "panic"
       /\ ~OddIn(s) /\ ~BadIn(s) => t.end = "ok" /\ AllAlike(Atoms[t.text], s)
       /\ ~OddIn(s) /\ BadIn(s) => t.end = "error" \/ (t.end = "ok" /\ BadIn(Atoms[t.text]))
  <2>. HIDE DEF t, s, xs, y
  <2>. QED  BY <1>6, <1>7, <1>8, <1>9, <1>10
<1>. QED  BY <1>11 DEF SegmentRead

LEMMA OddFirst ==
  ASSUME NEW r \in Seq(SegAtoms), Odd \in SegAtoms
  PROVE  SegmentRead(<<Odd>> \o r)
<1>. DEFINE s == <<Odd>> \o r
            p == Written(r)
<1>1. p \in Texts /\ Written(s) = Odd.text \o p
  BY GlobTexted, WrittenCons
<1>. HIDE DEF p
<1>2. Translate[Odd.text \o p].end = "panic"
  BY <1>1, OddPanics
<1>3. OddIn(s)
  BY ConsBad
<1>. QED  BY <1>1, <1>2, <1>3 DEF SegmentRead

LEMMA BadAlone ==
  ASSUME NEW a \in SegAtoms, a.k = "bad"
  PROVE  SegmentRead(<<a>>)
<1>. DEFINE s == <<a>>
            t == Translate[Written(s)]
<1>1. Written(s) = a.text
  BY GlobTexted, WrittenIs
<1>2. BadIn(s) /\ ~OddIn(s)
  <2>1. DOMAIN s = {1} /\ s[1] = a
    OBVIOUS
  <2>2. Odd.k = "one"
    BY DEF Odd, One
  <2>. HIDE DEF s
  <2>3. a # Odd
    BY <2>2
  <2>. QED  BY <2>1, <2>3 DEF BadIn, OddIn
<1>3. CASE a = Unfinished
  <2>1. t.end = "ok" /\ Atoms[t.text] = <<Bad(<<"\\">>)>>
    BY <1>1, <1>3, UnfinishedRead
  <2>. DEFINE xs == <<Bad(<<"\\">>)>>
  <2>2. BadIn(xs)
    <3>1. DOMAIN xs = {1} /\ xs[1] = Bad(<<"\\">>) /\ Bad(<<"\\">>).k = "bad"
      BY DEF Bad
    <3>. HIDE DEF xs
    <3>. QED  BY <3>1 DEF BadIn
  <2>. QED  BY <1>2, <2>1, <2>2 DEF SegmentRead
<1>4. CASE IsOpen(a)
  BY <1>1, <1>2, <1>4, OpenFails DEF SegmentRead
<1>5. Star.k # "bad"
  BY DEF Star
<1>6. a = Unfinished \/ IsOpen(a)
  <2>. HIDE DEF s, t
  <2>. QED  BY <1>5, SegAtomCases
<1>. QED  BY <1>3, <1>4, <1>6

\* A segment is read as it was written, or found to be in error, or panics.
LEMMA SegmentsRead == \A s \in Seq(SegAtoms) : Ended(s) => SegmentRead(s)
<1>. DEFINE T == {s \in Seq(SegAtoms) : Ended(s) => SegmentRead(s)}
<1>1. << >> \in T
  <2>1. Written(<< >>) = << >> /\ << >> \in Texts
    BY GlobTexted, WrittenIs, BasicTexts
  <2>2. Translate[<< >>] = [end |-> "ok", text |-> << >>, rest |-> << >>]
    BY <2>1, TranslateIs DEF TranslateStep
  <2>3. Atoms[<< >>] = << >>
    BY <2>1, AtomsIs DEF AtomsStep
  <2>4. ~BadIn(<< >>) /\ ~OddIn(<< >>)
    BY DEF BadIn, OddIn
  <2>5. AllAlike(<< >>, << >>)
    <3>1. Len(<< >>) = 0 /\ 1..0 = {}
      BY EmptySeq
    <3>. QED  BY <3>1 DEF AllAlike
  <2>6. << >> \in Seq(SegAtoms)
    OBVIOUS
  <2>. QED  BY <2>1, <2>2, <2>3, <2>4, <2>5, <2>6 DEF SegmentRead
<1>2. ASSUME NEW r \in Seq(SegAtoms), NEW a \in SegAtoms, r \in T PROVE <<a>> \o r \in T
  <2>1. <<a>> \o r \in Seq(SegAtoms)
    BY ConsFacts
  <2>2. ASSUME Ended(<<a>> \o r) PROVE SegmentRead(<<a>> \o r)
    <3>1. Ended(r) /\ (a.k = "bad" => r = << >>)
      BY <2>2, ConsBad
    <3>2. SegmentRead(r)
      BY <1>2, <3>1
    <3>3. CASE a = Odd
      BY <3>3, OddFirst
    <3>4. CASE a.k = "bad"
      <4>. DEFINE o == <<a>>
      <4>1. o \in Seq(SegAtoms)
        OBVIOUS
      <4>. HIDE DEF o
      <4>2. o \o << >> = o
        BY <4>1, ConcatEmptySeq
      <4>3. SegmentRead(o)
        BY <3>4, BadAlone DEF o
      <4>. QED  BY <3>1, <3>4, <4>2, <4>3 DEF o
    <3>5. CASE a # Odd /\ a.k # "bad"
      BY <3>2, <3>5, SoundFirst
    <3>. QED  BY <3>3, <3>4, <3>5
  <2>. QED  BY <2>1, <2>2
<1>. HIDE DEF T
<1>3. Seq(SegAtoms) \subseteq T
  BY <1>1, <1>2, ConsInduction
<1>. QED  BY <1>3 DEF T

-----------------------------------------------------------------------------
(* What a segment is answered.                                             *)

Regrouped(a, b, c, d) == a \o b \o c \o d = a \o (b \o (c \o d)) /\ b \o (c \o d) \in Texts

LEMMA FourTexts ==
  ASSUME NEW a \in Texts, NEW b \in Texts, NEW c \in Texts, NEW d \in Texts
  PROVE  Regrouped(a, b, c, d)
<1>. DEFINE x == a \o b
            y == c \o d
<1>1. x \in Texts /\ y \in Texts
  <2>1. JoinsText(a, b) /\ JoinsText(c, d)
    BY TextsJoin
  <2>. QED  BY <2>1 DEF JoinsText
<1>. HIDE DEF x
<1>2. (x \o c) \o d = x \o (c \o d)
  <2>1. Associates(x, c, d)
    BY <1>1, TextsAssociates
  <2>. QED  BY <2>1 DEF Associates
<1>3. (a \o b) \o y = a \o (b \o y)
  <2>. HIDE DEF y
  <2>1. Associates(a, b, y)
    BY <1>1, TextsAssociates
  <2>. QED  BY <2>1 DEF Associates
<1>4. b \o y \in Texts
  <2>. HIDE DEF y
  <2>1. JoinsText(b, y)
    BY <1>1, TextsJoin
  <2>. QED  BY <2>1 DEF JoinsText
<1>. QED  BY <1>2, <1>3, <1>4 DEF x, y, Regrouped

LEMMA BracketShape ==
  ASSUME NEW a, IsBracket(a)
  PROVE  /\ a.text = <<"[">> \o (a.neg \o (Written(a.items) \o <<"]">>))
         /\ a.neg \o (Written(a.items) \o <<"]">>) \in Texts /\ a.neg \in {<< >>, <<"!">>, <<"^">>}
         /\ a.items \in Seq(Items) /\ Written(a.items) \in Texts
<1>. DEFINE w == Written(a.items)
            v == a.neg \o (w \o <<"]">>)
            b == "["
<1>1. a.items \in Seq(Items) /\ a.neg \in {<< >>, <<"!">>, <<"^">>}
  BY BracketItems
<1>2. w \in Texts
  BY <1>1, ItemsText
<1>3. << >> \in Texts /\ <<"!">> \in Texts /\ <<"^">> \in Texts /\ <<"]">> \in Texts /\ <<b>> \in Texts /\ b \in Symbols
  BY CharSymbols, BasicTexts
<1>4. a.neg \in Texts
  BY <1>1, <1>3
<1>. DEFINE close == <<"]">>
            begin == <<b>>
            neg   == a.neg
<1>5. a.text = begin \o neg \o w \o close
  BY DEF IsBracket, Bracket
<1>. HIDE DEF w, close
<1>6. neg \in Texts /\ begin \in Texts /\ close \in Texts
  BY <1>3, <1>4 DEF close
<1>7. v = neg \o (w \o close)
  BY DEF close
<1>. HIDE DEF neg, begin, v
<1>8. begin \o neg \o w \o close = begin \o v /\ v \in Texts
  <2>1. begin \o neg \o w \o close = begin \o (neg \o (w \o close)) /\ neg \o (w \o close) \in Texts
    <3>. HIDE DEF b
    <3>1. neg \in Texts /\ begin \in Texts /\ close \in Texts /\ w \in Texts
      BY <1>2, <1>6
    <3>2. Regrouped(begin, neg, w, close)
      BY <3>1, FourTexts
    <3>. QED  BY <3>2 DEF Regrouped
  <2>. QED  BY <1>7, <2>1
<1>9. a.text = <<b>> \o v
  BY <1>5, <1>8 DEF begin
<1>. QED  BY <1>1, <1>2, <1>8, <1>9 DEF v, b, w, neg, close

LEMMA AtomBegins ==
  ASSUME NEW a \in SegAtoms
  PROVE  /\ a.text \in Texts /\ a.text # << >>
         /\ a.text[1] = "*" => a = Star
         /\ a.text[1] = "." <=> a.text = <<".">>
<1>0. a.text \in Texts
  BY GlobTexted DEF Texted
<1>. DEFINE Good == a.text # << >> /\ (a.text[1] = "*" => a = Star) /\ (a.text[1] = "." <=> a.text = <<".">>)
<1>1. ASSUME a = Star PROVE Good
  <2>1. a.text = <<"*">>
    BY <1>1 DEF Star
  <2>. QED  BY <1>1, <2>1
<1>2. ASSUME NEW c \in Chars \ {"\\", "*", "?", "[", "{", "}", ","}, a = Lit(c) PROVE Good
  BY <1>2 DEF Lit, One
<1>3. ASSUME NEW c \in Chars, a = Quoted(c) PROVE Good
  BY <1>3 DEF Quoted, One
<1>a. ASSUME NEW c \in {"?", "[", "\\"}, a.text # << >>, a.text[1] = c PROVE Good
  <2>1. <<".">>[1] = "."
    OBVIOUS
  <2>. QED  BY <1>a, <2>1
<1>4. ASSUME a = AnyOne PROVE Good
  <2>1. a.text = <<"?">>
    BY <1>4 DEF AnyOne, One
  <2>2. a.text # << >> /\ a.text[1] = "?"
    BY <2>1
  <2>. HIDE DEF Good
  <2>. QED  BY <2>2, <1>a
<1>5. ASSUME a = Odd PROVE Good
  <2>1. a.text = <<"[", "[", ":", "]">>
    BY <1>5 DEF Odd, One
  <2>2. a.text # << >> /\ a.text[1] = "["
    BY <2>1
  <2>. HIDE DEF Good
  <2>. QED  BY <2>2, <1>a
<1>6. ASSUME IsBracket(a) PROVE Good
  <2>. DEFINE v == a.neg \o (Written(a.items) \o <<"]">>)
              b == "["
  <2>1. a.text = <<b>> \o v /\ v \in Texts
    BY <1>6, BracketShape
  <2>2. b \in Symbols
    BY CharSymbols
  <2>. HIDE DEF v
  <2>10. a.text # << >> /\ a.text[1] = b
    <3>. HIDE DEF b
    <3>. QED  BY <2>1, <2>2, After1
  <2>. HIDE DEF Good
  <2>. QED  BY <2>10, <1>a
<1>7. ASSUME a = Unfinished PROVE Good
  <2>1. a.text = <<"\\">>
    BY <1>7 DEF Unfinished, Bad
  <2>2. a.text # << >> /\ a.text[1] = "\\"
    BY <2>1
  <2>. HIDE DEF Good
  <2>. QED  BY <2>2, <1>a
<1>8. ASSUME IsOpen(a) PROVE Good
  <2>1. a.text \in Seq(Symbols) /\ Len(a.text) > 1 /\ a.text[1] = "["
    BY <1>8 DEF IsOpen
  <2>2. a.text # << >>
    BY <2>1
  <2>. HIDE DEF Good
  <2>. QED  BY <2>1, <2>2, <1>a
<1>9. a = Star \/ IsOne(a) \/ a = Unfinished \/ IsOpen(a)
  BY SegAtomCases
<1>10. Good
  <2>1. CASE IsOne(a)
    <3>. HIDE DEF Good
    <3>. QED  BY <2>1, <1>2, <1>3, <1>4, <1>5, <1>6 DEF IsOne
  <2>. QED  BY <1>1, <1>7, <1>8, <1>9, <2>1
<1>. QED  BY <1>0, <1>10

\* A segment's text begins as its first atom does.
LEMMA SegmentBegins ==
  ASSUME NEW s \in Seq(SegAtoms), s # << >>
  PROVE  /\ Written(s) \in Texts /\ Written(s) # << >> /\ Head(s) \in SegAtoms
         /\ Head(Written(s)) = Head(s).text[1]
         /\ s = <<Head(s)>> \o Tail(s) /\ Tail(s) \in Seq(SegAtoms)
         /\ Written(s) = Head(s).text \o Written(Tail(s)) /\ Written(Tail(s)) \in Texts
<1>. DEFINE a == Head(s)
            r == Tail(s)
            t == a.text
            v == Written(r)
<1>1. a \in SegAtoms /\ r \in Seq(SegAtoms) /\ s = <<a>> \o r
  BY HeadAndTail
<1>. HIDE DEF a, r
<1>2. Written(s) = t \o v /\ t \in Texts /\ v \in Texts
  BY <1>1, GlobTexted, WrittenCons
<1>3. t # << >>
  BY <1>1, AtomBegins
<1>. HIDE DEF t, v
<1>4. t \o v \in Texts /\ t \o v # << >> /\ (t \o v)[1] = t[1]
  BY <1>2, <1>3, AfterText
<1>. DEFINE w == t \o v
<1>5. Head(w) = w[1]
  <2>1. w \in Seq(Symbols) /\ w # << >>
    BY <1>4 DEF Texts
  <2>. HIDE DEF w
  <2>. QED  BY <2>1, HeadAndTail
<1>. QED  BY <1>1, <1>2, <1>4, <1>5 DEF a, r, t, v, w

LEMMA StarSegment ==
  ASSUME NEW s \in Seq(SegAtoms), s # << >>
  PROVE  Written(s) = GlobStar <=> s = <<Star, Star>>
<1>. DEFINE b == "*"
            one == <<b>>
            two == <<b, b>>
<1>1. b \in Symbols /\ one \in Texts /\ two \in Texts /\ << >> \in Texts
  BY CharSymbols, BasicTexts
<1>2. two = one \o one
  <2>. HIDE DEF b
  <2>. QED  BY <1>1, TwoJoined
<1>3. Star.text = one /\ GlobStar = two
  BY DEF Star, GlobStar
<1>4. ASSUME Written(s) = GlobStar PROVE s = <<Star, Star>>
  <2>. DEFINE a == Head(s)
              r == Tail(s)
              v == Written(r)
  <2>1. /\ a \in SegAtoms /\ r \in Seq(SegAtoms) /\ s = <<a>> \o r /\ v \in Texts
        /\ Written(s) = a.text \o v /\ Head(Written(s)) = a.text[1]
    BY SegmentBegins
  <2>. HIDE DEF a, r
  <2>2. a = Star
    <3>1. Head(GlobStar) = b
      BY <1>3
    <3>. QED  BY <1>4, <2>1, <3>1, AtomBegins
  <2>3. one \o v = two
    BY <1>3, <1>4, <2>1, <2>2
  <2>4. v = one
    <3>. HIDE DEF v, b, two
    <3>1. Tail(one \o v) = v /\ Tail(one \o one) = one
      BY <1>1, <2>1, After1
    <3>. QED  BY <1>2, <2>3, <3>1
  <2>5. r # << >>
    <3>1. Written(<< >>) = << >>
      BY GlobTexted, WrittenIs
    <3>2. one # << >>
      OBVIOUS
    <3>. HIDE DEF one
    <3>. QED  BY <2>4, <3>1, <3>2
  <2>. DEFINE e == Head(r)
              q == Tail(r)
              u == Written(q)
  <2>6. /\ e \in SegAtoms /\ q \in Seq(SegAtoms) /\ r = <<e>> \o q /\ u \in Texts
        /\ v = e.text \o u /\ Head(v) = e.text[1]
    BY <2>1, <2>5, SegmentBegins
  <2>. HIDE DEF e, q
  <2>7. e = Star
    <3>1. Head(one) = b
      OBVIOUS
    <3>. HIDE DEF v, one
    <3>. QED  BY <2>4, <2>6, <3>1, AtomBegins
  <2>8. u = << >>
    <3>1. one \o u = one
      BY <1>3, <2>4, <2>6, <2>7
    <3>2. Len(one) = 1
      OBVIOUS
    <3>. HIDE DEF u, one
    <3>3. Len(one \o u) = Len(one) + Len(u) /\ Len(u) \in Nat
      BY <1>1, <2>6, DropConcat DEF Texts
    <3>4. Len(u) = 0
      BY <3>1, <3>2, <3>3
    <3>. QED  BY <2>6, <3>4, EmptySeq DEF Texts
  <2>9. q = << >>
    <3>1. q # << >> => Written(q) # << >>
      BY <2>6, SegmentBegins
    <3>. QED  BY <2>8, <3>1
  <2>10. s = <<Star>> \o (<<Star>> \o << >>)
    BY <2>1, <2>2, <2>6, <2>7, <2>9
  <2>11. <<Star>> \o << >> = <<Star>>
    <3>. DEFINE y == <<Star>>
    <3>1. y \in Seq({Star})
      OBVIOUS
    <3>. HIDE DEF y
    <3>. QED  BY <3>1, ConcatEmptySeq DEF y
  <2>12. <<Star>> \o <<Star>> = <<Star, Star>>
    <3>1. Star \in {Star}
      OBVIOUS
    <3>. QED  BY <3>1, TwoJoined
  <2>. QED  BY <2>10, <2>11, <2>12
<1>5. ASSUME s = <<Star, Star>> PROVE Written(s) = GlobStar
  <2>1. s[1] = Star /\ Len(s) = 2
    BY <1>5
  <2>2. Star \in SegAtoms
    BY <2>1, ElementOfSeq
  <2>3. s = <<Star>> \o <<Star>>
    BY <1>5, <2>2, TwoJoined
  <2>. DEFINE o == <<Star>>
  <2>4. o \in Seq(SegAtoms) /\ Written(o) = one
    BY SMTT(60), <1>3, <2>2, GlobTexted, WrittenIs
  <2>. HIDE DEF o
  <2>5. Written(o \o o) = Written(o) \o Written(o)
    BY <2>4, GlobTexted, WrittenIs
  <2>. QED  BY <1>2, <1>3, <2>3, <2>4, <2>5 DEF o
<1>. QED  BY <1>4, <1>5

LEMMA AlikeFits ==
  ASSUME NEW xs, NEW s, AllAlike(xs, s), NEW cs
  PROVE  Covers(xs, cs, Fits) <=> Covers(s, cs, Fits)
<1>1. \A i \in 1..Len(s) : \A n : Fits(xs[i], n) <=> Fits(s[i], n)
  BY DEF AllAlike, Alike, Fits
<1>2. Len(xs) = Len(s)
  BY DEF AllAlike
<1>. QED  BY <1>1, <1>2 DEF Covers

LEMMA AlikeSound ==
  ASSUME NEW S, NEW s \in Seq(S), ~BadIn(s), NEW R, NEW xs \in Seq(R), AllAlike(xs, s)
  PROVE  ~BadIn(xs)
<1>1. DOMAIN xs = 1..Len(xs) /\ DOMAIN s = 1..Len(s)
  BY LenProperties
<1>. QED  BY <1>1 DEF BadIn, AllAlike, Alike

LEMMA BadCovers ==
  ASSUME NEW S, NEW s \in Seq(S), BadIn(s), NEW cs
  PROVE  ~Covers(s, cs, Fits)
<1>1. PICK i \in 1..Len(s) : s[i].k = "bad"
  BY LenProperties DEF BadIn
<1>2. \A n : ~Fits(s[i], n)
  BY <1>1 DEF Fits
<1>. QED  BY <1>2 DEF Covers

DotRule(s, cs) == cs[1] = "." => Head(s).text = <<".">>

\* A name that is no directory's own is matched where it fits; what is in error
\* is malformed, and what panics has the odd bracket.
LEMMA SegmentAnswers ==
  ASSUME NEW s \in Seq(SegAtoms), s # << >>, Ended(s), NEW cs \in Seq(Chars), cs \notin {<<".">>, <<".", ".">>}
  PROVE  LET v == MatchSegment(Written(s), cs)
         IN  /\ v = "match" => DotRule(s, cs) /\ Covers(s, cs, Fits)
             /\ v = "mismatch" => ~(DotRule(s, cs) /\ Covers(s, cs, Fits))
             /\ v = "error" => BadIn(s)
             /\ BadIn(s) /\ cs[1] # "." => v \in {"error", "panic"}
<1>. DEFINE p == Written(s)
            t == Translate[p]
            w == t.text
            xs == Atoms[w]
            v == MatchSegment(p, cs)
<1>1. /\ p \in Texts /\ Head(p) = Head(s).text[1] /\ Head(s) \in SegAtoms
  BY SegmentBegins
<1>2. Head(p) = "." <=> Head(s).text = <<".">>
  BY <1>1, AtomBegins
<1>3. SegmentRead(s)
  BY SegmentsRead
<1>4. t \in Translations /\ w \in Texts /\ xs \in Seq(Kinds) /\ t.end \in Ends
  <2>. HIDE DEF p
  <2>1. t \in Translations
    BY <1>1, TranslateIs
  <2>2. w \in Texts /\ t.end \in Ends
    <3>. HIDE DEF t
    <3>. QED  BY <2>1 DEF Translations
  <2>. HIDE DEF w
  <2>. QED  BY <2>1, <2>2, AtomsIs
<1>5. /\ OddIn(s) => t.end = "panic"
      /\ ~OddIn(s) /\ ~BadIn(s) => t.end = "ok" /\ AllAlike(xs, s)
      /\ ~OddIn(s) /\ BadIn(s) => t.end = "error" \/ (t.end = "ok" /\ BadIn(xs))
  BY <1>3 DEF SegmentRead
<1>6. v = IF ~DotRule(s, cs) THEN "mismatch"
          ELSE IF t.end # "ok" THEN t.end ELSE MatchAtoms(xs, cs)
  <2>. HIDE DEF p
  <2>1. v = IF cs[1] = "." /\ Head(p) # "." THEN "mismatch"
            ELSE IF t.end # "ok" THEN t.end ELSE MatchAtoms(xs, cs)
    BY DEF MatchSegment, FilepathMatch
  <2>. QED  BY <1>2, <2>1 DEF DotRule
<1>7. MatchAtoms(xs, cs) = IF BadIn(xs) THEN "error" ELSE IF Covers(xs, cs, Fits) THEN "match" ELSE "mismatch"
  <2>. HIDE DEF xs
  <2>. QED  BY DEF MatchAtoms, BadIn
<1>8. BadIn(s) => ~Covers(s, cs, Fits)
  BY BadCovers
<1>9. ~BadIn(s) /\ AllAlike(xs, s) => ~BadIn(xs) /\ (Covers(xs, cs, Fits) <=> Covers(s, cs, Fits))
  <2>. HIDE DEF xs
  <2>. QED  BY <1>4, AlikeSound, AlikeFits
<1>. HIDE DEF v, xs, t
<1>10. /\ v = "match" => DotRule(s, cs) /\ Covers(s, cs, Fits)
       /\ v = "mismatch" => ~(DotRule(s, cs) /\ Covers(s, cs, Fits))
       /\ v = "error" => BadIn(s)
  BY <1>4, <1>5, <1>6, <1>7, <1>8, <1>9 DEF Ends
<1>11. BadIn(s) /\ cs[1] # "." => v \in {"error", "panic"}
  BY <1>4, <1>5, <1>6, <1>7 DEF Ends, DotRule
<1>. QED  BY <1>10, <1>11 DEF v, p

-----------------------------------------------------------------------------
(* The pieces of a sequence.                                               *)

LEMMA LastOf ==
  ASSUME NEW T, NEW A \in Seq(T), NEW x \in T
  PROVE  /\ Front(A \o <<x>>) = A /\ Last(A \o <<x>>) = x
         /\ A \o <<x>> \in Seq(T) /\ A \o <<x>> # << >> /\ Append(A, x) = A \o <<x>>
<1>. DEFINE o == <<x>>
            n == 1
            P == A \o o
<1>1. o \in Seq(T) /\ Len(o) = n /\ o[n] = x /\ n \in 1..Len(o)
  OBVIOUS
<1>2. Append(A, x) = P
  BY AppendIsConcat
<1>. HIDE DEF o
<1>3. /\ P \in Seq(T) /\ Len(A) \in Nat /\ Len(P) = Len(A) + Len(o)
      /\ \A i \in 1..Len(A) : P[i] = A[i]
      /\ \A i \in 1..Len(o) : P[Len(A) + i] = o[i]
  BY ZenonT(60), <1>1, DropConcat
<1>. HIDE DEF P
<1>4. Last(P) = x
  <2>1. Len(P) = Len(A) + n
    BY <1>1, <1>3
  <2>. HIDE DEF n
  <2>. QED  BY <1>1, <1>3, <2>1 DEF Last
<1>5. Front(P) = A
  <2>1. Len(P) - 1 = Len(A) /\ Len(A) \in 0..Len(P)
    BY <1>1, <1>3
  <2>2. Front(P) = SubSeq(P, 1, Len(A))
    BY <2>1 DEF Front
  <2>3. Front(P) \in Seq(T) /\ Len(Front(P)) = Len(A) /\ \A i \in 1..Len(A) : Front(P)[i] = P[i]
    <3>1. /\ SubSeq(P, 0 + 1, Len(A)) \in Seq(T) /\ Len(SubSeq(P, 0 + 1, Len(A))) = Len(A) - 0
          /\ \A i \in 1..(Len(A) - 0) : SubSeq(P, 0 + 1, Len(A))[i] = P[0 + i]
      <4>. DEFINE z == 0
      <4>1. z \in Nat /\ z <= Len(A) /\ Len(A) <= Len(P)
        BY <1>3, <2>1
      <4>. HIDE DEF z
      <4>2. /\ SubSeq(P, z + 1, Len(A)) \in Seq(T) /\ Len(SubSeq(P, z + 1, Len(A))) = Len(A) - z
            /\ \A i \in 1..(Len(A) - z) : SubSeq(P, z + 1, Len(A))[i] = P[z + i]
        BY <1>3, <4>1, PieceIs
      <4>. QED  BY <4>2 DEF z
    <3>. QED  BY <1>3, <2>2, <3>1
  <2>. QED  BY <1>3, <2>3, SeqEqual
<1>6. P # << >>
  <2>1. Len(P) # 0
    BY <1>1, <1>3
  <2>. QED  BY <2>1, EmptySeq
<1>. QED  BY <1>2, <1>3, <1>4, <1>5, <1>6 DEF P, o

SomePieces(S) == Seq(Seq(S)) \ {<< >>}

LEMMA SomePiecesAre ==
  ASSUME NEW S
  PROVE  /\ \A A \in Seq(Seq(S)), x \in Seq(S) : A \o <<x>> \in SomePieces(S)
         /\ \A P \in SomePieces(S) : \E A \in Seq(Seq(S)), x \in Seq(S) : P = A \o <<x>>
<1>1. \A A \in Seq(Seq(S)), x \in Seq(S) : A \o <<x>> \in SomePieces(S)
  BY LastOf DEF SomePieces
<1>2. ASSUME NEW P \in SomePieces(S) PROVE \E A \in Seq(Seq(S)), x \in Seq(S) : P = A \o <<x>>
  <2>1. P \in Seq(Seq(S)) /\ P # << >>
    BY DEF SomePieces
  <2>2. PICK A \in Seq(Seq(S)), x \in Seq(S) : P = Append(A, x)
    BY <2>1, SequenceEmptyOrAppend
  <2>. QED  BY <2>2, AppendIsConcat
<1>. QED  BY <1>1, <1>2

Parted(P) == Append(P, << >>)

ExtendsBy(A, x, e) ==
  Extended(A \o <<x>>, e) = A \o <<Append(x, e)>> /\ Parted(A \o <<x>>) = (A \o <<x>>) \o << << >> >>

LEMMA ExtendedIs ==
  ASSUME NEW S, NEW A \in Seq(Seq(S)), NEW x \in Seq(S), NEW e \in S
  PROVE  ExtendsBy(A, x, e)
<1>. DEFINE P == A \o <<x>>
            y == Append(x, e)
<1>1. y \in Seq(S) /\ << >> \in Seq(S)
  BY AppendProperties
<1>2. Front(P) = A /\ Last(P) = x /\ P \in Seq(Seq(S))
  BY LastOf
<1>. HIDE DEF P
<1>3. Extended(P, e) = Append(A, y)
  BY <1>2 DEF Extended
<1>. HIDE DEF y
<1>4. Append(A, y) = A \o <<y>>
  BY <1>1, LastOf
<1>5. Append(P, << >>) = P \o << << >> >>
  BY <1>1, <1>2, LastOf
<1>. QED  BY <1>3, <1>4, <1>5 DEF y, P, Parted, ExtendsBy

PieceStep(s, cuts, P, i) == IF i \in cuts THEN Parted(P) ELSE Extended(P, s[i])

LEMMA PieceStepType ==
  ASSUME NEW S, NEW s \in Seq(S), NEW cuts, NEW P \in SomePieces(S), NEW i \in 1..Len(s)
  PROVE  PieceStep(s, cuts, P, i) \in SomePieces(S) /\ P \in Seq(Seq(S)) /\ P # << >>
<1>1. PICK A \in Seq(Seq(S)), x \in Seq(S) : P = A \o <<x>>
  BY SomePiecesAre
<1>2. P \in Seq(Seq(S)) /\ P # << >>
  BY DEF SomePieces
<1>3. s[i] \in S
  BY ElementOfSeq
<1>. DEFINE e == s[i]
            y == Append(x, e)
            n == << >>
<1>4. y \in Seq(S) /\ n \in Seq(S)
  BY <1>3, AppendProperties
<1>5. Extended(P, e) = A \o <<y>> /\ Parted(P) = P \o <<n>>
  <2>1. e \in S
    BY <1>3
  <2>. HIDE DEF e
  <2>2. ExtendsBy(A, x, e)
    <3>. HIDE DEF y, n
    <3>. QED  BY <2>1, ExtendedIs
  <2>. QED  BY <1>1, <2>2 DEF ExtendsBy
<1>a. A \o <<y>> \in SomePieces(S) /\ P \o <<n>> \in SomePieces(S)
  <2>. HIDE DEF y, n
  <2>. QED  BY <1>2, <1>4, SomePiecesAre
<1>6. PieceStep(s, cuts, P, i) = IF i \in cuts THEN Parted(P) ELSE Extended(P, e)
  BY DEF PieceStep
<1>. HIDE DEF e
<1>. HIDE DEF y, n
<1>. QED  BY <1>2, <1>5, <1>a, <1>6

Piecing(s, cuts, g) ==
  g = [i \in 0..Len(s) |-> IF i = 0 THEN << << >> >>
                           ELSE IF i \in cuts THEN Append(g[i - 1], << >>) ELSE Extended(g[i - 1], s[i])]

LEMMA OnePiece ==
  ASSUME NEW S, NEW x \in Seq(S)
  PROVE  <<x>> \in SomePieces(S) /\ << >> \o <<x>> = <<x>>
<1>. DEFINE o == <<x>>
<1>1. o \in Seq(Seq(S)) /\ << >> \in Seq(Seq(S))
  OBVIOUS
<1>. HIDE DEF o
<1>2. << >> \o o = o
  BY <1>1, ConcatEmptySeq
<1>3. o # << >>
  BY DEF o
<1>. QED  BY <1>1, <1>2, <1>3 DEF o, SomePieces

LEMMA PiecingExists ==
  ASSUME NEW S, NEW s \in Seq(S), NEW cuts
  PROVE  \E g : Piecing(s, cuts, g)
<1>. DEFINE X == SomePieces(S)
            n == Len(s)
            x == << << >> >>
            step == [r \in X \X Nat |-> IF r[2] \in 1..n THEN PieceStep(s, cuts, r[1], r[2]) ELSE r[1]]
            z == 0
<1>1. x \in X /\ n \in Nat /\ z \in Nat
  <2>. DEFINE y == << >>
  <2>1. y \in Seq(S) /\ x = <<y>>
    OBVIOUS
  <2>2. <<y>> \in X
    <3>. HIDE DEF y
    <3>. QED  BY <2>1, OnePiece
  <2>3. n \in Nat
    BY LenProperties
  <2>. QED  BY <2>1, <2>2, <2>3
<1>2. Maps(step, X \X Nat, X)
  <2>1. ASSUME NEW r \in X \X Nat PROVE (IF r[2] \in 1..n THEN PieceStep(s, cuts, r[1], r[2]) ELSE r[1]) \in X
    <3>. DEFINE P == r[1]
                i == r[2]
    <3>1. P \in X
      OBVIOUS
    <3>. HIDE DEF P, i
    <3>2. (IF i \in 1..n THEN PieceStep(s, cuts, P, i) ELSE P) \in X
      BY <3>1, PieceStepType
    <3>. QED  BY <3>2 DEF P, i
  <2>. HIDE DEF X, n
  <2>. QED  BY <2>1 DEF Maps
<1>3. \A P \in X, i \in 1..n : step[<<P, i>>] = PieceStep(s, cuts, P, i)
  <2>. HIDE DEF X
  <2>. QED  BY <1>1
<1>. HIDE DEF step, X, x, z
<1>4. PICK g : Iterates(g, z, n, x, step, X)
  BY <1>1, <1>2, IterationExists
<1>5. ASSUME NEW i \in 0..n
      PROVE  g[i] = IF i = 0 THEN << << >> >> ELSE IF i \in cuts THEN Append(g[i - 1], << >>) ELSE Extended(g[i - 1], s[i])
  <2>1. i \in z..n /\ (i # 0 => i \in 1..n /\ i - 1 \in z..n)
    BY <1>1 DEF z
  <2>2. g[i] = IF i = z THEN x ELSE step[<<g[i - 1], i>>]
    BY <1>4, <2>1 DEF Iterates
  <2>3. i # 0 => g[i - 1] \in X
    BY <1>4, <2>1 DEF Iterates
  <2>4. i # 0 => step[<<g[i - 1], i>>] = PieceStep(s, cuts, g[i - 1], i)
    BY <1>3, <2>1, <2>3
  <2>. QED  BY <2>2, <2>4 DEF z, x, PieceStep, Parted
<1>6. g = [i \in 0..n |-> g[i]]
  BY <1>4 DEF Iterates, z
<1>7. [i \in 0..n |-> g[i]] = [i \in 0..n |-> IF i = 0 THEN << << >> >> ELSE IF i \in cuts THEN Append(g[i - 1], << >>) ELSE Extended(g[i - 1], s[i])]
  BY <1>5
<1>8. g = [i \in 0..n |-> IF i = 0 THEN << << >> >> ELSE IF i \in cuts THEN Append(g[i - 1], << >>) ELSE Extended(g[i - 1], s[i])]
  BY <1>6, <1>7, Zenon
<1>. QED  BY <1>8 DEF Piecing

LEMMA PiecesAre ==
  ASSUME NEW S, NEW s \in Seq(S), NEW cuts
  PROVE  \E g : Piecing(s, cuts, g) /\ Pieces(s, cuts) = g[Len(s)]
<1>. DEFINE F(g) == Piecing(s, cuts, g)
            the  == CHOOSE g : F(g)
<1>1. Pieces(s, cuts) = the[Len(s)]
  BY DEF Pieces, Piecing
<1>2. F(the)
  <2>1. \E g : F(g)
    BY PiecingExists
  <2>. HIDE DEF F
  <2>. QED  BY <2>1
<1>. HIDE DEF the
<1>. QED  BY <1>1, <1>2

LEMMA PiecingSteps ==
  ASSUME NEW S, NEW s \in Seq(S), NEW cuts, NEW g, Piecing(s, cuts, g)
  PROVE  g[0] = << << >> >> /\ \A i \in 1..Len(s) : g[i] = PieceStep(s, cuts, g[i - 1], i)
<1>1. g = [i \in 0..Len(s) |-> IF i = 0 THEN << << >> >>
                               ELSE IF i \in cuts THEN Append(g[i - 1], << >>) ELSE Extended(g[i - 1], s[i])]
  BY DEF Piecing
<1>2. \A i \in 0..Len(s) : g[i] = IF i = 0 THEN << << >> >>
                               ELSE IF i \in cuts THEN Append(g[i - 1], << >>) ELSE Extended(g[i - 1], s[i])
  BY <1>1, ZenonT(30)
<1>3. Len(s) \in Nat
  BY LenProperties
<1>4. 0 \in 0..Len(s) /\ \A i \in 1..Len(s) : i \in 0..Len(s) /\ i # 0
  BY <1>3
<1>. QED  BY <1>2, <1>4 DEF PieceStep, Parted

Grows(s, e, cuts) ==
  Pieces(Append(s, e), cuts) = IF Len(s) + 1 \in cuts THEN Parted(Pieces(s, cuts)) ELSE Extended(Pieces(s, cuts), e)

LEMMA PiecesSteps ==
  ASSUME NEW S, NEW cuts
  PROVE  /\ Pieces(<< >>, cuts) = << << >> >>
         /\ \A s \in Seq(S), e \in S : Grows(s, e, cuts)
<1>1. Pieces(<< >>, cuts) = << << >> >>
  <2>1. << >> \in Seq(S) /\ Len(<< >>) = 0
    OBVIOUS
  <2>2. PICK g : Piecing(<< >>, cuts, g) /\ Pieces(<< >>, cuts) = g[Len(<< >>)]
    BY <2>1, PiecesAre
  <2>. QED  BY <2>1, <2>2, PiecingSteps
<1>2. ASSUME NEW s \in Seq(S), NEW e \in S PROVE Grows(s, e, cuts)
  <2>. DEFINE t == Append(s, e)
              n == Len(s)
  <2>1. t \in Seq(S) /\ Len(t) = n + 1 /\ n \in Nat /\ t[n + 1] = e /\ \A i \in 1..n : t[i] = s[i]
    BY AppendProperties, LenProperties
  <2>. HIDE DEF t
  <2>2. PICK g : Piecing(t, cuts, g) /\ Pieces(t, cuts) = g[Len(t)]
    BY <2>1, PiecesAre
  <2>3. PICK h : Piecing(s, cuts, h) /\ Pieces(s, cuts) = h[Len(s)]
    BY PiecesAre
  <2>4. g[0] = << << >> >> /\ \A i \in 1..Len(t) : g[i] = PieceStep(t, cuts, g[i - 1], i)
    BY <2>1, <2>2, PiecingSteps
  <2>5. h[0] = << << >> >> /\ \A i \in 1..n : h[i] = PieceStep(s, cuts, h[i - 1], i)
    BY <2>3, PiecingSteps
  <2>. DEFINE T == {i \in 0..n : g[i] = h[i]}
              z == 0
  <2>6. z \in T /\ z \in Nat
    BY SMTT(60), <2>1, <2>4, <2>5
  <2>7. ASSUME NEW i \in z..n, i < n, i \in T PROVE i + 1 \in T
    <3>1. i + 1 \in 1..n /\ i + 1 \in 1..Len(t) /\ (i + 1) - 1 = i /\ i + 1 \in 0..n
      BY <2>1, <2>7
    <3>. DEFINE j == i + 1
    <3>2. g[j] = PieceStep(t, cuts, g[i], j) /\ h[j] = PieceStep(s, cuts, h[i], j) /\ t[j] = s[j]
      BY <2>1, <2>4, <2>5, <3>1
    <3>3. g[j] = h[j]
      <4>. HIDE DEF j
      <4>. QED  BY <2>7, <3>2 DEF PieceStep
    <3>. QED  BY <3>1, <3>3
  <2>. HIDE DEF T, z, n
  <2>8. z..n \subseteq T
    BY <2>1, <2>6, <2>7, RangeInduction
  <2>9. g[n] = h[n]
    <3>1. n \in z..n
      BY <2>1 DEF z
    <3>. QED  BY <2>8, <3>1 DEF T
  <2>10. g[n + 1] = PieceStep(t, cuts, g[n], n + 1)
    <3>1. n + 1 \in 1..Len(t) /\ (n + 1) - 1 = n
      BY <2>1
    <3>. QED  BY <2>4, <3>1
  <2>. QED  BY <2>1, <2>2, <2>3, <2>9, <2>10 DEF PieceStep, t, n, Grows
<1>. QED  BY <1>1, <1>2

LEMMA PiecesAfter ==
  ASSUME NEW S, NEW A \in Seq(Seq(S)), NEW Q \in SomePieces(S), NEW e \in S
  PROVE  Parted(A \o Q) = A \o Parted(Q) /\ Extended(A \o Q, e) = A \o Extended(Q, e)
<1>1. PICK B \in Seq(Seq(S)), x \in Seq(S) : Q = B \o <<x>>
  BY SomePiecesAre
<1>. DEFINE o == <<x>>
            y == Append(x, e)
            p == <<y>>
            n == << >>
            m == <<n>>
            AB == A \o B
<1>2. y \in Seq(S) /\ n \in Seq(S)
  BY AppendProperties
<1>3. o \in Seq(Seq(S)) /\ p \in Seq(Seq(S)) /\ m \in Seq(Seq(S))
  <2>. HIDE DEF y, n
  <2>. QED  BY <1>2
<1>4. AB \in Seq(Seq(S))
  BY ConcatProperties
<1>5. A \o Q = AB \o o
  <2>. HIDE DEF o
  <2>1. o \in Seq(Seq(S))
    BY <1>3
  <2>2. Associates(A, B, o)
    BY <2>1, ConcatAssociates
  <2>. QED  BY <1>1, <2>2 DEF Associates, o
<1>6. Q \in Seq(Seq(S)) /\ A \o Q \in Seq(Seq(S))
  BY ConcatProperties DEF SomePieces
<1>7. Parted(A \o Q) = A \o Parted(Q)
  <2>. DEFINE AQ == A \o Q
  <2>. HIDE DEF n
  <2>1. Append(Q, n) = Q \o m
    BY <1>2, <1>6, AppendIsConcat
  <2>2. Append(AQ, n) = AQ \o m
    <3>1. AQ \in Seq(Seq(S))
      BY <1>6
    <3>. HIDE DEF AQ
    <3>. QED  BY <1>2, <3>1, AppendIsConcat
  <2>. HIDE DEF m
  <2>3. m \in Seq(Seq(S)) /\ Q \in Seq(Seq(S))
    BY <1>3, <1>6
  <2>4. Associates(A, Q, m)
    BY <2>3, ConcatAssociates
  <2>5. Append(A \o Q, n) = A \o Append(Q, n)
    BY <2>1, <2>2, <2>4 DEF Associates
  <2>. QED  BY <2>5 DEF Parted, n
<1>8. Extended(A \o Q, e) = A \o Extended(Q, e)
  <2>1. ExtendsBy(B, x, e)
    BY ExtendedIs
  <2>2. ExtendsBy(AB, x, e)
    <3>. HIDE DEF AB
    <3>. QED  BY <1>4, ExtendedIs
  <2>3. Q = B \o o /\ Extended(B \o o, e) = B \o p /\ Extended(AB \o o, e) = AB \o p
    BY <1>1, <2>1, <2>2 DEF ExtendsBy
  <2>. HIDE DEF o, p
  <2>4. p \in Seq(Seq(S))
    BY <1>3
  <2>5. Associates(A, B, p)
    BY <2>4, ConcatAssociates
  <2>. QED  BY <1>5, <2>3, <2>5 DEF Associates
<1>. QED  BY <1>7, <1>8

LEMMA PiecesType ==
  ASSUME NEW S, NEW cuts
  PROVE  \A s \in Seq(S) : Pieces(s, cuts) \in SomePieces(S)
<1>. DEFINE T == {s \in Seq(S) : Pieces(s, cuts) \in SomePieces(S)}
<1>1. << >> \in T
  <2>1. Pieces(<< >>, cuts) = << << >> >>
    BY PiecesSteps
  <2>. DEFINE n == << >>
  <2>2. n \in Seq(S)
    OBVIOUS
  <2>3. <<n>> \in SomePieces(S)
    <3>. HIDE DEF n
    <3>. QED  BY <2>2, OnePiece
  <2>. QED  BY <2>1, <2>2, <2>3
<1>2. ASSUME NEW s \in Seq(S), NEW e \in S, s \in T PROVE Append(s, e) \in T
  <2>. DEFINE t == Append(s, e)
              P == Pieces(s, cuts)
              i == Len(s) + 1
  <2>1. t \in Seq(S) /\ i \in 1..Len(t) /\ t[i] = e
    BY AppendProperties, LenProperties
  <2>2. P \in SomePieces(S)
    BY <1>2
  <2>3. Pieces(t, cuts) = IF i \in cuts THEN Parted(P) ELSE Extended(P, e)
    <3>1. Grows(s, e, cuts)
      BY PiecesSteps
    <3>. QED  BY <3>1 DEF Grows
  <2>. HIDE DEF t, P, i
  <2>4. PieceStep(t, cuts, P, i) \in SomePieces(S)
    BY <2>1, <2>2, PieceStepType
  <2>5. Pieces(t, cuts) \in SomePieces(S)
    BY <2>1, <2>3, <2>4 DEF PieceStep
  <2>. QED  BY <2>1, <2>5 DEF t
<1>. HIDE DEF T
<1>3. Seq(S) \subseteq T
  BY <1>1, <1>2, AppendInduction
<1>. QED  BY <1>3 DEF T

LEMMA PiecesUncut ==
  ASSUME NEW S, NEW cuts
  PROVE  \A s \in Seq(S) : (\A i \in 1..Len(s) : i \notin cuts) => Pieces(s, cuts) = <<s>>
<1>. DEFINE Whole(s) == \A i \in 1..Len(s) : i \notin cuts
            T == {s \in Seq(S) : Whole(s) => Pieces(s, cuts) = <<s>>}
<1>1. << >> \in T
  BY PiecesSteps
<1>2. ASSUME NEW s \in Seq(S), NEW e \in S, s \in T PROVE Append(s, e) \in T
  <2>. DEFINE t == Append(s, e)
              P == Pieces(s, cuts)
  <2>1. t \in Seq(S) /\ Len(t) = Len(s) + 1 /\ Len(s) \in Nat
    BY AppendProperties, LenProperties
  <2>2. ASSUME Whole(t) PROVE Pieces(t, cuts) = <<t>>
    <3>1. Whole(s) /\ Len(s) + 1 \notin cuts
      <4>. HIDE DEF t
      <4>. QED  BY <2>1, <2>2
    <3>2. P = <<s>>
      BY <1>2, <3>1
    <3>3. Pieces(t, cuts) = Extended(P, e)
      <4>1. Grows(s, e, cuts)
        BY PiecesSteps
      <4>. QED  BY <3>1, <4>1 DEF Grows
    <3>4. Extended(<<s>>, e) = <<t>>
      <4>. DEFINE A == << >>
      <4>1. A \in Seq(Seq(S))
        OBVIOUS
      <4>2. A \o <<s>> = <<s>> /\ A \o <<t>> = <<t>>
        <5>. HIDE DEF t
        <5>. QED  BY <2>1, OnePiece
      <4>3. Extended(A \o <<s>>, e) = A \o <<t>>
        <5>. HIDE DEF A
        <5>1. ExtendsBy(A, s, e)
          BY <4>1, ExtendedIs
        <5>. QED  BY <5>1 DEF ExtendsBy
      <4>. HIDE DEF A
      <4>. QED  BY <4>2, <4>3
    <3>. QED  BY <3>2, <3>3, <3>4
  <2>. QED  BY <2>1, <2>2
<1>. HIDE DEF T
<1>3. Seq(S) \subseteq T
  BY <1>1, <1>2, AppendInduction
<1>. QED  BY <1>3 DEF T

LEMMA PiecesAgree ==
  ASSUME NEW S, NEW cuts, NEW others
  PROVE  \A s \in Seq(S) : (\A i \in 1..Len(s) : i \in cuts <=> i \in others) => Pieces(s, cuts) = Pieces(s, others)
<1>. DEFINE Same(s) == \A i \in 1..Len(s) : i \in cuts <=> i \in others
            T == {s \in Seq(S) : Same(s) => Pieces(s, cuts) = Pieces(s, others)}
<1>1. << >> \in T
  BY PiecesSteps
<1>2. ASSUME NEW s \in Seq(S), NEW e \in S, s \in T PROVE Append(s, e) \in T
  <2>. DEFINE t == Append(s, e)
  <2>1. t \in Seq(S) /\ Len(t) = Len(s) + 1 /\ Len(s) \in Nat
    BY AppendProperties, LenProperties
  <2>2. ASSUME Same(t) PROVE Pieces(t, cuts) = Pieces(t, others)
    <3>1. Same(s) /\ (Len(s) + 1 \in cuts <=> Len(s) + 1 \in others)
      <4>. HIDE DEF t
      <4>. QED  BY <2>1, <2>2
    <3>2. Pieces(s, cuts) = Pieces(s, others)
      BY <1>2, <3>1
    <3>3. /\ Pieces(t, cuts) = IF Len(s) + 1 \in cuts THEN Parted(Pieces(s, cuts)) ELSE Extended(Pieces(s, cuts), e)
          /\ Pieces(t, others) = IF Len(s) + 1 \in others THEN Parted(Pieces(s, others)) ELSE Extended(Pieces(s, others), e)
      <4>1. Grows(s, e, cuts) /\ Grows(s, e, others)
        BY PiecesSteps
      <4>. QED  BY <4>1 DEF Grows
    <3>. HIDE DEF t
    <3>. QED  BY <3>1, <3>2, <3>3
  <2>. QED  BY <2>1, <2>2
<1>. HIDE DEF T
<1>3. Seq(S) \subseteq T
  BY <1>1, <1>2, AppendInduction
<1>. QED  BY <1>3 DEF T

Follows(more, cuts, n, q) == \A i \in 1..Len(q) : i \in more <=> n + i \in cuts

Across(w, x, q, cuts, more) == Pieces(w \o (<<x>> \o q), cuts) = Pieces(w, cuts) \o Pieces(q, more)

\* Nothing is gathered over a cut.
LEMMA PiecesAcross ==
  ASSUME NEW S, NEW cuts, NEW more, NEW w \in Seq(S), NEW x \in S, Len(w) + 1 \in cuts
  PROVE  \A q \in Seq(S) :
           Follows(more, cuts, Len(w) + 1, q) => Across(w, x, q, cuts, more)
<1>. DEFINE n == Len(w) + 1
            A == Pieces(w, cuts)
            v == w \o <<x>>
            Shifted(q) == \A i \in 1..Len(q) : i \in more <=> n + i \in cuts
            T == {q \in Seq(S) : Shifted(q) => Pieces(v \o q, cuts) = A \o Pieces(q, more)}
<1>1. /\ v \in Seq(S) /\ v = Append(w, x) /\ Len(v) = n /\ n \in Nat \ {0}
      /\ A \in Seq(Seq(S)) /\ A \in SomePieces(S) /\ <<x>> \in Seq(S)
  <2>1. A \in SomePieces(S)
    BY PiecesType
  <2>2. Append(w, x) = v
    BY AppendIsConcat
  <2>3. Append(w, x) \in Seq(S) /\ Len(Append(w, x)) = n /\ n \in Nat \ {0}
    BY AppendProperties, LenProperties
  <2>. QED  BY <2>1, <2>2, <2>3 DEF SomePieces
<1>2. Pieces(v, cuts) = A \o << << >> >>
  <2>1. Pieces(Append(w, x), cuts) = Parted(A)
    <3>1. Grows(w, x, cuts)
      BY PiecesSteps
    <3>. QED  BY <3>1 DEF Grows
  <2>. DEFINE e == << >>
  <2>2. e \in Seq(S)
    OBVIOUS
  <2>3. Append(A, e) = A \o <<e>>
    <3>. HIDE DEF e, A
    <3>. QED  BY <1>1, <2>2, AppendIsConcat
  <2>. HIDE DEF A
  <2>. QED  BY <1>1, <2>1, <2>3 DEF Parted
<1>. HIDE DEF A, v
<1>3. << >> \in T
  <2>1. v \o << >> = v
    BY <1>1, ConcatEmptySeq
  <2>2. Pieces(<< >>, more) = << << >> >>
    BY PiecesSteps
  <2>. DEFINE o == << >>
  <2>3. o \in Seq(S)
    OBVIOUS
  <2>4. Pieces(v \o o, cuts) = A \o Pieces(o, more)
    BY <1>2, <2>1, <2>2, Zenon
  <2>. HIDE DEF o
  <2>5. o \in T
    BY <2>3, <2>4
  <2>. QED  BY <2>5 DEF o
<1>4. ASSUME NEW q \in Seq(S), NEW e \in S, q \in T PROVE Append(q, e) \in T
  <2>. DEFINE t == Append(q, e)
              u == v \o q
              Q == Pieces(q, more)
  <2>1. t \in Seq(S) /\ Len(t) = Len(q) + 1 /\ Len(q) \in Nat
    BY AppendProperties, LenProperties
  <2>2. u \in Seq(S) /\ Len(u) = n + Len(q)
    <3>. HIDE DEF n
    <3>. QED  BY <1>1, DropConcat
  <2>3. v \o t = Append(u, e)
    <3>. DEFINE o == <<e>>
    <3>1. o \in Seq(S)
      OBVIOUS
    <3>2. t = q \o o
      BY AppendIsConcat
    <3>3. Append(u, e) = u \o o
      <4>. HIDE DEF u
      <4>. QED  BY <2>2, AppendIsConcat
    <3>. HIDE DEF o, t
    <3>4. (v \o q) \o o = v \o (q \o o)
      <4>1. Associates(v, q, o)
        BY <1>1, <3>1, ConcatAssociates
      <4>. QED  BY <4>1 DEF Associates
    <3>. QED  BY <3>2, <3>3, <3>4 DEF u
  <2>4. ASSUME Shifted(t) PROVE Pieces(v \o t, cuts) = A \o Pieces(t, more)
    <3>1. Shifted(q) /\ (Len(q) + 1 \in more <=> Len(u) + 1 \in cuts)
      <4>1. \A i \in 1..Len(q) : i \in 1..Len(t)
        BY <2>1
      <4>2. Len(q) + 1 \in 1..Len(t) /\ n + (Len(q) + 1) = Len(u) + 1
        BY <1>1, <2>1, <2>2
      <4>. HIDE DEF t, u, n
      <4>. QED  BY <2>4, <4>1, <4>2
    <3>2. Pieces(u, cuts) = A \o Q
      BY <1>4, <3>1
    <3>3. Pieces(v \o t, cuts) = IF Len(u) + 1 \in cuts THEN Parted(A \o Q) ELSE Extended(A \o Q, e)
      <4>. HIDE DEF u
      <4>1. Grows(u, e, cuts)
        BY <2>2, PiecesSteps
      <4>. QED  BY <2>3, <3>2, <4>1 DEF Grows
    <3>4. Pieces(t, more) = IF Len(q) + 1 \in more THEN Parted(Q) ELSE Extended(Q, e)
      <4>1. Grows(q, e, more)
        BY PiecesSteps
      <4>. QED  BY <4>1 DEF Grows
    <3>5. Q \in SomePieces(S)
      BY PiecesType
    <3>. HIDE DEF Q, u, t
    <3>6. Parted(A \o Q) = A \o Parted(Q) /\ Extended(A \o Q, e) = A \o Extended(Q, e)
      BY SMTT(60), <1>1, <3>5, PiecesAfter
    <3>. QED  BY <3>1, <3>3, <3>4, <3>6
  <2>. HIDE DEF t
  <2>. QED  BY <2>1, <2>4 DEF t
<1>. HIDE DEF T
<1>5. Seq(S) \subseteq T
  BY <1>3, <1>4, AppendInduction
<1>6. ASSUME NEW q \in Seq(S) PROVE v \o q = w \o (<<x>> \o q)
  <2>. DEFINE o == <<x>>
  <2>1. o \in Seq(S)
    OBVIOUS
  <2>. HIDE DEF o
  <2>2. (w \o o) \o q = w \o (o \o q)
    <3>1. Associates(w, o, q)
      BY <2>1, ConcatAssociates
    <3>. QED  BY <3>1 DEF Associates
  <2>. QED  BY <2>2 DEF o, v
<1>. QED  BY <1>5, <1>6 DEF T, A, n, Follows, Across

-----------------------------------------------------------------------------
(* What texts are made of.                                                 *)

Special == {"\\", "{", "}", ",", "/"}
Plain   == Symbols \ Special

\* Texts put together from plain characters and quoted ones.
Closing(T) ==
  /\ T \subseteq Texts /\ << >> \in T
  /\ \A c \in Plain : <<c>> \in T
  /\ \A c \in Chars : <<"\\", c>> \in T
  /\ \A s, t \in T : s \o t \in T

LEMMA PlainTexts ==
  ASSUME NEW T, Closing(T)
  PROVE  \A t \in Seq(Plain) : t \in T
<1>1. << >> \in T
  BY DEF Closing
<1>2. ASSUME NEW s \in Seq(Plain), NEW c \in Plain, s \in T PROVE <<c>> \o s \in T
  BY <1>2 DEF Closing
<1>3. Seq(Plain) \subseteq T
  BY <1>1, <1>2, ConsInduction
<1>. QED  BY <1>3

LEMMA PlainChars ==
  /\ \A c \in Chars \ {"\\", "{", "}", ","} : c \in Plain
  /\ {"*", "?", "[", "]", "^", "!", ":", "-", "."} \subseteq Plain
  /\ DOMAIN posixClasses \subseteq Plain
<1>1. "/" \notin Chars
  BY AlphabetAssumption
<1>2. \A n \in DOMAIN posixClasses : n \in Symbols /\ n \notin Special
  BY SymbolsHas, ClassNames DEF Special
<1>. QED  BY <1>1, <1>2, CharSymbols DEF Plain, Special

LEMMA ItemMade ==
  ASSUME NEW T, Closing(T), NEW it \in Items
  PROVE  it.text \in T
<1>1. CASE it \in PlainItems
  <2>1. PICK c \in Chars \ ItemMarks : it = Item(c)
    BY <1>1 DEF PlainItems
  <2>2. c \in Plain /\ it.text = <<c>>
    BY <2>1, PlainChars DEF ItemMarks, Item
  <2>. QED  BY <2>2 DEF Closing
<1>2. CASE it \in QuotedItems
  <2>1. PICK c \in Chars : it = QuotedItem(c)
    BY <1>2 DEF QuotedItems
  <2>2. it.text = <<"\\", c>>
    BY <2>1 DEF QuotedItem
  <2>. QED  BY <2>2 DEF Closing
<1>3. CASE it \in RangeItems
  <2>1. PICK lo \in Chars \ EndMarks, hi \in Chars \ EndMarks : it = FromTo(lo, hi)
    BY <1>3 DEF RangeItems
  <2>. DEFINE d == "-"
  <2>2. lo \in Plain /\ hi \in Plain /\ d \in Plain
    BY PlainChars DEF EndMarks, ItemMarks
  <2>3. it.text = <<lo, d, hi>>
    BY <2>1 DEF FromTo
  <2>. HIDE DEF d
  <2>4. <<lo, d, hi>> \in Seq(Plain)
    BY <2>2
  <2>. QED  BY <2>3, <2>4, PlainTexts
<1>4. CASE it \in ClassItems
  <2>1. PICK n \in DOMAIN classChars : it = ClassItem(n)
    BY <1>4 DEF ClassItems
  <2>. DEFINE a == "["
              b == ":"
              e == "]"
  <2>2. n \in Plain
    BY PlainChars, ClassNames DEF classChars
  <2>3. a \in Plain /\ b \in Plain /\ e \in Plain
    BY PlainChars
  <2>4. it.text = <<a, b, n, b, e>>
    BY <2>1 DEF ClassItem
  <2>. HIDE DEF a, b, e
  <2>5. <<a, b, n, b, e>> \in Seq(Plain)
    BY <2>2, <2>3
  <2>. QED  BY <2>4, <2>5, PlainTexts
<1>. QED  BY <1>1, <1>2, <1>3, <1>4 DEF Items

LEMMA ItemsMade ==
  ASSUME NEW T, Closing(T)
  PROVE  \A its \in Seq(Items) : Written(its) \in T
<1>. DEFINE X == {its \in Seq(Items) : Written(its) \in T}
<1>1. << >> \in X
  <2>1. Written(<< >>) = << >>
    BY ItemsText, WrittenIs
  <2>. QED  BY <2>1 DEF Closing
<1>2. ASSUME NEW s \in Seq(Items), NEW e \in Items, s \in X PROVE <<e>> \o s \in X
  <2>1. <<e>> \o s \in Seq(Items) /\ Written(<<e>> \o s) = e.text \o Written(s)
    BY ItemsText, WrittenCons
  <2>2. e.text \in T /\ Written(s) \in T
    BY <1>2, ItemMade
  <2>. QED  BY <2>1, <2>2 DEF Closing
<1>. HIDE DEF X
<1>3. Seq(Items) \subseteq X
  BY <1>1, <1>2, ConsInduction
<1>. QED  BY <1>3 DEF X

\* The text of an atom is so made, but for a backslash with nothing to quote.
LEMMA AtomMade ==
  ASSUME NEW T, Closing(T), NEW a \in SegAtoms, a # Unfinished
  PROVE  a.text \in T
<1>1. ASSUME a = Star PROVE a.text \in T
  <2>1. a.text = <<"*">>
    BY <1>1 DEF Star
  <2>. QED  BY <2>1, PlainChars DEF Closing
<1>2. ASSUME NEW c \in Chars \ {"\\", "*", "?", "[", "{", "}", ","}, a = Lit(c) PROVE a.text \in T
  <2>1. a.text = <<c>>
    BY <1>2 DEF Lit, One
  <2>. QED  BY <2>1, PlainChars DEF Closing
<1>3. ASSUME NEW c \in Chars, a = Quoted(c) PROVE a.text \in T
  <2>1. a.text = <<"\\", c>>
    BY <1>3 DEF Quoted, One
  <2>. QED  BY <2>1 DEF Closing
<1>4. ASSUME a = AnyOne PROVE a.text \in T
  <2>1. a.text = <<"?">>
    BY <1>4 DEF AnyOne, One
  <2>. QED  BY <2>1, PlainChars DEF Closing
<1>5. ASSUME a = Odd PROVE a.text \in T
  <2>. DEFINE b == "["
              c == ":"
              e == "]"
  <2>1. a.text = <<b, b, c, e>>
    BY <1>5 DEF Odd, One
  <2>2. b \in Plain /\ c \in Plain /\ e \in Plain
    BY PlainChars
  <2>. HIDE DEF b, c, e
  <2>3. <<b, b, c, e>> \in Seq(Plain)
    BY <2>2
  <2>. QED  BY <2>1, <2>3, PlainTexts
<1>6. ASSUME IsBracket(a) PROVE a.text \in T
  <2>. DEFINE w == Written(a.items)
              open  == <<"[">>
              close == <<"]">>
              neg   == a.neg
  <2>1. /\ a.text = open \o (neg \o (w \o close))
        /\ neg \in {<< >>, <<"!">>, <<"^">>} /\ a.items \in Seq(Items)
    BY <1>6, BracketShape
  <2>2. w \in T
    BY <2>1, ItemsMade
  <2>3. open \in T /\ close \in T /\ neg \in T
    <3>1. <<"[">> \in T /\ <<"]">> \in T /\ <<"!">> \in T /\ <<"^">> \in T /\ << >> \in T
      BY PlainChars DEF Closing
    <3>. QED  BY <2>1, <3>1
  <2>. HIDE DEF w, open, close, neg
  <2>. QED  BY <2>1, <2>2, <2>3 DEF Closing
<1>7. ASSUME IsOpen(a) PROVE a.text \in T
  <2>. DEFINE t == a.text
              n == 1
  <2>1. t \in Seq(Symbols) /\ Len(t) > 1 /\ t[1] = "[" /\ ToSet(Tail(t)) \cap Special = {}
    BY <1>7 DEF IsOpen, Special
  <2>2. t # << >> /\ Tail(t) \in Seq(Symbols) /\ Len(Tail(t)) = Len(t) - 1 /\ Len(t) \in Nat
        /\ \A i \in 1..Len(Tail(t)) : Tail(t)[i] = t[i + 1] /\ Tail(t)[i] \notin Special
    <3>1. t # << >>
      BY <2>1
    <3>2. /\ Tail(t) \in Seq(Symbols) /\ Len(Tail(t)) = Len(t) - 1 /\ Len(t) \in Nat
          /\ \A i \in 1..Len(Tail(t)) : Tail(t)[i] = t[i + 1]
      <4>. HIDE DEF t
      <4>. QED  BY <2>1, <3>1, HeadTailProperties, LenProperties
    <3>3. \A i \in 1..Len(Tail(t)) : Tail(t)[i] \in ToSet(Tail(t))
      <4>1. DOMAIN Tail(t) = 1..Len(Tail(t))
        BY <3>2, LenProperties
      <4>. QED  BY <4>1 DEF ToSet
    <3>. HIDE DEF t
    <3>. QED  BY <2>1, <3>1, <3>2, <3>3
  <2>3. "[" \in Plain
    BY PlainChars
  <2>4. \A i \in 1..Len(t) : t[i] \in Plain
    <3>. SUFFICES ASSUME NEW i \in 1..Len(t) PROVE t[i] \in Plain
      OBVIOUS
    <3>1. t[i] \in Symbols
      BY <2>1, ElementOfSeq
    <3>2. CASE i = n
      BY <2>1, <2>3, <3>2
    <3>3. CASE i # n
      <4>. DEFINE j == i - 1
      <4>1. j \in 1..Len(Tail(t)) /\ j + 1 = i
        <5>. HIDE DEF t
        <5>. QED  BY <2>2, <3>3
      <4>. HIDE DEF t, j
      <4>. QED  BY <2>2, <3>1, <4>1 DEF Plain
    <3>. QED  BY <3>2, <3>3
  <2>5. t \in Seq(Plain)
    <3>. HIDE DEF t
    <3>. QED  BY <2>1, <2>4, SeqOfSome
  <2>. QED  BY <2>5, PlainTexts
<1>8. a = Star \/ IsOne(a) \/ IsOpen(a)
  BY SegAtomCases
<1>. QED  BY <1>1, <1>2, <1>3, <1>4, <1>5, <1>6, <1>7, <1>8 DEF IsOne

LEMMA WrittenMade ==
  ASSUME NEW T, Closing(T)
  PROVE  \A s \in Seq(SegAtoms \ {Unfinished}) : Written(s) \in T
<1>. DEFINE A == SegAtoms \ {Unfinished}
            X == {s \in Seq(A) : Written(s) \in T}
<1>0. Texted(A)
  BY GlobTexted DEF Texted
<1>1. << >> \in X
  <2>1. Written(<< >>) = << >>
    BY <1>0, WrittenIs
  <2>. QED  BY <2>1 DEF Closing
<1>2. ASSUME NEW s \in Seq(A), NEW e \in A, s \in X PROVE <<e>> \o s \in X
  <2>1. <<e>> \o s \in Seq(A) /\ Written(<<e>> \o s) = e.text \o Written(s)
    <3>. HIDE DEF A
    <3>. QED  BY <1>0, WrittenCons
  <2>2. e.text \in T /\ Written(s) \in T
    BY <1>2, AtomMade
  <2>. HIDE DEF A
  <2>. QED  BY <2>1, <2>2 DEF Closing
<1>. HIDE DEF A, X
<1>3. Seq(A) \subseteq X
  BY <1>1, <1>2, ConsInduction
<1>. QED  BY <1>3 DEF X, A

-----------------------------------------------------------------------------
(* Splitting at slashes.                                                   *)

CutsAt(s, X) == {i \in DOMAIN s : s[i] \in X}

LEMMA Middle ==
  ASSUME NEW S, NEW w \in Seq(S), NEW x \in S, NEW q \in Seq(S)
  PROVE  LET f == w \o (<<x>> \o q)
         IN  /\ f \in Seq(S) /\ Len(w) \in Nat /\ Len(q) \in Nat /\ Len(f) = Len(w) + 1 + Len(q)
             /\ DOMAIN f = 1..Len(f) /\ f[Len(w) + 1] = x
             /\ \A i \in 1..Len(w) : f[i] = w[i]
             /\ \A i \in 1..Len(q) : f[Len(w) + 1 + i] = q[i]
<1>. DEFINE o == <<x>> \o q
            f == w \o o
            n == 1
<1>1. o \in Seq(S) /\ o[n] = x /\ Len(q) \in Nat /\ Len(o) = n + Len(q) /\ \A i \in 1..Len(q) : o[n + i] = q[i]
  BY ConsFacts
<1>. HIDE DEF o
<1>2. /\ f \in Seq(S) /\ Len(w) \in Nat /\ Len(f) = Len(w) + Len(o)
      /\ \A i \in 1..Len(w) : f[i] = w[i]
      /\ \A i \in 1..Len(o) : f[Len(w) + i] = o[i]
  <2>. HIDE DEF n
  <2>. QED  BY <1>1, DropConcat
<1>. HIDE DEF f
<1>3. DOMAIN f = 1..Len(f)
  BY <1>2, LenProperties
<1>4. Len(f) = Len(w) + n + Len(q)
  BY <1>1, <1>2
<1>5. f[Len(w) + n] = x
  <2>1. n \in 1..Len(o)
    BY <1>1
  <2>. HIDE DEF n
  <2>. QED  BY <1>1, <1>2, <2>1
<1>6. ASSUME NEW i \in 1..Len(q) PROVE f[Len(w) + n + i] = q[i]
  <2>. DEFINE j == n + i
  <2>1. j \in 1..Len(o) /\ Len(w) + n + i = Len(w) + j
    BY <1>1, <1>2
  <2>2. o[j] = q[i]
    <3>. HIDE DEF n
    <3>. QED  BY <1>1
  <2>. HIDE DEF j
  <2>. QED  BY <1>2, <2>1, <2>2
<1>. QED  BY <1>1, <1>2, <1>3, <1>4, <1>5, <1>6 DEF f, o

LEMMA SplitNowhere ==
  ASSUME NEW S, NEW X, NEW s \in Seq(S \ X)
  PROVE  Pieces(s, CutsAt(s, X)) = <<s>>
<1>1. \A i \in 1..Len(s) : s[i] \in S \ X
  BY ElementOfSeq
<1>2. \A i \in 1..Len(s) : i \notin CutsAt(s, X)
  BY <1>1 DEF CutsAt
<1>. QED  BY <1>2, PiecesUncut

CutFirst(w, x, q, X) ==
  Pieces(w \o (<<x>> \o q), CutsAt(w \o (<<x>> \o q), X)) = <<w>> \o Pieces(q, CutsAt(q, X))

LEMMA SplitFirst ==
  ASSUME NEW S, NEW X, NEW w \in Seq(S \ X), NEW x \in S \cap X, NEW q \in Seq(S)
  PROVE  CutFirst(w, x, q, X)
<1>. DEFINE f == w \o (<<x>> \o q)
            cuts == CutsAt(f, X)
            more == CutsAt(q, X)
            n == Len(w) + 1
<1>1. w \in Seq(S) /\ \A i \in 1..Len(w) : w[i] \in S \ X
  <2>1. \A i \in 1..Len(w) : w[i] \in S \ X
    BY ElementOfSeq
  <2>. QED  BY <2>1, SeqOfSome
<1>2. /\ f \in Seq(S) /\ Len(w) \in Nat /\ Len(q) \in Nat /\ Len(f) = n + Len(q)
      /\ DOMAIN f = 1..Len(f) /\ f[n] = x
      /\ \A i \in 1..Len(w) : f[i] = w[i]
      /\ \A i \in 1..Len(q) : f[n + i] = q[i]
  BY <1>1, Middle
<1>3. DOMAIN q = 1..Len(q)
  BY LenProperties
<1>4. n \in 1..Len(f) /\ (\A i \in 1..Len(w) : i \in 1..Len(f)) /\ (\A i \in 1..Len(q) : n + i \in 1..Len(f))
  BY <1>2
<1>. HIDE DEF f
<1>5. n \in cuts
  <2>. HIDE DEF n
  <2>. QED  BY <1>2, <1>4 DEF CutsAt
<1>6. \A i \in 1..Len(w) : i \notin cuts
  <2>. HIDE DEF n
  <2>. QED  BY <1>1, <1>2 DEF CutsAt
<1>7. \A i \in 1..Len(q) : i \in more <=> n + i \in cuts
  <2>. HIDE DEF n
  <2>. QED  BY <1>2, <1>3, <1>4 DEF CutsAt
<1>. HIDE DEF cuts, more
<1>8. Pieces(w \o (<<x>> \o q), cuts) = Pieces(w, cuts) \o Pieces(q, more)
  <2>1. Follows(more, cuts, Len(w) + 1, q)
    BY <1>7 DEF Follows
  <2>2. Len(w) + 1 \in cuts /\ x \in S
    BY <1>5
  <2>. HIDE DEF n
  <2>3. Across(w, x, q, cuts, more)
    BY <1>1, <2>1, <2>2, PiecesAcross
  <2>. QED  BY <2>3 DEF Across
<1>9. Pieces(w, cuts) = <<w>>
  BY <1>1, <1>6, PiecesUncut
<1>. QED  BY <1>8, <1>9 DEF cuts, more, f, CutFirst

\* Up to its first element in X a sequence has none.
FirstIn(S, X, s) ==
  \/ s \in Seq(S \ X)
  \/ \E w \in Seq(S \ X), x \in S \cap X, q \in Seq(S) : s = w \o (<<x>> \o q)

LEMMA FirstSuch ==
  ASSUME NEW S, NEW X
  PROVE  \A s \in Seq(S) : FirstIn(S, X, s)
<1>. DEFINE Found(s) == \E w \in Seq(S \ X), x \in S \cap X, q \in Seq(S) : s = w \o (<<x>> \o q)
            T == {s \in Seq(S) : s \in Seq(S \ X) \/ Found(s)}
<1>1. << >> \in T
  OBVIOUS
<1>2. ASSUME NEW s \in Seq(S), NEW e \in S, s \in T PROVE <<e>> \o s \in T
  <2>. DEFINE o == <<e>>
              n == << >>
  <2>1. o \in Seq(S) /\ n \in Seq(S \ X) /\ (e \notin X => o \in Seq(S \ X))
    OBVIOUS
  <2>2. o \o s \in Seq(S)
    <3>. HIDE DEF o
    <3>. QED  BY <2>1, ConcatProperties
  <2>3. CASE e \in X
    <3>1. n \o (o \o s) = o \o s
      <4>. HIDE DEF o
      <4>. QED  BY <2>2, ConcatEmptySeq
    <3>. HIDE DEF n
    <3>2. Found(o \o s)
      BY <2>1, <2>3, <3>1
    <3>. QED  BY <2>2, <3>2
  <2>4. CASE e \notin X /\ s \in Seq(S \ X)
    <3>1. o \o s \in Seq(S \ X)
      <4>. HIDE DEF o
      <4>. QED  BY <2>1, <2>4, ConcatProperties
    <3>. QED  BY <2>2, <3>1
  <2>5. CASE e \notin X /\ Found(s)
    <3>1. PICK w \in Seq(S \ X), x \in S \cap X, q \in Seq(S) : s = w \o (<<x>> \o q)
      BY <2>5
    <3>. DEFINE r == <<x>> \o q
                v == o \o w
    <3>2. r \in Seq(S) /\ w \in Seq(S)
      <4>1. \A i \in 1..Len(w) : w[i] \in S
        BY ElementOfSeq
      <4>2. w \in Seq(S)
        BY <4>1, SeqOfSome
      <4>. QED  BY <4>2, ConsFacts
    <3>3. v \in Seq(S \ X)
      <4>. HIDE DEF o
      <4>. QED  BY <2>1, <2>5, ConcatProperties
    <3>4. o \o (w \o r) = v \o r
      <4>1. o \in Seq(S)
        BY <2>1
      <4>. HIDE DEF o, r, n, T
      <4>2. (o \o w) \o r = o \o (w \o r)
        <5>1. Associates(o, w, r)
          BY <3>2, <4>1, ConcatAssociates
        <5>. QED  BY <5>1 DEF Associates
      <4>. QED  BY <4>2 DEF v
    <3>. HIDE DEF v
    <3>5. Found(o \o s)
      BY <3>1, <3>3, <3>4
    <3>. QED  BY <2>2, <3>5
  <2>. QED  BY <1>2, <2>3, <2>4, <2>5
<1>. HIDE DEF T
<1>3. Seq(S) \subseteq T
  BY <1>1, <1>2, ConsInduction
<1>. QED  BY <1>3 DEF T, FirstIn

Kept(P) == FlattenSeq([i \in DOMAIN P |-> IF P[i] = << >> THEN << >> ELSE <<P[i]>>])
Single(x) == IF x = << >> THEN << >> ELSE <<x>>

LEMMA KeptIs ==
  ASSUME NEW S
  PROVE  /\ \A P \in Seq(Seq(S)) : Kept(P) \in Seq(Seq(S))
         /\ \A P, Q \in Seq(Seq(S)) : Kept(P \o Q) = Kept(P) \o Kept(Q)
         /\ \A x \in Seq(S) : Kept(<<x>>) = Single(x) /\ Single(x) \in Seq(Seq(S))
<1>. DEFINE X == Seq(S)
            f == [x \in X |-> Single(x)]
<1>1. \A x \in X : Single(x) \in Seq(X)
  BY DEF Single
<1>. HIDE DEF X
<1>2. Maps(f, X, Seq(X)) /\ \A x \in X : f[x] = Single(x)
  BY <1>1 DEF Maps
<1>3. ASSUME NEW P \in Seq(X) PROVE Kept(P) = FlattenSeq(Mapped(f, P)) /\ Mapped(f, P) \in Seq(Seq(X))
  <2>1. \A i \in DOMAIN P : P[i] \in X
    BY LenProperties, ElementOfSeq
  <2>2. [i \in DOMAIN P |-> IF P[i] = << >> THEN << >> ELSE <<P[i]>>] = [i \in DOMAIN P |-> f[P[i]]]
    BY <1>2, <2>1 DEF Single
  <2>. HIDE DEF f
  <2>3. Mapped(f, P) \in Seq(Seq(X))
    BY <1>2, MappedType
  <2>. QED  BY <2>2, <2>3 DEF Kept, Mapped
<1>. HIDE DEF f
<1>4. \A P \in Seq(X) : Kept(P) \in Seq(X)
  BY <1>3, FlattenType
<1>5. ASSUME NEW P \in Seq(X), NEW Q \in Seq(X) PROVE Kept(P \o Q) = Kept(P) \o Kept(Q)
  <2>. DEFINE a == Mapped(f, P)
              b == Mapped(f, Q)
              c == P \o Q
  <2>1. c \in Seq(X) /\ Mapped(f, c) = a \o b
    BY <1>2, ConcatProperties, MappedConcat
  <2>. HIDE DEF c
  <2>2. /\ Kept(c) = FlattenSeq(Mapped(f, c)) /\ Kept(P) = FlattenSeq(a) /\ Kept(Q) = FlattenSeq(b)
        /\ a \in Seq(Seq(X)) /\ b \in Seq(Seq(X))
    BY <1>3, <2>1
  <2>. HIDE DEF a, b
  <2>3. FlattenSeq(a \o b) = FlattenSeq(a) \o FlattenSeq(b)
    BY <2>2, FlattenConcat
  <2>. QED  BY <2>1, <2>2, <2>3 DEF c
<1>6. ASSUME NEW x \in X PROVE Kept(<<x>>) = Single(x) /\ Single(x) \in Seq(X)
  <2>. DEFINE t == f[x]
              o == <<x>>
  <2>1. o \in Seq(X) /\ Mapped(f, o) = <<t>>
    BY <1>2, MappedOne
  <2>2. t \in Seq(X) /\ t = Single(x)
    BY <1>1, <1>2
  <2>. HIDE DEF t, o
  <2>3. FlattenSeq(<<t>>) = t
    BY <2>2, FlattenOne
  <2>4. Kept(o) = FlattenSeq(Mapped(f, o))
    BY <1>3, <2>1
  <2>. QED  BY <2>1, <2>2, <2>3, <2>4 DEF o
<1>. QED  BY <1>4, <1>5, <1>6 DEF X

FlatAtoms == {a \in GlobAtoms : a.k # "choice"}
Slashes   == {a \in GlobAtoms : a.k = "slash"}
BadsEnd(f) == \A i \in 1..Len(f) : f[i].k = "bad" => i = Len(f) \/ f[i + 1] = Slash

WrittenText == [w \in Seq(SegAtoms) |-> Written(w)]
GoodSegs    == {w \in Seq(SegAtoms) : w # << >> /\ Ended(w)}

SplitOf(f)   == Kept(Pieces(f, CutsAt(f, Slashes)))
SplitText(t) == Kept(Pieces(t, CutsAt(t, {"/"})))
SplitAs(f)   == SplitOf(f) \in Seq(GoodSegs) /\ SplitText(Written(f)) = Mapped(WrittenText, SplitOf(f))

LEMMA FlatFacts ==
  /\ FlatAtoms \ Slashes = SegAtoms /\ SegAtoms \subseteq FlatAtoms
  /\ \A x \in FlatAtoms \cap Slashes : x = Slash /\ x.text = <<"/">>
  /\ Texted(FlatAtoms) /\ Maps(WrittenText, Seq(SegAtoms), Texts)
<1>1. FlatAtoms \ Slashes = SegAtoms /\ SegAtoms \subseteq FlatAtoms
  BY DEF FlatAtoms, Slashes, SegAtoms
<1>2. ASSUME NEW x \in FlatAtoms \cap Slashes PROVE x = Slash /\ x.text = <<"/">>
  <2>1. x \in GlobAtoms /\ x.k = "slash"
    BY DEF Slashes
  <2>2. \/ x \in {Star, Slash, Unfinished}
        \/ x.k = "one" /\ IsOne(x)
        \/ x.k = "bad" /\ IsOpen(x)
        \/ x.k = "choice" /\ IsChoice(x)
    BY <2>1, GlobAtomsAssumption
  <2>3. Star.k # "slash" /\ Unfinished.k # "slash"
    BY DEF Star, Unfinished, Bad
  <2>4. x = Slash
    BY <2>1, <2>2, <2>3
  <2>. QED  BY <2>4 DEF Slash
<1>3. Texted(FlatAtoms)
  BY GlobTexted DEF Texted, FlatAtoms
<1>4. \A w \in Seq(SegAtoms) : Written(w) \in Texts
  BY GlobTexted, WrittenIs
<1>5. Maps(WrittenText, Seq(SegAtoms), Texts)
  BY <1>4 DEF Maps, WrittenText
<1>. QED  BY <1>1, <1>2, <1>3, <1>5

\* No segment is written with a slash.
LEMMA SegmentSlashless ==
  ASSUME NEW w \in Seq(SegAtoms)
  PROVE  Written(w) \in Seq(Symbols \ {"/"}) /\ Written(w) \in Texts
<1>. DEFINE S == Symbols \ {"/"}
            T == Seq(S)
            X == {s \in Seq(SegAtoms) : Written(s) \in T}
<1>1. Closing(T)
  <2>1. T \subseteq Texts
    <3>. SUFFICES ASSUME NEW t \in T PROVE t \in Texts
      OBVIOUS
    <3>1. \A i \in 1..Len(t) : t[i] \in Symbols
      BY ElementOfSeq
    <3>. HIDE DEF S
    <3>2. t \in Seq(Symbols)
      BY <3>1, SeqOfSome
    <3>. QED  BY <3>2 DEF Texts
  <2>2. ASSUME NEW c \in Plain PROVE <<c>> \in T
    <3>1. c \in S
      BY DEF Plain, Special
    <3>. HIDE DEF S
    <3>. QED  BY <3>1
  <2>3. ASSUME NEW c \in Chars PROVE <<"\\", c>> \in T
    <3>. DEFINE b == "\\"
    <3>1. c \in S /\ b \in S
      BY CharSymbols, AlphabetAssumption
    <3>. HIDE DEF S, b
    <3>2. <<b, c>> \in T
      BY <3>1
    <3>. QED  BY <3>2 DEF b
  <2>4. \A s, t \in T : s \o t \in T
    <3>. HIDE DEF S
    <3>. QED  BY ConcatProperties
  <2>5. << >> \in T
    OBVIOUS
  <2>. HIDE DEF T
  <2>. QED  BY <2>1, <2>2, <2>3, <2>4, <2>5 DEF Closing
<1>2. ASSUME NEW a \in SegAtoms PROVE a.text \in T
  <2>1. CASE a = Unfinished
    <3>. DEFINE b == "\\"
    <3>1. b \in S /\ a.text = <<b>>
      BY <2>1, CharSymbols DEF Unfinished, Bad
    <3>. HIDE DEF S, b
    <3>. QED  BY <3>1
  <2>2. CASE a # Unfinished
    <3>. HIDE DEF T
    <3>. QED  BY <1>1, <2>2, AtomMade
  <2>. QED  BY <2>1, <2>2
<1>3. << >> \in X
  <2>1. Written(<< >>) = << >>
    BY GlobTexted, WrittenIs
  <2>2. << >> \in T
    OBVIOUS
  <2>3. << >> \in Seq(SegAtoms)
    OBVIOUS
  <2>. HIDE DEF T
  <2>. QED  BY <2>1, <2>2, <2>3
<1>4. ASSUME NEW s \in Seq(SegAtoms), NEW e \in SegAtoms, s \in X PROVE <<e>> \o s \in X
  <2>1. <<e>> \o s \in Seq(SegAtoms) /\ Written(<<e>> \o s) = e.text \o Written(s)
    BY GlobTexted, WrittenCons
  <2>2. e.text \in T /\ Written(s) \in T
    BY <1>2, <1>4
  <2>. HIDE DEF T
  <2>. QED  BY <1>1, <2>1, <2>2 DEF Closing
<1>. HIDE DEF X, T
<1>5. Seq(SegAtoms) \subseteq X
  BY <1>3, <1>4, ConsInduction
<1>6. Written(w) \in T
  BY <1>5 DEF X
<1>. QED  BY <1>1, <1>6 DEF T, Closing

LEMMA SingleSplit ==
  ASSUME NEW w \in Seq(SegAtoms), Ended(w)
  PROVE  Single(w) \in Seq(GoodSegs) /\ Single(Written(w)) = Mapped(WrittenText, Single(w))
<1>1. CASE w = << >>
  <2>1. Written(<< >>) = << >>
    BY GlobTexted, WrittenIs
  <2>2. Single(w) = << >> /\ Single(Written(w)) = << >>
    BY <1>1, <2>1 DEF Single
  <2>3. Mapped(WrittenText, << >>) = << >>
    BY DEF Mapped
  <2>. QED  BY <2>2, <2>3
<1>2. CASE w # << >>
  <2>1. Written(w) # << >>
    BY <1>2, SegmentBegins
  <2>2. Single(w) = <<w>> /\ Single(Written(w)) = <<Written(w)>>
    BY <1>2, <2>1 DEF Single
  <2>3. Mapped(WrittenText, <<w>>) = <<WrittenText[w]>> /\ WrittenText[w] = Written(w)
    BY FlatFacts, MappedOne DEF WrittenText
  <2>4. w \in GoodSegs
    BY <1>2 DEF GoodSegs
  <2>. QED  BY <2>2, <2>3, <2>4
<1>. QED  BY <1>1, <1>2

LEMMA SplitWhole ==
  ASSUME NEW w \in Seq(SegAtoms), Ended(w)
  PROVE  SplitAs(w)
<1>1. SplitOf(w) = Single(w)
  <2>1. w \in Seq(FlatAtoms \ Slashes)
    BY FlatFacts
  <2>2. Pieces(w, CutsAt(w, Slashes)) = <<w>>
    BY <2>1, SplitNowhere
  <2>3. Kept(<<w>>) = Single(w)
    BY KeptIs
  <2>. QED  BY <2>2, <2>3 DEF SplitOf
<1>. DEFINE t == Written(w)
<1>2. t \in Seq(Symbols \ {"/"}) /\ t \in Seq(Symbols)
  BY SegmentSlashless DEF Texts
<1>3. SplitText(t) = Single(t)
  <2>. HIDE DEF t
  <2>. DEFINE X == {"/"}
  <2>1. t \in Seq(Symbols \ X)
    BY <1>2
  <2>. HIDE DEF X
  <2>2. Pieces(t, CutsAt(t, X)) = <<t>>
    BY <2>1, SplitNowhere
  <2>3. Kept(<<t>>) = Single(t)
    BY <1>2, KeptIs
  <2>. QED  BY <2>2, <2>3 DEF SplitText, X
<1>. QED  BY <1>1, <1>3, SingleSplit DEF SplitAs

LEMMA SplitMore ==
  ASSUME NEW w \in Seq(SegAtoms), Ended(w), NEW x \in FlatAtoms \cap Slashes, NEW q \in Seq(FlatAtoms), SplitAs(q)
  PROVE  SplitAs(w \o (<<x>> \o q))
<1>. DEFINE f == w \o (<<x>> \o q)
            a == Single(w)
            b == SplitOf(q)
            t == Written(w)
            c == "/"
            u == Written(q)
<1>1. /\ a \in Seq(GoodSegs) /\ Single(t) = Mapped(WrittenText, a)
      /\ b \in Seq(GoodSegs) /\ SplitText(u) = Mapped(WrittenText, b)
  BY SingleSplit DEF SplitAs
<1>2. Seq(GoodSegs) \subseteq Seq(Seq(SegAtoms))
  <2>1. GoodSegs \subseteq Seq(SegAtoms)
    BY DEF GoodSegs
  <2>. QED  BY <2>1, SeqMonotonic
<1>3. SplitOf(f) = a \o b
  <2>. DEFINE Q == Pieces(q, CutsAt(q, Slashes))
  <2>1. w \in Seq(FlatAtoms \ Slashes) /\ w \in Seq(FlatAtoms)
    <3>1. Seq(SegAtoms) \subseteq Seq(FlatAtoms)
      BY FlatFacts, SeqMonotonic
    <3>. QED  BY <3>1, FlatFacts
  <2>2. Pieces(f, CutsAt(f, Slashes)) = <<w>> \o Q
    <3>1. CutFirst(w, x, q, Slashes)
      <4>. HIDE DEF f, Q
      <4>. QED  BY <2>1, SplitFirst
    <3>. QED  BY <3>1 DEF CutFirst
  <2>3. Q \in Seq(Seq(FlatAtoms))
    BY PiecesType DEF SomePieces
  <2>. DEFINE o == <<w>>
  <2>4. o \in Seq(Seq(FlatAtoms))
    BY <2>1
  <2>. HIDE DEF Q, o
  <2>5. Kept(o \o Q) = Kept(o) \o Kept(Q)
    BY <2>3, <2>4, KeptIs
  <2>6. Kept(o) = a
    BY <2>1, KeptIs DEF o
  <2>. QED  BY <2>2, <2>5, <2>6 DEF SplitOf, Q, o
<1>4. t \in Seq(Symbols \ {c}) /\ t \in Seq(Symbols) /\ u \in Seq(Symbols) /\ c \in Symbols
  BY SegmentSlashless, FlatFacts, WrittenIs, CharSymbols DEF Texts
<1>5. Written(f) = t \o (<<c>> \o u)
  <2>. DEFINE r == <<x>> \o q
  <2>1. r \in Seq(FlatAtoms) /\ Written(r) = x.text \o u
    <3>. HIDE DEF u
    <3>. QED  BY ZenonT(60), FlatFacts, WrittenCons DEF u
  <2>2. x.text = <<c>>
    BY FlatFacts
  <2>3. w \in Seq(FlatAtoms)
    <3>1. Seq(SegAtoms) \subseteq Seq(FlatAtoms)
      BY FlatFacts, SeqMonotonic
    <3>. QED  BY <3>1
  <2>. HIDE DEF r
  <2>4. Written(w \o r) = Written(w) \o Written(r)
    BY <2>1, <2>3, FlatFacts, WrittenIs
  <2>. QED  BY <2>1, <2>2, <2>4 DEF r
<1>6. SplitText(Written(f)) = Single(t) \o SplitText(u)
  <2>. DEFINE X == {c}
              o == <<t>>
              Q == Pieces(u, CutsAt(u, X))
              v == t \o (<<c>> \o u)
  <2>1. c \in Symbols \cap X /\ t \in Seq(Symbols \ X)
    BY <1>4
  <2>. HIDE DEF X, c, t, u
  <2>2. Pieces(v, CutsAt(v, X)) = <<t>> \o Q
    <3>1. CutFirst(t, c, u, X)
      <4>. HIDE DEF v, Q
      <4>. QED  BY <1>4, <2>1, SplitFirst
    <3>. QED  BY <3>1 DEF CutFirst
  <2>3. Q \in Seq(Seq(Symbols)) /\ o \in Seq(Seq(Symbols))
    BY <1>4, PiecesType DEF SomePieces
  <2>. HIDE DEF Q, o, v
  <2>4. Kept(o \o Q) = Kept(o) \o Kept(Q)
    BY <2>3, KeptIs
  <2>5. Kept(o) = Single(t)
    BY <1>4, KeptIs DEF o
  <2>. QED  BY <1>5, <2>2, <2>4, <2>5 DEF SplitText, Q, o, v, X, c
<1>7. Mapped(WrittenText, a \o b) = Mapped(WrittenText, a) \o Mapped(WrittenText, b)
  <2>. HIDE DEF a, b
  <2>1. a \in Seq(Seq(SegAtoms)) /\ b \in Seq(Seq(SegAtoms))
    BY <1>1, <1>2
  <2>. QED  BY <2>1, FlatFacts, MappedConcat
<1>8. a \o b \in Seq(GoodSegs)
  <2>. HIDE DEF a, b
  <2>. QED  BY <1>1, ConcatProperties
<1>. HIDE DEF f, a, b, t, u
<1>. QED  BY <1>1, <1>3, <1>6, <1>7, <1>8 DEF SplitAs, f

\* The segments of a text are what the segments of the pattern are written as.
LEMMA SplitsAs == \A f \in Seq(FlatAtoms) : BadsEnd(f) => SplitAs(f)
<1>. DEFINE D == Seq(FlatAtoms)
            size == [f \in D |-> Len(f)]
            T == {f \in D : BadsEnd(f) => SplitAs(f)}
<1>1. size \in [D -> Nat] /\ \A f \in D : size[f] = Len(f)
  BY LenProperties
<1>. HIDE DEF size
<1>2. ASSUME NEW f \in D, \A r \in D : size[r] < size[f] => r \in T PROVE f \in T
  <2>. SUFFICES ASSUME BadsEnd(f) PROVE SplitAs(f)
    OBVIOUS
  <2>1. \/ f \in Seq(FlatAtoms \ Slashes)
        \/ \E w \in Seq(FlatAtoms \ Slashes), x \in FlatAtoms \cap Slashes, q \in Seq(FlatAtoms) : f = w \o (<<x>> \o q)
    <3>1. FirstIn(FlatAtoms, Slashes, f)
      BY FirstSuch
    <3>. QED  BY <3>1 DEF FirstIn
  <2>2. CASE f \in Seq(FlatAtoms \ Slashes)
    <3>1. f \in Seq(SegAtoms) /\ \A i \in 1..Len(f) : f[i] \in SegAtoms
      BY <2>2, FlatFacts, ElementOfSeq
    <3>2. Ended(f)
      <4>. SUFFICES ASSUME NEW i \in 1..Len(f), f[i].k = "bad", i # Len(f) PROVE FALSE
        BY DEF Ended
      <4>1. f[i + 1] = Slash
        BY DEF BadsEnd
      <4>2. i + 1 \in 1..Len(f)
        BY <3>1, LenProperties
      <4>3. Slash \notin SegAtoms
        BY DEF Slash, SegAtoms
      <4>. QED  BY <3>1, <4>1, <4>2, <4>3
    <3>. QED  BY <3>1, <3>2, SplitWhole
  <2>3. ASSUME NEW w \in Seq(FlatAtoms \ Slashes), NEW x \in FlatAtoms \cap Slashes, NEW q \in Seq(FlatAtoms),
               f = w \o (<<x>> \o q)
        PROVE  SplitAs(f)
    <3>1. w \in Seq(SegAtoms) /\ w \in Seq(FlatAtoms) /\ \A i \in 1..Len(w) : w[i] \in SegAtoms
      <4>1. w \in Seq(SegAtoms)
        BY FlatFacts
      <4>2. Seq(SegAtoms) \subseteq Seq(FlatAtoms)
        BY FlatFacts, SeqMonotonic
      <4>. QED  BY <4>1, <4>2, ElementOfSeq
    <3>2. /\ Len(w) \in Nat /\ Len(q) \in Nat /\ Len(f) = Len(w) + 1 + Len(q)
          /\ \A i \in 1..Len(w) : f[i] = w[i]
          /\ \A i \in 1..Len(q) : f[Len(w) + 1 + i] = q[i]
      BY <2>3, <3>1, Middle
    <3>3. Ended(w)
      <4>. SUFFICES ASSUME NEW i \in 1..Len(w), w[i].k = "bad", i # Len(w) PROVE FALSE
        BY DEF Ended
      <4>1. i \in 1..Len(f) /\ i # Len(f) /\ i + 1 \in 1..Len(w)
        BY <3>2
      <4>2. f[i] = w[i] /\ f[i + 1] = w[i + 1]
        BY <3>2, <4>1
      <4>3. f[i + 1] = Slash
        BY <4>1, <4>2 DEF BadsEnd
      <4>4. Slash \notin SegAtoms
        BY DEF Slash, SegAtoms
      <4>. QED  BY <3>1, <4>1, <4>2, <4>3, <4>4
    <3>4. BadsEnd(q)
      <4>. SUFFICES ASSUME NEW i \in 1..Len(q), q[i].k = "bad", i # Len(q) PROVE q[i + 1] = Slash
        BY DEF BadsEnd
      <4>. DEFINE j == Len(w) + 1 + i
      <4>1. j \in 1..Len(f) /\ j # Len(f) /\ i + 1 \in 1..Len(q) /\ Len(w) + 1 + (i + 1) = j + 1
        BY <3>2
      <4>2. f[j] = q[i]
        BY <3>2
      <4>3. f[j + 1] = q[i + 1]
        <5>1. f[Len(w) + 1 + (i + 1)] = q[i + 1]
          BY <3>2, <4>1
        <5>. QED  BY <4>1, <5>1
      <4>. HIDE DEF j
      <4>. QED  BY <4>1, <4>2, <4>3 DEF BadsEnd
    <3>5. SplitAs(q)
      <4>1. size[q] < size[f]
        BY <1>1, <3>2
      <4>. QED  BY <1>2, <3>4, <4>1
    <3>6. SplitAs(w \o (<<x>> \o q))
      BY <3>1, <3>3, <3>5, SplitMore
    <3>. QED  BY <2>3, <3>6
  <2>. QED  BY <2>1, <2>2, <2>3
<1>. HIDE DEF T, D
<1>3. D \subseteq T
  BY <1>1, <1>2, SizeInduction
<1>. QED  BY <1>3 DEF T, D

\* The two ways Segments is used.
LEMMA SegmentsAre ==
  /\ \A p : splitSegments(p) = SplitText(p)
  /\ \A f \in Seq(FlatAtoms) : Segments(f, LAMBDA a : a.k = "slash") = SplitOf(f)
<1>1. ASSUME NEW p PROVE splitSegments(p) = SplitText(p)
  <2>1. {i \in DOMAIN p : p[i] = "/"} = CutsAt(p, {"/"})
    BY DEF CutsAt
  <2>. QED  BY <2>1 DEF splitSegments, Segments, SplitText, Kept
<1>2. ASSUME NEW f \in Seq(FlatAtoms) PROVE Segments(f, LAMBDA a : a.k = "slash") = SplitOf(f)
  <2>1. \A i \in DOMAIN f : f[i] \in GlobAtoms
    <3>1. \A i \in 1..Len(f) : f[i] \in FlatAtoms
      BY ElementOfSeq
    <3>. QED  BY <3>1, LenProperties DEF FlatAtoms
  <2>2. {i \in DOMAIN f : f[i].k = "slash"} = CutsAt(f, Slashes)
    BY <2>1 DEF CutsAt, Slashes
  <2>. QED  BY <2>2 DEF Segments, SplitOf, Kept
<1>. QED  BY <1>1, <1>2

-----------------------------------------------------------------------------
(* How deep in braces a text gets.                                         *)

States == [escape : BOOLEAN, depth : Nat]
At(d)  == [escape |-> FALSE, depth |-> d]
Esc1(d) == [escape |-> TRUE, depth |-> d]

LEMMA EnterIs ==
  ASSUME NEW s \in States, NEW c
  PROVE  /\ Enter(s, c) \in States
         /\ s.escape => Enter(s, c) = At(s.depth)
         /\ ~s.escape => s = At(s.depth)
         /\ ~s.escape /\ c = "\\" => Enter(s, c) = Esc1(s.depth)
         /\ ~s.escape /\ c = "{" => Enter(s, c) = At(s.depth + 1)
         /\ ~s.escape /\ c = "}" => Enter(s, c) = At(IF s.depth = 0 THEN 0 ELSE s.depth - 1)
         /\ ~s.escape /\ c \notin {"\\", "{", "}"} => Enter(s, c) = s
<1>1. s = [escape |-> s.escape, depth |-> s.depth] /\ s.depth \in Nat /\ s.escape \in BOOLEAN
  BY DEF States
<1>2. CASE s.escape
  <2>1. Enter(s, c) = [s EXCEPT !.escape = FALSE]
    BY <1>2 DEF Enter
  <2>2. Enter(s, c) = At(s.depth)
    BY <1>1, <2>1 DEF At
  <2>. QED  BY <1>1, <1>2, <2>2 DEF At, States
<1>3. CASE ~s.escape /\ c = "\\"
  <2>1. Enter(s, c) = [s EXCEPT !.escape = TRUE]
    BY <1>3 DEF Enter
  <2>2. Enter(s, c) = Esc1(s.depth) /\ s = At(s.depth)
    BY <1>1, <1>3, <2>1 DEF Esc1, At
  <2>3. Enter(s, c) \in States
    BY <1>1, <2>2 DEF Esc1, States
  <2>. QED  BY <1>1, <1>3, <2>2, <2>3
<1>4. CASE ~s.escape /\ c = "{"
  <2>1. Enter(s, c) = [s EXCEPT !.depth = @ + 1]
    BY <1>4 DEF Enter
  <2>2. Enter(s, c) = At(s.depth + 1) /\ s = At(s.depth)
    BY <1>1, <1>4, <2>1 DEF At
  <2>3. Enter(s, c) \in States
    BY <1>1, <2>2 DEF At, States
  <2>. QED  BY <1>1, <1>4, <2>2, <2>3
<1>5. CASE ~s.escape /\ c = "}"
  <2>. DEFINE d == IF s.depth = 0 THEN 0 ELSE s.depth - 1
  <2>1. Enter(s, c) = [s EXCEPT !.depth = d]
    BY <1>5 DEF Enter
  <2>2. d \in Nat
    BY <1>1
  <2>. HIDE DEF d
  <2>3. Enter(s, c) = At(d) /\ s = At(s.depth)
    BY <1>1, <1>5, <2>1 DEF At
  <2>4. Enter(s, c) \in States
    BY <2>2, <2>3 DEF At, States
  <2>5. Enter(s, c) = At(IF s.depth = 0 THEN 0 ELSE s.depth - 1)
    BY <2>3 DEF d
  <2>. QED  BY <1>1, <1>5, <2>3, <2>4, <2>5
<1>6. CASE ~s.escape /\ c \notin {"\\", "{", "}"}
  <2>1. Enter(s, c) = s /\ s = At(s.depth)
    BY <1>1, <1>6 DEF Enter, At
  <2>. QED  BY <1>1, <1>6, <2>1
<1>. QED  BY <1>2, <1>3, <1>4, <1>5, <1>6

Nests(g, r, p) ==
  g \in [0..Len(p) -> States] /\ \A i \in 0..Len(p) : g[i] = IF i = 0 THEN r ELSE Enter(g[i - 1], p[i])

LEMMA NestingExists ==
  ASSUME NEW r \in States, NEW p \in Texts
  PROVE  \E g : Nests(g, r, p)
<1>. DEFINE n == Len(p)
            step == [a \in States \X Nat |-> Enter(a[1], p[a[2]])]
            z == 0
<1>1. n \in Nat /\ z \in Nat
  BY LenProperties DEF Texts
<1>2. Maps(step, States \X Nat, States)
  <2>1. \A a \in States \X Nat : Enter(a[1], p[a[2]]) \in States
    <3>. SUFFICES ASSUME NEW a \in States \X Nat PROVE Enter(a[1], p[a[2]]) \in States
      OBVIOUS
    <3>. DEFINE s == a[1]
                c == p[a[2]]
    <3>1. s \in States
      OBVIOUS
    <3>. HIDE DEF s, c
    <3>2. Enter(s, c) \in States
      BY <3>1, EnterIs
    <3>. QED  BY <3>2 DEF s, c
  <2>. QED  BY <2>1 DEF Maps
<1>3. \A s \in States, i \in Nat : step[<<s, i>>] = Enter(s, p[i])
  OBVIOUS
<1>. HIDE DEF step, z
<1>4. PICK g : Iterates(g, z, n, r, step, States)
  <2>. HIDE DEF n
  <2>. QED  BY <1>1, <1>2, IterationExists
<1>5. ASSUME NEW i \in 0..n PROVE g[i] = IF i = 0 THEN r ELSE Enter(g[i - 1], p[i])
  <2>1. i \in z..n /\ i \in Nat /\ (i # 0 => i - 1 \in z..n)
    BY <1>1 DEF z
  <2>2. g[i] = IF i = z THEN r ELSE step[<<g[i - 1], i>>]
    BY <1>4, <2>1 DEF Iterates
  <2>3. i # 0 => g[i - 1] \in States
    BY <1>4, <2>1 DEF Iterates
  <2>. QED  BY <1>3, <2>1, <2>2, <2>3 DEF z
<1>6. g \in [0..n -> States]
  BY <1>4 DEF Iterates, z
<1>. QED  BY <1>5, <1>6 DEF Nests

LEMMA NestingIs ==
  ASSUME NEW r \in States, NEW p \in Texts
  PROVE  Nests(Nesting(r, p), r, p)
<1>. DEFINE F(g) == g = [i \in 0..Len(p) |-> IF i = 0 THEN r ELSE Enter(g[i - 1], p[i])]
            the  == CHOOSE g : F(g)
<1>1. PICK g : Nests(g, r, p)
  BY NestingExists
<1>2. F(g)
  <2>1. g = [i \in 0..Len(p) |-> g[i]]
    BY <1>1 DEF Nests
  <2>2. \A i \in 0..Len(p) : g[i] = IF i = 0 THEN r ELSE Enter(g[i - 1], p[i])
    BY <1>1 DEF Nests
  <2>3. [i \in 0..Len(p) |-> g[i]] = [i \in 0..Len(p) |-> IF i = 0 THEN r ELSE Enter(g[i - 1], p[i])]
    BY <2>2
  <2>. QED  BY <2>1, <2>3, Zenon
<1>3. Nesting(r, p) = the
  BY DEF Nesting
<1>4. F(the)
  <2>. HIDE DEF F
  <2>. QED  BY <1>2
<1>5. \A i \in 0..Len(p) : the[i] = IF i = 0 THEN r ELSE Enter(the[i - 1], p[i])
  BY <1>4, ZenonT(30)
<1>6. the = [i \in 0..Len(p) |-> the[i]]
  BY <1>4, ZenonT(30)
<1>. HIDE DEF the
<1>. DEFINE n == Len(p)
            z == 0
            T == {i \in z..n : the[i] \in States}
<1>7. n \in Nat /\ z \in Nat
  BY LenProperties DEF Texts
<1>8. z \in T
  BY <1>5, <1>7
<1>9. ASSUME NEW i \in z..n, i < n, i \in T PROVE i + 1 \in T
  <2>1. i + 1 \in z..n /\ i + 1 # 0 /\ (i + 1) - 1 = i /\ i + 1 \in 0..Len(p)
    BY <1>7, <1>9
  <2>. DEFINE j == i + 1
              s == the[i]
              c == p[j]
  <2>2. the[j] = Enter(s, c)
    BY <1>5, <2>1
  <2>3. s \in States
    BY <1>9
  <2>. HIDE DEF s, c
  <2>4. the[j] \in States
    BY <2>2, <2>3, EnterIs
  <2>. QED  BY <2>1, <2>4
<1>. HIDE DEF T, z, n
<1>10. z..n \subseteq T
  BY <1>7, <1>8, <1>9, RangeInduction
<1>11. \A i \in 0..Len(p) : the[i] \in States
  BY <1>10 DEF T, z, n
<1>12. the \in [0..Len(p) -> States]
  BY <1>6, <1>11
<1>. QED  BY <1>3, <1>5, <1>12 DEF Nests

PartOf(q, p, k) == k \in Nat /\ k + Len(q) <= Len(p) /\ \A i \in 1..Len(q) : q[i] = p[k + i]

\* Within a longer text the states are those of the part, from where it begins.
LEMMA NestingWithin ==
  ASSUME NEW p \in Texts, NEW r, NEW g, Nests(g, r, p),
         NEW q \in Texts, NEW m, NEW h, Nests(h, m, q),
         NEW k, PartOf(q, p, k), g[k] = m
  PROVE  \A i \in 0..Len(q) : g[k + i] = h[i]
<1>. DEFINE n == Len(q)
            z == 0
            T == {i \in z..n : g[k + i] = h[i]}
<1>0. k \in Nat /\ k + Len(q) <= Len(p) /\ \A i \in 1..Len(q) : q[i] = p[k + i]
  BY DEF PartOf
<1>1. n \in Nat /\ z \in Nat /\ Len(p) \in Nat
  BY LenProperties DEF Texts
<1>2. z \in T
  <2>1. h[0] = m /\ k + z = k
    BY <1>0, <1>1 DEF Nests
  <2>. QED  BY <1>1, <2>1
<1>3. ASSUME NEW i \in z..n, i < n, i \in T PROVE i + 1 \in T
  <2>. DEFINE j == i + 1
              l == k + j
  <2>1. /\ j \in 1..Len(q) /\ j \in 0..Len(q) /\ j # 0 /\ j - 1 = i
        /\ l \in 0..Len(p) /\ l # 0 /\ l - 1 = k + i /\ j \in z..n
    BY <1>0, <1>1, <1>3
  <2>. HIDE DEF j, l
  <2>2. g[l] = Enter(g[k + i], p[l])
    BY <2>1 DEF Nests
  <2>3. h[j] = Enter(h[i], q[j])
    BY <2>1 DEF Nests
  <2>4. q[j] = p[l]
    BY <1>0, <2>1 DEF l
  <2>5. g[k + i] = h[i]
    BY <1>3
  <2>6. g[l] = h[j]
    BY <2>2, <2>3, <2>4, <2>5
  <2>. QED  BY <2>1, <2>6 DEF l, j
<1>. HIDE DEF T, z, n
<1>4. z..n \subseteq T
  BY <1>1, <1>2, <1>3, RangeInduction
<1>. QED  BY <1>4 DEF T, z, n

Carries(r, u, v) ==
  LET g == Nesting(r, u \o v)
      m == Nesting(r, u)[Len(u)]
  IN  /\ m \in States
      /\ \A i \in 0..Len(u) : g[i] = Nesting(r, u)[i]
      /\ \A i \in 0..Len(v) : g[Len(u) + i] = Nesting(m, v)[i]

LEMMA NestingConcat ==
  ASSUME NEW r \in States, NEW u \in Texts, NEW v \in Texts
  PROVE  Carries(r, u, v)
<1>. DEFINE p == u \o v
            g == Nesting(r, p)
            h == Nesting(r, u)
            m == h[Len(u)]
            f == Nesting(m, v)
            z == 0
            k == Len(u)
<1>1. /\ p \in Texts /\ Len(u) \in Nat /\ Len(v) \in Nat /\ Len(p) = Len(u) + Len(v)
      /\ \A i \in 1..Len(u) : p[i] = u[i]
      /\ \A i \in 1..Len(v) : p[Len(u) + i] = v[i]
  BY DropConcat DEF Texts
<1>. HIDE DEF p
<1>2. Nests(g, r, p) /\ Nests(h, r, u)
  BY <1>1, NestingIs
<1>. HIDE DEF g, h
<1>3. m \in States
  BY <1>1, <1>2 DEF Nests
<1>. HIDE DEF m
<1>4. Nests(f, m, v)
  BY <1>3, NestingIs
<1>. HIDE DEF f
<1>5. \A i \in 0..Len(u) : g[i] = h[i]
  <2>1. /\ PartOf(u, p, z) /\ g[z] = r
        /\ \A i \in 0..Len(u) : z + i = i
    BY <1>1, <1>2 DEF Nests, PartOf
  <2>. HIDE DEF z
  <2>2. \A i \in 0..Len(u) : g[z + i] = h[i]
    BY <1>1, <1>2, <2>1, NestingWithin
  <2>. QED  BY <2>1, <2>2
<1>6. g[k] = m /\ PartOf(v, p, k)
  BY <1>1, <1>5 DEF m, PartOf
<1>. HIDE DEF k
<1>7. \A i \in 0..Len(v) : g[k + i] = f[i]
  <2>1. p \in Texts /\ Nests(g, r, p)
    BY <1>1, <1>2
  <2>. QED  BY <1>4, <1>6, <2>1, NestingWithin
<1>. QED  BY <1>3, <1>5, <1>7 DEF Carries, g, h, p, m, f, k

Run(r, t, q, A) ==
  LET s == Nesting(r, t)
  IN  /\ r \in States /\ s[Len(t)] = q
      /\ \A i \in 1..Len(t) : <<t[i], s[i - 1], s[i]>> \in A

LEMMA RunConcat ==
  ASSUME NEW u \in Texts, NEW v \in Texts, NEW r, NEW m, NEW q, NEW A, Run(r, u, m, A), Run(m, v, q, A)
  PROVE  Run(r, u \o v, q, A)
<1>. DEFINE p == u \o v
            g == Nesting(r, p)
            h == Nesting(r, u)
            f == Nesting(m, v)
<1>1. /\ p \in Texts /\ Len(u) \in Nat /\ Len(v) \in Nat /\ Len(p) = Len(u) + Len(v)
      /\ \A i \in 1..Len(u) : p[i] = u[i]
      /\ \A i \in 1..Len(v) : p[Len(u) + i] = v[i]
  BY DropConcat DEF Texts
<1>2. /\ r \in States /\ m \in States /\ h[Len(u)] = m /\ f[Len(v)] = q
      /\ \A i \in 1..Len(u) : <<u[i], h[i - 1], h[i]>> \in A
      /\ \A i \in 1..Len(v) : <<v[i], f[i - 1], f[i]>> \in A
  BY DEF Run
<1>3. /\ \A i \in 0..Len(u) : g[i] = h[i]
      /\ \A i \in 0..Len(v) : g[Len(u) + i] = f[i]
  <2>1. Carries(r, u, v)
    BY <1>2, NestingConcat
  <2>. QED  BY <1>2, <2>1 DEF Carries
<1>. HIDE DEF p, g, h, f
<1>4. g[Len(p)] = q
  <2>1. Len(v) \in 0..Len(v)
    BY <1>1
  <2>. QED  BY <1>1, <1>2, <1>3, <2>1
<1>5. ASSUME NEW i \in 1..Len(p) PROVE <<p[i], g[i - 1], g[i]>> \in A
  <2>1. CASE i <= Len(u)
    <3>1. i \in 1..Len(u) /\ i \in 0..Len(u) /\ i - 1 \in 0..Len(u)
      BY <1>1, <2>1
    <3>2. p[i] = u[i] /\ g[i] = h[i] /\ g[i - 1] = h[i - 1]
      BY <1>1, <1>3, <3>1
    <3>. QED  BY <1>2, <3>1, <3>2
  <2>2. CASE ~(i <= Len(u))
    <3>. DEFINE j == i - Len(u)
    <3>1. j \in 1..Len(v) /\ j \in 0..Len(v) /\ j - 1 \in 0..Len(v) /\ i = Len(u) + j /\ i - 1 = Len(u) + (j - 1)
      BY <1>1, <2>2
    <3>. HIDE DEF j
    <3>2. p[i] = v[j] /\ g[i] = f[j] /\ g[i - 1] = f[j - 1]
      BY <1>1, <1>3, <3>1
    <3>. QED  BY <1>2, <3>1, <3>2
  <2>. QED  BY <2>1, <2>2
<1>. QED  BY <1>2, <1>4, <1>5 DEF Run, p, g

\* What a run goes through on its way.
LEMMA RunBegins ==
  ASSUME NEW u \in Texts, NEW v \in Texts, NEW r, NEW q, NEW A, Run(r, u \o v, q, A)
  PROVE  \E m \in States : Run(r, u, m, A)
<1>. DEFINE p == u \o v
            g == Nesting(r, p)
            h == Nesting(r, u)
            m == h[Len(u)]
<1>1. /\ p \in Texts /\ Len(u) \in Nat /\ Len(v) \in Nat /\ Len(p) = Len(u) + Len(v)
      /\ \A i \in 1..Len(u) : p[i] = u[i]
  BY DropConcat DEF Texts
<1>2. r \in States /\ \A i \in 1..Len(p) : <<p[i], g[i - 1], g[i]>> \in A
  BY DEF Run
<1>3. m \in States /\ \A i \in 0..Len(u) : g[i] = h[i]
  <2>1. Carries(r, u, v)
    BY <1>2, NestingConcat
  <2>. QED  BY <2>1 DEF Carries
<1>. HIDE DEF p, g, h
<1>4. ASSUME NEW i \in 1..Len(u) PROVE <<u[i], h[i - 1], h[i]>> \in A
  <2>1. i \in 1..Len(p) /\ i \in 0..Len(u) /\ i - 1 \in 0..Len(u)
    BY <1>1
  <2>2. p[i] = u[i] /\ g[i] = h[i] /\ g[i - 1] = h[i - 1]
    BY <1>1, <1>3, <2>1
  <2>. QED  BY <1>2, <2>1, <2>2
<1>5. Run(r, u, m, A)
  BY <1>2, <1>4 DEF Run, h
<1>. QED  BY <1>3, <1>5

LEMMA RunNone ==
  ASSUME NEW r \in States, NEW A
  PROVE  Run(r, << >>, r, A)
<1>. DEFINE n == << >>
<1>1. n \in Texts /\ Len(n) = 0
  BY DEF Texts
<1>. HIDE DEF n
<1>2. Nests(Nesting(r, n), r, n)
  BY <1>1, NestingIs
<1>3. Nesting(r, n)[Len(n)] = r /\ 1..Len(n) = {}
  BY <1>1, <1>2 DEF Nests
<1>4. Run(r, n, r, A)
  BY <1>3 DEF Run
<1>. QED  BY <1>4 DEF n

LEMMA RunOne ==
  ASSUME NEW r \in States, NEW c \in Symbols, NEW A, <<c, r, Enter(r, c)>> \in A
  PROVE  Run(r, <<c>>, Enter(r, c), A)
<1>. DEFINE o == <<c>>
            g == Nesting(r, o)
            n == 1
<1>1. o \in Texts /\ Len(o) = n /\ o[n] = c
  BY BasicTexts
<1>. HIDE DEF o
<1>2. Nests(g, r, o)
  BY <1>1, NestingIs
<1>3. g[0] = r /\ g[n] = Enter(r, c) /\ \A i \in 1..n : i = n /\ i - 1 = 0
  <2>1. 0 \in 0..Len(o) /\ n \in 0..Len(o) /\ n # 0 /\ n - 1 = 0
    BY <1>1
  <2>. HIDE DEF g, n
  <2>2. g[0] = r
    BY <1>2, <2>1 DEF Nests
  <2>3. g[n] = Enter(g[n - 1], o[n])
    BY <1>2, <2>1 DEF Nests
  <2>4. \A i \in 1..n : i = n /\ i - 1 = 0
    BY DEF n
  <2>. QED  BY <1>1, <2>1, <2>2, <2>3, <2>4
<1>. HIDE DEF g, n
<1>4. \A i \in 1..Len(o) : <<o[i], g[i - 1], g[i]>> \in A
  BY <1>1, <1>3
<1>. QED  BY <1>1, <1>3, <1>4 DEF Run, g, o

LEMMA RunMore ==
  ASSUME NEW r, NEW t, NEW q, NEW A, NEW B, A \subseteq B, Run(r, t, q, A)
  PROVE  Run(r, t, q, B)
BY DEF Run

-----------------------------------------------------------------------------
(* Texts that leave the depth as it was.                                   *)

\* Steps that stay at a depth, that do not go below it, and those of them
\* where every comma of that depth is quoted.
Steps     == Symbols \X States \X States
CalmAt(d) == {w \in Steps : w[3].depth = d /\ (w[1] \in {"{", ","} => w[2].escape)}
RingAt(d) == {w \in Steps : w[3].depth >= d}
SealAt(d) == {w \in Steps : w[3].depth >= d /\ (w[1] = "," /\ ~w[2].escape => w[3].depth > d)}

Neutral(t) == \A d \in Nat : Run(At(d), t, At(d), CalmAt(d))
Ringed(t)  == \A d \in Nat : Run(At(d), t, At(d), RingAt(d))
Sealed(t)  == \A d \in Nat : Run(At(d), t, At(d), SealAt(d))

LEMMA AtStates == \A d \in Nat : At(d) \in States /\ Esc1(d) \in States /\ At(d).depth = d /\ ~At(d).escape
                                 /\ Esc1(d).escape /\ Esc1(d).depth = d
BY DEF At, Esc1, States

LEMMA StepSets ==
  \A d \in Nat : CalmAt(d) \subseteq SealAt(d) /\ SealAt(d) \subseteq RingAt(d) /\ RingAt(d + 1) \subseteq SealAt(d)
<1>. SUFFICES ASSUME NEW d \in Nat
              PROVE  CalmAt(d) \subseteq SealAt(d) /\ SealAt(d) \subseteq RingAt(d) /\ RingAt(d + 1) \subseteq SealAt(d)
  OBVIOUS
<1>1. ASSUME NEW w \in Steps PROVE w[3].depth \in Nat
  BY DEF Steps, States
<1>2. ASSUME NEW w \in CalmAt(d) PROVE w \in SealAt(d)
  <2>1. w \in Steps /\ w[3].depth = d /\ (w[1] = "," => w[2].escape)
    BY DEF CalmAt
  <2>. DEFINE x == w[3].depth
  <2>2. x = d
    BY <2>1
  <2>. HIDE DEF x
  <2>3. x >= d
    BY <2>2
  <2>. QED  BY <2>1, <2>3 DEF SealAt, x
<1>3. SealAt(d) \subseteq RingAt(d)
  BY DEF SealAt, RingAt
<1>4. ASSUME NEW w \in RingAt(d + 1) PROVE w \in SealAt(d)
  <2>1. w \in Steps /\ w[3].depth >= d + 1
    BY DEF RingAt
  <2>2. w[3].depth >= d /\ w[3].depth > d
    BY <1>1, <2>1
  <2>. QED  BY <2>1, <2>2 DEF SealAt
<1>. QED  BY <1>2, <1>3, <1>4

LEMMA NeutralSealed == \A t : (Neutral(t) => Sealed(t)) /\ (Sealed(t) => Ringed(t))
BY StepSets, RunMore DEF Neutral, Sealed, Ringed

LEMMA NeutralClosing == Closing({t \in Texts : Neutral(t)})
<1>. DEFINE T == {t \in Texts : Neutral(t)}
<1>1. << >> \in T
  <2>1. Neutral(<< >>)
    BY AtStates, RunNone DEF Neutral
  <2>. QED  BY <2>1, BasicTexts
<1>2. ASSUME NEW c \in Plain PROVE <<c>> \in T
  <2>1. ASSUME NEW d \in Nat PROVE Run(At(d), <<c>>, At(d), CalmAt(d))
    <3>. DEFINE r == At(d)
    <3>1. r \in States /\ ~r.escape /\ r.depth = d
      BY AtStates
    <3>. HIDE DEF r
    <3>2. c \in Symbols /\ c \notin {"\\", "{", "}", ","}
      BY DEF Plain, Special
    <3>3. Enter(r, c) = r
      BY <3>1, <3>2, EnterIs
    <3>4. <<c, r, r>> \in CalmAt(d)
      BY <3>1, <3>2 DEF CalmAt, Steps
    <3>5. Run(r, <<c>>, Enter(r, c), CalmAt(d))
      BY <3>1, <3>2, <3>3, <3>4, RunOne
    <3>. QED  BY <3>3, <3>5 DEF r
  <2>2. c \in Symbols
    BY DEF Plain
  <2>. QED  BY <2>1, <2>2, BasicTexts DEF Neutral
<1>3. ASSUME NEW c \in Chars PROVE <<"\\", c>> \in T
  <2>. DEFINE b == "\\"
  <2>1. c \in Symbols /\ b \in Symbols /\ <<b>> \in Texts /\ <<c>> \in Texts /\ <<b, c>> \in Texts
    BY CharsAreSymbols, SymbolsHas, BasicTexts
  <2>2. <<b>> \o <<c>> = <<b, c>>
    <3>. HIDE DEF b
    <3>. QED  BY <2>1, TwoJoined
  <2>3. ASSUME NEW d \in Nat PROVE Run(At(d), <<b>> \o <<c>>, At(d), CalmAt(d))
    <3>. DEFINE r == At(d)
                e == Esc1(d)
    <3>1. r \in States /\ ~r.escape /\ r.depth = d /\ e \in States /\ e.escape /\ e.depth = d
      BY AtStates
    <3>2. Enter(r, b) = e /\ Enter(e, c) = r
      <4>1. Enter(r, b) = Esc1(r.depth) /\ Enter(e, c) = At(e.depth)
        <5>. HIDE DEF r, e
        <5>. QED  BY <3>1, EnterIs
      <4>. QED  BY <3>1, <4>1
    <3>. HIDE DEF r, e
    <3>3. <<b, r, e>> \in CalmAt(d) /\ <<c, e, r>> \in CalmAt(d)
      BY <2>1, <3>1 DEF CalmAt, Steps
    <3>. HIDE DEF b
    <3>4. Run(r, <<b>>, Enter(r, b), CalmAt(d)) /\ Run(e, <<c>>, Enter(e, c), CalmAt(d))
      BY <2>1, <3>1, <3>2, <3>3, RunOne
    <3>. DEFINE s == <<b>>
                t == <<c>>
    <3>5. s \in Texts /\ t \in Texts /\ Run(r, s, e, CalmAt(d)) /\ Run(e, t, r, CalmAt(d))
      BY <2>1, <3>2, <3>4
    <3>. HIDE DEF s, t
    <3>6. Run(r, s \o t, r, CalmAt(d))
      BY <3>5, RunConcat
    <3>. QED  BY <3>6 DEF r, s, t
  <2>. HIDE DEF b
  <2>4. Neutral(<<b, c>>)
    BY <2>2, <2>3 DEF Neutral
  <2>. QED  BY <2>1, <2>4 DEF b
<1>4. ASSUME NEW s \in T, NEW t \in T PROVE s \o t \in T
  <2>1. s \o t \in Texts
    BY ConcatProperties DEF Texts
  <2>2. ASSUME NEW d \in Nat PROVE Run(At(d), s \o t, At(d), CalmAt(d))
    BY RunConcat DEF Neutral
  <2>. QED  BY <2>1, <2>2 DEF Neutral
<1>5. T \subseteq Texts
  OBVIOUS
<1>. HIDE DEF T
<1>6. Closing(T)
  BY <1>1, <1>2, <1>3, <1>4, <1>5 DEF Closing
<1>. QED  BY <1>6 DEF T

-----------------------------------------------------------------------------
(* A pattern without choices opens no group.                               *)

\* Every backslash with nothing after it is followed by a slash.
Calm(f) == \A i \in 1..Len(f) : f[i] = Unfinished => i # Len(f) /\ f[i + 1] = Slash

SlashAtoms == SegAtoms \cup {Slash}
Quotes(f) == (f # << >> /\ f[1] = Slash) => Neutral(<<"\\">> \o Written(f))

LEMMA SlashTexted == Texted(SlashAtoms) /\ Slash.text = <<"/">>
<1>1. Slash.text = <<"/">>
  BY DEF Slash
<1>2. <<"/">> \in Texts
  <2>. DEFINE c == "/"
  <2>1. c \in Symbols
    BY SymbolsHas
  <2>. HIDE DEF c
  <2>2. <<c>> \in Texts
    BY <2>1, BasicTexts
  <2>. QED  BY <2>2 DEF c
<1>. QED  BY <1>1, <1>2, GlobTexted DEF Texted, SlashAtoms

LEMMA NeutralConcat == \A s, t \in Texts : Neutral(s) /\ Neutral(t) => Neutral(s \o t) /\ s \o t \in Texts
BY NeutralClosing DEF Closing

LEMMA SlashNeutral == Neutral(<<"/">>) /\ Neutral(<<"\\">> \o <<"/">>) /\ <<"\\">> \in Texts /\ <<"/">> \in Texts
<1>. DEFINE c == "/"
            b == "\\"
<1>1. c \in Symbols /\ b \in Symbols
  BY SymbolsHas
<1>. DEFINE s == <<b>>
            t == <<c>>
<1>2. s \in Texts /\ t \in Texts
  <2>. HIDE DEF b, c
  <2>. QED  BY <1>1, BasicTexts
<1>3. ASSUME NEW d \in Nat PROVE Run(At(d), t, At(d), CalmAt(d)) /\ Run(At(d), s \o t, At(d), CalmAt(d))
  <2>. DEFINE r == At(d)
              e == Esc1(d)
  <2>1. r \in States /\ ~r.escape /\ r.depth = d /\ e \in States /\ e.escape /\ e.depth = d
    BY AtStates
  <2>2. Enter(r, b) = e /\ Enter(e, c) = r /\ Enter(r, c) = r
    <3>1. Enter(r, b) = Esc1(r.depth) /\ Enter(e, c) = At(e.depth) /\ Enter(r, c) = r
      <4>. HIDE DEF r, e
      <4>. QED  BY <2>1, EnterIs
    <3>. QED  BY <2>1, <3>1
  <2>. HIDE DEF r, e
  <2>3. <<b, r, e>> \in CalmAt(d) /\ <<c, e, r>> \in CalmAt(d) /\ <<c, r, r>> \in CalmAt(d)
    BY <1>1, <2>1 DEF CalmAt, Steps
  <2>. HIDE DEF b, c
  <2>4. /\ Run(r, <<b>>, Enter(r, b), CalmAt(d)) /\ Run(e, <<c>>, Enter(e, c), CalmAt(d))
        /\ Run(r, <<c>>, Enter(r, c), CalmAt(d))
    BY <1>1, <2>1, <2>2, <2>3, RunOne
  <2>5. Run(r, s, e, CalmAt(d)) /\ Run(e, t, r, CalmAt(d)) /\ Run(r, t, r, CalmAt(d))
    BY <2>2, <2>4
  <2>. HIDE DEF s, t
  <2>6. Run(r, s \o t, r, CalmAt(d))
    BY <1>2, <2>5, RunConcat
  <2>. QED  BY <2>5, <2>6 DEF r
<1>. QED  BY <1>2, <1>3 DEF Neutral

LEMMA CalmNeutral == \A f \in Seq(SlashAtoms) : Calm(f) => Neutral(Written(f))
<1>. DEFINE T == {f \in Seq(SlashAtoms) : Calm(f) => Neutral(Written(f)) /\ Quotes(f)}
<1>1. << >> \in T
  <2>1. Written(<< >>) = << >>
    BY SlashTexted, WrittenIs
  <2>2. Neutral(<< >>)
    BY NeutralClosing DEF Closing
  <2>. QED  BY <2>1, <2>2 DEF Quotes
<1>2. ASSUME NEW s \in Seq(SlashAtoms), NEW e \in SlashAtoms, s \in T PROVE <<e>> \o s \in T
  <2>. DEFINE f == <<e>> \o s
              n == 1
              w == Written(s)
              t == e.text
              b == <<"\\">>
              c == <<"/">>
  <2>1. f \in Seq(SlashAtoms) /\ Written(f) = t \o w /\ t \in Texts /\ w \in Texts
    BY SlashTexted, WrittenCons
  <2>2. /\ f[n] = e /\ Len(s) \in Nat /\ Len(f) = n + Len(s) /\ \A i \in 1..Len(s) : f[n + i] = s[i]
        /\ s # << >> <=> Len(s) # 0
    BY ConsFacts, EmptySeq
  <2>. HIDE DEF f, w, t
  <2>3. ASSUME Calm(f) PROVE Neutral(Written(f)) /\ Quotes(f)
    <3>1. Calm(s)
      <4>. SUFFICES ASSUME NEW i \in 1..Len(s), s[i] = Unfinished PROVE i # Len(s) /\ s[i + 1] = Slash
        BY DEF Calm
      <4>. DEFINE j == n + i
      <4>1. j \in 1..Len(f) /\ (j = Len(f) <=> i = Len(s)) /\ j + 1 = n + (i + 1) /\ (i # Len(s) => i + 1 \in 1..Len(s))
        BY <2>2
      <4>2. f[j] = Unfinished
        BY <2>2
      <4>. HIDE DEF j, n
      <4>3. j # Len(f) /\ f[j + 1] = Slash
        BY <2>3, <4>1, <4>2 DEF Calm
      <4>. QED  BY <2>2, <4>1, <4>3
    <3>2. Neutral(w) /\ Quotes(s)
      BY <1>2, <3>1 DEF w
    <3>3. CASE e = Unfinished
      <4>1. s # << >> /\ s[n] = Slash
        <5>1. n \in 1..Len(f) /\ f[n] = Unfinished
          BY <2>2, <3>3
        <5>2. n # Len(f) /\ f[n + 1] = Slash
          <6>. HIDE DEF n
          <6>. QED  BY <2>3, <5>1 DEF Calm
        <5>3. n \in 1..Len(s) /\ Len(s) # 0 /\ f[n + n] = Slash
          BY <2>2, <5>2
        <5>. HIDE DEF n
        <5>. QED  BY <2>2, <5>3
      <4>2. Neutral(b \o w)
        BY <3>2, <4>1 DEF Quotes, w
      <4>3. t = b /\ Unfinished # Slash
        BY <3>3 DEF t, Unfinished, Bad, Slash
      <4>4. ~(f[1] = Slash)
        BY <2>2, <3>3, <4>3
      <4>. QED  BY <2>1, <4>2, <4>3, <4>4 DEF Quotes
    <3>4. CASE e = Slash
      <4>1. t = c /\ Neutral(c) /\ Neutral(b \o c) /\ b \in Texts /\ c \in Texts
        BY <3>4, SlashTexted, SlashNeutral DEF t
      <4>. HIDE DEF b, c
      <4>2. Neutral(c \o w)
        BY <2>1, <3>2, <4>1, NeutralConcat
      <4>3. b \o c \in Texts /\ (b \o c) \o w = b \o (c \o w)
        <5>1. JoinsText(b, c) /\ Associates(b, c, w)
          BY <2>1, <4>1, TextsAssociates
        <5>. QED  BY <5>1 DEF Associates, JoinsText
      <4>. DEFINE bc == b \o c
      <4>4. bc \in Texts /\ Neutral(bc)
        BY <4>1, <4>3
      <4>. HIDE DEF bc
      <4>5. Neutral(bc \o w)
        BY <2>1, <3>2, <4>4, NeutralConcat
      <4>6. Neutral(b \o Written(f))
        BY <2>1, <4>1, <4>3, <4>5 DEF bc
      <4>. QED  BY <2>1, <4>1, <4>2, <4>6 DEF Quotes, b
    <3>5. CASE e \notin {Unfinished, Slash}
      <4>1. e \in SegAtoms /\ e # Unfinished
        BY <3>5 DEF SlashAtoms
      <4>2. t \in {x \in Texts : Neutral(x)}
        <5>. DEFINE X == {x \in Texts : Neutral(x)}
        <5>1. Closing(X)
          BY NeutralClosing
        <5>. HIDE DEF X
        <5>2. t \in X
          BY <4>1, <5>1, AtomMade DEF t
        <5>. QED  BY <5>2 DEF X
      <4>3. Neutral(t \o w)
        BY <2>1, <3>2, <4>2, NeutralConcat
      <4>. QED  BY <2>1, <2>2, <3>5, <4>3 DEF Quotes
    <3>. QED  BY <3>3, <3>4, <3>5
  <2>. QED  BY <2>1, <2>3 DEF f
<1>. HIDE DEF T
<1>3. Seq(SlashAtoms) \subseteq T
  BY <1>1, <1>2, ConsInduction
<1>. QED  BY <1>3 DEF T

\* A backslash with nothing after it ends its segment.
Tidy(g) == \A i \in 1..Len(g) : g[i] = Unfinished => i = Len(g) \/ g[i + 1] = Slash

LEMMA FlatRuns ==
  ASSUME NEW f \in Seq(FlatAtoms), Tidy(f)
  PROVE  \E m \in States : Run(At(0), Written(f), m, CalmAt(0))
<1>. DEFINE o == <<Slash>>
            g == f \o o
            u == Written(f)
            v == Written(o)
            z == 0
<1>1. f \in Seq(SlashAtoms) /\ o \in Seq(SlashAtoms)
  <2>1. FlatAtoms \subseteq SlashAtoms
    BY FlatFacts DEF SlashAtoms
  <2>2. Slash \in SlashAtoms
    BY DEF SlashAtoms
  <2>3. f \in Seq(SlashAtoms)
    BY <2>1, SeqMonotonic
  <2>. QED  BY <2>2, <2>3
<1>2. /\ Len(f) \in Nat /\ Len(g) = Len(f) + 1 /\ g[Len(f) + 1] = Slash /\ g \in Seq(SlashAtoms)
      /\ \A i \in 1..Len(f) : g[i] = f[i]
  <2>. DEFINE n == 1
  <2>1. Len(o) = n /\ o[n] = Slash /\ n \in 1..Len(o)
    OBVIOUS
  <2>. HIDE DEF o
  <2>2. /\ f \o o \in Seq(SlashAtoms) /\ Len(f) \in Nat /\ Len(f \o o) = Len(f) + Len(o)
        /\ \A i \in 1..Len(f) : (f \o o)[i] = f[i]
        /\ \A i \in 1..Len(o) : (f \o o)[Len(f) + i] = o[i]
    BY <1>1, DropConcat
  <2>. QED  BY <2>1, <2>2
<1>3. Written(g) = u \o v /\ u \in Texts /\ v \in Texts
  <2>. HIDE DEF o
  <2>. QED  BY <1>1, SlashTexted, WrittenIs
<1>. HIDE DEF g, o, u, v
<1>4. Calm(g)
  <2>. SUFFICES ASSUME NEW i \in 1..Len(g), g[i] = Unfinished PROVE i # Len(g) /\ g[i + 1] = Slash
    BY DEF Calm
  <2>1. Slash # Unfinished
    BY DEF Slash, Unfinished, Bad
  <2>2. i \in 1..Len(f)
    BY <1>2, <2>1
  <2>3. f[i] = Unfinished
    BY <1>2, <2>2
  <2>4. i = Len(f) \/ f[i + 1] = Slash
    BY <2>2, <2>3 DEF Tidy
  <2>5. i # Len(f) => i + 1 \in 1..Len(f)
    BY <1>2, <2>2
  <2>. QED  BY <1>2, <2>2, <2>4, <2>5
<1>5. Neutral(Written(g))
  BY <1>2, <1>4, CalmNeutral
<1>6. Run(At(z), u \o v, At(z), CalmAt(z))
  BY <1>3, <1>5 DEF Neutral
<1>. HIDE DEF z
<1>7. \E m \in States : Run(At(z), u, m, CalmAt(z))
  BY <1>3, <1>6, RunBegins
<1>. QED  BY <1>7 DEF u, z

-----------------------------------------------------------------------------
(* What a choice is written as.                                            *)

ChoiceAtoms  == {a \in GlobAtoms : a.k = "choice"}
Alternatives == Seq(GlobAtoms \ {Unfinished})

WholeText == [b \in Seq(GlobAtoms) |-> Written(b)]
LedText   == [b \in Seq(GlobAtoms) |-> <<",">> \o Written(b)]
Led(bs)   == FlattenSeq(Mapped(LedText, bs))
Joined(bs) == Tail(Led(bs))

LEMMA CommaText == <<",">> \in Texts /\ <<"{">> \in Texts /\ <<"}">> \in Texts /\ {",", "{", "}"} \subseteq Symbols
<1>1. \A c \in {",", "{", "}"} : c \in Symbols /\ <<c>> \in Texts
  BY SymbolsHas, BasicTexts
<1>. QED  BY <1>1

LEMMA TextsMapped ==
  /\ Maps(WholeText, Seq(GlobAtoms), Texts) /\ Maps(LedText, Seq(GlobAtoms), Texts)
  /\ \A b \in Seq(GlobAtoms) : /\ WholeText[b] = Written(b) /\ Written(b) \in Texts
                              /\ LedText[b] = <<",">> \o Written(b) /\ LedText[b] \in Texts
  /\ Alternatives \subseteq Seq(GlobAtoms) /\ Texted(GlobAtoms)
<1>1. \A b \in Seq(GlobAtoms) : Written(b) \in Texts
  BY GlobTexted, WrittenIs
<1>. DEFINE c == <<",">>
<1>2. c \in Texts
  BY CommaText
<1>3. \A b \in Seq(GlobAtoms) : c \o Written(b) \in Texts
  <2>. HIDE DEF c
  <2>. QED  BY <1>1, <1>2, ConcatProperties DEF Texts
<1>4. Maps(WholeText, Seq(GlobAtoms), Texts) /\ Maps(LedText, Seq(GlobAtoms), Texts)
  BY <1>1, <1>3 DEF Maps, WholeText, LedText
<1>5. Alternatives \subseteq Seq(GlobAtoms)
  <2>. DEFINE A == GlobAtoms \ {Unfinished}
  <2>1. A \subseteq GlobAtoms
    OBVIOUS
  <2>. HIDE DEF A
  <2>2. Seq(A) \subseteq Seq(GlobAtoms)
    BY <2>1, SeqMonotonic
  <2>. QED  BY <2>2 DEF Alternatives, A
<1>. QED  BY <1>1, <1>3, <1>4, <1>5, GlobTexted DEF WholeText, LedText

LEMMA ChoiceIs ==
  ASSUME NEW a \in ChoiceAtoms
  PROVE  /\ a.branches \in Seq(Alternatives) /\ Len(a.branches) > 1
         /\ a.text = <<"{">> \o Joined(a.branches) \o <<"}">>
<1>1. a.k = "choice" /\ a \in GlobAtoms
  BY DEF ChoiceAtoms
<1>2. IsChoice(a)
  <2>1. \/ a \in {Star, Slash, Unfinished}
        \/ a.k = "one" /\ IsOne(a)
        \/ a.k = "bad" /\ IsOpen(a)
        \/ a.k = "choice" /\ IsChoice(a)
    BY <1>1, GlobAtomsAssumption
  <2>2. Star.k # "choice" /\ Slash.k # "choice" /\ Unfinished.k # "choice"
    BY DEF Star, Slash, Unfinished, Bad
  <2>. QED  BY <1>1, <2>1, <2>2
<1>. DEFINE br == a.branches
<1>3. br \in Seq(Seq(GlobAtoms)) /\ Len(br) > 1 /\ a = Choice(br) /\ \A branch \in ToSet(br) : Unfinished \notin ToSet(branch)
  BY <1>2 DEF IsChoice
<1>. HIDE DEF br
<1>4. br \in Seq(Alternatives)
  <2>1. ASSUME NEW i \in 1..Len(br) PROVE br[i] \in Alternatives
    <3>. DEFINE b == br[i]
    <3>1. b \in Seq(GlobAtoms)
      BY <1>3, ElementOfSeq
    <3>2. b \in ToSet(br)
      BY <1>3, LenProperties DEF ToSet
    <3>. HIDE DEF b
    <3>3. ASSUME NEW j \in 1..Len(b) PROVE b[j] \in GlobAtoms \ {Unfinished}
      <4>1. b[j] \in GlobAtoms
        BY <3>1, ElementOfSeq
      <4>2. b[j] \in ToSet(b)
        BY <3>1, LenProperties DEF ToSet
      <4>. QED  BY <1>3, <3>2, <4>1, <4>2
    <3>4. b \in Alternatives
      <4>. DEFINE A == GlobAtoms \ {Unfinished}
      <4>1. \A j \in 1..Len(b) : b[j] \in A
        BY <3>3
      <4>. HIDE DEF A
      <4>2. b \in Seq(A)
        BY <3>1, <4>1, SeqOfSome
      <4>. QED  BY <4>2 DEF A, Alternatives
    <3>. QED  BY <3>4 DEF b
  <2>. QED  BY <1>3, <2>1, SeqOfSome
<1>5. FlattenSeq([i \in DOMAIN br |-> <<",">> \o Written(br[i])]) = Led(br)
  <2>1. \A i \in DOMAIN br : br[i] \in Seq(GlobAtoms)
    BY <1>3, LenProperties, ElementOfSeq
  <2>2. \A i \in DOMAIN br : LedText[br[i]] = <<",">> \o Written(br[i])
    BY <2>1, TextsMapped
  <2>3. [i \in DOMAIN br |-> <<",">> \o Written(br[i])] = [i \in DOMAIN br |-> LedText[br[i]]]
    BY <2>2
  <2>. QED  BY <2>3 DEF Led, Mapped
<1>6. a.text = <<"{">> \o Tail(FlattenSeq([i \in DOMAIN br |-> <<",">> \o Written(br[i])])) \o <<"}">>
  BY <1>3 DEF Choice
<1>7. a.text = <<"{">> \o Joined(br) \o <<"}">>
  BY <1>5, <1>6 DEF Joined
<1>. QED  BY <1>3, <1>4, <1>7 DEF br

\* The texts of the first branch and of those after it.
LedFirst(b, bs) ==
  /\ Led(<<b>> \o bs) = <<",">> \o (Written(b) \o Led(bs)) /\ Joined(<<b>> \o bs) = Written(b) \o Led(bs)
  /\ Led(<<b>> \o bs) \in Texts /\ Joined(<<b>> \o bs) \in Texts

LEMMA LedIs ==
  /\ Led(<< >>) = << >>
  /\ \A bs \in Seq(Seq(GlobAtoms)) : Led(bs) \in Texts
  /\ \A b \in Seq(GlobAtoms), bs \in Seq(Seq(GlobAtoms)) : LedFirst(b, bs)
<1>. DEFINE G == Seq(GlobAtoms)
<1>1. Led(<< >>) = << >>
  <2>1. Mapped(LedText, << >>) = << >>
    BY DEF Mapped
  <2>. QED  BY <2>1, FlattenEmpty DEF Led
<1>2. ASSUME NEW bs \in Seq(G) PROVE Led(bs) \in Texts /\ Mapped(LedText, bs) \in Seq(Texts)
  <2>1. Mapped(LedText, bs) \in Seq(Texts)
    BY TextsMapped, MappedType
  <2>. QED  BY <2>1, FlattenType DEF Led, Texts
<1>3. ASSUME NEW b \in G, NEW bs \in Seq(G) PROVE LedFirst(b, bs)
  <2>. DEFINE o == <<b>>
              t == LedText[b]
              m == Mapped(LedText, bs)
              c == ","
              co == <<c>>
              w == Written(b)
              l == Led(bs)
  <2>0. Maps(LedText, G, Texts)
    BY TextsMapped
  <2>1. o \in Seq(G) /\ Mapped(LedText, o) = <<t>>
    <3>1. Mapped(LedText, <<b>>) = <<LedText[b]>>
      <4>. HIDE DEF G
      <4>. QED  BY <2>0, MappedOne
    <3>. QED  BY <3>1
  <2>2. Mapped(LedText, o \o bs) = Mapped(LedText, o) \o m
    <3>1. o \in Seq(G)
      BY <2>1
    <3>. HIDE DEF o, G, t
    <3>. QED  BY <2>0, <3>1, MappedConcat
  <2>3. t \in Texts /\ m \in Seq(Texts) /\ t = co \o w /\ w \in Texts /\ l \in Texts /\ co \in Texts /\ c \in Symbols
    BY <1>2, TextsMapped, CommaText
  <2>4. Led(o \o bs) = t \o l
    <3>1. FlattenSeq(<<t>> \o m) = t \o FlattenSeq(m)
      <4>. HIDE DEF t, m
      <4>. QED  BY <2>3, FlattenCons DEF Texts
    <3>. QED  BY <2>1, <2>2, <3>1 DEF Led
  <2>. HIDE DEF o, t, m, co, w, l, c
  <2>5. (co \o w) \o l = co \o (w \o l) /\ w \o l \in Texts /\ co \o (w \o l) \in Texts
    <3>1. (co \o w) \o l = co \o (w \o l) /\ w \o l \in Texts /\ co \o w \in Texts
      <4>1. Associates(co, w, l) /\ JoinsText(w, l) /\ JoinsText(co, w)
        BY <2>3, TextsAssociates
      <4>. QED  BY <4>1 DEF Associates, JoinsText
    <3>. DEFINE v == w \o l
    <3>2. co \o v \in Texts
      <4>. HIDE DEF v
      <4>1. v \in Texts
        BY <3>1 DEF v
      <4>. QED  BY <2>3, <4>1, ConcatProperties DEF Texts
    <3>. QED  BY <3>1, <3>2
  <2>. DEFINE v == w \o l
  <2>6. Tail(<<c>> \o v) = v
    <3>1. v \in Texts
      BY <2>5
    <3>. HIDE DEF v
    <3>. QED  BY <2>3, <3>1, After1
  <2>7. Led(o \o bs) = co \o v
    BY <2>3, <2>4, <2>5
  <2>8. Tail(Led(o \o bs)) = v
    BY <2>6, <2>7 DEF co
  <2>. QED  BY <2>5, <2>7, <2>8 DEF LedFirst, Joined, o, co, w, l, c
<1>. QED  BY <1>1, <1>2, <1>3

\* The text of branches is that of the first, or that and the others after a comma.
JoinedAs(b, bs) ==
  /\ bs = << >> => Joined(<<b>> \o bs) = Written(b)
  /\ bs # << >> => Joined(<<b>> \o bs) = Written(b) \o (<<",">> \o Joined(bs)) /\ Joined(bs) \in Texts
  /\ Joined(<<b>> \o bs) \in Texts

LEMMA JoinedIs == \A b \in Seq(GlobAtoms), bs \in Seq(Seq(GlobAtoms)) : JoinedAs(b, bs)
<1>. DEFINE G == Seq(GlobAtoms)
<1>. SUFFICES ASSUME NEW b \in G, NEW bs \in Seq(G) PROVE JoinedAs(b, bs)
  OBVIOUS
<1>1. LedFirst(b, bs) /\ Written(b) \in Texts
  BY LedIs, TextsMapped
<1>2. CASE bs = << >>
  <2>1. Written(b) \o << >> = Written(b)
    <3>. DEFINE w == Written(b)
    <3>1. w \in Texts
      BY <1>1
    <3>. HIDE DEF w
    <3>2. w \o << >> = w
      BY <3>1, ConcatEmptySeq DEF Texts
    <3>. QED  BY <3>2 DEF w
  <2>2. Led(bs) = << >>
    BY <1>2, LedIs
  <2>3. Joined(<<b>> \o bs) = Written(b) \o Led(bs) /\ Joined(<<b>> \o bs) \in Texts
    BY <1>1 DEF LedFirst
  <2>4. Joined(<<b>> \o bs) = Written(b)
    BY <2>1, <2>2, <2>3
  <2>. QED  BY <1>2, <2>3, <2>4 DEF JoinedAs
<1>3. CASE bs # << >>
  <2>. DEFINE e == Head(bs)
              es == Tail(bs)
  <2>1. e \in G /\ es \in Seq(G) /\ bs = <<e>> \o es
    BY <1>3, HeadAndTail
  <2>. HIDE DEF e, es
  <2>2. LedFirst(e, es)
    BY <2>1, LedIs
  <2>3. Led(bs) = <<",">> \o Joined(bs) /\ Joined(bs) \in Texts
    BY <2>1, <2>2 DEF LedFirst
  <2>. QED  BY <1>1, <1>3, <2>3 DEF JoinedAs, LedFirst
<1>. QED  BY <1>2, <1>3

-----------------------------------------------------------------------------
(* A branch is shorter than its choice.                                    *)

LEMMA TextLens ==
  ASSUME NEW s \in Texts, NEW t \in Texts
  PROVE  s \o t \in Texts /\ Len(s \o t) = Len(s) + Len(t) /\ Len(s) \in Nat /\ Len(t) \in Nat
BY DropConcat DEF Texts

Fits1(bs) == \A i \in 1..Len(bs) : Len(Written(bs[i])) <= Len(Joined(bs))

LEMMA JoinedLonger == \A bs \in Seq(Seq(GlobAtoms)) : Fits1(bs)
<1>. DEFINE G == Seq(GlobAtoms)
            T == {bs \in Seq(G) : Fits1(bs)}
<1>1. << >> \in T
  BY DEF Fits1
<1>2. ASSUME NEW s \in Seq(G), NEW e \in G, s \in T PROVE <<e>> \o s \in T
  <2>. DEFINE f == <<e>> \o s
              n == 1
              w == Written(e)
              J == Joined(f)
              K == Joined(s)
              c == <<",">>
  <2>1. f \in Seq(G) /\ f[n] = e /\ Len(s) \in Nat /\ Len(f) = n + Len(s) /\ \A i \in 1..Len(s) : f[n + i] = s[i]
    BY ConsFacts
  <2>2. JoinedAs(e, s) /\ w \in Texts /\ c \in Texts
    BY JoinedIs, TextsMapped, CommaText
  <2>. HIDE DEF w, c
  <2>3. CASE s = << >>
    <3>1. J = w /\ Len(s) = 0
      BY <2>2, <2>3 DEF JoinedAs, w
    <3>2. Len(w) \in Nat
      BY <2>2, LenProperties DEF Texts
    <3>. HIDE DEF f, J
    <3>3. \A i \in 1..Len(f) : i = n
      BY <2>1, <3>1
    <3>4. Fits1(f)
      BY <2>1, <3>1, <3>2, <3>3 DEF Fits1, w, J
    <3>. QED  BY <2>1, <3>4 DEF f
  <2>4. CASE s # << >>
    <3>1. J = w \o (c \o K) /\ K \in Texts
      BY <2>2, <2>4 DEF JoinedAs, w, c
    <3>. DEFINE v == c \o K
    <3>. HIDE DEF K
    <3>2. v \in Texts /\ Len(v) = Len(c) + Len(K) /\ Len(c) \in Nat /\ Len(K) \in Nat
      BY <2>2, <3>1, TextLens
    <3>. HIDE DEF v
    <3>3. Len(w \o v) = Len(w) + Len(v) /\ Len(w) \in Nat
      BY <2>2, <3>2, TextLens
    <3>4. Len(J) = Len(w) + Len(v)
      BY <3>1, <3>3 DEF v
    <3>. HIDE DEF J, f
    <3>5. ASSUME NEW i \in 1..Len(f) PROVE Len(Written(f[i])) <= Len(J)
      <4>1. CASE i = n
        BY <2>1, <3>2, <3>3, <3>4, <4>1 DEF w
      <4>2. CASE i # n
        <5>. DEFINE j == i - 1
        <5>1. j \in 1..Len(s) /\ i = n + j
          BY <2>1, <4>2
        <5>. HIDE DEF j, n
        <5>2. f[i] = s[j]
          BY <2>1, <5>1
        <5>3. Len(Written(s[j])) <= Len(K)
          BY <1>2, <5>1 DEF Fits1, K
        <5>4. Len(Written(s[j])) \in Nat
          <6>1. s[j] \in G
            BY <5>1, ElementOfSeq
          <6>2. Written(s[j]) \in Texts
            BY <6>1, TextsMapped
          <6>. QED  BY <6>2, LenProperties DEF Texts
        <5>. QED  BY <3>2, <3>3, <3>4, <5>2, <5>3, <5>4
      <4>. QED  BY <4>1, <4>2
    <3>6. Fits1(f)
      BY <3>5 DEF Fits1, J
    <3>. QED  BY <2>1, <3>6 DEF f
  <2>. QED  BY <2>3, <2>4
<1>. HIDE DEF T, G
<1>3. Seq(G) \subseteq T
  BY <1>1, <1>2, ConsInduction
<1>. QED  BY <1>3 DEF T, G

LEMMA SomeBranches ==
  ASSUME NEW bs \in Seq(Seq(GlobAtoms)), bs # << >>
  PROVE  Joined(bs) \in Texts
<1>. DEFINE e == Head(bs)
            es == Tail(bs)
<1>1. e \in Seq(GlobAtoms) /\ es \in Seq(Seq(GlobAtoms)) /\ bs = <<e>> \o es
  BY HeadAndTail
<1>. HIDE DEF e, es
<1>2. JoinedAs(e, es)
  BY <1>1, JoinedIs
<1>. QED  BY <1>1, <1>2 DEF JoinedAs

\* The parts of the text of a choice.
ChoiceText(a) ==
  LET J == Joined(a.branches)
  IN  /\ a.branches \in Seq(Seq(GlobAtoms)) /\ a.branches # << >> /\ J \in Texts
      /\ a.text = <<"{">> \o (J \o <<"}">>) /\ Len(a.text) = Len(J) + 2
      /\ \A i \in 1..Len(a.branches) : Len(Written(a.branches[i])) < Len(a.text)

LEMMA ChoiceTextIs == \A a \in ChoiceAtoms : ChoiceText(a)
<1>. SUFFICES ASSUME NEW a \in ChoiceAtoms PROVE ChoiceText(a)
  OBVIOUS
<1>. DEFINE br == a.branches
            J == Joined(br)
            o == <<"{">>
            c == <<"}">>
<1>1. br \in Seq(Alternatives) /\ Len(br) > 1 /\ a.text = o \o J \o c
  BY ChoiceIs
<1>2. br \in Seq(Seq(GlobAtoms)) /\ br # << >>
  <2>1. br \in Seq(Seq(GlobAtoms))
    BY <1>1, TextsMapped, SeqMonotonic
  <2>. DEFINE l == Len(br)
  <2>2. l \in Nat /\ l > 1
    BY <1>1, <2>1, LenProperties
  <2>. HIDE DEF l
  <2>3. l # 0
    BY <2>2
  <2>. QED  BY <2>1, <2>3, EmptySeq DEF l
<1>3. o \in Texts /\ c \in Texts /\ Len(o) = 1 /\ Len(c) = 1
  BY CommaText
<1>. HIDE DEF br, o, c
<1>4. J \in Texts
  BY <1>2, SomeBranches
<1>5. \A i \in 1..Len(br) : Len(Written(br[i])) <= Len(J)
  BY <1>2, JoinedLonger DEF Fits1
<1>. HIDE DEF J
<1>6. (o \o J) \o c = o \o (J \o c) /\ J \o c \in Texts
  <2>1. Associates(o, J, c) /\ JoinsText(J, c)
    BY <1>3, <1>4, TextsAssociates
  <2>. QED  BY <2>1 DEF Associates, JoinsText
<1>. DEFINE v == J \o c
<1>7. v \in Texts /\ Len(v) = Len(J) + Len(c) /\ Len(J) \in Nat
  BY <1>3, <1>4, TextLens
<1>. HIDE DEF v
<1>8. Len(o \o v) = Len(o) + Len(v)
  BY <1>3, <1>7, TextLens
<1>9. a.text = o \o v
  BY <1>1, <1>6 DEF v
<1>10. Len(a.text) = Len(J) + 2
  BY <1>3, <1>7, <1>8, <1>9
<1>11. \A i \in 1..Len(br) : Len(Written(br[i])) < Len(a.text)
  <2>1. ASSUME NEW i \in 1..Len(br) PROVE Len(Written(br[i])) < Len(a.text)
    <3>1. br[i] \in Seq(GlobAtoms)
      BY <1>2, ElementOfSeq
    <3>2. Written(br[i]) \in Texts
      BY <3>1, TextsMapped
    <3>3. Len(Written(br[i])) \in Nat
      BY <3>2, LenProperties DEF Texts
    <3>. QED  BY <1>5, <1>7, <1>10, <3>3
  <2>. QED  BY <2>1
<1>. QED  BY <1>2, <1>4, <1>9, <1>10, <1>11 DEF ChoiceText, br, J, o, c, v

LEMMA AtomKinds == \A a \in GlobAtoms : a \in FlatAtoms \/ a \in ChoiceAtoms
BY DEF FlatAtoms, ChoiceAtoms

LEMMA SomeText == \A a \in GlobAtoms : a.text \in Texts /\ a.text # << >> /\ Len(a.text) \in Nat \ {0}
<1>. SUFFICES ASSUME NEW a \in GlobAtoms PROVE a.text \in Texts /\ a.text # << >> /\ Len(a.text) \in Nat \ {0}
  OBVIOUS
<1>. DEFINE t == a.text
<1>1. t \in Texts
  BY GlobTexted DEF Texted
<1>2. t # << >>
  <2>1. CASE a \in SegAtoms
    BY <2>1, AtomBegins
  <2>2. CASE a \in Slashes
    <3>1. t = <<"/">>
      BY <2>2, FlatFacts DEF Slashes, FlatAtoms
    <3>. QED  BY <3>1
  <2>3. CASE a \in ChoiceAtoms
    <3>1. ChoiceText(a)
      BY <2>3, ChoiceTextIs
    <3>2. Len(t) = Len(Joined(a.branches)) + 2 /\ Joined(a.branches) \in Texts
      BY <3>1 DEF ChoiceText
    <3>3. Len(Joined(a.branches)) \in Nat
      BY <3>2, LenProperties DEF Texts
    <3>4. Len(t) # 0
      BY <3>2, <3>3
    <3>. QED  BY <3>4
  <2>. QED  BY <2>1, <2>2, <2>3, AtomKinds, FlatFacts
<1>. HIDE DEF t
<1>3. Len(t) \in Nat \ {0}
  BY <1>1, <1>2, LenProperties, EmptySeq DEF Texts
<1>. QED  BY <1>1, <1>2, <1>3 DEF t

TextSize == [g \in Seq(GlobAtoms) |-> Len(Written(g))]

LEMMA TextSizes ==
  /\ Maps(TextSize, Seq(GlobAtoms), Nat) /\ Sized(TextSize, Seq(GlobAtoms))
  /\ \A g \in Seq(GlobAtoms) : TextSize[g] = Len(Written(g))
<1>1. \A g \in Seq(GlobAtoms) : Len(Written(g)) \in Nat
  <2>1. \A g \in Seq(GlobAtoms) : Written(g) \in Texts
    BY TextsMapped
  <2>. QED  BY <2>1, LenProperties DEF Texts
<1>. QED  BY <1>1 DEF TextSize, Maps, Sized

\* Where something comes before and after, there is more to read.
LEMMA PartsShorter ==
  ASSUME NEW a \in GlobAtoms, NEW s \in Seq(GlobAtoms)
  PROVE  LET g == <<a>> \o s
         IN  /\ g \in Seq(GlobAtoms) /\ TextSize[s] < TextSize[g]
             /\ a \in ChoiceAtoms => \A i \in 1..Len(a.branches) : TextSize[a.branches[i]] < TextSize[g]
<1>. DEFINE g == <<a>> \o s
            t == a.text
            w == Written(s)
<1>1. g \in Seq(GlobAtoms) /\ Written(g) = t \o w /\ t \in Texts /\ w \in Texts
  BY TextsMapped, WrittenCons
<1>2. Len(t) \in Nat \ {0}
  BY SomeText
<1>3. TextSize[g] = Len(Written(g)) /\ TextSize[s] = Len(w)
  BY <1>1, TextSizes
<1>. HIDE DEF g, t, w
<1>4. Len(t \o w) = Len(t) + Len(w) /\ Len(w) \in Nat
  BY <1>1, TextLens
<1>5. TextSize[s] < TextSize[g]
  BY <1>1, <1>2, <1>3, <1>4
<1>6. ASSUME a \in ChoiceAtoms, NEW i \in 1..Len(a.branches) PROVE TextSize[a.branches[i]] < TextSize[g]
  <2>1. ChoiceText(a)
    BY <1>6, ChoiceTextIs
  <2>2. a.branches \in Seq(Seq(GlobAtoms)) /\ Len(Written(a.branches[i])) < Len(t)
    BY <2>1 DEF ChoiceText, t
  <2>. DEFINE b == a.branches[i]
  <2>3. b \in Seq(GlobAtoms)
    BY <2>2, ElementOfSeq
  <2>4. TextSize[b] = Len(Written(b)) /\ TextSize[b] \in Nat
    BY <2>3, TextSizes DEF Maps
  <2>. QED  BY <1>1, <1>2, <1>3, <1>4, <2>2, <2>4
<1>. QED  BY <1>1, <1>5, <1>6 DEF g

-----------------------------------------------------------------------------
(* The commas of a group.                                                  *)

TopCommas(t) ==
  {i \in DOMAIN t : t[i] = "," /\ ~Nesting(At(1), t)[i - 1].escape /\ Nesting(At(1), t)[i].depth = 1}

LEMMA SealedUncut ==
  ASSUME NEW w \in Texts, Sealed(w), NEW g,
         \A i \in 0..Len(w) : g[i] = Nesting(At(1), w)[i]
  PROVE  g[Len(w)] = At(1) /\ \A i \in 1..Len(w) : ~(w[i] = "," /\ ~g[i - 1].escape /\ g[i].depth = 1)
<1>. DEFINE d == 1
            h == Nesting(At(d), w)
<1>1. Run(At(d), w, At(d), SealAt(d))
  <2>1. d \in Nat
    OBVIOUS
  <2>. HIDE DEF d
  <2>. QED  BY <2>1 DEF Sealed
<1>2. Len(w) \in Nat
  BY LenProperties DEF Texts
<1>3. h[Len(w)] = At(d) /\ \A i \in 1..Len(w) : <<w[i], h[i - 1], h[i]>> \in SealAt(d)
  <2>. HIDE DEF d
  <2>. QED  BY <1>1 DEF Run
<1>4. g[Len(w)] = At(d)
  <2>1. Len(w) \in 0..Len(w)
    BY <1>2
  <2>. QED  BY <1>3, <2>1
<1>5. ASSUME NEW i \in 1..Len(w), w[i] = ",", ~g[i - 1].escape, g[i].depth = d PROVE FALSE
  <2>1. i \in 0..Len(w) /\ i - 1 \in 0..Len(w)
    BY <1>2
  <2>2. g[i] = h[i] /\ g[i - 1] = h[i - 1]
    BY <2>1
  <2>. HIDE DEF h
  <2>. DEFINE x == g[i].depth
  <2>3. x > d
    BY <1>3, <1>5, <2>2 DEF SealAt
  <2>4. x = d
    BY <1>5
  <2>. HIDE DEF x
  <2>. QED  BY <2>3, <2>4
<1>. QED  BY <1>4, <1>5

CommaFirst(w, J) ==
  LET v == w \o (<<",">> \o J)
  IN  /\ v \in Texts /\ Len(w) + 1 \in TopCommas(v)
      /\ \A i \in 1..Len(w) : i \notin TopCommas(v)
      /\ \A i \in 1..Len(J) : i \in TopCommas(J) <=> Len(w) + 1 + i \in TopCommas(v)

LEMMA CommasFirst ==
  ASSUME NEW w \in Texts, Sealed(w), NEW J \in Texts
  PROVE  CommaFirst(w, J)
<1>. DEFINE c == ","
            o == <<c>> \o J
            v == w \o o
            r == At(1)
            n == Len(w) + 1
            g == Nesting(r, v)
            h == Nesting(r, J)
<1>1. c \in Symbols /\ <<c>> \in Texts /\ Len(<<c>>) = 1
  BY CommaText
<1>2. r \in States /\ ~r.escape /\ r.depth = 1
  BY AtStates
<1>3. o \in Texts
  BY <1>1, After1
<1>4. /\ v \in Texts /\ Len(w) \in Nat /\ Len(J) \in Nat /\ Len(v) = n + Len(J)
      /\ DOMAIN v = 1..Len(v) /\ v[n] = c
      /\ \A i \in 1..Len(w) : v[i] = w[i]
      /\ \A i \in 1..Len(J) : v[n + i] = J[i]
  <2>. HIDE DEF c
  <2>. QED  BY <1>1, Middle DEF Texts
<1>5. \A i \in 0..Len(w) : g[i] = Nesting(r, w)[i]
  <2>1. Carries(r, w, o)
    <3>. HIDE DEF o, r
    <3>. QED  BY <1>2, <1>3, NestingConcat
  <2>. QED  BY <2>1 DEF Carries
<1>6. g[Len(w)] = r /\ \A i \in 1..Len(w) : ~(w[i] = c /\ ~g[i - 1].escape /\ g[i].depth = 1)
  <2>. HIDE DEF g
  <2>. QED  BY <1>5, SealedUncut
<1>7. Nests(g, r, v) /\ Nests(h, r, J)
  <2>. HIDE DEF v, r
  <2>. QED  BY <1>2, <1>4, NestingIs
<1>. HIDE DEF r, v, h, g, o, n
<1>a. Len(w) \in Nat /\ Len(J) \in Nat /\ Len(v) = n + Len(J) /\ n = Len(w) + 1
  BY <1>4 DEF n
<1>8. g[n] = r /\ n \in 1..Len(v)
  <2>1. n \in 0..Len(v) /\ n # 0 /\ n - 1 = Len(w) /\ n \in 1..Len(v)
    BY <1>a
  <2>2. g[n] = Enter(g[n - 1], v[n])
    BY <1>7, <2>1 DEF Nests
  <2>3. g[n] = Enter(r, c)
    BY <1>4, <1>6, <2>1, <2>2
  <2>4. Enter(r, c) = r
    BY <1>2, EnterIs
  <2>. QED  BY <2>1, <2>3, <2>4
<1>9. \A i \in 0..Len(J) : g[n + i] = h[i]
  <2>1. PartOf(J, v, n) /\ g[n] = r
    <3>1. n \in Nat /\ n + Len(J) <= Len(v)
      BY <1>a
    <3>2. \A i \in 1..Len(J) : J[i] = v[n + i]
      BY <1>4
    <3>. QED  BY <1>8, <3>1, <3>2 DEF PartOf
  <2>2. v \in Texts
    BY <1>4
  <2>. QED  BY <1>7, <2>1, <2>2, NestingWithin
<1>. DEFINE X == TopCommas(v)
            Y == TopCommas(J)
<1>10. \A i : i \in X <=> i \in 1..Len(v) /\ v[i] = c /\ ~g[i - 1].escape /\ g[i].depth = 1
  BY <1>4 DEF TopCommas, g, r
<1>11. \A i : i \in Y <=> i \in 1..Len(J) /\ J[i] = c /\ ~h[i - 1].escape /\ h[i].depth = 1
  <2>1. DOMAIN J = 1..Len(J)
    BY LenProperties DEF Texts
  <2>. QED  BY <2>1 DEF TopCommas, h, r
<1>. HIDE DEF X, Y, c
<1>12. n \in X
  <2>1. n - 1 = Len(w)
    BY <1>4 DEF n
  <2>2. g[n - 1] = r
    BY <1>6, <2>1
  <2>. QED  BY <1>2, <1>4, <1>8, <1>10, <2>2
<1>13. ASSUME NEW i \in 1..Len(w) PROVE i \notin X
  BY <1>4, <1>6, <1>10
<1>14. ASSUME NEW i \in 1..Len(J) PROVE i \in Y <=> n + i \in X
  <2>1. n + i \in 1..Len(v) /\ i \in 0..Len(J) /\ i - 1 \in 0..Len(J) /\ (n + i) - 1 = n + (i - 1)
    BY <1>4 DEF n
  <2>2. v[n + i] = J[i] /\ g[n + i] = h[i] /\ g[(n + i) - 1] = h[i - 1]
    BY <1>4, <1>9, <2>1
  <2>. QED  BY <1>10, <1>11, <2>1, <2>2
<1>. QED  BY <1>4, <1>12, <1>13, <1>14 DEF CommaFirst, v, o, n, X, Y, c

\* The branches of a group are its pieces between its own commas.
SealedOnes == {b \in Alternatives : Sealed(Written(b))}

GroupOf(bs) ==
  LET J == Joined(bs)
  IN  /\ J \in Texts /\ Ringed(J) /\ Pieces(J, TopCommas(J)) = Mapped(WholeText, bs)
      /\ TopCommas(J) = {} => Len(bs) = 1

LEMMA RingedConcat == \A s, t \in Texts : Ringed(s) /\ Ringed(t) => Ringed(s \o t)
<1>. SUFFICES ASSUME NEW s \in Texts, NEW t \in Texts, Ringed(s), Ringed(t) PROVE Ringed(s \o t)
  OBVIOUS
<1>1. ASSUME NEW d \in Nat PROVE Run(At(d), s \o t, At(d), RingAt(d))
  BY RunConcat DEF Ringed
<1>. QED  BY <1>1 DEF Ringed

LEMMA CommaRinged == Ringed(<<",">>)
<1>. DEFINE c == ","
<1>1. ASSUME NEW d \in Nat PROVE Run(At(d), <<c>>, At(d), RingAt(d))
  <2>. DEFINE r == At(d)
  <2>1. r \in States /\ ~r.escape /\ r.depth = d /\ c \in Symbols
    BY AtStates, SymbolsHas
  <2>. HIDE DEF r
  <2>2. Enter(r, c) = r
    BY <2>1, EnterIs
  <2>3. <<c, r, r>> \in RingAt(d)
    <3>. DEFINE x == r.depth
    <3>0. x = d
      BY <2>1
    <3>. HIDE DEF x, c
    <3>1. x >= d
      BY <3>0
    <3>. QED  BY <2>1, <3>1 DEF RingAt, Steps, x
  <2>. HIDE DEF c
  <2>4. Run(r, <<c>>, Enter(r, c), RingAt(d))
    BY <2>1, <2>2, <2>3, RunOne
  <2>. QED  BY <2>2, <2>4 DEF r
<1>. QED  BY <1>1 DEF Ringed

LEMMA GroupsAre == \A bs \in Seq(SealedOnes) : bs # << >> => GroupOf(bs)
<1>. DEFINE S == SealedOnes
            T == {bs \in Seq(S) : bs # << >> => GroupOf(bs)}
<1>0. S \subseteq Seq(GlobAtoms) /\ \A b \in S : Sealed(Written(b)) /\ Written(b) \in Texts /\ Ringed(Written(b))
  BY TextsMapped, NeutralSealed DEF SealedOnes
<1>00. Seq(S) \subseteq Seq(Seq(GlobAtoms))
  BY <1>0, SeqMonotonic
<1>1. << >> \in T
  OBVIOUS
<1>2. ASSUME NEW s \in Seq(S), NEW e \in S, s \in T PROVE <<e>> \o s \in T
  <2>. DEFINE f == <<e>> \o s
              w == Written(e)
              J == Joined(f)
              K == Joined(s)
              m == Mapped(WholeText, s)
  <2>1. f \in Seq(S) /\ Len(s) \in Nat /\ Len(f) = 1 + Len(s)
    BY ConsFacts
  <2>2. JoinedAs(e, s) /\ w \in Texts /\ Sealed(w) /\ Ringed(w) /\ e \in Seq(GlobAtoms) /\ s \in Seq(Seq(GlobAtoms))
    BY <1>0, <1>00, JoinedIs
  <2>3. Mapped(WholeText, f) = <<w>> \o m
    <3>. DEFINE G == Seq(GlobAtoms)
                o == <<e>>
    <3>0. o \in Seq(G)
      BY <2>2
    <3>1. Maps(WholeText, G, Texts) /\ WholeText[e] = w /\ o \in Seq(G) /\ s \in Seq(G)
      <4>. HIDE DEF o
      <4>. QED  BY <2>2, <3>0, TextsMapped
    <3>2. Mapped(WholeText, <<e>>) = <<WholeText[e]>>
      <4>1. e \in G
        BY <2>2
      <4>. HIDE DEF G, o
      <4>. QED  BY <3>1, <4>1, MappedOne
    <3>3. Mapped(WholeText, o \o s) = Mapped(WholeText, o) \o m
      <4>. HIDE DEF G, o
      <4>. QED  BY <3>1, MappedConcat
    <3>. QED  BY <3>1, <3>2, <3>3
  <2>. HIDE DEF w
  <2>4. CASE s = << >>
    <3>1. J = w /\ m = << >> /\ Len(s) = 0
      BY <2>2, <2>4 DEF JoinedAs, w, Mapped
    <3>. HIDE DEF J, m, f
    <3>2. Len(f) = 1
      BY <2>1, <3>1
    <3>3. Mapped(WholeText, f) = <<w>>
      <4>. DEFINE o == <<w>>
      <4>1. o \in Seq(Texts)
        BY <2>2
      <4>. HIDE DEF o
      <4>2. o \o << >> = o
        BY <4>1, ConcatEmptySeq
      <4>. QED  BY <2>3, <3>1, <4>2 DEF o
    <3>4. \A i \in 1..Len(w) : i \notin TopCommas(w)
      <4>. DEFINE g == Nesting(At(1), w)
      <4>1. \A i \in 0..Len(w) : g[i] = Nesting(At(1), w)[i]
        OBVIOUS
      <4>. HIDE DEF g
      <4>2. \A i \in 1..Len(w) : ~(w[i] = "," /\ ~g[i - 1].escape /\ g[i].depth = 1)
        BY <2>2, <4>1, SealedUncut
      <4>. QED  BY <4>2 DEF TopCommas, g
    <3>5. Pieces(w, TopCommas(w)) = <<w>>
      <4>. DEFINE X == TopCommas(w)
      <4>1. \A i \in 1..Len(w) : i \notin X
        BY <3>4
      <4>. HIDE DEF X
      <4>2. w \in Seq(Symbols)
        BY <2>2 DEF Texts
      <4>3. Pieces(w, X) = <<w>>
        BY <4>1, <4>2, PiecesUncut
      <4>. QED  BY <4>3 DEF X
    <3>6. GroupOf(f)
      BY <2>2, <3>1, <3>2, <3>3, <3>5 DEF GroupOf, J
    <3>. QED  BY <2>1, <3>6 DEF f
  <2>5. CASE s # << >>
    <3>. DEFINE c == ","
                co == <<c>>
                v == w \o (co \o K)
    <3>1. J = v /\ K \in Texts
      BY <2>2, <2>5 DEF JoinedAs, w
    <3>2. GroupOf(s)
      BY <1>2, <2>5
    <3>3. Ringed(K) /\ Pieces(K, TopCommas(K)) = m
      BY <3>2 DEF GroupOf
    <3>4. CommaFirst(w, K)
      <4>. HIDE DEF K
      <4>. QED  BY <2>2, <3>1, CommasFirst
    <3>. DEFINE X == TopCommas(v)
                Y == TopCommas(K)
    <3>5. /\ v \in Texts /\ Len(w) + 1 \in X /\ (\A i \in 1..Len(w) : i \notin X)
          /\ \A i \in 1..Len(K) : i \in Y <=> Len(w) + 1 + i \in X
      BY <3>4 DEF CommaFirst
    <3>6. co \in Texts /\ c \in Symbols /\ Ringed(co)
      BY CommaText, CommaRinged
    <3>. HIDE DEF c
    <3>7. Ringed(v)
      <4>. DEFINE u == co \o K
      <4>. HIDE DEF K, co
      <4>1. Ringed(u) /\ u \in Texts
        BY <3>1, <3>3, <3>6, RingedConcat, TextLens
      <4>. HIDE DEF u
      <4>2. Ringed(w \o u)
        BY <2>2, <4>1, RingedConcat
      <4>. QED  BY <4>2 DEF u
    <3>8. Pieces(v, X) = Pieces(w, X) \o Pieces(K, Y)
      <4>. HIDE DEF X, Y, K
      <4>1. Follows(Y, X, Len(w) + 1, K)
        BY <3>5 DEF Follows
      <4>. HIDE DEF v
      <4>2. Across(w, c, K, X, Y)
        BY <2>2, <3>1, <3>5, <3>6, <4>1, PiecesAcross DEF Texts
      <4>. QED  BY <4>2 DEF Across, v, co
    <3>9. Pieces(w, X) = <<w>>
      <4>. HIDE DEF X
      <4>. QED  BY <2>2, <3>5, PiecesUncut DEF Texts
    <3>10. X # {}
      BY <3>5
    <3>. HIDE DEF v, X, Y
    <3>11. Pieces(J, TopCommas(J)) = Mapped(WholeText, f)
      BY <2>3, <3>1, <3>3, <3>8, <3>9 DEF X, Y
    <3>12. GroupOf(f)
      BY <3>1, <3>5, <3>7, <3>10, <3>11 DEF GroupOf, X
    <3>. QED  BY <2>1, <3>12
  <2>. QED  BY <2>4, <2>5
<1>. HIDE DEF T, S
<1>3. Seq(S) \subseteq T
  BY <1>1, <1>2, ConsInduction
<1>. QED  BY <1>3 DEF T, S

-----------------------------------------------------------------------------
(* A branch leaves the depth as it was, and its own commas are deeper.     *)

LEMMA SealedConcat == \A s, t \in Texts : Sealed(s) /\ Sealed(t) => Sealed(s \o t)
<1>. SUFFICES ASSUME NEW s \in Texts, NEW t \in Texts, Sealed(s), Sealed(t) PROVE Sealed(s \o t)
  OBVIOUS
<1>1. ASSUME NEW d \in Nat PROVE Run(At(d), s \o t, At(d), SealAt(d))
  BY RunConcat DEF Sealed
<1>. QED  BY <1>1 DEF Sealed

LEMMA BraceRuns ==
  ASSUME NEW d \in Nat
  PROVE  Run(At(d), <<"{">>, At(d + 1), SealAt(d)) /\ Run(At(d + 1), <<"}">>, At(d), SealAt(d))
<1>. DEFINE r == At(d)
            n == d + 1
            x == At(n)
            o == "{"
            c == "}"
<1>1. n \in Nat /\ n >= d /\ n # 0 /\ n - 1 = d
  OBVIOUS
<1>. HIDE DEF n
<1>2. r \in States /\ x \in States /\ ~r.escape /\ ~x.escape /\ r.depth = d /\ x.depth = n
  BY <1>1, AtStates
<1>3. Enter(r, o) = At(r.depth + 1)
  <2>. HIDE DEF r
  <2>. QED  BY <1>2, EnterIs
<1>4. Enter(x, c) = At(x.depth - 1)
  <2>1. x.depth # 0
    BY <1>1, <1>2
  <2>. HIDE DEF x
  <2>2. Enter(x, c) = At(IF x.depth = 0 THEN 0 ELSE x.depth - 1)
    BY <1>2, EnterIs
  <2>. QED  BY <2>1, <2>2
<1>5. Enter(r, o) = x /\ Enter(x, c) = r
  BY <1>1, <1>2, <1>3, <1>4 DEF n
<1>6. o \in Symbols /\ c \in Symbols
  BY CommaText
<1>. HIDE DEF r, x
<1>7. <<o, r, x>> \in SealAt(d) /\ <<c, x, r>> \in SealAt(d)
  <2>. DEFINE a == x.depth
              b == r.depth
  <2>1. a = n /\ b = d
    BY <1>2
  <2>. HIDE DEF a, b
  <2>2. a >= d /\ b >= d
    BY <1>1, <2>1
  <2>. QED  BY <1>2, <1>6, <2>2 DEF a, b, SealAt, Steps
<1>. HIDE DEF o, c
<1>8. Run(r, <<o>>, Enter(r, o), SealAt(d)) /\ Run(x, <<c>>, Enter(x, c), SealAt(d))
  BY <1>2, <1>5, <1>6, <1>7, RunOne
<1>. QED  BY <1>5, <1>8 DEF r, x, o, c, n

LEMMA BracedSealed ==
  ASSUME NEW J \in Texts, Ringed(J)
  PROVE  Sealed(<<"{">> \o (J \o <<"}">>))
<1>. DEFINE o == <<"{">>
            c == <<"}">>
            q == J \o c
<1>1. ASSUME NEW d \in Nat PROVE Run(At(d), o \o q, At(d), SealAt(d))
  <2>. DEFINE r == At(d)
              n == d + 1
              x == At(n)
              A == SealAt(d)
  <2>1. n \in Nat
    OBVIOUS
  <2>2. Run(r, o, x, A) /\ Run(x, c, r, A)
    BY BraceRuns
  <2>3. Run(x, J, x, RingAt(n))
    BY <2>1 DEF Ringed
  <2>4. RingAt(n) \subseteq A
    BY StepSets
  <2>5. o \in Texts /\ c \in Texts
    BY CommaText
  <2>. HIDE DEF o, c, x, A, n, r
  <2>6. Run(x, J, x, A)
    BY <2>3, <2>4, RunMore
  <2>7. Run(x, J \o c, r, A) /\ q \in Texts
    BY <2>2, <2>5, <2>6, RunConcat, TextLens
  <2>. HIDE DEF q
  <2>8. Run(x, q, r, A)
    BY <2>7 DEF q
  <2>9. Run(r, o \o q, r, A)
    BY <2>2, <2>5, <2>7, <2>8, RunConcat
  <2>. QED  BY <2>9 DEF r, A
<1>. QED  BY <1>1 DEF Sealed

LEMMA AlternativesSealed == \A b \in Alternatives : Sealed(Written(b))
<1>. DEFINE D == Alternatives
            size == [b \in D |-> TextSize[b]]
            T == {b \in D : Sealed(Written(b))}
<1>1. size \in [D -> Nat] /\ \A b \in D : size[b] = TextSize[b]
  BY TextsMapped, TextSizes DEF Maps
<1>. HIDE DEF size
<1>2. ASSUME NEW b \in D, \A r \in D : size[r] < size[b] => r \in T PROVE b \in T
  <2>1. CASE b = << >>
    <3>1. Written(<< >>) = << >>
      BY TextsMapped, WrittenIs
    <3>2. Neutral(<< >>)
      BY NeutralClosing DEF Closing
    <3>. QED  BY <2>1, <3>1, <3>2, NeutralSealed
  <2>2. CASE b # << >>
    <3>. DEFINE e == Head(b)
                s == Tail(b)
                A == GlobAtoms \ {Unfinished}
    <3>1. e \in A /\ s \in Seq(A) /\ b = <<e>> \o s
      <4>. HIDE DEF A
      <4>1. b \in Seq(A)
        BY DEF Alternatives, A
      <4>. QED  BY <2>2, <4>1, HeadAndTail
    <3>. HIDE DEF e, s
    <3>2. e \in GlobAtoms /\ e # Unfinished /\ s \in D /\ s \in Seq(GlobAtoms)
      BY <3>1, TextsMapped DEF Alternatives
    <3>3. /\ TextSize[s] < TextSize[b]
          /\ e \in ChoiceAtoms => \A i \in 1..Len(e.branches) : TextSize[e.branches[i]] < TextSize[b]
      BY <3>1, <3>2, PartsShorter
    <3>4. Sealed(Written(s))
      BY <1>1, <1>2, <3>2, <3>3
    <3>5. Written(b) = e.text \o Written(s) /\ e.text \in Texts /\ Written(s) \in Texts
      BY <3>1, <3>2, TextsMapped, WrittenCons
    <3>6. Sealed(e.text)
      <4>1. CASE e \in SegAtoms
        <5>. DEFINE X == {x \in Texts : Neutral(x)}
        <5>1. Closing(X)
          BY NeutralClosing
        <5>. HIDE DEF X
        <5>2. e.text \in X
          BY <3>2, <4>1, <5>1, AtomMade
        <5>. QED  BY <5>2, NeutralSealed DEF X
      <4>2. CASE e \in Slashes
        <5>1. e.text = <<"/">>
          BY <4>2, FlatFacts DEF Slashes, FlatAtoms
        <5>. QED  BY <5>1, SlashNeutral, NeutralSealed
      <4>3. CASE e \in ChoiceAtoms
        <5>. DEFINE br == e.branches
        <5>1. br \in Seq(Alternatives)
          BY <4>3, ChoiceIs
        <5>2. ChoiceText(e)
          BY <4>3, ChoiceTextIs
        <5>3. br # << >> /\ e.text = <<"{">> \o (Joined(br) \o <<"}">>)
          BY <5>2 DEF ChoiceText
        <5>. HIDE DEF br
        <5>4. ASSUME NEW i \in 1..Len(br) PROVE br[i] \in SealedOnes
          <6>. DEFINE x == br[i]
          <6>1. x \in D
            BY <5>1, ElementOfSeq
          <6>2. TextSize[x] < TextSize[b]
            BY <3>3, <4>3 DEF br
          <6>. HIDE DEF x
          <6>3. x \in T
            BY <1>1, <1>2, <6>1, <6>2
          <6>. QED  BY <6>3 DEF SealedOnes, x
        <5>5. br \in Seq(SealedOnes)
          BY <5>1, <5>4, SeqOfSome
        <5>6. GroupOf(br)
          BY <5>3, <5>5, GroupsAre
        <5>. DEFINE J == Joined(br)
        <5>7. J \in Texts /\ Ringed(J)
          BY <5>6 DEF GroupOf
        <5>. HIDE DEF J
        <5>8. Sealed(<<"{">> \o (J \o <<"}">>))
          BY <5>7, BracedSealed
        <5>. QED  BY <5>3, <5>8 DEF J
      <4>. QED  BY <3>2, <4>1, <4>2, <4>3, AtomKinds, FlatFacts
    <3>. DEFINE t == e.text
                w == Written(s)
    <3>7. t \in Texts /\ w \in Texts /\ Sealed(t) /\ Sealed(w)
      BY <3>4, <3>5, <3>6
    <3>. HIDE DEF t, w
    <3>8. Sealed(t \o w)
      BY <3>7, SealedConcat
    <3>. QED  BY <3>5, <3>8 DEF t, w
  <2>. QED  BY <2>1, <2>2
<1>. HIDE DEF T, D
<1>3. D \subseteq T
  BY <1>1, <1>2, SizeInduction
<1>. QED  BY <1>3 DEF T, D

\* The groups of the choices in a pattern.
LEMMA ChoiceGroups ==
  \A a \in ChoiceAtoms : /\ a.branches \in Seq(Alternatives) /\ Len(a.branches) > 1
                         /\ GroupOf(a.branches) /\ ChoiceText(a)
<1>. SUFFICES ASSUME NEW a \in ChoiceAtoms
              PROVE  /\ a.branches \in Seq(Alternatives) /\ Len(a.branches) > 1
                     /\ GroupOf(a.branches) /\ ChoiceText(a)
  OBVIOUS
<1>. DEFINE br == a.branches
<1>1. br \in Seq(Alternatives) /\ Len(br) > 1 /\ ChoiceText(a)
  BY ChoiceIs, ChoiceTextIs
<1>2. br # << >>
  BY <1>1 DEF ChoiceText
<1>. HIDE DEF br
<1>3. Alternatives \subseteq SealedOnes
  BY AlternativesSealed DEF SealedOnes
<1>4. br \in Seq(SealedOnes)
  BY <1>1, <1>3, SeqMonotonic
<1>5. GroupOf(br)
  BY <1>2, <1>4, GroupsAre
<1>. QED  BY <1>1, <1>5 DEF br

-----------------------------------------------------------------------------
(* What sequences put together have in them.                               *)

LEMMA InBoth ==
  ASSUME NEW S, NEW s \in Seq(S), NEW t \in Seq(S)
  PROVE  ToSet(s \o t) = ToSet(s) \cup ToSet(t)
<1>. DEFINE f == s \o t
<1>1. /\ f \in Seq(S) /\ Len(s) \in Nat /\ Len(t) \in Nat /\ Len(f) = Len(s) + Len(t)
      /\ \A i \in 1..Len(s) : f[i] = s[i]
      /\ \A i \in 1..Len(t) : f[Len(s) + i] = t[i]
  BY DropConcat
<1>2. DOMAIN s = 1..Len(s) /\ DOMAIN t = 1..Len(t)
  BY LenProperties
<1>. HIDE DEF f
<1>3. DOMAIN f = 1..Len(f)
  BY <1>1, LenProperties
<1>4. ASSUME NEW x \in ToSet(f) PROVE x \in ToSet(s) \cup ToSet(t)
  <2>1. PICK i \in 1..Len(f) : x = f[i]
    BY <1>3 DEF ToSet
  <2>2. CASE i <= Len(s)
    <3>1. i \in 1..Len(s)
      BY <1>1, <2>2
    <3>. QED  BY <1>1, <1>2, <2>1, <3>1 DEF ToSet
  <2>3. CASE ~(i <= Len(s))
    <3>. DEFINE j == i - Len(s)
    <3>1. j \in 1..Len(t) /\ i = Len(s) + j
      BY <1>1, <2>3
    <3>. HIDE DEF j
    <3>. QED  BY <1>1, <1>2, <2>1, <3>1 DEF ToSet
  <2>. QED  BY <2>2, <2>3
<1>5. ASSUME NEW x \in ToSet(s) PROVE x \in ToSet(f)
  <2>1. PICK i \in 1..Len(s) : x = s[i]
    BY <1>2 DEF ToSet
  <2>2. i \in 1..Len(f)
    BY <1>1
  <2>. QED  BY <1>1, <1>3, <2>1, <2>2 DEF ToSet
<1>6. ASSUME NEW x \in ToSet(t) PROVE x \in ToSet(f)
  <2>1. PICK i \in 1..Len(t) : x = t[i]
    BY <1>2 DEF ToSet
  <2>. DEFINE j == Len(s) + i
  <2>2. j \in 1..Len(f)
    BY <1>1
  <2>3. f[j] = t[i]
    BY <1>1
  <2>. HIDE DEF j
  <2>. QED  BY <1>3, <2>1, <2>2, <2>3 DEF ToSet
<1>. QED  BY <1>4, <1>5, <1>6 DEF f

InParts(ss) == ToSet(FlattenSeq(ss)) = UNION {ToSet(ss[i]) : i \in DOMAIN ss}

LEMMA InFlattened ==
  ASSUME NEW S
  PROVE  \A ss \in Seq(Seq(S)) : InParts(ss)
<1>. DEFINE Q == Seq(S)
            T == {ss \in Seq(Q) : InParts(ss)}
<1>1. << >> \in T
  BY FlattenEmpty DEF InParts, ToSet
<1>2. ASSUME NEW s \in Seq(Q), NEW e \in Q, s \in T PROVE <<e>> \o s \in T
  <2>. DEFINE f == <<e>> \o s
              n == 1
              v == FlattenSeq(s)
  <2>1. /\ f \in Seq(Q) /\ f[n] = e /\ Len(s) \in Nat /\ \A i \in 1..Len(s) : f[n + i] = s[i]
        /\ DOMAIN f = 1..(1 + Len(s)) /\ DOMAIN s = 1..Len(s)
    BY ConsFacts
  <2>2. FlattenSeq(f) = e \o v /\ v \in Q
    BY FlattenCons, FlattenType
  <2>3. ToSet(v) = UNION {ToSet(s[i]) : i \in DOMAIN s}
    BY <1>2 DEF InParts
  <2>. HIDE DEF f, v
  <2>4. ToSet(FlattenSeq(f)) = ToSet(e) \cup ToSet(v)
    BY <2>2, InBoth
  <2>5. UNION {ToSet(f[i]) : i \in DOMAIN f} = ToSet(e) \cup UNION {ToSet(s[i]) : i \in DOMAIN s}
    <3>1. ASSUME NEW i \in DOMAIN f PROVE ToSet(f[i]) \subseteq ToSet(e) \cup UNION {ToSet(s[j]) : j \in DOMAIN s}
      <4>1. CASE i = n
        BY <2>1, <4>1
      <4>2. CASE i # n
        <5>. DEFINE j == i - 1
        <5>1. j \in DOMAIN s /\ j \in 1..Len(s) /\ i = n + j
          BY <2>1, <4>2
        <5>. HIDE DEF j, n
        <5>2. f[i] = s[j]
          BY <2>1, <5>1
        <5>. QED  BY <5>1, <5>2
      <4>. QED  BY <4>1, <4>2
    <3>2. n \in DOMAIN f /\ ToSet(f[n]) = ToSet(e)
      BY <2>1
    <3>3. ASSUME NEW j \in DOMAIN s PROVE \E i \in DOMAIN f : f[i] = s[j]
      <4>1. n + j \in DOMAIN f /\ f[n + j] = s[j]
        BY <2>1
      <4>. QED  BY <4>1
    <3>. HIDE DEF n
    <3>. QED  BY <3>1, <3>2, <3>3
  <2>. QED  BY <2>1, <2>3, <2>4, <2>5 DEF InParts, f
<1>. HIDE DEF T, Q
<1>3. Seq(Q) \subseteq T
  BY <1>1, <1>2, ConsInduction
<1>. QED  BY <1>3 DEF T, Q

LEMMA SeqMade ==
  ASSUME NEW S, NEW n \in Nat, NEW f, f \in [1..n -> S]
  PROVE  f \in Seq(S) /\ Len(f) = n /\ DOMAIN f = 1..n
BY SeqDef, LenProperties

Pairs(P, A, B) == \A x : x \in P <=> \E s \in A, t \in B : x = s \o t

LEMMA ProductsAre ==
  ASSUME NEW ss \in Seq(Texts), NEW ts \in Seq(Texts)
  PROVE  Products(ss, ts) \in Seq(Texts) /\ Pairs(ToSet(Products(ss, ts)), ToSet(ss), ToSet(ts))
<1>. DEFINE row(i) == [j \in DOMAIN ts |-> ss[i] \o ts[j]]
            rows == [i \in DOMAIN ss |-> row(i)]
<1>1. /\ DOMAIN ss = 1..Len(ss) /\ DOMAIN ts = 1..Len(ts) /\ Len(ss) \in Nat /\ Len(ts) \in Nat
      /\ (\A i \in 1..Len(ss) : ss[i] \in Texts) /\ (\A i \in 1..Len(ts) : ts[i] \in Texts)
  BY LenProperties, ElementOfSeq
<1>2. ASSUME NEW i \in 1..Len(ss)
      PROVE  row(i) \in Seq(Texts) /\ DOMAIN row(i) = 1..Len(ts) /\ \A j \in 1..Len(ts) : row(i)[j] = ss[i] \o ts[j]
  <2>1. \A j \in 1..Len(ts) : ss[i] \o ts[j] \in Texts
    BY <1>1, ConcatProperties DEF Texts
  <2>2. row(i) \in [1..Len(ts) -> Texts] /\ \A j \in 1..Len(ts) : row(i)[j] = ss[i] \o ts[j]
    BY <1>1, <2>1
  <2>. DEFINE f == row(i)
  <2>3. f \in [1..Len(ts) -> Texts]
    BY <2>2
  <2>. HIDE DEF f
  <2>4. f \in Seq(Texts) /\ DOMAIN f = 1..Len(ts)
    BY <1>1, <2>3, SeqMade
  <2>. QED  BY <2>2, <2>4 DEF f
<1>3. Products(ss, ts) = FlattenSeq(rows)
  BY DEF Products
<1>. HIDE DEF row
<1>4. rows \in Seq(Seq(Texts)) /\ DOMAIN rows = 1..Len(ss) /\ \A i \in 1..Len(ss) : rows[i] = row(i)
  <2>1. rows \in [1..Len(ss) -> Seq(Texts)] /\ \A i \in 1..Len(ss) : rows[i] = row(i)
    BY <1>1, <1>2
  <2>. HIDE DEF rows
  <2>2. rows \in Seq(Seq(Texts)) /\ DOMAIN rows = 1..Len(ss)
    BY <1>1, <2>1, SeqMade
  <2>. QED  BY <2>1, <2>2
<1>. HIDE DEF rows
<1>5. FlattenSeq(rows) \in Seq(Texts) /\ InParts(rows)
  BY <1>4, FlattenType, InFlattened
<1>6. ToSet(FlattenSeq(rows)) = UNION {ToSet(row(i)) : i \in 1..Len(ss)}
  <2>1. ToSet(FlattenSeq(rows)) = UNION {ToSet(rows[i]) : i \in DOMAIN rows}
    BY <1>5 DEF InParts
  <2>. QED  BY <1>4, <2>1
<1>7. \A i \in 1..Len(ss) : ToSet(row(i)) = {ss[i] \o ts[j] : j \in 1..Len(ts)}
  BY <1>2 DEF ToSet
<1>8. ToSet(ss) = {ss[i] : i \in 1..Len(ss)} /\ ToSet(ts) = {ts[j] : j \in 1..Len(ts)}
  BY <1>1 DEF ToSet
<1>. DEFINE L == UNION {ToSet(row(i)) : i \in 1..Len(ss)}
            R(x) == \E s \in ToSet(ss), t \in ToSet(ts) : x = s \o t
<1>9. ASSUME NEW x, x \in L PROVE R(x)
  <2>1. PICK i \in 1..Len(ss) : x \in ToSet(row(i))
    BY <1>9
  <2>2. PICK j \in 1..Len(ts) : x = ss[i] \o ts[j]
    BY <1>7, <2>1
  <2>. DEFINE a == ss[i]
              b == ts[j]
  <2>3. a \in ToSet(ss) /\ b \in ToSet(ts) /\ x = a \o b
    BY <1>8, <2>2
  <2>. HIDE DEF a, b
  <2>. QED  BY <2>3
<1>10. ASSUME NEW x, R(x) PROVE x \in L
  <2>1. PICK s \in ToSet(ss), t \in ToSet(ts) : x = s \o t
    BY <1>10
  <2>2. PICK i \in 1..Len(ss) : s = ss[i]
    BY <1>8
  <2>3. PICK j \in 1..Len(ts) : t = ts[j]
    BY <1>8
  <2>4. x \in ToSet(row(i))
    <3>1. x = ss[i] \o ts[j]
      BY <2>1, <2>2, <2>3
    <3>2. ss[i] \o ts[j] \in {ss[i] \o ts[k] : k \in 1..Len(ts)}
      BY Zenon
    <3>. HIDE DEF L, R
    <3>. QED  BY <1>7, <3>1, <3>2
  <2>. QED  BY <2>4
<1>11. ToSet(Products(ss, ts)) = L /\ Products(ss, ts) \in Seq(Texts)
  BY <1>3, <1>5, <1>6
<1>. HIDE DEF L
<1>12. \A x : x \in L <=> R(x)
  BY <1>9, <1>10
<1>. QED  BY <1>11, <1>12 DEF Pairs

-----------------------------------------------------------------------------
(* Expand as steps that take shorter texts.                                *)

Within(P, n) == \A x \in ToSet(P) : Len(x) <= n

LEMMA OneIn == \A x : ToSet(<<x>>) = {x}
BY DEF ToSet

LEMMA PiecesWithin ==
  ASSUME NEW S, NEW cuts
  PROVE  \A s \in Seq(S) : Within(Pieces(s, cuts), Len(s))
<1>. DEFINE T == {s \in Seq(S) : Within(Pieces(s, cuts), Len(s))}
            n == << >>
<1>1. << >> \in T
  <2>1. Pieces(n, cuts) = <<n>> /\ n \in Seq(S) /\ Len(n) = 0
    <3>1. Pieces(<< >>, cuts) = << << >> >>
      BY PiecesSteps
    <3>2. << >> \in Seq(S) /\ Len(<< >>) = 0
      OBVIOUS
    <3>. QED  BY <3>1, <3>2
  <2>. HIDE DEF n
  <2>. DEFINE P == Pieces(n, cuts)
              o == <<n>>
  <2>0. P = o
    BY <2>1
  <2>2. ToSet(o) = {n}
    BY OneIn
  <2>. HIDE DEF P, o
  <2>3. \A x \in ToSet(P) : Len(x) <= Len(n)
    BY <2>0, <2>1, <2>2
  <2>4. Within(P, Len(n))
    BY <2>3 DEF Within
  <2>. QED  BY <2>1, <2>4 DEF n, P
<1>2. ASSUME NEW s \in Seq(S), NEW e \in S, s \in T PROVE Append(s, e) \in T
  <2>. DEFINE f == Append(s, e)
              P == Pieces(s, cuts)
              l == Len(s)
  <2>1. f \in Seq(S) /\ Len(f) = l + 1 /\ l \in Nat
    BY AppendProperties, LenProperties
  <2>2. Grows(s, e, cuts) /\ P \in SomePieces(S)
    BY PiecesSteps, PiecesType
  <2>3. Pieces(f, cuts) = IF l + 1 \in cuts THEN Parted(P) ELSE Extended(P, e)
    BY <2>2 DEF Grows
  <2>4. PICK A \in Seq(Seq(S)), x \in Seq(S) : P = A \o <<x>>
    BY <2>2, SomePiecesAre
  <2>5. Within(P, l)
    BY <1>2
  <2>. HIDE DEF f, P, l
  <2>. DEFINE y == Append(x, e)
              o == <<x>>
              m == <<y>>
              z == <<n>>
  <2>6. Extended(P, e) = A \o m /\ Parted(P) = P \o z
    <3>1. ExtendsBy(A, x, e)
      BY ExtendedIs
    <3>. QED  BY <2>4, <3>1 DEF ExtendsBy
  <2>7. y \in Seq(S) /\ Len(y) = Len(x) + 1 /\ Len(x) \in Nat /\ n \in Seq(S) /\ Len(n) = 0
    BY AppendProperties, LenProperties
  <2>8. o \in Seq(Seq(S)) /\ m \in Seq(Seq(S)) /\ z \in Seq(Seq(S)) /\ P \in Seq(Seq(S))
    <3>. HIDE DEF y, n
    <3>. QED  BY <2>2, <2>7 DEF SomePieces
  <2>9. ToSet(o) = {x} /\ ToSet(m) = {y} /\ ToSet(z) = {n}
    BY OneIn
  <2>. HIDE DEF o, m, z, y, n
  <2>10. ToSet(A \o o) = ToSet(A) \cup {x} /\ ToSet(A \o m) = ToSet(A) \cup {y} /\ ToSet(P \o z) = ToSet(P) \cup {n}
    BY <2>8, <2>9, InBoth
  <2>11. \A p \in ToSet(P) : Len(p) <= l /\ Len(p) \in Nat
    <3>1. \A p \in ToSet(P) : p \in Seq(S)
      <4>1. \A i \in DOMAIN P : P[i] \in Seq(S)
        BY <2>8, LenProperties, ElementOfSeq
      <4>. QED  BY <4>1 DEF ToSet
    <3>. QED  BY <2>5, <3>1, LenProperties DEF Within
  <2>12. ToSet(P) = ToSet(A) \cup {x}
    BY <2>4, <2>10 DEF o
  <2>13. Within(P \o z, l + 1)
    <3>1. \A p \in ToSet(P) : Len(p) <= l + 1
      BY <2>1, <2>11
    <3>. QED  BY <2>1, <2>7, <2>10, <3>1 DEF Within
  <2>14. Within(A \o m, l + 1)
    <3>1. \A p \in ToSet(A) : Len(p) <= l + 1
      BY <2>1, <2>11, <2>12
    <3>2. Len(y) <= l + 1
      BY <2>1, <2>7, <2>11, <2>12
    <3>. QED  BY <2>10, <3>1, <3>2 DEF Within
  <2>15. Within(Pieces(f, cuts), Len(f))
    BY <2>1, <2>3, <2>6, <2>13, <2>14
  <2>. QED  BY <2>1, <2>15 DEF f
<1>. HIDE DEF T
<1>3. Seq(S) \subseteq T
  BY <1>1, <1>2, AppendInduction
<1>. QED  BY <1>3 DEF T

LEMMA LeastIn ==
  ASSUME NEW T, T \subseteq Nat, T # {}
  PROVE  Least(T) \in T /\ \A j \in T : Least(T) <= j
<1>1. \E n \in T : \A m \in T : n <= m
  BY LeastNumber
<1>. QED  BY <1>1 DEF Least

LEMMA LeastIs ==
  ASSUME NEW T, T \subseteq Nat, NEW n \in T, \A j \in T : n <= j
  PROVE  Least(T) = n
<1>1. Least(T) \in T /\ Least(T) <= n
  BY LeastIn
<1>2. n <= Least(T) /\ Least(T) \in Nat /\ n \in Nat
  BY <1>1
<1>. QED  BY <1>1, <1>2

OpensOf(p)  == {i \in DOMAIN p : p[i] = "{" /\ ~Nesting(Outside, p)[i - 1].escape}
OpenOf(p)   == Least(OpensOf(p))
EndsOf(p)   == {i \in DOMAIN p : i > OpenOf(p) /\ Nesting(Outside, p)[i].depth = 0}
EndOf(p)    == Least(EndsOf(p))
GroupIn(p)  == SubSeq(p, OpenOf(p) + 1, EndOf(p) - 1)
CommasOf(p) ==
  {i \in DOMAIN GroupIn(p) : /\ GroupIn(p)[i] = "," /\ ~Nesting(Outside, p)[OpenOf(p) + i - 1].escape
                             /\ Nesting(Outside, p)[OpenOf(p) + i].depth = 1}
PiecesOf(p) == Pieces(GroupIn(p), CommasOf(p))
Alts(f, P)  == FlattenSeq([i \in DOMAIN P |-> f[P[i]]])

ExpandStep(f, p) ==
  IF OpensOf(p) = {} \/ EndsOf(p) = {} THEN <<p>>
  ELSE IF CommasOf(p) = {} THEN Products(<<SubSeq(p, 1, EndOf(p))>>, f[Drop(p, EndOf(p))])
  ELSE Products(Products(<<SubSeq(p, 1, OpenOf(p) - 1)>>, Alts(f, PiecesOf(p))), f[Drop(p, EndOf(p))])

Grouped(p) ==
  /\ SubSeq(p, 1, EndOf(p)) \in Texts /\ SubSeq(p, 1, OpenOf(p) - 1) \in Texts
  /\ Drop(p, EndOf(p)) \in Texts /\ Length[Drop(p, EndOf(p))] < Length[p]
  /\ PiecesOf(p) \in Seq(Texts) /\ \A i \in DOMAIN PiecesOf(p) : PiecesOf(p)[i] \in Texts /\ Length[PiecesOf(p)[i]] < Length[p]

LEMMA GroupFound ==
  ASSUME NEW p \in Texts, OpensOf(p) # {}, EndsOf(p) # {}
  PROVE  Grouped(p)
<1>. DEFINE open == OpenOf(p)
            end == EndOf(p)
            g == GroupIn(p)
            P == PiecesOf(p)
<1>1. DOMAIN p = 1..Len(p) /\ Len(p) \in Nat
  BY LenProperties DEF Texts
<1>2. open \in 1..Len(p)
  <2>1. OpensOf(p) \subseteq 1..Len(p)
    BY <1>1 DEF OpensOf
  <2>2. OpensOf(p) \subseteq Nat
    BY <2>1
  <2>3. open \in OpensOf(p)
    BY <2>2, LeastIn DEF OpenOf
  <2>. QED  BY <2>1, <2>3
<1>3. end \in 1..Len(p) /\ end > open
  <2>1. EndsOf(p) \subseteq 1..Len(p) /\ \A i \in EndsOf(p) : i > open
    BY <1>1 DEF EndsOf
  <2>2. EndsOf(p) \subseteq Nat
    BY <2>1
  <2>3. end \in EndsOf(p)
    BY <2>2, LeastIn DEF EndOf
  <2>. QED  BY <2>1, <2>3
<1>. HIDE DEF open, end
<1>4. SubSeq(p, 1, end) \in Texts /\ SubSeq(p, 1, open - 1) \in Texts
  <2>. DEFINE z == 0
              k == open - 1
  <2>1. z \in Nat /\ k \in Nat /\ end \in Nat /\ k <= Len(p) /\ end <= Len(p) /\ z <= k /\ z <= end
    BY <1>1, <1>2, <1>3
  <2>. HIDE DEF z, k
  <2>2. SubSeq(p, z + 1, k) \in Texts /\ SubSeq(p, z + 1, end) \in Texts
    BY <2>1, PieceIs DEF Texts
  <2>. QED  BY <2>2 DEF z, k
<1>5. g \in Texts /\ Len(g) < Len(p) /\ Len(g) \in Nat
  <2>. DEFINE k == end - 1
  <2>1. open \in Nat /\ k \in Nat /\ open <= k /\ k <= Len(p) /\ k - open < Len(p) /\ k - open \in Nat
    BY <1>1, <1>2, <1>3
  <2>. HIDE DEF k
  <2>2. SubSeq(p, open + 1, k) \in Texts /\ Len(SubSeq(p, open + 1, k)) = k - open
    BY <2>1, PieceIs DEF Texts
  <2>3. g = SubSeq(p, open + 1, k)
    BY DEF GroupIn, open, end, k
  <2>. HIDE DEF g
  <2>. QED  BY <2>1, <2>2, <2>3
<1>6. Drop(p, end) \in Texts /\ Length[Drop(p, end)] < Length[p]
  <2>1. end \in Nat \ {0} /\ end <= Len(p)
    BY <1>1, <1>3
  <2>. QED  BY <2>1, DropShortens
<1>. HIDE DEF g
<1>7. P \in Seq(Texts) /\ Within(P, Len(g))
  <2>. DEFINE X == CommasOf(p)
  <2>1. P = Pieces(g, X)
    BY DEF PiecesOf, g
  <2>. HIDE DEF X, P
  <2>2. Pieces(g, X) \in SomePieces(Symbols) /\ Within(Pieces(g, X), Len(g))
    BY <1>5, PiecesType, PiecesWithin DEF Texts
  <2>. QED  BY <2>1, <2>2 DEF SomePieces, Texts
<1>. HIDE DEF P
<1>8. ASSUME NEW i \in DOMAIN P PROVE P[i] \in Texts /\ Length[P[i]] < Length[p]
  <2>. DEFINE x == P[i]
  <2>1. x \in Texts /\ x \in ToSet(P)
    BY <1>7, LenProperties, ElementOfSeq DEF ToSet
  <2>. HIDE DEF x
  <2>2. Len(x) <= Len(g) /\ Len(x) \in Nat
    BY <1>7, <2>1, LenProperties DEF Within, Texts
  <2>3. Length[x] = Len(x) /\ Length[p] = Len(p)
    BY <2>1, LengthType
  <2>4. Len(x) < Len(p)
    BY <1>1, <1>5, <2>2
  <2>. QED  BY <2>1, <2>3, <2>4 DEF x
<1>. QED  BY <1>4, <1>6, <1>7, <1>8 DEF Grouped, open, end, P

LEMMA AltsAre ==
  ASSUME NEW f \in [Texts -> Seq(Texts)], NEW P \in Seq(Texts)
  PROVE  Alts(f, P) \in Seq(Texts) /\ ToSet(Alts(f, P)) = UNION {ToSet(f[P[i]]) : i \in DOMAIN P}
<1>. DEFINE rows == Mapped(f, P)
            L == Len(P)
<1>1. rows \in Seq(Seq(Texts)) /\ Len(rows) = L /\ \A i \in 1..L : rows[i] = f[P[i]]
  <2>. DEFINE R == Seq(Texts)
  <2>1. Maps(f, Texts, R)
    BY DEF Maps
  <2>. HIDE DEF R
  <2>2. Mapped(f, P) \in Seq(R) /\ Len(Mapped(f, P)) = Len(P) /\ \A i \in 1..Len(P) : Mapped(f, P)[i] = f[P[i]]
    BY <2>1, MappedType
  <2>. QED  BY <2>2 DEF R
<1>2. Alts(f, P) = FlattenSeq(rows)
  BY DEF Alts, Mapped
<1>3. DOMAIN P = 1..L
  BY LenProperties
<1>. HIDE DEF rows, L
<1>4. DOMAIN rows = 1..L
  BY <1>1, LenProperties
<1>5. FlattenSeq(rows) \in Seq(Texts) /\ InParts(rows)
  BY <1>1, FlattenType, InFlattened
<1>6. ToSet(FlattenSeq(rows)) = UNION {ToSet(rows[i]) : i \in 1..L}
  BY <1>4, <1>5 DEF InParts
<1>7. UNION {ToSet(rows[i]) : i \in 1..L} = UNION {ToSet(f[P[i]]) : i \in 1..L}
  BY <1>1
<1>. QED  BY <1>2, <1>3, <1>5, <1>6, <1>7

LEMMA ExpandStepType ==
  ASSUME NEW p \in Texts, NEW f \in [Texts -> Seq(Texts)]
  PROVE  ExpandStep(f, p) \in Seq(Texts)
<1>1. CASE OpensOf(p) = {} \/ EndsOf(p) = {}
  <2>1. ExpandStep(f, p) = <<p>>
    BY <1>1 DEF ExpandStep
  <2>. QED  BY <2>1
<1>2. CASE ~(OpensOf(p) = {} \/ EndsOf(p) = {})
  <2>. DEFINE a == SubSeq(p, 1, EndOf(p))
              b == SubSeq(p, 1, OpenOf(p) - 1)
              r == Drop(p, EndOf(p))
              ao == <<a>>
              bo == <<b>>
              x == Alts(f, PiecesOf(p))
              y == f[r]
  <2>1. Grouped(p)
    BY <1>2, GroupFound
  <2>2. a \in Texts /\ b \in Texts /\ r \in Texts /\ PiecesOf(p) \in Seq(Texts)
    BY <2>1 DEF Grouped
  <2>. HIDE DEF a, b, r
  <2>3. ao \in Seq(Texts) /\ bo \in Seq(Texts) /\ y \in Seq(Texts)
    BY <2>2
  <2>. DEFINE P == PiecesOf(p)
  <2>4. x \in Seq(Texts)
    <3>1. P \in Seq(Texts)
      BY <2>2
    <3>. HIDE DEF P
    <3>2. Alts(f, P) \in Seq(Texts)
      BY <3>1, AltsAre
    <3>. QED  BY <3>2 DEF P
  <2>. HIDE DEF ao, bo, x, y
  <2>5. Products(ao, y) \in Seq(Texts)
    BY <2>3, ProductsAre
  <2>. DEFINE z == Products(bo, x)
  <2>6. z \in Seq(Texts)
    BY <2>3, <2>4, ProductsAre
  <2>. HIDE DEF z
  <2>7. Products(z, y) \in Seq(Texts)
    BY <2>3, <2>6, ProductsAre
  <2>8. ExpandStep(f, p) = IF CommasOf(p) = {} THEN Products(ao, y) ELSE Products(z, y)
    BY <1>2 DEF ExpandStep, ao, bo, x, y, z, a, b, r
  <2>. QED  BY <2>5, <2>7, <2>8
<1>. QED  BY <1>1, <1>2

LEMMA ExpandStepLocal ==
  ASSUME NEW p \in Texts, NEW f, NEW g, \A r \in Texts : Length[r] < Length[p] => f[r] = g[r]
  PROVE  ExpandStep(f, p) = ExpandStep(g, p)
<1>1. CASE OpensOf(p) = {} \/ EndsOf(p) = {}
  BY <1>1 DEF ExpandStep
<1>2. CASE ~(OpensOf(p) = {} \/ EndsOf(p) = {})
  <2>. DEFINE r == Drop(p, EndOf(p))
              P == PiecesOf(p)
  <2>1. Grouped(p)
    BY <1>2, GroupFound
  <2>2. f[r] = g[r] /\ \A i \in DOMAIN P : f[P[i]] = g[P[i]]
    BY <2>1 DEF Grouped
  <2>3. [i \in DOMAIN P |-> f[P[i]]] = [i \in DOMAIN P |-> g[P[i]]]
    BY <2>2
  <2>4. Alts(f, P) = Alts(g, P)
    BY <2>3 DEF Alts
  <2>. QED  BY <2>2, <2>4 DEF ExpandStep
<1>. QED  BY <1>1, <1>2

LEMMA ExpandIs ==
  /\ Expand \in [Texts -> Seq(Texts)]
  /\ \A q \in Texts : Expand[q] = ExpandStep(Expand, q)
<1>. DEFINE X == Seq(Texts)
            step == [a \in Texts \X [Texts -> X] |-> ExpandStep(a[2], a[1])]
            Solves(f) == f = [q \in Texts |-> ExpandStep(f, q)]
            x == << >>
<1>1. Stepping(step, Texts, X)
  BY ExpandStepType DEF Stepping
<1>2. ASSUME NEW q \in Texts, NEW g \in [Texts -> X], NEW h \in [Texts -> X],
             \A r \in Texts : Length[r] < Length[q] => g[r] = h[r]
      PROVE  step[<<q, g>>] = step[<<q, h>>]
  BY <1>2, ExpandStepLocal
<1>3. \A q \in Texts, f \in [Texts -> X] : step[<<q, f>>] = ExpandStep(f, q)
  OBVIOUS
<1>4. x \in X /\ Sized(Length, Texts) /\ Length \in [Texts -> Nat]
  BY LengthType DEF Maps, Sized
<1>. HIDE DEF step, x, X
<1>5. PICK f \in [Texts -> X] : \A q \in Texts : f[q] = step[<<q, f>>]
  <2>1. Local(step, Texts, X, Length)
    BY <1>2 DEF Local
  <2>2. \E f : Solution(f, step, Texts, X)
    BY <1>1, <1>4, <2>1, SolutionExists
  <2>. QED  BY <2>2 DEF Solution
<1>6. Solves(f)
  <2>1. f = [q \in Texts |-> f[q]] /\ \A q \in Texts : f[q] = ExpandStep(f, q)
    BY <1>3, <1>5
  <2>. QED  BY <2>1, ZenonT(30)
<1>7. Expand = CHOOSE g : Solves(g)
  BY DEF Expand, ExpandStep, Texts, OpensOf, OpenOf, EndsOf, EndOf, GroupIn, CommasOf, PiecesOf, Alts
<1>8. Solves(Expand)
  <2>. HIDE DEF Solves
  <2>. QED  BY <1>6, <1>7
<1>9. \A q \in Texts : Expand[q] = ExpandStep(Expand, q)
  BY <1>8, ZenonT(30)
<1>. DEFINE T == {q \in Texts : Expand[q] = f[q]}
<1>10. ASSUME NEW q \in Texts, \A r \in Texts : Length[r] < Length[q] => r \in T PROVE q \in T
  <2>1. ExpandStep(Expand, q) = ExpandStep(f, q)
    <3>1. \A r \in Texts : Length[r] < Length[q] => Expand[r] = f[r]
      BY <1>10
    <3>. QED  BY <3>1, ExpandStepLocal
  <2>. QED  BY <1>3, <1>5, <1>9, <2>1
<1>11. Texts \subseteq T
  <2>. HIDE DEF T
  <2>. QED  BY <1>4, <1>10, SizeInduction
<1>12. Expand = f
  <2>1. Expand = [q \in Texts |-> Expand[q]]
    BY <1>8, ZenonT(30)
  <2>2. \A q \in Texts : Expand[q] = f[q]
    BY <1>11
  <2>. QED  BY <1>5, <2>1, <2>2
<1>. QED  BY <1>5, <1>9, <1>12 DEF X

=============================================================================
