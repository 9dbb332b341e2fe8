--------------------------- MODULE SandboxProofs ----------------------------
(***************************************************************************)
(* What EvalSymlinks finds, in every tree; and from that, what Sandbox.tla *)
(* promises, for every number of calls and roots, every set of trees and   *)
(* any number of changes.                                                  *)
(***************************************************************************)
EXTENDS Sandbox, SequenceTheorems, FiniteSetTheorems, WellFoundedInduction, TLAPS

-----------------------------------------------------------------------------
(* Paths and trees.  The functions of PathFS are defined by recursion over *)
(* a number; here they are shown to exist and to be unique, by looking at  *)
(* the least number for which they would not.                              *)

LEMMA LeastNumber ==
  ASSUME NEW T, T \subseteq Nat, T # {}
  PROVE  \E n \in T : \A m \in T : n <= m
<1>. DEFINE R == OpToRel(<, Nat)
<1>1. IsWellFoundedOn(R, Nat)
  BY NatLessThanWellFounded
<1>2. \A n, m \in Nat : n < m => <<n, m>> \in R
  BY DEF OpToRel
<1>. HIDE DEF R
<1>3. PICK n \in T : \A m \in T : <<m, n>> \notin R
  BY <1>1, WFMin
<1>4. ASSUME NEW m \in T PROVE n <= m
  <2>1. n \in Nat /\ m \in Nat /\ ~(m < n)
    BY <1>2, <1>3
  <2>. QED  BY <2>1
<1>. QED  BY <1>4

-----------------------------------------------------------------------------
(* Sequences.                                                              *)

IsSeq(s) == s \in Seq(ToSet(s))

LEMMA SeqIsSeq ==
  ASSUME NEW S, NEW s \in Seq(S)
  PROVE  IsSeq(s)
<1>1. DOMAIN s = 1..Len(s) /\ Len(s) \in Nat /\ s \in [1..Len(s) -> S]
  BY LenProperties
<1>2. s \in [1..Len(s) -> ToSet(s)]
  BY <1>1 DEF ToSet
<1>. QED  BY <1>1, <1>2, SeqDef DEF IsSeq

LEMMA AppendIsSeq ==
  ASSUME NEW s, IsSeq(s), NEW e
  PROVE  /\ IsSeq(Append(s, e)) /\ Append(s, e) # << >>
         /\ Front(Append(s, e)) = s
<1>. DEFINE S == ToSet(s) \cup {e}
<1>1. s \in Seq(S) /\ e \in S
  BY SeqMonotonic DEF IsSeq
<1>. HIDE DEF S
<1>2. /\ Append(s, e) \in Seq(S) /\ Append(s, e) # << >>
      /\ Len(Append(s, e)) = Len(s) + 1 /\ Len(s) \in Nat
      /\ \A i \in 1..Len(s) : Append(s, e)[i] = s[i]
  BY <1>1, AppendProperties, LenProperties
<1>3. Front(Append(s, e)) = SubSeq(Append(s, e), 1, Len(s))
  BY <1>2 DEF Front
<1>4. /\ SubSeq(Append(s, e), 1, Len(s)) \in Seq(S)
      /\ Len(SubSeq(Append(s, e), 1, Len(s))) = Len(s)
      /\ \A i \in 1..Len(s) : SubSeq(Append(s, e), 1, Len(s))[i] = s[i]
  <2>1. \A i \in 1..Len(s) : Append(s, e)[i] \in S
    BY <1>1, <1>2, ElementOfSeq
  <2>. QED  BY <1>2, <2>1, SubSeqProperties
<1>5. SubSeq(Append(s, e), 1, Len(s)) = s
  BY <1>1, <1>4, SeqEqual
<1>. QED  BY <1>2, <1>3, <1>5, SeqIsSeq

LEMMA ConcatIsSeq ==
  ASSUME NEW s, NEW t, IsSeq(s), IsSeq(t)
  PROVE  IsSeq(s \o t) /\ (t # << >> => s \o t # << >>)
<1>. DEFINE S == ToSet(s) \cup ToSet(t)
<1>1. s \in Seq(S) /\ t \in Seq(S)
  BY SeqMonotonic DEF IsSeq
<1>. HIDE DEF S
<1>. QED  BY <1>1, ConcatProperties, ConcatSimplifications, SeqIsSeq

LEMMA TailIsSeq ==
  ASSUME NEW s, IsSeq(s), s # << >>
  PROVE  IsSeq(Tail(s)) /\ (Len(s) # 1 => Tail(s) # << >>)
<1>1. s \in Seq(ToSet(s)) /\ Len(s) \in Nat \ {0}
  BY EmptySeq DEF IsSeq
<1>2. Tail(s) \in Seq(ToSet(s)) /\ Len(Tail(s)) = Len(s) - 1
  BY <1>1, HeadTailProperties
<1>3. IsSeq(Tail(s))
  BY <1>2, SeqIsSeq
<1>4. Len(s) # 1 => Len(Tail(s)) # Len(<< >>)
  BY <1>1, <1>2
<1>. QED  BY <1>3, <1>4

LEMMA SetToSeqIsSeq ==
  ASSUME NEW S, IsFiniteSet(S)
  PROVE  SetToSeq(S) \in Seq(S) /\ IsSeq(SetToSeq(S))
<1>1. Cardinality(S) \in Nat /\ ExistsBijection(1..Cardinality(S), S)
  BY FS_CardinalityType
<1>2. \E f \in [1..Cardinality(S) -> S] : IsInjective(f)
  BY <1>1 DEF ExistsBijection, Bijection, Injection, Surjection
<1>3. SetToSeq(S) \in [1..Cardinality(S) -> S]
  BY <1>2 DEF SetToSeq
<1>4. SetToSeq(S) \in Seq(S)
  BY <1>1, <1>3, SeqDef
<1>. QED  BY <1>4, SeqIsSeq

LEMMA LastOfAppend ==
  ASSUME NEW s, IsSeq(s), NEW e
  PROVE  Last(Append(s, e)) = e
<1>. DEFINE S == ToSet(s) \cup {e}
<1>1. s \in Seq(S) /\ e \in S
  BY SeqMonotonic DEF IsSeq
<1>. HIDE DEF S
<1>. QED  BY <1>1, AppendProperties, LenProperties DEF Last

\* Appending and deleting keep a sequence one of elements of the same set.
LEMMA AppendToSet ==
  ASSUME NEW S, NEW s \in Seq(S), NEW x \in S
  PROVE  /\ Append(s, x) \in Seq(S)
         /\ ToSet(Append(s, x)) = ToSet(s) \cup {x}
<1>1. /\ Append(s, x) \in Seq(S) /\ Len(Append(s, x)) = Len(s) + 1
      /\ DOMAIN Append(s, x) = 1..(Len(s) + 1) /\ DOMAIN s = 1..Len(s)
      /\ Append(s, x)[Len(s) + 1] = x /\ Len(s) \in Nat
      /\ \A j \in 1..Len(s) : Append(s, x)[j] = s[j]
  OBVIOUS
<1>2. \A y \in ToSet(Append(s, x)) : y \in ToSet(s) \cup {x}
  BY <1>1 DEF ToSet
<1>3. \A y \in ToSet(s) \cup {x} : y \in ToSet(Append(s, x))
  BY <1>1 DEF ToSet
<1>. QED  BY <1>1, <1>2, <1>3

LEMMA RemoveAtToSet ==
  ASSUME NEW S, NEW s \in Seq(S), NEW i \in DOMAIN s
  PROVE  /\ RemoveAt(s, i) \in Seq(S)
         /\ DOMAIN RemoveAt(s, i) = 1..(Len(s) - 1)
         /\ \A j \in 1..(Len(s) - 1) :
              RemoveAt(s, i)[j] = IF j < i THEN s[j] ELSE s[j + 1]
         /\ ToSet(RemoveAt(s, i)) \subseteq ToSet(s)
<1> DEFINE a == SubSeq(s, 1, i - 1)
           b == SubSeq(s, i + 1, Len(s))
<1>1. i \in 1..Len(s)
  OBVIOUS
<1>2. /\ a \in Seq(S) /\ Len(a) = i - 1
      /\ \A j \in 1..(i - 1) : a[j] = s[j]
  BY <1>1
<1>3. /\ b \in Seq(S) /\ Len(b) = Len(s) - i
      /\ \A j \in 1..(Len(s) - i) : b[j] = s[j + i]
  BY <1>1
<1>4. RemoveAt(s, i) = a \o b
  BY DEF RemoveAt
<1>5. Len(s) \in Nat /\ DOMAIN s = 1..Len(s)
  OBVIOUS
<1>. HIDE DEF a, b
<1>6. /\ a \o b \in Seq(S) /\ Len(a \o b) = Len(a) + Len(b)
      /\ \A j \in 1..(Len(a) + Len(b)) :
           (a \o b)[j] = IF j <= Len(a) THEN a[j] ELSE b[j - Len(a)]
  BY <1>2, <1>3, ConcatProperties
<1>7. Len(a) + Len(b) = Len(s) - 1
  BY <1>1, <1>2, <1>3, <1>5
<1>8. DOMAIN (a \o b) = 1..(Len(s) - 1)
  BY <1>6, <1>7
<1>9. ASSUME NEW j \in 1..(Len(s) - 1)
      PROVE  (a \o b)[j] = IF j < i THEN s[j] ELSE s[j + 1]
  <2>1. CASE j < i
    BY <1>1, <1>2, <1>5, <1>6, <1>7, <2>1
  <2>2. CASE ~(j < i)
    <3>1. ~(j <= Len(a)) /\ j - Len(a) \in 1..(Len(s) - i)
      BY <1>1, <1>2, <1>5, <2>2
    <3>2. b[j - Len(a)] = s[j + 1]
      BY SMTT(60), <1>1, <1>2, <1>3, <1>5, <2>2, <3>1
    <3>. QED  BY <1>6, <1>7, <2>2, <3>1, <3>2
  <2>. QED  BY <2>1, <2>2
<1>10. ToSet(a \o b) \subseteq ToSet(s)
  <2>. SUFFICES ASSUME NEW j \in 1..(Len(s) - 1)
                PROVE  (a \o b)[j] \in ToSet(s)
    BY <1>8 DEF ToSet
  <2>1. CASE j < i
    <3>1. (a \o b)[j] = s[j]
      BY <1>9, <2>1
    <3>2. j \in DOMAIN s
      BY <1>5
    <3>. QED  BY <3>1, <3>2 DEF ToSet
  <2>2. CASE ~(j < i)
    <3>1. (a \o b)[j] = s[j + 1]
      BY <1>9, <2>2
    <3>2. j + 1 \in DOMAIN s
      BY <1>5
    <3>. QED  BY <3>1, <3>2 DEF ToSet
  <2>. QED  BY <2>1, <2>2
<1>. QED  BY <1>4, <1>6, <1>7, <1>8, <1>9, <1>10

LEMMA ElementsOfSeq ==
  ASSUME NEW S, NEW s \in Seq(S)
  PROVE  \A x \in ToSet(s) : x \in S
<1>1. DOMAIN s = 1..Len(s)
  BY LenProperties
<1>2. \A i \in 1..Len(s) : s[i] \in S
  BY ElementOfSeq
<1>. QED  BY <1>1, <1>2 DEF ToSet

LEMMA ElementsOfTail ==
  ASSUME NEW s, IsSeq(s), s # << >>
  PROVE  /\ Head(s) \in ToSet(s) /\ IsSeq(Tail(s))
         /\ \A x \in ToSet(Tail(s)) : x \in ToSet(s)
<1>. DEFINE S == ToSet(s)
<1>1. s \in Seq(S)
  BY DEF IsSeq
<1>. HIDE DEF S
<1>2. Head(s) \in S /\ Tail(s) \in Seq(S)
  BY <1>1, HeadTailProperties
<1>3. \A x \in ToSet(Tail(s)) : x \in S
  BY <1>2, ElementsOfSeq
<1>. QED  BY <1>2, <1>3, SeqIsSeq DEF S

LEMMA ElementsOfConcat ==
  ASSUME NEW s, NEW t, IsSeq(s), IsSeq(t)
  PROVE  /\ IsSeq(s \o t)
         /\ \A x \in ToSet(s \o t) : x \in ToSet(s) \/ x \in ToSet(t)
<1>. DEFINE S == ToSet(s) \cup ToSet(t)
<1>1. s \in Seq(S) /\ t \in Seq(S)
  BY SeqMonotonic DEF IsSeq
<1>. HIDE DEF S
<1>2. s \o t \in Seq(S)
  BY <1>1, ConcatProperties
<1>3. \A x \in ToSet(s \o t) : x \in S
  BY <1>2, ElementsOfSeq
<1>. QED  BY <1>2, <1>3, SeqIsSeq DEF S

-----------------------------------------------------------------------------
(* Following links.                                                        *)

\* g is the path p, and what it leads to after 1, 2, ... n links.
Following(f, p, n, g) ==
  g = [i \in 0..n |-> IF i = 0 THEN p ELSE FollowOnce(f, g[i - 1])]

LEMMA FollowingExists ==
  ASSUME NEW f, NEW p, NEW n \in Nat
  PROVE  \E g : Following(f, p, n, g)
<1>. DEFINE Bad == {m \in Nat : ~\E g : Following(f, p, m, g)}
<1>. SUFFICES ASSUME Bad # {} PROVE FALSE
  OBVIOUS
<1>1. PICK m \in Bad : \A k \in Bad : m <= k
  BY LeastNumber
<1>2. m # 0
  <2>1. Following(f, p, 0, [i \in 0..0 |-> p])
    BY DEF Following
  <2>. QED  BY <2>1, <1>1
<1>3. PICK g : Following(f, p, m - 1, g)
  BY <1>1, <1>2
<1>4. Following(f, p, m, [i \in 0..m |-> IF i = m THEN FollowOnce(f, g[m - 1]) ELSE g[i]])
  BY <1>1, <1>2, <1>3 DEF Following
<1>. QED  BY <1>1, <1>4

LEMMA FollowingSteps ==
  ASSUME NEW f, NEW p, NEW n \in Nat, NEW g, Following(f, p, n, g)
  PROVE  /\ g[0] = p
         /\ \A i \in 0..n : i # 0 => g[i] = FollowOnce(f, g[i - 1])
<1>1. g = [i \in 0..n |-> IF i = 0 THEN p ELSE FollowOnce(f, g[i - 1])]
  BY DEF Following
<1>2. \A i \in 0..n : g[i] = IF i = 0 THEN p ELSE FollowOnce(f, g[i - 1])
  BY <1>1, ZenonT(30)
<1>. QED  BY <1>2

\* The function in EvalSymlinks, whose values are sets of one path.
FollowEach(f, paths) == {FollowOnce(f, q) : q \in paths}

FollowingSets(f, p, n, h) ==
  h = [i \in 0..n |-> IF i = 0 THEN {p} ELSE FollowEach(f, h[i - 1])]

LEMMA FollowingSetsSteps ==
  ASSUME NEW f, NEW p, NEW n \in Nat, NEW h, FollowingSets(f, p, n, h)
  PROVE  /\ h[0] = {p}
         /\ \A i \in 0..n : i # 0 => h[i] = FollowEach(f, h[i - 1])
<1>1. h = [i \in 0..n |-> IF i = 0 THEN {p} ELSE FollowEach(f, h[i - 1])]
  BY DEF FollowingSets
<1>2. \A i \in 0..n : h[i] = IF i = 0 THEN {p} ELSE FollowEach(f, h[i - 1])
  BY <1>1, ZenonT(30)
<1>. QED  BY <1>2

LEMMA FollowingSetsExist ==
  ASSUME NEW f, NEW p, NEW n \in Nat, NEW g, Following(f, p, n, g)
  PROVE  \E h : FollowingSets(f, p, n, h)
<1>1. /\ g[0] = p
      /\ \A i \in 0..n : i # 0 => g[i] = FollowOnce(f, g[i - 1])
  BY FollowingSteps
<1>2. \A q : FollowEach(f, {q}) = {FollowOnce(f, q)}
  BY DEF FollowEach
<1>3. FollowingSets(f, p, n, [i \in 0..n |-> {g[i]}])
  BY <1>1, <1>2 DEF FollowingSets
<1>. QED  BY <1>3

LEMMA FollowingSetsAre ==
  ASSUME NEW f, NEW p, NEW n \in Nat, NEW g, Following(f, p, n, g),
         NEW h, FollowingSets(f, p, n, h)
  PROVE  h[n] = {g[n]}
<1>1. /\ g[0] = p
      /\ \A i \in 0..n : i # 0 => g[i] = FollowOnce(f, g[i - 1])
  BY FollowingSteps
<1>2. \A q : FollowEach(f, {q}) = {FollowOnce(f, q)}
  BY DEF FollowEach
<1>3. h[0] = {p} /\ \A j \in 0..n : j # 0 => h[j] = FollowEach(f, h[j - 1])
  BY FollowingSetsSteps
<1>. DEFINE Bad == {i \in 0..n : h[i] # {g[i]}}
<1>4. Bad = {}
  <2>. SUFFICES ASSUME Bad # {} PROVE FALSE
    OBVIOUS
  <2>1. Bad \subseteq Nat
    OBVIOUS
  <2>2. PICK i \in Bad : \A j \in Bad : i <= j
    BY <2>1, LeastNumber
  <2>3. i \in 1..n /\ i - 1 \in 0..n /\ i - 1 \notin Bad
    BY <1>1, <1>3, <2>2
  <2>. QED  BY <1>1, <1>2, <1>3, <2>2, <2>3
<1>. QED  BY <1>4

\* What EvalSymlinks returns is read off the last of MaxLinks steps.
LEMMA EvalSymlinksIs ==
  ASSUME NEW f, NEW p, NEW g, Following(f, p, MaxLinks, g)
  PROVE  EvalSymlinks(f, p) =
           IF g[MaxLinks] \in DOMAIN f /\ LinkPositions(f, g[MaxLinks]) = {}
           THEN g[MaxLinks] ELSE NoPath
<1>. DEFINE F(h)    == FollowingSets(f, p, MaxLinks, h)
            last(h) == {q \in h[MaxLinks] \cap DOMAIN f : LinkPositions(f, q) = {}}
            sets    == CHOOSE h : F(h)
<1>1. EvalSymlinks(f, p) = IF last(sets) = {} THEN NoPath ELSE CHOOSE q \in last(sets) : TRUE
  BY DEF EvalSymlinks, FollowingSets, FollowEach
<1>2. ASSUME NEW h, F(h) PROVE h[MaxLinks] = {g[MaxLinks]}
  BY <1>2, FollowingSetsAre, PathFSAssumption
<1>3. sets[MaxLinks] = {g[MaxLinks]}
  <2>1. F(sets)
    BY FollowingSetsExist, PathFSAssumption
  <2>. HIDE DEF F, sets
  <2>. QED  BY <1>2, <2>1
<1>. HIDE DEF sets
<1>4. CASE g[MaxLinks] \in DOMAIN f /\ LinkPositions(f, g[MaxLinks]) = {}
  <2>1. last(sets) = {g[MaxLinks]}
    BY <1>3, <1>4
  <2>. QED  BY <1>1, <1>4, <2>1
<1>5. CASE ~(g[MaxLinks] \in DOMAIN f /\ LinkPositions(f, g[MaxLinks]) = {})
  <2>1. last(sets) = {}
    BY <1>3, <1>5
  <2>. QED  BY <1>1, <1>5, <2>1
<1>. QED  BY <1>4, <1>5

\* What is there, and has no link on the way to it, is where it is.
LEMMA EvalOfPhysical ==
  ASSUME NEW f, NEW p \in DOMAIN f, LinkPositions(f, p) = {}
  PROVE  EvalSymlinks(f, p) = p
<1>1. Following(f, p, MaxLinks, [i \in 0..MaxLinks |-> p])
  BY PathFSAssumption DEF FollowOnce, Following
<1>. QED  BY <1>1, EvalSymlinksIs, PathFSAssumption

\* What EvalSymlinks returns is there, there is no link on the way to it, and
\* EvalSymlinks leaves it as it is.
LEMMA EvalIsPhysical ==
  ASSUME NEW f, NEW p, EvalSymlinks(f, p) # NoPath
  PROVE  /\ EvalSymlinks(f, p) \in DOMAIN f
         /\ LinkPositions(f, EvalSymlinks(f, p)) = {}
         /\ EvalSymlinks(f, EvalSymlinks(f, p)) = EvalSymlinks(f, p)
<1>1. PICK g : Following(f, p, MaxLinks, g)
  BY FollowingExists, PathFSAssumption
<1>2. EvalSymlinks(f, p) \in DOMAIN f /\ LinkPositions(f, EvalSymlinks(f, p)) = {}
  BY <1>1, EvalSymlinksIs
<1>. QED  BY <1>2, EvalOfPhysical

-----------------------------------------------------------------------------
(* A tree that only grows.                                                 *)

LEMMA PrefixOf ==
  ASSUME NEW q, NEW k \in Nat
  PROVE  /\ Len(SubSeq(q, 1, k)) = k
         /\ \A i \in 1..k : SubSeq(q, 1, k)[i] = q[i]
         /\ \A S : (\A i \in 1..k : q[i] \in S) => SubSeq(q, 1, k) \in Seq(S)
<1>. DEFINE S == {q[i] : i \in 1..k}
<1>1. \A i \in 1..k : q[i] \in S
  OBVIOUS
<1>. HIDE DEF S
<1>2. /\ Len(SubSeq(q, 1, k)) = IF 1 <= k THEN k - 1 + 1 ELSE 0
      /\ \A i \in 1..(k - 1 + 1) : SubSeq(q, 1, k)[i] = q[1 + i - 1]
  BY <1>1, SubSeqProperties
<1>3. ASSUME NEW T, \A i \in 1..k : q[i] \in T PROVE SubSeq(q, 1, k) \in Seq(T)
  BY <1>3, SubSeqProperties
<1>. QED  BY <1>2, <1>3

LEMMA PrefixOfPrefix ==
  ASSUME NEW q, NEW k \in Nat, NEW j \in 0..k
  PROVE  SubSeq(SubSeq(q, 1, k), 1, j) = SubSeq(q, 1, j)
<1>. DEFINE S == {q[i] : i \in 1..k}
            s == SubSeq(q, 1, k)
<1>1. j \in Nat /\ \A i \in 1..j : i \in 1..k
  OBVIOUS
<1>2. \A i \in 1..k : q[i] \in S
  OBVIOUS
<1>. HIDE DEF S
<1>3. \A i \in 1..k : s[i] = q[i]
  BY PrefixOf
<1>. HIDE DEF s
<1>4. /\ SubSeq(s, 1, j) \in Seq(S) /\ SubSeq(q, 1, j) \in Seq(S)
      /\ Len(SubSeq(s, 1, j)) = j /\ Len(SubSeq(q, 1, j)) = j
      /\ \A i \in 1..j : SubSeq(s, 1, j)[i] = s[i] /\ SubSeq(q, 1, j)[i] = q[i]
  BY <1>1, <1>2, <1>3, PrefixOf
<1>5. SubSeq(s, 1, j) = SubSeq(q, 1, j)
  BY <1>1, <1>3, <1>4, SeqEqual
<1>. QED  BY <1>5 DEF s

LEMMA ParentOfPrefix ==
  ASSUME NEW q, NEW k \in Nat, k # 0
  PROVE  SubSeq(q, 1, k) # << >> /\ Parent(SubSeq(q, 1, k)) = SubSeq(q, 1, k - 1)
<1>1. Len(SubSeq(q, 1, k)) = k /\ Len(<< >>) = 0
  BY PrefixOf
<1>2. SubSeq(q, 1, k) # << >>
  BY <1>1
<1>3. Parent(SubSeq(q, 1, k)) = SubSeq(SubSeq(q, 1, k), 1, k - 1)
  BY <1>1, <1>2 DEF Parent, Front
<1>. QED  BY <1>2, <1>3, PrefixOfPrefix

\* What is on the way to an entry is there too.
LEMMA PrefixesExist ==
  ASSUME NEW f, WellFormedFS(f), NEW q, NEW k \in Nat, SubSeq(q, 1, k) \in DOMAIN f,
         NEW j \in 0..k
  PROVE  SubSeq(q, 1, j) \in DOMAIN f
<1>. DEFINE Bad == {n \in Nat : n <= k /\ SubSeq(q, 1, k - n) \notin DOMAIN f}
<1>1. Bad = {}
  <2>. SUFFICES ASSUME Bad # {} PROVE FALSE
    OBVIOUS
  <2>1. PICK n \in Bad : \A m \in Bad : n <= m
    BY LeastNumber
  <2>2. PICK m \in Nat : m = k - (n - 1)
    BY <2>1
  <2>3. m # 0 /\ m - 1 = k - n /\ SubSeq(q, 1, m) \in DOMAIN f
    BY <2>1, <2>2
  <2>4. SubSeq(q, 1, m) # << >> /\ Parent(SubSeq(q, 1, m)) = SubSeq(q, 1, m - 1)
    BY <2>3, ParentOfPrefix
  <2>5. SubSeq(q, 1, k - n) \in DOMAIN f
    BY <2>3, <2>4 DEF WellFormedFS
  <2>. QED  BY <2>1, <2>5
<1>2. k - j \in Nat /\ k - j <= k /\ k - (k - j) = j
  OBVIOUS
<1>. QED  BY <1>1, <1>2

\* A sequence is the longest of its prefixes.
LEMMA WholePrefix ==
  ASSUME NEW p, p \in Seq(ToSet(p))
  PROVE  Len(p) \in Nat /\ SubSeq(p, 1, Len(p)) = p
  BY SubSeqFull, LenProperties

\* New entries are on no way that is known already.
LEMMA LinksStay ==
  ASSUME NEW f, WellFormedFS(f), NEW f2, IsRestriction(f, f2), NEW q, NEW k \in 0..Len(q),
         k \in Nat, SubSeq(q, 1, k) \in DOMAIN f, NEW i \in 1..k
  PROVE  i \in LinkPositions(f, q) <=> i \in LinkPositions(f2, q)
<1>1. SubSeq(q, 1, i) \in DOMAIN f
  BY PrefixesExist
<1>. QED  BY <1>1 DEF IsRestriction, LinkPositions

LEMMA FirstLink ==
  ASSUME NEW f, NEW q, LinkPositions(f, q) # {}
  PROVE  \E k \in LinkPositions(f, q) :
           /\ k \in Nat \ {0} /\ \A j \in LinkPositions(f, q) : k <= j
           /\ FollowOnce(f, q) = f[SubSeq(q, 1, k)].to \o SubSeq(q, k + 1, Len(q))
<1>1. LinkPositions(f, q) \subseteq Nat \ {0}
  BY DEF LinkPositions
<1>2. PICK k \in LinkPositions(f, q) : \A j \in LinkPositions(f, q) : k <= j
  BY <1>1, LeastNumber
<1>. DEFINE first == CHOOSE i \in LinkPositions(f, q) : \A j \in LinkPositions(f, q) : i <= j
<1>3. first \in LinkPositions(f, q) /\ \A j \in LinkPositions(f, q) : first <= j
  BY <1>2
<1>4. FollowOnce(f, q) = f[SubSeq(q, 1, first)].to \o SubSeq(q, first + 1, Len(q))
  BY DEF FollowOnce
<1>. QED  BY <1>1, <1>3, <1>4

LEMMA FollowOnceStays ==
  ASSUME NEW f, WellFormedFS(f), NEW f2, IsRestriction(f, f2), NEW q,
         LinkPositions(f, q) # {} \/ q \in DOMAIN f
  PROVE  /\ FollowOnce(f2, q) = FollowOnce(f, q)
         /\ LinkPositions(f, q) = {} => LinkPositions(f2, q) = {}
<1>1. CASE LinkPositions(f, q) # {}
  <2>1. PICK k \in LinkPositions(f, q) :
           /\ k \in Nat \ {0} /\ \A j \in LinkPositions(f, q) : k <= j
           /\ FollowOnce(f, q) = f[SubSeq(q, 1, k)].to \o SubSeq(q, k + 1, Len(q))
    BY <1>1, FirstLink
  <2>2. k \in 1..Len(q) /\ SubSeq(q, 1, k) \in DOMAIN f /\ f2[SubSeq(q, 1, k)] = f[SubSeq(q, 1, k)]
    BY <2>1 DEF LinkPositions, IsRestriction
  <2>3. k \in LinkPositions(f2, q)
    BY <2>2, <2>1 DEF LinkPositions, IsRestriction
  <2>4. PICK n \in LinkPositions(f2, q) :
           /\ n \in Nat \ {0} /\ \A j \in LinkPositions(f2, q) : n <= j
           /\ FollowOnce(f2, q) = f2[SubSeq(q, 1, n)].to \o SubSeq(q, n + 1, Len(q))
    BY <2>3, FirstLink
  <2>5. n \in 1..k
    BY <2>1, <2>3, <2>4
  <2>6. n \in LinkPositions(f, q)
    <3>1. SubSeq(q, 1, n) \in DOMAIN f
      BY <2>1, <2>2, <2>5, PrefixesExist
    <3>. QED  BY <2>4, <3>1 DEF LinkPositions, IsRestriction
  <2>7. n = k
    BY <2>1, <2>5, <2>6
  <2>. QED  BY <1>1, <2>1, <2>2, <2>4, <2>7
<1>2. CASE LinkPositions(f, q) = {} /\ q \in DOMAIN f
  <2>1. q \in Seq(ToSet(q)) /\ Len(q) \in Nat /\ SubSeq(q, 1, Len(q)) = q
    BY <1>2, WholePrefix DEF WellFormedFS
  <2>2. \A i \in 1..Len(q) : SubSeq(q, 1, i) \in DOMAIN f
    <3>1. \A i \in 1..Len(q) : i \in 0..Len(q)
      BY <2>1
    <3>. QED  BY <1>2, <2>1, <3>1, PrefixesExist
  <2>3. LinkPositions(f2, q) = {}
    BY <1>2, <2>2 DEF LinkPositions, IsRestriction
  <2>. QED  BY <1>2, <2>3 DEF FollowOnce
<1>. QED  BY <1>1, <1>2

\* Where there is no link left, following ends.
LEMMA FollowingEnds ==
  ASSUME NEW f, NEW p, NEW n \in Nat, NEW g, Following(f, p, n, g),
         NEW i \in 0..n, LinkPositions(f, g[i]) = {}
  PROVE  \A j \in i..n : g[j] = g[i]
<1>1. \A j \in 0..n : j # 0 => g[j] = FollowOnce(f, g[j - 1])
  BY FollowingSteps
<1>. DEFINE Bad == {j \in i..n : g[j] # g[i]}
<1>. SUFFICES ASSUME Bad # {} PROVE FALSE
  OBVIOUS
<1>2. Bad \subseteq Nat
  OBVIOUS
<1>3. PICK j \in Bad : \A m \in Bad : j <= m
  BY <1>2, LeastNumber
<1>4. j # i /\ j - 1 \in i..n /\ j \in 0..n /\ j # 0 /\ j - 1 \notin Bad
  BY <1>3
<1>5. g[j] = FollowOnce(f, g[i])
  BY <1>1, <1>4
<1>. QED  BY <1>3, <1>5 DEF FollowOnce

\* What a path leads to stays, as long as entries are only added.
LEMMA EvalStays ==
  ASSUME NEW f, WellFormedFS(f), NEW f2, IsRestriction(f, f2), NEW p,
         EvalSymlinks(f, p) # NoPath
  PROVE  EvalSymlinks(f2, p) = EvalSymlinks(f, p)
<1>. DEFINE N == MaxLinks
<1>0. N \in Nat
  BY PathFSAssumption
<1>1. PICK g : Following(f, p, N, g)
  BY <1>0, FollowingExists
<1>2. g[N] \in DOMAIN f /\ LinkPositions(f, g[N]) = {} /\ EvalSymlinks(f, p) = g[N]
  BY <1>1, EvalSymlinksIs
<1>3. \A i \in 0..N : LinkPositions(f, g[i]) # {} \/ g[i] \in DOMAIN f
  <2>. SUFFICES ASSUME NEW i \in 0..N, LinkPositions(f, g[i]) = {} PROVE g[i] \in DOMAIN f
    OBVIOUS
  <2>1. g[N] = g[i]
    BY <1>0, <1>1, FollowingEnds
  <2>. QED  BY <1>2, <2>1
<1>4. \A i \in 0..N : FollowOnce(f2, g[i]) = FollowOnce(f, g[i])
  BY <1>3, FollowOnceStays
<1>5. Following(f2, p, N, g)
  <2>1. g = [i \in 0..N |-> IF i = 0 THEN p ELSE FollowOnce(f, g[i - 1])]
    BY <1>1 DEF Following
  <2>2. \A i \in 0..N : i # 0 => FollowOnce(f2, g[i - 1]) = FollowOnce(f, g[i - 1])
    BY <1>0, <1>4
  <2>3. [i \in 0..N |-> IF i = 0 THEN p ELSE FollowOnce(f, g[i - 1])]
          = [i \in 0..N |-> IF i = 0 THEN p ELSE FollowOnce(f2, g[i - 1])]
    BY <2>2, Zenon
  <2>. QED  BY <2>1, <2>3 DEF Following
<1>6. g[N] \in DOMAIN f2 /\ LinkPositions(f2, g[N]) = {}
  BY <1>2, FollowOnceStays DEF IsRestriction
<1>. QED  BY <1>2, <1>5, <1>6, EvalSymlinksIs

LEMMA ExistingDirStays ==
  ASSUME NEW f, WellFormedFS(f), NEW f2, IsRestriction(f, f2), NEW p,
         ExistingDir(f, p) # NoPath
  PROVE  ExistingDir(f2, p) = ExistingDir(f, p)
<1>1. EvalSymlinks(f, p) # NoPath /\ EvalSymlinks(f, p) \in DOMAIN f
  BY EvalIsPhysical DEF ExistingDir
<1>. QED  BY <1>1, EvalStays DEF ExistingDir, IsRestriction
-----------------------------------------------------------------------------
(* What is typed becomes a path.                                           *)

Cleaning(names, n, g) ==
  g = [i \in 0..n |-> IF i = 0 THEN << >> ELSE CleanStep(g[i - 1], names[i])]

LEMMA CleaningSteps ==
  ASSUME NEW names, NEW n \in Nat, NEW g, Cleaning(names, n, g)
  PROVE  /\ g[0] = << >>
         /\ \A i \in 0..n : i # 0 => g[i] = CleanStep(g[i - 1], names[i])
<1>1. g = [i \in 0..n |-> IF i = 0 THEN << >> ELSE CleanStep(g[i - 1], names[i])]
  BY DEF Cleaning
<1>2. \A i \in 0..n : g[i] = IF i = 0 THEN << >> ELSE CleanStep(g[i - 1], names[i])
  BY <1>1, ZenonT(30)
<1>. QED  BY <1>2

LEMMA CleaningExists ==
  ASSUME NEW names, NEW n \in Nat
  PROVE  \E g : Cleaning(names, n, g)
<1>. DEFINE Bad == {m \in Nat : ~\E g : Cleaning(names, m, g)}
<1>. SUFFICES ASSUME Bad # {} PROVE FALSE
  OBVIOUS
<1>1. PICK m \in Bad : \A k \in Bad : m <= k
  BY LeastNumber
<1>2. m # 0
  <2>1. Cleaning(names, 0, [i \in 0..0 |-> << >>])
    BY DEF Cleaning
  <2>. QED  BY <2>1, <1>1
<1>3. PICK g : Cleaning(names, m - 1, g)
  BY <1>1, <1>2
<1>4. Cleaning(names, m, [i \in 0..m |-> IF i = m THEN CleanStep(g[m - 1], names[m]) ELSE g[i]])
  BY <1>1, <1>2, <1>3 DEF Cleaning
<1>. QED  BY <1>1, <1>4

LEMMA CleanStepIsSeq ==
  ASSUME NEW S, NEW done \in Seq(S), NEW name \in S
  PROVE  CleanStep(done, name) \in Seq(S)
<1>1. done # << >> => Front(done) \in Seq(S)
  <2>. SUFFICES ASSUME done # << >> PROVE Front(done) \in Seq(S)
    OBVIOUS
  <2>1. Len(done) \in Nat \ {0} /\ \A i \in 1..Len(done) : done[i] \in S
    BY EmptySeq, ElementOfSeq
  <2>2. Len(done) - 1 \in Int /\ \A i \in 1..(Len(done) - 1) : done[i] \in S
    BY <2>1
  <2>. QED  BY <2>2, SubSeqProperties DEF Front
<1>2. Append(done, name) \in Seq(S) /\ << >> \in Seq(S)
  BY AppendProperties, EmptySeq
<1>3. CASE name = "."
  BY <1>3 DEF CleanStep
<1>4. CASE name = ".."
  BY <1>1, <1>2, <1>4 DEF CleanStep
<1>5. CASE name # "." /\ name # ".."
  BY <1>2, <1>5 DEF CleanStep
<1>. QED  BY <1>3, <1>4, <1>5

LEMMA CleanIsSeq ==
  ASSUME NEW S, NEW names \in Seq(S)
  PROVE  Clean(names) \in Seq(S)
<1>. DEFINE N       == Len(names)
            F(g)    == Cleaning(names, N, g)
            cleaned == CHOOSE g : F(g)
<1>1. N \in Nat /\ \A i \in 1..N : names[i] \in S
  BY LenProperties, ElementOfSeq
<1>2. Clean(names) = cleaned[N]
  BY DEF Clean, Cleaning
<1>. HIDE DEF N
<1>3. F(cleaned)
  <2>1. \E g : F(g)
    BY <1>1, CleaningExists
  <2>. HIDE DEF F
  <2>. QED  BY <2>1
<1>. HIDE DEF cleaned
<1>4. cleaned[0] = << >> /\ \A i \in 0..N : i # 0 => cleaned[i] = CleanStep(cleaned[i - 1], names[i])
  BY <1>1, <1>3, CleaningSteps
<1>. DEFINE Bad == {i \in 0..N : cleaned[i] \notin Seq(S)}
<1>5. Bad = {}
  <2>. SUFFICES ASSUME Bad # {} PROVE FALSE
    OBVIOUS
  <2>1. Bad \subseteq Nat
    BY <1>1
  <2>2. PICK i \in Bad : \A j \in Bad : i <= j
    BY <2>1, LeastNumber
  <2>3. i # 0
    BY <1>4, <2>2, EmptySeq
  <2>4. i \in 1..N /\ i - 1 \in 0..N /\ i - 1 \notin Bad
    BY <1>1, <2>2, <2>3
  <2>5. cleaned[i] \in Seq(S)
    <3>1. names[i] \in S /\ cleaned[i - 1] \in Seq(S)
      BY <1>1, <2>4
    <3>2. cleaned[i] = CleanStep(cleaned[i - 1], names[i])
      BY <1>4, <2>2, <2>3
    <3>. QED  BY <3>1, <3>2, CleanStepIsSeq
  <2>. QED  BY <2>2, <2>5
<1>. QED  BY <1>1, <1>2, <1>5

LEMMA JoinedIsSeq ==
  ASSUME NEW base, base \in Seq(ToSet(base)), NEW arg, IsPathArg(arg)
  PROVE  \E S : Joined(base, arg) \in Seq(S)
<1>. DEFINE S == ToSet(base) \cup ToSet(arg.names)
<1>1. base \in Seq(S) /\ arg.names \in Seq(S)
  BY SeqMonotonic DEF IsPathArg
<1>. HIDE DEF S
<1>2. base \o arg.names \in Seq(S)
  BY <1>1, ConcatProperties
<1>3. Joined(base, arg) \in Seq(S)
  BY <1>1, <1>2, CleanIsSeq DEF Joined
<1>. QED  BY <1>3
-----------------------------------------------------------------------------
(* An entry and the directory it lies in.                                  *)

\* A path is the way to its last name, and that name.
LEMMA FrontAndLast ==
  ASSUME NEW p, IsSeq(p), p # << >>
  PROVE  IsSeq(Front(p)) /\ p = Append(Front(p), Last(p)) /\ Len(Front(p)) = Len(p) - 1
<1>. DEFINE S == ToSet(p)
<1>1. p \in Seq(S) /\ Len(p) \in Nat \ {0}
  BY EmptySeq DEF IsSeq
<1>2. \A i \in 1..Len(p) : p[i] \in S
  BY <1>1, ElementOfSeq
<1>. HIDE DEF S
<1>3. Len(p) - 1 \in Nat /\ (\A i \in 1..(Len(p) - 1) : p[i] \in S) /\ p[Len(p)] \in S
  BY <1>1, <1>2
<1>4. /\ Front(p) \in Seq(S) /\ Len(Front(p)) = Len(p) - 1
      /\ \A i \in 1..(Len(p) - 1) : Front(p)[i] = p[i]
  BY <1>3, PrefixOf DEF Front
<1>5. /\ Append(Front(p), Last(p)) \in Seq(S) /\ Len(Append(Front(p), Last(p))) = Len(p)
      /\ \A i \in 1..Len(p) : Append(Front(p), Last(p))[i] = p[i]
  BY <1>1, <1>3, <1>4, AppendProperties DEF Last
<1>6. p = Append(Front(p), Last(p))
  BY <1>1, <1>5, SeqEqual
<1>. QED  BY <1>4, <1>6, SeqIsSeq

LEMMA PrefixOfAppend ==
  ASSUME NEW p, IsSeq(p), NEW e, NEW k \in 0..Len(p)
  PROVE  SubSeq(Append(p, e), 1, k) = SubSeq(p, 1, k)
<1>. DEFINE S == ToSet(p) \cup {e}
            a == Append(p, e)
<1>1. p \in Seq(S) /\ e \in S
  BY SeqMonotonic DEF IsSeq
<1>. HIDE DEF S
<1>2. /\ a \in Seq(S) /\ Len(p) \in Nat /\ k \in Nat
      /\ \A i \in 1..k : a[i] = p[i] /\ p[i] \in S
  BY <1>1, AppendProperties, LenProperties, ElementOfSeq
<1>. HIDE DEF a
<1>3. /\ SubSeq(a, 1, k) \in Seq(S) /\ SubSeq(p, 1, k) \in Seq(S)
      /\ Len(SubSeq(a, 1, k)) = k /\ Len(SubSeq(p, 1, k)) = k
      /\ \A i \in 1..k : SubSeq(a, 1, k)[i] = a[i] /\ SubSeq(p, 1, k)[i] = p[i]
  BY <1>2, PrefixOf
<1>4. SubSeq(a, 1, k) = SubSeq(p, 1, k)
  BY <1>2, <1>3, SeqEqual
<1>. QED  BY <1>4 DEF a

LEMMA AppendFacts ==
  ASSUME NEW p, IsSeq(p), NEW e
  PROVE  /\ Len(p) \in Nat /\ Len(Append(p, e)) = Len(p) + 1
         /\ SubSeq(Append(p, e), 1, Len(p)) = p
         /\ SubSeq(Append(p, e), 1, Len(p) + 1) = Append(p, e)
<1>. DEFINE S == ToSet(p) \cup {e}
<1>1. p \in Seq(S) /\ e \in S
  BY SeqMonotonic DEF IsSeq
<1>. HIDE DEF S
<1>2. Append(p, e) \in Seq(S) /\ Len(p) \in Nat /\ Len(Append(p, e)) = Len(p) + 1
  BY <1>1, AppendProperties, LenProperties
<1>3. SubSeq(Append(p, e), 1, Len(p)) = SubSeq(p, 1, Len(p)) /\ SubSeq(p, 1, Len(p)) = p
  BY <1>1, <1>2, PrefixOfAppend, SubSeqFull
<1>. QED  BY <1>2, <1>3, SubSeqFull

\* What lies in a directory lies in all that the directory lies in.
LEMMA PrefixOfEntry ==
  ASSUME NEW r, IsSeq(r), NEW d, IsSeq(d), IsPrefix(r, d), NEW e
  PROVE  IsPrefix(r, Append(d, e))
<1>. DEFINE n == Len(r)
<1>1. n \in Nat /\ Len(d) \in Nat /\ n <= Len(d) /\ SubSeq(r, 1, n) = SubSeq(d, 1, n)
  BY LenProperties DEF IsPrefix, IsSeq
<1>. HIDE DEF n
<1>2. n \in 0..Len(d)
  BY <1>1
<1>3. Len(Append(d, e)) = Len(d) + 1 /\ SubSeq(Append(d, e), 1, n) = SubSeq(d, 1, n)
  BY <1>2, PrefixOfAppend, AppendFacts
<1>. QED  BY <1>1, <1>3 DEF IsPrefix, n

LEMMA SuffixIsSeq ==
  ASSUME NEW S, NEW p \in Seq(S), NEW k \in Nat
  PROVE  SubSeq(p, k + 1, Len(p)) \in Seq(S)
<1>1. \A i \in (k + 1)..Len(p) : p[i] \in S
  BY LenProperties, ElementOfSeq
<1>. QED  BY <1>1, LenProperties, SubSeqProperties

LEMMA SuffixOfAppend ==
  ASSUME NEW t, IsSeq(t), NEW p, IsSeq(p), NEW e, NEW k \in 1..Len(p)
  PROVE  t \o SubSeq(Append(p, e), k + 1, Len(p) + 1) = Append(t \o SubSeq(p, k + 1, Len(p)), e)
<1>. DEFINE S == ToSet(p) \cup ToSet(t) \cup {e}
            a == Append(p, e)
            n == Len(p)
            u == SubSeq(a, k + 1, n + 1)
            v == SubSeq(p, k + 1, n)
<1>1. p \in Seq(S) /\ t \in Seq(S) /\ e \in S
  BY SeqMonotonic DEF IsSeq
<1>. HIDE DEF S
<1>2. /\ a \in Seq(S) /\ n \in Nat /\ Len(a) = n + 1 /\ a[n + 1] = e /\ k \in Nat
      /\ \A i \in 1..n : a[i] = p[i]
  BY <1>1, AppendProperties, LenProperties
<1>3. u \in Seq(S) /\ v \in Seq(S)
  BY <1>1, <1>2, SuffixIsSeq
<1>4. /\ \A i \in (k + 1)..(n + 1) : a[i] \in S
      /\ \A i \in (k + 1)..n : p[i] \in S
  BY <1>1, <1>2, ElementOfSeq
<1>. HIDE DEF a, n
<1>5. /\ Len(u) = n + 1 - k /\ Len(v) = n - k
      /\ \A i \in 1..(n + 1 - k) : u[i] = a[k + i]
      /\ \A i \in 1..(n - k) : v[i] = p[k + i]
  <2>1. k + 1 \in Int /\ n \in Int /\ n + 1 \in Int /\ k <= n
    BY <1>2 DEF n
  <2>2. /\ Len(u) = IF k + 1 <= n + 1 THEN (n + 1) - (k + 1) + 1 ELSE 0
        /\ \A i \in 1..((n + 1) - (k + 1) + 1) : u[i] = a[(k + 1) + i - 1]
    BY <1>4, <2>1, SubSeqProperties
  <2>3. /\ Len(v) = IF k + 1 <= n THEN n - (k + 1) + 1 ELSE 0
        /\ \A i \in 1..(n - (k + 1) + 1) : v[i] = p[(k + 1) + i - 1]
    BY SMTT(60), <1>4, <2>1, SubSeqProperties
  <2>. HIDE DEF u, v
  <2>. QED  BY <1>2, <2>1, <2>2, <2>3
<1>. HIDE DEF u, v
<1>6. /\ t \o u \in Seq(S) /\ Len(t \o u) = Len(t) + (n + 1 - k) /\ Len(t) \in Nat
      /\ \A i \in 1..(Len(t) + (n + 1 - k)) :
           (t \o u)[i] = IF i <= Len(t) THEN t[i] ELSE u[i - Len(t)]
  <2>1. /\ t \o u \in Seq(S) /\ Len(t \o u) = Len(t) + Len(u)
        /\ \A i \in 1..(Len(t) + Len(u)) :
             (t \o u)[i] = IF i <= Len(t) THEN t[i] ELSE u[i - Len(t)]
    BY <1>1, <1>3, ConcatProperties
  <2>2. Len(t) \in Nat
    BY <1>1, LenProperties
  <2>. QED  BY <1>5, <2>1, <2>2
<1>7. /\ t \o v \in Seq(S) /\ Len(t \o v) = Len(t) + (n - k)
      /\ \A i \in 1..(Len(t) + (n - k)) :
           (t \o v)[i] = IF i <= Len(t) THEN t[i] ELSE v[i - Len(t)]
  <2>1. /\ t \o v \in Seq(S) /\ Len(t \o v) = Len(t) + Len(v)
        /\ \A i \in 1..(Len(t) + Len(v)) :
             (t \o v)[i] = IF i <= Len(t) THEN t[i] ELSE v[i - Len(t)]
    BY <1>1, <1>3, ConcatProperties
  <2>. QED  BY <1>5, <2>1
<1>8. /\ Append(t \o v, e) \in Seq(S) /\ Len(Append(t \o v, e)) = Len(t) + (n - k) + 1
      /\ Append(t \o v, e)[Len(t) + (n - k) + 1] = e
      /\ \A i \in 1..(Len(t) + (n - k)) : Append(t \o v, e)[i] = (t \o v)[i]
  BY <1>1, <1>7, AppendProperties
<1>9. k <= n
  BY DEF n
<1>10. ASSUME NEW i \in 1..(Len(t) + (n + 1 - k)) PROVE (t \o u)[i] = Append(t \o v, e)[i]
  <2>1. CASE i <= Len(t)
    BY <1>2, <1>6, <1>7, <1>8, <1>9, <2>1
  <2>2. CASE i > Len(t) /\ i <= Len(t) + (n - k)
    <3>. DEFINE m == Len(t)
    <3>0. m \in Nat /\ n \in Nat /\ k \in Nat /\ k <= n /\ i \in Int /\ i > m /\ i <= m + (n - k)
      BY <1>2, <1>6, <1>9, <2>2
    <3>. HIDE DEF m, n
    <3>1. i - m \in 1..(n - k) /\ i - m \in 1..(n + 1 - k) /\ k + (i - m) \in 1..n
      BY <3>0
    <3>. USE DEF m
    <3>2. u[i - Len(t)] = v[i - Len(t)]
      BY <1>2, <1>5, <3>1 DEF n
    <3>. QED  BY SMTT(60), <1>2, <1>6, <1>7, <1>8, <2>2, <3>2
  <2>3. CASE i = Len(t) + (n - k) + 1
    <3>. DEFINE l == Len(t)
    <3>0. l \in Nat /\ n \in Nat /\ k \in Nat /\ k <= n /\ i = l + (n - k) + 1
      BY <1>2, <1>6, <1>9, <2>3
    <3>. HIDE DEF l
    <3>1. i - l = n + 1 - k /\ i - l \in 1..(n + 1 - k) /\ k + (i - l) = n + 1 /\ ~(i <= l)
      BY <3>0
    <3>. USE DEF l
    <3>2. (t \o u)[i] = u[i - Len(t)]
      BY <1>6, <3>1
    <3>3. u[n + 1 - k] = a[n + 1]
      BY <1>5, <3>1
    <3>. QED  BY <1>2, <1>8, <2>3, <3>1, <3>2, <3>3
  <2>4. i <= Len(t) \/ (i > Len(t) /\ i <= Len(t) + (n - k)) \/ i = Len(t) + (n - k) + 1
    <3>1. Len(t) \in Nat /\ n \in Nat /\ k \in Nat /\ k <= n
      BY <1>2, <1>6, <1>9
    <3>. QED  BY <3>1
  <2>. QED  BY <2>1, <2>2, <2>3, <2>4
<1>11. t \o u = Append(t \o v, e)
  <2>1. Len(t) + (n - k) + 1 = Len(t) + (n + 1 - k)
    BY <1>2, <1>6
  <2>. QED  BY <1>6, <1>8, <1>10, <2>1, SeqEqual
<1>. QED  BY <1>11 DEF u, v, a, n

LEMMA SuffixesOfAppend ==
  ASSUME NEW p, IsSeq(p), NEW e
  PROVE  \A t, i : IsSeq(t) /\ i \in 1..Len(p) =>
           t \o SubSeq(Append(p, e), i + 1, Len(p) + 1) = Append(t \o SubSeq(p, i + 1, Len(p)), e)
<1>. SUFFICES ASSUME NEW t, IsSeq(t), NEW i \in 1..Len(p)
              PROVE  t \o SubSeq(Append(p, e), i + 1, Len(p) + 1)
                       = Append(t \o SubSeq(p, i + 1, Len(p)), e)
  OBVIOUS
<1>. QED  BY ZenonT(60), SuffixOfAppend

\* A link on the way to a directory is one on the way to what lies in it.
LEMMA LinksOfEntry ==
  ASSUME NEW f, NEW p, IsSeq(p), NEW e
  PROVE  /\ \A i \in 1..Len(p) : i \in LinkPositions(f, Append(p, e)) <=> i \in LinkPositions(f, p)
         /\ LinkPositions(f, Append(p, e)) \subseteq 1..(Len(p) + 1)
         /\ Len(p) + 1 \in LinkPositions(f, Append(p, e))
              <=> Append(p, e) \in DOMAIN f /\ f[Append(p, e)].kind = "link"
         /\ LinkPositions(f, p) \subseteq 1..Len(p) /\ Len(p) \in Nat
<1>1. /\ Len(p) \in Nat /\ Len(Append(p, e)) = Len(p) + 1
      /\ SubSeq(Append(p, e), 1, Len(p) + 1) = Append(p, e)
  BY AppendFacts
<1>2. \A i \in 1..Len(p) : SubSeq(Append(p, e), 1, i) = SubSeq(p, 1, i)
  BY <1>1, PrefixOfAppend
<1>3. ASSUME NEW i \in 1..Len(p)
      PROVE  i \in LinkPositions(f, Append(p, e)) <=> i \in LinkPositions(f, p)
  <2>1. i \in 1..Len(Append(p, e)) /\ SubSeq(Append(p, e), 1, i) = SubSeq(p, 1, i)
    BY <1>1, <1>2
  <2>. QED  BY <2>1 DEF LinkPositions
<1>4. /\ LinkPositions(f, Append(p, e)) \subseteq 1..(Len(p) + 1)
      /\ LinkPositions(f, p) \subseteq 1..Len(p)
  BY <1>1 DEF LinkPositions
<1>5. Len(p) + 1 \in LinkPositions(f, Append(p, e))
        <=> Append(p, e) \in DOMAIN f /\ f[Append(p, e)].kind = "link"
  <2>1. Len(p) + 1 \in 1..Len(Append(p, e))
    BY <1>1
  <2>. QED  BY <1>1, <2>1 DEF LinkPositions
<1>. QED  BY <1>1, <1>3, <1>4, <1>5

LEMMA FollowOnceIsSeq ==
  ASSUME NEW f, WellFormedFS(f), NEW p, IsSeq(p)
  PROVE  IsSeq(FollowOnce(f, p))
<1>1. CASE LinkPositions(f, p) = {}
  BY <1>1 DEF FollowOnce
<1>2. CASE LinkPositions(f, p) # {}
  <2>1. PICK k \in LinkPositions(f, p) :
          k \in Nat \ {0} /\ FollowOnce(f, p) = f[SubSeq(p, 1, k)].to \o SubSeq(p, k + 1, Len(p))
    BY <1>2, FirstLink
  <2>2. IsSeq(f[SubSeq(p, 1, k)].to)
    BY <2>1 DEF LinkPositions, WellFormedFS, IsSeq
  <2>3. IsSeq(SubSeq(p, k + 1, Len(p)))
    BY <2>1, SuffixIsSeq, SeqIsSeq DEF IsSeq
  <2>. QED  BY <2>1, <2>2, <2>3, ConcatIsSeq
<1>. QED  BY <1>1, <1>2

LEMMA FollowOnceOfEntry ==
  ASSUME NEW f, WellFormedFS(f), NEW p, IsSeq(p), NEW e, LinkPositions(f, p) # {}
  PROVE  FollowOnce(f, Append(p, e)) = Append(FollowOnce(f, p), e)
<1>1. PICK k \in LinkPositions(f, p) :
        /\ k \in Nat \ {0} /\ \A j \in LinkPositions(f, p) : k <= j
        /\ FollowOnce(f, p) = f[SubSeq(p, 1, k)].to \o SubSeq(p, k + 1, Len(p))
  BY FirstLink
<1>2. k \in 1..Len(p) /\ k \in LinkPositions(f, Append(p, e)) /\ Len(p) \in Nat
  BY <1>1, LinksOfEntry
<1>. DEFINE to == f[SubSeq(p, 1, k)].to
<1>3. to \o SubSeq(Append(p, e), k + 1, Len(p) + 1) = Append(to \o SubSeq(p, k + 1, Len(p)), e)
  <2>1. k \in 1..Len(p) /\ IsSeq(to)
    BY <1>1, <1>2 DEF LinkPositions, WellFormedFS, IsSeq
  <2>. HIDE DEF to
  <2>. QED  BY <2>1, SuffixesOfAppend, Zenon
<1>4. PICK n \in LinkPositions(f, Append(p, e)) :
        /\ n \in Nat \ {0} /\ \A j \in LinkPositions(f, Append(p, e)) : n <= j
        /\ FollowOnce(f, Append(p, e)) =
             f[SubSeq(Append(p, e), 1, n)].to \o SubSeq(Append(p, e), n + 1, Len(Append(p, e)))
  BY <1>2, FirstLink
<1>5. n \in 1..Len(p)
  BY <1>2, <1>4
<1>6. n = k
  BY <1>1, <1>2, <1>4, <1>5, LinksOfEntry
<1>7. SubSeq(Append(p, e), 1, k) = SubSeq(p, 1, k) /\ Len(Append(p, e)) = Len(p) + 1
  BY <1>2, PrefixOfAppend, AppendFacts
<1>. QED  BY <1>1, <1>3, <1>4, <1>6, <1>7

\* q names the entry e of the directory p.
EntryIs(q, p, e) == q = Append(p, e)

\* Until the way to the directory is free of links, the way to its entry is
\* followed in the same steps.
LEMMA FollowingOfEntry ==
  ASSUME NEW f, WellFormedFS(f), NEW p, IsSeq(p), NEW e, NEW q, EntryIs(q, p, e), NEW n \in Nat,
         NEW g, Following(f, p, n, g), NEW h, Following(f, q, n, h),
         NEW k \in 0..n, \A i \in 0..n : i < k => LinkPositions(f, g[i]) # {}
  PROVE  IsSeq(g[k]) /\ EntryIs(h[k], g[k], e)
<1>1. /\ g[0] = p /\ \A i \in 0..n : i # 0 => g[i] = FollowOnce(f, g[i - 1])
      /\ h[0] = q /\ \A i \in 0..n : i # 0 => h[i] = FollowOnce(f, h[i - 1])
  BY FollowingSteps
<1>. DEFINE Bad == {i \in 0..k : ~(IsSeq(g[i]) /\ EntryIs(h[i], g[i], e))}
<1>2. Bad = {}
  <2>. SUFFICES ASSUME Bad # {} PROVE FALSE
    OBVIOUS
  <2>1. Bad \subseteq Nat
    OBVIOUS
  <2>2. PICK i \in Bad : \A j \in Bad : i <= j
    BY <2>1, LeastNumber
  <2>3. i # 0
    BY <1>1, <2>2
  <2>4. i - 1 \in 0..k /\ i - 1 \in 0..n /\ i \in 0..n /\ i - 1 < k /\ i - 1 \notin Bad
    BY <2>2, <2>3
  <2>5. IsSeq(g[i - 1]) /\ LinkPositions(f, g[i - 1]) # {}
    BY <2>4
  <2>6. g[i] = FollowOnce(f, g[i - 1]) /\ h[i] = FollowOnce(f, h[i - 1])
    BY <1>1, <2>3, <2>4
  <2>7. IsSeq(g[i])
    BY <2>5, <2>6, FollowOnceIsSeq
  <2>8. EntryIs(h[i], g[i], e)
    <3>1. h[i - 1] = Append(g[i - 1], e)
      BY <2>4 DEF EntryIs
    <3>. QED  BY SMTT(60), <2>5, <2>6, <3>1, FollowOnceOfEntry DEF EntryIs
  <2>. QED  BY <2>2, <2>7, <2>8
<1>. QED  BY <1>2

LEMMA FollowingShift ==
  ASSUME NEW f, NEW q, NEW n \in Nat, NEW h, Following(f, q, n, h), NEW k \in 0..n,
         NEW g, Following(f, h[k], n, g)
  PROVE  \A j \in 0..(n - k) : g[j] = h[k + j]
<1>1. /\ \A i \in 0..n : i # 0 => h[i] = FollowOnce(f, h[i - 1])
      /\ g[0] = h[k] /\ \A i \in 0..n : i # 0 => g[i] = FollowOnce(f, g[i - 1])
  BY FollowingSteps
<1>. DEFINE Bad == {j \in 0..(n - k) : g[j] # h[k + j]}
<1>. SUFFICES ASSUME Bad # {} PROVE FALSE
  OBVIOUS
<1>2. Bad \subseteq Nat
  OBVIOUS
<1>3. PICK j \in Bad : \A i \in Bad : j <= i
  BY <1>2, LeastNumber
<1>4. j # 0
  BY <1>1, <1>3
<1>5. /\ j \in 0..n /\ k + j \in 0..n /\ k + j # 0
      /\ j - 1 \in 0..(n - k) /\ (k + j) - 1 = k + (j - 1) /\ j - 1 \notin Bad
  BY <1>3, <1>4
<1>6. g[j] = FollowOnce(f, g[j - 1]) /\ h[k + j] = FollowOnce(f, h[(k + j) - 1])
  BY <1>1, <1>4, <1>5
<1>7. g[j - 1] = h[k + (j - 1)]
  BY <1>5
<1>. QED  BY <1>3, <1>5, <1>6, <1>7

\* The moment the way to the directory is free of links, if there is one.
LEMMA FollowingEntry ==
  ASSUME NEW f, WellFormedFS(f), NEW p, IsSeq(p), NEW e, NEW q, EntryIs(q, p, e),
         NEW n \in Nat, NEW g, Following(f, p, n, g), NEW h, Following(f, q, n, h),
         LinkPositions(f, g[n]) = {} \/ LinkPositions(f, h[n]) = {}
  PROVE  \E k \in 0..n : /\ IsSeq(g[k]) /\ LinkPositions(f, g[k]) = {} /\ g[n] = g[k]
                         /\ EntryIs(h[k], g[k], e)
<1>. DEFINE Free == {i \in 0..n : LinkPositions(f, g[i]) = {}}
<1>1. Free # {}
  <2>. SUFFICES ASSUME Free = {} PROVE FALSE
    OBVIOUS
  <2>1. n \in 0..n /\ \A i \in 0..n : LinkPositions(f, g[i]) # {}
    OBVIOUS
  <2>2. IsSeq(g[n]) /\ EntryIs(h[n], g[n], e)
    BY <2>1, FollowingOfEntry
  <2>3. LinkPositions(f, h[n]) = {} => LinkPositions(f, g[n]) = {}
    BY <2>2, LinksOfEntry DEF EntryIs
  <2>. QED  BY <2>1, <2>3
<1>2. Free \subseteq Nat
  OBVIOUS
<1>3. PICK k \in Free : \A i \in Free : k <= i
  BY <1>1, <1>2, LeastNumber
<1>4. /\ k \in 0..n /\ n \in k..n /\ LinkPositions(f, g[k]) = {}
      /\ \A i \in 0..n : i < k => LinkPositions(f, g[i]) # {}
  BY <1>3
<1>5. IsSeq(g[k]) /\ EntryIs(h[k], g[k], e)
  BY <1>4, FollowingOfEntry
<1>6. g[n] = g[k]
  BY <1>4, FollowingEnds
<1>. QED  BY <1>4, <1>5, <1>6

\* A path that resolves does so by way of a directory and its entry.
LEMMA EntryLeads ==
  ASSUME NEW f, WellFormedFS(f), NoPath \notin DOMAIN f, NEW p, IsSeq(p), NEW e,
         NEW q, EntryIs(q, p, e), EvalSymlinks(f, q) # NoPath
  PROVE  LET d == EvalSymlinks(f, p)
         IN  /\ d # NoPath /\ IsSeq(d) /\ f[d].kind = "dir" /\ Append(d, e) \in DOMAIN f
             /\ EvalSymlinks(f, Append(d, e)) = EvalSymlinks(f, q)
<1>. DEFINE N == MaxLinks
<1>0. N \in Nat
  BY PathFSAssumption
<1>. HIDE DEF N
<1>1. PICK g : Following(f, p, N, g)
  BY <1>0, FollowingExists
<1>2. PICK h : Following(f, q, N, h)
  BY <1>0, FollowingExists
<1>3. h[N] \in DOMAIN f /\ LinkPositions(f, h[N]) = {} /\ EvalSymlinks(f, q) = h[N]
  BY <1>2, EvalSymlinksIs DEF N
<1>4. PICK k \in 0..N : /\ IsSeq(g[k]) /\ LinkPositions(f, g[k]) = {} /\ g[N] = g[k]
                        /\ EntryIs(h[k], g[k], e)
  BY <1>0, <1>1, <1>2, <1>3, FollowingEntry
<1>. DEFINE d == g[k]
<1>5. h[k] \in DOMAIN f
  <2>1. CASE LinkPositions(f, h[k]) = {}
    <3>1. N \in k..N
      BY <1>0, <1>4
    <3>2. h[N] = h[k]
      BY <1>0, <1>2, <2>1, <3>1, FollowingEnds
    <3>. QED  BY <1>3, <3>2
  <2>2. CASE LinkPositions(f, h[k]) # {}
    <3>1. PICK i : i \in LinkPositions(f, Append(d, e))
      BY <1>4, <2>2 DEF EntryIs
    <3>2. IsSeq(d) /\ LinkPositions(f, d) = {}
      BY <1>4
    <3>. HIDE DEF d
    <3>3. i \in 1..(Len(d) + 1) /\ i \notin 1..Len(d) /\ Len(d) \in Nat
      BY <3>1, <3>2, LinksOfEntry
    <3>4. i = Len(d) + 1
      BY <3>3
    <3>5. Append(d, e) \in DOMAIN f
      BY <3>1, <3>2, <3>4, LinksOfEntry
    <3>. QED  BY <1>4, <3>5 DEF d, EntryIs
  <2>. QED  BY <2>1, <2>2
<1>6. d \in DOMAIN f /\ f[d].kind = "dir"
  <2>1. h[k] # << >> /\ Parent(h[k]) = d
    BY <1>4, AppendIsSeq DEF Parent, EntryIs
  <2>. QED  BY <1>5, <2>1 DEF WellFormedFS
<1>7. EvalSymlinks(f, p) = d
  BY <1>1, <1>4, <1>6, EvalSymlinksIs DEF N
<1>8. EvalSymlinks(f, h[k]) = h[N]
  <2>1. PICK g2 : Following(f, h[k], N, g2)
    BY <1>0, FollowingExists
  <2>2. \A j \in 0..(N - k) : g2[j] = h[k + j]
    BY <1>0, <1>2, <2>1, FollowingShift
  <2>3. N - k \in 0..N /\ N - k \in 0..(N - k) /\ k + (N - k) = N /\ N \in (N - k)..N
    BY <1>0, <1>4
  <2>4. g2[N - k] = h[N]
    BY <2>2, <2>3
  <2>5. PICK m \in 0..N : m = N - k
    BY <2>3
  <2>6. LinkPositions(f, g2[m]) = {} /\ N \in m..N
    BY <1>3, <2>3, <2>4, <2>5
  <2>7. g2[N] = g2[m]
    BY <1>0, <2>1, <2>6, FollowingEnds
  <2>. QED  BY <1>3, <2>1, <2>4, <2>5, <2>7, EvalSymlinksIs DEF N
<1>. QED  BY <1>3, <1>4, <1>5, <1>6, <1>7, <1>8 DEF EntryIs

\* An entry that is no link lies in what the way to it leads to.
LEMMA EvalOfEntry ==
  ASSUME NEW f, WellFormedFS(f), NEW p, IsSeq(p), NEW e, NEW q, EntryIs(q, p, e),
         EvalSymlinks(f, p) # NoPath, NEW x, EntryIs(x, EvalSymlinks(f, p), e),
         x \in DOMAIN f, f[x].kind # "link"
  PROVE  EvalSymlinks(f, q) = x
<1>. DEFINE N == MaxLinks
<1>0. N \in Nat
  BY PathFSAssumption
<1>. HIDE DEF N
<1>1. PICK g : Following(f, p, N, g)
  BY <1>0, FollowingExists
<1>2. PICK h : Following(f, q, N, h)
  BY <1>0, FollowingExists
<1>3. LinkPositions(f, g[N]) = {} /\ EvalSymlinks(f, p) = g[N]
  BY <1>1, EvalSymlinksIs DEF N
<1>4. PICK k \in 0..N : /\ IsSeq(g[k]) /\ LinkPositions(f, g[k]) = {} /\ g[N] = g[k]
                        /\ EntryIs(h[k], g[k], e)
  BY <1>0, <1>1, <1>2, <1>3, FollowingEntry
<1>5. h[k] = x
  BY <1>3, <1>4 DEF EntryIs
<1>6. LinkPositions(f, x) = {}
  <2>1. x = Append(g[k], e)
    BY <1>3, <1>4 DEF EntryIs
  <2>2. ASSUME NEW d, IsSeq(d), LinkPositions(f, d) = {}, x = Append(d, e)
        PROVE  LinkPositions(f, x) = {}
    <3>1. /\ \A i \in 1..Len(d) : i \in LinkPositions(f, x) <=> i \in LinkPositions(f, d)
          /\ LinkPositions(f, x) \subseteq 1..(Len(d) + 1)
          /\ Len(d) + 1 \notin LinkPositions(f, x)
          /\ Len(d) \in Nat
      BY <2>2, LinksOfEntry
    <3>. QED  BY <2>2, <3>1
  <2>. QED  BY <1>4, <2>1, <2>2
<1>7. N \in k..N
  BY <1>0, <1>4
<1>8. LinkPositions(f, h[k]) = {}
  BY <1>5, <1>6
<1>9. h[N] = x
  <2>1. h[N] = h[k]
    BY <1>0, <1>2, <1>7, <1>8, FollowingEnds
  <2>. QED  BY <1>5, <2>1
<1>. QED  BY <1>2, <1>6, <1>9, EvalSymlinksIs DEF N

-----------------------------------------------------------------------------
(* The sandbox.                                                            *)

\* What the locals of a call hold besides their types.
LocalsOK ==
  /\ DOMAIN path = Calls /\ DOMAIN at = Calls
  /\ DOMAIN real = Calls /\ DOMAIN list = Calls /\ DOMAIN dirs = Calls
  /\ \A c \in Calls :
       /\ dirs[c] \subseteq Paths
       /\ pc[c] = "statRoot"               => at[c] \in Paths
       /\ pc[c] \in {"addStat", "addLocked"} => real[c] \in Paths
       /\ pc[c] = "check"                  => real[c] # NoPath

TypeInv == TypeOK /\ LocalsOK

\* What resolves is a path of the tree it resolved in.
LEMMA EvalInPaths ==
  ASSUME NEW f \in FsStates, NEW p
  PROVE  EvalSymlinks(f, p) \in Paths \cup {NoPath}
  BY DEF EvalSymlinks, Paths

-----------------------------------------------------------------------------
(* Types.                                                                  *)

LEMMA TypeInvInit == Init => TypeInv
<1>. SUFFICES ASSUME Init PROVE TypeInv
  OBVIOUS
<1>1. \E n \in Nat : DOMAIN ConfigArgs = 1..n
  BY SandboxAssumption
<1>2. configRoots \in Seq(Paths)
  BY <1>1 DEF Init, New
<1>3. AllowedRoots \subseteq Paths
  BY <1>2 DEF Init, AllowedRoots, ToSet
<1>. QED
  BY <1>3, SandboxAssumption DEF Init, TypeInv, TypeOK, LocalsOK

\* Editing the lists within Paths keeps the histories within Paths.
LEMMA ObserveTypes ==
  ASSUME TypeOK, Observe, AllowedRoots' \subseteq Paths
  PROVE  ever' \in [Calls -> SUBSET Paths] /\ steady' \in [Calls -> SUBSET Paths]
  BY DEF TypeOK, Observe

LEMMA TypeInvStep == TypeInv /\ [Next]_vars => TypeInv'
<1>. SUFFICES ASSUME TypeInv, [Next]_vars PROVE TypeInv'
  OBVIOUS
<1>. USE DEF TypeInv
<1>1. ASSUME NEW c \in Calls, BeginPathCall(c) \/ BeginAdd(c) \/ BeginRemove(c)
      PROVE  TypeInv'
  BY SMTT(60), <1>1 DEF TypeOK, LocalsOK, BeginPathCall, BeginAdd, BeginRemove, Begin,
              Goto, world, roots, AllowedRoots
<1>2. ASSUME NEW c \in Calls, Return(c)
      PROVE  TypeInv'
  BY <1>2 DEF TypeOK, LocalsOK, Return, Forget, world, roots, AllowedRoots
<1>3. ASSUME NEW c \in Calls, ListRoots(c)
      PROVE  TypeInv'
  BY <1>3 DEF TypeOK, LocalsOK, ListRoots, world, roots, history, AllowedRoots
<1>4. ASSUME NEW c \in Calls, EvalRoot(c) \/ StatRoot(c)
      PROVE  TypeInv'
  <2>1. CASE EvalRoot(c)
    <3>1. \/ UNCHANGED <<pc, at>>
          \/ pc' = [pc EXCEPT ![c] = "statRoot"] /\ at'[c] \in Paths
      <4>1. PICK u \in list[c] : \/ UNCHANGED <<pc, at>>
                                \/ /\ Resolves(u)
                                   /\ pc' = [pc EXCEPT ![c] = "statRoot"]
                                   /\ at' = [at EXCEPT ![c] = EvalSymlinks(fs, u)]
        BY <2>1 DEF EvalRoot
      <4>2. Resolves(u) => EvalSymlinks(fs, u) \in Paths
        BY EvalInPaths DEF TypeOK, Resolves
      <4>. QED  BY <4>1, <4>2 DEF LocalsOK
    <3>2. /\ pc' \in [Calls -> {pc[o] : o \in Calls} \cup {"statRoot"}]
          /\ \A o \in Calls \ {c} : at'[o] = at[o] /\ pc'[o] = pc[o]
          /\ DOMAIN at' = Calls /\ DOMAIN list' = Calls
          /\ pc'[c] \in {"validate", "statRoot"} /\ pc[c] = "validate"
      BY <2>1 DEF TypeOK, LocalsOK, EvalRoot
    <3>. QED
      BY <2>1, <3>1, <3>2 DEF TypeOK, LocalsOK, EvalRoot, world, roots, history, AllowedRoots
  <2>2. CASE StatRoot(c)
    BY <2>2 DEF TypeOK, LocalsOK, StatRoot, Goto, world, roots, history, AllowedRoots
  <2>. QED  BY <1>4, <2>1, <2>2
<1>5. ASSUME NEW c \in Calls, InstallRoots(c)
      PROVE  TypeInv'
  <2>1. AllowedRoots' \subseteq Paths
    BY <1>5 DEF InstallRoots, Goto, TypeOK, LocalsOK, AllowedRoots
  <2>. QED
    BY <1>5, <2>1, ObserveTypes DEF TypeOK, LocalsOK, InstallRoots, Goto, world,
                                    locals
<1>6. ASSUME NEW c \in Calls,
             Lexical(c) \/ EvalParent(c) \/ EvalFound(c) \/ CheckReal(c)
      PROVE  TypeInv'
  BY SMTT(60), <1>6 DEF TypeOK, LocalsOK, Lexical, EvalParent, EvalFound, CheckReal, Goto,
              world, roots, locals, history, AllowedRoots
<1>7. ASSUME NEW c \in Calls, RemoveResolve(c)
      PROVE  TypeInv'
  BY <1>7 DEF TypeOK, LocalsOK, RemoveResolve, Goto, world, roots,
              locals, history, AllowedRoots
<1>8. ASSUME NEW c \in Calls, AddResolve(c) \/ AddStat(c)
      PROVE  TypeInv'
  <2>1. EvalSymlinks(fs, path[c]) \in Paths \cup {NoPath}
    BY EvalInPaths DEF TypeOK
  <2>2. CASE AddResolve(c)
    BY <2>1, <2>2 DEF TypeOK, LocalsOK, AddResolve, Goto, world, roots, history, AllowedRoots
  <2>3. CASE AddStat(c)
    BY <2>3 DEF TypeOK, LocalsOK, AddStat, Goto, world, roots, locals, history, AllowedRoots
  <2>. QED  BY <1>8, <2>2, <2>3
<1>9. ASSUME NEW c \in Calls, AddRuntimeRoot(c)
      PROVE  TypeInv'
  <2>1. /\ runtimeRoots' \in Seq(Paths)
        /\ ToSet(runtimeRoots') \subseteq ToSet(runtimeRoots) \cup {real[c]}
        /\ real[c] \in Paths
    BY <1>9, AppendToSet DEF AddRuntimeRoot, Goto, TypeOK, LocalsOK
  <2>2. AllowedRoots' \subseteq Paths
    BY <1>9, <2>1 DEF AddRuntimeRoot, TypeOK, AllowedRoots
  <2>. QED
    BY <1>9, <2>1, <2>2, ObserveTypes DEF TypeOK, LocalsOK, AddRuntimeRoot, Goto,
                                          world, locals
<1>10. ASSUME NEW c \in Calls, RemoveRuntimeRoot(c)
       PROVE  TypeInv'
  <2>1. /\ runtimeRoots' \in Seq(Paths)
        /\ ToSet(runtimeRoots') \subseteq ToSet(runtimeRoots)
    BY <1>10, RemoveAtToSet DEF RemoveRuntimeRoot, TypeOK
  <2>2. AllowedRoots' \subseteq Paths
    BY <1>10, <2>1 DEF RemoveRuntimeRoot, TypeOK, AllowedRoots
  <2>. QED
    BY <1>10, <2>1, <2>2, ObserveTypes DEF TypeOK, LocalsOK, RemoveRuntimeRoot,
                                           Goto, world, locals
<1>11. ASSUME ClientChangesRoots \/ FilesystemChanges
       PROVE  TypeInv'
  BY <1>11, SandboxAssumption DEF TypeOK, LocalsOK, ClientChangesRoots,
              FilesystemChanges, Change, roots, locals, history, AllowedRoots
<1>12. CASE UNCHANGED vars
  BY <1>12 DEF TypeOK, LocalsOK, vars, world, roots, locals, history, AllowedRoots
<1>. QED
  BY <1>1, <1>2, <1>3, <1>4, <1>5, <1>6, <1>7, <1>8, <1>9, <1>10, <1>11, <1>12
     DEF Next, PathStep, EditStep

\* Every variable always has its type, whatever the calls and the
\* environment do: the lists hold nothing but paths of some tree.
THEOREM TypesAlwaysOK == Spec => []TypeOK
<1>1. Spec => []TypeInv
  BY TypeInvInit, TypeInvStep, PTL DEF Spec
<1>. QED  BY <1>1, PTL DEF TypeInv

-----------------------------------------------------------------------------
(* Answers.  The roots that count while a call runs are bracketed by its   *)
(* two histories: every root allowed now is in "ever", and every root in   *)
(* "steady" is allowed now.                                                *)

Bracketed(c) ==
  pc[c] # "idle" => steady[c] \subseteq AllowedRoots /\ AllowedRoots \subseteq ever[c]

PathTested(c) ==
  pc[c] \in {"eval", "check", "accepted"} => WithinAny(ever[c], path[c])

RealTested(c) == pc[c] = "accepted" => WithinAny(ever[c], real[c])

Refused(c) ==
  pc[c] = "rejected" =>
    \/ ~WithinAny(steady[c], path[c])
    \/ real[c] # NoPath /\ ~WithinAny(steady[c], real[c])

CallOK(c) == Bracketed(c) /\ PathTested(c) /\ RealTested(c) /\ Refused(c)

AnswerInv == \A c \in Calls : CallOK(c)

LEMMA WithinAnyGrows ==
  ASSUME NEW S, NEW T, S \subseteq T, NEW p, WithinAny(S, p)
  PROVE  WithinAny(T, p)
  BY DEF WithinAny

\* A step that leaves a call where it is and observes the lists.
LEMMA ObservedCallOK ==
  ASSUME TypeOK, Observe, NEW c \in Calls, CallOK(c),
         pc'[c] = pc[c], path'[c] = path[c], real'[c] = real[c]
  PROVE  CallOK(c)'
<1>1. CASE pc[c] = "idle"
  BY <1>1 DEF CallOK, Bracketed, PathTested, RealTested, Refused
<1>2. CASE pc[c] # "idle"
  <2>1. /\ ever'[c] = ever[c] \cup AllowedRoots'
        /\ steady'[c] = steady[c] \cap AllowedRoots'
    BY <1>2 DEF Observe, TypeOK
  <2>2. Bracketed(c)'
    BY <2>1 DEF Bracketed
  <2>3. \A p : /\ WithinAny(ever[c], p) => WithinAny(ever'[c], p)
               /\ WithinAny(steady'[c], p) => WithinAny(steady[c], p)
    BY <2>1, WithinAnyGrows
  <2>. QED
    BY <2>2, <2>3 DEF CallOK, PathTested, RealTested, Refused
<1>. QED  BY <1>1, <1>2

\* A step of one call that ends with no claim about the paths.
LEMMA EditorCallOK ==
  ASSUME TypeOK, Observe, NEW c \in Calls, CallOK(c), pc[c] # "idle",
         pc'[c] \in {"lexical", "added", "removed"}
  PROVE  CallOK(c)'
<1>1. /\ ever'[c] = ever[c] \cup AllowedRoots'
      /\ steady'[c] = steady[c] \cap AllowedRoots'
  BY DEF Observe, TypeOK
<1>. QED
  BY <1>1 DEF CallOK, Bracketed, PathTested, RealTested, Refused

\* A step of call c that changes no list and none of the other calls.
LocalStep(c) ==
  /\ UNCHANGED <<roots, history>>
  /\ \A o \in Calls \ {c} : pc'[o] = pc[o] /\ path'[o] = path[o] /\ real'[o] = real[o]

LEMMA OthersOK ==
  ASSUME AnswerInv, NEW c \in Calls, LocalStep(c), NEW o \in Calls \ {c}
  PROVE  CallOK(o)'
  BY DEF AnswerInv, LocalStep, CallOK, Bracketed, PathTested, RealTested, Refused,
         AllowedRoots, roots, history

LEMMA AnswerInvStep == TypeInv /\ AnswerInv /\ [Next]_vars => AnswerInv'
<1>. SUFFICES ASSUME TypeInv, AnswerInv, [Next]_vars PROVE AnswerInv'
  OBVIOUS
<1>. USE DEF TypeInv
<1>1. ASSUME NEW c \in Calls, BeginPathCall(c) \/ BeginAdd(c) \/ BeginRemove(c)
      PROVE  AnswerInv'
  BY <1>1 DEF TypeOK, LocalsOK, BeginPathCall, BeginAdd, BeginRemove, Begin, Goto,
              world, roots, AllowedRoots, AnswerInv, CallOK, Bracketed,
              PathTested, RealTested, Refused
<1>2. ASSUME NEW c \in Calls, Return(c)
      PROVE  AnswerInv'
  BY <1>2 DEF TypeOK, LocalsOK, Return, Forget, world, roots, AllowedRoots, AnswerInv,
              CallOK, Bracketed, PathTested, RealTested, Refused
<1>3. ASSUME NEW c \in Calls, ListRoots(c) \/ EvalRoot(c) \/ StatRoot(c)
      PROVE  AnswerInv'
  BY <1>3 DEF TypeOK, LocalsOK, ListRoots, EvalRoot, StatRoot, Goto, world, roots,
              history, AllowedRoots, AnswerInv, CallOK, Bracketed, PathTested,
              RealTested, Refused
<1>4. ASSUME NEW c \in Calls,
             InstallRoots(c) \/ AddRuntimeRoot(c) \/ RemoveRuntimeRoot(c)
      PROVE  AnswerInv'
  <2>1. /\ Observe /\ UNCHANGED <<path, real>> /\ pc[c] # "idle"
        /\ pc'[c] \in {"lexical", "added", "removed"}
        /\ \A o \in Calls \ {c} : pc'[o] = pc[o]
    BY <1>4 DEF InstallRoots, AddRuntimeRoot, RemoveRuntimeRoot, Goto, locals, TypeOK
  <2>2. CallOK(c)'
    BY <2>1, EditorCallOK DEF AnswerInv
  <2>3. ASSUME NEW o \in Calls \ {c} PROVE CallOK(o)'
    BY <2>1, ObservedCallOK DEF AnswerInv
  <2>. QED  BY <2>2, <2>3 DEF AnswerInv
<1>5. ASSUME NEW c \in Calls, Lexical(c)
      PROVE  AnswerInv'
  <2>1. LocalStep(c)
    BY <1>5 DEF Lexical, LocalStep, Goto, TypeOK, LocalsOK, roots, history
  <2>2. /\ UNCHANGED <<ever, steady, AllowedRoots>>
        /\ steady[c] \subseteq AllowedRoots /\ AllowedRoots \subseteq ever[c]
    BY <1>5 DEF Lexical, Goto, roots, history, AllowedRoots, AnswerInv, CallOK, Bracketed
  <2>3. \/ pc'[c] = "eval" /\ WithinAny(AllowedRoots, path'[c])
        \/ pc'[c] = "rejected" /\ ~WithinAny(AllowedRoots, path'[c])
    BY <1>5 DEF Lexical, Goto, TypeOK, LocalsOK
  <2>4. CallOK(c)'
    BY <2>2, <2>3, WithinAnyGrows DEF CallOK, Bracketed, PathTested, RealTested, Refused
  <2>. QED  BY <2>1, <2>4, OthersOK DEF AnswerInv
<1>6. ASSUME NEW c \in Calls, EvalParent(c) \/ EvalFound(c)
      PROVE  AnswerInv'
  <2>1. LocalStep(c)
    BY <1>6 DEF EvalParent, EvalFound, LocalStep, Goto, TypeOK, LocalsOK, roots, history
  <2>2. /\ UNCHANGED <<ever, steady, AllowedRoots, path>>
        /\ pc[c] = "eval" /\ pc'[c] \in {"eval", "check"}
    BY <1>6 DEF EvalParent, EvalFound, Goto, roots, history, AllowedRoots, TypeOK
  <2>3. CallOK(c)'
    BY <2>2 DEF AnswerInv, CallOK, Bracketed, PathTested, RealTested, Refused
  <2>. QED  BY <2>1, <2>3, OthersOK DEF AnswerInv
<1>7. ASSUME NEW c \in Calls, CheckReal(c)
      PROVE  AnswerInv'
  <2>1. LocalStep(c)
    BY <1>7 DEF CheckReal, LocalStep, Goto, TypeOK, LocalsOK, roots, locals, history
  <2>2. /\ UNCHANGED <<ever, steady, AllowedRoots, path, real>>
        /\ pc[c] = "check" /\ real[c] # NoPath
        /\ steady[c] \subseteq AllowedRoots /\ AllowedRoots \subseteq ever[c]
    BY <1>7 DEF CheckReal, Goto, roots, locals, history, AllowedRoots, LocalsOK,
                AnswerInv, CallOK, Bracketed
  <2>3. \/ pc'[c] = "accepted" /\ WithinAny(AllowedRoots, real[c])
        \/ pc'[c] = "rejected" /\ ~WithinAny(AllowedRoots, real[c])
    BY <1>7 DEF CheckReal, Goto, TypeOK
  <2>4. CallOK(c)'
    BY <2>2, <2>3, WithinAnyGrows
       DEF AnswerInv, CallOK, Bracketed, PathTested, RealTested, Refused
  <2>. QED  BY <2>1, <2>4, OthersOK DEF AnswerInv
<1>8. ASSUME NEW c \in Calls, AddResolve(c) \/ AddStat(c) \/ RemoveResolve(c)
      PROVE  AnswerInv'
  <2>1. LocalStep(c)
    BY <1>8 DEF AddResolve, AddStat, RemoveResolve, LocalStep, Goto, TypeOK,
                LocalsOK, roots, locals, history
  <2>2. /\ UNCHANGED <<ever, steady, AllowedRoots>>
        /\ pc[c] # "idle" /\ pc'[c] \in {"failed", "addStat", "addLocked", "removeLocked"}
    BY <1>8 DEF AddResolve, AddStat, RemoveResolve, Goto, roots, history,
                AllowedRoots, TypeOK
  <2>3. CallOK(c)'
    BY <2>2 DEF AnswerInv, CallOK, Bracketed, PathTested, RealTested, Refused
  <2>. QED  BY <2>1, <2>3, OthersOK DEF AnswerInv
<1>9. CASE ClientChangesRoots \/ FilesystemChanges \/ UNCHANGED vars
  BY <1>9 DEF ClientChangesRoots, FilesystemChanges, vars, roots, locals, history,
              AllowedRoots, AnswerInv, CallOK, Bracketed, PathTested, RealTested, Refused
<1>. QED
  BY <1>1, <1>2, <1>3, <1>4, <1>5, <1>6, <1>7, <1>8, <1>9 DEF Next, PathStep, EditStep

LEMMA AnswerInvAlways == Spec => []AnswerInv
<1>1. Init => TypeInv /\ AnswerInv
  BY TypeInvInit DEF Init, AnswerInv, CallOK, Bracketed, PathTested, RealTested, Refused
<1>2. (TypeInv /\ AnswerInv) /\ [Next]_vars => (TypeInv /\ AnswerInv)'
  BY TypeInvStep, AnswerInvStep
<1>. QED  BY <1>1, <1>2, PTL DEF Spec

\* However the lists change between its two tests, Resolve accepts a path only
\* if the path and the place its existing part leads to were both allowed
\* while the call ran.
THEOREM ResolveIsSafe == Spec => []AcceptedWasAllowed
<1>1. AnswerInv => AcceptedWasAllowed
  BY DEF AnswerInv, CallOK, PathTested, RealTested, AcceptedWasAllowed
<1>. QED  BY <1>1, AnswerInvAlways, PTL

\* Resolve refuses a path only if it, or the place its existing part leads to,
\* lay in no root that was allowed all the time.
THEOREM ResolveRefusesForCause == Spec => []RefusedHadCause
<1>1. AnswerInv => RefusedHadCause
  BY DEF AnswerInv, CallOK, Refused, RefusedHadCause
<1>. QED  BY <1>1, AnswerInvAlways, PTL

-----------------------------------------------------------------------------
(* Roots are physical: each of the three lists gets its entries from the   *)
(* two looks of resolveExistingDir, and a call on its way from the first   *)
(* to the list holds a path that was physical, while the tree may change.  *)

Physical     == {p \in Paths : \E f \in FsStates : EvalSymlinks(f, p) = p}
PhysicalDirs == {p \in Physical : \E f \in FsStates : IsDirectory(f, p)}

PhysicalInv ==
  /\ AllowedRoots \subseteq PhysicalDirs
  /\ \A c \in Calls : /\ dirs[c] \subseteq PhysicalDirs
                      /\ pc[c] = "statRoot"  => at[c] \in Physical
                      /\ pc[c] = "addStat"   => real[c] \in Physical
                      /\ pc[c] = "addLocked" => real[c] \in PhysicalDirs

LEMMA ResolvedIsPhysical ==
  ASSUME NEW f \in FsStates, NEW p, EvalSymlinks(f, p) # NoPath
  PROVE  EvalSymlinks(f, p) \in Physical
  BY EvalInPaths, EvalIsPhysical DEF Physical

LEMMA PhysicalInvInit == Init => PhysicalInv
<1>. SUFFICES ASSUME Init PROVE PhysicalInv
  OBVIOUS
<1>1. ToSet(configRoots) \subseteq PhysicalDirs
  <2>. SUFFICES ASSUME NEW i \in DOMAIN ConfigArgs PROVE configRoots[i] \in PhysicalDirs
    BY DEF Init, New, ToSet
  <2>1. configRoots[i] \in Paths
    BY DEF Init, New
  <2>2. configRoots[i] \in Physical
    BY <2>1, SandboxAssumption, ResolvedIsPhysical DEF Init, New
  <2>. QED  BY <2>2 DEF Init, New, PhysicalDirs
<1>. QED  BY <1>1 DEF Init, PhysicalInv, AllowedRoots, ToSet

LEMMA PhysicalInvStep == TypeInv /\ PhysicalInv /\ [Next]_vars => PhysicalInv'
<1>. SUFFICES ASSUME TypeInv, PhysicalInv, [Next]_vars PROVE PhysicalInv'
  OBVIOUS
<1>. USE DEF TypeInv, TypeOK, LocalsOK, PhysicalInv
<1>1. ASSUME UNCHANGED <<roots, dirs, real>>,
             \A c \in Calls : pc'[c] \in {"statRoot", "addStat", "addLocked"} =>
                               pc'[c] = pc[c] /\ at'[c] = at[c]
      PROVE  PhysicalInv'
  BY <1>1 DEF roots, AllowedRoots
<1>2. ASSUME NEW c \in Calls, BeginPathCall(c) \/ BeginAdd(c) \/ BeginRemove(c)
      PROVE  PhysicalInv'
  BY <1>1, <1>2 DEF BeginPathCall, BeginAdd, BeginRemove, Begin, Goto
<1>3. ASSUME NEW c \in Calls, Return(c) PROVE PhysicalInv'
  BY <1>3 DEF Return, Forget, roots, AllowedRoots
<1>4. ASSUME NEW c \in Calls, ListRoots(c) PROVE PhysicalInv'
  BY <1>4 DEF ListRoots, roots, AllowedRoots
<1>5. ASSUME NEW c \in Calls, EvalRoot(c) \/ StatRoot(c) PROVE PhysicalInv'
  <2>1. CASE EvalRoot(c)
    <3>1. \/ UNCHANGED <<pc, at>>
          \/ pc' = [pc EXCEPT ![c] = "statRoot"] /\ at'[c] \in Physical
      BY <2>1, ResolvedIsPhysical DEF EvalRoot, Resolves
    <3>2. /\ \A o \in Calls \ {c} : at'[o] = at[o] /\ pc'[o] = pc[o]
          /\ pc'[c] \in {"validate", "statRoot"} /\ pc[c] = "validate"
      BY <2>1 DEF EvalRoot
    <3>. QED  BY <2>1, <3>1, <3>2 DEF EvalRoot, roots, AllowedRoots
  <2>2. CASE StatRoot(c)
    <3>1. dirs'[c] \subseteq PhysicalDirs
      BY <2>2 DEF StatRoot, Goto, PhysicalDirs
    <3>. QED  BY <2>2, <3>1 DEF StatRoot, Goto, roots, AllowedRoots
  <2>. QED  BY <1>5, <2>1, <2>2
<1>6. ASSUME NEW c \in Calls, InstallRoots(c) PROVE PhysicalInv'
  BY <1>6 DEF InstallRoots, Goto, locals, AllowedRoots
<1>7. ASSUME NEW c \in Calls, Lexical(c) \/ EvalParent(c) \/ CheckReal(c) PROVE PhysicalInv'
  BY <1>1, <1>7 DEF Lexical, EvalParent, CheckReal, Goto, locals
<1>8. ASSUME NEW c \in Calls, EvalFound(c) \/ RemoveResolve(c) PROVE PhysicalInv'
  BY <1>8 DEF EvalFound, RemoveResolve, Goto, roots, AllowedRoots
<1>9. ASSUME NEW c \in Calls, AddResolve(c) \/ AddStat(c) PROVE PhysicalInv'
  <2>1. CASE AddResolve(c)
    <3>1. pc'[c] = "addStat" => EvalSymlinks(fs, path[c]) \in Physical
      BY <2>1, ResolvedIsPhysical DEF AddResolve, Goto
    <3>. QED  BY <2>1, <3>1 DEF AddResolve, Goto, roots, AllowedRoots
  <2>2. CASE AddStat(c)
    <3>1. pc'[c] = "addLocked" => real[c] \in PhysicalDirs
      BY <2>2 DEF AddStat, Goto, PhysicalDirs
    <3>. QED  BY <2>2, <3>1 DEF AddStat, Goto, roots, locals, AllowedRoots
  <2>. QED  BY <1>9, <2>1, <2>2
<1>10. ASSUME NEW c \in Calls, AddRuntimeRoot(c) PROVE PhysicalInv'
  <2>1. real[c] \in Paths /\ real[c] \in PhysicalDirs
    BY <1>10 DEF AddRuntimeRoot, Goto
  <2>2. ToSet(runtimeRoots') \subseteq ToSet(runtimeRoots) \cup {real[c]}
    BY <1>10, <2>1, AppendToSet DEF AddRuntimeRoot
  <2>. QED  BY <1>10, <2>1, <2>2 DEF AddRuntimeRoot, Goto, locals, AllowedRoots
<1>11. ASSUME NEW c \in Calls, RemoveRuntimeRoot(c) PROVE PhysicalInv'
  <2>1. ToSet(runtimeRoots') \subseteq ToSet(runtimeRoots)
    BY <1>11, RemoveAtToSet DEF RemoveRuntimeRoot
  <2>. QED  BY <1>11, <2>1 DEF RemoveRuntimeRoot, Goto, locals, AllowedRoots
<1>12. CASE ClientChangesRoots \/ FilesystemChanges \/ UNCHANGED vars
  BY <1>1, <1>12 DEF ClientChangesRoots, FilesystemChanges, vars, locals
<1>. QED
  BY <1>2, <1>3, <1>4, <1>5, <1>6, <1>7, <1>8, <1>9, <1>10, <1>11, <1>12
     DEF Next, PathStep, EditStep

\* Every root was a path without links when it was resolved and led to a
\* directory when it was looked at, however the tree changes between the two
\* and before the entry in the list.
THEOREM RootsAlwaysPhysical == Spec => []RootsArePhysical
<1>1. Init => TypeInv /\ PhysicalInv
  BY TypeInvInit, PhysicalInvInit
<1>2. (TypeInv /\ PhysicalInv) /\ [Next]_vars => (TypeInv /\ PhysicalInv)'
  BY TypeInvStep, PhysicalInvStep
<1>3. PhysicalInv => RootsArePhysical
  BY DEF PhysicalInv, PhysicalDirs, Physical, RootsArePhysical
<1>. QED  BY <1>1, <1>2, <1>3, PTL DEF Spec

-----------------------------------------------------------------------------
(* Runtime roots are listed once, so that one removal is enough.           *)

NoDuplicates(s) == \A i, j \in DOMAIN s : s[i] = s[j] => i = j

OnceInv == NoDuplicates(runtimeRoots)

LEMMA AppendKeepsOnce ==
  ASSUME NEW S, NEW s \in Seq(S), NoDuplicates(s), NEW x \in S, ~Contains(s, x)
  PROVE  NoDuplicates(Append(s, x))
<1>1. /\ DOMAIN Append(s, x) = 1..(Len(s) + 1) /\ DOMAIN s = 1..Len(s)
      /\ Append(s, x)[Len(s) + 1] = x /\ Len(s) \in Nat
      /\ \A j \in 1..Len(s) : Append(s, x)[j] = s[j]
  OBVIOUS
<1>. QED  BY <1>1 DEF NoDuplicates, Contains

LEMMA RemoveAtKeepsOnce ==
  ASSUME NEW S, NEW s \in Seq(S), NoDuplicates(s), NEW i \in DOMAIN s
  PROVE  /\ NoDuplicates(RemoveAt(s, i))
         /\ s[i] \notin ToSet(RemoveAt(s, i))
<1>1. /\ DOMAIN RemoveAt(s, i) = 1..(Len(s) - 1) /\ DOMAIN s = 1..Len(s) /\ Len(s) \in Nat
      /\ \A j \in 1..(Len(s) - 1) : RemoveAt(s, i)[j] = IF j < i THEN s[j] ELSE s[j + 1]
  BY RemoveAtToSet
<1>. DEFINE old(j) == IF j < i THEN j ELSE j + 1
<1>2. /\ \A j \in DOMAIN RemoveAt(s, i) :
           old(j) \in DOMAIN s /\ old(j) # i /\ RemoveAt(s, i)[j] = s[old(j)]
      /\ \A j, k \in DOMAIN RemoveAt(s, i) : old(j) = old(k) => j = k
  BY <1>1
<1>. HIDE DEF old
<1>. QED  BY <1>2 DEF NoDuplicates, ToSet

LEMMA OnceInvStep == TypeInv /\ OnceInv /\ [Next]_vars => OnceInv'
<1>. SUFFICES ASSUME TypeInv, OnceInv, [Next]_vars PROVE OnceInv'
  OBVIOUS
<1>. USE DEF TypeInv, TypeOK, LocalsOK, OnceInv
<1>1. ASSUME NEW c \in Calls, AddRuntimeRoot(c) PROVE OnceInv'
  BY <1>1, AppendKeepsOnce DEF AddRuntimeRoot, Goto
<1>2. ASSUME NEW c \in Calls, RemoveRuntimeRoot(c) PROVE OnceInv'
  BY <1>2, RemoveAtKeepsOnce DEF RemoveRuntimeRoot
<1>3. CASE UNCHANGED runtimeRoots
  BY <1>3
<1>. QED
  BY <1>1, <1>2, <1>3
     DEF Next, PathStep, EditStep, BeginPathCall, BeginAdd, BeginRemove, Begin, Return, Forget,
         ListRoots, EvalRoot, StatRoot, InstallRoots, Lexical, EvalParent, EvalFound, CheckReal,
         AddResolve, AddStat, RemoveResolve, ClientChangesRoots, FilesystemChanges, roots, vars

LEMMA RemovalIsFinal ==
  TypeInv /\ OnceInv /\ [Next]_vars =>
    [\A c \in Calls :
        /\ pc[c] = "removeLocked" /\ pc'[c] = "removed"
        /\ path[c] \notin ToSet(runtimeRoots) \ {real[c]}
        => real[c] \notin ToSet(runtimeRoots')]_vars
<1>. SUFFICES ASSUME TypeInv, OnceInv, Next, NEW c \in Calls,
                     pc[c] = "removeLocked", pc'[c] = "removed",
                     path[c] \notin ToSet(runtimeRoots) \ {real[c]}
              PROVE  real[c] \notin ToSet(runtimeRoots')
  BY DEF vars
<1>1. RemoveRuntimeRoot(c)
  BY DEF TypeInv, TypeOK, Next, PathStep, EditStep, BeginPathCall, BeginAdd, BeginRemove, Begin,
         Return, Forget, ListRoots, EvalRoot, StatRoot, InstallRoots, Lexical, EvalParent, EvalFound,
         CheckReal, AddResolve, AddStat, AddRuntimeRoot, RemoveResolve, RemoveRuntimeRoot, Goto,
         ClientChangesRoots, FilesystemChanges
<1>. DEFINE hits == {i \in DOMAIN runtimeRoots : runtimeRoots[i] \in {real[c], path[c]}}
<1>2. \A i \in hits : runtimeRoots[i] = real[c]
  BY DEF ToSet
<1>3. CASE hits = {} /\ UNCHANGED runtimeRoots
  BY <1>3 DEF ToSet
<1>4. CASE \E i \in hits : runtimeRoots' = RemoveAt(runtimeRoots, i)
  BY <1>2, <1>4, RemoveAtKeepsOnce DEF TypeInv, TypeOK, OnceInv
<1>. QED  BY <1>1, <1>3, <1>4 DEF RemoveRuntimeRoot

\* One remove_allowed_dir undoes every add_allowed_dir of the directory that
\* came before, from whatever call: none has left a second entry.
THEOREM RemovalsAreFinal == Spec => RemoveIsFinal
<1>1. Init => TypeInv /\ OnceInv
  BY TypeInvInit DEF Init, OnceInv, NoDuplicates
<1>2. (TypeInv /\ OnceInv) /\ [Next]_vars => (TypeInv /\ OnceInv)'
  BY TypeInvStep, OnceInvStep
<1>. QED  BY <1>1, <1>2, RemovalIsFinal, PTL DEF Spec, RemoveIsFinal

=============================================================================
