---------------------------- MODULE ShieldProofs ----------------------------
(***************************************************************************)
(* What PrivacyShield guarantees for every set of tool calls, patterns,    *)
(* secrets and responses, and every bound: its type invariant, that a      *)
(* covered call is blocked, that the audit log keeps what was reported and *)
(* stays chained, and that masking leaves no secret in a response.         *)
(*                                                                         *)
(* The texts and lists are computed by recursive functions.  That such a   *)
(* function exists, and what it computes, is proved by induction on sets   *)
(* of natural numbers (PrefixInduction), from the fact that < is well      *)
(* founded on them.                                                        *)
(***************************************************************************)
EXTENDS PrivacyShield, WellFoundedInduction, TLAPS

(* A set with 0 and the successor of each of its members has every natural *)
(* number: a smallest one left out cannot be.                              *)
LEMMA NatSetInduction ==
  ASSUME NEW S, 0 \in S, \A n \in Nat : n \in S => n + 1 \in S
  PROVE  Nat \subseteq S
<1> DEFINE R == OpToRel(<, Nat)
           T == Nat \ S
<1>1. IsWellFoundedOn(R, Nat)
  BY NatLessThanWellFounded
<1>2. \A x, y \in Nat : <<x, y>> \in R <=> x < y
  BY DEF OpToRel
<1> HIDE DEF R
<1>3. SUFFICES ASSUME T # {} PROVE FALSE
  OBVIOUS
<1>4. PICK x \in T : \A y \in T : ~ (<<y, x>> \in R)
  BY <1>1, <1>3, WFMin
<1>5. x \in Nat /\ x # 0 /\ x - 1 \in Nat
  OBVIOUS
<1>6. <<x - 1, x>> \in R
  BY <1>2, <1>5
<1>7. x - 1 \notin T
  BY <1>4, <1>6
<1> QED
  BY <1>4, <1>5, <1>7

LEMMA PrefixInduction ==
  ASSUME NEW m \in Nat, NEW S, 0 \in S, \A k \in 1..m : k - 1 \in S => k \in S
  PROVE  0..m \subseteq S
<1> DEFINE T == {n \in Nat : n <= m => n \in S}
<1>1. 0 \in T
  OBVIOUS
<1>2. ASSUME NEW n \in Nat, n \in T PROVE n + 1 \in T
  <2>1. n + 1 <= m => n + 1 \in 1..m /\ (n + 1) - 1 = n /\ n \in S
    BY <1>2
  <2> QED
    BY <2>1
<1> HIDE DEF T
<1>3. Nat \subseteq T
  BY <1>1, <1>2, NatSetInduction
<1> QED
  BY <1>3 DEF T

(* A function may be defined from each of its values to the next.          *)
Steps(m, S) == [(1..m) \X S -> S]
Runs(m, S, a, step) ==
  {g \in [0..m -> S] : g[0] = a /\ \A k \in 1..m : g[k] = step[<<k, g[k - 1]>>]}

LEMMA PrefixRecursion ==
  ASSUME NEW m \in Nat, NEW S, NEW a \in S, NEW step \in Steps(m, S)
  PROVE  Runs(m, S, a, step) # {}
<1> DEFINE Good(g, n) == g[0] = a /\ \A k \in 1..n : g[k] = step[<<k, g[k - 1]>>]
           T == {n \in 0..m : \E g \in [0..m -> S] : Good(g, n)}
<1>1. 0 \in T
  <2> DEFINE h == [k \in 0..m |-> a]
  <2>1. h \in [0..m -> S] /\ h[0] = a
    OBVIOUS
  <2> HIDE DEF h
  <2>2. Good(h, 0)
    BY <2>1
  <2> QED
    BY <2>1, <2>2
<1>2. ASSUME NEW n \in 1..m, n - 1 \in T PROVE n \in T
  <2>1. PICK g \in [0..m -> S] : Good(g, n - 1)
    BY <1>2
  <2> DEFINE h == [g EXCEPT ![n] = step[<<n, g[n - 1]>>]]
  <2>2. n - 1 \in 0..m /\ g[n - 1] \in S
    OBVIOUS
  <2>3. h \in [0..m -> S]
    BY <2>2 DEF Steps
  <2>4. h[0] = a /\ h[n] = step[<<n, h[n - 1]>>]
    BY <2>1, <2>2
  <2>5. ASSUME NEW k \in 1..(n - 1) PROVE h[k] = step[<<k, h[k - 1]>>]
    <3>1. h[k] = g[k] /\ h[k - 1] = g[k - 1]
      OBVIOUS
    <3> QED
      BY <2>1, <3>1
  <2> HIDE DEF h
  <2>6. Good(h, n)
    BY <2>4, <2>5
  <2> QED
    BY <2>3, <2>6
<1>3. m \in T
  <2> HIDE DEF T
  <2> QED
    BY <1>1, <1>2, PrefixInduction
<1> QED
  BY <1>3 DEF Runs

-----------------------------------------------------------------------------
(* What the recursive operators compute, one element after the other.      *)
LEMMA Filtering ==
  ASSUME NEW A, NEW list \in Seq(A), NEW keep
  PROVE  LET F == FilteredUpTo(list, keep)
         IN /\ F \in [0..Len(list) -> Seq(A)]
            /\ F[0] = <<>>
            /\ \A i \in 1..Len(list) :
                 F[i] = IF list[i] \in keep THEN Append(F[i - 1], list[i]) ELSE F[i - 1]
<1> DEFINE m == Len(list)
           S == Seq(A)
           Longer(f, i) == IF list[i] \in keep THEN Append(f[i - 1], list[i]) ELSE f[i - 1]
           Is(f) == f = [i \in 0..m |-> IF i = 0 THEN <<>> ELSE Longer(f, i)]
           step == [y \in (1..m) \X S |->
                      IF list[y[1]] \in keep THEN Append(y[2], list[y[1]]) ELSE y[2]]
           F == FilteredUpTo(list, keep)
<1>1. F = CHOOSE f : Is(f)
  BY Zenon DEF FilteredUpTo
<1>2. m \in Nat /\ <<>> \in S
  OBVIOUS
<1>3. \A i \in 1..m, x \in S : IF list[i] \in keep THEN Append(x, list[i]) \in S ELSE x \in S
  OBVIOUS
<1> HIDE DEF m, S, F
<1>4. step \in Steps(m, S)
  BY <1>3 DEF Steps
<1> HIDE DEF step
<1>5. PICK g \in [0..m -> S] : g[0] = <<>> /\ \A i \in 1..m : g[i] = step[<<i, g[i - 1]>>]
  <2>1. Runs(m, S, <<>>, step) # {}
    BY <1>2, <1>4, PrefixRecursion
  <2> QED
    BY <2>1 DEF Runs
<1>6. ASSUME NEW i \in 1..m PROVE g[i] = Longer(g, i)
  <2>1. g[i - 1] \in S /\ <<i, g[i - 1]>> \in (1..m) \X S
    BY <1>2
  <2> QED
    BY <1>5, <2>1 DEF step
<1>7. Is(g)
  <2> DEFINE v(i) == IF i = 0 THEN <<>> ELSE Longer(g, i)
  <2>1. ASSUME NEW i \in 0..m PROVE g[i] = v(i)
    <3>1. CASE i = 0
      BY <1>5, <3>1
    <3>2. CASE i \in 1..m
      <4>1. i # 0
        BY <1>2, <3>2
      <4>2. g[i] = Longer(g, i)
        BY <1>6, <3>2
      <4> QED
        BY <4>1, <4>2
    <3> QED
      BY <1>2, <3>1, <3>2
  <2> HIDE DEF v
  <2>2. g = [i \in 0..m |-> v(i)]
    BY <2>1
  <2> QED
    BY <2>2 DEF v
<1> HIDE DEF Is
<1>8. Is(F)
  BY <1>1, <1>7
<1>9. F[0] = <<>> /\ DOMAIN F = 0..m /\ F = [i \in 0..m |-> F[i]]
  <2> DEFINE v(i) == IF i = 0 THEN <<>> ELSE Longer(F, i)
  <2>1. F = [i \in 0..m |-> v(i)]
    BY <1>8 DEF Is
  <2> HIDE DEF v
  <2>2. F[0] = v(0) /\ DOMAIN F = 0..m /\ F = [i \in 0..m |-> F[i]]
    BY <1>2, <2>1
  <2> QED
    BY <2>2 DEF v
<1>10. ASSUME NEW i \in 1..m PROVE F[i] = Longer(F, i)
  <2> DEFINE v(j) == IF j = 0 THEN <<>> ELSE Longer(F, j)
  <2>1. F = [j \in 0..m |-> v(j)]
    BY <1>8 DEF Is
  <2>2. i \in 0..m /\ i # 0
    BY <1>2
  <2> HIDE DEF v
  <2>3. F[i] = v(i)
    BY <2>1, <2>2
  <2> QED
    BY <2>2, <2>3 DEF v
<1> DEFINE T == {k \in 0..m : F[k] \in S}
<1>11. 0 \in T
  BY <1>2, <1>9
<1>12. ASSUME NEW k \in 1..m, k - 1 \in T PROVE k \in T
  BY <1>2, <1>3, <1>10, <1>12
<1> HIDE DEF T
<1>13. 0..m \subseteq T
  BY <1>2, <1>11, <1>12, PrefixInduction
<1>14. F \in [0..m -> S]
  BY <1>9, <1>13 DEF T
<1> QED
  BY <1>9, <1>10, <1>14 DEF F, m, S

LEMMA ListedAppend ==
  ASSUME NEW A, NEW q \in Seq(A), NEW p \in A
  PROVE  Listed(Append(q, p)) = Listed(q) \cup {p}
<1> DEFINE n == Len(q)
           r == Append(q, p)
<1>1. /\ n \in Nat /\ DOMAIN q = 1..n /\ DOMAIN r = 1..(n + 1)
      /\ r[n + 1] = p /\ \A i \in 1..n : r[i] = q[i]
  OBVIOUS
<1> HIDE DEF n, r
<1>2. 1..(n + 1) = 1..n \cup {n + 1}
  BY <1>1
<1> QED
  BY <1>1, <1>2 DEF Listed, r

LEMMA FilteredIs ==
  ASSUME NEW A, NEW list \in Seq(A), NEW keep
  PROVE  /\ Filtered(list, keep) \in Seq(A)
         /\ Listed(Filtered(list, keep)) = Listed(list) \cap keep
<1> DEFINE F == FilteredUpTo(list, keep)
           m == Len(list)
           T == {k \in 0..m : Listed(F[k]) = {list[i] : i \in 1..k} \cap keep}
<1>1. /\ m \in Nat /\ DOMAIN list = 1..m
      /\ F \in [0..m -> Seq(A)] /\ F[0] = <<>>
      /\ \A i \in 1..m : F[i] = IF list[i] \in keep THEN Append(F[i - 1], list[i]) ELSE F[i - 1]
  BY Filtering
<1> HIDE DEF F, m
<1>2. 0 \in T
  BY <1>1 DEF Listed
<1>3. ASSUME NEW k \in 1..m, k - 1 \in T PROVE k \in T
  <2> DEFINE Before == {list[i] : i \in 1..(k - 1)}
             Upto == {list[i] : i \in 1..k}
  <2>1. k - 1 \in 0..m /\ k \in 0..m /\ Listed(F[k - 1]) = Before \cap keep
    <3>1. k - 1 \in 0..m /\ k \in 0..m
      BY <1>1
    <3>2. Listed(F[k - 1]) = Before \cap keep
      BY <1>3, Zenon
    <3> QED BY <3>1, <3>2
  <2>2. Upto = Before \cup {list[k]}
    <3>1. 1..k = 1..(k - 1) \cup {k}
      BY <1>1
    <3> QED
      BY <3>1, SMTT(60)
  <2> HIDE DEF Before
  <2>3. ASSUME Listed(F[k]) = Upto \cap keep PROVE k \in T
    BY <2>1, <2>3
  <2> HIDE DEF Upto, T
  <2>4. CASE list[k] \notin keep
    BY <1>1, <2>1, <2>4, <2>2, <2>3
  <2>5. CASE list[k] \in keep
    <3>1. F[k] = Append(F[k - 1], list[k]) /\ F[k - 1] \in Seq(A)
      BY <1>1, <2>1, <2>5
    <3>2. list[k] \in A
      BY <1>1
    <3>3. Listed(F[k]) = Listed(F[k - 1]) \cup {list[k]}
      BY <3>1, <3>2, ListedAppend
    <3> QED
      BY <2>1, <2>5, <2>2, <2>3, <3>3
  <2> QED
    BY <2>4, <2>5
<1> HIDE DEF T
<1>4. m \in T
  <2>1. m \in Nat
    BY <1>1
  <2>2. 0..m \subseteq T
    BY <2>1, <1>2, <1>3, PrefixInduction
  <2> QED
    BY <2>1, <2>2
<1>5. F[m] \in Seq(A) /\ Listed(F[m]) = {list[i] : i \in 1..m} \cap keep
  BY <1>1, <1>4 DEF T
<1> QED
  BY <1>1, <1>5 DEF Filtered, Listed, F, m

(* RemovePattern drops the pattern wherever it is, and nothing else.       *)
LEMMA RemovePatternDrops ==
  ASSUME NEW list \in Seq(Pattern), NEW p
  PROVE  /\ RemovePattern(list, p) \in Seq(Pattern)
         /\ Listed(RemovePattern(list, p)) = Listed(list) \ {p}
<1>1. Listed(list) \subseteq Pattern
  BY DEF Listed
<1> QED
  BY <1>1, FilteredIs DEF RemovePattern


-----------------------------------------------------------------------------
(* Induction from the end of a text to its beginning.                      *)
LEMMA SuffixInduction ==
  ASSUME NEW top \in Nat, NEW S,
         \A i \in 1..top : (\A j \in (i + 1)..top : j \in S) => i \in S
  PROVE  1..top \subseteq S
<1> DEFINE T == {k \in 0..top : (top - k + 1)..top \subseteq S}
<1>1. 0 \in T
  OBVIOUS
<1>2. ASSUME NEW k \in 1..top, k - 1 \in T PROVE k \in T
  <2>1. (top - k + 1) \in 1..top /\ \A j \in (top - k + 2)..top : j \in S
    BY <1>2
  <2>2. (top - k + 1) \in S
    BY <2>1
  <2> QED
    BY <2>1, <2>2
<1> HIDE DEF T
<1>3. top \in T
  BY <1>1, <1>2, PrefixInduction
<1> QED
  BY <1>3 DEF T

LEMMA Prepend ==
  ASSUME NEW A, NEW x \in A, NEW q \in Seq(A)
  PROVE  /\ <<x>> \o q \in Seq(A) /\ Len(<<x>> \o q) = Len(q) + 1
         /\ (<<x>> \o q)[1] = x
         /\ \A k \in 1..Len(q) : (<<x>> \o q)[k + 1] = q[k]
OBVIOUS

(* A text may be computed from its end: each of the first `last` places    *)
(* puts one token in front of what a later place has.                      *)
Later(last, top) == {next \in [1..last -> 1..top] : \A i \in 1..last : next[i] > i}
Tails(last, top, A, first, next) ==
  {g \in [1..top -> Seq(A)] :
     \A i \in 1..top : g[i] = IF i > last THEN <<>> ELSE <<first[i]>> \o g[next[i]]}

LEMMA SuffixRecursion ==
  ASSUME NEW last \in Nat, NEW top \in Nat, last <= top, NEW A,
         NEW first \in [1..last -> A], NEW next \in Later(last, top)
  PROVE  Tails(last, top, A, first, next) # {}
<1> DEFINE S == Seq(A)
           Rest(g, i) == <<first[i]>> \o g[next[i]]
           Good(g, i) == g[i] = IF i > last THEN <<>> ELSE Rest(g, i)
           T == {k \in 0..last : \E g \in [1..top -> S] :
                                   \A i \in (last - k + 1)..top : Good(g, i)}
<1>1. <<>> \in S /\ \A i \in 1..last, q \in S : <<first[i]>> \o q \in S
  OBVIOUS
<1>2. \A i \in 1..last : next[i] \in 1..top /\ next[i] > i
  BY DEF Later
<1> HIDE DEF S
<1>3. 0 \in T
  <2> DEFINE h == [i \in 1..top |-> <<>>]
  <2>1. h \in [1..top -> S] /\ \A i \in 1..top : h[i] = <<>>
    BY <1>1
  <2> HIDE DEF h
  <2>2. \A i \in (last - 0 + 1)..top : Good(h, i)
    BY <2>1
  <2> QED
    BY <2>1, <2>2
<1>4. ASSUME NEW k \in 1..last, k - 1 \in T PROVE k \in T
  <2> DEFINE x == last - k + 1
  <2>1. x \in 1..last /\ x \in 1..top /\ last - (k - 1) + 1 = x + 1 /\ k \in 0..last
    OBVIOUS
  <2>2. PICK g \in [1..top -> S] : \A i \in (x + 1)..top : Good(g, i)
    BY <1>4, <2>1
  <2> HIDE DEF x
  <2> DEFINE h == [g EXCEPT ![x] = Rest(g, x)]
  <2>3. next[x] \in 1..top /\ next[x] > x /\ g[next[x]] \in S
    BY <1>2, <2>1
  <2>4. Rest(g, x) \in S
    BY <1>1, <2>1, <2>3
  <2>5. /\ h \in [1..top -> S] /\ h[x] = Rest(g, x)
        /\ \A i \in 1..top : i # x => h[i] = g[i]
    <3> HIDE DEF Rest
    <3> QED
      BY <2>1, <2>4
  <2> HIDE DEF h
  <2>6. Good(h, x)
    <3>1. h[next[x]] = g[next[x]] /\ ~(x > last)
      BY <2>1, <2>3, <2>5
    <3> QED
      BY <2>5, <3>1
  <2>7. ASSUME NEW i \in (x + 1)..top PROVE Good(h, i)
    <3>1. i \in 1..top /\ h[i] = g[i] /\ Good(g, i)
      BY <2>1, <2>2, <2>5
    <3>2. ASSUME ~(i > last) PROVE h[next[i]] = g[next[i]]
      <4>1. i \in 1..last
        BY <3>1, <3>2
      <4> QED
        BY <1>2, <2>1, <2>5, <4>1
    <3> QED
      BY <3>1, <3>2
  <2> HIDE DEF Good
  <2>8. \A i \in x..top : Good(h, i)
    BY <2>1, <2>6, <2>7
  <2> QED
    BY <2>1, <2>5, <2>8 DEF x
<1> HIDE DEF T
<1>5. 0..last \subseteq T
  BY <1>3, <1>4, PrefixInduction
<1>6. last \in T
  BY <1>5
<1>7. PICK g \in [1..top -> S] : \A i \in 1..top : Good(g, i)
  <2>1. last - last + 1 = 1
    OBVIOUS
  <2> QED
    BY <1>6, <2>1 DEF T
<1>8. g \in Tails(last, top, A, first, next)
  BY <1>7 DEF Tails, S
<1> QED
  BY <1>8

(* What ReplaceAll computes, from the end of the text on: the token where  *)
(* s occurs, the text's own elsewhere.                                     *)
Replacement(text, s, token, i) ==
  IF OccursAt(s, text, i) THEN token ELSE text[i]
After(text, s, i) == IF OccursAt(s, text, i) THEN i + Len(s) ELSE i + 1

LEMMA Replacing ==
  ASSUME NEW text \in Text, NEW s \in Seq(Token), s # <<>>, NEW token \in Placeholder
  PROVE  LET F == ReplacedFrom(text, s, token)
             top == Len(text) + Len(s)
         IN /\ F \in [1..top -> Text]
            /\ \A i \in 1..top : i > Len(text) => F[i] = <<>>
            /\ \A i \in 1..Len(text) :
                 /\ After(text, s, i) \in (i + 1)..(Len(text) + 1)
                 /\ F[i] = <<Replacement(text, s, token, i)>> \o F[After(text, s, i)]
<1> DEFINE last == Len(text)
           top == last + Len(s)
           A == Token \cup Placeholder
           Is(f) == f = [i \in 1..top |->
                           IF i > last THEN <<>>
                           ELSE IF OccursAt(s, text, i) THEN <<token>> \o f[i + Len(s)]
                           ELSE <<text[i]>> \o f[i + 1]]
           F == ReplacedFrom(text, s, token)
           first == [i \in 1..last |-> Replacement(text, s, token, i)]
           next == [i \in 1..last |-> After(text, s, i)]
           Rest(f, i) == IF i > last THEN <<>>
                         ELSE <<Replacement(text, s, token, i)>> \o f[After(text, s, i)]
<1>1. F = CHOOSE f : Is(f)
  BY Zenon DEF ReplacedFrom
<1>2. last \in Nat /\ top \in Nat /\ last < top /\ Len(s) \in Nat /\ Len(s) > 0
  BY DEF Text
<1>3. ASSUME NEW i \in 1..last
      PROVE  After(text, s, i) \in (i + 1)..(last + 1) /\ Replacement(text, s, token, i) \in A
  BY <1>2 DEF After, Replacement, OccursAt, Text
<1> HIDE DEF top, last, F
<1>4. first \in [1..last -> A] /\ next \in Later(last, top)
  BY <1>2, <1>3 DEF Later
<1>5. \A i \in 1..last : first[i] = Replacement(text, s, token, i) /\ next[i] = After(text, s, i)
  OBVIOUS
<1> HIDE DEF first, next
<1>6. PICK g \in [1..top -> Seq(A)] :
        \A i \in 1..top : g[i] = IF i > last THEN <<>> ELSE <<first[i]>> \o g[next[i]]
  <2>1. Tails(last, top, A, first, next) # {}
    BY <1>2, <1>4, SuffixRecursion
  <2> QED
    BY <2>1 DEF Tails
<1> DEFINE Isnt(f) == f = [i \in 1..top |-> Rest(f, i)]
<1>7. \A f : Is(f) <=> Isnt(f)
  BY <1>2 DEF After, Replacement
<1>8. Isnt(g)
  <2>1. ASSUME NEW i \in 1..top PROVE g[i] = Rest(g, i)
    <3>1. CASE i > last
      BY <1>6, <3>1
    <3>2. CASE ~(i > last)
      <4>1. i \in 1..last
        BY <1>2, <3>2
      <4>2. g[i] = <<first[i]>> \o g[next[i]]
        BY <1>6, <3>2
      <4>3. g[i] = <<Replacement(text, s, token, i)>> \o g[After(text, s, i)]
        BY <1>5, <4>1, <4>2
      <4> QED
        BY <3>2, <4>3
    <3> QED
      BY <3>1, <3>2
  <2> DEFINE v(i) == Rest(g, i)
  <2>2. \A i \in 1..top : g[i] = v(i)
    BY <2>1
  <2> HIDE DEF v
  <2>3. g = [i \in 1..top |-> v(i)]
    BY <2>2
  <2> QED
    BY <2>3 DEF v
<1> HIDE DEF Is, Isnt
<1>9. Isnt(F)
  BY <1>1, <1>7, <1>8
<1>10. DOMAIN F = 1..top /\ F = [i \in 1..top |-> F[i]] /\ \A i \in 1..top : F[i] = Rest(F, i)
  <2> DEFINE v(i) == Rest(F, i)
  <2>1. F = [i \in 1..top |-> v(i)]
    BY <1>9 DEF Isnt
  <2> HIDE DEF v
  <2>2. DOMAIN F = 1..top /\ F = [i \in 1..top |-> F[i]] /\ \A i \in 1..top : F[i] = v(i)
    BY <2>1
  <2> QED
    BY <2>2 DEF v
<1> DEFINE T == {i \in 1..top : F[i] \in Seq(A)}
<1>11. ASSUME NEW i \in 1..top, \A j \in (i + 1)..top : j \in T PROVE i \in T
  <2>1. CASE i > last
    <3>1. F[i] = <<>>
      BY <1>10, <2>1
    <3> HIDE DEF A
    <3>2. <<>> \in Seq(A)
      OBVIOUS
    <3>3. F[i] \in Seq(A)
      BY <3>1, <3>2
    <3> QED
      BY <3>3
  <2>2. CASE ~(i > last)
    <3>1. i \in 1..last
      BY <1>2, <2>2
    <3>2. After(text, s, i) \in (i + 1)..top /\ Replacement(text, s, token, i) \in A
      BY <1>2, <1>3, <3>1
    <3>3. F[After(text, s, i)] \in Seq(A)
      BY <1>11, <3>2
    <3> HIDE DEF A
    <3>4. F[i] = <<Replacement(text, s, token, i)>> \o F[After(text, s, i)]
      BY <1>10, <2>2
    <3>5. F[i] \in Seq(A)
      BY <3>2, <3>3, <3>4, Prepend
    <3> QED
      BY <3>5
  <2> QED
    BY <2>1, <2>2
<1> HIDE DEF T
<1>12. 1..top \subseteq T
  BY <1>2, <1>11, SuffixInduction
<1>13. F \in [1..top -> Seq(A)]
  BY <1>10, <1>12 DEF T
<1>14. \A i \in 1..top : i > last => F[i] = <<>>
  BY <1>10
<1>15. ASSUME NEW i \in 1..last
       PROVE F[i] = <<Replacement(text, s, token, i)>> \o F[After(text, s, i)]
  <2>1. i \in 1..top /\ ~(i > last)
    BY <1>2
  <2>2. F[i] = Rest(F, i)
    BY <1>10, <2>1
  <2> QED
    BY <2>1, <2>2
<1> QED
  BY <1>3, <1>13, <1>14, <1>15 DEF Text, F, top, last

(* Tokens in a row after a replacement were in the text at the same place, *)
(* and s did not occur at any of them.                                     *)
Kept(text, s, q, i, k) ==
  i + k - 1 <= Len(text) /\ q[k] = text[i + k - 1] /\ ~OccursAt(s, text, i + k - 1)

LEMMA Untouched ==
  ASSUME NEW text \in Text, NEW s \in Seq(Token), s # <<>>, NEW token \in Placeholder,
         NEW i \in 1..(Len(text) + Len(s)), NEW m \in Nat,
         m <= Len(ReplacedFrom(text, s, token)[i]),
         \A k \in 1..m : ReplacedFrom(text, s, token)[i][k] \in Token
  PROVE  \A k \in 1..m : Kept(text, s, ReplacedFrom(text, s, token)[i], i, k)
<1> DEFINE F == ReplacedFrom(text, s, token)
           last == Len(text)
           top == last + Len(s)
           Plain(q, n) == \A k \in 1..n : q[k] \in Token
           T == {j \in 1..top : \A n \in 0..Len(F[j]) :
                   Plain(F[j], n) => \A k \in 1..n : Kept(text, s, F[j], j, k)}
<1>1. /\ F \in [1..top -> Text] /\ \A j \in 1..top : j > last => F[j] = <<>>
      /\ \A j \in 1..last :
           /\ After(text, s, j) \in (j + 1)..top
           /\ F[j] = <<Replacement(text, s, token, j)>> \o F[After(text, s, j)]
  <2>1. Len(text) \in Nat /\ Len(s) \in Nat /\ Len(s) > 0
    BY DEF Text
  <2> QED
    BY <2>1, Replacing, SMTT(60)
<1>2. last \in Nat /\ top \in Nat /\ last < top
  BY DEF Text
<1>3. token \notin Token
  BY TokenAssumption
<1> HIDE DEF F, last, top
<1>4. ASSUME NEW j \in 1..top, \A l \in (j + 1)..top : l \in T PROVE j \in T
  <2> SUFFICES ASSUME NEW n \in 0..Len(F[j]), Plain(F[j], n), NEW k \in 1..n
               PROVE  Kept(text, s, F[j], j, k)
    OBVIOUS
  <2>1. j \in 1..last
    <3>1. Len(F[j]) \in Nat /\ F[j] # <<>>
      BY <1>1 DEF Text
    <3> QED
      BY <1>1, <1>2, <3>1
  <2>2. j + 1 \in 1..top /\ F[j] \in Text /\ F[j + 1] \in Text
    BY <1>1, <1>2, <2>1
  <2> DEFINE r == Replacement(text, s, token, j)
             q == F[After(text, s, j)]
  <2>3. F[j] = <<r>> \o q /\ q \in Text /\ r \in Token \cup Placeholder
    <3>1. After(text, s, j) \in 1..top
      <4>1. After(text, s, j) \in (j + 1)..top
        BY <1>1, <2>1
      <4> QED
        BY <1>2, <2>1, <4>1
    <3>2. r \in Token \cup Placeholder
      BY <2>1 DEF Replacement, Text, last
    <3> QED
      BY <1>1, <2>1, <3>1, <3>2
  <2> HIDE DEF r, q
  <2>4. /\ F[j][1] = r /\ Len(F[j]) = Len(q) + 1 /\ Len(q) \in Nat
        /\ \A l \in 1..Len(q) : F[j][l + 1] = q[l]
    BY <2>3, Prepend DEF Text
  <2>5. r \in Token
    BY <2>4
  <2>6. ~OccursAt(s, text, j) /\ r = text[j] /\ q = F[j + 1]
    BY <1>3, <2>5 DEF r, q, Replacement, After
  <2>7. ASSUME NEW l \in 1..(n - 1) PROVE Kept(text, s, F[j + 1], j + 1, l)
    <3>1. n - 1 \in 0..Len(F[j + 1])
      BY <2>4, <2>6
    <3>2. ASSUME NEW x \in 1..(n - 1) PROVE q[x] \in Token
      <4>1. x + 1 \in 1..n /\ x \in 1..Len(q)
        BY <2>4
      <4> QED
        BY <2>4, <4>1
    <3>3. j + 1 \in T
      BY <1>4, <2>2, SMTT(60)
    <3>4. Plain(F[j + 1], n - 1)
      BY <2>6, <3>2
    <3> QED
      BY <3>1, <3>3, <3>4
  <2>8. CASE k = 1
    BY <1>2, <2>1, <2>4, <2>6, <2>8 DEF Kept, last
  <2>9. CASE k # 1
    <3>1. k - 1 \in 1..(n - 1) /\ k - 1 \in 1..Len(q) /\ (j + 1) + (k - 1) - 1 = j + k - 1
          /\ (k - 1) + 1 = k
      BY <2>4, <2>9
    <3>2. Kept(text, s, F[j + 1], j + 1, k - 1)
      BY <2>7, <3>1
    <3>3. F[j][k] = F[j + 1][k - 1]
      BY <2>4, <2>6, <3>1
    <3> QED
      BY <3>1, <3>2, <3>3 DEF Kept
  <2> QED
    BY <2>8, <2>9
<1>5. i \in 1..top
  BY DEF top, last
<1>6. m \in 0..Len(F[i]) /\ Plain(F[i], m)
  BY DEF F
<1>7. i \in T
  <2> HIDE DEF T
  <2>1. 1..top \subseteq T
    BY <1>2, <1>4, SuffixInduction
  <2> QED
    BY <1>5, <2>1
<1> QED
  BY <1>6, <1>7 DEF F

(* What occurs after a replacement occurred before, and not where the      *)
(* replaced text did.                                                      *)
LEMMA ReplacedOccurrence ==
  ASSUME NEW text \in Text, NEW s \in Seq(Token), s # <<>>, NEW token \in Placeholder,
         NEW u \in Seq(Token), u # <<>>, Occurs(u, ReplaceAll(text, s, token))
  PROVE  \E j \in 1..Len(text) : OccursAt(u, text, j) /\ ~OccursAt(s, text, j)
<1> DEFINE F == ReplacedFrom(text, s, token)
           last == Len(text)
           top == last + Len(s)
           Before == \E j \in 1..last : OccursAt(u, text, j) /\ ~OccursAt(s, text, j)
           T == {j \in 1..top : \A p \in 1..Len(F[j]) : OccursAt(u, F[j], p) => Before}
<1>1. /\ F \in [1..top -> Text] /\ \A j \in 1..top : j > last => F[j] = <<>>
      /\ \A j \in 1..last :
           /\ After(text, s, j) \in (j + 1)..top
           /\ F[j] = <<Replacement(text, s, token, j)>> \o F[After(text, s, j)]
  <2>1. Len(text) \in Nat /\ Len(s) \in Nat /\ Len(s) > 0
    BY DEF Text
  <2> QED
    BY <2>1, Replacing
<1>2. last \in Nat /\ top \in Nat /\ last < top /\ Len(u) \in Nat /\ Len(u) > 0
      /\ DOMAIN u = 1..Len(u)
  BY DEF Text
<1>3. \A j \in 1..top : Len(F[j]) \in Nat
  BY <1>1 DEF Text
<1> HIDE DEF F, last, top, Before
<1>4. ASSUME NEW j \in 1..top, \A l \in (j + 1)..top : l \in T PROVE j \in T
  <2> SUFFICES ASSUME NEW p \in 1..Len(F[j]), OccursAt(u, F[j], p)
               PROVE  Before
    OBVIOUS
  <2>1. j \in 1..last
    BY <1>1, <1>2
  <2> DEFINE r == Replacement(text, s, token, j)
             y == After(text, s, j)
             q == F[y]
  <2>2. F[j] = <<r>> \o q /\ q \in Text /\ y \in (j + 1)..top /\ y \in 1..top
        /\ r \in Token \cup Placeholder
    <3>1. r \in Token \cup Placeholder
      BY <2>1 DEF Replacement, Text, last
    <3> QED
      BY <1>1, <1>2, <2>1, <3>1
  <2> HIDE DEF r, y
  <2>3. /\ Len(F[j]) = Len(q) + 1 /\ Len(q) \in Nat
        /\ \A l \in 1..Len(q) : F[j][l + 1] = q[l]
    <3> HIDE DEF q
    <3> QED
      BY <2>2, Prepend DEF Text
  <2>4. p + Len(u) - 1 <= Len(F[j]) /\ \A k \in 1..Len(u) : F[j][p + k - 1] = u[k]
    BY <1>2, SMTT(60) DEF OccursAt
  <2>5. CASE p = 1
    <3>1. \A k \in 1..Len(u) : F[j][k] = u[k] /\ u[k] \in Token
      BY <1>2, <2>4, <2>5
    <3>2. \A k \in 1..Len(u) : Kept(text, s, F[j], j, k)
      <4>1. Len(u) <= Len(ReplacedFrom(text, s, token)[j])
            /\ \A k \in 1..Len(u) : ReplacedFrom(text, s, token)[j][k] \in Token
        BY <1>3, <2>4, <2>5, <3>1 DEF F
      <4>2. j \in 1..(Len(text) + Len(s)) /\ Len(u) \in Nat
        BY <1>2 DEF top, last
      <4> HIDE DEF T
      <4> QED
        BY <4>1, <4>2, Untouched DEF F
    <3>3. OccursAt(u, text, j) /\ ~OccursAt(s, text, j)
      <4>1. \A k \in 1..Len(u) : /\ j + k - 1 <= last /\ text[j + k - 1] = u[k]
                                 /\ ~OccursAt(s, text, j + k - 1)
        BY <3>1, <3>2 DEF Kept, last
      <4>2. Len(u) \in 1..Len(u) /\ 1 \in 1..Len(u) /\ j + 1 - 1 = j
        BY <1>2
      <4>3. ~OccursAt(s, text, j)
        BY <4>1, <4>2
      <4>4. OccursAt(u, text, j)
        BY <1>2, <4>1, <4>2 DEF OccursAt, last
      <4> QED
        BY <4>3, <4>4
    <3> QED
      BY <2>1, <3>3 DEF Before
  <2>6. CASE p # 1
    <3>1. p - 1 \in 1..Len(q) /\ (p - 1) + Len(u) - 1 <= Len(q)
      BY <1>2, <2>3, <2>4, <2>6
    <3>2. ASSUME NEW k \in 1..Len(u) PROVE q[(p - 1) + k - 1] = u[k]
      <4>1. (p - 1) + k - 1 \in 1..Len(q) /\ ((p - 1) + k - 1) + 1 = p + k - 1
        BY <1>2, <2>3, <3>1
      <4> QED
        BY <2>3, <2>4, <4>1
    <3>3. OccursAt(u, q, p - 1)
      <4> HIDE DEF q
      <4> QED
        BY <1>2, <3>1, <3>2 DEF OccursAt
    <3>4. y \in T
      BY <1>4, <2>2
    <3> QED
      BY <3>1, <3>3, <3>4
  <2> QED
    BY <2>5, <2>6
<1>5. 1 \in T
  <2> HIDE DEF T
  <2>1. 1..top \subseteq T
    BY <1>2, <1>4, SuffixInduction
  <2> QED
    BY <1>2, <2>1
<1>6. \E p \in 1..Len(F[1]) : OccursAt(u, F[1], p)
  BY DEF Occurs, ReplaceAll, F
<1> QED
  BY <1>5, <1>6 DEF Before, last

-----------------------------------------------------------------------------
(* Once replaced, s occurs nowhere, and nothing occurs that did not before.*)
NothingNew(old, new) ==
  \A u \in Seq(Token) : u # <<>> /\ Occurs(u, new) => Occurs(u, old)

LEMMA ReplaceAllMasks ==
  ASSUME NEW text \in Text, NEW s \in Seq(Token), s # <<>>, NEW token \in Placeholder
  PROVE  /\ ReplaceAll(text, s, token) \in Text
         /\ ~Occurs(s, ReplaceAll(text, s, token))
         /\ NothingNew(text, ReplaceAll(text, s, token))
<1>1. ReplaceAll(text, s, token) \in Text
  <2>1. 1 \in 1..(Len(text) + Len(s))
    BY DEF Text
  <2>2. ReplacedFrom(text, s, token) \in [1..(Len(text) + Len(s)) -> Text]
    BY Replacing
  <2> QED
    BY <2>1, <2>2 DEF ReplaceAll
<1>2. ~Occurs(s, ReplaceAll(text, s, token))
  BY ReplacedOccurrence
<1>3. ASSUME NEW u \in Seq(Token), u # <<>>, Occurs(u, ReplaceAll(text, s, token))
      PROVE  Occurs(u, text)
  BY <1>3, ReplacedOccurrence DEF Occurs
<1> QED
  BY <1>1, <1>2, <1>3 DEF NothingNew

Unseen(n, text) ==
  Value[n] # <<>> => ~Occurs(Value[n], text) /\ ~Occurs(Base64[n], text)

LEMMA MaskOneMasks ==
  ASSUME NEW text \in Text, NEW n \in Secret
  PROVE  /\ MaskOne(text, n) \in Text
         /\ Unseen(n, MaskOne(text, n))
         /\ NothingNew(text, MaskOne(text, n))
<1>1. CASE Value[n] = <<>>
  BY <1>1 DEF MaskOne, Unseen, NothingNew
<1>2. CASE Value[n] # <<>>
  <2> DEFINE once == ReplaceAll(text, Base64[n], <<n, "base64">>)
             twice == ReplaceAll(once, Value[n], <<n, "plain">>)
  <2>1. /\ Value[n] \in Seq(Token) /\ Base64[n] \in Seq(Token) /\ Base64[n] # <<>>
        /\ <<n, "base64">> \in Placeholder /\ <<n, "plain">> \in Placeholder
    BY <1>2, SecretAssumption DEF Placeholder
  <2>2. once \in Text /\ ~Occurs(Base64[n], once) /\ NothingNew(text, once)
    BY <2>1, ReplaceAllMasks
  <2> HIDE DEF once
  <2>3. twice \in Text /\ ~Occurs(Value[n], twice) /\ NothingNew(once, twice)
    BY <1>2, <2>1, <2>2, ReplaceAllMasks
  <2> HIDE DEF twice
  <2>4. ~Occurs(Base64[n], twice) /\ NothingNew(text, twice)
    BY <2>1, <2>2, <2>3 DEF NothingNew
  <2>5. MaskOne(text, n) = twice
    BY <1>2 DEF MaskOne, once, twice
  <2> QED
    BY <2>3, <2>4, <2>5 DEF Unseen
<1> QED
  BY <1>1, <1>2

(* A secret once masked stays so.                                          *)
LEMMA StaysUnseen ==
  ASSUME NEW n \in Secret, NEW old, NEW new, NothingNew(old, new), Unseen(n, old)
  PROVE  Unseen(n, new)
BY SecretAssumption DEF NothingNew, Unseen

LEMMA MaskingEach ==
  ASSUME NEW text \in Text, NEW names \in Seq(Secret)
  PROVE  LET F == MaskedUpTo(text, names)
         IN /\ F \in [0..Len(names) -> Text]
            /\ F[0] = text
            /\ \A k \in 1..Len(names) : F[k] = MaskOne(F[k - 1], names[k])
<1> DEFINE m == Len(names)
           Body(f, k) == MaskOne(f[k - 1], names[k])
           Is(f) == f = [k \in 0..m |-> IF k = 0 THEN text ELSE Body(f, k)]
           step == [y \in (1..m) \X Text |-> MaskOne(y[2], names[y[1]])]
           F == MaskedUpTo(text, names)
<1>1. F = CHOOSE f : Is(f)
  BY Zenon DEF MaskedUpTo
<1>2. m \in Nat
  OBVIOUS
<1>3. \A k \in 1..m, x \in Text : MaskOne(x, names[k]) \in Text
  BY MaskOneMasks
<1> HIDE DEF m, F
<1>4. step \in Steps(m, Text)
  BY <1>3 DEF Steps
<1> HIDE DEF step
<1>5. PICK g \in [0..m -> Text] : g[0] = text /\ \A k \in 1..m : g[k] = step[<<k, g[k - 1]>>]
  <2>1. Runs(m, Text, text, step) # {}
    BY <1>2, <1>4, PrefixRecursion
  <2> QED
    BY <2>1 DEF Runs
<1>6. ASSUME NEW k \in 1..m PROVE g[k] = Body(g, k)
  <2>1. g[k - 1] \in Text /\ <<k, g[k - 1]>> \in (1..m) \X Text
    BY <1>2
  <2> QED
    BY <1>5, <2>1 DEF step
<1>7. Is(g)
  <2> DEFINE v(k) == IF k = 0 THEN text ELSE Body(g, k)
  <2>1. ASSUME NEW k \in 0..m PROVE g[k] = v(k)
    <3>1. CASE k = 0
      BY <1>5, <3>1
    <3>2. CASE k \in 1..m
      <4>1. k # 0
        BY <1>2, <3>2
      <4>2. g[k] = Body(g, k)
        BY <1>6, <3>2
      <4> QED
        BY <4>1, <4>2
    <3> QED
      BY <1>2, <3>1, <3>2
  <2> HIDE DEF v
  <2>2. g = [k \in 0..m |-> v(k)]
    BY <2>1
  <2> QED
    BY <2>2 DEF v
<1> HIDE DEF Is
<1>8. Is(F)
  BY <1>1, <1>7
<1>9. F[0] = text /\ DOMAIN F = 0..m /\ F = [k \in 0..m |-> F[k]]
  <2> DEFINE v(k) == IF k = 0 THEN text ELSE Body(F, k)
  <2>1. F = [k \in 0..m |-> v(k)]
    BY <1>8 DEF Is
  <2> HIDE DEF v
  <2>2. F[0] = v(0) /\ DOMAIN F = 0..m /\ F = [k \in 0..m |-> F[k]]
    BY <1>2, <2>1
  <2> QED
    BY <2>2 DEF v
<1>10. ASSUME NEW k \in 1..m PROVE F[k] = Body(F, k)
  <2> DEFINE v(j) == IF j = 0 THEN text ELSE Body(F, j)
  <2>1. F = [j \in 0..m |-> v(j)]
    BY <1>8 DEF Is
  <2>2. k \in 0..m /\ k # 0
    BY <1>2
  <2> HIDE DEF v
  <2>3. F[k] = v(k)
    BY <2>1, <2>2
  <2> QED
    BY <2>2, <2>3 DEF v
<1> DEFINE T == {k \in 0..m : F[k] \in Text}
<1>11. 0 \in T
  BY <1>2, <1>9
<1>12. ASSUME NEW k \in 1..m, k - 1 \in T PROVE k \in T
  BY <1>2, <1>3, <1>10, <1>12
<1> HIDE DEF T
<1>13. 0..m \subseteq T
  BY <1>2, <1>11, <1>12, PrefixInduction
<1>14. F \in [0..m -> Text]
  BY <1>9, <1>13 DEF T
<1> QED
  BY <1>9, <1>10, <1>14 DEF F, m

(* The response as JSON has the same kinds of token.                       *)
Written(text, k) == IF text[k] \in Escape THEN <<Backslash, text[k]>> ELSE <<text[k]>>

LEMMA JsonIsText ==
  ASSUME NEW text \in Text
  PROVE  Json(text) \in Text
<1> DEFINE m == Len(text)
           Body(f, k) == f[k - 1] \o Written(text, k)
           Is(f) == f = [k \in 0..m |-> IF k = 0 THEN <<>> ELSE Body(f, k)]
           step == [y \in (1..m) \X Text |-> y[2] \o Written(text, y[1])]
           F == JsonUpTo(text)
<1>1. F = CHOOSE f : Is(f)
  BY Zenon DEF JsonUpTo, Written
<1>2. m \in Nat /\ <<>> \in Text
  BY DEF Text
<1>3. \A k \in 1..m, x \in Text : x \o Written(text, k) \in Text
  <2>1. ASSUME NEW k \in 1..m PROVE Written(text, k) \in Text
    <3>1. text[k] \in Token \cup Placeholder /\ Backslash \in Token \cup Placeholder
      BY TokenAssumption DEF Text
    <3>2. ASSUME NEW A, NEW x \in A, NEW y \in A PROVE <<x>> \in Seq(A) /\ <<x, y>> \in Seq(A)
      OBVIOUS
    <3>3. <<text[k]>> \in Text /\ <<Backslash, text[k]>> \in Text
      BY <3>1, <3>2 DEF Text
    <3> QED
      BY <3>3 DEF Written
  <2>2. \A x, y \in Text : x \o y \in Text
    BY DEF Text
  <2> QED
    BY <2>1, <2>2
<1> HIDE DEF m, F
<1>4. step \in Steps(m, Text)
  BY <1>3 DEF Steps
<1> HIDE DEF step
<1>5. PICK g \in [0..m -> Text] : g[0] = <<>> /\ \A k \in 1..m : g[k] = step[<<k, g[k - 1]>>]
  <2>1. Runs(m, Text, <<>>, step) # {}
    BY <1>2, <1>4, PrefixRecursion
  <2> QED
    BY <2>1 DEF Runs
<1>6. ASSUME NEW k \in 1..m PROVE g[k] = Body(g, k)
  <2>1. g[k - 1] \in Text /\ <<k, g[k - 1]>> \in (1..m) \X Text
    BY <1>2
  <2> QED
    BY <1>5, <2>1 DEF step
<1>7. Is(g)
  <2> DEFINE v(k) == IF k = 0 THEN <<>> ELSE Body(g, k)
  <2>1. ASSUME NEW k \in 0..m PROVE g[k] = v(k)
    <3>1. CASE k = 0
      BY <1>5, <3>1
    <3>2. CASE k \in 1..m
      <4>1. k # 0
        BY <1>2, <3>2
      <4>2. g[k] = Body(g, k)
        BY <1>6, <3>2
      <4> QED
        BY <4>1, <4>2
    <3> QED
      BY <1>2, <3>1, <3>2
  <2> HIDE DEF v
  <2>2. g = [k \in 0..m |-> v(k)]
    BY <2>1
  <2> QED
    BY <2>2 DEF v
<1> HIDE DEF Is
<1>8. Is(F)
  BY <1>1, <1>7
<1>9. F[0] = <<>> /\ DOMAIN F = 0..m /\ F = [k \in 0..m |-> F[k]]
  <2> DEFINE v(k) == IF k = 0 THEN <<>> ELSE Body(F, k)
  <2>1. F = [k \in 0..m |-> v(k)]
    BY <1>8 DEF Is
  <2> HIDE DEF v
  <2>2. F[0] = v(0) /\ DOMAIN F = 0..m /\ F = [k \in 0..m |-> F[k]]
    BY <1>2, <2>1
  <2> QED
    BY <2>2 DEF v
<1>10. ASSUME NEW k \in 1..m PROVE F[k] = Body(F, k)
  <2> DEFINE v(j) == IF j = 0 THEN <<>> ELSE Body(F, j)
  <2>1. F = [j \in 0..m |-> v(j)]
    BY <1>8 DEF Is
  <2>2. k \in 0..m /\ k # 0
    BY <1>2
  <2> HIDE DEF v
  <2>3. F[k] = v(k)
    BY <2>1, <2>2
  <2> QED
    BY <2>2, <2>3 DEF v
<1> DEFINE T == {k \in 0..m : F[k] \in Text}
<1>11. 0 \in T
  BY <1>2, <1>9
<1>12. ASSUME NEW k \in 1..m, k - 1 \in T PROVE k \in T
  <2>1. F[k - 1] \in Text
    BY <1>12
  <2>2. F[k - 1] \o Written(text, k) \in Text
    BY <1>3, <2>1
  <2>3. F[k] \in Text
    BY <1>10, <2>2
  <2> QED
    BY <2>3
<1> HIDE DEF T
<1>13. 0..m \subseteq T
  BY <1>2, <1>11, <1>12, PrefixInduction
<1>14. F \in [0..m -> Text]
  BY <1>9, <1>13 DEF T
<1> QED
  BY <1>2, <1>14 DEF Json, F, m

(* The names that are found are the secrets at which the text changed.     *)
Noted(found, after, names, k) ==
  IF after[k] # after[k - 1] THEN Append(found, names[k]) ELSE found

LEMMA FindingEach ==
  ASSUME NEW after, NEW names \in Seq(Secret)
  PROVE  LET F == FoundUpTo(after, names)
         IN /\ F \in [0..Len(names) -> Seq(Secret)]
            /\ F[0] = <<>>
            /\ \A k \in 1..Len(names) : F[k] = Noted(F[k - 1], after, names, k)
<1> DEFINE m == Len(names)
           S == Seq(Secret)
           Body(f, k) == Noted(f[k - 1], after, names, k)
           Is(f) == f = [k \in 0..m |-> IF k = 0 THEN <<>> ELSE Body(f, k)]
           step == [y \in (1..m) \X S |-> Noted(y[2], after, names, y[1])]
           F == FoundUpTo(after, names)
<1>1. F = CHOOSE f : Is(f)
  BY Zenon DEF FoundUpTo, Noted
<1>2. m \in Nat /\ <<>> \in S
  OBVIOUS
<1>3. \A k \in 1..m, x \in S : Noted(x, after, names, k) \in S
  BY DEF Noted
<1> HIDE DEF m, S, F
<1>4. step \in Steps(m, S)
  BY <1>3 DEF Steps
<1> HIDE DEF step
<1>5. PICK g \in [0..m -> S] : g[0] = <<>> /\ \A k \in 1..m : g[k] = step[<<k, g[k - 1]>>]
  <2>1. Runs(m, S, <<>>, step) # {}
    BY <1>2, <1>4, PrefixRecursion
  <2> QED
    BY <2>1 DEF Runs
<1>6. ASSUME NEW k \in 1..m PROVE g[k] = Body(g, k)
  <2>1. g[k - 1] \in S /\ <<k, g[k - 1]>> \in (1..m) \X S
    BY <1>2
  <2> QED
    BY <1>5, <2>1 DEF step
<1>7. Is(g)
  <2> DEFINE v(k) == IF k = 0 THEN <<>> ELSE Body(g, k)
  <2>1. ASSUME NEW k \in 0..m PROVE g[k] = v(k)
    <3>1. CASE k = 0
      BY <1>5, <3>1
    <3>2. CASE k \in 1..m
      <4>1. k # 0
        BY <1>2, <3>2
      <4>2. g[k] = Body(g, k)
        BY <1>6, <3>2
      <4> QED
        BY <4>1, <4>2
    <3> QED
      BY <1>2, <3>1, <3>2
  <2> HIDE DEF v
  <2>2. g = [k \in 0..m |-> v(k)]
    BY <2>1
  <2> QED
    BY <2>2 DEF v
<1> HIDE DEF Is
<1>8. Is(F)
  BY <1>1, <1>7
<1>9. F[0] = <<>> /\ DOMAIN F = 0..m /\ F = [k \in 0..m |-> F[k]]
  <2> DEFINE v(k) == IF k = 0 THEN <<>> ELSE Body(F, k)
  <2>1. F = [k \in 0..m |-> v(k)]
    BY <1>8 DEF Is
  <2> HIDE DEF v
  <2>2. F[0] = v(0) /\ DOMAIN F = 0..m /\ F = [k \in 0..m |-> F[k]]
    BY <1>2, <2>1
  <2> QED
    BY <2>2 DEF v
<1>10. ASSUME NEW k \in 1..m PROVE F[k] = Body(F, k)
  <2> DEFINE v(j) == IF j = 0 THEN <<>> ELSE Body(F, j)
  <2>1. F = [j \in 0..m |-> v(j)]
    BY <1>8 DEF Is
  <2>2. k \in 0..m /\ k # 0
    BY <1>2
  <2> HIDE DEF v
  <2>3. F[k] = v(k)
    BY <2>1, <2>2
  <2> QED
    BY <2>2, <2>3 DEF v
<1> DEFINE T == {k \in 0..m : F[k] \in S}
<1>11. 0 \in T
  BY <1>2, <1>9
<1>12. ASSUME NEW k \in 1..m, k - 1 \in T PROVE k \in T
  BY <1>2, <1>3, <1>10, <1>12
<1> HIDE DEF T
<1>13. 0..m \subseteq T
  BY <1>2, <1>11, <1>12, PrefixInduction
<1>14. F \in [0..m -> S]
  BY <1>9, <1>13 DEF T
<1> QED
  BY <1>9, <1>10, <1>14 DEF F, m, S

-----------------------------------------------------------------------------
(* maskSecrets leaves no secret, and what it found is what it changed.     *)
LEMMA MaskSecretsMasks ==
  ASSUME NEW text \in Text, NEW names \in Seq(Secret)
  PROVE  /\ MaskSecrets(text, names) \in Text
         /\ \A k \in DOMAIN names : Unseen(names[k], MaskSecrets(text, names))
<1> DEFINE F == MaskedUpTo(text, names)
           m == Len(names)
           T == {k \in 0..m : \A i \in 1..k : Unseen(names[i], F[k])}
<1>1. /\ m \in Nat /\ DOMAIN names = 1..m
      /\ F \in [0..m -> Text] /\ F[0] = text
      /\ \A k \in 1..m : F[k] = MaskOne(F[k - 1], names[k])
  BY MaskingEach
<1> HIDE DEF F, m
<1>2. 0 \in T
  BY <1>1
<1>3. ASSUME NEW k \in 1..m, k - 1 \in T PROVE k \in T
  <2>1. k - 1 \in 0..m /\ k \in 0..m /\ F[k - 1] \in Text /\ names[k] \in Secret
    BY <1>1
  <2>2. Unseen(names[k], F[k]) /\ NothingNew(F[k - 1], F[k])
    BY <1>1, <2>1, MaskOneMasks
  <2>3. ASSUME NEW i \in 1..(k - 1) PROVE Unseen(names[i], F[k])
    <3>1. names[i] \in Secret /\ Unseen(names[i], F[k - 1])
      BY <1>1, <1>3
    <3> QED
      BY <2>2, <3>1, StaysUnseen
  <2>4. \A i \in 1..k : i = k \/ i \in 1..(k - 1)
    BY <1>1
  <2> QED
    BY <2>1, <2>2, <2>3, <2>4
<1> HIDE DEF T
<1>4. 0..m \subseteq T
  <2>1. m \in Nat
    BY <1>1
  <2> QED
    BY <2>1, <1>2, <1>3, PrefixInduction
<1>5. m \in 0..m /\ F[m] \in Text
  BY <1>1
<1> QED
  BY <1>1, <1>4, <1>5 DEF T, F, m, MaskSecrets

LEMMA NothingFound ==
  ASSUME NEW text \in Text, NEW names \in Seq(Secret)
  PROVE  /\ MaskedNames(text, names) \in Seq(Secret)
         /\ MaskedNames(text, names) = <<>> => MaskSecrets(text, names) = text
<1> DEFINE after == MaskedUpTo(text, names)
           F == FoundUpTo(after, names)
           m == Len(names)
           T == {k \in 0..m : F[k] = <<>> => after[k] = text}
<1>1. m \in Nat /\ after[0] = text
  BY MaskingEach
<1> HIDE DEF after
<1>2. /\ F \in [0..m -> Seq(Secret)] /\ F[0] = <<>>
      /\ \A k \in 1..m : F[k] = Noted(F[k - 1], after, names, k)
  BY FindingEach
<1>3. \A k \in 1..m : names[k] \in Secret
  OBVIOUS
<1> HIDE DEF F, m
<1>4. 0 \in T
  BY <1>1
<1>5. ASSUME NEW k \in 1..m, k - 1 \in T PROVE k \in T
  <2>1. k - 1 \in 0..m /\ k \in 0..m /\ F[k - 1] \in Seq(Secret)
    BY <1>1, <1>2
  <2>2. ASSUME F[k] = <<>> PROVE after[k] = after[k - 1] /\ F[k - 1] = <<>>
    <3>1. F[k] = Noted(F[k - 1], after, names, k)
      BY <1>2
    <3>2. Append(F[k - 1], names[k]) # <<>>
      BY <1>3, <2>1
    <3> QED
      BY <2>2, <3>1, <3>2 DEF Noted
  <2> QED
    BY <1>5, <2>1, <2>2
<1> HIDE DEF T
<1>6. 0..m \subseteq T
  BY <1>1, <1>4, <1>5, PrefixInduction
<1>7. m \in 0..m /\ F[m] \in Seq(Secret)
  BY <1>1, <1>2
<1> QED
  BY <1>6, <1>7 DEF T, F, m, after, MaskSecrets, MaskedNames

(* What postuse lets the model see, given the secrets it has loaded.       *)
LEMMA PostuseMasks ==
  ASSUME NEW text \in Text, NEW secrets \in Seq(Secret), NEW shown,
         shown = IF MaskedNames(text, secrets) = <<>> THEN text ELSE MaskSecrets(text, secrets)
  PROVE  shown \in Text /\ \A n \in Listed(secrets) : Unseen(n, shown)
<1>1. shown = MaskSecrets(text, secrets)
  BY NothingFound
<1> QED
  BY <1>1, MaskSecretsMasks DEF Listed

-----------------------------------------------------------------------------
LEMMA SmallestIn ==
  ASSUME NEW S, S \subseteq Nat, S # {}
  PROVE  \E i \in S : \A j \in S : i <= j
<1> DEFINE T == {n \in Nat : \A j \in S : n <= j}
<1>1. 0 \in T
  OBVIOUS
<1>2. ASSUME \A i \in S : ~ (\A j \in S : i <= j),
             NEW n \in Nat, n \in T
      PROVE  n + 1 \in T
  BY <1>2
<1> HIDE DEF T
<1>3. ASSUME \A i \in S : ~ (\A j \in S : i <= j) PROVE FALSE
  <2>1. Nat \subseteq T
    BY <1>1, <1>2, <1>3, NatSetInduction
  <2>2. PICK j \in S : j \in Nat
    OBVIOUS
  <2>3. j + 1 \in T
    BY <2>1, <2>2
  <2> QED
    BY <2>2, <2>3 DEF T
<1> QED
  BY <1>3

-----------------------------------------------------------------------------
(* The key postuse takes is one that is at hand; a secret it opens is      *)
(* loaded.                                                                 *)
LEMMA FirstKeyIs ==
  ASSUME NEW ids
  PROVE  /\ FirstKey(ids) \subseteq ids
         /\ ids \cap Listed(Recipients) # {} => FirstKey(ids) # {}
<1> DEFINE Hits == {i \in DOMAIN Recipients : Recipients[i] \in ids}
           first == CHOOSE i \in Hits : \A j \in Hits : i <= j
<1>1. CASE Hits = {}
  BY <1>1 DEF FirstKey, Listed
<1>2. CASE Hits # {}
  <2>1. Hits \subseteq Nat
    BY CallAssumption
  <2> HIDE DEF Hits
  <2>2. first \in Hits
    BY <1>2, <2>1, SmallestIn
  <2>3. Recipients[first] \in ids
    BY <2>2 DEF Hits
  <2>4. FirstKey(ids) = {Recipients[first]}
    BY <1>2 DEF FirstKey, Hits
  <2> QED
    BY <2>3, <2>4
<1> QED
  BY <1>1, <1>2

LEMMA MaskingKeyIsAtHand ==
  ASSUME NEW cached \in Keys, NEW unsealed \in Keys, cached \cup unsealed # {}
  PROVE  LET key == FindMaskingKey(cached, {}, unsealed)
         IN key # {} /\ key \subseteq cached \cup unsealed
<1>1. CASE cached = {}
  <2>1. FirstKey(cached) = {}
    BY <1>1, FirstKeyIs
  <2>2. FirstKey(unsealed) # {} /\ FirstKey(unsealed) \subseteq unsealed
    BY <1>1, FirstKeyIs DEF Keys
  <2> QED BY <2>1, <2>2 DEF FindMaskingKey
<1>2. CASE cached # {}
  <2>1. FirstKey(cached) # {} /\ FirstKey(cached) \subseteq cached
    BY <1>2, FirstKeyIs DEF Keys
  <2> QED BY <2>1 DEF FindMaskingKey
<1> QED BY <1>1, <1>2

LEMMA LoadedIs ==
  ASSUME NEW key
  PROVE  /\ LoadSecretsForMasking(key) \in Seq(Secret)
         /\ \A k \in DOMAIN Names :
              key \cap Wraps[Names[k]] # {} => Names[k] \in Listed(LoadSecretsForMasking(key))
<1> DEFINE opened == {n \in Secret : key \cap Wraps[n] # {}}
<1>1. Names \in Seq(Secret) /\ \A k \in DOMAIN Names : Names[k] \in Secret
  BY CallAssumption
<1>2. \A k \in DOMAIN Names : Names[k] \in Listed(Names)
  BY DEF Listed
<1>3. LoadSecretsForMasking(key) = Filtered(Names, opened)
  BY DEF LoadSecretsForMasking
<1>4. \A k \in DOMAIN Names : key \cap Wraps[Names[k]] # {} => Names[k] \in opened
  BY <1>1
<1> HIDE DEF opened
<1>5. Filtered(Names, opened) \in Seq(Secret)
      /\ Listed(Filtered(Names, opened)) = Listed(Names) \cap opened
  BY <1>1, FilteredIs
<1> QED
  BY <1>2, <1>3, <1>4, <1>5

-----------------------------------------------------------------------------
(* A call has a match exactly when the file lists a pattern it touches.    *)
LEMMA FirstMatchIs ==
  ASSUME patterns \in Seq(Pattern), NEW word
  PROVE  \/ FirstMatch(word) = <<>> /\ word \cap Listed(patterns) = {}
         \/ \E p \in Pattern : FirstMatch(word) = <<p>>
<1> DEFINE Hits == {i \in DOMAIN patterns : patterns[i] \in word}
           first == CHOOSE i \in Hits : \A j \in Hits : i <= j
<1>1. CASE Hits = {}
  BY <1>1 DEF FirstMatch, Listed
<1>2. CASE Hits # {}
  <2>1. Hits \subseteq Nat
    OBVIOUS
  <2> HIDE DEF Hits
  <2>2. first \in Hits
    BY <1>2, <2>1, SmallestIn
  <2>3. patterns[first] \in Pattern
    BY <2>2 DEF Hits
  <2>4. FirstMatch(word) = <<patterns[first]>>
    BY <1>2 DEF FirstMatch, Hits
  <2> QED
    BY <2>3, <2>4
<1> QED
  BY <1>1, <1>2

LEMMA MatchedIs ==
  ASSUME patterns \in Seq(Pattern), NEW c \in Call
  PROVE  \/ Matched(c) = <<>> /\ Touches(c) \cap Listed(patterns) = {}
         \/ \E p \in Pattern : Matched(c) = <<p>>
<1> DEFINE Hits == {i \in DOMAIN Words[c] : FirstMatch(Words[c][i]) # <<>>}
           first == CHOOSE i \in Hits : \A j \in Hits : i <= j
<1>1. DOMAIN Words[c] \subseteq Nat
  BY CallAssumption
<1>2. CASE Hits = {}
  <2>1. \A i \in DOMAIN Words[c] : Words[c][i] \cap Listed(patterns) = {}
    <3>1. ASSUME NEW i \in DOMAIN Words[c] PROVE Words[c][i] \cap Listed(patterns) = {}
      <4>1. FirstMatch(Words[c][i]) = <<>>
        BY <1>2
      <4> QED
        BY <4>1, FirstMatchIs
    <3> QED
      BY <3>1
  <2>2. Matched(c) = <<>>
    BY <1>2 DEF Matched
  <2> QED
    BY <2>1, <2>2 DEF Touches
<1>3. CASE Hits # {}
  <2>1. Hits \subseteq Nat
    BY <1>1
  <2> HIDE DEF Hits
  <2>2. first \in Hits
    BY <1>3, <2>1, SmallestIn
  <2>3. FirstMatch(Words[c][first]) # <<>>
    BY <2>2 DEF Hits
  <2>4. Matched(c) = FirstMatch(Words[c][first])
    BY <1>3 DEF Matched, Hits
  <2> QED
    BY <2>3, <2>4, FirstMatchIs
<1> QED
  BY <1>2, <1>3

(* What a line of the log holds.                                           *)
LEMMA NewEntryIs ==
  ASSUME NEW what, NEW prev
  PROVE  LET e == NewEntry(what, prev)
         IN /\ e # Garbage /\ e.what = what /\ e.prev = prev
            /\ e.hash = <<what, prev>> /\ e.hash = ComputeHash(e)
BY DEF NewEntry, Garbage, ComputeHash

-----------------------------------------------------------------------------
(* What lets the provers see the log as a sequence and a hook as a record. *)
HookOf(P) ==
  [step : {"new", "report", "append", "blocked", "run", "shown"},
   stage : {"pre", "post"}, entries : Seq(Call \X (Pattern \cup Secret)),
   done : Nat, prev : P, text : Text, due : BOOLEAN, hand : Keys]
Shape == /\ \E L : log \in Seq(L)
         /\ \E P : call \in [Call -> HookOf(P)]

(* What each step of a hook does to its record.                            *)
Others(c) == \A d \in Call : d # c => call'[d] = call[d]
CallShape == \E P : call' \in [Call -> HookOf(P)]

LEMMA PreuseEffect ==
  ASSUME TypeOK, Shape, NEW c \in Call, NEW sensitive \in BOOLEAN, Preuse(c, sensitive)
  PROVE  LET h == call[c]
             g == call'[c]
         IN /\ h.step = "new" /\ Others(c) /\ CallShape
            /\ g.stage = h.stage /\ g.done = h.done /\ g.hand = h.hand /\ g.text = h.text
            /\ g.due = Due(c)
            /\ \/ g.step = "report" /\ Len(g.entries) = 1
               \/ /\ g.step \in {"blocked", "run"} /\ Len(g.entries) = 0
                  /\ Tool[c] \in {"file", "bash"} => Touches(c) \cap Listed(patterns) = {}
<1> DEFINE hit == Tool[c] \in {"file", "bash"} /\ Matched(c) # <<>>
           list == IF hit THEN <<<<c, Matched(c)[1]>>>> ELSE <<>>
           next == IF hit THEN "report"
                   ELSE IF Tool[c] = "bash" /\ sensitive THEN "blocked" ELSE "run"
           due == Due(c)
<1>1. PICK P : call \in [Call -> HookOf(P)]
  BY DEF Shape
<1>2. list \in Seq(Call \X (Pattern \cup Secret)) /\ Len(list) = IF hit THEN 1 ELSE 0
  <2>1. CASE hit
    <3>1. PICK p \in Pattern : Matched(c) = <<p>>
      BY <2>1, MatchedIs DEF TypeOK
    <3>2. list = <<<<c, p>>>>
      BY <2>1, <3>1
    <3>3. <<c, p>> \in Call \X (Pattern \cup Secret)
      OBVIOUS
    <3> HIDE DEF list
    <3> QED
      BY <2>1, <3>2, <3>3
  <2>2. CASE ~hit
    BY <2>2
  <2> QED
    BY <2>1, <2>2
<1>3. ~hit /\ Tool[c] \in {"file", "bash"} => Touches(c) \cap Listed(patterns) = {}
  BY MatchedIs, SMTT(60) DEF TypeOK
<1>4. due \in BOOLEAN /\ next \in {"report", "blocked", "run"} /\ (next = "report" <=> hit)
  BY DEF Due, Calm
<1>5. call' = [call EXCEPT ![c] = [call[c] EXCEPT !.due = due, !.entries = list, !.step = next]]
  BY DEF Preuse, Update
<1>6. call[c].step = "new" /\ call[c] \in HookOf(P)
  BY <1>1 DEF Preuse
<1> HIDE DEF list, next, hit, due
<1> DEFINE g == [call[c] EXCEPT !.due = due, !.entries = list, !.step = next]
<1>7. /\ g \in HookOf(P) /\ g.due = due /\ g.entries = list /\ g.step = next
      /\ g.stage = call[c].stage /\ g.done = call[c].done /\ g.hand = call[c].hand
      /\ g.text = call[c].text
  BY <1>2, <1>4, <1>6 DEF HookOf
<1> HIDE DEF g
<1>8. call' = [call EXCEPT ![c] = g]
  BY <1>5 DEF g
<1>9. call'[c] = g /\ Others(c) /\ CallShape
  BY <1>1, <1>7, <1>8 DEF Others, CallShape
<1> QED
  BY <1>2, <1>3, <1>4, <1>6, <1>7, <1>9 DEF due

LEMMA ReadLastEffect ==
  ASSUME Shape, NEW c \in Call, ReadLast(c)
  PROVE  LET h == call[c]
             g == call'[c]
         IN /\ h.step = "report" /\ Others(c) /\ CallShape
            /\ g.step = "append" /\ g.prev = LastHash(log)
            /\ g.stage = h.stage /\ g.entries = h.entries /\ g.done = h.done
            /\ g.hand = h.hand /\ g.text = h.text /\ g.due = h.due
<1> DEFINE last == LastHash(log)
           g == [call[c] EXCEPT !.step = "append", !.prev = last]
<1>1. PICK P : call \in [Call -> HookOf(P)]
  BY DEF Shape
<1> DEFINE Q == P \cup {last}
<1>2. call[c].step = "report" /\ call[c] \in HookOf(P) /\ call' = [call EXCEPT ![c] = g]
  BY <1>1 DEF ReadLast, Update
<1> HIDE DEF last
<1>3. /\ g \in HookOf(Q) /\ g.step = "append" /\ g.prev = last
      /\ g.stage = call[c].stage /\ g.entries = call[c].entries /\ g.done = call[c].done
      /\ g.hand = call[c].hand /\ g.text = call[c].text /\ g.due = call[c].due
  BY <1>2 DEF HookOf
<1>4. call \in [Call -> HookOf(Q)]
  BY <1>1 DEF HookOf
<1> HIDE DEF g, Q
<1>5. call'[c] = g /\ Others(c) /\ CallShape
  BY <1>2, <1>3, <1>4 DEF Others, CallShape
<1> QED
  BY <1>2, <1>3, <1>5 DEF last

LEMMA ReportedEffect ==
  ASSUME Shape, NEW c \in Call, call' = [call EXCEPT ![c] = Reported(c)]
  PROVE  LET h == call[c]
             g == call'[c]
         IN /\ Others(c) /\ CallShape
            /\ h.done \in Nat /\ Len(h.entries) \in Nat
            /\ g.done = h.done + 1 /\ g.entries = h.entries
            /\ g.stage = h.stage /\ g.hand = h.hand /\ g.text = h.text /\ g.due = h.due
            /\ \/ g.step = "report" /\ h.done + 1 < Len(h.entries)
               \/ g.step = "blocked" /\ h.stage = "pre"
               \/ g.step = "shown" /\ h.stage = "post"
<1> DEFINE done == call[c].done + 1
           next == IF done < Len(call[c].entries) THEN "report"
                   ELSE IF call[c].stage = "pre" THEN "blocked" ELSE "shown"
           g == [call[c] EXCEPT !.done = done, !.prev = NoHash, !.step = next]
<1>1. PICK P : call \in [Call -> HookOf(P)]
  BY DEF Shape
<1> DEFINE Q == P \cup {NoHash}
<1>2. call[c] \in HookOf(P) /\ call' = [call EXCEPT ![c] = g]
  BY <1>1 DEF Reported
<1>3. call[c].done \in Nat /\ Len(call[c].entries) \in Nat /\ call[c].stage \in {"pre", "post"}
  BY <1>2 DEF HookOf
<1>4. /\ done \in Nat /\ next \in {"report", "blocked", "shown"}
      /\ \/ next = "report" /\ done < Len(call[c].entries)
         \/ next = "blocked" /\ call[c].stage = "pre"
         \/ next = "shown" /\ call[c].stage = "post"
  BY <1>3
<1> HIDE DEF next
<1>5. /\ g \in HookOf(Q) /\ g.step = next /\ g.done = done
      /\ g.stage = call[c].stage /\ g.entries = call[c].entries
      /\ g.hand = call[c].hand /\ g.text = call[c].text /\ g.due = call[c].due
  BY <1>2, <1>4 DEF HookOf
<1>6. call \in [Call -> HookOf(Q)]
  BY <1>1 DEF HookOf
<1> HIDE DEF g, Q
<1>7. call'[c] = g /\ Others(c) /\ CallShape
  BY <1>2, <1>5, <1>6 DEF Others, CallShape
<1> QED
  BY <1>3, <1>4, <1>5, <1>7

RunHookPostuse(c) ==
  \E out \in Output[c], cached, unsealed \in Keys :
    \E zeroed \in SUBSET cached : Postuse(c, out, cached, zeroed, unsealed)

(* What h's postuse lets the model see of the secrets its keys open.       *)
KeysMask(h) ==
  h.hand # {} => \A k \in DOMAIN Names : h.hand \subseteq Wraps[Names[k]] => Unseen(Names[k], h.text)

LEMMA PostuseEffect ==
  ASSUME Shape, NEW c \in Call, RunHookPostuse(c)
  PROVE  LET h == call[c]
             g == call'[c]
         IN /\ h.step = "run" /\ Others(c) /\ CallShape
            /\ g.stage = "post" /\ g.done = 0 /\ g.due = h.due
            /\ Len(g.entries) \in Nat
            /\ \/ g.step = "shown"
               \/ g.step = "report" /\ Len(g.entries) > 0
            /\ KeysMask(g)
<1>1. PICK out \in Output[c], cached \in Keys, unsealed \in Keys, zeroed \in Keys :
        zeroed \subseteq cached /\ Postuse(c, out, cached, zeroed, unsealed)
  BY DEF RunHookPostuse, Keys
<1> DEFINE text == Json(out)
           key == FindMaskingKey(cached, zeroed, unsealed)
           secrets == LoadSecretsForMasking(key)
           found == MaskedNames(text, secrets)
           shown == IF found = <<>> THEN text ELSE MaskSecrets(text, secrets)
           next == IF found = <<>> THEN "shown" ELSE "report"
           list == [i \in DOMAIN found |-> <<c, found[i]>>]
           hand == IF zeroed = {} THEN cached \cup unsealed ELSE {}
           g == [call[c] EXCEPT !.stage = "post", !.done = 0, !.hand = hand,
                                !.entries = list, !.text = shown, !.step = next]
<1>2. PICK P : call \in [Call -> HookOf(P)]
  BY DEF Shape
<1>3. text \in Text
  <2>1. out \in Text
    BY CallAssumption DEF Text
  <2> QED
    BY <2>1, JsonIsText
<1>4. call[c].step = "run" /\ call[c] \in HookOf(P) /\ call' = [call EXCEPT ![c] = g]
  BY <1>1, <1>2 DEF Postuse, Update
<1>5. hand \in Keys
  BY DEF Keys
<1>6. hand # {} => key # {} /\ key \subseteq hand
  BY MaskingKeyIsAtHand
<1> HIDE DEF text, hand, key
<1>7. /\ secrets \in Seq(Secret)
      /\ \A k \in DOMAIN Names : key \cap Wraps[Names[k]] # {} => Names[k] \in Listed(secrets)
  BY LoadedIs
<1> HIDE DEF secrets
<1>8. found \in Seq(Secret) /\ shown \in Text /\ \A n \in Listed(secrets) : Unseen(n, shown)
  <2>1. found \in Seq(Secret)
    BY <1>3, <1>7, NothingFound
  <2>2. shown = IF MaskedNames(text, secrets) = <<>> THEN text ELSE MaskSecrets(text, secrets)
    OBVIOUS
  <2> HIDE DEF shown, found
  <2> QED BY <1>3, <1>7, <2>1, <2>2, PostuseMasks
<1>9. ASSUME hand # {}, NEW k \in DOMAIN Names, hand \subseteq Wraps[Names[k]]
       PROVE  Unseen(Names[k], shown)
  <2>1. key \cap Wraps[Names[k]] # {}
    BY <1>6, <1>9
  <2> HIDE DEF shown
  <2> QED BY <1>7, <1>8, <2>1
<1> HIDE DEF shown, found
<1>10. list \in Seq(Call \X (Pattern \cup Secret)) /\ Len(list) = Len(found)
      /\ Len(found) \in Nat /\ (found # <<>> => Len(found) > 0)
  <2>1. \A i \in 1..Len(found) : <<c, found[i]>> \in Call \X (Pattern \cup Secret)
    BY <1>8
  <2>2. list = [i \in 1..Len(found) |-> <<c, found[i]>>]
    BY <1>8
  <2>3. ASSUME NEW A, NEW n \in Nat, NEW q \in [1..n -> A] PROVE q \in Seq(A) /\ Len(q) = n
    OBVIOUS
  <2>4. list \in [1..Len(found) -> Call \X (Pattern \cup Secret)]
    BY <2>1, <2>2
  <2> HIDE DEF list
  <2> QED
    BY <1>8, <2>3, <2>4
<1>11. next \in {"shown", "report"} /\ (next = "report" <=> found # <<>>)
  OBVIOUS
<1> HIDE DEF next, list
<1>12. /\ g \in HookOf(P) /\ g.stage = "post" /\ g.hand = hand /\ g.done = 0
       /\ g.due = call[c].due /\ g.entries = list /\ g.text = shown /\ g.step = next
  BY <1>4, <1>5, <1>8, <1>10, <1>11 DEF HookOf
<1> HIDE DEF g
<1>13. call'[c] = g /\ Others(c) /\ CallShape
  BY <1>2, <1>4, <1>12 DEF Others, CallShape
<1>14. KeysMask(g)
  BY <1>9, <1>12 DEF KeysMask
<1> QED
  BY <1>4, <1>10, <1>11, <1>12, <1>13, <1>14

-----------------------------------------------------------------------------
(* Where the hooks of a call can be: the part of it TypeOK rests on.       *)
HooksInOrder ==
  \A c \in Call :
    /\ call[c].step = "new" => call[c].done = 0 /\ call[c].stage = "pre"
    /\ call[c].step = "run" => call[c].stage = "pre"
    /\ call[c].step = "shown" => call[c].stage = "post"

CallOK(c) ==
  /\ call[c].done <= Len(call[c].entries)
  /\ call[c].step \in {"report", "append"} => call[c].done < Len(call[c].entries)
  /\ call[c].step = "new" => call[c].done = 0 /\ call[c].stage = "pre"
  /\ call[c].step = "run" => call[c].stage = "pre"
  /\ call[c].step = "shown" => call[c].stage = "post"
CallsOK == \A c \in Call :
  /\ [step |-> call[c].step, stage |-> call[c].stage, done |-> call[c].done,
      due |-> call[c].due, hand |-> call[c].hand] \in Hook
  /\ CallOK(c)
LogOK == /\ \E L : log \in Seq(L)
         /\ ragged \in BOOLEAN /\ (ragged => log # <<>>)
         /\ \A i \in DOMAIN log : log[i] = Garbage \/ log[i] = NewEntry(log[i].what, log[i].prev)
EditOK == /\ patterns \in Seq(Pattern)
          /\ edit.step # "idle" => edit \in Edit /\ edit.lines <= Len(edit.list)
          /\ edits \in 0..MaxEdits /\ registered \subseteq Pattern /\ spoiled \in BOOLEAN

Typed == /\ EditOK /\ LogOK /\ CallsOK
         /\ failures \in 0..MaxFailures /\ forked \in BOOLEAN
         /\ \E P : call \in [Call -> HookOf(P)]

LEMMA TypedMeans == Typed => TypeOK /\ Shape /\ HooksInOrder
BY DEF Typed, TypeOK, Shape, HooksInOrder, CallsOK, CallOK, LogOK, EditOK

LEMMA CallsStay ==
  ASSUME CallsOK, NEW c \in Call, CallShape, Others(c), CallOK(c)'
  PROVE  CallsOK'
<1> SUFFICES ASSUME NEW d \in Call
             PROVE  /\ [step |-> call'[d].step, stage |-> call'[d].stage,
                        done |-> call'[d].done, due |-> call'[d].due,
                        hand |-> call'[d].hand] \in Hook
                    /\ CallOK(d)'
  BY DEF CallsOK
<1>1. [step |-> call'[d].step, stage |-> call'[d].stage, done |-> call'[d].done,
       due |-> call'[d].due, hand |-> call'[d].hand] \in Hook
  BY DEF CallShape, HookOf, Hook
<1>2. CallOK(d)'
  BY DEF CallsOK, CallOK, Others
<1> QED
  BY <1>1, <1>2

(* A line is added at the end, or joins the one that has no newline.       *)
LEMMA AddLineIs ==
  ASSUME LogOK, NEW line
  PROVE  LET new == AddLine(log, ragged, line)
         IN /\ Len(log) \in Nat /\ DOMAIN log = 1..Len(log)
            /\ \E L : new \in Seq(L)
            /\ Len(new) = IF ragged THEN Len(log) ELSE Len(log) + 1
            /\ Len(new) > 0 /\ DOMAIN new = 1..Len(new)
            /\ \A i \in 1..(Len(new) - 1) : i \in DOMAIN log /\ new[i] = log[i]
            /\ new[Len(new)] = IF ragged THEN Garbage ELSE line
<1>1. PICK L : log \in Seq(L)
  BY DEF LogOK
<1>2. ragged => Len(log) > 0
  BY <1>1 DEF LogOK
<1> DEFINE M == L \cup {Garbage, line}
<1>3. log \in Seq(M) /\ Garbage \in M /\ line \in M /\ Len(log) \in Nat
  BY <1>1
<1> HIDE DEF M
<1>4. CASE ragged
  <2> DEFINE new == [log EXCEPT ![Len(log)] = Garbage]
  <2>1. /\ new \in Seq(M) /\ Len(new) = Len(log) /\ DOMAIN new = 1..Len(log)
        /\ new[Len(log)] = Garbage
        /\ \A i \in 1..(Len(log) - 1) : new[i] = log[i]
    BY <1>2, <1>3, <1>4
  <2>2. AddLine(log, ragged, line) = new
    BY <1>4 DEF AddLine
  <2>3. DOMAIN log = 1..Len(log)
    BY <1>3
  <2> HIDE DEF new
  <2>4. \E N : new \in Seq(N)
    BY <2>1
  <2>5. \A i \in 1..(Len(new) - 1) : i \in DOMAIN log /\ new[i] = log[i]
    BY <1>3, <2>1, <2>3
  <2>6. Len(new) > 0 /\ new[Len(new)] = Garbage /\ DOMAIN new = 1..Len(new)
    BY <1>2, <1>4, <2>1
  <2> QED
    BY <1>3, <1>4, <2>1, <2>2, <2>3, <2>4, <2>5, <2>6
<1>5. CASE ~ragged
  BY <1>3, <1>5 DEF AddLine
<1> QED
  BY <1>4, <1>5

LEMMA LogStays ==
  ASSUME LogOK, NEW c \in Call, ragged' \in BOOLEAN,
         \/ log' = log /\ ragged' = ragged
         \/ \E line \in {Garbage, Pending(c)} : log' = AddLine(log, ragged, line)
  PROVE  LogOK'
<1>1. CASE log' = log /\ ragged' = ragged
  BY <1>1 DEF LogOK
<1>2. ASSUME NEW line \in {Garbage, Pending(c)}, log' = AddLine(log, ragged, line)
      PROVE  LogOK'
  <2>1. line = Garbage \/ line = NewEntry(line.what, line.prev)
    BY NewEntryIs DEF Pending
  <2>2. /\ \E L : log' \in Seq(L)
        /\ Len(log') > 0 /\ DOMAIN log' = 1..Len(log')
        /\ \A i \in 1..(Len(log') - 1) : i \in DOMAIN log /\ log'[i] = log[i]
        /\ log'[Len(log')] = Garbage \/ log'[Len(log')] = line
    BY <1>2, AddLineIs
  <2>3. ASSUME NEW i \in DOMAIN log'
        PROVE  log'[i] = Garbage \/ log'[i] = NewEntry(log'[i].what, log'[i].prev)
    <3>1. CASE i = Len(log')
      BY <2>1, <2>2, <3>1
    <3>2. CASE i # Len(log')
      <4>1. i \in 1..(Len(log') - 1)
        BY <2>2, <3>2
      <4> QED
        BY <2>2, <4>1 DEF LogOK
    <3> QED
      BY <3>1, <3>2
  <2>4. log' # <<>>
    BY <2>2
  <2> QED
    BY <2>2, <2>3, <2>4 DEF LogOK
<1> QED
  BY <1>1, <1>2

LEMMA InitTyped == Init => Typed
<1> SUFFICES ASSUME Init PROVE Typed
  OBVIOUS
<1>1. Fresh \in HookOf({NoHash})
  <2>1. {} \in Keys
    BY DEF Keys
  <2> QED
    BY <2>1 DEF Fresh, HookOf, Text
<1>2. call \in [Call -> HookOf({NoHash})] /\ \A c \in Call : call[c] = Fresh
  BY <1>1 DEF Init
<1>3. CallsOK
  <2>1. \A c \in Call : CallOK(c)
    BY <1>2 DEF CallOK, Fresh
  <2>2. \A c \in Call : [step |-> call[c].step, stage |-> call[c].stage, done |-> call[c].done,
          due |-> call[c].due, hand |-> call[c].hand] \in Hook
    BY <1>2 DEF Hook, HookOf
  <2> QED
    BY <2>1, <2>2 DEF CallsOK
<1>4. EditOK /\ failures \in 0..MaxFailures /\ forked \in BOOLEAN
  <2>1. edit.step = "idle"
    BY DEF Init, NoEdit
  <2>2. patterns = <<>> /\ edits = 0 /\ registered = {} /\ spoiled = FALSE
        /\ failures = 0 /\ forked = FALSE
    BY DEF Init
  <2>3. edits \in 0..MaxEdits /\ failures \in 0..MaxFailures
    BY <2>2, BoundAssumption
  <2>4. patterns \in Seq(Pattern)
    BY <2>2
  <2> QED
    BY <2>1, <2>2, <2>3, <2>4 DEF EditOK
<1>5. LogOK
  <2>1. log = <<>> /\ ragged = FALSE /\ log \in Seq({}) /\ DOMAIN log = {}
    BY DEF Init
  <2> QED
    BY <2>1 DEF LogOK
<1> QED
  BY <1>2, <1>3, <1>4, <1>5 DEF Typed

LEMMA HookTyped ==
  ASSUME Typed, NEW c \in Call, HookStep(c)
  PROVE  Typed'
<1>1. TypeOK /\ Shape /\ EditOK /\ LogOK /\ CallsOK /\ CallOK(c)
      /\ failures \in 0..MaxFailures /\ forked \in BOOLEAN
  BY TypedMeans DEF Typed, CallsOK
<1>2. EditOK'
  <2>1. UNCHANGED <<patterns, edit, edits, registered, spoiled>>
    <3>1. CASE RunHookPostuse(c)
      BY <3>1 DEF RunHookPostuse, Postuse, files, history
    <3>2. CASE ~RunHookPostuse(c)
      BY <3>2 DEF HookStep, RunHookPostuse, Preuse, ReadLast, AppendEntry, FailToAppend, files, history
    <3> QED BY <3>1, <3>2
  <2> QED BY <1>1, <2>1 DEF EditOK
<1>3. failures' \in 0..MaxFailures /\ forked' \in BOOLEAN
  <2>1. failures' = failures \/ (failures < MaxFailures /\ failures' = failures + 1)
    BY DEF HookStep, Preuse, ReadLast, AppendEntry, FailToAppend, Postuse, history
  <2>2. forked' \in BOOLEAN
    BY <1>1 DEF HookStep, Preuse, ReadLast, AppendEntry, FailToAppend, Postuse, history
  <2>3. failures' \in 0..MaxFailures
    BY <1>1, <2>1, BoundAssumption
  <2> QED
    BY <2>2, <2>3
<1>4. LogOK'
  <2>1. \/ log' = log /\ ragged' = ragged
        \/ ragged' \in BOOLEAN /\ \E line \in {Garbage, Pending(c)} : log' = AddLine(log, ragged, line)
    BY DEF HookStep, Preuse, ReadLast, AppendEntry, FailToAppend, Postuse, files, Appended
  <2>2. ragged' \in BOOLEAN
    BY <1>1, <2>1 DEF LogOK
  <2> QED
    BY <1>1, <2>1, <2>2, LogStays
<1>5. CallsOK' /\ CallShape
  <2>1. ASSUME NEW sensitive \in BOOLEAN, Preuse(c, sensitive) PROVE CallsOK' /\ CallShape
    <3>1. /\ call[c].step = "new" /\ Others(c) /\ CallShape
          /\ call'[c].stage = call[c].stage /\ call'[c].done = call[c].done
          /\ \/ call'[c].step = "report" /\ Len(call'[c].entries) = 1
             \/ call'[c].step \in {"blocked", "run"} /\ Len(call'[c].entries) = 0
      BY <1>1, <2>1, PreuseEffect
    <3>2. call'[c].done = 0 /\ call'[c].stage = "pre"
      BY <1>1, <3>1 DEF CallOK
    <3>3. CallOK(c)'
      BY <3>1, <3>2 DEF CallOK
    <3> QED
      BY <1>1, <3>1, <3>3, CallsStay
  <2>2. CASE ReadLast(c)
    <3>1. CallOK(c)' /\ Others(c) /\ CallShape
      BY <1>1, <2>2, ReadLastEffect DEF CallOK
    <3> QED
      BY <1>1, <3>1, CallsStay
  <2>3. CASE AppendEntry(c) \/ FailToAppend(c)
    <3>1. call' = [call EXCEPT ![c] = Reported(c)] /\ call[c].step = "append"
      BY <2>3 DEF AppendEntry, FailToAppend, Update
    <3>2. /\ Others(c) /\ CallShape
          /\ call[c].done \in Nat /\ Len(call[c].entries) \in Nat
          /\ call'[c].done = call[c].done + 1 /\ call'[c].entries = call[c].entries
          /\ call'[c].stage = call[c].stage
          /\ \/ call'[c].step = "report" /\ call[c].done + 1 < Len(call[c].entries)
             \/ call'[c].step = "blocked" /\ call[c].stage = "pre"
             \/ call'[c].step = "shown" /\ call[c].stage = "post"
      BY <1>1, <3>1, ReportedEffect
    <3>3. CallOK(c)'
      BY <1>1, <3>1, <3>2 DEF CallOK
    <3> QED
      BY <1>1, <3>2, <3>3, CallsStay
  <2>4. CASE RunHookPostuse(c)
    <3>1. CallOK(c)' /\ Others(c) /\ CallShape
      BY <1>1, <2>4, PostuseEffect DEF CallOK
    <3> QED
      BY <1>1, <3>1, CallsStay
  <2> QED
    BY <2>1, <2>2, <2>3, <2>4 DEF HookStep, RunHookPostuse
<1> QED
  BY <1>2, <1>3, <1>4, <1>5 DEF Typed, CallShape

LEMMA ProtectTyped == ASSUME Typed, Protect PROVE Typed'
<1>1. EditOK /\ LogOK /\ CallsOK /\ failures \in 0..MaxFailures /\ forked \in BOOLEAN
      /\ \E P : call \in [Call -> HookOf(P)]
  BY DEF Typed
<1>2. UNCHANGED <<log, ragged, call, failures, forked>>
  BY DEF Protect, Load, Truncate, WriteLine, Saved, StopEdit, files, history
<1>3. LogOK' /\ CallsOK' /\ failures' \in 0..MaxFailures /\ forked' \in BOOLEAN
      /\ \E P : call' \in [Call -> HookOf(P)]
  BY <1>1, <1>2 DEF LogOK, CallsOK, CallOK
<1>4. EditOK'
  <2>1. ASSUME NEW op \in {"add", "remove"}, NEW p \in Pattern, Load(op, p) PROVE EditOK'
    <3> DEFINE list == IF op = "add" THEN AddPattern(patterns, p) ELSE RemovePattern(patterns, p)
    <3>1. list \in Seq(Pattern) /\ Len(list) \in Nat
      <4>1. patterns \in Seq(Pattern) /\ RemovePattern(patterns, p) \in Seq(Pattern)
        BY <1>1, RemovePatternDrops DEF EditOK
      <4> QED
        BY <4>1 DEF AddPattern
    <3>2. \/ edit' = edit
          \/ edit' = [step |-> "loaded", op |-> op, pattern |-> p, lines |-> 0, list |-> list]
      BY <2>1 DEF Load
    <3>3. UNCHANGED <<patterns, registered, spoiled>> /\ edits' \in 0..MaxEdits
      BY <1>1, <2>1, BoundAssumption DEF Load, files, history, EditOK
    <3>4. edit'.step # "idle" => edit' \in Edit /\ edit'.lines <= Len(edit'.list)
      <4>1. CASE edit' = edit
        BY <1>1, <4>1 DEF EditOK
      <4>2. CASE edit' = [step |-> "loaded", op |-> op, pattern |-> p, lines |-> 0, list |-> list]
        <5> HIDE DEF list
        <5> QED
          BY <3>1, <4>2 DEF Edit
      <4> QED
        BY <3>2, <4>1, <4>2
    <3> QED
      BY <1>1, <3>3, <3>4 DEF EditOK
  <2>2. CASE Truncate
    <3>1. edit \in Edit /\ edit.lines <= Len(edit.list) /\ patterns' = <<>>
          /\ edit' = [edit EXCEPT !.step = "writing"]
          /\ UNCHANGED <<edits, registered, spoiled>>
      BY <1>1, <2>2 DEF Truncate, EditOK, history
    <3>2. /\ edit' \in Edit /\ edit'.lines = edit.lines /\ edit'.list = edit.list
          /\ patterns' \in Seq(Pattern)
      BY <3>1 DEF Edit
    <3> QED
      BY <1>1, <3>1, <3>2 DEF EditOK
  <2>3. CASE WriteLine
    <3>1. edit \in Edit /\ edit.lines < Len(edit.list) /\ edit.step = "writing"
      BY <1>1, <2>3 DEF WriteLine, EditOK
    <3>2. edit.lines \in Nat /\ Len(edit.list) \in Nat /\ edit.list \in Seq(Pattern)
      BY <3>1 DEF Edit
    <3>3. edit' = [edit EXCEPT !.lines = edit.lines + 1]
      BY <2>3 DEF WriteLine
    <3>4. edit' \in Edit /\ edit'.lines <= Len(edit'.list)
      BY <3>1, <3>2, <3>3 DEF Edit
    <3>5. edit.list[edit.lines + 1] \in Pattern
      BY <3>1, <3>2
    <3>6. patterns' \in Seq(Pattern)
      BY <1>1, <2>3, <3>5 DEF WriteLine, EditOK
    <3> QED
      BY <1>1, <2>3, <3>4, <3>6 DEF WriteLine, EditOK, history
  <2>4. CASE Saved
    <3>1. edit'.step = "idle" /\ patterns' = patterns /\ edits' = edits /\ spoiled' = spoiled
      BY <2>4 DEF Saved, NoEdit, files
    <3>2. edit.pattern \in Pattern
      BY <1>1, <2>4 DEF Saved, EditOK, Edit
    <3>3. registered' \subseteq Pattern
      BY <1>1, <2>4, <3>2 DEF Saved, EditOK
    <3> QED
      BY <1>1, <3>1, <3>3 DEF EditOK
  <2>5. CASE StopEdit
    BY <1>1, <2>5 DEF StopEdit, EditOK, NoEdit, files
  <2> QED
    BY <2>1, <2>2, <2>3, <2>4, <2>5 DEF Protect
<1> QED
  BY <1>3, <1>4 DEF Typed

LEMMA NextTyped == Typed /\ [Next]_vars => Typed'
<1> SUFFICES ASSUME Typed, [Next]_vars PROVE Typed'
  OBVIOUS
<1>1. CASE UNCHANGED vars
  BY <1>1 DEF vars, files, history, Typed, EditOK, LogOK, CallsOK, CallOK
<1> QED
  BY <1>1, HookTyped, ProtectTyped DEF Next

(* The variables have their types, and a hook has logged at most what it   *)
(* has to log, in every behaviour and for every value of the constants.    *)
THEOREM TypeOKThm == Spec => []TypeOK
<1>1. Typed => TypeOK
  BY TypedMeans
<1> QED
  BY <1>1, InitTyped, NextTyped, PTL DEF Spec

-----------------------------------------------------------------------------
(* The file of patterns between protect commands, and what the running one *)
(* is about to leave in it, as long as none stopped half-way.              *)
AfterEdit == IF edit.op = "add" THEN registered \cup {edit.pattern}
                                ELSE registered \ {edit.pattern}
PatternsKept ==
  ~spoiled =>
    /\ edit.step # "writing" => Listed(patterns) = registered
    /\ edit.step # "idle" => Listed(edit.list) = AfterEdit
    /\ edit.step = "loaded" => edit.lines = 0
    /\ edit.step = "writing" => /\ Len(patterns) = edit.lines
                                /\ \A i \in 1..Len(patterns) : patterns[i] = edit.list[i]
(* A call that is due to be stopped is with preuse, or blocked.            *)
DueStops ==
  \A c \in Call : call[c].due => call[c].step \notin {"new", "run"} /\ call[c].stage = "pre"

LEMMA PatternsStay ==
  ASSUME Typed, PatternsKept, [Next]_vars
  PROVE  PatternsKept'
<1>1. EditOK /\ patterns \in Seq(Pattern)
  BY DEF Typed, EditOK
<1>2. ASSUME NEW op \in {"add", "remove"}, NEW p \in Pattern, Load(op, p)
      PROVE  PatternsKept'
  <2> DEFINE list == IF op = "add" THEN AddPattern(patterns, p) ELSE RemovePattern(patterns, p)
             some == [step |-> "loaded", op |-> op, pattern |-> p, lines |-> 0, list |-> list]
  <2>1. Listed(list) = IF op = "add" THEN Listed(patterns) \cup {p} ELSE Listed(patterns) \ {p}
    <3>1. Listed(Append(patterns, p)) = Listed(patterns) \cup {p}
      BY <1>1, ListedAppend
    <3> QED
      BY <1>1, <3>1, RemovePatternDrops DEF AddPattern
  <2>2. edit' = edit \/ edit' = some
    BY <1>2 DEF Load
  <2>3. edit.step = "idle" /\ UNCHANGED <<patterns, registered, spoiled>>
    BY <1>2 DEF Load, files, history
  <2>4. CASE edit' = edit
    BY <2>3, <2>4 DEF PatternsKept, AfterEdit
  <2>5. CASE edit' = some
    <3>1. edit'.step = "loaded" /\ edit'.op = op /\ edit'.pattern = p /\ edit'.lines = 0
          /\ edit'.list = list
      BY <2>5
    <3> HIDE DEF list
    <3> QED
      BY <2>1, <2>3, <3>1 DEF PatternsKept, AfterEdit
  <2> QED
    BY <2>2, <2>4, <2>5
<1>3. CASE Truncate
  <2>1. edit \in Edit /\ edit.step = "loaded" /\ edit' = [edit EXCEPT !.step = "writing"]
    BY <1>1, <1>3 DEF Truncate, EditOK
  <2>2. edit'.step = "writing" /\ edit'.op = edit.op /\ edit'.pattern = edit.pattern
        /\ edit'.lines = edit.lines /\ edit'.list = edit.list
    BY <2>1 DEF Edit
  <2>3. patterns' = <<>> /\ registered' = registered /\ spoiled' = spoiled /\ Len(patterns') = 0
    BY <1>3 DEF Truncate, history
  <2> QED
    BY <2>1, <2>2, <2>3 DEF PatternsKept, AfterEdit
<1>4. CASE WriteLine
  <2>1. edit \in Edit /\ edit.step = "writing" /\ edit' = [edit EXCEPT !.lines = edit.lines + 1]
    BY <1>1, <1>4 DEF WriteLine, EditOK
  <2>2. edit'.step = "writing" /\ edit'.op = edit.op /\ edit'.pattern = edit.pattern
        /\ edit'.lines = edit.lines + 1 /\ edit'.list = edit.list
    BY <2>1 DEF Edit
  <2>3. edit.lines < Len(edit.list) /\ edit.list \in Seq(Pattern) /\ edit.lines \in Nat
    BY <1>4, <2>1 DEF WriteLine, Edit
  <2> DEFINE line == edit.list[edit.lines + 1]
  <2>4. line \in Pattern /\ patterns' = Append(patterns, line)
        /\ registered' = registered /\ spoiled' = spoiled
    BY <1>4, <2>3 DEF WriteLine, history
  <2> HIDE DEF line
  <2>5. Len(patterns') = Len(patterns) + 1 /\ patterns'[Len(patterns) + 1] = line
        /\ \A i \in 1..Len(patterns) : patterns'[i] = patterns[i]
    BY <1>1, <2>4
  <2>6. ASSUME ~spoiled
        PROVE  /\ Len(patterns') = edit'.lines
               /\ \A i \in 1..Len(patterns') : patterns'[i] = edit'.list[i]
    <3>1. Len(patterns) = edit.lines
          /\ \A i \in 1..Len(patterns) : patterns[i] = edit.list[i]
      BY <2>1, <2>6 DEF PatternsKept
    <3>2. \A i \in 1..Len(patterns') : i = Len(patterns) + 1 \/ i \in 1..Len(patterns)
      BY <2>3, <2>5, <3>1
    <3> QED
      BY <2>2, <2>5, <3>1, <3>2 DEF line
  <2> QED
    BY <2>1, <2>2, <2>4, <2>6 DEF PatternsKept, AfterEdit
<1>5. CASE Saved
  <2>1. edit \in Edit /\ edit.step = "writing" /\ edit.lines = Len(edit.list)
        /\ edit'.step = "idle" /\ patterns' = patterns /\ spoiled' = spoiled
    BY <1>1, <1>5 DEF Saved, EditOK, NoEdit, files
  <2>2. registered' = AfterEdit
    BY <1>5 DEF Saved, AfterEdit
  <2>3. ASSUME ~spoiled PROVE Listed(patterns) = Listed(edit.list)
    <3>1. Len(patterns) = Len(edit.list)
          /\ \A i \in 1..Len(patterns) : patterns[i] = edit.list[i]
      BY <2>1, <2>3 DEF PatternsKept
    <3>2. edit.list \in Seq(Pattern)
      BY <2>1 DEF Edit
    <3> QED
      BY <1>1, <3>1, <3>2 DEF Listed
  <2> QED
    BY <2>1, <2>2, <2>3 DEF PatternsKept
<1>6. CASE StopEdit
  BY <1>6 DEF StopEdit, PatternsKept
<1>7. ASSUME NEW c \in Call, HookStep(c) PROVE PatternsKept'
  <2>1. UNCHANGED <<patterns, edit, registered, spoiled>>
    BY <1>7 DEF HookStep, Preuse, ReadLast, AppendEntry, FailToAppend, Postuse, files, history
  <2> QED
    BY <2>1 DEF PatternsKept, AfterEdit
<1>8. CASE UNCHANGED vars
  BY <1>8 DEF vars, files, history, PatternsKept, AfterEdit
<1> QED
  BY <1>2, <1>3, <1>4, <1>5, <1>6, <1>7, <1>8 DEF Next, Protect

LEMMA DueStay ==
  ASSUME Typed, PatternsKept, DueStops, [Next]_vars
  PROVE  DueStops'
<1>1. TypeOK /\ Shape /\ HooksInOrder
  BY TypedMeans
<1>2. ASSUME NEW c \in Call, Others(c),
             call'[c].due => call'[c].step \notin {"new", "run"} /\ call'[c].stage = "pre"
      PROVE  DueStops'
  BY <1>2 DEF DueStops, Others
<1>3. ASSUME NEW c \in Call, NEW sensitive \in BOOLEAN, Preuse(c, sensitive)
      PROVE  DueStops'
  <2>1. /\ call[c].step = "new" /\ Others(c) /\ call'[c].stage = call[c].stage
        /\ call'[c].due = Due(c)
        /\ \/ call'[c].step = "report"
           \/ /\ call'[c].step \in {"blocked", "run"}
              /\ Tool[c] \in {"file", "bash"} => Touches(c) \cap Listed(patterns) = {}
    BY <1>1, <1>3, PreuseEffect
  <2>2. call'[c].stage = "pre"
    BY <1>1, <2>1 DEF HooksInOrder
  <2>3. ASSUME Due(c) PROVE call'[c].step = "report"
    <3>1. Tool[c] \in {"file", "bash"} /\ Touches(c) \cap registered # {}
          /\ edit.step # "writing" /\ ~spoiled
      BY <2>3 DEF Due, Calm
    <3>2. Listed(patterns) = registered
      BY <3>1 DEF PatternsKept
    <3> QED
      BY <2>1, <3>1, <3>2
  <2> QED
    BY <1>2, <2>1, <2>2, <2>3
<1>4. ASSUME NEW c \in Call, ReadLast(c) PROVE DueStops'
  <2>1. /\ call[c].step = "report" /\ Others(c) /\ call'[c].step = "append"
        /\ call'[c].stage = call[c].stage /\ call'[c].due = call[c].due
    BY <1>1, <1>4, ReadLastEffect
  <2> QED
    BY <1>2, <2>1 DEF DueStops
<1>5. ASSUME NEW c \in Call, AppendEntry(c) \/ FailToAppend(c) PROVE DueStops'
  <2>1. call' = [call EXCEPT ![c] = Reported(c)]
    BY <1>5 DEF AppendEntry, FailToAppend, Update
  <2>2. /\ Others(c) /\ call'[c].stage = call[c].stage /\ call'[c].due = call[c].due
        /\ call'[c].step \in {"report", "blocked", "shown"}
    BY <1>1, <2>1, ReportedEffect
  <2> QED
    BY <1>2, <2>2 DEF DueStops
<1>6. ASSUME NEW c \in Call, RunHookPostuse(c) PROVE DueStops'
  <2>1. call[c].step = "run" /\ Others(c) /\ call'[c].due = call[c].due
    BY <1>1, <1>6, PostuseEffect
  <2> QED
    BY <1>2, <2>1 DEF DueStops
<1>7. ASSUME call' = call PROVE DueStops'
  BY <1>7 DEF DueStops
<1>8. Protect \/ UNCHANGED vars => call' = call
  BY DEF Protect, Load, Truncate, WriteLine, Saved, StopEdit, vars
<1> QED
  BY <1>3, <1>4, <1>5, <1>6, <1>7, <1>8 DEF Next, HookStep, RunHookPostuse

(* A call that touches a registered pattern is blocked, for every set of   *)
(* calls, patterns and protect commands, in whatever order hooks and       *)
(* commands run.                                                           *)
THEOREM CoveredIsBlockedThm == Spec => []CoveredIsBlocked
<1>1. Init => PatternsKept /\ DueStops
  <2> SUFFICES ASSUME Init PROVE PatternsKept /\ DueStops
    OBVIOUS
  <2>1. PatternsKept
    BY DEF Init, NoEdit, PatternsKept, Listed
  <2>2. DueStops
    BY DEF Init, Fresh, DueStops
  <2> QED
    BY <2>1, <2>2
<1>2. Typed /\ DueStops => CoveredIsBlocked
  <2>1. Typed => HooksInOrder
    BY TypedMeans
  <2> QED
    BY <2>1 DEF DueStops, CoveredIsBlocked, HooksInOrder
<1>3. Typed /\ PatternsKept /\ [Next]_vars => PatternsKept'
  BY PatternsStay
<1>4. Typed /\ PatternsKept /\ DueStops /\ [Next]_vars => DueStops'
  BY DueStay
<1> QED
  BY <1>1, <1>2, <1>3, <1>4, InitTyped, NextTyped, PTL DEF Spec

-----------------------------------------------------------------------------
(* Every entry a hook has written stays: no invariant but that the log,    *)
(* until an append fails, ends in a newline.                               *)
Logged(what) == \E i \in DOMAIN log : log[i] # Garbage /\ log[i].what = what
Whole == ~torn => ~ragged
Reports == Whole /\ ReportsKept

(* The lines that were there stay, and the new one is the last.            *)
LEMMA LogGrows ==
  ASSUME LogOK, ~ragged, NEW line, log' = AddLine(log, ragged, line)
  PROVE  /\ Len(log) \in Nat /\ DOMAIN log = 1..Len(log)
         /\ Len(log') = Len(log) + 1 /\ DOMAIN log' = 1..(Len(log) + 1)
         /\ \A i \in DOMAIN log : i \in DOMAIN log' /\ log'[i] = log[i]
         /\ log'[Len(log) + 1] = line
BY AddLineIs

LEMMA ReportsStay ==
  ASSUME Typed, Reports, [Next]_vars
  PROVE  Reports'
<1>1. TypeOK /\ Shape /\ HooksInOrder /\ LogOK /\ failures \in Nat /\ CallsOK
  BY TypedMeans, BoundAssumption DEF Typed
<1>2. ReportsKept = \A c \in Call : \A k \in 1..call[c].done : torn \/ Logged(call[c].entries[k])
  BY DEF ReportsKept, Logged
<1>3. ASSUME NEW c \in Call, Others(c), log' = log, ragged' = ragged, failures' = failures,
             \/ call'[c].done = call[c].done /\ call'[c].entries = call[c].entries
             \/ call'[c].done = 0
      PROVE  Reports'
  <2>1. \A d \in Call : \A k \in 1..call'[d].done :
          k \in 1..call[d].done /\ call'[d].entries[k] = call[d].entries[k]
    BY <1>3 DEF Others
  <2> QED
    BY <1>3, <2>1 DEF Reports, Whole, ReportsKept, torn
<1>4. ASSUME NEW c \in Call, NEW sensitive \in BOOLEAN, Preuse(c, sensitive)
      PROVE  Reports'
  <2>1. call[c].step = "new" /\ Others(c) /\ call'[c].done = call[c].done
    BY <1>1, <1>4, PreuseEffect
  <2>2. call'[c].done = 0
    BY <1>1, <2>1 DEF HooksInOrder
  <2>3. log' = log /\ ragged' = ragged /\ failures' = failures
    BY <1>4 DEF Preuse, files, history
  <2> QED
    BY <1>3, <2>1, <2>2, <2>3
<1>5. ASSUME NEW c \in Call, ReadLast(c) PROVE Reports'
  <2>1. Others(c) /\ call'[c].done = call[c].done /\ call'[c].entries = call[c].entries
    BY <1>1, <1>5, ReadLastEffect
  <2>2. log' = log /\ ragged' = ragged /\ failures' = failures
    BY <1>5 DEF ReadLast, files
  <2> QED
    BY <1>3, <2>1, <2>2
<1>6. ASSUME NEW c \in Call, AppendEntry(c) PROVE Reports'
  <2>1. call' = [call EXCEPT ![c] = Reported(c)] /\ log' = AddLine(log, ragged, Pending(c))
        /\ ragged' = FALSE /\ failures' = failures
    BY <1>6 DEF AppendEntry, Update, Appended, history
  <2>2. /\ Others(c) /\ call[c].done \in Nat
        /\ call'[c].done = call[c].done + 1 /\ call'[c].entries = call[c].entries
    BY <1>1, <2>1, ReportedEffect
  <2>3. ASSUME ~torn, NEW d \in Call, NEW k \in 1..call'[d].done
        PROVE  \E i \in DOMAIN log' : log'[i] # Garbage /\ log'[i].what = call'[d].entries[k]
    <3>1. /\ Len(log) \in Nat /\ DOMAIN log = 1..Len(log)
          /\ DOMAIN log' = 1..(Len(log) + 1)
          /\ \A i \in DOMAIN log : i \in DOMAIN log' /\ log'[i] = log[i]
          /\ log'[Len(log) + 1] = Pending(c)
      BY <1>1, <2>1, <2>3, LogGrows DEF Reports, Whole
    <3>2. CASE d = c /\ k = call[c].done + 1
      <4>1. Pending(c) # Garbage /\ Pending(c).what = call[c].entries[k]
        BY <3>2, NewEntryIs DEF Pending
      <4> QED
        BY <2>2, <3>1, <3>2, <4>1
    <3>3. CASE ~(d = c /\ k = call[c].done + 1)
      <4>1. k \in 1..call[d].done /\ call'[d].entries = call[d].entries
        BY <2>2, <3>3 DEF Others
      <4>2. Logged(call[d].entries[k])
        BY <2>3, <4>1, <1>2 DEF Reports, ReportsKept, Logged
      <4> QED
        BY <3>1, <4>1, <4>2 DEF Logged
    <3> QED
      BY <3>2, <3>3
  <2> QED
    BY <2>1, <2>3 DEF Reports, Whole, ReportsKept, torn
<1>7. ASSUME NEW c \in Call, FailToAppend(c) PROVE Reports'
  <2>1. failures' > 0
    BY <1>1, <1>7 DEF FailToAppend
  <2> QED
    BY <2>1 DEF Reports, Whole, ReportsKept, torn
<1>8. ASSUME NEW c \in Call, RunHookPostuse(c) PROVE Reports'
  <2>1. Others(c) /\ call'[c].done = 0
    BY <1>1, <1>8, PostuseEffect
  <2>2. log' = log /\ ragged' = ragged /\ failures' = failures
    BY <1>8 DEF RunHookPostuse, Postuse, files, history
  <2> QED
    BY <1>3, <2>1, <2>2
<1>9. ASSUME Protect \/ UNCHANGED vars PROVE Reports'
  <2>1. UNCHANGED <<log, ragged, call, failures>>
    BY <1>9 DEF Protect, Load, Truncate, WriteLine, Saved, StopEdit, vars, files, history
  <2> QED
    BY <2>1 DEF Reports, Whole, ReportsKept, torn
<1> QED
  BY <1>4, <1>5, <1>6, <1>7, <1>8, <1>9 DEF Next, HookStep, RunHookPostuse

(* Whatever the interleaving of the hooks of parallel calls, no entry of   *)
(* the audit log is overwritten or lost while appends succeed.             *)
THEOREM ReportsKeptThm == Spec => []ReportsKept
<1>1. Init => Reports
  BY DEF Init, Reports, Whole, ReportsKept, Fresh
<1>2. Typed /\ Reports /\ [Next]_vars => Reports'
  BY ReportsStay
<1>3. Reports => ReportsKept
  BY DEF Reports
<1> QED
  BY <1>1, <1>2, <1>3, InitTyped, NextTyped, PTL DEF Spec

-----------------------------------------------------------------------------
(* Once postuse has run, what its keys open is masked in what it shows.    *)
TextMasked == \A c \in Call : call[c].stage = "post" => KeysMask(call[c])

LEMMA TextStays ==
  ASSUME Typed, TextMasked, [Next]_vars
  PROVE  TextMasked'
<1>1. TypeOK /\ Shape /\ HooksInOrder
  BY TypedMeans
<1>2. ASSUME NEW c \in Call, Others(c), call'[c].stage = call[c].stage,
             call'[c].hand = call[c].hand, call'[c].text = call[c].text
      PROVE  TextMasked'
  BY <1>2 DEF TextMasked, KeysMask, Others
<1>3. ASSUME NEW c \in Call, NEW sensitive \in BOOLEAN, Preuse(c, sensitive)
      PROVE  TextMasked'
  BY <1>1, <1>2, <1>3, PreuseEffect
<1>4. ASSUME NEW c \in Call, ReadLast(c) PROVE TextMasked'
  BY <1>1, <1>2, <1>4, ReadLastEffect
<1>5. ASSUME NEW c \in Call, AppendEntry(c) \/ FailToAppend(c) PROVE TextMasked'
  <2>1. call' = [call EXCEPT ![c] = Reported(c)]
    BY <1>5 DEF AppendEntry, FailToAppend, Update
  <2> QED
    BY <1>1, <1>2, <2>1, ReportedEffect
<1>6. ASSUME NEW c \in Call, RunHookPostuse(c) PROVE TextMasked'
  <2>1. Others(c) /\ KeysMask(call'[c])
    BY <1>1, <1>6, PostuseEffect
  <2> QED
    BY <2>1 DEF TextMasked, Others
<1>7. ASSUME Protect \/ UNCHANGED vars PROVE TextMasked'
  <2>1. call' = call
    BY <1>7 DEF Protect, Load, Truncate, WriteLine, Saved, StopEdit, vars
  <2> QED
    BY <2>1 DEF TextMasked
<1> QED
  BY <1>3, <1>4, <1>5, <1>6, <1>7 DEF Next, HookStep, RunHookPostuse

(* For every set of secrets, whichever contains or overlaps which, opened  *)
(* by whichever recipients' keys, and for every response, no secret is     *)
(* left to be seen that the keys at hand open.                             *)
THEOREM OutputMaskedThm == Spec => []OutputMasked
<1>1. Init => TextMasked
  BY DEF Init, TextMasked, Fresh
<1>2. Typed /\ TextMasked /\ [Next]_vars => TextMasked'
  BY TextStays
<1>3. Typed /\ TextMasked => OutputMasked
  <2>1. Typed => HooksInOrder
    BY TypedMeans
  <2> QED
    BY <2>1 DEF TextMasked, KeysMask, OutputMasked, HooksInOrder, Unseen
<1> QED
  BY <1>1, <1>2, <1>3, InitTyped, NextTyped, PTL DEF Spec

-----------------------------------------------------------------------------
(* Until an append fails every line of the log is whole, and what a hook   *)
(* is about to append chains to one of them.                               *)
Hashes(n) == {NoHash} \cup {log[j].hash : j \in 1..n}
LogWhole ==
  ~torn =>
    /\ ~ragged /\ Parses(log)
    /\ \A c \in Call : call[c].step = "append" => call[c].prev \in Hashes(Len(log))
    /\ \A i \in DOMAIN log : log[i].prev \in Hashes(i - 1)

(* Until two hooks append at once, a hook that appends is alone, and what  *)
(* it read is still the end of the chain.                                  *)
ChainWhole ==
  ~forked =>
    /\ \A c, d \in Call : call[c].step = "append" /\ call[d].step = "append" => c = d
    /\ \A c \in Call : call[c].step = "append" => call[c].prev = LastHash(log)
    /\ Parses(log) => VerifyChain(log)
Chained == LogWhole /\ ChainWhole

(* In a log that parses, lastHash is the hash of the last line.            *)
LEMMA LastHashIs ==
  ASSUME LogOK, Parses(log)
  PROVE  LastHash(log) = IF Len(log) = 0 THEN NoHash ELSE log[Len(log)].hash
<1>1. Len(log) \in Nat /\ DOMAIN log = 1..Len(log)
  BY AddLineIs
<1> DEFINE n == Len(log)
           Latest(i) == \A j \in EntriesOf(log) : j <= i
           last == CHOOSE i \in EntriesOf(log) : Latest(i)
<1>2. EntriesOf(log) = 1..n
  BY <1>1 DEF EntriesOf, Parses
<1>3. CASE n = 0
  BY <1>1, <1>2, <1>3 DEF LastHash
<1>4. CASE n # 0
  <2>1. n \in EntriesOf(log) /\ Latest(n)
    BY <1>1, <1>2, <1>4
  <2> HIDE DEF Latest
  <2>2. last \in EntriesOf(log) /\ Latest(last)
    BY <2>1
  <2>3. n <= last /\ last \in 1..n
    BY <1>2, <2>1, <2>2 DEF Latest
  <2>4. last = n
    BY <1>1, <2>3
  <2>5. LastHash(log) = log[last].hash
    BY <2>1 DEF LastHash, Latest
  <2> QED
    BY <1>4, <2>4, <2>5
<1> QED
  BY <1>3, <1>4

(* A line is added that chains to prev.                                    *)
LEMMA LogWholeStays ==
  ASSUME LogOK, LogWhole, ~torn, NEW c \in Call, call[c].step = "append",
         log' = AddLine(log, ragged, Pending(c))
  PROVE  /\ Parses(log)'
         /\ \A i \in DOMAIN log' : (log[i].prev \in Hashes(i - 1))'
         /\ \A h : h \in Hashes(Len(log)) => h \in Hashes(Len(log))'
<1> DEFINE n == Len(log)
<1>1. /\ n \in Nat /\ DOMAIN log = 1..n /\ DOMAIN log' = 1..(n + 1) /\ Len(log') = n + 1
      /\ \A i \in 1..n : log'[i] = log[i]
      /\ log'[n + 1] = Pending(c)
  BY LogGrows DEF LogWhole
<1>2. Pending(c) # Garbage /\ Pending(c).prev = call[c].prev
  BY NewEntryIs DEF Pending
<1> HIDE DEF n
<1>3. Parses(log)'
  BY <1>1, <1>2 DEF LogWhole, Parses
<1>4. \A h, i : i \in 0..n /\ h \in Hashes(i) => h \in Hashes(i)'
  BY <1>1 DEF Hashes
<1>5. ASSUME NEW i \in DOMAIN log' PROVE log'[i].prev \in Hashes(i - 1)'
  <2>1. CASE i = n + 1
    <3>1. log'[i].prev = call[c].prev /\ call[c].prev \in Hashes(n) /\ (n + 1) - 1 = n
          /\ n \in 0..n
      BY <1>1, <1>2, <2>1 DEF LogWhole, n
    <3> QED
      BY <1>4, <2>1, <3>1
  <2>2. CASE i # n + 1
    <3>1. i \in DOMAIN log /\ log'[i] = log[i] /\ i - 1 \in 0..n
      BY <1>1, <2>2
    <3>2. log[i].prev \in Hashes(i - 1)
      BY <3>1 DEF LogWhole
    <3> QED
      BY <1>4, <3>1, <3>2
  <2> QED
    BY <2>1, <2>2
<1>6. ASSUME NEW h, h \in Hashes(Len(log)) PROVE h \in Hashes(Len(log))'
  <2>1. h = NoHash \/ \E j \in 1..n : h = log[j].hash
    BY <1>6 DEF Hashes, n
  <2>2. h = NoHash \/ \E j \in 1..Len(log') : h = log'[j].hash
    BY <1>1, <2>1
  <2> QED
    BY <2>2 DEF Hashes
<1> QED
  BY <1>3, <1>5, <1>6

(* An entry that chains to the last one keeps the chain.                   *)
LEMMA VerifyStays ==
  ASSUME LogOK, NEW c \in Call, call[c].prev = LastHash(log),
         Parses(log) => VerifyChain(log),
         NEW line \in {Garbage, Pending(c)}, log' = AddLine(log, ragged, line),
         Parses(log)'
  PROVE  VerifyChain(log)'
<1> DEFINE n == Len(log)
<1>1. ~ragged /\ line = Pending(c)
  <2>1. Len(log') > 0 /\ DOMAIN log' = 1..Len(log')
        /\ log'[Len(log')] = IF ragged THEN Garbage ELSE line
    BY AddLineIs
  <2>2. Len(log') \in DOMAIN log'
    <3>1. Len(log') \in Nat
      BY AddLineIs
    <3> QED
      BY <2>1, <3>1
  <2> QED
    BY <2>1, <2>2 DEF Parses
<1>2. /\ n \in Nat /\ DOMAIN log = 1..n /\ DOMAIN log' = 1..(n + 1)
      /\ \A i \in 1..n : log'[i] = log[i]
      /\ log'[n + 1] = Pending(c)
  BY <1>1, LogGrows
<1>3. Pending(c).prev = call[c].prev /\ Pending(c).hash = ComputeHash(Pending(c))
  BY NewEntryIs DEF Pending
<1>4. Parses(log)
  BY <1>2 DEF Parses
<1>5. LastHash(log) = IF n = 0 THEN NoHash ELSE log[n].hash
  BY <1>4, LastHashIs
<1> HIDE DEF n
<1>6. ASSUME NEW i \in DOMAIN log'
      PROVE  /\ log'[i].prev = IF i = 1 THEN NoHash ELSE log'[i - 1].hash
             /\ log'[i].hash = ComputeHash(log'[i])
  <2>1. CASE i = n + 1
    <3>1. n # 0 => log'[i - 1] = log[n] /\ i # 1
      BY <1>2, <2>1
    <3>2. n = 0 => i = 1
      BY <2>1
    <3> QED
      BY <1>2, <1>3, <1>5, <2>1, <3>1, <3>2
  <2>2. CASE i # n + 1
    <3>1. i \in DOMAIN log /\ log'[i] = log[i] /\ (i # 1 => log'[i - 1] = log[i - 1])
      BY <1>2, <2>2
    <3> QED
      BY <1>4, <3>1 DEF VerifyChain
  <2> QED
    BY <2>1, <2>2
<1> QED
  BY <1>6 DEF VerifyChain

LEMMA ChainStays ==
  ASSUME Typed, Chained, [Next]_vars
  PROVE  Chained'
<1>1. TypeOK /\ Shape /\ HooksInOrder /\ LogOK /\ failures \in Nat
  BY TypedMeans, BoundAssumption DEF Typed
<1>2. ASSUME NEW c \in Call, Others(c), call'[c].step # "append",
             UNCHANGED <<log, ragged, failures, forked>>
      PROVE  Chained'
  <2>1. \A d \in Call : call'[d].step = "append" => d # c /\ call'[d] = call[d]
    BY <1>2 DEF Others
  <2>2. LogWhole'
    BY <1>2, <2>1 DEF Chained, LogWhole, Hashes, torn
  <2>3. ChainWhole'
    BY <1>2, <2>1 DEF Chained, ChainWhole
  <2> QED
    BY <2>2, <2>3 DEF Chained
<1>3. ASSUME NEW c \in Call, NEW sensitive \in BOOLEAN, Preuse(c, sensitive)
      PROVE  Chained'
  <2>1. Others(c) /\ call'[c].step # "append"
    BY <1>1, <1>3, PreuseEffect
  <2>2. UNCHANGED <<log, ragged, failures, forked>>
    BY <1>3 DEF Preuse, files, history
  <2> QED
    BY <1>2, <2>1, <2>2
<1>4. ASSUME NEW c \in Call, ReadLast(c) PROVE Chained'
  <2>1. Others(c) /\ call'[c].step = "append" /\ call'[c].prev = LastHash(log)
    BY <1>1, <1>4, ReadLastEffect
  <2>2. UNCHANGED <<log, ragged, failures>>
    BY <1>4 DEF ReadLast, files
  <2>3. forked' = (forked \/ \E d \in Call : call[d].step = "append")
    BY <1>4 DEF ReadLast
  <2>4. LogWhole'
    <3>1. ASSUME ~torn PROVE LastHash(log) \in Hashes(Len(log))
      <4>1. LastHash(log) = IF Len(log) = 0 THEN NoHash ELSE log[Len(log)].hash
        BY <1>1, <3>1, LastHashIs DEF Chained, LogWhole
      <4>2. Len(log) \in Nat
        BY <1>1, AddLineIs
      <4> QED
        BY <4>1, <4>2 DEF Hashes
    <3>2. \A d \in Call : call'[d].step = "append" =>
            \/ call[d].step = "append" /\ call'[d] = call[d]
            \/ call'[d].prev = LastHash(log)
      BY <2>1 DEF Others
    <3> QED
      BY <2>2, <3>1, <3>2 DEF Chained, LogWhole, Hashes, torn
  <2>5. ASSUME ~forked' PROVE ChainWhole'
    <3>1. ~forked /\ \A d \in Call : call[d].step # "append"
      BY <2>3, <2>5
    <3>2. \A d \in Call : call'[d].step = "append" => d = c
      BY <2>1, <3>1 DEF Others
    <3>3. LastHash(log)' = LastHash(log) /\ (Parses(log)' <=> Parses(log))
          /\ (VerifyChain(log)' <=> VerifyChain(log))
      BY <2>2 DEF LastHash, Parses, VerifyChain, EntriesOf
    <3> QED
      BY <2>1, <3>1, <3>2, <3>3 DEF Chained, ChainWhole
  <2> QED
    BY <2>4, <2>5 DEF Chained, ChainWhole
<1>5. ASSUME NEW c \in Call, AppendEntry(c) \/ FailToAppend(c) PROVE Chained'
  <2>1. /\ call' = [call EXCEPT ![c] = Reported(c)] /\ call[c].step = "append"
        /\ forked' = forked
        /\ \/ UNCHANGED <<log, ragged>> /\ failures' = failures + 1
           \/ \E line \in {Garbage, Pending(c)} :
                log' = AddLine(log, ragged, line) /\ failures' = failures + 1
           \/ log' = AddLine(log, ragged, Pending(c)) /\ ragged' = FALSE /\ failures' = failures
    BY <1>5 DEF AppendEntry, FailToAppend, Update, Appended, history
  <2>2. Others(c) /\ call'[c].step # "append"
    BY <1>1, <2>1, ReportedEffect
  <2>3. LogWhole'
    <3>1. CASE failures' = failures + 1
      BY <1>1, <3>1 DEF LogWhole, torn
    <3>2. CASE log' = AddLine(log, ragged, Pending(c)) /\ ragged' = FALSE /\ failures' = failures
      <4>1. SUFFICES ASSUME ~torn PROVE LogWhole'
        BY <3>2 DEF LogWhole, torn
      <4>2. /\ Parses(log)'
            /\ \A i \in DOMAIN log' : (log[i].prev \in Hashes(i - 1))'
            /\ \A h : h \in Hashes(Len(log)) => h \in Hashes(Len(log))'
        BY <1>1, <2>1, <3>2, <4>1, LogWholeStays DEF Chained
      <4>3. ASSUME NEW d \in Call, call'[d].step = "append"
            PROVE  call'[d].prev \in Hashes(Len(log))'
        <5>1. call'[d] = call[d]
          BY <2>2, <4>3 DEF Others
        <5>2. call[d].prev \in Hashes(Len(log))
          BY <4>1, <4>3, <5>1 DEF Chained, LogWhole
        <5> QED
          BY <4>2, <5>1, <5>2
      <4> QED
        BY <3>2, <4>2, <4>3 DEF LogWhole
    <3> QED
      BY <2>1, <3>1, <3>2
  <2>4. ASSUME ~forked PROVE ChainWhole'
    <3>1. /\ \A d \in Call : call[d].step = "append" => d = c
          /\ call[c].prev = LastHash(log)
          /\ Parses(log) => VerifyChain(log)
      BY <2>1, <2>4 DEF Chained, ChainWhole
    <3>2. \A d \in Call : call'[d].step # "append"
      BY <2>2, <3>1 DEF Others
    <3>3. Parses(log)' => VerifyChain(log)'
      <4>1. CASE log' = log
        <5>1. (Parses(log)' <=> Parses(log)) /\ (VerifyChain(log)' <=> VerifyChain(log))
          BY <4>1 DEF Parses, VerifyChain
        <5> QED
          BY <3>1, <5>1
      <4>2. ASSUME NEW line \in {Garbage, Pending(c)}, log' = AddLine(log, ragged, line)
            PROVE  Parses(log)' => VerifyChain(log)'
        BY <1>1, <3>1, <4>2, VerifyStays
      <4> QED
        BY <2>1, <4>1, <4>2
    <3> QED
      BY <3>2, <3>3 DEF ChainWhole
  <2> QED
    BY <2>1, <2>3, <2>4 DEF Chained, ChainWhole
<1>6. ASSUME NEW c \in Call, RunHookPostuse(c) PROVE Chained'
  <2>1. Others(c) /\ call'[c].step # "append"
    BY <1>1, <1>6, PostuseEffect
  <2>2. UNCHANGED <<log, ragged, failures, forked>>
    BY <1>6 DEF RunHookPostuse, Postuse, files, history
  <2> QED
    BY <1>2, <2>1, <2>2
<1>7. ASSUME Protect \/ UNCHANGED vars PROVE Chained'
  <2>1. UNCHANGED <<log, ragged, call, failures, forked>>
    BY <1>7 DEF Protect, Load, Truncate, WriteLine, Saved, StopEdit, vars, files, history
  <2> QED
    BY <2>1 DEF Chained, LogWhole, ChainWhole, Hashes, torn
<1> QED
  BY <1>3, <1>4, <1>5, <1>6, <1>7 DEF Next, HookStep, RunHookPostuse

(* The chain of the audit log, for any number of parallel calls: broken at *)
(* worst at two appends that overlap or at one that failed.                *)
THEOREM ChainHoldsThm == Spec => []ChainHolds
<1>1. Init => Chained
  <2> SUFFICES ASSUME Init PROVE Chained
    OBVIOUS
  <2>1. log = <<>> /\ ragged = FALSE /\ DOMAIN log = {} /\ \A c \in Call : call[c].step = "new"
    BY DEF Init, Fresh
  <2> QED
    BY <2>1 DEF Chained, LogWhole, ChainWhole, Parses, VerifyChain
<1>2. Typed /\ Chained /\ [Next]_vars => Chained'
  BY ChainStays
<1>3. Chained => ChainHolds
  BY DEF Chained, LogWhole, ChainWhole, Hashes, ChainHolds
<1> QED
  BY <1>1, <1>2, <1>3, InitTyped, NextTyped, PTL DEF Spec
=============================================================================
