-------------------------- MODULE SelectionProofs --------------------------
(***************************************************************************)
(* Facts about sequences; induction over the natural numbers, and what it  *)
(* gives for Select: the elements that a selection holds, and how it is    *)
(* put together.  The library states induction for a property given as an  *)
(* operator, which the provers cannot instantiate; here the property is a  *)
(* set of numbers.                                                         *)
(***************************************************************************)
EXTENDS Integers, Selection, SequencesExt, FiniteSetTheorems, SequenceTheorems,
        WellFoundedInduction, TLAPS

\* A set of numbers that is not empty has a least one.
LEMMA Least ==
  ASSUME NEW T \in SUBSET Nat, T # {}
  PROVE  \E n \in T : \A m \in T : n <= m
<1>1. PICK x \in T : \A y \in T : <<y, x>> \notin OpToRel(<, Nat)
  BY NatLessThanWellFounded, WFMin, Zenon
<1>2. ASSUME NEW y \in T, y < x PROVE FALSE
  <2>1. <<y, x>> \in Nat \X Nat BY <1>2
  <2>2. <<y, x>>[1] < <<y, x>>[2] BY <1>2
  <2>3. <<y, x>> \in OpToRel(<, Nat) BY <2>1, <2>2, Zenon DEF OpToRel
  <2> QED BY <2>3, <1>1
<1> QED BY <1>2

\* Induction, for a property given as the set of the numbers that have it.
LEMMA Inductive ==
  ASSUME NEW T, 0 \in T, \A n \in Nat : n \in T => n + 1 \in T
  PROVE  \A n \in Nat : n \in T
<1> DEFINE U == {n \in Nat : n \notin T}
<1> SUFFICES ASSUME U # {} PROVE FALSE OBVIOUS
<1>1. PICK n \in U : \A m \in U : n <= m
  <2>1. U \in SUBSET Nat OBVIOUS
  <2> HIDE DEF U
  <2> QED BY <2>1, Least
<1>2. n - 1 \in Nat /\ n - 1 \notin U BY <1>1
<1> QED BY <1>2

-----------------------------------------------------------------------------
(* Sequences.                                                              *)

\* The elements of a sequence are at most as many as its length, and as many only when
\* none is repeated.
LEMMA ElementsFacts ==
  ASSUME NEW D, NEW s \in Seq(D)
  PROVE  LET E == {s[i] : i \in 1..Len(s)}
         IN  /\ IsFiniteSet(E) /\ Cardinality(E) \in Nat /\ Cardinality(E) <= Len(s)
             /\ (\A i, j \in 1..Len(s) : s[i] = s[j] => i = j) => Cardinality(E) = Len(s)
<1> DEFINE E == {s[i] : i \in 1..Len(s)}
           n == Len(s)
<1>1. n \in Nat /\ s \in [1..n -> D] BY LenProperties
<1>2. IsFiniteSet(1..n) /\ Cardinality(1..n) = n BY <1>1, FS_Interval
<1>3. s \in Surjection(1..n, E)
  <2>1. s \in [1..n -> E]
    <3>1. \A i \in 1..n : s[i] \in E OBVIOUS
    <3> HIDE DEF E, n
    <3> QED BY <1>1, <3>1
  <2>2. \A e \in E : \E i \in 1..n : s[i] = e OBVIOUS
  <2> HIDE DEF E, n
  <2> QED BY <2>1, <2>2 DEF Surjection
<1>4. /\ IsFiniteSet(E) /\ Cardinality(E) <= Cardinality(1..n)
      /\ Cardinality(E) = Cardinality(1..n) <=> s \in Injection(1..n, E)
  <2> HIDE DEF E, n
  <2> QED BY <1>2, <1>3, FS_Surjection
<1>5. ASSUME \A i, j \in 1..n : s[i] = s[j] => i = j PROVE Cardinality(E) = n
  <2>1. s \in [1..n -> E] BY <1>3 DEF Surjection
  <2> HIDE DEF E, n
  <2>2. s \in Injection(1..n, E) BY <1>5, <2>1 DEF Injection, IsInjective
  <2> QED BY <1>2, <1>4, <2>2
<1>6. Cardinality(E) \in Nat
  <2> HIDE DEF E
  <2> QED BY <1>4, FS_CardinalityType
<1> QED BY <1>1, <1>2, <1>4, <1>5, <1>6

\* A run of a sequence, which may begin behind the end of it.
LEMMA RunFacts ==
  ASSUME NEW D, NEW s \in Seq(D), NEW m \in Nat, NEW n \in 0..Len(s)
  PROVE  /\ SubSeq(s, m + 1, n) \in Seq(D)
         /\ Len(SubSeq(s, m + 1, n)) = IF m <= n THEN n - m ELSE 0
         /\ \A i \in 1..(n - m) : SubSeq(s, m + 1, n)[i] = s[m + i]
<1>1. CASE m <= n BY <1>1
<1>2. CASE m > n
  <2>1. 1..(n - m) = {} BY <1>2
  <2>2. SubSeq(s, m + 1, n) = <<>>
    BY <1>2, SubSeqEmpty
  <2>3. SubSeq(s, m + 1, n) \in Seq(D) /\ Len(SubSeq(s, m + 1, n)) = 0 BY <2>2
  <2> QED BY <1>2, <2>1, <2>3
<1> QED BY <1>1, <1>2

\* Removing an element moves the ones behind it forward.
LEMMA RemovedFacts ==
  ASSUME NEW D, NEW s \in Seq(D), NEW k \in 1..Len(s)
  PROVE  /\ RemoveAt(s, k) \in Seq(D)
         /\ Len(RemoveAt(s, k)) = Len(s) - 1
         /\ \A i \in 1..(Len(s) - 1) :
              RemoveAt(s, k)[i] = IF i < k THEN s[i] ELSE s[i + 1]
<1> DEFINE a == SubSeq(s, 1, k - 1)
           b == SubSeq(s, k + 1, Len(s))
<1>1. /\ a \in Seq(D) /\ Len(a) = k - 1 /\ \A i \in 1..(k - 1) : a[i] = s[i]
      /\ b \in Seq(D) /\ Len(b) = Len(s) - k /\ \A i \in 1..(Len(s) - k) : b[i] = s[k + i]
  OBVIOUS
<1>2. RemoveAt(s, k) = a \o b BY DEF RemoveAt
<1> HIDE DEF a, b
<1>3. /\ a \o b \in Seq(D) /\ Len(a \o b) = Len(a) + Len(b)
      /\ \A i \in 1..(Len(a) + Len(b)) :
           (a \o b)[i] = IF i <= Len(a) THEN a[i] ELSE b[i - Len(a)]
  BY <1>1, ConcatProperties
<1> QED BY <1>1, <1>2, <1>3

\* Inserting an element moves the ones behind it back.
LEMMA InsertedFacts ==
  ASSUME NEW D, NEW s \in Seq(D), NEW k \in 1..(Len(s) + 1), NEW e \in D
  PROVE  /\ InsertAt(s, k, e) \in Seq(D)
         /\ Len(InsertAt(s, k, e)) = Len(s) + 1
         /\ \A i \in 1..(Len(s) + 1) :
              InsertAt(s, k, e)[i] = IF i < k THEN s[i] ELSE IF i = k THEN e ELSE s[i - 1]
<1> DEFINE a == SubSeq(s, 1, k - 1)
           b == SubSeq(s, k, Len(s))
<1>1. /\ a \in Seq(D) /\ Len(a) = k - 1 /\ \A i \in 1..(k - 1) : a[i] = s[i]
      /\ b \in Seq(D) /\ Len(b) = Len(s) - k + 1
      /\ \A i \in 1..(Len(s) - k + 1) : b[i] = s[k + i - 1]
  OBVIOUS
<1>2. InsertAt(s, k, e) = a \o <<e>> \o b BY DEF InsertAt
<1> HIDE DEF a, b
<1>3. /\ Append(a, e) \in Seq(D) /\ Len(Append(a, e)) = k
      /\ \A i \in 1..k : Append(a, e)[i] = IF i < k THEN a[i] ELSE e
      /\ a \o <<e>> = Append(a, e)
  BY <1>1
<1> DEFINE c == Append(a, e)
<1>4. InsertAt(s, k, e) = c \o b BY <1>2, <1>3
<1> HIDE DEF c
<1>5. /\ c \o b \in Seq(D) /\ Len(c \o b) = Len(c) + Len(b)
      /\ \A i \in 1..(Len(c) + Len(b)) :
           (c \o b)[i] = IF i <= Len(c) THEN c[i] ELSE b[i - Len(c)]
  BY <1>1, <1>3, ConcatProperties DEF c
<1>6. Len(c) = k /\ \A i \in 1..k : c[i] = IF i < k THEN s[i] ELSE e
  BY <1>1, <1>3 DEF c
<1>7. ASSUME NEW i \in 1..(Len(s) + 1)
      PROVE  (c \o b)[i] = IF i < k THEN s[i] ELSE IF i = k THEN e ELSE s[i - 1]
  <2>1. i \in 1..(Len(c) + Len(b)) BY <1>1, <1>6
  <2>2. CASE i <= k BY <1>5, <1>6, <2>1, <2>2
  <2>3. CASE ~(i <= k)
    <3>1. (c \o b)[i] = b[i - k] BY <1>5, <1>6, <2>1, <2>3
    <3>2. i - k \in 1..(Len(s) - k + 1) /\ k + (i - k) - 1 = i - 1 BY <2>3
    <3>3. b[i - k] = s[k + (i - k) - 1] BY <1>1, <3>2
    <3> QED BY <2>3, <3>1, <3>2, <3>3
  <2> QED BY <2>2, <2>3, Zenon
<1>8. Len(c) + Len(b) = Len(s) + 1 BY <1>1, <1>6
<1>9. /\ c \o b \in Seq(D) /\ Len(c \o b) = Len(s) + 1
      /\ \A i \in 1..(Len(s) + 1) :
           (c \o b)[i] = IF i < k THEN s[i] ELSE IF i = k THEN e ELSE s[i - 1]
  BY <1>5, <1>7, <1>8
<1> QED BY <1>4, <1>9, Zenon

-----------------------------------------------------------------------------
(* Selections.                                                             *)

\* The function by which Select is defined, up to the element k.
Steps(F, s, S, k) ==
  F = [i \in 0..k |-> IF i = 0 THEN <<>>
                      ELSE IF s[i] \in S THEN Append(F[i - 1], s[i]) ELSE F[i - 1]]

\* There is such a function.
LEMMA StepsExist ==
  ASSUME NEW s, NEW S
  PROVE  \A k \in Nat : \E F : Steps(F, s, S, k)
<1> DEFINE T == {k \in Nat : \E F : Steps(F, s, S, k)}
<1>1. 0 \in T
  <2>1. Steps([i \in 0..0 |-> <<>>], s, S, 0) BY DEF Steps
  <2> QED BY <2>1
<1>2. ASSUME NEW k \in Nat, k \in T PROVE k + 1 \in T
  <2>1. PICK F : Steps(F, s, S, k) BY <1>2
  <2> DEFINE G == [i \in 0..(k + 1) |->
                     IF i = k + 1 THEN IF s[i] \in S THEN Append(F[k], s[i]) ELSE F[k] ELSE F[i]]
  <2>1a. ASSUME NEW i \in 0..k
         PROVE  F[i] = IF i = 0 THEN <<>>
                       ELSE IF s[i] \in S THEN Append(F[i - 1], s[i]) ELSE F[i - 1]
    <3> HIDE DEF G
    <3> QED BY <2>1, Zenon DEF Steps
  <2>1b. ASSUME NEW i \in 0..k PROVE G[i] = F[i] OBVIOUS
  <2>2. \A i \in 0..k : /\ G[i] = F[i]
                        /\ F[i] = IF i = 0 THEN <<>>
                                  ELSE IF s[i] \in S THEN Append(F[i - 1], s[i]) ELSE F[i - 1]
    BY <2>1a, <2>1b
  <2>3. \A i \in 1..k : G[i - 1] = F[i - 1] BY <2>2
  <2>4. G[k + 1] = IF s[k + 1] \in S THEN Append(G[k], s[k + 1]) ELSE G[k] BY <2>2
  <2>5. DOMAIN G = 0..(k + 1) /\ G = [i \in 0..(k + 1) |-> G[i]] OBVIOUS
  <2> HIDE DEF G
  <2>6. ASSUME NEW i \in 0..(k + 1)
        PROVE  G[i] = IF i = 0 THEN <<>>
                      ELSE IF s[i] \in S THEN Append(G[i - 1], s[i]) ELSE G[i - 1]
    <3>1. CASE i = 0 BY <3>1, <2>2
    <3>2. CASE i \in 1..k
      <4>1. i \in 0..k /\ i # 0 BY <3>2
      <4> QED BY <4>1, <3>2, <2>2, <2>3
    <3>3. CASE i = k + 1
      <4>1. i - 1 = k /\ i # 0 BY <3>3
      <4> QED BY <4>1, <3>3, <2>4
    <3> QED BY <3>1, <3>2, <3>3
  <2>7. Steps(G, s, S, k + 1) BY <2>5, <2>6 DEF Steps
  <2> QED BY <2>7
<1>3. \A k \in Nat : k \in T
  <2> HIDE DEF T
  <2> QED BY <1>1, <1>2, Inductive
<1> QED BY <1>3

\* Select, unfolded along the sequence.
LEMMA SelectSteps ==
  ASSUME NEW D, NEW s \in Seq(D), NEW S
  PROVE  \E F : /\ DOMAIN F = 0..Len(s)
                /\ F[0] = <<>>
                /\ \A i \in 1..Len(s) :
                     F[i] = IF s[i] \in S THEN Append(F[i - 1], s[i]) ELSE F[i - 1]
                /\ Select(s, S) = F[Len(s)]
<1>0. Len(s) \in Nat OBVIOUS
<1>1. \E F : Steps(F, s, S, Len(s)) BY <1>0, StepsExist
<1> DEFINE F == CHOOSE F : Steps(F, s, S, Len(s))
<1>2. Steps(F, s, S, Len(s)) BY <1>1
<1>3. Select(s, S) = F[Len(s)] BY DEF Select, Steps
<1> HIDE DEF F
<1>4. DOMAIN F = 0..Len(s) /\ F[0] = <<>> BY <1>2 DEF Steps
<1>5. ASSUME NEW i \in 1..Len(s)
      PROVE  F[i] = IF s[i] \in S THEN Append(F[i - 1], s[i]) ELSE F[i - 1]
  <2>1. i \in 0..Len(s) /\ i # 0 BY <1>0
  <2> QED BY <1>2, <2>1 DEF Steps
<1> QED BY <1>3, <1>4, <1>5

\* From nothing, nothing is selected.
LEMMA SelectNone == ASSUME NEW S PROVE Select(<<>>, S) = <<>>
<1> DEFINE e == <<>>
<1>1. e \in Seq({}) /\ Len(e) = 0 OBVIOUS
<1> HIDE DEF e
<1>2. PICK F : F[0] = <<>> /\ Select(e, S) = F[Len(e)] BY <1>1, SelectSteps
<1> QED BY <1>1, <1>2 DEF e

\* One more element: it is selected or not.
LEMMA SelectMore ==
  ASSUME NEW D, NEW s \in Seq(D), NEW x \in D, NEW S
  PROVE  Select(Append(s, x), S) = IF x \in S THEN Append(Select(s, S), x) ELSE Select(s, S)
<1> DEFINE t == Append(s, x)
<1>1. t \in Seq(D) /\ Len(t) = Len(s) + 1 /\ t[Len(s) + 1] = x /\ Len(s) \in Nat
      /\ \A i \in 1..Len(s) : t[i] = s[i]
  OBVIOUS
<1> HIDE DEF t
<1>2. PICK F : /\ F[0] = <<>>
               /\ \A i \in 1..Len(s) :
                    F[i] = IF s[i] \in S THEN Append(F[i - 1], s[i]) ELSE F[i - 1]
               /\ Select(s, S) = F[Len(s)]
  BY SelectSteps
<1>3. PICK G : /\ G[0] = <<>>
               /\ \A i \in 1..Len(t) :
                    G[i] = IF t[i] \in S THEN Append(G[i - 1], t[i]) ELSE G[i - 1]
               /\ Select(t, S) = G[Len(t)]
  BY <1>1, SelectSteps
<1> DEFINE T == {i \in Nat : i <= Len(s) => F[i] = G[i]}
<1>4. 0 \in T BY <1>2, <1>3
<1>5. ASSUME NEW i \in Nat, i \in T PROVE i + 1 \in T
  <2> SUFFICES ASSUME i + 1 <= Len(s) PROVE F[i + 1] = G[i + 1] OBVIOUS
  <2>1. i + 1 \in 1..Len(s) /\ i + 1 \in 1..Len(t) /\ (i + 1) - 1 = i BY <1>1
  <2>2. F[i] = G[i] BY <1>5, <1>1
  <2>3. F[i + 1] = IF s[i + 1] \in S THEN Append(F[i], s[i + 1]) ELSE F[i] BY <2>1, <1>2
  <2>4. G[i + 1] = IF t[i + 1] \in S THEN Append(G[i], t[i + 1]) ELSE G[i] BY <2>1, <1>3
  <2> QED BY <1>1, <2>1, <2>2, <2>3, <2>4
<1>6. Len(s) \in T
  <2> HIDE DEF T
  <2> QED BY <1>1, <1>4, <1>5, Inductive
<1>7. G[Len(t)] = IF x \in S THEN Append(G[Len(s)], x) ELSE G[Len(s)]
  <2>1. Len(t) \in 1..Len(t) /\ Len(t) - 1 = Len(s) BY <1>1
  <2> QED BY <1>1, <1>3, <2>1
<1> QED BY <1>1, <1>2, <1>3, <1>6, <1>7 DEF t

\* A sequence that is not empty ends with an element.
LEMMA LastSplit ==
  ASSUME NEW D, NEW s \in Seq(D), NEW n \in Nat, Len(s) = n + 1
  PROVE  \E r \in Seq(D), x \in D : s = Append(r, x) /\ Len(r) = n
<1> DEFINE r == SubSeq(s, 1, n)
<1>1. r \in Seq(D) /\ s[n + 1] \in D /\ Len(r) = n OBVIOUS
<1>2. s = Append(r, s[n + 1]) OBVIOUS
<1> QED BY <1>1, <1>2

\* What a selection is: of the elements, those in the set, each as often as before.
SelectionOf(D, S, s, u) ==
  /\ u \in Seq(D)
  /\ Len(u) <= Len(s)
  /\ \A j \in 1..Len(u) : u[j] \in S /\ \E i \in 1..Len(s) : s[i] = u[j]
  /\ \A i \in 1..Len(s) : s[i] \in S => \E j \in 1..Len(u) : u[j] = s[i]
  /\ (\A i, j \in 1..Len(s) : s[i] = s[j] => i = j) =>
       \A i, j \in 1..Len(u) : u[i] = u[j] => i = j

\* Select makes such a selection.
LEMMA SelectFacts ==
  ASSUME NEW D, NEW S
  PROVE  \A s \in Seq(D) : SelectionOf(D, S, s, Select(s, S))
<1> DEFINE T == {n \in Nat : \A s \in Seq(D) : Len(s) = n => SelectionOf(D, S, s, Select(s, S))}
<1>1. 0 \in T
  <2>1. ASSUME NEW s \in Seq(D), Len(s) = 0 PROVE SelectionOf(D, S, s, Select(s, S))
    <3>1. s = <<>> BY <2>1
    <3>2. SelectionOf(D, S, <<>>, <<>>) BY DEF SelectionOf
    <3> QED BY <3>1, <3>2, SelectNone
  <2> QED BY <2>1
<1>2. ASSUME NEW n \in Nat, n \in T PROVE n + 1 \in T
  <2>1. ASSUME NEW s \in Seq(D), Len(s) = n + 1 PROVE SelectionOf(D, S, s, Select(s, S))
    <3>1. PICK r \in Seq(D), x \in D : s = Append(r, x) /\ Len(r) = n BY <2>1, LastSplit
    <3> DEFINE v == Select(r, S) u == Select(s, S)
    <3>2. SelectionOf(D, S, r, v) BY <1>2, <3>1
    <3>3. u = IF x \in S THEN Append(v, x) ELSE v BY <3>1, SelectMore
    <3>4. /\ \A i \in 1..n : s[i] = r[i]
          /\ s[n + 1] = x
      BY <3>1
    <3> HIDE DEF u, v
    <3>2a. /\ v \in Seq(D)
           /\ Len(v) <= Len(r)
           /\ \A j \in 1..Len(v) : v[j] \in S /\ \E i \in 1..Len(r) : r[i] = v[j]
           /\ \A i \in 1..Len(r) : r[i] \in S => \E j \in 1..Len(v) : v[j] = r[i]
           /\ (\A i, j \in 1..Len(r) : r[i] = r[j] => i = j) =>
                \A i, j \in 1..Len(v) : v[i] = v[j] => i = j
      BY <3>2 DEF SelectionOf
    <3> SUFFICES SelectionOf(D, S, s, u) BY DEF u
    <3>5. CASE x \in S
      <4>1. /\ u \in Seq(D) /\ Len(u) = Len(v) + 1 /\ Len(v) \in Nat
            /\ \A j \in 1..Len(v) : u[j] = v[j]
            /\ u[Len(v) + 1] = x
        BY <3>2a, <3>3, <3>5
      <4>2. \A j \in 1..Len(u) : u[j] \in S /\ \E i \in 1..Len(s) : s[i] = u[j]
        BY <2>1, <3>1, <3>2a, <3>4, <3>5, <4>1
      <4>3. \A i \in 1..Len(s) : s[i] \in S => \E j \in 1..Len(u) : u[j] = s[i]
        <5> SUFFICES ASSUME NEW i \in 1..Len(s), s[i] \in S PROVE \E j \in 1..Len(u) : u[j] = s[i]
          OBVIOUS
        <5>1. CASE i = n + 1 BY <5>1, <4>1, <3>4
        <5>2. CASE i \in 1..n
          <6>1. PICK j \in 1..Len(v) : v[j] = r[i] BY <5>2, <3>1, <3>2a, <3>4
          <6>2. j \in 1..Len(u) /\ u[j] = s[i] BY <6>1, <5>2, <3>4, <4>1
          <6> QED BY <6>2
        <5> QED BY <5>1, <5>2, <2>1
      <4>4. ASSUME \A i, j \in 1..Len(s) : s[i] = s[j] => i = j
            PROVE  \A i, j \in 1..Len(u) : u[i] = u[j] => i = j
        <5>1. \A i, j \in 1..n : r[i] = r[j] => i = j BY <4>4, <2>1, <3>4
        <5>2. \A i, j \in 1..Len(v) : v[i] = v[j] => i = j BY <5>1, <3>1, <3>2a
        <5>3. \A j \in 1..Len(v) : v[j] # x
          BY <4>4, <2>1, <3>1, <3>2a, <3>4
        <5> QED BY <5>2, <5>3, <4>1
      <4>5. Len(u) <= Len(s) BY <2>1, <3>1, <3>2a, <4>1
      <4> QED BY <4>1, <4>2, <4>3, <4>4, <4>5 DEF SelectionOf
    <3>6. CASE x \notin S
      <4>1. u = v BY <3>3, <3>6
      <4>2. \A j \in 1..Len(v) : v[j] \in S /\ \E i \in 1..Len(s) : s[i] = v[j]
        BY <2>1, <3>1, <3>2a, <3>4
      <4>3. \A i \in 1..Len(s) : s[i] \in S => \E j \in 1..Len(v) : v[j] = s[i]
        <5> SUFFICES ASSUME NEW i \in 1..Len(s), s[i] \in S PROVE \E j \in 1..Len(v) : v[j] = s[i]
          OBVIOUS
        <5>1. i \in 1..n /\ r[i] = s[i] BY <2>1, <3>1, <3>4, <3>6
        <5> QED BY <5>1, <3>1, <3>2a
      <4>4. ASSUME \A i, j \in 1..Len(s) : s[i] = s[j] => i = j
            PROVE  \A i, j \in 1..Len(v) : v[i] = v[j] => i = j
        <5>1. \A i, j \in 1..n : r[i] = r[j] => i = j BY <4>4, <2>1, <3>4
        <5> QED BY <5>1, <3>1, <3>2a
      <4>5. Len(v) <= Len(s) BY <2>1, <3>1, <3>2a
      <4> QED BY <3>2a, <4>1, <4>2, <4>3, <4>4, <4>5 DEF SelectionOf
    <3> QED BY <3>5, <3>6
  <2> QED BY <2>1
<1>3. \A n \in Nat : n \in T
  <2> HIDE DEF T
  <2> QED BY <1>1, <1>2, Inductive
<1>4. \A s \in Seq(D) : SelectionOf(D, S, s, Select(s, S))
  <2> SUFFICES ASSUME NEW s \in Seq(D) PROVE SelectionOf(D, S, s, Select(s, S)) OBVIOUS
  <2>1. Len(s) \in T BY <1>3
  <2> QED BY <2>1
<1> QED BY <1>4

\* The selection from a concatenation is put together from the parts.
LEMMA SelectConcat ==
  ASSUME NEW D, NEW S, NEW s \in Seq(D)
  PROVE  \A t \in Seq(D) : Select(s \o t, S) = Select(s, S) \o Select(t, S)
<1> DEFINE T == {n \in Nat : \A t \in Seq(D) :
                   Len(t) = n => Select(s \o t, S) = Select(s, S) \o Select(t, S)}
<1>0. \A t \in Seq(D) : Select(t, S) \in Seq(D) BY SelectFacts DEF SelectionOf
<1>1. 0 \in T
  <2>1. ASSUME NEW t \in Seq(D), Len(t) = 0 PROVE Select(s \o t, S) = Select(s, S) \o Select(t, S)
    <3>1. t = <<>> /\ s \o t = s BY <2>1
    <3>2. Select(t, S) = <<>> BY <3>1, SelectNone
    <3> QED BY <1>0, <3>1, <3>2
  <2> QED BY <2>1
<1>2. ASSUME NEW n \in Nat, n \in T PROVE n + 1 \in T
  <2>1. ASSUME NEW t \in Seq(D), Len(t) = n + 1
        PROVE  Select(s \o t, S) = Select(s, S) \o Select(t, S)
    <3>1. PICK r \in Seq(D), x \in D : t = Append(r, x) /\ Len(r) = n BY <2>1, LastSplit
    <3> DEFINE w == s \o r
    <3>2. s \o t = Append(w, x) /\ w \in Seq(D) BY <3>1
    <3>3. Select(w, S) = Select(s, S) \o Select(r, S) BY <1>2, <3>1
    <3> HIDE DEF w
    <3>4. Select(s \o t, S) = IF x \in S THEN Append(Select(w, S), x) ELSE Select(w, S)
      BY <3>2, SelectMore
    <3>5. Select(t, S) = IF x \in S THEN Append(Select(r, S), x) ELSE Select(r, S)
      BY <3>1, SelectMore
    <3>6. Select(s, S) \in Seq(D) /\ Select(r, S) \in Seq(D) BY <1>0
    <3>7. x \in D BY <3>1
    <3>8. CASE x \in S
      <4>1. <<x>> \in Seq(D) BY <3>7
      <4>2. (Select(s, S) \o Select(r, S)) \o <<x>> = Select(s, S) \o (Select(r, S) \o <<x>>)
        BY <3>6, <4>1, ConcatAssociative, SMT
      <4>3. Select(t, S) = Select(r, S) \o <<x>> BY <3>5, <3>6, <3>7, <3>8
      <4>4. Select(w, S) \in Seq(D) BY <1>0, <3>2
      <4>5. Select(s \o t, S) = Select(w, S) \o <<x>> BY <3>4, <3>7, <3>8, <4>4
      <4> QED BY <3>3, <4>2, <4>3, <4>5
    <3>9. CASE x \notin S BY <3>3, <3>4, <3>5, <3>9
    <3> QED BY <3>8, <3>9
  <2> QED BY <2>1
<1>3. \A n \in Nat : n \in T
  <2> HIDE DEF T
  <2> QED BY <1>1, <1>2, Inductive
<1>4. ASSUME NEW t \in Seq(D) PROVE Len(t) \in T BY <1>3
<1> QED BY <1>4

\* What is selected and what is left make up the sequence.
LEMMA SelectSplit ==
  ASSUME NEW D, NEW S
  PROVE  \A s \in Seq(D) : Len(Select(s, S)) + Len(Select(s, D \ S)) = Len(s)
<1> DEFINE T == {n \in Nat : \A s \in Seq(D) :
                   Len(s) = n => Len(Select(s, S)) + Len(Select(s, D \ S)) = n}
<1>0. \A t \in Seq(D) : /\ Select(t, S) \in Seq(D) /\ Len(Select(t, S)) \in Nat
                        /\ Select(t, D \ S) \in Seq(D) /\ Len(Select(t, D \ S)) \in Nat
  BY SelectFacts DEF SelectionOf
<1>1. 0 \in T
  <2>1. ASSUME NEW s \in Seq(D), Len(s) = 0
        PROVE  Len(Select(s, S)) + Len(Select(s, D \ S)) = 0
    <3>1. s = <<>> BY <2>1
    <3> QED BY <3>1, SelectNone
  <2> QED BY <2>1
<1>2. ASSUME NEW n \in Nat, n \in T PROVE n + 1 \in T
  <2>1. ASSUME NEW s \in Seq(D), Len(s) = n + 1
        PROVE  Len(Select(s, S)) + Len(Select(s, D \ S)) = n + 1
    <3>1. PICK r \in Seq(D), x \in D : s = Append(r, x) /\ Len(r) = n BY <2>1, LastSplit
    <3>2. Select(s, S) = IF x \in S THEN Append(Select(r, S), x) ELSE Select(r, S)
      BY <3>1, SelectMore
    <3>3. Select(s, D \ S) = IF x \in D \ S THEN Append(Select(r, D \ S), x) ELSE Select(r, D \ S)
      BY <3>1, SelectMore
    <3>4. Len(Select(r, S)) + Len(Select(r, D \ S)) = n BY <1>2, <3>1
    <3> QED BY <1>0, <3>1, <3>2, <3>3, <3>4
  <2>2. n + 1 \in Nat OBVIOUS
  <2> QED BY <2>1, <2>2, Zenon
<1>3. \A n \in Nat : n \in T
  <2> HIDE DEF T
  <2> QED BY <1>1, <1>2, Inductive
<1>4. ASSUME NEW s \in Seq(D) PROVE Len(Select(s, S)) + Len(Select(s, D \ S)) = Len(s)
  <2>1. Len(s) \in Nat OBVIOUS
  <2>2. Len(s) \in T
    <3> HIDE DEF T
    <3> QED BY <1>3, <2>1
  <2> QED BY <2>2
<1> QED BY <1>4

\* A filter that lets everything through.
LEMMA SelectAll == ASSUME NEW D PROVE \A s \in Seq(D) : Select(s, D) = s
<1> DEFINE T == {n \in Nat : \A s \in Seq(D) : Len(s) = n => Select(s, D) = s}
<1>1. 0 \in T
  <2>1. ASSUME NEW s \in Seq(D), Len(s) = 0 PROVE Select(s, D) = s
    <3>1. s = <<>> BY <2>1
    <3> QED BY <3>1, SelectNone
  <2> QED BY <2>1
<1>2. ASSUME NEW n \in Nat, n \in T PROVE n + 1 \in T
  <2>1. ASSUME NEW s \in Seq(D), Len(s) = n + 1 PROVE Select(s, D) = s
    <3>1. PICK r \in Seq(D), x \in D : s = Append(r, x) /\ Len(r) = n BY <2>1, LastSplit
    <3>2. Select(s, D) = Append(Select(r, D), x) BY <3>1, SelectMore
    <3>3. Select(r, D) = r BY <1>2, <3>1
    <3> QED BY <3>1, <3>2, <3>3
  <2> QED BY <2>1
<1>3. \A n \in Nat : n \in T
  <2> HIDE DEF T
  <2> QED BY <1>1, <1>2, Inductive
<1>4. ASSUME NEW s \in Seq(D) PROVE Select(s, D) = s
  <2>1. Len(s) \in T BY <1>3
  <2> QED BY <2>1
<1> QED BY <1>4

-----------------------------------------------------------------------------
(* Finite sets.                                                            *)

\* A set with one element less has one less at most.
LEMMA OneLess ==
  ASSUME NEW S, IsFiniteSet(S), NEW T, IsFiniteSet(T), NEW y, S \subseteq T \cup {y}
  PROVE  /\ Cardinality(S) \in Nat /\ Cardinality(T) \in Nat
         /\ Cardinality(S) <= Cardinality(T) + 1
<1>1. IsFiniteSet(T \cup {y}) /\ Cardinality(T \cup {y}) \in {Cardinality(T), Cardinality(T) + 1}
  <2>1. CASE y \in T
    <3>1. T \cup {y} = T BY <2>1
    <3> QED BY <3>1
  <2>2. CASE y \notin T BY <2>2, FS_AddElement
  <2> QED BY <2>1, <2>2
<1>2. Cardinality(S) <= Cardinality(T \cup {y}) BY <1>1, FS_Subset
<1>3. Cardinality(S) \in Nat /\ Cardinality(T) \in Nat BY FS_CardinalityType
<1> QED BY <1>1, <1>2, <1>3

\* What occurs in a sequence.
LEMMA RangeFinite ==
  ASSUME NEW D, NEW s \in Seq(D)
  PROVE  IsFiniteSet(Range(s)) /\ Range(s) = {s[i] : i \in 1..Len(s)} /\ Range(s) \subseteq D
<1>1. Range(s) = {s[i] : i \in 1..Len(s)} BY RangeEquality
<1>2. IsFiniteSet({s[i] : i \in 1..Len(s)}) BY ElementsFacts
<1>3. \A i \in 1..Len(s) : s[i] \in D BY ElementOfSeq
<1> QED BY <1>1, <1>2, <1>3

-----------------------------------------------------------------------------
(* FlattenSeq of the community modules.                                    *)

\* The function by which FlattenSeq is defined, up to the k-th sequence.
FlattenSteps(F, s, k) == F = [i \in 1..k |-> IF i = 1 THEN s[i] ELSE F[i - 1] \o s[i]]

LEMMA FlattenStepsExist ==
  ASSUME NEW s
  PROVE  \A k \in Nat : \E F : FlattenSteps(F, s, k)
<1> DEFINE T == {k \in Nat : \E F : FlattenSteps(F, s, k)}
<1>1. 0 \in T
  <2>1. FlattenSteps([i \in 1..0 |-> <<>>], s, 0) BY DEF FlattenSteps
  <2> QED BY <2>1
<1>2. ASSUME NEW k \in Nat, k \in T PROVE k + 1 \in T
  <2>1. PICK F : FlattenSteps(F, s, k) BY <1>2
  <2> DEFINE H(G, i) == IF i = 1 THEN s[i] ELSE G[i - 1] \o s[i]
             G == [i \in 1..(k + 1) |-> IF i = k + 1 THEN H(F, i) ELSE F[i]]
  <2>2. ASSUME NEW i \in 1..k PROVE F[i] = H(F, i)
    <3> HIDE DEF G
    <3> QED BY <2>1, Zenon DEF FlattenSteps
  <2>3. ASSUME NEW i \in 1..k PROVE G[i] = F[i] OBVIOUS
  <2>4. G[k + 1] = H(F, k + 1) OBVIOUS
  <2>5. G = [i \in 1..(k + 1) |-> G[i]] OBVIOUS
  <2> HIDE DEF G
  <2>6. ASSUME NEW i \in 1..(k + 1) PROVE G[i] = H(G, i)
    <3>1. i = 1 \/ i - 1 \in 1..k OBVIOUS
    <3>2. i = 1 \/ G[i - 1] = F[i - 1] BY <2>3, <3>1
    <3>3. H(G, i) = H(F, i) BY <3>2
    <3> HIDE DEF H
    <3>4. i \in 1..k \/ i = k + 1 OBVIOUS
    <3> QED BY <2>2, <2>3, <2>4, <3>3, <3>4
  <2>7. FlattenSteps(G, s, k + 1) BY <2>5, <2>6, Zenon DEF FlattenSteps
  <2> QED BY <2>7
<1>3. \A k \in Nat : k \in T
  <2> HIDE DEF T
  <2> QED BY <1>1, <1>2, Inductive
<1> QED BY <1>3

\* FlattenSeq, unfolded along the sequences.
LEMMA FlattenFacts ==
  ASSUME NEW s, NEW n \in Nat \ {0}, Len(s) = n
  PROVE  \E F : /\ F[1] = s[1]
                /\ \A i \in 1..(n - 1) : F[i + 1] = F[i] \o s[i + 1]
                /\ FlattenSeq(s) = F[n]
<1> DEFINE F == CHOOSE F : FlattenSteps(F, s, n)
<1>1. FlattenSteps(F, s, n)
  <2>1. \E G : FlattenSteps(G, s, n) BY FlattenStepsExist
  <2> QED BY <2>1
<1>2. FlattenSeq(s) = F[n] BY DEF FlattenSeq, FlattenSteps
<1> HIDE DEF F
<1>3. \A i \in 1..n : F[i] = IF i = 1 THEN s[i] ELSE F[i - 1] \o s[i]
  BY <1>1, Zenon DEF FlattenSteps
<1>4. ASSUME NEW i \in 1..(n - 1) PROVE F[i + 1] = F[i] \o s[i + 1]
  <2>1. i + 1 \in 1..n /\ i + 1 # 1 /\ (i + 1) - 1 = i OBVIOUS
  <2> QED BY <1>3, <2>1
<1>5. F[1] = s[1] BY <1>3
<1> QED BY <1>2, <1>4, <1>5
=============================================================================
