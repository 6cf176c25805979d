-------------------------- MODULE SelectionsProofs --------------------------
(***************************************************************************)
(* What holds of the selection of a sequence.  The prover cannot use the   *)
(* induction theorems of its library, which are about a predicate; but a   *)
(* least element of a set of numbers is enough to argue by induction.      *)
(***************************************************************************)
EXTENDS Selections, WellFoundedInduction, SequenceTheorems, TLAPS

(* A set of natural numbers has a least element.                           *)
LEMMA LeastElement ==
  ASSUME NEW T \in SUBSET Nat, T # {}
  PROVE  \E x \in T : \A y \in T : x <= y
<1> DEFINE R == OpToRel(<, Nat)
<1>1. IsWellFoundedOn(R, Nat)
  BY NatLessThanWellFounded
<1>2. \A x, y \in Nat : y < x => <<y, x>> \in R
  BY DEF OpToRel
<1> HIDE DEF R
<1>3. PICK x \in T : \A y \in T : <<y, x>> \notin R
  BY <1>1, WFMin
<1>4. \A y \in T : ~ (y < x)
  BY <1>2, <1>3
<1>5. \A y \in T : x <= y
  BY <1>4
<1> QED
  BY <1>5

(* Induction: a set of which 0 is an element and with a number the next    *)
(* one has all natural numbers.                                            *)
LEMMA AllNumbers ==
  ASSUME NEW T, 0 \in T, \A n \in Nat : n \in T => n + 1 \in T
  PROVE  \A n \in Nat : n \in T
<1> DEFINE U == {n \in Nat : n \notin T}
<1> SUFFICES ASSUME U # {} PROVE FALSE
  OBVIOUS
<1>1. PICK n \in U : \A m \in U : n <= m
  BY LeastElement
<1>2. n # 0 /\ n - 1 \in Nat
  BY <1>1
<1>3. n - 1 \in T
  BY <1>1, <1>2
<1>4. (n - 1) + 1 \in T
  BY <1>2, <1>3
<1> QED
  BY <1>1, <1>4

(* f follows the steps F from v.                                           *)
Follows(f, v, n, F) == f[0] = v /\ \A i \in 1 .. n : f[i] = F[<<f[i - 1], i>>]

(* A function may be defined step by step.                                 *)
LEMMA StepByStep ==
  ASSUME NEW V, NEW v \in V, NEW n \in Nat, NEW F \in [V \X (1 .. n) -> V]
  PROVE  \E f \in [0 .. n -> V] : Follows(f, v, n, F)
<1> DEFINE Steps(f, k) == f[0] = v /\ \A i \in 1 .. k : f[i] = F[<<f[i - 1], i>>]
           T == {k \in Nat : k <= n => \E f \in [0 .. k -> V] : Steps(f, k)}
<1>1. 0 \in T
  <2>1. [i \in 0 .. 0 |-> v] \in [0 .. 0 -> V] /\ Steps([i \in 0 .. 0 |-> v], 0)
    OBVIOUS
  <2> QED
    BY <2>1
<1>2. ASSUME NEW k \in Nat, k \in T PROVE k + 1 \in T
  <2> SUFFICES ASSUME k + 1 <= n PROVE \E f \in [0 .. k + 1 -> V] : Steps(f, k + 1)
    OBVIOUS
  <2>1. PICK f \in [0 .. k -> V] : Steps(f, k)
    BY <1>2
  <2> DEFINE g == [i \in 0 .. k + 1 |-> IF i = k + 1 THEN F[<<f[k], k + 1>>] ELSE f[i]]
  <2>2. f[k] \in V /\ k + 1 \in 1 .. n
    OBVIOUS
  <2>3. F[<<f[k], k + 1>>] \in V
    BY <2>2
  <2>4. g \in [0 .. k + 1 -> V]
    BY <2>3
  <2>5. \A i \in 0 .. k : g[i] = f[i]
    OBVIOUS
  <2>6. g[k + 1] = F[<<f[k], k + 1>>] /\ g[k] = f[k]
    BY <2>5
  <2>7. ASSUME NEW i \in 1 .. k + 1 PROVE g[i] = F[<<g[i - 1], i>>]
    <3>1. CASE i = k + 1
      <4>1. i - 1 = k
        BY <3>1
      <4> HIDE DEF g
      <4> QED
        BY <2>6, <3>1, <4>1
    <3>2. CASE i # k + 1
      <4>1. i \in 1 .. k /\ i \in 0 .. k /\ i - 1 \in 0 .. k
        BY <3>2
      <4> QED
        BY <2>1, <2>5, <4>1
    <3> QED
      BY <3>1, <3>2
  <2>8. g[0] = v
    BY <2>1, <2>5
  <2> HIDE DEF g
  <2>9. Steps(g, k + 1)
    BY <2>7, <2>8
  <2> QED
    BY <2>4, <2>9
<1> HIDE DEF T
<1>3. n \in T
  BY <1>1, <1>2, AllNumbers
<1> QED
  BY <1>3 DEF T, Follows

(* How a selection is made: element by element.                            *)
Makes(f, s, S) ==
  /\ f[0] = <<>>
  /\ \A i \in 1 .. Len(s) :
       f[i] = IF s[i] \in S THEN Append(f[i - 1], s[i]) ELSE f[i - 1]

LEMMA SelectedMakes ==
  ASSUME NEW E, NEW s \in Seq(E), NEW S
  PROVE  \E f \in [0 .. Len(s) -> Seq(E)] : Makes(f, s, S) /\ Selected(s, S) = f[Len(s)]
<1> DEFINE n == Len(s)
           V == Seq(E)
           none == <<>>
           Next(p) == IF s[p[2]] \in S THEN Append(p[1], s[p[2]]) ELSE p[1]
           F == [p \in V \X (1 .. n) |-> Next(p)]
           Recursive(g) ==
             g = [i \in 0 .. n |->
                    IF i = 0 THEN <<>>
                    ELSE IF s[i] \in S THEN Append(g[i - 1], s[i]) ELSE g[i - 1]]
           h == CHOOSE g : Recursive(g)
<1>1. n \in Nat /\ \A i \in 1 .. n : s[i] \in E
  OBVIOUS
<1>2. <<>> \in V
  OBVIOUS
<1>3. F \in [V \X (1 .. n) -> V]
  <2>1. ASSUME NEW p \in V \X (1 .. n) PROVE Next(p) \in V
    <3>1. p[1] \in V /\ s[p[2]] \in E
      BY <1>1
    <3> QED
      BY <3>1
  <2> HIDE DEF Next
  <2> QED
    BY <2>1
<1>4. PICK f \in [0 .. n -> V] :
        f[0] = <<>> /\ \A i \in 1 .. n : f[i] = F[<<f[i - 1], i>>]
  <2>1. none \in V /\ n \in Nat
    BY <1>1, <1>2
  <2> HIDE DEF F, n, V, none
  <2>2. \E f \in [0 .. n -> V] : Follows(f, none, n, F)
    BY <2>1, <1>3, StepByStep
  <2> QED
    BY <2>2 DEF Follows, none
<1>5. \A i \in 1 .. n : f[i] = IF s[i] \in S THEN Append(f[i - 1], s[i]) ELSE f[i - 1]
  <2> SUFFICES ASSUME NEW i \in 1 .. n
               PROVE  f[i] = IF s[i] \in S THEN Append(f[i - 1], s[i]) ELSE f[i - 1]
    OBVIOUS
  <2> HIDE DEF n, V
  <2>1. i - 1 \in 0 .. n /\ f[i - 1] \in V
    BY <1>1
  <2>2. f[i] = F[<<f[i - 1], i>>]
    BY <1>4
  <2>3. <<f[i - 1], i>> \in V \X (1 .. n)
    BY <2>1
  <2> QED
    BY <2>2, <2>3
<1>6. Recursive(f)
  <2> HIDE DEF n, V
  <2>1. \A i \in 0 .. n :
          f[i] = IF i = 0 THEN <<>>
                 ELSE IF s[i] \in S THEN Append(f[i - 1], s[i]) ELSE f[i - 1]
    <3> SUFFICES ASSUME NEW i \in 0 .. n
                 PROVE  f[i] = IF i = 0 THEN <<>>
                               ELSE IF s[i] \in S THEN Append(f[i - 1], s[i]) ELSE f[i - 1]
      OBVIOUS
    <3>1. CASE i = 0
      BY <1>4, <3>1
    <3>2. CASE i # 0
      <4>1. i \in 1 .. n
        BY <1>1, <3>2
      <4> QED
        BY <1>5, <3>2, <4>1
    <3> QED
      BY <3>1, <3>2
  <2> QED
    BY <2>1
<1>7. Recursive(h)
  <2> HIDE DEF Recursive
  <2> QED
    BY <1>6
<1>8. Selected(s, S) = h[n]
  BY DEF Selected
<1> HIDE DEF h
<1>9. h = f
  <2>1. h = [i \in 0 .. n |-> IF i = 0 THEN <<>>
             ELSE IF s[i] \in S THEN Append(h[i - 1], s[i]) ELSE h[i - 1]]
    BY <1>7
  <2> DEFINE T == {k \in Nat : k <= n => h[k] = f[k]}
  <2>2. 0 \in T
    BY <1>1, <1>4, <2>1
  <2>3. ASSUME NEW k \in Nat, k \in T PROVE k + 1 \in T
    <3> SUFFICES ASSUME k + 1 <= n PROVE h[k + 1] = f[k + 1]
      OBVIOUS
    <3> HIDE DEF n, V
    <3>1. h[k] = f[k] /\ k + 1 \in 1 .. n /\ k + 1 \in 0 .. n /\ (k + 1) - 1 = k
      BY <1>1, <2>3
    <3> DEFINE j == k + 1
    <3>2. j \in 0 .. n /\ j # 0 /\ j - 1 = k
      BY <3>1
    <3> HIDE DEF j
    <3>3. h[j] = IF s[j] \in S THEN Append(h[j - 1], s[j]) ELSE h[j - 1]
      BY <2>1, <3>2
    <3>4. f[j] = IF s[j] \in S THEN Append(f[j - 1], s[j]) ELSE f[j - 1]
      BY <1>5, <3>1 DEF j
    <3> QED
      BY <3>1, <3>2, <3>3, <3>4 DEF j
  <2> HIDE DEF T
  <2>4. \A k \in Nat : k \in T
    BY <2>2, <2>3, AllNumbers
  <2>5. \A k \in 0 .. n : h[k] = f[k]
    BY <1>1, <2>4 DEF T
  <2>6. DOMAIN h = 0 .. n /\ h = [k \in 0 .. n |-> h[k]]
    BY <2>1
  <2> QED
    BY <2>5, <2>6
<1>10. Makes(f, s, S)
  BY <1>4, <1>5 DEF Makes
<1> QED
  BY <1>8, <1>9, <1>10

(* There is one way to make it.                                            *)
LEMMA SelectedIs ==
  ASSUME NEW E, NEW s \in Seq(E), NEW S, NEW g, Makes(g, s, S)
  PROVE  Selected(s, S) = g[Len(s)]
<1> DEFINE n == Len(s)
<1>1. PICK f \in [0 .. n -> Seq(E)] : Makes(f, s, S) /\ Selected(s, S) = f[n]
  BY SelectedMakes
<1>2. n \in Nat
  OBVIOUS
<1> DEFINE T == {k \in Nat : k <= n => f[k] = g[k]}
<1>3. 0 \in T
  BY <1>1 DEF Makes
<1>4. ASSUME NEW k \in Nat, k \in T PROVE k + 1 \in T
  <2> SUFFICES ASSUME k + 1 <= n PROVE f[k + 1] = g[k + 1]
    OBVIOUS
  <2> DEFINE j == k + 1
  <2>1. j \in 1 .. n /\ j - 1 = k /\ f[k] = g[k]
    BY <1>2, <1>4
  <2> HIDE DEF j
  <2>2. /\ f[j] = IF s[j] \in S THEN Append(f[j - 1], s[j]) ELSE f[j - 1]
        /\ g[j] = IF s[j] \in S THEN Append(g[j - 1], s[j]) ELSE g[j - 1]
    BY <1>1, <2>1 DEF Makes
  <2> QED
    BY <2>1, <2>2 DEF j
<1> HIDE DEF T
<1>5. n \in T
  BY <1>2, <1>3, <1>4, AllNumbers
<1> QED
  BY <1>1, <1>5 DEF T

(* The type of a selection.                                                *)
LEMMA SelectedType ==
  ASSUME NEW E, NEW s \in Seq(E), NEW S
  PROVE  Selected(s, S) \in Seq(E)
<1> DEFINE V == Seq(E)
<1>1. PICK f \in [0 .. Len(s) -> V] : Selected(s, S) = f[Len(s)]
  BY SelectedMakes
<1>2. Len(s) \in 0 .. Len(s)
  OBVIOUS
<1> HIDE DEF V
<1>3. Selected(s, S) \in V
  BY <1>1, <1>2
<1> QED
  BY <1>3 DEF V

(* None of the elements is in the set.                                     *)
LEMMA SelectedNone ==
  ASSUME NEW E, NEW s \in Seq(E), NEW S, \A i \in 1 .. Len(s) : s[i] \notin S
  PROVE  Selected(s, S) = <<>>
<1> DEFINE g == [i \in 0 .. Len(s) |-> <<>>]
<1>1. Makes(g, s, S)
  <2>1. Len(s) \in Nat
    OBVIOUS
  <2>2. g[0] = <<>> /\ \A i \in 1 .. Len(s) : g[i] = <<>> /\ g[i - 1] = <<>>
    BY <2>1
  <2> HIDE DEF g
  <2> QED
    BY <2>2 DEF Makes
<1>2. g[Len(s)] = <<>>
  OBVIOUS
<1> HIDE DEF g
<1> QED
  BY <1>1, <1>2, SelectedIs

(* One more element.                                                       *)
LEMMA SelectedAppend ==
  ASSUME NEW E, NEW s \in Seq(E), NEW x \in E, NEW S
  PROVE  Selected(Append(s, x), S) =
           IF x \in S THEN Append(Selected(s, S), x) ELSE Selected(s, S)
<1> DEFINE n == Len(s)
           t == Append(s, x)
           last == IF x \in S THEN Append(Selected(s, S), x) ELSE Selected(s, S)
<1>1. PICK f : Makes(f, s, S) /\ Selected(s, S) = f[n]
  BY SelectedMakes
<1>2. n \in Nat /\ t \in Seq(E) /\ Len(t) = n + 1 /\ t[n + 1] = x
      /\ \A i \in 1 .. n : t[i] = s[i]
  OBVIOUS
<1> DEFINE g == [i \in 0 .. n + 1 |-> IF i = n + 1 THEN last ELSE f[i]]
<1> HIDE DEF n, t, last
<1>3. g[n + 1] = last /\ \A i \in 0 .. n : g[i] = f[i]
  BY <1>2
<1> HIDE DEF g
<1>4. g[0] = <<>>
  BY <1>1, <1>2, <1>3 DEF Makes
<1>5. ASSUME NEW i \in 1 .. n + 1
      PROVE  g[i] = IF t[i] \in S THEN Append(g[i - 1], t[i]) ELSE g[i - 1]
  <2>1. CASE i = n + 1
    <3>1. i - 1 = n /\ n \in 0 .. n
      BY <1>2, <2>1
    <3> QED
      BY <1>1, <1>2, <1>3, <2>1, <3>1 DEF last
  <2>2. CASE i # n + 1
    <3>1. i \in 1 .. n /\ i \in 0 .. n /\ i - 1 \in 0 .. n
      BY <1>2, <2>2
    <3>2. f[i] = IF s[i] \in S THEN Append(f[i - 1], s[i]) ELSE f[i - 1]
      BY <1>1, <3>1 DEF Makes, n
    <3> QED
      BY <1>2, <1>3, <3>1, <3>2
  <2> QED
    BY <2>1, <2>2
<1>6. Makes(g, t, S)
  BY <1>2, <1>4, <1>5 DEF Makes
<1>7. Selected(t, S) = g[n + 1]
  BY <1>2, <1>6, SelectedIs
<1> QED
  BY <1>3, <1>7 DEF t, last

(* It depends only on which elements of the sequence are in the set.       *)
LEMMA SelectedSame ==
  ASSUME NEW E, NEW s \in Seq(E), NEW S, NEW U,
         \A i \in 1 .. Len(s) : s[i] \in S <=> s[i] \in U
  PROVE  Selected(s, S) = Selected(s, U)
<1>1. PICK f : Makes(f, s, S) /\ Selected(s, S) = f[Len(s)]
  BY SelectedMakes
<1>2. Makes(f, s, U)
  BY <1>1 DEF Makes
<1> QED
  BY <1>1, <1>2, SelectedIs

-----------------------------------------------------------------------------
(* Induction over sequences.                                               *)

(* A set of which <<>> is an element, and with a sequence each longer one  *)
(* by an element, has all sequences.                                       *)
LEMMA AllSequences ==
  ASSUME NEW E, NEW T, <<>> \in T,
         \A s \in Seq(E), x \in E : s \in T => Append(s, x) \in T
  PROVE  \A s \in Seq(E) : s \in T
<1> DEFINE U == {n \in Nat : \A s \in Seq(E) : Len(s) = n => s \in T}
<1>1. 0 \in U
  OBVIOUS
<1>2. ASSUME NEW n \in Nat, n \in U PROVE n + 1 \in U
  <2> SUFFICES ASSUME NEW s \in Seq(E), Len(s) = n + 1 PROVE s \in T
    OBVIOUS
  <2> DEFINE t == SubSeq(s, 1, n)
  <2>1. t \in Seq(E) /\ Len(t) = n /\ s[n + 1] \in E
    BY SubSeqProperties
  <2>2. s = Append(t, s[n + 1])
    OBVIOUS
  <2>3. t \in T
    BY <1>2, <2>1
  <2> HIDE DEF t
  <2> QED
    BY <2>1, <2>2, <2>3
<1> HIDE DEF U
<1>3. \A n \in Nat : n \in U
  BY <1>1, <1>2, AllNumbers
<1> SUFFICES ASSUME NEW s \in Seq(E) PROVE s \in T
  OBVIOUS
<1>4. Len(s) \in Nat
  OBVIOUS
<1> QED
  BY <1>3, <1>4 DEF U

-----------------------------------------------------------------------------
(* Selections of concatenations, and their elements.                       *)

(* To append to a concatenation is to append to its second part.           *)
AppendsToSecond(s, t, x) == Append(s \o t, x) = s \o Append(t, x)

(* This holds of all sequences.                                            *)
LEMMA AppendToConcat ==
  ASSUME NEW E, NEW s \in Seq(E), NEW t \in Seq(E), NEW x \in E
  PROVE  AppendsToSecond(s, t, x)
BY DEF AppendsToSecond

(* The elements of a concatenation.                                        *)
LEMMA ConcatAt ==
  ASSUME NEW E, NEW s \in Seq(E), NEW t \in Seq(E)
  PROVE  /\ s \o t \in Seq(E) /\ Len(s \o t) = Len(s) + Len(t)
         /\ \A i \in 1 .. Len(s) + Len(t) :
              (s \o t)[i] = IF i <= Len(s) THEN s[i] ELSE t[i - Len(s)]
OBVIOUS

Associates(r, s, t) == (r \o s) \o t = r \o (s \o t)

(* Concatenation is associative, and has a neutral element.                *)
LEMMA ConcatLaws ==
  ASSUME NEW E, NEW r \in Seq(E), NEW s \in Seq(E), NEW t \in Seq(E)
  PROVE  /\ Associates(r, s, t) /\ r \o s \in Seq(E)
         /\ r \o <<>> = r /\ <<>> \o r = r
BY DEF Associates

(* A selection of a concatenation is the concatenation of the selections.  *)
LEMMA SelectedConcat ==
  ASSUME NEW E, NEW s \in Seq(E), NEW t \in Seq(E), NEW S
  PROVE  Selected(s \o t, S) = Selected(s, S) \o Selected(t, S)
<1> DEFINE T == {u \in Seq(E) : Selected(s \o u, S) = Selected(s, S) \o Selected(u, S)}
<1>1. <<>> \in T
  <2>1. s \o <<>> = s /\ Selected(s, S) \o <<>> = Selected(s, S)
    BY SelectedType
  <2>2. Selected(<<>>, S) = <<>>
    <3>1. <<>> \in Seq(E) /\ \A i \in 1 .. Len(<<>>) : <<>>[i] \notin S
      OBVIOUS
    <3> QED
      BY <3>1, SelectedNone
  <2>3. <<>> \in Seq(E)
    OBVIOUS
  <2> QED
    BY <2>1, <2>2, <2>3
<1>2. ASSUME NEW u \in Seq(E), NEW x \in E, u \in T PROVE Append(u, x) \in T
  <2> DEFINE su == Selected(s, S)
             uu == Selected(u, S)
  <2>1. su \in Seq(E) /\ uu \in Seq(E) /\ s \o u \in Seq(E) /\ Append(u, x) \in Seq(E)
    BY SelectedType
  <2>2. s \o Append(u, x) = Append(s \o u, x)
    OBVIOUS
  <2>3. Selected(s \o Append(u, x), S) =
          IF x \in S THEN Append(Selected(s \o u, S), x) ELSE Selected(s \o u, S)
    BY <2>1, <2>2, SelectedAppend
  <2>4. Selected(s \o u, S) = su \o uu
    BY <1>2
  <2>5. Selected(Append(u, x), S) = IF x \in S THEN Append(uu, x) ELSE uu
    BY SelectedAppend
  <2> HIDE DEF su, uu
  <2>6. Append(su \o uu, x) = su \o Append(uu, x)
    <3>1. AppendsToSecond(su, uu, x)
      BY <2>1, AppendToConcat
    <3> QED
      BY <3>1 DEF AppendsToSecond
  <2>7. Selected(s \o Append(u, x), S) = su \o Selected(Append(u, x), S)
    BY <2>3, <2>4, <2>5, <2>6
  <2> QED
    BY <2>1, <2>7 DEF su
<1> HIDE DEF T
<1>3. t \in T
  BY <1>1, <1>2, AllSequences
<1> QED
  BY <1>3 DEF T

(* It has the elements that are in the set, and no other.                  *)
LEMMA SelectedElements ==
  ASSUME NEW E, NEW s \in Seq(E), NEW S
  PROVE  \A x : (\E i \in 1 .. Len(Selected(s, S)) : Selected(s, S)[i] = x)
                  <=> x \in S /\ (\E i \in 1 .. Len(s) : s[i] = x)
<1> DEFINE Has(u, x) == \E i \in 1 .. Len(u) : u[i] = x
           T == {u \in Seq(E) : \A x : Has(Selected(u, S), x) <=> x \in S /\ Has(u, x)}
<1>0. ASSUME NEW u \in Seq(E), NEW y \in E, NEW x
      PROVE  Has(Append(u, y), x) <=> Has(u, x) \/ x = y
  <2>1. /\ Len(Append(u, y)) = Len(u) + 1 /\ Len(u) \in Nat
        /\ \A i \in 1 .. Len(u) : Append(u, y)[i] = u[i]
        /\ Append(u, y)[Len(u) + 1] = y
    OBVIOUS
  <2> QED
    BY <2>1
<1>1. <<>> \in T
  <2>1. <<>> \in Seq(E) /\ \A i \in 1 .. Len(<<>>) : <<>>[i] \notin S
    OBVIOUS
  <2>2. Selected(<<>>, S) = <<>>
    BY <2>1, SelectedNone
  <2> QED
    BY <2>2
<1>2. ASSUME NEW u \in Seq(E), NEW y \in E, u \in T PROVE Append(u, y) \in T
  <2>1. Selected(u, S) \in Seq(E) /\ Append(u, y) \in Seq(E)
    BY SelectedType
  <2>2. Selected(Append(u, y), S) =
          IF y \in S THEN Append(Selected(u, S), y) ELSE Selected(u, S)
    BY SelectedAppend
  <2>3. ASSUME NEW x
        PROVE  Has(Selected(Append(u, y), S), x) <=> x \in S /\ Has(Append(u, y), x)
    <3>1. Has(Selected(u, S), x) <=> x \in S /\ Has(u, x)
      BY <1>2
    <3>2. Has(Append(u, y), x) <=> Has(u, x) \/ x = y
      BY <1>0
    <3>3. Has(Append(Selected(u, S), y), x) <=> Has(Selected(u, S), x) \/ x = y
      BY <1>0, <2>1
    <3> HIDE DEF Has
    <3> QED
      BY <2>2, <3>1, <3>2, <3>3
  <2> QED
    BY <2>1, <2>3
<1> HIDE DEF T
<1>3. s \in T
  BY <1>1, <1>2, AllSequences
<1> QED
  BY <1>3 DEF T

(* When the elements in one set all come before those in another.          *)
LEMMA SelectedSplit ==
  ASSUME NEW E, NEW s \in Seq(E), NEW A, NEW B,
         \A i, j \in 1 .. Len(s) : s[i] \in A /\ s[j] \in B => i < j
  PROVE  Selected(s, A \cup B) = Selected(s, A) \o Selected(s, B)
<1> DEFINE Ordered(u) == \A i, j \in 1 .. Len(u) : u[i] \in A /\ u[j] \in B => i < j
           Splits(u) == Selected(u, A \cup B) = Selected(u, A) \o Selected(u, B)
           T == {u \in Seq(E) : Ordered(u) => Splits(u)}
<1>1. <<>> \in T
  <2>1. <<>> \in Seq(E) /\ \A S : \A i \in 1 .. Len(<<>>) : <<>>[i] \notin S
    OBVIOUS
  <2>2. \A S : Selected(<<>>, S) = <<>>
    BY <2>1, SelectedNone
  <2>3. <<>> \o <<>> = <<>>
    OBVIOUS
  <2>4. Splits(<<>>)
    BY <2>2, <2>3
  <2> HIDE DEF Splits, Ordered
  <2> QED
    BY <2>1, <2>4
<1>2. ASSUME NEW u \in Seq(E), NEW x \in E, u \in T PROVE Append(u, x) \in T
  <2> DEFINE v == Append(u, x)
  <2> SUFFICES ASSUME Ordered(v) PROVE Splits(v)
    <3>1. v \in Seq(E)
      OBVIOUS
    <3> HIDE DEF v, Ordered, Splits
    <3> QED
      BY <3>1 DEF v
  <2>1. /\ Len(v) = Len(u) + 1 /\ Len(u) \in Nat /\ v \in Seq(E)
        /\ \A i \in 1 .. Len(u) : v[i] = u[i]
        /\ v[Len(u) + 1] = x
    OBVIOUS
  <2>2. \A S : Selected(v, S) = IF x \in S THEN Append(Selected(u, S), x) ELSE Selected(u, S)
    BY SelectedAppend
  <2>3. \A S : Selected(u, S) \in Seq(E)
    BY SelectedType
  <2> HIDE DEF v
  <2>4. Ordered(u)
    BY <2>1
  <2>5. Splits(u)
    BY <1>2, <2>4
  <2>6. CASE x \in A
    <3>1. \A j \in 1 .. Len(v) : v[j] \notin B
      BY <2>1, <2>6
    <3>2. Selected(v, B) = <<>> /\ x \notin B
      BY <2>1, <3>1, SelectedNone
    <3>3. Selected(u, B) = <<>>
      BY <2>2, <3>2
    <3>4. Selected(u, A) \o <<>> = Selected(u, A)
      BY <2>3
    <3>5. Selected(v, A) \in Seq(E) /\ Selected(v, A) \o <<>> = Selected(v, A)
      BY <2>1, SelectedType
    <3>6. Selected(v, A \cup B) = Append(Selected(u, A \cup B), x)
          /\ Selected(v, A) = Append(Selected(u, A), x)
      BY <2>2, <2>6
    <3> QED
      BY <2>5, <3>2, <3>3, <3>4, <3>5, <3>6
  <2>7. CASE x \notin A /\ x \in B
    <3>1. /\ Selected(v, A \cup B) = Append(Selected(u, A \cup B), x)
          /\ Selected(v, A) = Selected(u, A)
          /\ Selected(v, B) = Append(Selected(u, B), x)
      BY <2>2, <2>7
    <3>2. Append(Selected(u, A) \o Selected(u, B), x)
            = Selected(u, A) \o Append(Selected(u, B), x)
      <4>1. AppendsToSecond(Selected(u, A), Selected(u, B), x)
        BY <2>3, AppendToConcat
      <4> QED
        BY <4>1 DEF AppendsToSecond
    <3> QED
      BY <2>5, <3>1, <3>2
  <2>8. CASE x \notin A /\ x \notin B
    BY <2>2, <2>5, <2>8
  <2> QED
    BY <2>6, <2>7, <2>8
<1> HIDE DEF T
<1>3. s \in T
  BY <1>1, <1>2, AllSequences
<1> QED
  BY <1>3 DEF T

(* One element, which is there once.                                       *)
LEMMA SelectedOne ==
  ASSUME NEW E, NEW s \in Seq(E), NEW p \in 1 .. Len(s),
         \A i \in 1 .. Len(s) : s[i] = s[p] => i = p
  PROVE  Selected(s, {s[p]}) = <<s[p]>>
<1> DEFINE n == Len(s)
           g == [i \in 0 .. n |-> IF i < p THEN <<>> ELSE <<s[p]>>]
<1>1. n \in Nat /\ p \in 1 .. n
  OBVIOUS
<1>2. \A i \in 1 .. n : s[i] \in {s[p]} <=> i = p
  OBVIOUS
<1> HIDE DEF n
<1>3. \A i \in 0 .. n : g[i] = IF i < p THEN <<>> ELSE <<s[p]>>
  OBVIOUS
<1> HIDE DEF g
<1>4. g[0] = <<>> /\ g[n] = <<s[p]>>
  BY <1>1, <1>3
<1>5. ASSUME NEW i \in 1 .. n
      PROVE  g[i] = IF s[i] \in {s[p]} THEN Append(g[i - 1], s[i]) ELSE g[i - 1]
  <2>1. i \in 0 .. n /\ i - 1 \in 0 .. n
    BY <1>1
  <2>2. CASE i = p
    <3>1. g[i] = <<s[p]>> /\ g[i - 1] = <<>>
      BY <1>1, <1>3, <2>1, <2>2
    <3>2. Append(<<>>, s[i]) = <<s[i]>>
      OBVIOUS
    <3> QED
      BY <1>2, <2>2, <3>1, <3>2
  <2>3. CASE i # p
    <3>1. g[i] = g[i - 1]
      BY <1>1, <1>3, <2>1, <2>3
    <3> QED
      BY <1>2, <2>3, <3>1
  <2> QED
    BY <2>2, <2>3
<1>6. Makes(g, s, {s[p]})
  BY <1>4, <1>5 DEF Makes, n
<1> QED
  BY <1>4, <1>6, SelectedIs DEF n
=============================================================================
