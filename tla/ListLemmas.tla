----------------------------- MODULE ListLemmas -----------------------------
(***************************************************************************)
(* The list operations of thread.c, on lists in which nothing occurs       *)
(* twice: linking at the tail, unlinking at the head or in the middle, and *)
(* splicing one list behind another.  Each lemma says what is on the list  *)
(* afterwards, and that still nothing occurs twice.                        *)
(*                                                                         *)
(* The last parts are induction over the natural numbers, for what is      *)
(* defined by recursion over a list, and the running totals of a loop that *)
(* adds up and of any other.  Induction is stated for sets, not for        *)
(* operators, so that the provers can use it.                              *)
(***************************************************************************)
EXTENDS Integers, Sequences, SequencesExt, SequenceTheorems,
        WellFoundedInduction, TLAPS

LEMMA RangeMember ==
  ASSUME NEW S, NEW s \in Seq(S), NEW y
  PROVE  y \in Range(s) <=> \E i \in 1 .. Len(s) : s[i] = y
<1>1. DOMAIN s = 1 .. Len(s)
  OBVIOUS
<1>2. QED
  BY <1>1 DEF Range

LEMMA RangeType ==
  ASSUME NEW S, NEW s \in Seq(S)
  PROVE  Range(s) \subseteq S /\ (s # <<>> => Head(s) \in Range(s))
BY HeadTailProperties, EmptySeq, LenProperties, RangeMember

LEMMA AppendList ==
  ASSUME NEW S, NEW s \in Seq(S), NEW x \in S
  PROVE  /\ Append(s, x) \in Seq(S)
         /\ Range(Append(s, x)) = Range(s) \cup {x}
         /\ IsInjective(s) /\ x \notin Range(s) => IsInjective(Append(s, x))
<1>1. /\ Append(s, x) \in Seq(S)
      /\ Len(Append(s, x)) = Len(s) + 1
      /\ \A i \in 1 .. Len(s) : Append(s, x)[i] = s[i]
      /\ Append(s, x)[Len(s) + 1] = x
  BY AppendProperties
<1>2. Range(Append(s, x)) = Range(s) \cup {x}
  BY <1>1 DEF Range
<1>3. IsInjective(s) /\ x \notin Range(s) => IsInjective(Append(s, x))
  BY <1>1 DEF Range, IsInjective
<1>4. QED
  BY <1>1, <1>2, <1>3

(* r is s without its k-th thread.                                         *)
LEMMA ShorterList ==
  ASSUME NEW S, NEW s \in Seq(S), NEW r \in Seq(S), NEW k \in 1 .. Len(s),
         IsInjective(s), Len(r) = Len(s) - 1,
         \A j \in 1 .. Len(s) - 1 : r[j] = IF j < k THEN s[j] ELSE s[j + 1]
  PROVE  Range(r) = Range(s) \ {s[k]} /\ IsInjective(r)
<1>1. Len(s) \in Nat /\ DOMAIN s = 1 .. Len(s) /\ DOMAIN r = 1 .. Len(r)
  OBVIOUS
<1>2. ASSUME NEW y \in Range(r) PROVE y \in Range(s) \ {s[k]}
  <2>1. PICK j \in 1 .. Len(s) - 1 : r[j] = y
    BY <1>1, <1>2, RangeMember
  <2>2. PICK m \in 1 .. Len(s) : m # k /\ s[m] = y
    BY <1>1, <2>1
  <2>3. QED
    BY <1>1, <2>2, RangeMember DEF IsInjective
<1>3. ASSUME NEW y \in Range(s), y # s[k] PROVE y \in Range(r)
  <2>1. PICK m \in 1 .. Len(s) : m # k /\ s[m] = y
    BY <1>1, <1>3, RangeMember
  <2>2. PICK j \in 1 .. Len(s) - 1 : r[j] = y
    <3>1. CASE m < k
      <4>1. m \in 1 .. Len(s) - 1 /\ r[m] = y
        BY <1>1, <2>1, <3>1
      <4>2. QED
        BY <4>1
    <3>2. CASE m > k
      <4>1. m - 1 \in 1 .. Len(s) - 1 /\ ~(m - 1 < k) /\ (m - 1) + 1 = m
        BY <1>1, <2>1, <3>2
      <4>2. QED
        BY <2>1, <4>1
    <3>3. QED
      BY <1>1, <2>1, <3>1, <3>2
  <2>3. QED
    BY <1>1, <2>2, RangeMember
<1>4. IsInjective(r)
  <2>1. SUFFICES ASSUME NEW i \in 1 .. Len(s) - 1, NEW j \in 1 .. Len(s) - 1,
                        r[i] = r[j]
                 PROVE  i = j
    BY <1>1 DEF IsInjective
  <2>2. \A m, n \in 1 .. Len(s) : s[m] = s[n] => m = n
    BY <1>1 DEF IsInjective
  <2>3. QED
    BY <1>1, <2>1, <2>2
<1>5. QED
  BY <1>2, <1>3, <1>4

LEMMA TailList ==
  ASSUME NEW S, NEW s \in Seq(S), s # <<>>, IsInjective(s)
  PROVE  /\ Head(s) \in S
         /\ Head(s) \in Range(s)
         /\ Tail(s) \in Seq(S)
         /\ Range(Tail(s)) = Range(s) \ {Head(s)}
         /\ IsInjective(Tail(s))
<1>1. /\ Head(s) = s[1]
      /\ Tail(s) \in Seq(S)
      /\ Len(Tail(s)) = Len(s) - 1
      /\ \A i \in 1 .. Len(s) - 1 : Tail(s)[i] = s[i + 1]
      /\ 1 \in 1 .. Len(s)
  BY HeadTailProperties, LenProperties, EmptySeq
<1>2. Range(Tail(s)) = Range(s) \ {s[1]} /\ IsInjective(Tail(s))
  <2>1. \A j \in 1 .. Len(s) - 1 :
          Tail(s)[j] = IF j < 1 THEN s[j] ELSE s[j + 1]
    BY <1>1
  <2>2. QED
    BY <1>1, <2>1, ShorterList
<1>3. QED
  BY <1>1, <1>2, RangeType

LEMMA RemoveList ==
  ASSUME NEW S, NEW s \in Seq(S), NEW i \in 1 .. Len(s)
  PROVE  /\ RemoveAt(s, i) \in Seq(S)
         /\ Len(RemoveAt(s, i)) = Len(s) - 1
         /\ \A j \in 1 .. Len(s) - 1 :
              RemoveAt(s, i)[j] = IF j < i THEN s[j] ELSE s[j + 1]
<1>1. Len(s) \in Nat /\ i \in 1 .. Len(s)
  OBVIOUS
<1> DEFINE a == SubSeq(s, 1, i - 1)
           b == SubSeq(s, i + 1, Len(s))
<1>2. /\ a \in Seq(S)
      /\ Len(a) = i - 1
      /\ \A j \in 1 .. i - 1 : a[j] = s[j]
  BY <1>1
<1>3. /\ b \in Seq(S)
      /\ Len(b) = Len(s) - i
      /\ \A j \in 1 .. Len(s) - i : b[j] = s[j + i]
  BY <1>1
<1>4. /\ a \o b \in Seq(S)
      /\ Len(a \o b) = Len(s) - 1
      /\ \A j \in 1 .. Len(s) - 1 : (a \o b)[j] = IF j < i THEN s[j] ELSE s[j + 1]
  <2> HIDE DEF a, b
  <2>1. /\ a \o b \in Seq(S)
        /\ Len(a \o b) = Len(a) + Len(b)
        /\ \A j \in 1 .. Len(a) + Len(b) :
             (a \o b)[j] = IF j <= Len(a) THEN a[j] ELSE b[j - Len(a)]
    BY <1>2, <1>3, ConcatProperties
  <2>2. Len(a) + Len(b) = Len(s) - 1
    BY <1>1, <1>2, <1>3
  <2>3. ASSUME NEW j \in 1 .. Len(s) - 1
        PROVE  (a \o b)[j] = IF j < i THEN s[j] ELSE s[j + 1]
    <3>1. CASE j < i
      BY <1>1, <1>2, <2>1, <2>2, <3>1
    <3>2. CASE j >= i
      <4>1. j - (i - 1) \in 1 .. Len(s) - i /\ (j - (i - 1)) + i = j + 1
        BY <1>1, <3>2
      <4>2. (a \o b)[j] = b[j - (i - 1)]
        <5>1. Len(a) = i - 1 /\ ~(j <= Len(a)) /\ j \in 1 .. Len(a) + Len(b)
          BY <1>1, <1>2, <2>2, <3>2
        <5>2. QED
          BY <2>1, <5>1
      <4>3. b[j - (i - 1)] = s[j + 1]
        BY <1>3, <4>1
      <4>4. ~(j < i)
        BY <1>1, <3>2
      <4>5. QED
        BY <4>2, <4>3, <4>4
    <3>3. j < i \/ j >= i
      BY <1>1
    <3>4. QED
      BY <3>1, <3>2, <3>3
  <2>4. QED
    BY <2>1, <2>2, <2>3
<1>5. RemoveAt(s, i) = a \o b
  BY DEF RemoveAt
<1> HIDE DEF a, b
<1>6. QED
  BY <1>4, <1>5

LEMMA UnlinkList ==
  ASSUME NEW S, NEW s \in Seq(S), NEW i \in DOMAIN s, IsInjective(s)
  PROVE  /\ s[i] \in S
         /\ s[i] \in Range(s)
         /\ RemoveAt(s, i) \in Seq(S)
         /\ Range(RemoveAt(s, i)) = Range(s) \ {s[i]}
         /\ IsInjective(RemoveAt(s, i))
<1> DEFINE r == RemoveAt(s, i)
<1>1. i \in 1 .. Len(s)
  OBVIOUS
<1>2. /\ r \in Seq(S)
      /\ Len(r) = Len(s) - 1
      /\ \A j \in 1 .. Len(s) - 1 : r[j] = IF j < i THEN s[j] ELSE s[j + 1]
  BY <1>1, RemoveList
<1>3. s[i] \in S /\ s[i] \in Range(s)
  BY <1>1, RangeMember
<1> HIDE DEF r
<1>4. Range(r) = Range(s) \ {s[i]} /\ IsInjective(r)
  BY <1>1, <1>2, ShorterList
<1>5. QED
  BY <1>2, <1>3, <1>4 DEF r

LEMMA SpliceList ==
  ASSUME NEW S, NEW s \in Seq(S), NEW t \in Seq(S)
  PROVE  /\ s \o t \in Seq(S)
         /\ Range(s \o t) = Range(s) \cup Range(t)
         /\ IsInjective(s) /\ IsInjective(t) /\ Range(s) \cap Range(t) = {}
              => IsInjective(s \o t)
<1>1. /\ s \o t \in Seq(S)
      /\ Len(s) \in Nat /\ Len(t) \in Nat
      /\ Len(s \o t) = Len(s) + Len(t)
      /\ \A i \in 1 .. Len(s) + Len(t) :
           (s \o t)[i] = IF i <= Len(s) THEN s[i] ELSE t[i - Len(s)]
  BY ConcatProperties, LenProperties
<1>2. Range(s \o t) = Range(s) \cup Range(t)
  BY RangeConcatenation
<1>3. ASSUME IsInjective(s), IsInjective(t), Range(s) \cap Range(t) = {}
      PROVE  IsInjective(s \o t)
  <2>1. SUFFICES ASSUME NEW i \in 1 .. Len(s) + Len(t),
                        NEW j \in 1 .. Len(s) + Len(t),
                        (s \o t)[i] = (s \o t)[j]
                 PROVE  i = j
    BY <1>1 DEF IsInjective
  <2>2. \A k \in 1 .. Len(s) + Len(t) :
          IF k <= Len(s) THEN s[k] \in Range(s)
                         ELSE k - Len(s) \in 1 .. Len(t) /\ t[k - Len(s)] \in Range(t)
    BY <1>1, RangeMember
  <2>3. CASE i <= Len(s) /\ j <= Len(s)
    BY <1>1, <1>3, <2>1, <2>3 DEF IsInjective
  <2>4. CASE i > Len(s) /\ j > Len(s)
    <3>1. i - Len(s) = j - Len(s)
      BY <1>1, <1>3, <2>1, <2>2, <2>4 DEF IsInjective
    <3>2. QED
      BY <1>1, <3>1
  <2>5. QED
    BY <1>1, <1>3, <2>1, <2>2, <2>3, <2>4
<1>4. QED
  BY <1>1, <1>2, <1>3
-----------------------------------------------------------------------------
(* Some element of a set of natural numbers is the smallest.               *)
LEMMA SmallestOf ==
  ASSUME NEW T, T \subseteq Nat, T # {}
  PROVE  \E x \in T : \A y \in T : x <= y
<1> DEFINE R == {ss \in Nat \X Nat : ss[1] < ss[2]}
<1>1. IsWellFoundedOn(R, Nat)
  BY NatLessThanWellFounded DEF OpToRel
<1>2. \A x, y \in Nat : x < y => <<x, y>> \in R
  OBVIOUS
<1> HIDE DEF R
<1>3. PICK x \in T : \A y \in T : ~ (<<y, x>> \in R)
  BY <1>1, WFMin
<1>4. \A y \in T : ~(y < x) /\ y \in Nat /\ x \in Nat
  BY <1>2, <1>3
<1>5. QED
  BY <1>4

(* Induction, as a fact about sets: no operator stands for what is proved. *)
LEMMA SetInduction ==
  ASSUME NEW T, 0 \in T, \A n \in Nat : n \in T => n + 1 \in T
  PROVE  \A n \in Nat : n \in T
<1>1. SUFFICES ASSUME Nat \ T # {} PROVE FALSE
  OBVIOUS
<1>2. PICK x \in Nat \ T : \A y \in Nat \ T : x <= y
  BY <1>1, SmallestOf
<1>3. x # 0 /\ x - 1 \in Nat /\ x - 1 \notin Nat \ T
  BY <1>2
<1>4. QED
  BY <1>2, <1>3
-----------------------------------------------------------------------------
(* Running totals, as a loop that adds up w[1], w[2], ... has them: there  *)
(* are some, and they are determined by w.                                 *)
Totals(w, n, t) == t[0] = 0 /\ \A i \in 1 .. n : t[i] = t[i - 1] + w[i]

LEMMA TotalsExist ==
  ASSUME NEW n \in Nat, NEW w, \A i \in 1 .. n : w[i] \in Nat
  PROVE  \E t \in [0 .. n -> Nat] : Totals(w, n, t)
<1> DEFINE T == {k \in Nat : k <= n => \E t \in [0 .. k -> Nat] : Totals(w, k, t)}
<1>1. 0 \in T
  <2> DEFINE z == [i \in 0 .. 0 |-> 0]
  <2>1. z \in [0 .. 0 -> Nat] /\ Totals(w, 0, z)
    BY DEF Totals
  <2> HIDE DEF z
  <2>2. \E t \in [0 .. 0 -> Nat] : Totals(w, 0, t)
    BY <2>1
  <2>3. QED
    BY <2>2
<1>2. ASSUME NEW k \in Nat, k \in T PROVE k + 1 \in T
  <2>1. SUFFICES ASSUME k + 1 <= n
                 PROVE  \E t \in [0 .. k + 1 -> Nat] : Totals(w, k + 1, t)
    OBVIOUS
  <2>2. PICK t \in [0 .. k -> Nat] : Totals(w, k, t)
    BY <1>2, <2>1
  <2> DEFINE u == [i \in 0 .. k + 1 |-> IF i <= k THEN t[i] ELSE t[k] + w[k + 1]]
  <2>3. /\ \A i \in 0 .. k : u[i] = t[i]
        /\ u[k + 1] = t[k] + w[k + 1]
        /\ u \in [0 .. k + 1 -> Nat]
    BY <2>1
  <2> HIDE DEF u
  <2>4. Totals(w, k + 1, u)
    <3>1. u[0] = 0
      BY <2>2, <2>3 DEF Totals
    <3>2. ASSUME NEW i \in 1 .. k + 1 PROVE u[i] = u[i - 1] + w[i]
      <4>1. CASE i = k + 1
        BY <2>3, <4>1
      <4>2. CASE i # k + 1
        <5>1. i \in 1 .. k /\ i \in 0 .. k /\ i - 1 \in 0 .. k
          BY <4>2
        <5>2. QED
          BY <2>2, <2>3, <5>1 DEF Totals
      <4>3. QED
        BY <4>1, <4>2
    <3>3. QED
      BY <3>1, <3>2 DEF Totals
  <2>5. QED
    BY <2>3, <2>4
<1> HIDE DEF T
<1>3. n \in T
  BY <1>1, <1>2, SetInduction
<1>4. QED
  BY <1>3 DEF T

LEMMA TotalsUnique ==
  ASSUME NEW n \in Nat, NEW w, NEW t, NEW u, Totals(w, n, t), Totals(w, n, u)
  PROVE  \A i \in 0 .. n : t[i] = u[i]
<1> DEFINE T == {k \in Nat : k <= n => t[k] = u[k]}
<1>1. 0 \in T
  BY DEF Totals
<1>2. ASSUME NEW k \in Nat, k \in T PROVE k + 1 \in T
  <2>1. SUFFICES ASSUME k + 1 <= n PROVE t[k + 1] = u[k + 1]
    OBVIOUS
  <2>2. t[k] = u[k] /\ k + 1 \in 1 .. n /\ (k + 1) - 1 = k
    BY <1>2, <2>1
  <2>3. QED
    BY <2>2 DEF Totals
<1> HIDE DEF T
<1>3. \A i \in Nat : i \in T
  BY <1>1, <1>2, SetInduction
<1>4. QED
  BY <1>3 DEF T
-----------------------------------------------------------------------------
(* A loop that replaces a value in S, which is b at first, n times: step   *)
(* gives its next value, for the last one and the number of the turn.      *)
Iterates(step, b, n, t) ==
  t[0] = b /\ \A i \in 1 .. n : t[i] = step[<<t[i - 1], i>>]

LEMMA IteratesExist ==
  ASSUME NEW S, NEW n \in Nat, NEW step \in [S \X (1 .. n) -> S], NEW b \in S
  PROVE  \E t \in [0 .. n -> S] : Iterates(step, b, n, t)
<1> DEFINE T == {k \in Nat : k <= n => \E t \in [0 .. k -> S] : Iterates(step, b, k, t)}
<1>1. 0 \in T
  <2> DEFINE z == [i \in 0 .. 0 |-> b]
  <2>1. z \in [0 .. 0 -> S] /\ Iterates(step, b, 0, z)
    BY DEF Iterates
  <2> HIDE DEF z
  <2>2. \E t \in [0 .. 0 -> S] : Iterates(step, b, 0, t)
    BY <2>1
  <2>3. QED
    BY <2>2
<1>2. ASSUME NEW k \in Nat, k \in T PROVE k + 1 \in T
  <2>1. SUFFICES ASSUME k + 1 <= n
                 PROVE  \E t \in [0 .. k + 1 -> S] : Iterates(step, b, k + 1, t)
    OBVIOUS
  <2>2. PICK t \in [0 .. k -> S] : Iterates(step, b, k, t)
    BY <1>2, <2>1
  <2> DEFINE u == [i \in 0 .. k + 1 |-> IF i <= k THEN t[i] ELSE step[<<t[k], k + 1>>]]
  <2>3. <<t[k], k + 1>> \in S \X (1 .. n)
    BY <2>1, <2>2
  <2>4. /\ \A i \in 0 .. k : u[i] = t[i]
        /\ u[k + 1] = step[<<t[k], k + 1>>]
        /\ u \in [0 .. k + 1 -> S]
    BY <2>2, <2>3
  <2> HIDE DEF u
  <2>5. Iterates(step, b, k + 1, u)
    <3>1. u[0] = b
      BY <2>2, <2>4 DEF Iterates
    <3>2. ASSUME NEW i \in 1 .. k + 1 PROVE u[i] = step[<<u[i - 1], i>>]
      <4>1. CASE i = k + 1
        BY <2>4, <4>1
      <4>2. CASE i # k + 1
        <5>1. i \in 1 .. k /\ i \in 0 .. k /\ i - 1 \in 0 .. k
          BY <4>2
        <5>2. t[i] = step[<<t[i - 1], i>>]
          BY <2>2, <5>1 DEF Iterates
        <5>3. QED
          BY <2>4, <5>1, <5>2
      <4>3. QED
        BY <4>1, <4>2
    <3>3. QED
      BY <3>1, <3>2 DEF Iterates
  <2>6. QED
    BY <2>4, <2>5
<1> HIDE DEF T
<1>3. n \in T
  BY <1>1, <1>2, SetInduction
<1>4. QED
  BY <1>3 DEF T
=============================================================================
