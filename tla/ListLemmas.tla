----------------------------- MODULE ListLemmas -----------------------------
(***************************************************************************)
(* Facts about lists and numbers that the proofs about Storage and         *)
(* Recovery need.  The induction over numbers is that no set of numbers    *)
(* without a least one is well-founded.                                    *)
(***************************************************************************)
EXTENDS Lists, FiniteSetTheorems, SequenceTheorems, TLAPS

-----------------------------------------------------------------------------
(* Lists.                                                                  *)

\* A list with an element more in front.
LEMMA InFront ==
  ASSUME NEW S, NEW s \in Seq(S), NEW e \in S
  PROVE  /\ <<e>> \o s \in Seq(S)
         /\ Len(<<e>> \o s) = Len(s) + 1
         /\ (<<e>> \o s)[1] = e
         /\ \A n \in 1..Len(s) : (<<e>> \o s)[n + 1] = s[n]
         /\ \A n \in 2..(Len(s) + 1) : (<<e>> \o s)[n] = s[n - 1]
<1>1. <<e>> \in Seq(S) /\ Len(<<e>>) = 1 /\ <<e>>[1] = e
  OBVIOUS
<1> QED
  BY <1>1, ConcatProperties

\* Two lists, one behind the other.
LEMMA Joined ==
  ASSUME NEW S, NEW s \in Seq(S), NEW t \in Seq(S)
  PROVE  /\ s \o t \in Seq(S)
         /\ Len(s \o t) = Len(s) + Len(t)
         /\ \A i \in 1..Len(s) : (s \o t)[i] = s[i]
         /\ \A i \in 1..Len(t) : (s \o t)[Len(s) + i] = t[i]
<1>1. /\ s \o t \in Seq(S) /\ Len(s \o t) = Len(s) + Len(t)
      /\ \A i \in 1..(Len(s) + Len(t)) :
            (s \o t)[i] = IF i <= Len(s) THEN s[i] ELSE t[i - Len(s)]
  BY ConcatProperties
<1>2. Len(s) \in Nat /\ Len(t) \in Nat
  BY LenProperties
<1> DEFINE m == Len(s)
           n == Len(t)
           st == s \o t
<1>3. ASSUME NEW i \in 1..m PROVE st[i] = s[i]
  BY <1>1, <1>2
<1>4. ASSUME NEW i \in 1..n PROVE st[m + i] = t[i]
  <2>1. m + i \in 1..(m + n) /\ ~(m + i <= m) /\ (m + i) - m = i
    BY <1>2
  <2>2. st[m + i] = IF m + i <= m THEN s[m + i] ELSE t[(m + i) - m]
    BY <1>1, <2>1
  <2> QED
    BY <2>1, <2>2
<1> QED
  BY <1>1, <1>3, <1>4

\* And three of them.
LEMMA JoinedThree ==
  ASSUME NEW S, NEW s \in Seq(S), NEW t \in Seq(S), NEW u \in Seq(S)
  PROVE  LET all == (s \o t) \o u
         IN  /\ all \in Seq(S)
             /\ Len(all) = Len(s) + Len(t) + Len(u)
             /\ \A i \in 1..Len(s) : all[i] = s[i]
             /\ \A i \in 1..Len(t) : all[Len(s) + i] = t[i]
             /\ \A i \in 1..Len(u) : all[Len(s) + Len(t) + i] = u[i]
<1> DEFINE st == s \o t
           all == st \o u
<1>1. /\ st \in Seq(S) /\ Len(st) = Len(s) + Len(t)
      /\ \A i \in 1..Len(s) : st[i] = s[i]
      /\ \A i \in 1..Len(t) : st[Len(s) + i] = t[i]
  <2>1. st \in Seq(S) /\ Len(st) = Len(s) + Len(t)
    BY Joined
  <2>2. \A i \in 1..Len(s) : st[i] = s[i]
    BY Joined
  <2>3. \A i \in 1..Len(t) : st[Len(s) + i] = t[i]
    BY Joined
  <2> QED
    BY <2>1, <2>2, <2>3
<1> HIDE DEF st
<1>2. /\ all \in Seq(S) /\ Len(all) = Len(st) + Len(u)
      /\ \A i \in 1..Len(st) : all[i] = st[i]
      /\ \A i \in 1..Len(u) : all[Len(st) + i] = u[i]
  <2>1. all \in Seq(S) /\ Len(all) = Len(st) + Len(u)
    BY <1>1, Joined
  <2>2. \A i \in 1..Len(st) : all[i] = st[i]
    BY <1>1, Joined
  <2>3. \A i \in 1..Len(u) : all[Len(st) + i] = u[i]
    BY <1>1, Joined
  <2> QED
    BY <2>1, <2>2, <2>3
<1>3. Len(s) \in Nat /\ Len(t) \in Nat /\ Len(u) \in Nat
  BY LenProperties
<1>4. ASSUME NEW i \in 1..Len(s) PROVE all[i] = s[i]
  BY <1>1, <1>2, <1>3
<1>5. ASSUME NEW i \in 1..Len(t) PROVE all[Len(s) + i] = t[i]
  <2>1. Len(s) + i \in 1..Len(st)
    BY <1>1, <1>3
  <2> QED
    BY <1>1, <1>2, <2>1
<1> QED
  BY <1>1, <1>2, <1>4, <1>5 DEF st

\* Of a list without repetitions, retain takes the last element away.
LEMMA WithoutLast ==
  ASSUME NEW S, NEW s \in Seq(S), s # <<>>, NEW x, x = s[Len(s)],
         \A n \in 1..(Len(s) - 1) : s[n] # x
  PROVE  /\ Without(s, x) \in Seq(S)
         /\ Len(Without(s, x)) = Len(s) - 1
         /\ \A n \in 1..(Len(s) - 1) : Without(s, x)[n] = s[n]
<1> DEFINE kept == {i \in DOMAIN s : s[i] # x}
           last == Len(s) - 1
           pick(n) == CHOOSE i \in kept : Cardinality({j \in kept : j <= i}) = n
<1>1. last \in Nat /\ kept = 1..last
  BY EmptySeq, LenProperties
<1>2. Cardinality(1..last) = last
  BY <1>1, FS_Interval
<1>3. \A n \in 1..last : {j \in kept : j <= n} = 1..n
  BY <1>1
<1>4. \A n \in 1..last : Cardinality(1..n) = n
  BY <1>1, FS_Interval
<1>5. \A n \in 1..last : pick(n) = n
  BY <1>1, <1>3, <1>4
<1>6. Without(s, x) = [n \in 1..Cardinality(kept) |-> s[pick(n)]]
  BY DEF Without
<1>7. Without(s, x) = [n \in 1..last |-> s[n]]
  <2> HIDE DEF pick
  <2> QED
    BY <1>1, <1>2, <1>5, <1>6
<1> QED
  BY <1>1, <1>7

-----------------------------------------------------------------------------
(* Numbers.                                                                *)

\* Numbers have a least one.
LEMMA Least ==
  ASSUME NEW T, T \subseteq Nat, T # {}
  PROVE  \E m \in T : \A n \in T : m <= n
<1> DEFINE R == StrictSubsetOrdering(Nat)
           U == {0..m : m \in T}
<1>1. U \subseteq FiniteSubsetsOf(Nat) /\ U # {}
  <2>1. ASSUME NEW m \in T PROVE 0..m \in FiniteSubsetsOf(Nat)
    <3>1. m \in Nat /\ 0..m \subseteq Nat /\ IsFiniteSet(0..m)
      BY FS_Interval
    <3> QED
      BY <3>1 DEF FiniteSubsetsOf
  <2>2. PICK m \in T : TRUE
    OBVIOUS
  <2>3. 0..m \in U
    OBVIOUS
  <2> QED
    BY <2>1, <2>3
<1>2. PICK X \in U : \A Y \in U : <<Y, X>> \notin R
  BY <1>1, FS_StrictSubsetOrderingWellFounded, WFMin
<1>3. PICK m \in T : X = 0..m
  BY <1>2
<1>4. ASSUME NEW n \in T, n < m PROVE FALSE
  <2>1. 0..n \in U /\ 0..n \subseteq 0..m /\ m \in 0..m /\ m \notin 0..n
    BY <1>4
  <2>2. <<0..n, X>> \in R
    BY <1>3, <2>1 DEF StrictSubsetOrdering
  <2> QED
    BY <1>2, <2>1, <2>2
<1> QED
  BY <1>4

\* And, if they are bounded, a greatest one.
LEMMA Greatest ==
  ASSUME NEW c \in Nat, NEW T, T \subseteq 0..c, T # {}
  PROVE  \E m \in T : \A n \in T : n <= m
<1> DEFINE U == {c - n : n \in T}
<1>1. U \subseteq Nat /\ U # {}
  <2>1. \A n \in T : c - n \in Nat
    OBVIOUS
  <2>2. PICK n \in T : TRUE
    OBVIOUS
  <2>3. c - n \in U
    OBVIOUS
  <2> QED
    BY <2>1, <2>3
<1>2. PICK u \in U : \A x \in U : u <= x
  BY <1>1, Least
<1>3. PICK m \in T : u = c - m
  BY <1>2
<1>4. ASSUME NEW n \in T PROVE n <= m
  <2>1. c - n \in U
    OBVIOUS
  <2>2. c - m <= c - n
    BY <1>2, <1>3, <2>1
  <2> QED
    BY <2>2
<1> QED
  BY <1>4

=============================================================================
