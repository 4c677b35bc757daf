----------------------------- MODULE TabsProofs -----------------------------
(***************************************************************************)
(* The safety of the tabs, for any number of sessions.                     *)
(*                                                                         *)
(* The lists of sessions are filtered by a recursive function, about which *)
(* the first lemmas say, by induction, what a filtered list has.           *)
(***************************************************************************)
EXTENDS Tabs, FiniteSetTheorems, SequenceTheorems, WellFoundedInduction, TLAPS

-----------------------------------------------------------------------------
LEMMA LeastNat ==
  ASSUME NEW T \in SUBSET Nat, T # {} PROVE \E m \in T : \A k \in T : m <= k
<1> DEFINE F == {0..k : k \in T}
<1> DEFINE R == StrictSubsetOrdering(Nat)
<1> DEFINE S == FiniteSubsetsOf(Nat)
<1>1. F \subseteq S /\ F # {}
  <2>1. \A k \in T : 0..k \in SUBSET Nat /\ IsFiniteSet(0..k)
    BY FS_Interval
  <2> QED BY <2>1 DEF FiniteSubsetsOf
<1>2. IsWellFoundedOn(R, S)
  BY FS_StrictSubsetOrderingWellFounded
<1>3. \E x \in F : \A y \in F : ~ (<<y, x>> \in R)
  <2> HIDE DEF F, R, S
  <2> QED BY <1>1, <1>2, WFMin
<1>4. PICK m \in T : \A y \in F : ~ (<<y, 0..m>> \in R)
  BY <1>3
<1>5. ASSUME NEW k \in T PROVE m <= k
  <2>1. ~ (<<0..k, 0..m>> \in R)
    BY <1>4
  <2>2. 0..k \in SUBSET Nat /\ 0..m \in SUBSET Nat
    OBVIOUS
  <2>3. SUFFICES ASSUME k < m PROVE FALSE
    OBVIOUS
  <2>4. 0..k \subseteq 0..m /\ m \in 0..m /\ m \notin 0..k
    BY <2>3
  <2> QED BY <2>1, <2>2, <2>4 DEF StrictSubsetOrdering
<1> QED BY <1>5

\* Induction, over a set and not over an operator.
LEMMA NatInd ==
  ASSUME NEW S \in SUBSET Nat, 0 \in S, \A n \in S : n + 1 \in S PROVE S = Nat
<1> SUFFICES ASSUME Nat \ S # {} PROVE FALSE
  OBVIOUS
<1>1. PICK m \in Nat \ S : \A k \in Nat \ S : m <= k
  BY LeastNat
<1>2. m # 0 /\ m - 1 \in Nat
  BY <1>1
<1>3. m - 1 \in S
  BY <1>1, <1>2
<1> QED BY <1>3, <1>2, <1>1

\* The steps of the recursion, as far as it has gone.
Steps(g, list, A, n) ==
  g = [k \in 0..n |-> IF k = 0 THEN <<>>
                      ELSE IF list[k] \in A THEN Append(g[k - 1], list[k]) ELSE g[k - 1]]

LEMMA StepsExist ==
  ASSUME NEW S, NEW q \in Seq(S), NEW A, NEW n \in Nat
  PROVE  \E g : Steps(g, q, A, n)
<1> DEFINE P == {k \in Nat : \E g : Steps(g, q, A, k)}
<1>1. 0 \in P
  <2> DEFINE g == [k \in 0..0 |-> <<>>]
  <2>1. Steps(g, q, A, 0)
    BY DEF Steps
  <2> QED BY <2>1
<1>2. ASSUME NEW k \in P PROVE k + 1 \in P
  <2>1. PICK g : Steps(g, q, A, k)
    OBVIOUS
  <2> DEFINE new == IF q[k + 1] \in A THEN Append(g[k], q[k + 1]) ELSE g[k]
             h == [i \in 0..(k + 1) |-> IF i = k + 1 THEN new ELSE g[i]]
  <2>2. k \in Nat
    OBVIOUS
  <2>3. \A i \in 0..k : g[i] = IF i = 0 THEN <<>>
                      ELSE IF q[i] \in A THEN Append(g[i - 1], q[i]) ELSE g[i - 1]
    BY <2>1 DEF Steps
  <2>4. \A i \in 0..(k + 1) : h[i] = IF i = 0 THEN <<>>
                      ELSE IF q[i] \in A THEN Append(h[i - 1], q[i]) ELSE h[i - 1]
    <3> TAKE i \in 0..(k + 1)
    <3>1. CASE i = k + 1
      BY <2>2, <3>1
    <3>2. CASE i # k + 1
      <4>1. i \in 0..k /\ h[i] = g[i]
        BY <2>2, <3>2
      <4>2. i # 0 => i - 1 \in 0..k /\ h[i - 1] = g[i - 1]
        BY <2>2, <4>1
      <4> QED BY <2>3, <4>1, <4>2
    <3> QED BY <3>1, <3>2
  <2>5. Steps(h, q, A, k + 1)
    <3> DEFINE e == [i \in 0..(k + 1) |-> IF i = 0 THEN <<>>
                      ELSE IF q[i] \in A THEN Append(h[i - 1], q[i]) ELSE h[i - 1]]
    <3>1. \A i \in 0..(k + 1) : h[i] = e[i]
      BY <2>4
    <3>2. DOMAIN h = 0..(k + 1) /\ DOMAIN e = 0..(k + 1)
      OBVIOUS
    <3>3. h = e
      <4> HIDE DEF new
      <4> QED BY <3>1, <3>2
    <3> QED BY <3>3 DEF Steps
  <2> QED BY <2>2, <2>5
<1> HIDE DEF P
<1>3. P = Nat
  BY <1>1, <1>2, NatInd DEF P
<1> QED BY <1>3 DEF P

LEMMA KeptBySteps ==
  ASSUME NEW S, NEW q \in Seq(S), NEW A
  PROVE  \E g : Steps(g, q, A, Len(q)) /\ Kept(q, A) = g[Len(q)]
<1>1. \E g : Steps(g, q, A, Len(q))
  BY StepsExist
<1> QED BY <1>1 DEF Kept, Steps

\* Two recursions over lists that begin alike begin alike.
LEMMA StepsAgree ==
  ASSUME NEW S, NEW q \in Seq(S), NEW r \in Seq(S), NEW A, NEW n \in Nat, NEW m \in Nat, n <= m,
         n <= Len(q), \A i \in 1..n : q[i] = r[i], NEW g, Steps(g, q, A, n), NEW h, Steps(h, r, A, m)
  PROVE  \A k \in 0..n : g[k] = h[k] /\ g[k] \in Seq(S)
<1> DEFINE P == {k \in Nat : k <= n => g[k] = h[k] /\ g[k] \in Seq(S)}
<1>1. \A i \in 0..n : g[i] = IF i = 0 THEN <<>>
                      ELSE IF q[i] \in A THEN Append(g[i - 1], q[i]) ELSE g[i - 1]
  BY DEF Steps
<1>2. \A i \in 0..m : h[i] = IF i = 0 THEN <<>>
                      ELSE IF r[i] \in A THEN Append(h[i - 1], r[i]) ELSE h[i - 1]
  BY DEF Steps
<1>3. 0 \in P
  <2>1. 0 \in 0..n /\ 0 \in 0..m /\ <<>> \in Seq(S)
    OBVIOUS
  <2>2. g[0] = <<>> /\ h[0] = <<>>
    BY <1>1, <1>2, <2>1
  <2> QED BY <2>1, <2>2
<1>4. ASSUME NEW k \in P PROVE k + 1 \in P
  <2> SUFFICES ASSUME k + 1 <= n PROVE g[k + 1] = h[k + 1] /\ g[k + 1] \in Seq(S)
    OBVIOUS
  <2>1. k \in Nat /\ g[k] = h[k] /\ g[k] \in Seq(S)
    OBVIOUS
  <2>2. k + 1 \in 0..n /\ k + 1 \in 0..m /\ k + 1 # 0 /\ (k + 1) - 1 = k /\ k + 1 \in 1..n
    BY <2>1
  <2>3. q[k + 1] = r[k + 1] /\ q[k + 1] \in S
    BY <2>2
  <2>4. g[k + 1] = IF q[k + 1] \in A THEN Append(g[k], q[k + 1]) ELSE g[k]
    BY <1>1, <2>2
  <2>5. h[k + 1] = IF r[k + 1] \in A THEN Append(h[k], r[k + 1]) ELSE h[k]
    BY <1>2, <2>2
  <2> QED BY <2>1, <2>3, <2>4, <2>5
<1> HIDE DEF P
<1>5. P = Nat
  BY <1>3, <1>4, NatInd DEF P
<1> QED BY <1>5 DEF P

LEMMA KeptOfNone == ASSUME NEW A PROVE Kept(<<>>, A) = <<>>
<1>1. PICK g : Steps(g, <<>>, A, 0) /\ Kept(<<>>, A) = g[0]
  <2>1. <<>> \in Seq({}) /\ Len(<<>>) = 0
    OBVIOUS
  <2> QED BY <2>1, KeptBySteps
<1> QED BY <1>1 DEF Steps

LEMMA KeptType ==
  ASSUME NEW S, NEW q \in Seq(S), NEW A PROVE Kept(q, A) \in Seq(S)
<1>1. PICK g : Steps(g, q, A, Len(q)) /\ Kept(q, A) = g[Len(q)]
  BY KeptBySteps
<1>2. Len(q) \in Nat /\ Len(q) \in 0..Len(q)
  OBVIOUS
<1> QED BY <1>1, <1>2, StepsAgree

LEMMA KeptAppend ==
  ASSUME NEW S, NEW q \in Seq(S), NEW x \in S, NEW A
  PROVE  Kept(Append(q, x), A) = IF x \in A THEN Append(Kept(q, A), x) ELSE Kept(q, A)
<1> DEFINE r == Append(q, x)
           n == Len(q)
<1>1. r \in Seq(S) /\ Len(r) = n + 1 /\ n \in Nat /\ r[n + 1] = x /\ \A i \in 1..n : q[i] = r[i]
  OBVIOUS
<1>2. PICK g : Steps(g, q, A, n) /\ Kept(q, A) = g[n]
  BY KeptBySteps
<1> HIDE DEF r
<1>3. PICK h : Steps(h, r, A, Len(r)) /\ Kept(r, A) = h[Len(r)]
  BY <1>1, KeptBySteps
<1>4. Steps(h, r, A, n + 1) /\ Kept(r, A) = h[n + 1]
  BY <1>1, <1>3
<1>5. g[n] = h[n]
  <2>1. n <= n + 1 /\ n + 1 \in Nat /\ n <= Len(q) /\ n \in 0..n
    BY <1>1
  <2> HIDE DEF n
  <2>2. r \in Seq(S) /\ n \in Nat /\ \A i \in 1..n : q[i] = r[i]
    BY <1>1
  <2>3. \A k \in 0..n : g[k] = h[k] /\ g[k] \in Seq(S)
    BY <1>2, <1>4, <2>1, <2>2, StepsAgree, Zenon
  <2> QED BY <2>1, <2>3
<1>6. h[n + 1] = IF r[n + 1] \in A THEN Append(h[n], r[n + 1]) ELSE h[n]
  <2>1. n + 1 \in 0..(n + 1) /\ n + 1 # 0 /\ (n + 1) - 1 = n
    BY <1>1
  <2> QED BY <1>4, <2>1 DEF Steps
<1> QED BY <1>1, <1>2, <1>4, <1>5, <1>6 DEF r

LEMMA SeqInd ==
  ASSUME NEW S, NEW P, <<>> \in P, \A q \in Seq(S), x \in S : q \in P => Append(q, x) \in P
  PROVE  Seq(S) \subseteq P
<1> DEFINE N == {n \in Nat : \A q \in Seq(S) : Len(q) = n => q \in P}
<1>1. 0 \in N
  <2>1. \A q \in Seq(S) : Len(q) = 0 => q = <<>>
    OBVIOUS
  <2> QED BY <2>1
<1>2. ASSUME NEW n \in N PROVE n + 1 \in N
  <2> SUFFICES ASSUME NEW q \in Seq(S), Len(q) = n + 1 PROVE q \in P
    OBVIOUS
  <2>1. n \in Nat /\ q # <<>>
    OBVIOUS
  <2>2. PICK p \in Seq(S), x \in S : q = Append(p, x)
    BY <2>1, SequenceEmptyOrAppend
  <2>3. Len(p) = n
    BY <2>1, <2>2
  <2> QED BY <2>2, <2>3
<1> HIDE DEF N
<1>3. N = Nat
  BY <1>1, <1>2, NatInd DEF N
<1> QED BY <1>3 DEF N

\* Each session has one tab at most.
Unique(q) == \A i, j \in DOMAIN q : q[i] = q[j] => i = j

LEMMA ListAppend ==
  ASSUME NEW S, NEW q \in Seq(S), NEW x \in S
  PROVE  /\ ToSet(Append(q, x)) = ToSet(q) \cup {x}
         /\ Unique(Append(q, x)) <=> Unique(q) /\ x \notin ToSet(q)
         /\ Append(q, x) \in Seq(S)
<1> DEFINE r == Append(q, x)
           n == Len(q)
<1>1. /\ n \in Nat /\ DOMAIN q = 1..n /\ DOMAIN r = 1..(n + 1)
      /\ r[n + 1] = x /\ \A i \in 1..n : r[i] = q[i]
      /\ r \in Seq(S)
  OBVIOUS
<1>2. \A i : i \in 1..(n + 1) <=> i \in 1..n \/ i = n + 1
  BY <1>1
<1> HIDE DEF r, n
<1>3. ToSet(r) = ToSet(q) \cup {x}
  BY <1>1, <1>2 DEF ToSet
<1>4. ~(n + 1 \in 1..n)
  BY <1>1
<1>5. Unique(r) <=> Unique(q) /\ x \notin ToSet(q)
  <2>1. Unique(r) => Unique(q)
    BY <1>1, <1>2 DEF Unique
  <2>2. Unique(r) => x \notin ToSet(q)
    BY <1>1, <1>2, <1>4 DEF Unique, ToSet
  <2>3. Unique(q) /\ x \notin ToSet(q) => Unique(r)
    BY <1>1, <1>2 DEF Unique, ToSet
  <2> QED BY <2>1, <2>2, <2>3
<1> QED BY <1>1, <1>3, <1>5 DEF r

\* What is kept: the elements in the set, in their order and as often as before.
LEMMA KeptFacts ==
  ASSUME NEW S, NEW q \in Seq(S), NEW A
  PROVE  /\ Kept(q, A) \in Seq(S)
         /\ ToSet(Kept(q, A)) = ToSet(q) \cap A
         /\ Unique(q) => Unique(Kept(q, A))
         /\ ToSet(q) \subseteq A => Kept(q, A) = q
         /\ \A B : A \cap ToSet(q) = B \cap ToSet(q) => Kept(q, A) = Kept(q, B)
         /\ \A B : Kept(Kept(q, A), B) = Kept(q, A \cap B)
<1> DEFINE P == {p \in Seq(S) :
                   /\ ToSet(Kept(p, A)) = ToSet(p) \cap A
                   /\ Unique(p) => Unique(Kept(p, A))
                   /\ ToSet(p) \subseteq A => Kept(p, A) = p
                   /\ \A B : A \cap ToSet(p) = B \cap ToSet(p) => Kept(p, A) = Kept(p, B)
                   /\ \A B : Kept(Kept(p, A), B) = Kept(p, A \cap B)}
<1>1. <<>> \in P
  <2>1. \A B : Kept(<<>>, B) = <<>>
    BY KeptOfNone
  <2>2. ToSet(<<>>) = {} /\ Unique(<<>>) /\ <<>> \in Seq(S)
    BY DEF ToSet, Unique
  <2> QED BY <2>1, <2>2
<1>2. ASSUME NEW p \in Seq(S), NEW x \in S, p \in P PROVE Append(p, x) \in P
  <2> DEFINE k == Kept(p, A)
             r == Append(p, x)
  <2> HIDE DEF P
  <2>1. k \in Seq(S) /\ r \in Seq(S)
    <3>1. k \in Seq(S)
      BY KeptType
    <3> QED BY <3>1
  <2>2. \A B : Kept(r, B) = IF x \in B THEN Append(Kept(p, B), x) ELSE Kept(p, B)
    BY KeptAppend
  <2>3. ToSet(r) = ToSet(p) \cup {x} /\ (Unique(r) <=> Unique(p) /\ x \notin ToSet(p))
    BY ListAppend
  <2>4. ToSet(Append(k, x)) = ToSet(k) \cup {x} /\ (Unique(Append(k, x)) <=> Unique(k) /\ x \notin ToSet(k))
    BY <2>1, ListAppend
  <2>5. \A B : Kept(Append(k, x), B) = IF x \in B THEN Append(Kept(k, B), x) ELSE Kept(k, B)
    <3> HIDE DEF k
    <3> QED BY <2>1, KeptAppend
  <2>6. /\ ToSet(k) = ToSet(p) \cap A
        /\ Unique(p) => Unique(k)
        /\ ToSet(p) \subseteq A => k = p
        /\ \A B : A \cap ToSet(p) = B \cap ToSet(p) => k = Kept(p, B)
        /\ \A B : Kept(k, B) = Kept(p, A \cap B)
    BY <1>2 DEF P
  <2> HIDE DEF k
  <2>7. k = Kept(p, A)
    BY DEF k
  <2>8. r = Append(p, x)
    OBVIOUS
  <2> HIDE DEF r
  <2>9. ToSet(Kept(r, A)) = ToSet(r) \cap A
    <3>1. CASE x \in A
      <4>1. Kept(r, A) = Append(k, x)
        BY <2>2, <2>7, <3>1
      <4> QED BY <2>3, <2>4, <2>6, <3>1, <4>1
    <3>2. CASE x \notin A
      BY <2>2, <2>3, <2>6, <2>7, <3>2
    <3> QED BY <3>1, <3>2
  <2>10. Unique(r) => Unique(Kept(r, A))
    <3>1. CASE x \in A
      <4>1. Kept(r, A) = Append(k, x)
        BY <2>2, <2>7, <3>1
      <4> QED BY <2>3, <2>4, <2>6, <4>1
    <3>2. CASE x \notin A
      BY <2>2, <2>3, <2>6, <2>7, <3>2
    <3> QED BY <3>1, <3>2
  <2>11. ToSet(r) \subseteq A => Kept(r, A) = r
    BY <2>2, <2>3, <2>6, <2>7, <2>8
  <2>12. ASSUME NEW B, A \cap ToSet(r) = B \cap ToSet(r) PROVE Kept(r, A) = Kept(r, B)
    <3>1. x \in A <=> x \in B
      BY <2>3, <2>12
    <3>2. A \cap ToSet(p) = B \cap ToSet(p)
      BY <2>3, <2>12
    <3>3. Kept(p, A) = Kept(p, B)
      BY <2>6, <2>7, <3>2
    <3>4. /\ Kept(r, A) = IF x \in A THEN Append(Kept(p, A), x) ELSE Kept(p, A)
          /\ Kept(r, B) = IF x \in B THEN Append(Kept(p, B), x) ELSE Kept(p, B)
      BY <2>2
    <3> QED BY <3>1, <3>3, <3>4
  <2>13. ASSUME NEW B PROVE Kept(Kept(r, A), B) = Kept(r, A \cap B)
    <3>1. Kept(k, B) = Kept(p, A \cap B)
      BY <2>6
    <3>2. CASE x \in A
      <4>1. Kept(Kept(r, A), B) = Kept(Append(k, x), B)
        BY <2>2, <2>7, <3>2
      <4>2. Kept(Append(k, x), B) = IF x \in A \cap B THEN Append(Kept(k, B), x) ELSE Kept(k, B)
        BY <2>5, <3>2
      <4>3. Kept(r, A \cap B)
              = IF x \in A \cap B THEN Append(Kept(p, A \cap B), x) ELSE Kept(p, A \cap B)
        BY <2>2
      <4> QED BY <3>1, <4>1, <4>2, <4>3
    <3>3. CASE x \notin A
      <4>1. Kept(Kept(r, A), B) = Kept(k, B)
        BY <2>2, <2>7, <3>3
      <4> QED BY <2>2, <3>1, <3>3, <4>1
    <3> QED BY <3>2, <3>3
  <2> QED BY <2>1, <2>8, <2>9, <2>10, <2>11, <2>12, <2>13 DEF P
<1> HIDE DEF P
<1>3. q \in P
  BY <1>1, <1>2, SeqInd
<1> QED BY <1>3, KeptType DEF P

LEMMA RemoveElements ==
  ASSUME NEW S, NEW q \in Seq(S), NEW i \in DOMAIN q
  PROVE  /\ RemoveAt(q, i) \in Seq(S) /\ Len(RemoveAt(q, i)) = Len(q) - 1
         /\ \A k \in 1..(Len(q) - 1) : RemoveAt(q, i)[k] = IF k < i THEN q[k] ELSE q[k + 1]
<1> DEFINE a == SubSeq(q, 1, i - 1)
           b == SubSeq(q, i + 1, Len(q))
<1>1. Len(q) \in Nat /\ i \in 1..Len(q)
  OBVIOUS
<1>2. a \in Seq(S) /\ Len(a) = i - 1 /\ \A k \in 1..(i - 1) : a[k] = q[k]
  BY <1>1
<1>3. b \in Seq(S) /\ Len(b) = Len(q) - i /\ \A k \in 1..(Len(q) - i) : b[k] = q[i + k]
  BY <1>1
<1> HIDE DEF a, b
<1>4. /\ a \o b \in Seq(S) /\ Len(a \o b) = Len(q) - 1
      /\ \A k \in 1..(Len(q) - 1) : (a \o b)[k] = IF k <= i - 1 THEN a[k] ELSE b[k - (i - 1)]
  BY <1>1, <1>2, <1>3, SMTT(40)
<1>5. ASSUME NEW k \in 1..(Len(q) - 1) PROVE (a \o b)[k] = IF k < i THEN q[k] ELSE q[k + 1]
  <2>1. CASE k < i
    BY <1>1, <1>2, <1>4, <2>1
  <2>2. CASE ~(k < i)
    <3>1. k - (i - 1) \in 1..(Len(q) - i) /\ i + (k - (i - 1)) = k + 1 /\ ~(k <= i - 1)
      BY <1>1, <2>2
    <3> QED BY <1>3, <1>4, <2>2, <3>1
  <2> QED BY <2>1, <2>2
<1> QED BY <1>4, <1>5 DEF RemoveAt, a, b

\* Taking a tab's number out takes its session out.
LEMMA RemoveIsKept ==
  ASSUME NEW S, NEW q \in Seq(S), Unique(q), NEW i \in DOMAIN q
  PROVE  RemoveAt(q, i) = Kept(q, ToSet(q) \ {q[i]})
<1> DEFINE P == {p \in Seq(S) :
                   Unique(p) => \A n \in DOMAIN p : RemoveAt(p, n) = Kept(p, ToSet(p) \ {p[n]})}
<1>1. <<>> \in P
  OBVIOUS
<1>2. ASSUME NEW p \in Seq(S), NEW x \in S, p \in P PROVE Append(p, x) \in P
  <2> DEFINE r == Append(p, x)
             m == Len(p)
  <2>1. /\ r \in Seq(S) /\ m \in Nat /\ DOMAIN p = 1..m /\ DOMAIN r = 1..(m + 1) /\ Len(r) = m + 1
        /\ r[m + 1] = x /\ \A k \in 1..m : r[k] = p[k]
    OBVIOUS
  <2> SUFFICES ASSUME Unique(r), NEW n \in DOMAIN r
               PROVE  RemoveAt(r, n) = Kept(r, ToSet(r) \ {r[n]})
    BY <2>1
  <2>2. ToSet(r) = ToSet(p) \cup {x} /\ Unique(p) /\ x \notin ToSet(p)
    BY ListAppend
  <2>3. \A A : Kept(r, A) = IF x \in A THEN Append(Kept(p, A), x) ELSE Kept(p, A)
    BY KeptAppend
  <2> HIDE DEF P, r
  <2>4. /\ RemoveAt(r, n) \in Seq(S) /\ Len(RemoveAt(r, n)) = m
        /\ \A k \in 1..m : RemoveAt(r, n)[k] = IF k < n THEN r[k] ELSE r[k + 1]
    <3>1. /\ RemoveAt(r, n) \in Seq(S) /\ Len(RemoveAt(r, n)) = Len(r) - 1
          /\ \A k \in 1..(Len(r) - 1) : RemoveAt(r, n)[k] = IF k < n THEN r[k] ELSE r[k + 1]
      BY <2>1, RemoveElements
    <3>2. Len(r) - 1 = m
      BY <2>1
    <3> QED BY <3>1, <3>2
  <2>5. CASE n = m + 1
    <3>1. RemoveAt(r, n) = p
      <4>1. \A k \in 1..m : RemoveAt(r, n)[k] = p[k]
        BY <2>1, <2>4, <2>5
      <4> HIDE DEF m
      <4> QED BY <2>4, <4>1, SeqEqual DEF m
    <3>2. ToSet(r) \ {r[n]} = ToSet(p)
      BY <2>1, <2>2, <2>5
    <3>3. Kept(r, ToSet(p)) = Kept(p, ToSet(p))
      BY <2>2, <2>3
    <3>4. Kept(p, ToSet(p)) = p
      BY KeptFacts
    <3> QED BY <3>1, <3>2, <3>3, <3>4
  <2>6. CASE n \in 1..m
    <3>1. r[n] = p[n] /\ p[n] \in ToSet(p) /\ p[n] # x
      BY <2>1, <2>2, <2>6 DEF ToSet
    <3> DEFINE A == ToSet(p) \ {p[n]}
    <3>2. RemoveAt(p, n) = Kept(p, A)
      BY <1>2, <2>1, <2>2, <2>6 DEF P
    <3>3. Kept(p, ToSet(r) \ {r[n]}) = Kept(p, A)
      <4>1. (ToSet(r) \ {r[n]}) \cap ToSet(p) = A \cap ToSet(p)
        BY <2>2, <3>1
      <4> QED BY <4>1, KeptFacts
    <3>4. Kept(r, ToSet(r) \ {r[n]}) = Append(Kept(p, A), x)
      BY <2>2, <2>3, <3>1, <3>3
    <3>5. /\ RemoveAt(p, n) \in Seq(S) /\ Len(RemoveAt(p, n)) = m - 1
          /\ \A k \in 1..(m - 1) : RemoveAt(p, n)[k] = IF k < n THEN p[k] ELSE p[k + 1]
      BY <2>1, <2>6, RemoveElements
    <3>6. /\ Append(RemoveAt(p, n), x) \in Seq(S) /\ Len(Append(RemoveAt(p, n), x)) = m
          /\ Append(RemoveAt(p, n), x)[m] = x
          /\ \A k \in 1..(m - 1) : Append(RemoveAt(p, n), x)[k] = RemoveAt(p, n)[k]
      <4> DEFINE t == RemoveAt(p, n)
      <4>1. t \in Seq(S) /\ Len(t) = m - 1 /\ m - 1 \in Nat
        BY <2>1, <2>6, <3>5
      <4> HIDE DEF t, m
      <4>2. Append(t, x) \in Seq(S) /\ Len(Append(t, x)) = m /\ Append(t, x)[m] = x
            /\ \A k \in 1..(m - 1) : Append(t, x)[k] = t[k]
        BY <2>1, <4>1
      <4> QED BY <4>2 DEF t
    <3>7. \A k \in 1..m : RemoveAt(r, n)[k] = Append(RemoveAt(p, n), x)[k]
      BY <2>1, <2>4, <2>6, <3>5, <3>6
    <3>8. RemoveAt(r, n) = Append(RemoveAt(p, n), x)
      <4> HIDE DEF m
      <4> DEFINE c == Append(RemoveAt(p, n), x)
                 d == RemoveAt(r, n)
      <4>1. c \in Seq(S) /\ d \in Seq(S) /\ Len(c) = Len(d) /\ \A k \in 1..Len(c) : c[k] = d[k]
        BY <2>4, <3>6, <3>7
      <4> HIDE DEF c, d
      <4>2. c = d
        BY <4>1, SeqEqual
      <4> QED BY <4>2 DEF c, d
    <3> QED BY <3>2, <3>4, <3>8
  <2> QED BY <2>1, <2>5, <2>6
<1> HIDE DEF P
<1>3. q \in P
  BY <1>1, <1>2, SeqInd
<1> QED BY <1>3 DEF P

\* The active tab is found, or the first is taken.
LEMMA ActiveIsRestored ==
  ASSUME NEW w \in WindowInfo, NEW A, RestoreTabs(w, A) # <<>>
  PROVE  RestoreActive(w, A) \in 1..Len(RestoreTabs(w, A))
<1> DEFINE q == RestoreTabs(w, A)
           I == {i \in 1..Len(q) : q[i] = w.active}
<1>1. q \in Seq(Session)
  BY KeptType DEF WindowInfo, RestoreTabs
<1>2. Len(q) \in Nat /\ 1 \in 1..Len(q)
  BY <1>1
<1>3. ASSUME I # {} PROVE Min(I) \in I
  <2>1. I \in SUBSET Nat
    BY <1>2
  <2> HIDE DEF I
  <2>2. \E m \in I : \A k \in I : m <= k
    BY <1>3, <2>1, LeastNat
  <2> QED BY <2>2 DEF Min
<1>4. RestoreActive(w, A) = LET n == IF I # {} THEN Min(I) ELSE 0 IN IF q # <<>> /\ n = 0 THEN 1 ELSE n
  BY DEF RestoreActive, SelectInSeq
<1> QED BY <1>2, <1>3, <1>4

-----------------------------------------------------------------------------
\* The lists have each session once, none whose closing was written, and none not drawn.
OpenTabs == ToSet(tabs) \cup ToSet(window.open) \cup ToSet(file.open)

ListsFit ==
  /\ Unique(tabs) /\ Unique(window.open) /\ Unique(file.open)
  /\ file.active \in ToSet(file.open) \cup {NoSession}
  /\ OpenTabs \cup closed \subseteq used
  /\ OpenTabs \cap closed = {}

\* A session that is being created has no tab yet, one that is being deleted no longer one.
HandlerFits ==
  /\ handler.what = "open" =>
       handler.session \in (Session \cap used \cap disk) \ (OpenTabs \cup closed)
  /\ handler.what = "delete" => handler.session \in Session \ ToSet(window.open)
  /\ ~up => handler = Idle /\ tabs = <<>> /\ running = {} /\ pending = 0

\* Within a handler too, a restart would restore the tabs; what runs and is open is on disk.
SavedFits ==
  /\ running \cap ToSet(window.open) \subseteq disk
  /\ up /\ loaded => RestoreTabs(window, disk) = tabs

TabsInv == PaneAgrees /\ ListsFit /\ HandlerFits /\ SavedFits

LEMMA InitTabsInv == Init => TabsInv
<1> SUFFICES ASSUME Init PROVE TabsInv
  OBVIOUS
<1>1. ToSet(<<>>) = {} /\ Unique(<<>>) /\ DOMAIN <<>> = {}
  BY DEF ToSet, Unique
<1>2. Default \in WindowInfo /\ Default.open = <<>> /\ Default.active = NoSession
  BY DEF Default, WindowInfo
<1>3. Idle \in [what : {"nothing", "open", "delete"}, session : Session \cup {NoSession}]
      /\ Idle.what = "nothing"
  BY DEF Idle
<1>4. PaneAgrees
  <2>1. file = Default /\ window = Default /\ handler = Idle /\ tabs = <<>> /\ pane = 0 /\ pending = 0
        /\ up = FALSE /\ loaded = FALSE /\ askedFor = NoSession
        /\ disk = {} /\ used = {} /\ running = {} /\ closed = {}
    BY DEF Init
  <2>2. <<>> \in Seq(Session)
    OBVIOUS
  <2>3. PaneShowsTab /\ PendingIsAskedFor
    BY <2>1 DEF PaneShowsTab, PendingIsAskedFor
  <2>4. TypeOK
    BY <1>2, <1>3, <2>1, <2>2, <2>3 DEF TypeOK
  <2> QED BY <2>3, <2>4 DEF PaneAgrees
<1>5. ListsFit
  BY <1>1, <1>2 DEF Init, ListsFit, OpenTabs
<1>6. HandlerFits /\ SavedFits
  BY <1>3 DEF Init, HandlerFits, SavedFits
<1> QED BY <1>4, <1>5, <1>6 DEF TabsInv

-----------------------------------------------------------------------------
\* What becomes of a window when a tab is closed, opened or selected.

Fits(w) ==
  w \in WindowInfo /\ Unique(w.open) /\ w.active \in ToSet(w.open) \cup {NoSession}

LEMMA WindowClosed ==
  ASSUME NEW w, Fits(w), NEW s \in Session
  PROVE  /\ Fits(UpdateTabClosed(w, s))
         /\ ToSet(UpdateTabClosed(w, s).open) = ToSet(w.open) \ {s}
         /\ \A A : RestoreTabs(UpdateTabClosed(w, s), A)
                     = Kept(RestoreTabs(w, A), ToSet(RestoreTabs(w, A)) \ {s})
<1> DEFINE T == ToSet(w.open)
           open == Kept(w.open, T \ {s})
           v == UpdateTabClosed(w, s)
<1>1. w.open \in Seq(Session) /\ w.active \in Session \cup {NoSession}
  BY DEF Fits, WindowInfo
<1>2. open \in Seq(Session) /\ ToSet(open) = T \cap (T \ {s}) /\ Unique(open)
  BY <1>1, KeptFacts DEF Fits
<1>3. v.open = open
      /\ v = [open |-> v.open, active |-> v.active]
      /\ v.active = IF w.active # s THEN w.active ELSE IF open = <<>> THEN NoSession ELSE Last(open)
  BY DEF UpdateTabClosed
<1> HIDE DEF open, v
<1>4. open # <<>> => Last(open) \in ToSet(open) /\ Last(open) \in Session
  BY <1>2 DEF Last, ToSet
<1>5. v.active \in ToSet(open) \cup {NoSession} /\ v.active \in Session \cup {NoSession}
  BY <1>1, <1>2, <1>3, <1>4 DEF Fits
<1>6. Fits(v)
  BY <1>2, <1>3, <1>5 DEF Fits, WindowInfo
<1>7. ASSUME NEW A
      PROVE  Kept(open, A) = Kept(Kept(w.open, A), ToSet(Kept(w.open, A)) \ {s})
  <2> DEFINE R == ToSet(Kept(w.open, A)) \ {s}
  <2>1. R = (T \cap A) \ {s}
    BY <1>1, KeptFacts
  <2>2. Kept(open, A) = Kept(w.open, (T \ {s}) \cap A)
    BY <1>1, KeptFacts DEF open
  <2>3. Kept(Kept(w.open, A), R) = Kept(w.open, A \cap R)
    BY <1>1, KeptFacts
  <2>4. A \cap R = (T \ {s}) \cap A
    BY <2>1
  <2> QED BY <2>2, <2>3, <2>4
<1> QED BY <1>2, <1>3, <1>6, <1>7 DEF v, RestoreTabs

LEMMA WindowOpened ==
  ASSUME NEW w, Fits(w), NEW s \in Session \ ToSet(w.open)
  PROVE  /\ Fits(SetActive(UpdateTabOpen(w, s), s))
         /\ SetActive(UpdateTabOpen(w, s), s).open = Append(w.open, s)
         /\ ToSet(SetActive(UpdateTabOpen(w, s), s).open) = ToSet(w.open) \cup {s}
<1> DEFINE u == UpdateTabOpen(w, s)
           v == SetActive(u, s)
<1>1. w.open \in Seq(Session) /\ w \in WindowInfo /\ Unique(w.open)
  BY DEF Fits, WindowInfo
<1>2. ~Contains(w.open, s)
  BY <1>1 DEF Contains, ToSet
<1>3. u = [w EXCEPT !.open = Append(@, s)]
  BY <1>2 DEF UpdateTabOpen
<1>4. /\ Append(w.open, s) \in Seq(Session) /\ Unique(Append(w.open, s))
      /\ ToSet(Append(w.open, s)) = ToSet(w.open) \cup {s}
  BY <1>1, ListAppend
<1>5. u \in WindowInfo /\ u.open = Append(w.open, s)
  BY <1>1, <1>3, <1>4 DEF WindowInfo
<1> HIDE DEF u
<1>6. Contains(u.open, s)
  <2>1. Len(w.open) + 1 \in 1..Len(u.open) /\ u.open[Len(w.open) + 1] = s
    BY <1>1, <1>5
  <2> QED BY <2>1 DEF Contains
<1>7. v = [u EXCEPT !.active = s]
  BY <1>6 DEF SetActive
<1>8. v \in WindowInfo /\ v.open = u.open /\ v.active = s
  BY <1>5, <1>7 DEF WindowInfo
<1> HIDE DEF v
<1>9. Fits(v) /\ v.open = Append(w.open, s)
  BY <1>4, <1>5, <1>8 DEF Fits
<1> QED BY <1>4, <1>9 DEF u, v

LEMMA WindowSelected ==
  ASSUME NEW w, Fits(w), NEW s \in Session
  PROVE  Fits(SetActive(w, s)) /\ SetActive(w, s).open = w.open
<1>1. w.open \in Seq(Session) /\ w \in WindowInfo
  BY DEF Fits, WindowInfo
<1>2. CASE Contains(w.open, s)
  <2>1. SetActive(w, s) = [w EXCEPT !.active = s]
    BY <1>2 DEF SetActive
  <2>2. s \in ToSet(w.open)
    BY <1>1, <1>2 DEF Contains, ToSet
  <2> QED BY <1>1, <2>1, <2>2 DEF Fits, WindowInfo
<1>3. CASE ~Contains(w.open, s)
  BY <1>3 DEF SetActive
<1> QED BY <1>2, <1>3

-----------------------------------------------------------------------------
\* Each action keeps the invariant.

LEMMA InvFacts ==
  ASSUME TabsInv
  PROVE  /\ Fits(window) /\ Fits(file) /\ tabs \in Seq(Session) /\ Len(tabs) \in Nat
         /\ DOMAIN tabs = 1..Len(tabs) /\ pane \in Nat /\ pending \in Nat
         /\ disk \subseteq Session /\ used \subseteq Session
         /\ running \subseteq Session /\ closed \subseteq Session
         /\ handler \in [what : {"nothing", "open", "delete"}, session : Session \cup {NoSession}]
         /\ handler.what \in {"nothing", "open", "delete"}
         /\ askedFor \in Session \cup {NoSession}
BY DEF TabsInv, PaneAgrees, TypeOK, ListsFit, Fits

LEMMA StartKeeps == TabsInv /\ Start => TabsInv'
<1> SUFFICES ASSUME TabsInv, Start PROVE TabsInv'
  OBVIOUS
<1>1. PICK w, wTabs, wPane \in {file, Default}, forTabs, forPane \in {disk, {}} :
        /\ window' = w
        /\ tabs' = RestoreTabs(wTabs, forTabs)
        /\ pane' = IF RestoreTabs(wPane, forPane) # <<>> THEN RestoreActive(wPane, forPane)
                   ELSE IF tabs' = <<>> THEN 0 ELSE 1
        /\ loaded' = (wTabs = w /\ forTabs = disk)
  BY DEF Start
<1>2. /\ ~up /\ up' /\ up' = TRUE
      /\ UNCHANGED <<disk, file, closed, pending, handler, running, used, askedFor>>
      /\ handler = Idle /\ tabs = <<>> /\ running = {} /\ pending = 0
  BY DEF Start, diskVars, TabsInv, HandlerFits
<1>3. Fits(Default) /\ ToSet(Default.open) = {} /\ Default.open = <<>>
  BY DEF Fits, Default, WindowInfo, Unique, ToSet
<1>4. \A x \in {file, Default} : Fits(x) /\ x.open \in Seq(Session) /\ ToSet(x.open) \subseteq ToSet(file.open)
  BY <1>3, InvFacts DEF Fits, WindowInfo
<1>5. \A A : \A x \in {file, Default} : RestoreTabs(x, A) \in Seq(Session) /\ Unique(RestoreTabs(x, A))
        /\ ToSet(RestoreTabs(x, A)) \subseteq ToSet(file.open)
  <2> TAKE A
  <2> TAKE x \in {file, Default}
  <2>1. x.open \in Seq(Session) /\ Unique(x.open) /\ ToSet(x.open) \subseteq ToSet(file.open)
    BY <1>4 DEF Fits
  <2> QED BY <2>1, KeptFacts DEF RestoreTabs
<1>6. tabs' \in Seq(Session) /\ Unique(tabs') /\ ToSet(tabs') \subseteq ToSet(file.open)
  BY <1>1, <1>5
<1>7. PaneShowsTab' /\ pane' \in Nat
  <2>1. CASE RestoreTabs(wPane, forPane) # <<>>
    <3>1. pane' \in 1..Len(RestoreTabs(wPane, forPane)) /\ Len(RestoreTabs(wPane, forPane)) \in Nat
      BY <1>1, <1>4, <1>5, <2>1, ActiveIsRestored DEF Fits
    <3>2. \A A : RestoreTabs(Default, A) = <<>>
      BY <1>3, KeptOfNone DEF RestoreTabs
    <3>3. \A x \in {file, Default} : RestoreTabs(x, {}) = <<>>
      <4> TAKE x \in {file, Default}
      <4>1. ToSet(RestoreTabs(x, {})) = {} /\ RestoreTabs(x, {}) \in Seq(Session)
        BY <1>4, KeptFacts DEF RestoreTabs
      <4> DEFINE q == RestoreTabs(x, {})
      <4> HIDE DEF q
      <4>2. q \in Seq(Session) /\ ToSet(q) = {}
        BY <4>1 DEF q
      <4>3. q # <<>> => 1 \in DOMAIN q
        BY <4>2
      <4>4. q # <<>> => q[1] \in ToSet(q)
        BY <4>3 DEF ToSet
      <4> QED BY <4>2, <4>4 DEF q
    <3>4. tabs' # <<>> => tabs' = RestoreTabs(wPane, forPane)
      BY <1>1, <2>1, <3>2, <3>3
    <3>5. tabs' # <<>> => pane' \in DOMAIN tabs'
      BY <1>6, <3>1, <3>4
    <3> QED BY <3>1, <3>5 DEF PaneShowsTab
  <2>2. CASE RestoreTabs(wPane, forPane) = <<>>
    <3>1. pane' = IF tabs' = <<>> THEN 0 ELSE 1
      BY <1>1, <2>2
    <3>2. tabs' # <<>> => 1 \in DOMAIN tabs'
      BY <1>6
    <3> QED BY <3>1, <3>2 DEF PaneShowsTab
  <2> QED BY <2>1, <2>2
<1>8. Fits(window') /\ ToSet(window'.open) \subseteq ToSet(file.open) /\ loaded' \in BOOLEAN
  BY <1>1, <1>4
<1>9. PaneAgrees'
  BY <1>2, <1>6, <1>7, <1>8, InvFacts DEF PaneAgrees, TypeOK, PendingIsAskedFor, Fits
<1>10. ListsFit'
  BY <1>2, <1>6, <1>8 DEF TabsInv, ListsFit, OpenTabs, Fits
<1>11. HandlerFits'
  BY <1>2 DEF HandlerFits, Idle
<1>12. SavedFits'
  <2>1. loaded' => RestoreTabs(window', disk') = tabs'
    BY <1>1, <1>2
  <2> QED BY <1>2, <2>1 DEF SavedFits
<1> QED BY <1>9, <1>10, <1>11, <1>12 DEF TabsInv

LEMMA QuitKeeps == TabsInv /\ Quit => TabsInv'
<1> SUFFICES ASSUME TabsInv, Quit PROVE TabsInv'
  OBVIOUS
<1>1. /\ up' = FALSE /\ window' = Default /\ tabs' = <<>> /\ pane' = 0 /\ pending' = 0
      /\ handler' = Idle /\ running' = {}
      /\ UNCHANGED <<disk, file, closed, used, loaded, askedFor>>
  BY DEF Quit, diskVars, historyVars
<1>2. Fits(Default) /\ ToSet(Default.open) = {}
  BY DEF Fits, Default, WindowInfo, Unique, ToSet
<1>3. tabs' \in Seq(Session) /\ Unique(tabs') /\ ToSet(tabs') = {}
  BY <1>1 DEF Unique, ToSet
<1>4. Idle \in [what : {"nothing", "open", "delete"}, session : Session \cup {NoSession}]
      /\ Idle.what = "nothing"
  BY DEF Idle
<1>5. file \in WindowInfo /\ loaded \in BOOLEAN
  BY DEF TabsInv, PaneAgrees, TypeOK
<1>6. PaneShowsTab' /\ PendingIsAskedFor'
  BY <1>1 DEF PaneShowsTab, PendingIsAskedFor
<1>7. PaneAgrees'
  BY <1>1, <1>2, <1>3, <1>4, <1>5, <1>6, InvFacts DEF PaneAgrees, TypeOK, Fits
<1>8. ListsFit'
  BY <1>1, <1>2, <1>3 DEF TabsInv, ListsFit, OpenTabs, Fits
<1>9. HandlerFits' /\ SavedFits'
  BY <1>1, <1>4 DEF HandlerFits, SavedFits
<1> QED BY <1>7, <1>8, <1>9 DEF TabsInv

LEMMA CreateKeeps == ASSUME NEW s \in Session PROVE TabsInv /\ CreateSession(s) => TabsInv'
<1> SUFFICES ASSUME TabsInv, CreateSession(s) PROVE TabsInv'
  OBVIOUS
<1>1. /\ up /\ handler = Idle /\ s \notin used /\ used' = used \cup {s}
      /\ \/ disk' = disk \cup {s} /\ handler' = [what |-> "open", session |-> s]
         \/ UNCHANGED <<disk, handler>>
      /\ UNCHANGED <<file, up, window, tabs, pane, pending, running, loaded, askedFor, closed>>
  BY DEF CreateSession
<1>2. disk' \subseteq Session /\ used' \subseteq Session
      /\ handler' \in [what : {"nothing", "open", "delete"}, session : Session \cup {NoSession}]
  BY <1>1, InvFacts
<1>3. PaneAgrees'
  <2>1. TypeOK /\ PaneShowsTab /\ PendingIsAskedFor
    BY DEF TabsInv, PaneAgrees, TypeOK
  <2>2. PaneShowsTab' /\ PendingIsAskedFor'
    BY <1>1, <2>1 DEF PaneShowsTab, PendingIsAskedFor
  <2> QED BY <1>1, <1>2, <2>1, <2>2 DEF PaneAgrees, TypeOK
<1>4. OpenTabs' = OpenTabs /\ ListsFit /\ s \notin OpenTabs \cup closed
  BY <1>1 DEF OpenTabs, TabsInv, ListsFit
<1>5. ListsFit'
  BY <1>1, <1>4 DEF ListsFit
<1>6. HandlerFits'
  BY <1>1, <1>4 DEF HandlerFits, Idle
<1>7. SavedFits'
  <2>1. s \notin ToSet(window.open) /\ window.open \in Seq(Session)
    BY <1>4, InvFacts DEF OpenTabs, Fits, WindowInfo
  <2>2. disk' \cap ToSet(window.open) = disk \cap ToSet(window.open)
    BY <1>1, <2>1
  <2>3. RestoreTabs(window, disk') = RestoreTabs(window, disk)
    BY <2>1, <2>2, KeptFacts DEF RestoreTabs
  <2> QED BY <1>1, <2>3 DEF TabsInv, SavedFits
<1> QED BY <1>3, <1>5, <1>6, <1>7 DEF TabsInv

\* What a save may leave in the file.
LEMMA SaveFits ==
  ASSUME TabsInv, NEW gone \in SUBSET Session, SaveWindow(window', gone), Fits(window')
  PROVE  /\ Fits(file') /\ closed' \subseteq closed \cup gone
         /\ ToSet(file'.open) \subseteq ToSet(file.open) \cup ToSet(window'.open)
         /\ closed' = closed \/ file' = window'
BY InvFacts DEF SaveWindow

LEMMA OpenKeeps == TabsInv /\ OpenTab => TabsInv'
<1> SUFFICES ASSUME TabsInv, OpenTab PROVE TabsInv'
  OBVIOUS
<1> DEFINE s == handler.session
<1>1. /\ handler.what = "open" /\ running' = running \cup {s} /\ tabs' = Append(tabs, s)
      /\ pane' = Len(tabs') /\ window' = SetActive(UpdateTabOpen(window, s), s)
      /\ SaveWindow(window', {}) /\ handler' = Idle
      /\ UNCHANGED <<disk, up, pending, used, loaded, askedFor>>
  BY DEF OpenTab, historyVars
<1>2. s \in Session /\ s \in used /\ s \in disk /\ s \notin OpenTabs \cup closed
  BY <1>1 DEF TabsInv, HandlerFits
<1>3. s \notin ToSet(tabs) /\ s \notin ToSet(window.open)
  BY <1>2 DEF OpenTabs
<1> HIDE DEF s
<1>4. /\ Fits(window') /\ window'.open = Append(window.open, s)
      /\ ToSet(window'.open) = ToSet(window.open) \cup {s}
  BY <1>1, <1>2, <1>3, InvFacts, WindowOpened
<1>5. /\ Fits(file') /\ closed' \subseteq closed
      /\ ToSet(file'.open) \subseteq ToSet(file.open) \cup ToSet(window'.open)
  BY <1>1, <1>4, SaveFits
<1>6. /\ tabs' \in Seq(Session) /\ ToSet(tabs') = ToSet(tabs) \cup {s} /\ Unique(tabs')
  BY <1>1, <1>2, <1>3, InvFacts, ListAppend DEF TabsInv, ListsFit
<1>7. Len(tabs') = Len(tabs) + 1 /\ \A i \in 1..Len(tabs) : tabs'[i] = tabs[i]
  BY <1>1, <1>2, InvFacts
<1>8. pane' \in Nat /\ PaneShowsTab'
  BY <1>1, <1>6, <1>7, InvFacts DEF PaneShowsTab
<1>9. PendingIsAskedFor'
  <2>1. PendingIsAskedFor
    BY DEF TabsInv, PaneAgrees
  <2>2. DOMAIN tabs' = 1..(Len(tabs) + 1)
    BY <1>6, <1>7
  <2> QED BY <1>1, <1>7, <2>1, <2>2, InvFacts DEF PendingIsAskedFor
<1>10. PaneAgrees'
  <2>1. up \in BOOLEAN /\ loaded \in BOOLEAN
    BY DEF TabsInv, PaneAgrees, TypeOK
  <2>2. Idle \in [what : {"nothing", "open", "delete"}, session : Session \cup {NoSession}]
    BY DEF Idle
  <2>3. running' \subseteq Session /\ closed' \subseteq Session
    BY <1>1, <1>2, <1>5, InvFacts
  <2> QED BY <1>1, <1>4, <1>5, <1>6, <1>8, <1>9, <2>1, <2>2, <2>3, InvFacts
          DEF PaneAgrees, TypeOK, Fits
<1>11. ListsFit'
  <2>1. ListsFit /\ OpenTabs' \subseteq OpenTabs \cup {s}
    BY <1>4, <1>5, <1>6 DEF TabsInv, OpenTabs
  <2> QED BY <1>1, <1>2, <1>4, <1>5, <1>6, <2>1 DEF ListsFit, Fits
<1>12. HandlerFits'
  <2>1. up /\ Idle.what = "nothing"
    BY <1>1 DEF TabsInv, HandlerFits, Idle
  <2> QED BY <1>1, <2>1 DEF HandlerFits
<1>13. SavedFits'
  <2>1. window.open \in Seq(Session)
    BY InvFacts DEF Fits, WindowInfo
  <2>2. RestoreTabs(window', disk) = Append(RestoreTabs(window, disk), s)
    BY <1>2, <1>4, <2>1, KeptAppend DEF RestoreTabs
  <2> QED BY <1>1, <1>2, <1>4, <2>2 DEF TabsInv, SavedFits
<1> QED BY <1>10, <1>11, <1>12, <1>13 DEF TabsInv

LEMMA SelectKeeps == ASSUME NEW i \in 1..Len(tabs) PROVE TabsInv /\ SelectTab(i) => TabsInv'
<1> SUFFICES ASSUME TabsInv, SelectTab(i) PROVE TabsInv'
  OBVIOUS
<1>1. /\ i \in DOMAIN tabs /\ pane' = i /\ window' = SetActive(window, tabs[i])
      /\ SaveWindow(window', {})
      /\ UNCHANGED <<disk, up, tabs, pending, handler, running, used, loaded, askedFor>>
  BY DEF SelectTab, historyVars
<1>2. Fits(window') /\ window'.open = window.open
  BY <1>1, InvFacts, WindowSelected
<1>3. /\ Fits(file') /\ closed' \subseteq closed
      /\ ToSet(file'.open) \subseteq ToSet(file.open) \cup ToSet(window'.open)
  BY <1>1, <1>2, SaveFits
<1>4. PaneAgrees'
  <2>1. up \in BOOLEAN /\ loaded \in BOOLEAN /\ PendingIsAskedFor
    BY DEF TabsInv, PaneAgrees, TypeOK
  <2>2. PaneShowsTab' /\ PendingIsAskedFor' /\ pane' \in Nat
    BY <1>1, <2>1, InvFacts DEF PaneShowsTab, PendingIsAskedFor
  <2>3. closed' \subseteq Session
    BY <1>3, InvFacts
  <2> QED BY <1>1, <1>2, <1>3, <2>1, <2>2, <2>3, InvFacts DEF PaneAgrees, TypeOK, Fits
<1>5. OpenTabs' \subseteq OpenTabs
  BY <1>1, <1>2, <1>3 DEF OpenTabs
<1>6. ListsFit'
  BY <1>1, <1>2, <1>3, <1>5 DEF TabsInv, ListsFit, Fits
<1>7. HandlerFits'
  BY <1>1, <1>2, <1>3, <1>5 DEF TabsInv, HandlerFits
<1>8. SavedFits'
  BY <1>1, <1>2 DEF TabsInv, SavedFits, RestoreTabs
<1> QED BY <1>4, <1>6, <1>7, <1>8 DEF TabsInv

\* Home is selected, or the dialog is opened or left: only numbers of tabs change.
LEMMA NumbersKeep ==
  ASSUME TabsInv,
         \/ SelectHome
         \/ \E i \in DOMAIN tabs : AskClose(i)
         \/ CancelClose
  PROVE  TabsInv'
<1>1. UNCHANGED <<disk, file, closed, up, window, tabs, handler, running, used, loaded>>
  BY DEF SelectHome, AskClose, CancelClose, diskVars, historyVars
<1>2. /\ \/ pane' = 0 /\ UNCHANGED <<pending, askedFor>>
         \/ \E i \in DOMAIN tabs : pane' = pane /\ pending' = i /\ askedFor' = tabs[i]
         \/ pane' = pane /\ pending' = 0 /\ askedFor' = askedFor
      /\ up
  BY DEF SelectHome, AskClose, CancelClose, diskVars, historyVars
<1>3. PaneShowsTab /\ PendingIsAskedFor
  BY DEF TabsInv, PaneAgrees, TypeOK
<1>4. PaneShowsTab' /\ PendingIsAskedFor'
  BY <1>1, <1>2, <1>3 DEF PaneShowsTab, PendingIsAskedFor
<1>5. pane' \in Nat /\ pending' \in Nat /\ askedFor' \in Session \cup {NoSession}
  BY <1>2, InvFacts
<1>6. PaneAgrees'
  BY <1>1, <1>4, <1>5 DEF TabsInv, PaneAgrees, TypeOK
<1>7. ListsFit' /\ HandlerFits' /\ SavedFits'
  BY <1>1, <1>2 DEF TabsInv, ListsFit, OpenTabs, HandlerFits, SavedFits
<1> QED BY <1>6, <1>7 DEF TabsInv

LEMMA CloseKeeps == TabsInv /\ ConfirmClose => TabsInv'
<1> SUFFICES ASSUME TabsInv, ConfirmClose PROVE TabsInv'
  OBVIOUS
<1> DEFINE s == tabs[pending]
<1>1. /\ pending \in DOMAIN tabs /\ tabs' = RemoveAt(tabs, pending)
      /\ pane' = PaneAfterClose(pending, Len(tabs')) /\ window' = UpdateTabClosed(window, s)
      /\ SaveWindow(window', {s}) /\ handler' = [what |-> "delete", session |-> s]
      /\ pending' = 0 /\ up
      /\ UNCHANGED <<disk, up, running, used, loaded, askedFor>>
  BY DEF ConfirmClose, CloseTab, historyVars
<1>2. s \in Session /\ s \in ToSet(tabs)
  BY <1>1, InvFacts DEF ToSet
<1>3. tabs' = Kept(tabs, ToSet(tabs) \ {s})
  BY <1>1, InvFacts, RemoveIsKept DEF TabsInv, ListsFit
<1>4. tabs' \in Seq(Session) /\ Len(tabs') = Len(tabs) - 1 /\ Len(tabs') \in Nat
  <2>1. tabs \in Seq(Session) /\ Len(tabs) \in Nat /\ pending \in 1..Len(tabs)
    BY <1>1, InvFacts
  <2>2. RemoveAt(tabs, pending) \in Seq(Session) /\ Len(RemoveAt(tabs, pending)) = Len(tabs) - 1
    BY <1>1, <2>1, RemoveElements
  <2> QED BY <1>1, <2>1, <2>2
<1> HIDE DEF s
<1>5. ToSet(tabs') = ToSet(tabs) \ {s} /\ Unique(tabs')
  <2>1. ToSet(tabs') = ToSet(tabs) \cap (ToSet(tabs) \ {s}) /\ Unique(tabs')
    BY <1>3, InvFacts, KeptFacts DEF TabsInv, ListsFit
  <2> QED BY <2>1
<1>6. /\ Fits(window') /\ ToSet(window'.open) = ToSet(window.open) \ {s}
      /\ \A A : RestoreTabs(window', A)
                  = Kept(RestoreTabs(window, A), ToSet(RestoreTabs(window, A)) \ {s})
  BY <1>1, <1>2, InvFacts, WindowClosed
<1>7. /\ Fits(file') /\ closed' \subseteq closed \cup {s}
      /\ ToSet(file'.open) \subseteq ToSet(file.open) \cup ToSet(window'.open)
      /\ closed' = closed \/ file' = window'
  BY <1>1, <1>2, <1>6, SaveFits
<1>8. pane' \in Nat /\ PaneShowsTab'
  <2>1. PaneShowsTab /\ pane \in Nat /\ pending \in 1..Len(tabs) /\ Len(tabs) \in Nat
    BY <1>1, InvFacts DEF TabsInv, PaneAgrees, TypeOK
  <2>2. DOMAIN tabs' = 1..Len(tabs') /\ (tabs' # <<>> => Len(tabs') # 0)
    BY <1>4
  <2>3. pane' \in Nat /\ (Len(tabs') # 0 /\ pane' # 0 => pane' \in 1..Len(tabs'))
    BY <1>1, <1>4, <2>1 DEF PaneAfterClose
  <2> QED BY <2>2, <2>3 DEF PaneShowsTab
<1>9. PaneAgrees'
  <2>1. up \in BOOLEAN /\ loaded \in BOOLEAN
    BY DEF TabsInv, PaneAgrees, TypeOK
  <2>2. handler' \in [what : {"nothing", "open", "delete"}, session : Session \cup {NoSession}]
    BY <1>1, <1>2
  <2>3. closed' \subseteq Session /\ PendingIsAskedFor'
    BY <1>1, <1>2, <1>7, InvFacts DEF PendingIsAskedFor
  <2> QED BY <1>1, <1>4, <1>6, <1>7, <1>8, <2>1, <2>2, <2>3, InvFacts
          DEF PaneAgrees, TypeOK, Fits
<1>10. ListsFit'
  <2>1. ListsFit /\ OpenTabs' \subseteq OpenTabs
    BY <1>5, <1>6, <1>7 DEF TabsInv, OpenTabs
  <2>2. s \in used /\ (OpenTabs \cup closed)' \subseteq used'
    BY <1>1, <1>2, <1>7, <2>1 DEF ListsFit, OpenTabs
  <2>3. OpenTabs' \cap closed' = {}
    <3>1. CASE closed' = closed
      BY <2>1, <3>1 DEF ListsFit
    <3>2. CASE file' = window'
      <4>1. s \notin OpenTabs'
        BY <1>5, <1>6, <3>2 DEF OpenTabs
      <4> QED BY <1>7, <2>1, <4>1 DEF ListsFit
    <3> QED BY <1>7, <3>1, <3>2
  <2> QED BY <1>5, <1>6, <1>7, <2>2, <2>3 DEF ListsFit, Fits
<1>11. HandlerFits'
  BY <1>1, <1>2, <1>6 DEF HandlerFits
<1>12. SavedFits'
  BY <1>1, <1>3, <1>6 DEF TabsInv, SavedFits
<1> QED BY <1>9, <1>10, <1>11, <1>12 DEF TabsInv

\* A session comes to the disk or goes from it.
LEMMA DiskKeeps ==
  ASSUME TabsInv, DeleteSession \/ \E s \in Session : WorkflowSaves(s)
  PROVE  TabsInv'
<1>1. UNCHANGED <<file, up, window, tabs, pane, pending, running, used, loaded, askedFor, closed>>
  BY DEF DeleteSession, WorkflowSaves, historyVars
<1>2. /\ handler' = handler \/ handler' = Idle
      /\ disk' \subseteq Session
      /\ handler'.what = "open" => handler' = handler /\ disk \subseteq disk'
      /\ disk' \cap ToSet(window.open) = disk \cap ToSet(window.open)
  <2>1. CASE DeleteSession
    <3>1. handler.session \notin ToSet(window.open)
      BY <2>1 DEF DeleteSession, TabsInv, HandlerFits
    <3>2. disk' \in {disk, disk \ {handler.session}} /\ handler' = Idle /\ Idle.what = "nothing"
      BY <2>1 DEF DeleteSession, Idle
    <3> QED BY <3>1, <3>2, InvFacts
  <2>2. CASE \E s \in Session : WorkflowSaves(s)
    <3>1. PICK s \in Session : s \in running /\ disk' = disk \cup {s} /\ handler' = handler
      BY <2>2 DEF WorkflowSaves
    <3>2. s \in ToSet(window.open) => s \in disk
      BY <3>1 DEF TabsInv, SavedFits
    <3> QED BY <3>1, <3>2, InvFacts
  <2> QED BY <2>1, <2>2
<1>3. PaneAgrees'
  <2>1. PaneShowsTab' /\ PendingIsAskedFor'
    <3>1. PaneShowsTab /\ PendingIsAskedFor
      BY DEF TabsInv, PaneAgrees, TypeOK
    <3> QED BY <1>1, <3>1 DEF PaneShowsTab, PendingIsAskedFor
  <2>2. handler' \in [what : {"nothing", "open", "delete"}, session : Session \cup {NoSession}]
    BY <1>2, InvFacts DEF Idle
  <2> QED BY <1>1, <1>2, <2>1, <2>2 DEF TabsInv, PaneAgrees, TypeOK
<1>4. OpenTabs' = OpenTabs
  BY <1>1 DEF OpenTabs
<1>5. ListsFit'
  BY <1>1, <1>4 DEF TabsInv, ListsFit
<1>6. HandlerFits'
  BY <1>1, <1>2, <1>4 DEF TabsInv, HandlerFits, Idle
<1>7. SavedFits'
  <2>1. RestoreTabs(window, disk') = RestoreTabs(window, disk)
    <3>1. window.open \in Seq(Session)
      BY InvFacts DEF Fits, WindowInfo
    <3> QED BY <1>2, <3>1, KeptFacts DEF RestoreTabs
  <2> QED BY <1>1, <1>2, <2>1 DEF TabsInv, SavedFits
<1> QED BY <1>3, <1>5, <1>6, <1>7 DEF TabsInv

LEMMA NextTabsInv == TabsInv /\ [Next]_vars => TabsInv'
<1> SUFFICES ASSUME TabsInv, [Next]_vars PROVE TabsInv'
  OBVIOUS
<1>1. CASE Start \/ Quit
  BY <1>1, StartKeeps, QuitKeeps
<1>2. CASE \E s \in Session : CreateSession(s)
  BY <1>2, CreateKeeps
<1>3. CASE OpenTab
  BY <1>3, OpenKeeps
<1>4. CASE \E i \in 1..Len(tabs) : SelectTab(i)
  BY <1>4, SelectKeeps
<1>5. CASE SelectHome \/ CancelClose \/ \E i \in 1..Len(tabs) : AskClose(i)
  BY <1>5, NumbersKeep, InvFacts
<1>6. CASE ConfirmClose
  BY <1>6, CloseKeeps
<1>7. CASE DeleteSession \/ \E s \in Session : WorkflowSaves(s)
  BY <1>7, DiskKeeps
<1>8. CASE UNCHANGED vars
  <2>1. PaneAgrees'
    BY <1>8 DEF TabsInv, PaneAgrees, TypeOK, PaneShowsTab, PendingIsAskedFor, vars
  <2>2. (ListsFit /\ HandlerFits /\ SavedFits)'
    BY <1>8 DEF TabsInv, ListsFit, OpenTabs, HandlerFits, SavedFits, vars
  <2> QED BY <2>1, <2>2 DEF TabsInv
<1> QED BY <1>1, <1>2, <1>3, <1>4, <1>5, <1>6, <1>7, <1>8 DEF Next

LEMMA TabsInvAlways == Spec => []TabsInv
BY InitTabsInv, NextTabsInv, PTL DEF Spec

(***************************************************************************)
(* The pane's number and the dialog's are those of tabs, the dialog's that *)
(* of the tab the user asked to close, whatever the handlers in between    *)
(* opened, closed and selected.                                            *)
(***************************************************************************)
THEOREM NumbersAreOfTabs == Spec => []PaneAgrees
<1>1. TabsInv => PaneAgrees
  BY DEF TabsInv
<1> QED BY <1>1, TabsInvAlways, PTL

(***************************************************************************)
(* Between two handlers a restart would restore the tabs there are, in     *)
(* their order, with what broken off closings and creations left behind.   *)
(***************************************************************************)
THEOREM RestartRestores == Spec => []RestoredAsLeft
<1>1. TabsInv => RestoredAsLeft
  BY DEF TabsInv, SavedFits, RestoredAsLeft
<1> QED BY <1>1, TabsInvAlways, PTL

(***************************************************************************)
(* A tab whose closing was written never comes back, whatever became of    *)
(* its session.                                                            *)
(***************************************************************************)
THEOREM ClosedForGood == Spec => []ClosedStaysClosed
<1>1. TabsInv => ClosedStaysClosed
  BY DEF TabsInv, ListsFit, OpenTabs, ClosedStaysClosed
<1> QED BY <1>1, TabsInvAlways, PTL

(***************************************************************************)
(* The tab that is shown stays shown when another one is closed.           *)
(***************************************************************************)
THEOREM ShownStaysShown == Spec => ShownStays
<1> DEFINE Stays == (up' /\ Len(tabs') < Len(tabs) /\ pane \notin {0, pending}) =>
                      pane' # 0 /\ tabs'[pane'] = tabs[pane]
<1>1. ASSUME TabsInv, [Next]_vars PROVE [Stays]_vars
  <2> SUFFICES ASSUME up', Len(tabs') < Len(tabs), pane \notin {0, pending}
               PROVE  pane' # 0 /\ tabs'[pane'] = tabs[pane]
    OBVIOUS
  <2>1. Len(tabs) \in Nat /\ tabs \in Seq(Session)
    BY <1>1, InvFacts
  <2>2. tabs' # tabs
    BY <2>1
  <2>3. ~Start
    <3>1. Start => tabs = <<>> /\ tabs' \in Seq(Session)
      <4>1. Start => TabsInv'
        BY <1>1, StartKeeps
      <4> QED BY <1>1, <4>1 DEF Start, TabsInv, HandlerFits, PaneAgrees, TypeOK
    <3> QED BY <3>1
  <2>4. ~OpenTab
    <3>1. OpenTab => tabs' = Append(tabs, handler.session) /\ handler.session \in Session
      BY <1>1 DEF OpenTab, TabsInv, HandlerFits
    <3> QED BY <2>1, <3>1
  <2>5. ConfirmClose
    BY <1>1, <2>2, <2>3, <2>4
       DEF Next, Quit, CreateSession, WorkflowSaves, SelectTab, SelectHome, AskClose, CancelClose,
           DeleteSession, vars
  <2>6. pending \in DOMAIN tabs /\ tabs' = RemoveAt(tabs, pending)
        /\ pane' = PaneAfterClose(pending, Len(tabs'))
    BY <2>5 DEF ConfirmClose, CloseTab
  <2>7. pending \in 1..Len(tabs) /\ pane \in 1..Len(tabs)
    BY <1>1, <2>1, <2>6, InvFacts DEF TabsInv, PaneAgrees, TypeOK, PaneShowsTab
  <2>8. /\ Len(tabs') = Len(tabs) - 1
        /\ \A k \in 1..(Len(tabs) - 1) : tabs'[k] = IF k < pending THEN tabs[k] ELSE tabs[k + 1]
    BY <2>1, <2>6, RemoveElements
  <2>9. pane # pending /\ pane # 0
    OBVIOUS
  <2>10. pane' = IF pane > pending THEN pane - 1 ELSE pane
    BY <2>1, <2>6, <2>7, <2>8, <2>9 DEF PaneAfterClose
  <2> QED BY <2>1, <2>7, <2>8, <2>9, <2>10
<1> QED BY <1>1, TabsInvAlways, PTL DEF Spec, ShownStays
=============================================================================
