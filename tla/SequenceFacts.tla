---------------------------- MODULE SequenceFacts ----------------------------
(***************************************************************************)
(* Facts about operators of the community modules that the proofs of more  *)
(* than one component need: extrema of sets of integers, sequences that    *)
(* lose or gain an element, and sequences in increasing order.             *)
(***************************************************************************)
EXTENDS Integers, SequencesExt, FiniteSetTheorems, SequenceTheorems,
        WellFoundedInduction, TLAPS

(* A non-empty set of natural numbers has a least element.                 *)
LEMMA MinExists ==
    ASSUME NEW S \in SUBSET Nat, S # {}
    PROVE  Min(S) \in S /\ \A x \in S : Min(S) <= x
<1> DEFINE R == OpToRel(<, Nat)
<1>1. PICK n \in S : \A k \in S : ~ (<<k, n>> \in R)
  <2>1. IsWellFoundedOn(R, Nat)
    BY NatLessThanWellFounded
  <2> HIDE DEF R
  <2> QED
    BY <2>1, WFMin
<1>2. \A k \in S : n <= k
  <2>1. \A k \in Nat : k < n => <<k, n>> \in R
    BY DEF OpToRel
  <2> HIDE DEF R
  <2>2. \A k \in S : k \in Nat /\ n \in Nat /\ ~ (k < n)
    BY <1>1, <2>1
  <2> QED
    BY <2>2
<1> QED
  BY <1>2 DEF Min

(* A non-empty set of integers with an upper bound has a greatest element. *)
LEMMA MaxExists ==
    ASSUME NEW m \in Int, NEW S \in SUBSET Int, S # {}, \A x \in S : x <= m
    PROVE  Max(S) \in S /\ \A x \in S : x <= Max(S)
<1> DEFINE T == {n \in Nat : m - n \in S}
           R == OpToRel(<, Nat)
<1>1. T \subseteq Nat /\ T # {}
  <2>1. PICK x \in S : TRUE
    OBVIOUS
  <2>2. m - x \in Nat /\ m - (m - x) = x
    BY <2>1
  <2> QED
    BY <2>1, <2>2
<1>2. PICK n \in T : \A k \in T : ~ (<<k, n>> \in R)
  <2> HIDE DEF T, R
  <2>1. IsWellFoundedOn(R, Nat)
    BY NatLessThanWellFounded DEF R
  <2> QED
    BY <1>1, <2>1, WFMin
<1>a. n \in Nat /\ m - n \in S
  OBVIOUS
<1>3. \A k \in T : n <= k
  <2>1. \A k \in Nat : k < n => <<k, n>> \in R
    BY <1>a DEF OpToRel
  <2> HIDE DEF R, T
  <2>2. \A k \in T : k \in Nat /\ ~ (k < n)
    BY <1>1, <1>2, <2>1
  <2> QED
    BY <2>2, <1>a
<1>4. \A x \in S : x <= m - n
  <2> SUFFICES ASSUME NEW x \in S
               PROVE  x <= m - n
    OBVIOUS
  <2>1. x \in Int /\ m - x \in Nat /\ m - (m - x) = x
    OBVIOUS
  <2>2. m - x \in T
    BY <2>1
  <2>3. n <= m - x
    BY <2>2, <1>3
  <2> QED
    BY <2>1, <2>3, <1>a
<1>5. m - n \in S /\ \A x \in S : m - n >= x
  BY <1>a, <1>4
<1> QED
  BY <1>5 DEF Max

(* What is left when the k-th element is taken out of a sequence.          *)
LEMMA RemoveAtProperties ==
    ASSUME NEW S, NEW s \in Seq(S), NEW k \in 1..Len(s)
    PROVE  /\ RemoveAt(s, k) \in Seq(S)
           /\ Len(RemoveAt(s, k)) = Len(s) - 1
           /\ \A j \in 1..(Len(s) - 1) :
                 RemoveAt(s, k)[j] = IF j < k THEN s[j] ELSE s[j + 1]
<1> DEFINE a == SubSeq(s, 1, k - 1)
           b == SubSeq(s, k + 1, Len(s))
<1>1. Len(s) \in Nat /\ \A j \in 1..Len(s) : s[j] \in S
  BY LenProperties, ElementOfSeq
<1>2. /\ a \in Seq(S) /\ Len(a) = k - 1
      /\ \A j \in 1..(k - 1) : a[j] = s[j]
  <2>1. \A j \in 1..(k - 1) : s[j] \in S
    BY <1>1
  <2>2. 1 \in Int /\ k - 1 \in Int
    BY <1>1
  <2> QED
    BY <2>1, <2>2, <1>1, SubSeqProperties
<1>3. /\ b \in Seq(S) /\ Len(b) = Len(s) - k
      /\ \A j \in 1..(Len(s) - k) : b[j] = s[k + j]
  <2>1. \A j \in (k + 1)..Len(s) : s[j] \in S
    BY <1>1
  <2>2. k + 1 \in Int /\ Len(s) \in Int
    BY <1>1
  <2> QED
    BY <2>1, <2>2, <1>1, SubSeqProperties
<1>4. /\ a \o b \in Seq(S) /\ Len(a \o b) = Len(a) + Len(b)
      /\ \A j \in 1..(Len(a) + Len(b)) :
            (a \o b)[j] = IF j <= Len(a) THEN a[j] ELSE b[j - Len(a)]
  <2> HIDE DEF a, b
  <2> QED
    BY <1>2, <1>3, ConcatProperties
<1>5. RemoveAt(s, k) = a \o b
  BY DEF RemoveAt
<1> HIDE DEF a, b
<1>6. Len(a) + Len(b) = Len(s) - 1
  BY <1>1, <1>2, <1>3
<1>7. ASSUME NEW j \in 1..(Len(s) - 1)
      PROVE  (a \o b)[j] = IF j < k THEN s[j] ELSE s[j + 1]
  <2>1. CASE j < k
    BY <2>1, <1>1, <1>2, <1>4, <1>6
  <2>2. CASE ~ (j < k)
    <3>1. j - (k - 1) \in 1..(Len(s) - k) /\ k + (j - (k - 1)) = j + 1
      BY <2>2, <1>1
    <3>2. (a \o b)[j] = b[j - (k - 1)]
      BY <2>2, <1>1, <1>2, <1>4, <1>6
    <3> QED
      BY <2>2, <3>1, <3>2, <1>3
  <2> QED
    BY <2>1, <2>2
<1> QED
  BY <1>4, <1>5, <1>6, <1>7

(* Searching the list for a node that occurs once finds that node.         *)
LEMMA RemoveFirstUnique ==
    ASSUME NEW S, NEW s \in Seq(S), NEW k \in 1..Len(s),
           \A j \in 1..Len(s) : s[j] = s[k] => j = k
    PROVE  RemoveFirst(s, s[k]) = RemoveAt(s, k)
<1> DEFINE I == {j \in 1..Len(s) : s[j] = s[k]}
<1>1. I = {k}
  OBVIOUS
<1>2. Min({k}) = k
  BY LenProperties DEF Min
<1>3. SelectInSeq(s, LAMBDA v : v = s[k]) = k
  BY <1>1, <1>2 DEF SelectInSeq
<1> QED
  BY <1>3 DEF RemoveFirst

(* What is there after an element is put in front of a sequence.           *)
LEMMA ConsProperties ==
    ASSUME NEW S, NEW s \in Seq(S), NEW e \in S
    PROVE  /\ Cons(e, s) \in Seq(S)
           /\ Len(Cons(e, s)) = Len(s) + 1
           /\ Cons(e, s)[1] = e
           /\ \A j \in 2..(Len(s) + 1) : Cons(e, s)[j] = s[j - 1]
<1>1. <<e>> \in Seq(S) /\ Len(<<e>>) = 1 /\ <<e>>[1] = e
  OBVIOUS
<1>2. Len(s) \in Nat
  BY LenProperties
<1>3. /\ <<e>> \o s \in Seq(S) /\ Len(<<e>> \o s) = 1 + Len(s)
      /\ \A j \in 1..(1 + Len(s)) :
            (<<e>> \o s)[j] = IF j <= 1 THEN <<e>>[j] ELSE s[j - 1]
  BY <1>1, ConcatProperties
<1>4. ASSUME NEW j \in 2..(Len(s) + 1)
      PROVE  (<<e>> \o s)[j] = s[j - 1]
  <2>1. j \in 1..(1 + Len(s)) /\ ~ (j <= 1)
    BY <1>2
  <2> QED
    BY <2>1, <1>3
<1> QED
  BY <1>1, <1>2, <1>3, <1>4 DEF Cons
-------------------------------------------------------------------------------
(* Sequences of numbers in increasing order, and one before another.       *)
Increasing(s) == \A m, n \in DOMAIN s : m < n => s[m] < s[n]
Precede(s, t) == \A m \in DOMAIN s, n \in DOMAIN t : s[m] < t[n]
Below(s, w) == \A m \in DOMAIN s : s[m] <= w

(* The empty sequence is in order, and before and after everything.        *)
LEMMA OrderedEmpty ==
    ASSUME NEW s, NEW w
    PROVE  Increasing(<<>>) /\ Precede(s, <<>>) /\ Precede(<<>>, s) /\ Below(<<>>, w)
  BY DEF Increasing, Precede, Below

(* The two halves of a sequence.                                           *)
LEMMA SplitShape ==
    ASSUME NEW S, NEW q \in Seq(S), NEW n \in 1..Len(q)
    PROVE  /\ SubSeq(q, 1, n) \in Seq(S) /\ SubSeq(q, n + 1, Len(q)) \in Seq(S)
           /\ DOMAIN SubSeq(q, 1, n) = 1..n
           /\ DOMAIN SubSeq(q, n + 1, Len(q)) = 1..(Len(q) - n)
           /\ \A m \in 1..n : m \in DOMAIN q /\ SubSeq(q, 1, n)[m] = q[m]
           /\ \A m \in 1..(Len(q) - n) :
                 n + m \in DOMAIN q /\ SubSeq(q, n + 1, Len(q))[m] = q[n + m]
<1>1. Len(q) \in Nat /\ DOMAIN q = 1..Len(q) /\ \A m \in 1..Len(q) : q[m] \in S
  BY LenProperties, ElementOfSeq
<1>2. /\ SubSeq(q, 1, n) \in Seq(S) /\ Len(SubSeq(q, 1, n)) = n
      /\ \A m \in 1..n : SubSeq(q, 1, n)[m] = q[m]
  <2>1. \A m \in 1..n : q[m] \in S
    BY <1>1
  <2> QED
    BY <1>1, <2>1, SubSeqProperties
<1> DEFINE t == SubSeq(q, n + 1, Len(q))
<1>3. /\ t \in Seq(S) /\ Len(t) = Len(q) - n
      /\ \A m \in 1..(Len(q) - n) : t[m] = q[n + m]
  <2>1. \A m \in (n + 1)..Len(q) : q[m] \in S
    BY <1>1
  <2>2. /\ t \in Seq(S)
        /\ Len(t) = IF n + 1 <= Len(q) THEN Len(q) - (n + 1) + 1 ELSE 0
        /\ \A m \in 1..(Len(q) - (n + 1) + 1) : t[m] = q[n + 1 + m - 1]
    BY <1>1, <2>1, SubSeqProperties
  <2> HIDE DEF t
  <2>3. Len(t) = Len(q) - n
    <3>1. \A l, z \in Nat : z = (IF n + 1 <= l THEN l - (n + 1) + 1 ELSE 0) /\ n <= l => z = l - n
      OBVIOUS
    <3>2. t \in Seq(S)
      BY <2>2
    <3> DEFINE z == Len(t)
               l == Len(q)
    <3>3. z \in Nat /\ l \in Nat /\ n <= l
      BY <1>1, <3>2, LenProperties
    <3>4. z = IF n + 1 <= l THEN l - (n + 1) + 1 ELSE 0
      BY <2>2, Zenon
    <3> HIDE DEF z, l
    <3>5. z = l - n
      BY <3>1, <3>3, <3>4
    <3> QED
      BY <3>5 DEF z, l
  <2>4. \A m \in 1..(Len(q) - n) : t[m] = q[n + m]
    <3> SUFFICES ASSUME NEW m \in 1..(Len(q) - n) PROVE t[m] = q[n + m]
      OBVIOUS
    <3>1. m \in 1..(Len(q) - (n + 1) + 1) /\ n + 1 + m - 1 = n + m
      BY <1>1
    <3> QED
      BY <2>2, <3>1
  <2> QED
    BY <2>2, <2>3, <2>4
<1> HIDE DEF t
<1>4. DOMAIN SubSeq(q, 1, n) = 1..n /\ DOMAIN t = 1..(Len(q) - n)
  BY <1>2, <1>3, LenProperties
<1>5. /\ \A m \in 1..n : m \in DOMAIN q
      /\ \A m \in 1..(Len(q) - n) : n + m \in DOMAIN q
  BY <1>1
<1> QED
  BY <1>2, <1>3, <1>4, <1>5 DEF t

(* Splitting keeps the order, and the first half comes first.              *)
LEMMA OrderedSplit ==
    ASSUME NEW S \in SUBSET Int, NEW q \in Seq(S), Increasing(q), NEW n \in 1..Len(q)
    PROVE  /\ Increasing(SubSeq(q, 1, n)) /\ Increasing(SubSeq(q, n + 1, Len(q)))
           /\ Precede(SubSeq(q, 1, n), SubSeq(q, n + 1, Len(q)))
           /\ \A g : Precede(g, q) => /\ Precede(g, SubSeq(q, 1, n))
                                      /\ Precede(g, SubSeq(q, n + 1, Len(q)))
           /\ \A w : Below(q, w) => /\ Below(SubSeq(q, 1, n), w)
                                    /\ Below(SubSeq(q, n + 1, Len(q)), w)
<1> DEFINE s == SubSeq(q, 1, n)
           t == SubSeq(q, n + 1, Len(q))
<1>1. /\ DOMAIN s = 1..n /\ DOMAIN t = 1..(Len(q) - n) /\ n \in Nat /\ Len(q) \in Nat
      /\ \A m \in 1..n : m \in DOMAIN q /\ s[m] = q[m]
      /\ \A m \in 1..(Len(q) - n) : n + m \in DOMAIN q /\ t[m] = q[n + m]
  BY SplitShape, LenProperties
<1> HIDE DEF s, t
<1>2. Increasing(s)
  BY <1>1 DEF Increasing
<1>3. Increasing(t)
  <2> SUFFICES ASSUME NEW k \in DOMAIN t, NEW m \in DOMAIN t, k < m PROVE t[k] < t[m]
    BY DEF Increasing
  <2>1. n + k < n + m
    BY <1>1
  <2> QED
    BY <1>1, <2>1 DEF Increasing
<1>4. Precede(s, t)
  <2> SUFFICES ASSUME NEW k \in DOMAIN s, NEW m \in DOMAIN t PROVE s[k] < t[m]
    BY DEF Precede
  <2>1. k < n + m
    BY <1>1
  <2> QED
    BY <1>1, <2>1 DEF Increasing
<1>5. \A g : Precede(g, q) => Precede(g, s) /\ Precede(g, t)
  BY <1>1 DEF Precede
<1>6. \A w : Below(q, w) => Below(s, w) /\ Below(t, w)
  BY <1>1 DEF Below
<1> QED
  BY <1>2, <1>3, <1>4, <1>5, <1>6 DEF s, t

(* One sequence after another that precedes it.                            *)
LEMMA OrderedConcat ==
    ASSUME NEW S \in SUBSET Int, NEW s \in Seq(S), NEW t \in Seq(S)
    PROVE  /\ Increasing(s) /\ Increasing(t) /\ Precede(s, t) => Increasing(s \o t)
           /\ \A u : Precede(s, u) /\ Precede(t, u) => Precede(s \o t, u)
           /\ \A w : Below(s, w) /\ Below(t, w) => Below(s \o t, w)
<1> DEFINE r == s \o t
<1>1. /\ Len(s) \in Nat /\ Len(t) \in Nat /\ DOMAIN s = 1..Len(s) /\ DOMAIN t = 1..Len(t)
  BY LenProperties
<1>2. /\ DOMAIN r = 1..(Len(s) + Len(t))
      /\ \A k \in 1..(Len(s) + Len(t)) : r[k] = IF k <= Len(s) THEN s[k] ELSE t[k - Len(s)]
  <2>1. r \in Seq(S) /\ Len(r) = Len(s) + Len(t)
    BY ConcatProperties
  <2>2. DOMAIN r = 1..Len(r)
    BY <2>1, LenProperties
  <2> QED
    BY <2>1, <2>2, ConcatProperties
<1> HIDE DEF r
<1>3. \A k \in DOMAIN r : \/ k \in DOMAIN s /\ r[k] = s[k]
                          \/ k > Len(s) /\ k - Len(s) \in DOMAIN t /\ r[k] = t[k - Len(s)]
  BY <1>1, <1>2
<1>4. ASSUME Increasing(s), Increasing(t), Precede(s, t), NEW k \in DOMAIN r, NEW m \in DOMAIN r, k < m
      PROVE  r[k] < r[m]
  <2>1. k \in Nat /\ m \in Nat
    BY <1>1, <1>2
  <2>2. CASE m \in DOMAIN s
    <3>1. k \in DOMAIN s /\ r[k] = s[k] /\ r[m] = s[m]
      BY <1>1, <1>2, <1>4, <2>1, <2>2
    <3> QED
      BY <1>4, <2>2, <3>1 DEF Increasing
  <2>3. CASE m \notin DOMAIN s /\ k \in DOMAIN s
    <3>1. k <= Len(s) /\ ~ (m <= Len(s))
      BY <1>1, <1>2, <2>1, <2>3
    <3>2. r[k] = s[k] /\ m - Len(s) \in DOMAIN t /\ r[m] = t[m - Len(s)]
      BY <1>1, <1>2, <1>3, <2>3, <3>1
    <3> QED
      BY <1>4, <2>3, <3>2 DEF Precede
  <2>4. CASE m \notin DOMAIN s /\ k \notin DOMAIN s
    <3>1. /\ k - Len(s) \in DOMAIN t /\ r[k] = t[k - Len(s)]
          /\ m - Len(s) \in DOMAIN t /\ r[m] = t[m - Len(s)]
      BY <1>3, <2>4
    <3>2. k - Len(s) < m - Len(s)
      BY <1>1, <1>4, <2>1
    <3> QED
      BY <1>4, <3>1, <3>2 DEF Increasing
  <2> QED
    BY <2>2, <2>3, <2>4
<1>5. \A u : Precede(s, u) /\ Precede(t, u) => Precede(r, u)
  BY <1>3 DEF Precede
<1>6. \A w : Below(s, w) /\ Below(t, w) => Below(r, w)
  BY <1>3 DEF Below
<1>7. Increasing(s) /\ Increasing(t) /\ Precede(s, t) => Increasing(r)
  BY <1>4 DEF Increasing
<1> QED
  BY <1>5, <1>6, <1>7 DEF r

(* A number above all others at the end.                                   *)
LEMMA OrderedAppend ==
    ASSUME NEW S \in SUBSET Int, NEW q \in Seq(S), NEW w \in Int, w + 1 \in S, Below(q, w)
    PROVE  /\ Increasing(q) => Increasing(Append(q, w + 1))
           /\ Below(Append(q, w + 1), w + 1)
           /\ \A g : g \in Seq(S) /\ Precede(g, q) /\ Below(g, w) => Precede(g, Append(q, w + 1))
<1> DEFINE r == Append(q, w + 1)
           x == w + 1
<1>1. /\ Len(q) \in Nat /\ DOMAIN q = 1..Len(q) /\ \A m \in DOMAIN q : q[m] \in Int
  BY LenProperties, ElementOfSeq
<1>2. /\ DOMAIN r = 1..(Len(q) + 1)
      /\ \A m \in DOMAIN q : r[m] = q[m]
      /\ r[Len(q) + 1] = x
  <2>1. r \in Seq(S) /\ Len(r) = Len(q) + 1
    BY AppendProperties
  <2>2. DOMAIN r = 1..Len(r)
    BY <2>1, LenProperties
  <2> QED
    BY <1>1, <2>1, <2>2, AppendProperties
<1> HIDE DEF r
<1>3. \A m \in DOMAIN q : r[m] < x
  BY <1>1, <1>2 DEF Below, x
<1>4. \A m \in DOMAIN r : m \in DOMAIN q \/ m = Len(q) + 1
  BY <1>1, <1>2
<1>5. Increasing(q) => Increasing(r)
  <2> SUFFICES ASSUME Increasing(q), NEW k \in DOMAIN r, NEW m \in DOMAIN r, k < m PROVE r[k] < r[m]
    BY DEF Increasing
  <2>1. k \in DOMAIN q
    BY <1>1, <1>2
  <2>2. CASE m \in DOMAIN q
    BY <1>2, <2>1, <2>2 DEF Increasing
  <2>3. CASE m = Len(q) + 1
    BY <1>2, <1>3, <2>1, <2>3
  <2> QED
    BY <1>4, <2>2, <2>3
<1>6. Below(r, x)
  <2> SUFFICES ASSUME NEW m \in DOMAIN r PROVE r[m] <= x
    BY DEF Below
  <2>1. CASE m \in DOMAIN q
    BY <1>1, <1>2, <1>3, <2>1 DEF x
  <2>2. CASE m = Len(q) + 1
    BY <1>2, <2>2 DEF x
  <2> QED
    BY <1>4, <2>1, <2>2
<1>7. ASSUME NEW g, g \in Seq(S), Precede(g, q), Below(g, w) PROVE Precede(g, r)
  <2> SUFFICES ASSUME NEW k \in DOMAIN g, NEW m \in DOMAIN r PROVE g[k] < r[m]
    BY DEF Precede
  <2>1. g[k] \in Int /\ g[k] <= w
    BY <1>7, LenProperties, ElementOfSeq DEF Below
  <2>2. g[k] < x
    BY <2>1 DEF x
  <2> QED
    BY <1>2, <1>4, <1>7, <2>2 DEF Precede
<1> QED
  BY <1>5, <1>6, <1>7 DEF r, x

(* What was sent last is a suffix.                                         *)
LEMMA SuffixConcat ==
    ASSUME NEW S, NEW s \in Seq(S), NEW t \in Seq(S)
    PROVE  IsSuffix(t, s \o t)
<1> DEFINE r == s \o t
           rt == Reverse(t)
           rr == Reverse(r)
<1>1. Len(s) \in Nat /\ Len(t) \in Nat
  BY LenProperties
<1>2. /\ r \in Seq(S) /\ Len(r) = Len(s) + Len(t)
      /\ \A k \in 1..(Len(s) + Len(t)) : r[k] = IF k <= Len(s) THEN s[k] ELSE t[k - Len(s)]
  BY ConcatProperties
<1> HIDE DEF r
<1>3. /\ rt = [k \in 1..Len(t) |-> t[(Len(t) - k) + 1]]
      /\ rr = [k \in 1..Len(r) |-> r[(Len(r) - k) + 1]]
  BY DEF Reverse
<1>4. rt \in Seq(S) /\ rr \in Seq(S) /\ Len(rt) = Len(t) /\ Len(rr) = Len(r)
  <2>1. \A k \in 1..Len(t) : t[(Len(t) - k) + 1] \in S
    BY <1>1, ElementOfSeq
  <2>2. \A k \in 1..Len(r) : r[(Len(r) - k) + 1] \in S
    BY <1>1, <1>2, ElementOfSeq
  <2> HIDE DEF rt, rr
  <2>3. rt \in Seq(S) /\ Len(rt) = Len(t)
    BY <1>1, <1>3, <2>1, IsASeq
  <2>4. rr \in Seq(S) /\ Len(rr) = Len(r)
    BY <1>1, <1>2, <1>3, <2>2, IsASeq
  <2> QED
    BY <2>3, <2>4
<1> HIDE DEF rt, rr
<1>5. \A k \in 1..Len(t) : rt[k] = rr[k]
  <2> SUFFICES ASSUME NEW k \in 1..Len(t) PROVE rt[k] = rr[k]
    OBVIOUS
  <2> DEFINE n == (Len(r) - k) + 1
  <2>1. /\ k \in 1..Len(r) /\ n \in 1..(Len(s) + Len(t)) /\ ~ (n <= Len(s))
        /\ n - Len(s) = (Len(t) - k) + 1
    BY <1>1, <1>2
  <2>2. rr[k] = r[n] /\ rt[k] = t[(Len(t) - k) + 1]
    BY <1>3, <2>1
  <2>3. r[n] = t[n - Len(s)]
    BY <1>2, <2>1
  <2> QED
    BY <2>1, <2>2, <2>3
<1>6. IsPrefix(rt, rr)
  BY <1>1, <1>2, <1>4, <1>5 DEF IsPrefix
<1> QED
  BY <1>6 DEF IsSuffix, r, rt, rr
===============================================================================
