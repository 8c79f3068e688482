--------------------------- MODULE AdaptiveProofs ---------------------------
(***************************************************************************)
(* For any number of frames and pages, and whatever policies were in use   *)
(* before: T1 of ARC never exceeds its target, and without releases its    *)
(* resident lists hold resident pages, each once; a page is once in the    *)
(* four lists of CAR at most, and the search of CAR skips no page that can *)
(* go, although its hands move and its rings change while it searches.     *)
(***************************************************************************)
EXTENDS Adaptive, SequenceTheorems, WellFoundedInduction, TLAPS

(* Least and greatest numbers.  Induction over data is stated with them: the least  *)
(* counterexample.                                                                  *)

\* A set of natural numbers has a least one.
LEMMA LeastNumber ==
    ASSUME NEW S \in SUBSET Nat, S # {}
    PROVE  \E m \in S : \A n \in S : m <= n
<1>1. \E m \in S : \A n \in S : ~(<<n, m>> \in OpToRel(<, Nat))
  BY WFMin, NatLessThanWellFounded
<1>2. PICK m \in S : \A n \in S : ~(<<n, m>> \in OpToRel(<, Nat)) BY <1>1
<1>3. \A n \in S : ~(n < m) BY <1>2 DEF OpToRel
<1> QED BY <1>3

\* A bounded set of natural numbers has a greatest one.
LEMMA GreatestNumber ==
    ASSUME NEW S \in SUBSET Nat, S # {}, NEW b \in Nat, \A n \in S : n <= b
    PROVE  \E m \in S : \A n \in S : n <= m
<1> DEFINE D == {b - n : n \in S}
<1>1. D \in SUBSET Nat OBVIOUS
<1>2. PICK k \in S : TRUE OBVIOUS
<1>3. b - k \in D BY <1>2
<1>4. PICK d \in D : \A e \in D : d <= e BY <1>1, <1>3, LeastNumber
<1>5. PICK m \in S : d = b - m BY <1>4
<1>6. \A n \in S : n <= m BY <1>4, <1>5
<1> QED BY <1>6

(* Sequences of pages *)

\* What SubSeq is for any bounds within reach.
LEMMA Part ==
    ASSUME NEW S, NEW q \in Seq(S), NEW m \in Nat \ {0}, NEW n \in Nat, n <= Len(q)
    PROVE  /\ SubSeq(q, m, n) \in Seq(S)
           /\ Len(SubSeq(q, m, n)) = IF m <= n THEN n - m + 1 ELSE 0
           /\ \A i \in 1 .. Len(SubSeq(q, m, n)) : SubSeq(q, m, n)[i] = q[m + i - 1]
<1>1. \A i \in m .. n : q[i] \in S OBVIOUS
<1> QED BY <1>1, SubSeqProperties

\* The first n entries of a list.
LEMMA FirstOfIs ==
    ASSUME NEW S, NEW q \in Seq(S), NEW n \in Nat
    PROVE  /\ FirstOf(n, q) \in Seq(S)
           /\ Len(FirstOf(n, q)) <= n /\ Len(FirstOf(n, q)) <= Len(q)
           /\ \A i \in 1 .. Len(FirstOf(n, q)) : FirstOf(n, q)[i] = q[i]
<1> DEFINE k == IF n < Len(q) THEN n ELSE Len(q)
<1>1. k \in Nat /\ k <= Len(q) /\ k <= n OBVIOUS
<1>2. FirstOf(n, q) = SubSeq(q, 1, k) BY DEF FirstOf
<1> HIDE DEF k
<1>3. /\ SubSeq(q, 1, k) \in Seq(S)
      /\ Len(SubSeq(q, 1, k)) = IF 1 <= k THEN k - 1 + 1 ELSE 0
      /\ \A i \in 1 .. Len(SubSeq(q, 1, k)) : SubSeq(q, 1, k)[i] = q[1 + i - 1]
  BY <1>1, Part
<1> QED BY <1>1, <1>2, <1>3

\* What remains of a list from an entry on.
LEMMA FromIs ==
    ASSUME NEW S, NEW q \in Seq(S), NEW n \in Nat \ {0}
    PROVE  /\ From(n, q) \in Seq(S)
           /\ Len(From(n, q)) = IF n <= Len(q) THEN Len(q) - n + 1 ELSE 0
           /\ \A i \in 1 .. Len(From(n, q)) : From(n, q)[i] = q[n + i - 1]
BY Part DEF From

\* A list without one of its entries.
LEMMA WithoutIs ==
    ASSUME NEW S, NEW q \in Seq(S), NEW k \in 1 .. Len(q)
    PROVE  /\ Without(q, k) \in Seq(S)
           /\ Len(Without(q, k)) = Len(q) - 1
           /\ \A i \in 1 .. Len(q) - 1 : Without(q, k)[i] = IF i < k THEN q[i] ELSE q[i + 1]
<1> DEFINE a == SubSeq(q, 1, k - 1)
           b == From(k + 1, q)
<1>1. /\ a \in Seq(S) /\ Len(a) = k - 1
      /\ \A i \in 1 .. k - 1 : a[i] = q[i]
  <2>1. PICK m \in Nat : m = k - 1 OBVIOUS
  <2>2. /\ SubSeq(q, 1, m) \in Seq(S)
        /\ Len(SubSeq(q, 1, m)) = IF 1 <= m THEN m - 1 + 1 ELSE 0
        /\ \A i \in 1 .. Len(SubSeq(q, 1, m)) : SubSeq(q, 1, m)[i] = q[1 + i - 1]
    BY <2>1, Part
  <2> QED BY <2>1, <2>2
<1>2. /\ b \in Seq(S) /\ Len(b) = Len(q) - k
      /\ \A i \in 1 .. Len(q) - k : b[i] = q[k + i]
  <2>1. PICK m \in Nat \ {0} : m = k + 1 OBVIOUS
  <2>2. /\ From(m, q) \in Seq(S)
        /\ Len(From(m, q)) = IF m <= Len(q) THEN Len(q) - m + 1 ELSE 0
        /\ \A i \in 1 .. Len(From(m, q)) : From(m, q)[i] = q[m + i - 1]
    BY FromIs
  <2> QED BY <2>1, <2>2
<1>3. Without(q, k) = a \o b BY DEF Without
<1> HIDE DEF a, b
<1>4. /\ a \o b \in Seq(S) /\ Len(a \o b) = Len(a) + Len(b)
      /\ \A i \in 1 .. Len(a) + Len(b) : (a \o b)[i] =
            IF i <= Len(a) THEN a[i] ELSE b[i - Len(a)]
  BY <1>1, <1>2, ConcatProperties
<1>5. ASSUME NEW i \in 1 .. Len(q) - 1
      PROVE  (a \o b)[i] = IF i < k THEN q[i] ELSE q[i + 1]
  <2>1. CASE i < k BY <1>1, <1>2, <1>4, <2>1
  <2>2. CASE ~(i < k)
    <3>1. (a \o b)[i] = b[i - (k - 1)] BY <1>1, <1>2, <1>4, <2>2
    <3>2. PICK j \in 1 .. Len(q) - k : j = i - (k - 1) BY <2>2
    <3>3. b[j] = q[k + j] BY <1>2
    <3> QED BY <2>2, <3>1, <3>2, <3>3
  <2> QED BY <2>1, <2>2
<1> QED BY <1>1, <1>2, <1>3, <1>4, <1>5

-----------------------------------------------------------------------------
(* Lists without repetition *)

Distinct(q) == \A i, j \in DOMAIN q : q[i] = q[j] => i = j

\* A prefix of a list repeats nothing new.
LEMMA FirstOfIn ==
    ASSUME NEW S, NEW q \in Seq(S), NEW n \in Nat
    PROVE  /\ In(FirstOf(n, q)) \subseteq In(q)
           /\ Distinct(q) => Distinct(FirstOf(n, q))
<1> DEFINE r == FirstOf(n, q)
<1>1. /\ r \in Seq(S) /\ Len(r) <= Len(q)
      /\ \A i \in 1 .. Len(r) : r[i] = q[i]
  BY FirstOfIs
<1> HIDE DEF r
<1>2. /\ Len(r) \in Nat /\ Len(q) \in Nat
      /\ DOMAIN r = 1 .. Len(r) /\ DOMAIN q = 1 .. Len(q)
  BY <1>1
<1>3. \A i \in DOMAIN r : i \in DOMAIN q /\ r[i] = q[i] BY <1>1, <1>2
<1>4. In(r) \subseteq In(q) BY <1>3 DEF In
<1>5. Distinct(q) => Distinct(r) BY <1>3 DEF Distinct
<1> QED BY <1>4, <1>5 DEF r

\* A new entry at the front.
LEMMA InFront ==
    ASSUME NEW S, NEW q \in Seq(S), NEW x \in S
    PROVE  /\ <<x>> \o q \in Seq(S)
           /\ Len(<<x>> \o q) = Len(q) + 1
           /\ In(<<x>> \o q) = In(q) \cup {x}
           /\ Distinct(q) /\ x \notin In(q) => Distinct(<<x>> \o q)
<1> DEFINE r == <<x>> \o q
<1>1. <<x>> \in Seq(S) /\ Len(<<x>>) = 1 OBVIOUS
<1>2. /\ r \in Seq(S) /\ Len(r) = 1 + Len(q)
      /\ \A i \in 1 .. 1 + Len(q) : r[i] = IF i <= 1 THEN <<x>>[i] ELSE q[i - 1]
  BY <1>1, ConcatProperties
<1> HIDE DEF r
<1>3. /\ Len(q) \in Nat /\ DOMAIN r = 1 .. 1 + Len(q) /\ DOMAIN q = 1 .. Len(q)
  BY <1>2
<1>4. r[1] = x BY <1>2, <1>3
<1>5. \A i \in DOMAIN r : i # 1 => i - 1 \in DOMAIN q /\ r[i] = q[i - 1]
  BY <1>2, <1>3
<1>6. \A i \in DOMAIN q : i + 1 \in DOMAIN r /\ r[i + 1] = q[i]
  BY <1>2, <1>3
<1>7. In(r) = In(q) \cup {x}
  <2>1. In(r) \subseteq In(q) \cup {x} BY <1>4, <1>5 DEF In
  <2>2. In(q) \subseteq In(r) BY <1>6 DEF In
  <2>3. 1 \in DOMAIN r BY <1>3
  <2>4. x \in In(r) BY <1>4, <2>3 DEF In
  <2> QED BY <2>1, <2>2, <2>4
<1>8. ASSUME Distinct(q), x \notin In(q)
      PROVE  Distinct(r)
  <2>1. \A i \in DOMAIN r : i # 1 => r[i] # x BY <1>5, <1>8 DEF In
  <2>2. ASSUME NEW i \in DOMAIN r, NEW j \in DOMAIN r, r[i] = r[j]
        PROVE  i = j
    <3>1. CASE i = 1 BY <1>4, <2>1, <2>2, <3>1
    <3>2. CASE j = 1 BY <1>4, <2>1, <2>2, <3>2
    <3>3. CASE i # 1 /\ j # 1
      <4>1. i - 1 \in DOMAIN q /\ j - 1 \in DOMAIN q /\ q[i - 1] = q[j - 1]
        BY <1>5, <2>2, <3>3
      <4>2. i - 1 = j - 1 BY <1>8, <4>1 DEF Distinct
      <4> QED BY <1>3, <4>2
    <3> QED BY <3>1, <3>2, <3>3
  <2> QED BY <2>2 DEF Distinct
<1> QED BY <1>2, <1>3, <1>7, <1>8 DEF r

\* Two lists, one after the other.
LEMMA ConcatIn ==
    ASSUME NEW S, NEW q \in Seq(S), NEW r \in Seq(S)
    PROVE  /\ q \o r \in Seq(S) /\ In(q \o r) = In(q) \cup In(r)
           /\ Distinct(q) /\ Distinct(r) /\ In(q) \cap In(r) = {} => Distinct(q \o r)
<1>1. PICK s : s = q \o r OBVIOUS
<1>2. /\ s \in Seq(S) /\ Len(s) = Len(q) + Len(r)
      /\ \A i \in 1 .. Len(q) + Len(r) : s[i] =
            IF i <= Len(q) THEN q[i] ELSE r[i - Len(q)]
  BY <1>1, ConcatProperties
<1>3. /\ Len(q) \in Nat /\ Len(r) \in Nat /\ DOMAIN s = 1 .. Len(q) + Len(r)
      /\ DOMAIN q = 1 .. Len(q) /\ DOMAIN r = 1 .. Len(r)
  BY <1>2
<1>4. \A i \in DOMAIN s : i <= Len(q) => i \in DOMAIN q /\ s[i] = q[i] BY <1>2, <1>3
<1>5. \A i \in DOMAIN s : ~(i <= Len(q)) => i - Len(q) \in DOMAIN r /\ s[i] = r[i - Len(q)]
  BY <1>2, <1>3
<1>6. \A i \in DOMAIN s : i <= Len(q) => s[i] \in In(q) BY <1>4 DEF In
<1>7. \A i \in DOMAIN s : ~(i <= Len(q)) => s[i] \in In(r) BY <1>5 DEF In
<1>8. \A i \in DOMAIN q : i \in DOMAIN s /\ s[i] = q[i] BY <1>2, <1>3
<1>9. \A i \in DOMAIN r : i + Len(q) \in DOMAIN s /\ s[i + Len(q)] = r[i] BY <1>2, <1>3
<1>10. In(s) = In(q) \cup In(r)
  <2>1. In(s) \subseteq In(q) \cup In(r) BY <1>6, <1>7 DEF In
  <2>2. In(q) \subseteq In(s) BY <1>8 DEF In
  <2>3. In(r) \subseteq In(s) BY <1>9 DEF In
  <2> QED BY <2>1, <2>2, <2>3
<1>11. ASSUME Distinct(q), Distinct(r), In(q) \cap In(r) = {},
              NEW i \in DOMAIN s, NEW j \in DOMAIN s, s[i] = s[j]
       PROVE  i = j
  <2>1. CASE i <= Len(q) /\ j <= Len(q)
    BY <1>4, <1>11, <2>1 DEF Distinct
  <2>2. CASE ~(i <= Len(q)) /\ ~(j <= Len(q))
    <3>1. i - Len(q) = j - Len(q) BY <1>5, <1>11, <2>2 DEF Distinct
    <3> QED BY <1>3, <3>1
  <2>3. CASE (i <= Len(q)) # (j <= Len(q))
    BY <1>6, <1>7, <1>11, <2>3
  <2> QED BY <2>1, <2>2, <2>3
<1> QED BY <1>1, <1>2, <1>10, <1>11 DEF Distinct

\* A list that repeats nothing holds everything but the entry that is taken from it.
LEMMA WithoutIn ==
    ASSUME NEW S, NEW q \in Seq(S), NEW k \in 1 .. Len(q)
    PROVE  /\ In(Without(q, k)) \subseteq In(q)
           /\ Distinct(q) => /\ Distinct(Without(q, k))
                             /\ q[k] \notin In(Without(q, k))
<1> DEFINE r == Without(q, k)
<1>1. /\ r \in Seq(S) /\ Len(r) = Len(q) - 1
      /\ \A i \in 1 .. Len(q) - 1 : r[i] = IF i < k THEN q[i] ELSE q[i + 1]
  BY WithoutIs
<1> HIDE DEF r
<1>2. /\ Len(q) \in Nat /\ DOMAIN r = 1 .. Len(q) - 1 /\ DOMAIN q = 1 .. Len(q)
  BY <1>1
<1> DEFINE at(i) == IF i < k THEN i ELSE i + 1
<1>3. /\ \A i \in DOMAIN r : at(i) \in DOMAIN q /\ r[i] = q[at(i)] /\ at(i) # k
      /\ \A i, j \in DOMAIN r : at(i) = at(j) => i = j
  BY <1>1, <1>2
<1> HIDE DEF at
<1>4. In(r) \subseteq In(q) BY <1>3 DEF In
<1>5. ASSUME Distinct(q)
      PROVE  Distinct(r) /\ q[k] \notin In(r)
  <2>1. Distinct(r) BY <1>3, <1>5 DEF Distinct
  <2>2. k \in DOMAIN q BY <1>2
  <2>3. q[k] \notin In(r) BY <1>3, <1>5, <2>2 DEF Distinct, In
  <2> QED BY <2>1, <2>3
<1> QED BY <1>4, <1>5 DEF r

\* The first entry of a page that a list has.
LEMMA FirstAtIs ==
    ASSUME NEW S, NEW q \in Seq(S), NEW x \in In(q)
    PROVE  FirstAt(q, x) \in 1 .. Len(q) /\ q[FirstAt(q, x)] = x
<1> DEFINE T == {i \in DOMAIN q : q[i] = x}
<1>1. DOMAIN q = 1 .. Len(q) /\ Len(q) \in Nat OBVIOUS
<1>2. T \in SUBSET Nat BY <1>1
<1>3. T # {} BY DEF In
<1>4. PICK i \in T : \A j \in T : i <= j BY <1>2, <1>3, LeastNumber
<1>5. i \in DOMAIN q /\ q[i] = x /\ \A j \in 1 .. i - 1 : q[j] # x
  BY <1>1, <1>4
<1>6. FirstAt(q, x) \in DOMAIN q /\ q[FirstAt(q, x)] = x
  BY <1>5 DEF FirstAt
<1> QED BY <1>1, <1>6

\* A list from which a page is removed.
LEMMA ForgetIs ==
    ASSUME NEW S, NEW q \in Seq(S), NEW x
    PROVE  /\ Forget(q, x) \in Seq(S) /\ Len(Forget(q, x)) <= Len(q)
           /\ In(Forget(q, x)) \subseteq In(q)
           /\ Distinct(q) => Distinct(Forget(q, x)) /\ x \notin In(Forget(q, x))
<1>1. CASE x \notin In(q) BY <1>1 DEF Forget
<1>2. CASE x \in In(q)
  <2>1. PICK k \in 1 .. Len(q) : k = FirstAt(q, x) /\ q[k] = x
    BY <1>2, FirstAtIs
  <2>2. Forget(q, x) = Without(q, k) BY <1>2, <2>1 DEF Forget
  <2>3. Without(q, k) \in Seq(S) /\ Len(Without(q, k)) = Len(q) - 1
    BY WithoutIs
  <2>4. /\ In(Without(q, k)) \subseteq In(q)
        /\ Distinct(q) => Distinct(Without(q, k)) /\ q[k] \notin In(Without(q, k))
    BY WithoutIn
  <2> QED BY <2>1, <2>2, <2>3, <2>4
<1> QED BY <1>1, <1>2

-----------------------------------------------------------------------------
(* The operations on the lists of ARC *)

\* The lists have their types and the ghosts are no more than c.
Good(L) ==
    /\ L \in [t1 : Seq(Pages), t2 : Seq(Pages), b1 : Seq(Pages), b2 : Seq(Pages), p : 0 .. c]
    /\ Len(L.b1) <= c /\ Len(L.b2) <= c

\* T1 is within its target.
Tight(L) == Len(L.t1) <= L.p

\* T1 and T2 have only pages of R, and each of them once.
Once(L, R) ==
    /\ Distinct(L.t1) /\ Distinct(L.t2)
    /\ In(L.t1) \cap In(L.t2) = {} /\ In(L.t1) \cup In(L.t2) \subseteq R

\* The capacity is a positive number.
LEMMA CapacityIs == c \in Nat /\ c > 0
BY ARCAssumption DEF c

\* A ghost enters a list that stays within c.
LEMMA GhostIs ==
    ASSUME NEW q \in Seq(Pages), NEW x \in Pages
    PROVE  Ghost(q, x) \in Seq(Pages) /\ Len(Ghost(q, x)) <= c
<1>1. <<x>> \o q \in Seq(Pages) BY InFront
<1> QED BY <1>1, FirstOfIs, CapacityIs DEF Ghost

\* adapt brings T1 within its target, and only takes from T1 and T2.
LEMMA AdaptIs ==
    ASSUME NEW L, Good(L)
    PROVE  /\ Good(Adapt(L)) /\ Tight(Adapt(L))
           /\ In(Adapt(L).t1) \subseteq In(L.t1) /\ In(Adapt(L).t2) \subseteq In(L.t2)
           /\ \A R : Once(L, R) => Once(Adapt(L), R)
<1>1. /\ L.t1 \in Seq(Pages) /\ L.t2 \in Seq(Pages)
      /\ L.b1 \in Seq(Pages) /\ L.b2 \in Seq(Pages) /\ L.p \in 0 .. c
      /\ L = [t1 |-> L.t1, t2 |-> L.t2, b1 |-> L.b1, b2 |-> L.b2, p |-> L.p]
  BY DEF Good
<1>2. PICK k \in Nat : k = L.p BY <1>1, CapacityIs
<1>3. PICK m \in Nat \ {0} : m = L.p + 1 BY <1>1, CapacityIs
<1> DEFINE A1 == FirstOf(k, L.t1)
           n == c - Len(A1)
<1>4. /\ A1 \in Seq(Pages) /\ Len(A1) <= k
      /\ In(A1) \subseteq In(L.t1) /\ (Distinct(L.t1) => Distinct(A1))
  BY <1>1, FirstOfIs, FirstOfIn
<1>5. n \in Nat /\ n + 1 \in Nat \ {0}
  <2>1. Len(A1) \in Nat BY <1>4
  <2> HIDE DEF A1
  <2> QED BY <1>1, <1>2, <1>4, <2>1, CapacityIs
<1> HIDE DEF n
<1> DEFINE A2 == FirstOf(n, L.t2)
           C1 == FirstOf(c, From(m, L.t1) \o L.b1)
           C2 == FirstOf(c, From(n + 1, L.t2) \o L.b2)
<1>6. /\ A2 \in Seq(Pages)
      /\ In(A2) \subseteq In(L.t2) /\ (Distinct(L.t2) => Distinct(A2))
  BY <1>1, <1>5, FirstOfIs, FirstOfIn
<1>7. C1 \in Seq(Pages) /\ Len(C1) <= c
  <2>1. From(m, L.t1) \in Seq(Pages) BY <1>1, <1>3, FromIs
  <2>2. From(m, L.t1) \o L.b1 \in Seq(Pages) BY <1>1, <2>1, ConcatProperties
  <2> QED BY <2>2, FirstOfIs, CapacityIs
<1>8. C2 \in Seq(Pages) /\ Len(C2) <= c
  <2>1. From(n + 1, L.t2) \in Seq(Pages) BY <1>1, <1>5, FromIs
  <2>2. From(n + 1, L.t2) \o L.b2 \in Seq(Pages) BY <1>1, <2>1, ConcatProperties
  <2> QED BY <2>2, FirstOfIs, CapacityIs
<1>9. Adapt(L) = [L EXCEPT !.t1 = A1, !.b1 = C1, !.t2 = A2, !.b2 = C2]
  BY <1>1, <1>2, <1>3 DEF Adapt, n
<1> HIDE DEF A1, A2, C1, C2
<1>10. /\ Adapt(L).t1 = A1 /\ Adapt(L).t2 = A2 /\ Adapt(L).b1 = C1 /\ Adapt(L).b2 = C2
       /\ Adapt(L).p = L.p
       /\ Adapt(L) = [t1 |-> A1, t2 |-> A2, b1 |-> C1, b2 |-> C2, p |-> L.p]
  BY <1>1, <1>9
<1>11. Good(Adapt(L)) BY <1>1, <1>4, <1>6, <1>7, <1>8, <1>10 DEF Good
<1>12. Tight(Adapt(L)) BY <1>2, <1>4, <1>10 DEF Tight
<1>13. ASSUME NEW R, Once(L, R)
       PROVE  Once(Adapt(L), R)
  BY <1>4, <1>6, <1>10, <1>13 DEF Once
<1> QED BY <1>4, <1>6, <1>10, <1>11, <1>12, <1>13

\* The fields of a good record of lists.
LEMMA GoodFields ==
    ASSUME NEW L, Good(L)
    PROVE  /\ L.t1 \in Seq(Pages) /\ L.t2 \in Seq(Pages)
           /\ L.b1 \in Seq(Pages) /\ L.b2 \in Seq(Pages) /\ L.p \in 0 .. c
           /\ Len(L.b1) \in Nat /\ Len(L.b2) \in Nat /\ Len(L.b1) <= c /\ Len(L.b2) <= c
           /\ L = [t1 |-> L.t1, t2 |-> L.t2, b1 |-> L.b1, b2 |-> L.b2, p |-> L.p]
BY DEF Good

\* A page that neither list has enters T1, and adapt runs.
LEMMA EnterT1 ==
    ASSUME NEW L, Good(L), NEW pg \in Pages
    PROVE  LET M == Adapt([L EXCEPT !.t1 = <<pg>> \o @])
           IN  /\ Good(M) /\ Tight(M)
               /\ \A R : Once(L, R) /\ pg \notin In(L.t1) \cup In(L.t2) => Once(M, R \cup {pg})
<1>1. /\ L.t1 \in Seq(Pages) /\ L.t2 \in Seq(Pages)
      /\ L.b1 \in Seq(Pages) /\ L.b2 \in Seq(Pages) /\ L.p \in 0 .. c
      /\ Len(L.b1) <= c /\ Len(L.b2) <= c
      /\ L = [t1 |-> L.t1, t2 |-> L.t2, b1 |-> L.b1, b2 |-> L.b2, p |-> L.p]
  BY GoodFields
<1> DEFINE T == <<pg>> \o L.t1
<1>2. /\ T \in Seq(Pages) /\ In(T) = In(L.t1) \cup {pg}
      /\ Distinct(L.t1) /\ pg \notin In(L.t1) => Distinct(T)
  BY <1>1, InFront
<1>3. PICK N : N = [L EXCEPT !.t1 = <<pg>> \o @] OBVIOUS
<1>4. N = [L EXCEPT !.t1 = T] BY <1>3, <1>1
<1> HIDE DEF T
<1>5. N = [t1 |-> T, t2 |-> L.t2, b1 |-> L.b1, b2 |-> L.b2, p |-> L.p]
  BY <1>4, <1>1
<1>6. N.t1 = T /\ N.t2 = L.t2 /\ N.b1 = L.b1 /\ N.b2 = L.b2 /\ N.p = L.p
  BY <1>5
<1>7. Good(N) BY <1>2, <1>5, <1>6, <1>1 DEF Good
<1>8. ASSUME NEW R, Once(L, R), pg \notin In(L.t1) \cup In(L.t2)
      PROVE  Once(N, R \cup {pg})
  BY <1>2, <1>6, <1>8 DEF Once
<1>9. /\ Good(Adapt(N)) /\ Tight(Adapt(N))
      /\ \A R : Once(N, R) => Once(Adapt(N), R)
  BY <1>7, AdaptIs
<1> QED BY <1>3, <1>8, <1>9

\* A page that neither list has enters T2.
LEMMA EnterT2 ==
    ASSUME NEW L, Good(L), Tight(L), NEW pg \in Pages
    PROVE  LET M == [L EXCEPT !.t2 = <<pg>> \o @]
           IN  /\ Good(M) /\ Tight(M)
               /\ \A R : Once(L, R) /\ pg \notin In(L.t1) \cup In(L.t2) => Once(M, R \cup {pg})
<1>1. /\ L.t1 \in Seq(Pages) /\ L.t2 \in Seq(Pages)
      /\ L.b1 \in Seq(Pages) /\ L.b2 \in Seq(Pages) /\ L.p \in 0 .. c
      /\ Len(L.b1) <= c /\ Len(L.b2) <= c
      /\ L = [t1 |-> L.t1, t2 |-> L.t2, b1 |-> L.b1, b2 |-> L.b2, p |-> L.p]
  BY GoodFields
<1> DEFINE T == <<pg>> \o L.t2
<1>2. /\ T \in Seq(Pages) /\ In(T) = In(L.t2) \cup {pg}
      /\ Distinct(L.t2) /\ pg \notin In(L.t2) => Distinct(T)
  BY <1>1, InFront
<1>3. PICK N : N = [L EXCEPT !.t2 = <<pg>> \o @] OBVIOUS
<1>4. N = [L EXCEPT !.t2 = T] BY <1>3, <1>1
<1> HIDE DEF T
<1>5. N = [t1 |-> L.t1, t2 |-> T, b1 |-> L.b1, b2 |-> L.b2, p |-> L.p]
  BY <1>4, <1>1
<1>6. N.t1 = L.t1 /\ N.t2 = T /\ N.b1 = L.b1 /\ N.b2 = L.b2 /\ N.p = L.p
  BY <1>5
<1>7. Good(N) BY <1>2, <1>5, <1>6, <1>1 DEF Good
<1>8. Tight(N) BY <1>6 DEF Tight
<1>9. ASSUME NEW R, Once(L, R), pg \notin In(L.t1) \cup In(L.t2)
      PROVE  Once(N, R \cup {pg})
  BY <1>2, <1>6, <1>9 DEF Once
<1> QED BY <1>3, <1>7, <1>8, <1>9

\* Other ghosts and another target for the same T1 and T2.
LEMMA Reghosted ==
    ASSUME NEW L, Good(L), NEW B \in Seq(Pages), NEW D \in Seq(Pages), NEW k \in 0 .. c,
           Len(B) <= c, Len(D) <= c,
           NEW M, M = [t1 |-> L.t1, t2 |-> L.t2, b1 |-> B, b2 |-> D, p |-> k]
    PROVE  /\ Good(M) /\ M.t1 = L.t1 /\ M.t2 = L.t2 /\ M.p = k
           /\ \A R : Once(L, R) => Once(M, R)
<1>1. L.t1 \in Seq(Pages) /\ L.t2 \in Seq(Pages) BY GoodFields
<1>2. M.t1 = L.t1 /\ M.t2 = L.t2 /\ M.b1 = B /\ M.b2 = D /\ M.p = k OBVIOUS
<1>3. Good(M) BY <1>1, <1>2 DEF Good
<1>4. ASSUME NEW R, Once(L, R) PROVE Once(M, R) BY <1>2, <1>4 DEF Once
<1> QED BY <1>2, <1>3, <1>4

\* A fault of a page that is not resident.
LEMMA FaultLists ==
    ASSUME NEW L, Good(L), Tight(L), NEW pg \in Pages
    PROVE  LET M == OnPageFault(L, pg)
           IN  /\ Good(M) /\ Tight(M)
               /\ \A R : Once(L, R) /\ pg \notin R => Once(M, R \cup {pg})
<1>1. /\ L.t1 \in Seq(Pages) /\ L.t2 \in Seq(Pages)
      /\ L.b1 \in Seq(Pages) /\ L.b2 \in Seq(Pages) /\ L.p \in 0 .. c
      /\ Len(L.b1) \in Nat /\ Len(L.b2) \in Nat /\ Len(L.b1) <= c /\ Len(L.b2) <= c
      /\ L = [t1 |-> L.t1, t2 |-> L.t2, b1 |-> L.b1, b2 |-> L.b2, p |-> L.p]
  BY GoodFields
<1>2. \A R : Once(L, R) /\ pg \notin R => pg \notin In(L.t1) \cup In(L.t2) BY DEF Once
<1> DEFINE B == Forget(L.b1, pg)
           D == Forget(L.b2, pg)
<1>3. /\ B \in Seq(Pages) /\ Len(B) <= Len(L.b1) /\ D \in Seq(Pages) /\ Len(D) <= Len(L.b2)
  BY <1>1, ForgetIs
<1>4. Len(B) \in Nat /\ Len(D) \in Nat BY <1>3
<1> HIDE DEF B, D
<1>5. Len(B) <= c /\ Len(D) <= c BY <1>1, <1>3, <1>4, CapacityIs
<1>6. CASE pg \in In(L.b1)
  <2>1. PICK N : N = [t1 |-> L.t1, t2 |-> L.t2, b1 |-> B, b2 |-> L.b2, p |-> L.p] OBVIOUS
  <2>2. /\ Good(N) /\ N.t1 = L.t1 /\ N.t2 = L.t2 /\ N.p = L.p
        /\ \A R : Once(L, R) => Once(N, R)
    BY <1>1, <1>3, <1>5, <2>1, Reghosted
  <2>3. Tight(N) BY <2>2 DEF Tight
  <2>4. OnPageFault(L, pg) = [N EXCEPT !.t2 = <<pg>> \o @]
    <3>1. PICK W : W = <<pg>> \o L.t2 OBVIOUS
    <3>2. OnPageFault(L, pg) = [L EXCEPT !.b1 = B, !.t2 = W]
      BY <1>1, <1>6, <3>1 DEF OnPageFault, B
    <3>3. OnPageFault(L, pg) = [t1 |-> L.t1, t2 |-> W, b1 |-> B, b2 |-> L.b2, p |-> L.p]
      BY <1>1, <3>2
    <3>4. PICK X : X = [N EXCEPT !.t2 = <<pg>> \o @] OBVIOUS
    <3>5. X = [N EXCEPT !.t2 = W] BY <2>2, <3>1, <3>4
    <3>6. X = [t1 |-> L.t1, t2 |-> W, b1 |-> B, b2 |-> L.b2, p |-> L.p]
      BY <2>1, <3>5
    <3> QED BY <3>3, <3>4, <3>6
  <2>5. LET M == [N EXCEPT !.t2 = <<pg>> \o @]
        IN  /\ Good(M) /\ Tight(M)
            /\ \A R : Once(N, R) /\ pg \notin In(N.t1) \cup In(N.t2) => Once(M, R \cup {pg})
    BY <2>2, <2>3, EnterT2
  <2> QED BY <1>2, <2>2, <2>4, <2>5
<1>7. CASE pg \notin In(L.b1) /\ pg \in In(L.b2)
  <2>1. PICK N : N = [t1 |-> L.t1, t2 |-> L.t2, b1 |-> L.b1, b2 |-> D, p |-> L.p] OBVIOUS
  <2>2. /\ Good(N) /\ N.t1 = L.t1 /\ N.t2 = L.t2 /\ N.p = L.p
        /\ \A R : Once(L, R) => Once(N, R)
    BY <1>1, <1>3, <1>5, <2>1, Reghosted
  <2>3. Tight(N) BY <2>2 DEF Tight
  <2>4. OnPageFault(L, pg) = [N EXCEPT !.t2 = <<pg>> \o @]
    <3>1. PICK W : W = <<pg>> \o L.t2 OBVIOUS
    <3>2. OnPageFault(L, pg) = [L EXCEPT !.b2 = D, !.t2 = W]
      BY <1>1, <1>7, <3>1 DEF OnPageFault, D
    <3>3. OnPageFault(L, pg) = [t1 |-> L.t1, t2 |-> W, b1 |-> L.b1, b2 |-> D, p |-> L.p]
      BY <1>1, <3>2
    <3>4. PICK X : X = [N EXCEPT !.t2 = <<pg>> \o @] OBVIOUS
    <3>5. X = [N EXCEPT !.t2 = W] BY <2>2, <3>1, <3>4
    <3>6. X = [t1 |-> L.t1, t2 |-> W, b1 |-> L.b1, b2 |-> D, p |-> L.p]
      BY <2>1, <3>5
    <3> QED BY <3>3, <3>4, <3>6
  <2>5. LET M == [N EXCEPT !.t2 = <<pg>> \o @]
        IN  /\ Good(M) /\ Tight(M)
            /\ \A R : Once(N, R) /\ pg \notin In(N.t1) \cup In(N.t2) => Once(M, R \cup {pg})
    BY <2>2, <2>3, EnterT2
  <2> QED BY <1>2, <2>2, <2>4, <2>5
<1>8. CASE pg \notin In(L.b1) /\ pg \notin In(L.b2)
  <2>1. OnPageFault(L, pg) = Adapt([L EXCEPT !.t1 = <<pg>> \o @]) BY <1>8 DEF OnPageFault
  <2>2. LET M == Adapt([L EXCEPT !.t1 = <<pg>> \o @])
        IN  /\ Good(M) /\ Tight(M)
            /\ \A R : Once(L, R) /\ pg \notin In(L.t1) \cup In(L.t2) => Once(M, R \cup {pg})
    BY EnterT1
  <2> QED BY <1>2, <2>1, <2>2
<1> QED BY <1>6, <1>7, <1>8

\* The page enters T2 after adapt.
LEMMA PromoteLists ==
    ASSUME NEW L, Good(L), NEW pg \in Pages
    PROVE  LET M == Promote(L, pg)
           IN  /\ Good(M) /\ Tight(M)
               /\ \A R : Once(L, R) /\ pg \notin In(L.t1) \cup In(L.t2) => Once(M, R \cup {pg})
<1>1. PICK N : N = Adapt(L) OBVIOUS
<1>2. /\ Good(N) /\ Tight(N)
      /\ In(N.t1) \subseteq In(L.t1) /\ In(N.t2) \subseteq In(L.t2)
      /\ \A R : Once(L, R) => Once(N, R)
  BY <1>1, AdaptIs
<1>3. LET M == [N EXCEPT !.t2 = <<pg>> \o @]
      IN  /\ Good(M) /\ Tight(M)
          /\ \A R : Once(N, R) /\ pg \notin In(N.t1) \cup In(N.t2) => Once(M, R \cup {pg})
  BY <1>2, EnterT2
<1>4. Promote(L, pg) = [N EXCEPT !.t2 = <<pg>> \o @] BY <1>1 DEF Promote
<1> QED BY <1>2, <1>3, <1>4

\* A hit in the ghosts moves the target by a positive number.
LEMMA DeltaIs ==
    ASSUME NEW m \in Nat, NEW n \in Nat
    PROVE  Delta(m, n) \in Nat
<1>1. CASE m >= n /\ n > 0
  <2>1. m \div n \in Nat BY <1>1
  <2> QED BY <1>1, <2>1 DEF Delta
<1>2. CASE ~(m >= n /\ n > 0) BY <1>2 DEF Delta
<1> QED BY <1>1, <1>2

\* A hit of a resident page, in whichever list it is.
LEMMA AccessLists ==
    ASSUME NEW L, Good(L), Tight(L), NEW pg \in Pages
    PROVE  LET M == OnPageAccess(L, pg)
           IN  /\ Good(M) /\ Tight(M)
               /\ \A R : Once(L, R) /\ pg \in R => Once(M, R)
<1>1. /\ L.t1 \in Seq(Pages) /\ L.t2 \in Seq(Pages)
      /\ L.b1 \in Seq(Pages) /\ L.b2 \in Seq(Pages) /\ L.p \in 0 .. c
      /\ Len(L.b1) \in Nat /\ Len(L.b2) \in Nat /\ Len(L.b1) <= c /\ Len(L.b2) <= c
      /\ L = [t1 |-> L.t1, t2 |-> L.t2, b1 |-> L.b1, b2 |-> L.b2, p |-> L.p]
  BY GoodFields
<1>2. \A R : pg \in R => R \cup {pg} = R OBVIOUS
<1> DEFINE B == Forget(L.b1, pg)
           D == Forget(L.b2, pg)
           T == Forget(L.t1, pg)
           U == Forget(L.t2, pg)
           F == <<pg>> \o L.t2
           G == <<pg>> \o U
<1>3. /\ B \in Seq(Pages) /\ Len(B) <= Len(L.b1) /\ D \in Seq(Pages) /\ Len(D) <= Len(L.b2)
  BY <1>1, ForgetIs
<1>4. /\ T \in Seq(Pages) /\ Len(T) <= Len(L.t1) /\ In(T) \subseteq In(L.t1)
      /\ Distinct(L.t1) => Distinct(T) /\ pg \notin In(T)
  BY <1>1, ForgetIs
<1>5. /\ U \in Seq(Pages) /\ In(U) \subseteq In(L.t2)
      /\ Distinct(L.t2) => Distinct(U) /\ pg \notin In(U)
  BY <1>1, ForgetIs
<1>6. /\ F \in Seq(Pages) /\ In(F) = In(L.t2) \cup {pg}
      /\ Distinct(L.t2) /\ pg \notin In(L.t2) => Distinct(F)
  BY <1>1, InFront
<1>7. /\ G \in Seq(Pages) /\ In(G) = In(U) \cup {pg}
      /\ Distinct(U) /\ pg \notin In(U) => Distinct(G)
  <2> HIDE DEF U
  <2> QED BY <1>5, InFront
<1> HIDE DEF B, D, T, U, F, G
<1>8. Len(B) <= c /\ Len(D) <= c
  <2>1. Len(B) \in Nat /\ Len(D) \in Nat BY <1>3
  <2> QED BY <1>1, <1>3, <2>1, CapacityIs
<1>9. CASE pg \in In(L.t1)
  <2>1. PICK M : M = [t1 |-> T, t2 |-> F, b1 |-> L.b1, b2 |-> L.b2, p |-> L.p] OBVIOUS
  <2>2. OnPageAccess(L, pg) = M
    BY <1>1, <1>9, <2>1 DEF OnPageAccess, T, F
  <2>3. M.t1 = T /\ M.t2 = F /\ M.b1 = L.b1 /\ M.b2 = L.b2 /\ M.p = L.p BY <2>1
  <2>4. Good(M) BY <1>1, <1>4, <1>6, <2>1, <2>3 DEF Good
  <2>5. Tight(M)
    <3>1. Len(T) \in Nat /\ Len(L.t1) \in Nat /\ L.p \in Int BY <1>1, <1>4, CapacityIs
    <3> QED BY <1>4, <2>3, <3>1 DEF Tight
  <2>6. ASSUME NEW R, Once(L, R), pg \in R
        PROVE  Once(M, R)
    <3>1. pg \notin In(L.t2) BY <1>9, <2>6 DEF Once
    <3> QED BY <1>4, <1>6, <2>3, <2>6, <3>1 DEF Once
  <2> QED BY <2>2, <2>4, <2>5, <2>6
<1>10. CASE pg \in In(L.t2) \ In(L.t1)
  <2>1. PICK M : M = [t1 |-> L.t1, t2 |-> G, b1 |-> L.b1, b2 |-> L.b2, p |-> L.p] OBVIOUS
  <2>2. OnPageAccess(L, pg) = M
    BY <1>1, <1>10, <2>1 DEF OnPageAccess, G, U
  <2>3. M.t1 = L.t1 /\ M.t2 = G /\ M.b1 = L.b1 /\ M.b2 = L.b2 /\ M.p = L.p BY <2>1
  <2>4. Good(M) BY <1>1, <1>7, <2>1, <2>3 DEF Good
  <2>5. Tight(M) BY <2>3 DEF Tight
  <2>6. ASSUME NEW R, Once(L, R), pg \in R
        PROVE  Once(M, R)
    BY <1>5, <1>7, <1>10, <2>3, <2>6 DEF Once
  <2> QED BY <2>2, <2>4, <2>5, <2>6
<1>11. CASE pg \in In(L.b1) \ (In(L.t1) \cup In(L.t2))
  <2>1. PICK k \in 0 .. c : k = Raised(L)
    <3>1. Delta(Len(L.b1), Len(L.b2)) \in Nat BY <1>1, DeltaIs
    <3> QED BY <1>1, <3>1, CapacityIs DEF Smaller, Raised
  <2>2. PICK N : N = [t1 |-> L.t1, t2 |-> L.t2, b1 |-> B, b2 |-> L.b2, p |-> k] OBVIOUS
  <2>3. /\ Good(N) /\ N.t1 = L.t1 /\ N.t2 = L.t2 /\ N.p = k
        /\ \A R : Once(L, R) => Once(N, R)
    <3>1. /\ L.b1 \in Seq(Pages) /\ L.b2 \in Seq(Pages) /\ B \in Seq(Pages) /\ D \in Seq(Pages)
          /\ Len(L.b1) <= c /\ Len(L.b2) <= c /\ Len(B) <= c /\ Len(D) <= c
      BY <1>1, <1>3, <1>8
    <3> QED BY <2>1, <2>2, <3>1, Reghosted
  <2>4. OnPageAccess(L, pg) = Promote(N, pg)
    <3>1. PICK X : X = [L EXCEPT !.p = Raised(L), !.b1 = Forget(@, pg)]
      OBVIOUS
    <3>2. X = [L EXCEPT !.p = k, !.b1 = B] BY <1>1, <2>1, <3>1 DEF B
    <3>3. X = [t1 |-> L.t1, t2 |-> L.t2, b1 |-> B, b2 |-> L.b2, p |-> k]
      <4>1. L = [t1 |-> L.t1, t2 |-> L.t2, b1 |-> L.b1, b2 |-> L.b2, p |-> L.p] BY <1>1
      <4> QED BY <3>2, <4>1
    <3>4. X = N BY <2>2, <3>3
    <3> QED BY <1>11, <3>1, <3>4 DEF OnPageAccess
  <2>5. LET M == Promote(N, pg)
        IN  /\ Good(M) /\ Tight(M)
            /\ \A R : Once(N, R) /\ pg \notin In(N.t1) \cup In(N.t2) => Once(M, R \cup {pg})
    BY <2>3, PromoteLists
  <2> QED BY <1>2, <1>11, <2>3, <2>4, <2>5
<1>12. CASE pg \in In(L.b2) \ (In(L.t1) \cup In(L.t2) \cup In(L.b1))
  <2>1. PICK k \in 0 .. c : k = Lowered(L)
    <3>1. Delta(Len(L.b2), Len(L.b1)) \in Nat BY <1>1, DeltaIs
    <3> QED BY <1>1, <3>1, CapacityIs DEF Larger, Lowered
  <2>2. PICK N : N = [t1 |-> L.t1, t2 |-> L.t2, b1 |-> L.b1, b2 |-> D, p |-> k] OBVIOUS
  <2>3. /\ Good(N) /\ N.t1 = L.t1 /\ N.t2 = L.t2 /\ N.p = k
        /\ \A R : Once(L, R) => Once(N, R)
    <3>1. /\ L.b1 \in Seq(Pages) /\ L.b2 \in Seq(Pages) /\ B \in Seq(Pages) /\ D \in Seq(Pages)
          /\ Len(L.b1) <= c /\ Len(L.b2) <= c /\ Len(B) <= c /\ Len(D) <= c
      BY <1>1, <1>3, <1>8
    <3> QED BY <2>1, <2>2, <3>1, Reghosted
  <2>4. OnPageAccess(L, pg) = Promote(N, pg)
    <3>1. PICK X : X = [L EXCEPT !.p = Lowered(L), !.b2 = Forget(@, pg)]
      OBVIOUS
    <3>2. X = [L EXCEPT !.p = k, !.b2 = D] BY <1>1, <2>1, <3>1 DEF D
    <3>3. X = [t1 |-> L.t1, t2 |-> L.t2, b1 |-> L.b1, b2 |-> D, p |-> k]
      <4>1. L = [t1 |-> L.t1, t2 |-> L.t2, b1 |-> L.b1, b2 |-> L.b2, p |-> L.p] BY <1>1
      <4> QED BY <3>2, <4>1
    <3>4. X = N BY <2>2, <3>3
    <3> QED BY <1>12, <3>1, <3>4 DEF OnPageAccess
  <2>5. LET M == Promote(N, pg)
        IN  /\ Good(M) /\ Tight(M)
            /\ \A R : Once(N, R) /\ pg \notin In(N.t1) \cup In(N.t2) => Once(M, R \cup {pg})
    BY <2>3, PromoteLists
  <2> QED BY <1>2, <1>12, <2>3, <2>4, <2>5
<1>13. CASE pg \notin In(L.t1) \cup In(L.t2) \cup In(L.b1) \cup In(L.b2)
  <2>1. PICK M : M = Adapt([L EXCEPT !.t1 = <<pg>> \o @]) OBVIOUS
  <2>2. OnPageAccess(L, pg) = M
    BY <1>13, <2>1 DEF OnPageAccess
  <2>3. /\ Good(M) /\ Tight(M)
        /\ \A R : Once(L, R) /\ pg \notin In(L.t1) \cup In(L.t2) => Once(M, R \cup {pg})
    BY <2>1, EnterT1
  <2> QED BY <1>2, <1>13, <2>2, <2>3
<1> QED BY <1>9, <1>10, <1>11, <1>12, <1>13

-----------------------------------------------------------------------------
(* SelectVictim of ARC *)

\* What the frames are.
FramesOK == page \in [Frames -> Pages \cup {NoPage}] /\ pinned \subseteq Frames

\* The first of some frames is one of them.
LEMMA LowestIs ==
    ASSUME NEW S \in SUBSET Frames, S # {}
    PROVE  Lowest(S) \in S
<1>1. S \in SUBSET Nat BY ARCAssumption DEF Frames
<1>2. \E f \in S : \A g \in S : f <= g BY <1>1, LeastNumber
<1> QED BY <1>2 DEF Lowest

\* A list with an entry that can be taken yields one, and a frame that has its page.
LEMMA TakenIs ==
    ASSUME FramesOK, NEW q \in Seq(Pages), Takeable(q) # {}
    PROVE  /\ LastTakeable(q) \in 1 .. Len(q)
           /\ FrameOf(q[LastTakeable(q)]) \in Evictable
           /\ page[FrameOf(q[LastTakeable(q)])] = q[LastTakeable(q)]
<1>1. DOMAIN q = 1 .. Len(q) /\ Len(q) \in Nat OBVIOUS
<1>2. Takeable(q) \in SUBSET Nat /\ \A n \in Takeable(q) : n <= Len(q)
  BY <1>1 DEF Takeable
<1>3. \E i \in Takeable(q) : \A j \in Takeable(q) : j <= i
  BY <1>1, <1>2, GreatestNumber
<1>4. PICK k \in Takeable(q) : k = LastTakeable(q) BY <1>3 DEF LastTakeable
<1>5. k \in 1 .. Len(q) /\ \E f \in Evictable : page[f] = q[k] BY <1>1 DEF Takeable
<1> DEFINE S == {f \in Evictable : page[f] = q[k]}
<1>6. S \in SUBSET Frames /\ S # {} BY <1>5 DEF Evictable, Used
<1>7. Lowest(S) \in S BY <1>6, LowestIs
<1>8. FrameOf(q[k]) = Lowest(S) BY DEF FrameOf
<1> QED BY <1>4, <1>5, <1>7, <1>8

\* An eviction takes a frame in use, and neither T1 nor T2 has its page afterwards.
LEMMA VictimLists ==
    ASSUME FramesOK, Good(Lists), Tight(Lists), Evictable # {}
    PROVE  /\ FindVictim \in Evictable
           /\ LET M == AfterVictim(page[FindVictim])
              IN  /\ Good(M) /\ Tight(M)
                  /\ \A R : Once(Lists, R) => Once(M, R \ {page[FindVictim]})
<1>1. /\ t1 \in Seq(Pages) /\ t2 \in Seq(Pages)
      /\ b1 \in Seq(Pages) /\ b2 \in Seq(Pages) /\ p \in 0 .. c
      /\ Len(b1) <= c /\ Len(b2) <= c
      /\ Lists = [t1 |-> t1, t2 |-> t2, b1 |-> b1, b2 |-> b2, p |-> p]
      /\ Lists.t1 = t1 /\ Lists.t2 = t2 /\ Lists.p = p
  BY DEF Good, Lists
<1>2. Len(t1) \in Nat /\ Len(t1) <= p /\ p \in Int BY <1>1, CapacityIs DEF Tight
<1>3. CASE Takeable(t1) # {}
  <2>1. PICK k \in 1 .. Len(t1) : k = LastTakeable(t1) BY <1>1, <1>3, TakenIs
  <2>2. PICK x \in Pages : x = t1[k] BY <1>1
  <2>3. FindVictim \in Evictable /\ page[FindVictim] = x
    <3>1. FindVictim = FrameOf(t1[LastTakeable(t1)]) BY <1>3 DEF FindVictim
    <3> QED BY <1>1, <1>3, <2>1, <2>2, <3>1, TakenIs
  <2> DEFINE T == Without(t1, k)
             B == Ghost(b1, x)
  <2>4. /\ T \in Seq(Pages) /\ Len(T) = Len(t1) - 1 /\ In(T) \subseteq In(t1)
        /\ Distinct(t1) => Distinct(T) /\ x \notin In(T)
    BY <1>1, <2>1, <2>2, WithoutIs, WithoutIn
  <2>5. B \in Seq(Pages) /\ Len(B) <= c BY <1>1, GhostIs
  <2>6. PICK M : M = AfterVictim(x) OBVIOUS
  <2>7. M = [Lists EXCEPT !.t1 = T, !.b1 = B]
    BY <1>1, <1>3, <2>1, <2>6 DEF AfterVictim, Lists
  <2> HIDE DEF T, B
  <2>8. M = [t1 |-> T, t2 |-> t2, b1 |-> B, b2 |-> b2, p |-> p] BY <2>7 DEF Lists
  <2>9. M.t1 = T /\ M.t2 = t2 /\ M.b1 = B /\ M.b2 = b2 /\ M.p = p BY <2>8
  <2>10. Good(M) BY <1>1, <2>4, <2>5, <2>8, <2>9 DEF Good
  <2>11. Tight(M) BY <1>2, <2>4, <2>9 DEF Tight
  <2>12. ASSUME NEW R, Once(Lists, R)
         PROVE  Once(M, R \ {x})
    <3>1. x \in In(t1) BY <1>1, <2>2 DEF In
    <3>2. x \notin In(t2) BY <1>1, <2>12, <3>1 DEF Once
    <3> QED BY <1>1, <2>4, <2>9, <2>12, <3>2 DEF Once
  <2> QED BY <2>3, <2>6, <2>10, <2>11, <2>12
<1>4. CASE Takeable(t1) = {} /\ Takeable(t2) # {}
  <2>1. PICK k \in 1 .. Len(t2) : k = LastTakeable(t2) BY <1>1, <1>4, TakenIs
  <2>2. PICK x \in Pages : x = t2[k] BY <1>1
  <2>3. FindVictim \in Evictable /\ page[FindVictim] = x
    <3>1. FindVictim = FrameOf(t2[LastTakeable(t2)]) BY <1>4 DEF FindVictim
    <3> QED BY <1>1, <1>4, <2>1, <2>2, <3>1, TakenIs
  <2> DEFINE T == Without(t2, k)
             B == Ghost(b2, x)
  <2>4. /\ T \in Seq(Pages) /\ In(T) \subseteq In(t2)
        /\ Distinct(t2) => Distinct(T) /\ x \notin In(T)
    BY <1>1, <2>1, <2>2, WithoutIs, WithoutIn
  <2>5. B \in Seq(Pages) /\ Len(B) <= c BY <1>1, GhostIs
  <2>6. PICK M : M = AfterVictim(x) OBVIOUS
  <2>7. M = [Lists EXCEPT !.t2 = T, !.b2 = B]
    BY <1>1, <1>4, <2>1, <2>6 DEF AfterVictim, Lists
  <2> HIDE DEF T, B
  <2>8. M = [t1 |-> t1, t2 |-> T, b1 |-> b1, b2 |-> B, p |-> p] BY <2>7 DEF Lists
  <2>9. M.t1 = t1 /\ M.t2 = T /\ M.b1 = b1 /\ M.b2 = B /\ M.p = p BY <2>8
  <2>10. Good(M) BY <1>1, <2>4, <2>5, <2>8, <2>9 DEF Good
  <2>11. Tight(M) BY <1>2, <2>9 DEF Tight
  <2>12. ASSUME NEW R, Once(Lists, R)
         PROVE  Once(M, R \ {x})
    <3>1. x \in In(t2) BY <1>1, <2>2 DEF In
    <3>2. x \notin In(t1) BY <1>1, <2>12, <3>1 DEF Once
    <3> QED BY <1>1, <2>4, <2>9, <2>12, <3>2 DEF Once
  <2> QED BY <2>3, <2>6, <2>10, <2>11, <2>12
<1>5. CASE Takeable(t1) = {} /\ Takeable(t2) = {}
  <2>1. FindVictim = Lowest(Evictable) BY <1>5 DEF FindVictim
  <2>2. Evictable \in SUBSET Frames BY DEF Evictable, Used
  <2>3. FindVictim \in Evictable BY <2>1, <2>2, LowestIs
  <2>4. PICK x \in Pages : x = page[FindVictim]
    BY <2>2, <2>3 DEF Evictable, Used, FramesOK
  <2> DEFINE T == Forget(t1, x)
             U == Forget(t2, x)
             B == Ghost(b1, x)
  <2>5. /\ T \in Seq(Pages) /\ Len(T) <= Len(t1) /\ In(T) \subseteq In(t1)
        /\ Distinct(t1) => Distinct(T) /\ x \notin In(T)
    BY <1>1, ForgetIs
  <2>6. /\ U \in Seq(Pages) /\ In(U) \subseteq In(t2)
        /\ Distinct(t2) => Distinct(U) /\ x \notin In(U)
    BY <1>1, ForgetIs
  <2>7. B \in Seq(Pages) /\ Len(B) <= c BY <1>1, GhostIs
  <2>8. PICK M : M = AfterVictim(x) OBVIOUS
  <2>9. M = [Lists EXCEPT !.t1 = T, !.t2 = U, !.b1 = B]
    BY <1>1, <1>5, <2>8 DEF AfterVictim, Lists
  <2> HIDE DEF T, U, B
  <2>10. M = [t1 |-> T, t2 |-> U, b1 |-> B, b2 |-> b2, p |-> p] BY <2>9 DEF Lists
  <2>11. M.t1 = T /\ M.t2 = U /\ M.b1 = B /\ M.b2 = b2 /\ M.p = p BY <2>10
  <2>12. Good(M) BY <1>1, <2>5, <2>6, <2>7, <2>10, <2>11 DEF Good
  <2>13. Tight(M)
    <3>1. Len(T) \in Nat BY <2>5
    <3> QED BY <1>2, <2>5, <2>11, <3>1 DEF Tight
  <2>14. ASSUME NEW R, Once(Lists, R)
         PROVE  Once(M, R \ {x})
    BY <1>1, <2>5, <2>6, <2>11, <2>14 DEF Once
  <2> QED BY <2>3, <2>4, <2>8, <2>12, <2>13, <2>14
<1> QED BY <1>3, <1>4, <1>5

-----------------------------------------------------------------------------
(* The invariant *)

\* The lists are good and within their target, and without strays they have resident
\* pages, once each; while CAR is in use they are empty, so that ARC starts from nothing
\* over whatever frames CAR has left.
ARCInv ==
    /\ FramesOK /\ stray \in BOOLEAN
    /\ Good(Lists) /\ Tight(Lists)
    /\ ~stray => Once(Lists, Resident)
    /\ alg = "CAR" => Lists = Empty

\* The lists after a step are the ones it has made.
LEMMA BecomeIs ==
    ASSUME NEW L, Good(L), Become(L)
    PROVE  Lists' = L
<1>1. L = [t1 |-> L.t1, t2 |-> L.t2, b1 |-> L.b1, b2 |-> L.b2, p |-> L.p] BY GoodFields
<1> QED BY <1>1 DEF Become, Lists

\* Any pages of which the lists were sound may be joined by others.
LEMMA OnceWidens ==
    ASSUME NEW L, NEW R, NEW Q, R \subseteq Q, Once(L, R)
    PROVE  Once(L, Q)
BY DEF Once

\* New lists are sound.
LEMMA EmptyIs == Good(Empty) /\ Tight(Empty) /\ \A R : Once(Empty, R)
<1>1. /\ Empty.t1 = <<>> /\ Empty.t2 = <<>> /\ Empty.b1 = <<>> /\ Empty.b2 = <<>> /\ Empty.p = 0
      /\ Empty = [t1 |-> <<>>, t2 |-> <<>>, b1 |-> <<>>, b2 |-> <<>>, p |-> 0]
  BY DEF Empty
<1>2. <<>> \in Seq(Pages) /\ Len(<<>>) = 0 /\ 0 \in 0 .. c BY CapacityIs
<1>3. Good(Empty) BY <1>1, <1>2, CapacityIs DEF Good
<1>4. In(<<>>) = {} /\ Distinct(<<>>) BY DEF In, Distinct
<1> QED BY <1>1, <1>2, <1>3, <1>4 DEF Tight, Once

\* A page is loaded into a frame: the pages of the other frames stay resident.
LEMMA Loaded ==
    ASSUME FramesOK, NEW f \in Frames, NEW pg \in Pages, page' = [page EXCEPT ![f] = pg],
           pinned' = pinned
    PROVE  FramesOK' /\ (Resident \ {page[f]}) \cup {pg} \subseteq Resident'
<1>1. FramesOK' BY DEF FramesOK
<1>2. /\ page'[f] = pg /\ pg # NoPage
      /\ \A g \in Frames : g # f => page'[g] = page[g]
  BY ARCAssumption DEF FramesOK, NoPage
<1>3. Resident' = {page'[g] : g \in {h \in Frames : page'[h] # NoPage}}
  BY DEF Resident, Used
<1>4. pg \in Resident' BY <1>2, <1>3
<1>5. ASSUME NEW x \in Resident, x # page[f] PROVE x \in Resident'
  <2>1. PICK g \in Frames : page[g] # NoPage /\ x = page[g] BY DEF Resident, Used
  <2>2. g # f BY <1>5, <2>1
  <2> QED BY <1>2, <1>3, <2>1, <2>2
<1> QED BY <1>1, <1>4, <1>5

\* The conclusion of every step under ARC: frames in order, sound lists.
LEMMA Sound ==
    ASSUME NEW L, Good(L), Tight(L), Become(L), FramesOK', stray' \in BOOLEAN,
           ~stray' => Once(L, Resident'), alg' = "ARC"
    PROVE  ARCInv'
<1>1. Lists' = L BY BecomeIs
<1>2. Good(Lists)' BY <1>1 DEF Good, c
<1>3. Tight(Lists)' BY <1>1 DEF Tight
<1>4. (~stray => Once(Lists, Resident))' BY <1>1 DEF Once
<1> QED BY <1>2, <1>3, <1>4 DEF ARCInv

\* A fault while a frame is free keeps the invariant.
LEMMA FaultARC ==
    ASSUME ARCInv, alg = "ARC", alg' = alg, NEW pg \in Pages, Fault(pg)
    PROVE  ARCInv'
<1>1. PICK L : L = OnPageFault(Lists, pg) OBVIOUS
<1>2. /\ Good(L) /\ Tight(L)
      /\ \A R : Once(Lists, R) /\ pg \notin R => Once(L, R \cup {pg})
  BY <1>1, FaultLists DEF ARCInv
<1>3. PICK f \in Frames : f = Lowest(Frames \ Used) /\ page[f] = NoPage
  <2>1. Frames \ Used \in SUBSET Frames /\ Frames \ Used # {} BY DEF Fault, Used
  <2>2. Lowest(Frames \ Used) \in Frames \ Used BY <2>1, LowestIs
  <2> QED BY <2>2 DEF Used
<1>4. FramesOK' /\ (Resident \ {page[f]}) \cup {pg} \subseteq Resident'
  BY <1>3, Loaded DEF Fault, ARCInv
<1>5. NoPage \notin Resident BY DEF Resident, Used
<1>6. Resident \cup {pg} \subseteq Resident' BY <1>3, <1>4, <1>5
<1>7. stray' \in BOOLEAN /\ (~stray' => ~stray /\ pg \notin Resident)
  BY DEF Fault, ARCInv
<1>8. ~stray' => Once(L, Resident')
  <2>1. SUFFICES ASSUME ~stray' PROVE Once(L, Resident') OBVIOUS
  <2>2. Once(L, Resident \cup {pg}) BY <1>2, <1>7, <2>1 DEF ARCInv
  <2> QED BY <1>6, <2>2, OnceWidens
<1>9. Become(L) BY <1>1 DEF Fault
<1> QED BY <1>2, <1>4, <1>7, <1>8, <1>9, Sound

\* A fault that evicts keeps it.
LEMMA FaultEvictARC ==
    ASSUME ARCInv, alg = "ARC", alg' = alg, NEW pg \in Pages, FaultEvict(pg)
    PROVE  ARCInv'
<1>1. PICK M : M = AfterVictim(page[FindVictim]) OBVIOUS
<1>2. /\ FindVictim \in Evictable /\ Good(M) /\ Tight(M)
      /\ \A R : Once(Lists, R) => Once(M, R \ {page[FindVictim]})
  BY <1>1, VictimLists DEF ARCInv, FaultEvict
<1>3. PICK f \in Frames : f = FindVictim BY <1>2 DEF Evictable, Used
<1>4. PICK L : L = OnPageFault(M, pg) OBVIOUS
<1>5. /\ Good(L) /\ Tight(L)
      /\ \A R : Once(M, R) /\ pg \notin R => Once(L, R \cup {pg})
  BY <1>2, <1>4, FaultLists
<1>6. FramesOK' /\ (Resident \ {page[f]}) \cup {pg} \subseteq Resident'
  BY <1>3, Loaded DEF FaultEvict, ARCInv
<1>7. stray' \in BOOLEAN /\ (~stray' => ~stray /\ pg \notin Resident)
  BY DEF FaultEvict, ARCInv
<1>8. ~stray' => Once(L, Resident')
  <2>1. SUFFICES ASSUME ~stray' PROVE Once(L, Resident') OBVIOUS
  <2>2. Once(M, Resident \ {page[f]}) BY <1>2, <1>3, <1>7, <2>1 DEF ARCInv
  <2>3. Once(L, (Resident \ {page[f]}) \cup {pg}) BY <1>5, <1>7, <2>1, <2>2
  <2> QED BY <1>6, <2>3, OnceWidens
<1>9. Become(L) BY <1>1, <1>4 DEF FaultEvict
<1> QED BY <1>5, <1>6, <1>7, <1>8, <1>9, Sound

\* A hit keeps it.
LEMMA HitARC ==
    ASSUME ARCInv, alg = "ARC", alg' = alg, NEW f \in Frames, Hit(f)
    PROVE  ARCInv'
<1>1. PICK pg \in Pages : pg = page[f] /\ pg \in Resident
  BY DEF ARCInv, FramesOK, Hit, Used, Resident
<1>2. PICK L : L = OnPageAccess(Lists, pg) OBVIOUS
<1>3. /\ Good(L) /\ Tight(L)
      /\ \A R : Once(Lists, R) /\ pg \in R => Once(L, R)
  BY <1>2, AccessLists DEF ARCInv
<1>4. /\ page' = page /\ pinned' = pinned /\ stray' = stray /\ Become(L)
  BY <1>1, <1>2 DEF Hit
<1>5. FramesOK' /\ stray' \in BOOLEAN BY <1>4 DEF ARCInv, FramesOK
<1>6. Resident' = Resident BY <1>4 DEF Resident, Used
<1>7. ~stray' => Once(L, Resident') BY <1>1, <1>3, <1>4, <1>6 DEF ARCInv
<1> QED BY <1>3, <1>4, <1>5, <1>7, Sound

\* What leaves the lists alone, and the resident pages where it matters, keeps it.
LEMMA ListsStay ==
    ASSUME ARCInv, UNCHANGED lists, FramesOK', stray' \in BOOLEAN,
           ~stray' => ~stray /\ Resident' = Resident,
           alg' = "CAR" => alg = "CAR"
    PROVE  ARCInv'
<1>1. Lists' = Lists BY DEF lists, Lists
<1>2. Good(Lists)' BY <1>1 DEF Good, c, ARCInv
<1>3. Tight(Lists)' BY <1>1 DEF Tight, ARCInv
<1>4. (~stray => Once(Lists, Resident))' BY <1>1 DEF Once, ARCInv
<1> QED BY <1>1, <1>2, <1>3, <1>4 DEF ARCInv, Empty

\* New lists, whatever the frames are.
LEMMA ListsNew ==
    ASSUME Become(Empty), FramesOK', stray' \in BOOLEAN
    PROVE  ARCInv'
<1>1. Lists' = Empty BY BecomeIs, EmptyIs
<1>2. Good(Lists)' BY <1>1, EmptyIs DEF Good, c
<1>3. Tight(Lists)' BY <1>1, EmptyIs DEF Tight
<1>4. Once(Empty, Resident') BY EmptyIs
<1>5. (~stray => Once(Lists, Resident))' BY <1>1, <1>4 DEF Once
<1> QED BY <1>1, <1>2, <1>3, <1>5 DEF ARCInv, Empty

\* Every step under ARC keeps it.
LEMMA NextARC ==
    ASSUME ARCInv, ARCStep
    PROVE  ARCInv'
<1>1. alg = "ARC" /\ alg' = alg BY DEF ARCStep
<1>2. ASSUME NEW pg \in Pages, Fault(pg) PROVE ARCInv' BY <1>1, <1>2, FaultARC
<1>3. ASSUME NEW pg \in Pages, FaultEvict(pg) PROVE ARCInv' BY <1>1, <1>3, FaultEvictARC
<1>4. ASSUME NEW f \in Frames, Hit(f) PROVE ARCInv' BY <1>1, <1>4, HitARC
<1>5. ASSUME NEW f \in Frames, Release(f) PROVE ARCInv'
  <2>1. UNCHANGED lists /\ stray' = TRUE BY <1>5 DEF Release
  <2>2. FramesOK' BY <1>5 DEF Release, ARCInv, FramesOK
  <2> QED BY <1>1, <2>1, <2>2, ListsStay
<1>6. ASSUME NEW f \in Frames, SetPinned(f) PROVE ARCInv'
  <2>1. UNCHANGED lists /\ stray' = stray /\ page' = page BY <1>6 DEF SetPinned
  <2>2. pinned' \subseteq Frames
    <3>1. f \in Frames /\ pinned \subseteq Frames BY DEF ARCInv, FramesOK
    <3>2. pinned' = pinned \ {f} \/ pinned' = pinned \cup {f} BY <1>6 DEF SetPinned
    <3> QED BY <3>1, <3>2
  <2>3. FramesOK' BY <2>1, <2>2 DEF ARCInv, FramesOK
  <2>4. Resident' = Resident BY <2>1 DEF Resident, Used
  <2>5. stray' \in BOOLEAN BY <2>1 DEF ARCInv
  <2> QED BY <1>1, <2>1, <2>3, <2>4, <2>5, ListsStay
<1>7. ASSUME Reset PROVE ARCInv'
  <2>1. Become(Empty) BY <1>7 DEF Reset, Empty
  <2>2. FramesOK' /\ stray' \in BOOLEAN BY <1>7 DEF Reset, ARCInv, FramesOK
  <2> QED BY <2>1, <2>2, ListsNew
<1> QED BY <1>2, <1>3, <1>4, <1>5, <1>6, <1>7 DEF ARCStep, Next

\* ... and so does every step under CAR, which leaves the empty lists alone.
LEMMA NextCAR ==
    ASSUME ARCInv, CARStep
    PROVE  ARCInv'
<1>1. alg = "CAR" /\ alg' = alg /\ UNCHANGED lists BY DEF CARStep
<1>2. Become(Empty) BY <1>1 DEF ARCInv, Empty, Become, lists, Lists
<1>3. FramesOK' /\ stray' \in BOOLEAN
  <2>1. ASSUME NEW f, NEW pg \in Pages \cup {NoPage}, page' = [page EXCEPT ![f] = pg],
               pinned' = pinned
        PROVE  FramesOK'
    BY <2>1 DEF ARCInv, FramesOK
  <2>2. ASSUME NEW pg \in Pages, CAR!Fault(pg) PROVE FramesOK' /\ stray' \in BOOLEAN
    <3>1. PICK f : page' = [page EXCEPT ![f] = pg] BY <2>2 DEF CAR!Fault
    <3> QED BY <2>1, <2>2, <3>1 DEF CAR!Fault, ARCInv
  <2>3. ASSUME NEW pg \in Pages, CAR!FaultEvict(pg) PROVE FramesOK' /\ stray' \in BOOLEAN
    <3>1. PICK f : page' = [page EXCEPT ![f] = pg] BY <2>3 DEF CAR!FaultEvict
    <3> QED BY <2>1, <2>3, <3>1 DEF CAR!FaultEvict, ARCInv
  <2>4. ASSUME NEW f \in Frames, CAR!Hit(f) PROVE FramesOK' /\ stray' \in BOOLEAN
    BY <2>4 DEF CAR!Hit, ARCInv, FramesOK
  <2>5. ASSUME NEW f \in Frames, CAR!Release(f) PROVE FramesOK' /\ stray' \in BOOLEAN
    BY <2>5 DEF CAR!Release, ARCInv, FramesOK, CAR!NoPage, NoPage
  <2>6. ASSUME NEW f \in Frames, CAR!SetPinned(f) PROVE FramesOK' /\ stray' \in BOOLEAN
    <3>1. f \in Frames /\ pinned \subseteq Frames BY DEF ARCInv, FramesOK
    <3>2. pinned' = pinned \ {f} \/ pinned' = pinned \cup {f} BY <2>6 DEF CAR!SetPinned
    <3>3. pinned' \subseteq Frames BY <3>1, <3>2
    <3> QED BY <2>6, <3>3 DEF CAR!SetPinned, ARCInv, FramesOK
  <2>7. ASSUME CAR!FaultFails PROVE FramesOK' /\ stray' \in BOOLEAN
    BY <2>7 DEF CAR!FaultFails, ARCInv, FramesOK
  <2>8. ASSUME CAR!Reset PROVE FramesOK' /\ stray' \in BOOLEAN
    BY <2>8 DEF CAR!Reset, ARCInv, FramesOK, CAR!Frames, Frames, CAR!NoPage, NoPage
  <2>9. CAR!Frames = Frames BY DEF CAR!Frames, Frames
  <2> QED BY <2>2, <2>3, <2>4, <2>5, <2>6, <2>7, <2>8, <2>9 DEF CARStep, CAR!Next
<1> QED BY <1>2, <1>3, ListsNew

\* The lists of ARC are sound whatever the callers do with frames and policies: the
\* inductive invariant.
THEOREM ListsInductive == AdaptiveSpec => []ARCInv
<1>1. AdaptiveInit => ARCInv
  <2>1. SUFFICES ASSUME AdaptiveInit PROVE ARCInv OBVIOUS
  <2>2. Lists = Empty /\ stray = FALSE BY <2>1 DEF AdaptiveInit, Init, Lists, Empty
  <2>3. FramesOK BY <2>1 DEF AdaptiveInit, Init, FramesOK
  <2> QED BY <2>2, <2>3, EmptyIs DEF ARCInv
<1>2. ARCInv /\ [AdaptiveNext]_all => ARCInv'
  <2>1. SUFFICES ASSUME ARCInv, [AdaptiveNext]_all PROVE ARCInv' OBVIOUS
  <2>2. CASE ARCStep BY <2>1, <2>2, NextARC
  <2>3. CASE CARStep BY <2>1, <2>3, NextCAR
  <2>4. ASSUME NEW a \in {"ARC", "CAR"}, SetAlgorithm(a) PROVE ARCInv'
    <3>1. Become(Empty) /\ page' = page /\ pinned' = pinned /\ stray' = stray
      BY <2>4 DEF SetAlgorithm
    <3>2. FramesOK' /\ stray' \in BOOLEAN BY <2>1, <3>1 DEF ARCInv, FramesOK
    <3> QED BY <3>1, <3>2, ListsNew
  <2>5. CASE UNCHANGED all
    <3>1. /\ UNCHANGED lists /\ page' = page /\ pinned' = pinned /\ stray' = stray
          /\ alg' = alg
      BY <2>5 DEF all, vars
    <3>2. FramesOK' /\ stray' \in BOOLEAN BY <2>1, <3>1 DEF ARCInv, FramesOK
    <3>3. Resident' = Resident BY <3>1 DEF Resident, Used
    <3> QED BY <2>1, <3>1, <3>2, <3>3, ListsStay
  <2> QED BY <2>1, <2>2, <2>3, <2>4, <2>5 DEF AdaptiveNext
<1> QED BY <1>1, <1>2, PTL DEF AdaptiveSpec

\* The target never exceeds the capacity, and between operations T1 never exceeds the
\* target, whatever is released, pinned, loaded twice or done under another policy before:
\* the second loop of adapt, which takes from T2 only, ends after the first has cut T1.
THEOREM AdaptEnds == AdaptiveSpec => []TargetKept
<1>1. ASSUME ARCInv PROVE Len(t1) <= p BY <1>1 DEF ARCInv, Tight, Lists
<1>2. ASSUME ARCInv PROVE p <= c
  <2>1. Lists.p \in 0 .. c BY <1>2 DEF ARCInv, Good
  <2>2. p \in 0 .. c BY <2>1 DEF Lists
  <2> QED BY <2>2
<1>3. ARCInv => TargetKept BY <1>1, <1>2 DEF TargetKept
<1> QED BY <1>3, ListsInductive, PTL

\* Without releases and with one process, T1 and T2 hold resident pages, each of them
\* once: no eviction and no move between the four lists leaves an entry behind.
THEOREM ResidentsTrackedOnce == AdaptiveSpec => []TrackedOnce
<1>1. ASSUME ARCInv, ~stray
      PROVE  /\ In(t1 \o t2) \subseteq Resident
             /\ \A i, j \in DOMAIN (t1 \o t2) : (t1 \o t2)[i] = (t1 \o t2)[j] => i = j
  <2>1. /\ t1 \in Seq(Pages) /\ t2 \in Seq(Pages) /\ Distinct(t1) /\ Distinct(t2)
        /\ In(t1) \cap In(t2) = {} /\ In(t1) \cup In(t2) \subseteq Resident
    BY <1>1 DEF ARCInv, Good, Once, Lists
  <2>2. /\ In(t1 \o t2) = In(t1) \cup In(t2)
        /\ Distinct(t1) /\ Distinct(t2) /\ In(t1) \cap In(t2) = {} => Distinct(t1 \o t2)
    BY <2>1, ConcatIn
  <2> QED BY <2>1, <2>2 DEF Distinct
<1>2. ARCInv => TrackedOnce BY <1>1 DEF TrackedOnce
<1> QED BY <1>2, ListsInductive, PTL

-----------------------------------------------------------------------------
(* The rings of CAR *)

\* The position a number of steps ahead of a hand, in a ring of a length.
Rot(n, h, j) == IF h + j < n THEN h + j ELSE h + j - n

\* A hand is a position of its ring, and wraps at its end.
LEMMA HandIs ==
    ASSUME NEW n \in Nat \ {0}, NEW h \in Nat
    PROVE  /\ h % n \in 0 .. n - 1
           /\ h < n => h % n = h
           /\ n % n = 0
<1>1. h % n \in 0 .. n - 1 OBVIOUS
<1>2. h < n => h % n = h OBVIOUS
<1>3. n % n = 0 OBVIOUS
<1> QED BY <1>1, <1>2, <1>3

\* The names that CAR shares with ARC.
LEMMA SameFrames ==
    /\ CAR!Frames = Frames /\ CAR!Used = Used /\ CAR!Evictable = Evictable
    /\ CAR!Resident = Resident /\ CAR!c = c /\ CAR!NoPage = NoPage
    /\ \A S : CAR!Lowest(S) = Lowest(S)
    /\ \A q : CAR!In(q) = In(q)
BY DEF CAR!Frames, Frames, CAR!Used, Used, CAR!Evictable, Evictable, CAR!Resident, Resident,
       CAR!c, c, CAR!NoPage, NoPage, CAR!Lowest, Lowest, CAR!In, In

\* A list cut in two.
LEMMA CutIn ==
    ASSUME NEW S, NEW q \in Seq(S), NEW n \in 0 .. Len(q)
    PROVE  /\ SubSeq(q, 1, n) \in Seq(S) /\ CAR!After(n, q) \in Seq(S)
           /\ In(SubSeq(q, 1, n)) \subseteq In(q) /\ In(CAR!After(n, q)) \subseteq In(q)
           /\ Len(CAR!After(n, q)) = Len(q) - n
           /\ Distinct(q) => /\ Distinct(SubSeq(q, 1, n)) /\ Distinct(CAR!After(n, q))
                             /\ In(SubSeq(q, 1, n)) \cap In(CAR!After(n, q)) = {}
<1>1. PICK a : a = SubSeq(q, 1, n) OBVIOUS
<1>2. PICK b : b = CAR!After(n, q) OBVIOUS
<1>3. n \in Nat /\ n <= Len(q) /\ Len(q) \in Nat OBVIOUS
<1>4. DOMAIN q = 1 .. Len(q) OBVIOUS
<1>5. a \in Seq(S) /\ Len(a) = n /\ \A i \in 1 .. n : a[i] = q[i]
  <2>1. /\ SubSeq(q, 1, n) \in Seq(S)
        /\ Len(SubSeq(q, 1, n)) = IF 1 <= n THEN n - 1 + 1 ELSE 0
        /\ \A i \in 1 .. Len(SubSeq(q, 1, n)) : SubSeq(q, 1, n)[i] = q[1 + i - 1]
    BY <1>3, Part
  <2> QED BY <1>1, <1>3, <2>1
<1>6. b \in Seq(S) /\ Len(b) = Len(q) - n /\ \A i \in 1 .. Len(q) - n : b[i] = q[n + i]
  <2>1. PICK m \in Nat \ {0} : m = n + 1 BY <1>3
  <2>2. b = From(m, q) BY <1>2, <2>1 DEF CAR!After, From
  <2>3. /\ From(m, q) \in Seq(S)
        /\ Len(From(m, q)) = IF m <= Len(q) THEN Len(q) - m + 1 ELSE 0
        /\ \A i \in 1 .. Len(From(m, q)) : From(m, q)[i] = q[m + i - 1]
    BY FromIs
  <2>4. Len(b) = Len(q) - n
    <3>1. CASE m <= Len(q) BY <1>3, <2>1, <2>2, <2>3, <3>1
    <3>2. CASE ~(m <= Len(q))
      <4>1. n = Len(q) BY <1>3, <2>1, <3>2
      <4> QED BY <1>3, <2>2, <2>3, <3>2, <4>1
    <3> QED BY <3>1, <3>2
  <2>5. ASSUME NEW i \in 1 .. Len(q) - n PROVE b[i] = q[n + i]
    <3>1. i \in 1 .. Len(From(m, q)) /\ m + i - 1 = n + i BY <1>3, <2>1, <2>2, <2>4
    <3> QED BY <2>2, <2>3, <3>1
  <2> QED BY <2>2, <2>3, <2>4, <2>5
<1>7. DOMAIN a = 1 .. n /\ DOMAIN b = 1 .. Len(q) - n BY <1>3, <1>5, <1>6
<1>8. \A i \in DOMAIN a : i \in DOMAIN q /\ i <= n /\ a[i] = q[i] BY <1>3, <1>4, <1>5, <1>7
<1>9. \A i \in DOMAIN b : n + i \in DOMAIN q /\ ~(n + i <= n) /\ b[i] = q[n + i]
  BY <1>3, <1>4, <1>6, <1>7
<1>10. In(a) \subseteq In(q) BY <1>8 DEF In
<1>11. In(b) \subseteq In(q) BY <1>9 DEF In
<1>12. ASSUME Distinct(q)
       PROVE  Distinct(a) /\ Distinct(b) /\ In(a) \cap In(b) = {}
  <2>1. Distinct(a) BY <1>8, <1>12 DEF Distinct
  <2>2. Distinct(b)
    <3>1. ASSUME NEW i \in DOMAIN b, NEW j \in DOMAIN b, b[i] = b[j] PROVE i = j
      <4>1. n + i = n + j BY <1>9, <1>12, <3>1 DEF Distinct
      <4> QED BY <1>3, <1>7, <4>1
    <3> QED BY <3>1 DEF Distinct
  <2>3. \A i \in DOMAIN a, j \in DOMAIN b : a[i] # b[j] BY <1>8, <1>9, <1>12 DEF Distinct
  <2>4. In(a) \cap In(b) = {} BY <2>3 DEF In
  <2> QED BY <2>1, <2>2, <2>4
<1> QED BY <1>1, <1>2, <1>5, <1>6, <1>10, <1>11, <1>12

\* The last entries of a list.
LEMMA LastOfIn ==
    ASSUME NEW S, NEW q \in Seq(S), NEW n \in Nat
    PROVE  /\ CAR!LastOf(n, q) \in Seq(S) /\ In(CAR!LastOf(n, q)) \subseteq In(q)
           /\ Distinct(q) => Distinct(CAR!LastOf(n, q))
<1>1. PICK k \in 0 .. Len(q) : k = Len(q) - CAR!Smaller(n, Len(q))
  <2>1. Len(q) \in Nat OBVIOUS
  <2> QED BY <2>1 DEF CAR!Smaller
<1>2. CAR!LastOf(n, q) = CAR!After(k, q) BY <1>1 DEF CAR!LastOf
<1> QED BY <1>2, CutIn

\* CAR takes an entry out of a list as ARC does.
LEMMA SameWithout ==
    ASSUME NEW q, NEW k
    PROVE  CAR!Without(q, k) = Without(q, k)
BY DEF CAR!Without, CAR!After, Without, From

(* Rings as lists of pages *)

Entry == [page : Pages, ref : BOOLEAN]

\* The pages of a ring.
LEMMA PagesOfIs ==
    ASSUME NEW q \in Seq(Entry)
    PROVE  /\ CAR!PagesOf(q) \in Seq(Pages) /\ Len(CAR!PagesOf(q)) = Len(q)
           /\ \A i \in 1 .. Len(q) : CAR!PagesOf(q)[i] = q[i].page
<1>1. DOMAIN q = 1 .. Len(q) /\ Len(q) \in Nat OBVIOUS
<1>2. \A i \in 1 .. Len(q) : q[i].page \in Pages
  <2>1. \A i \in 1 .. Len(q) : q[i] \in Entry OBVIOUS
  <2> QED BY <2>1 DEF Entry
<1>3. CAR!PagesOf(q) = [i \in 1 .. Len(q) |-> q[i].page] BY <1>1 DEF CAR!PagesOf
<1>4. CAR!PagesOf(q) \in Seq(Pages) BY <1>1, <1>2, <1>3, IsASeq
<1>5. Len(CAR!PagesOf(q)) = Len(q) BY <1>1, <1>3, <1>4
<1> QED BY <1>3, <1>4, <1>5

\* Two rings with the same pages at the same places.
LEMMA SamePages ==
    ASSUME NEW q \in Seq(Entry), NEW r \in Seq(Entry), Len(q) = Len(r),
           \A i \in 1 .. Len(q) : q[i].page = r[i].page
    PROVE  CAR!PagesOf(q) = CAR!PagesOf(r)
<1>1. /\ CAR!PagesOf(q) \in Seq(Pages) /\ Len(CAR!PagesOf(q)) = Len(q)
      /\ \A i \in 1 .. Len(q) : CAR!PagesOf(q)[i] = q[i].page
  BY PagesOfIs
<1>2. /\ CAR!PagesOf(r) \in Seq(Pages) /\ Len(CAR!PagesOf(r)) = Len(r)
      /\ \A i \in 1 .. Len(r) : CAR!PagesOf(r)[i] = r[i].page
  BY PagesOfIs
<1> QED BY <1>1, <1>2, SeqEqual

\* An entry is taken out of a ring.
LEMMA PagesWithout ==
    ASSUME NEW q \in Seq(Entry), NEW k \in 1 .. Len(q)
    PROVE  CAR!PagesOf(Without(q, k)) = Without(CAR!PagesOf(q), k)
<1>1. PICK P : P = CAR!PagesOf(q) OBVIOUS
<1>2. P \in Seq(Pages) /\ Len(P) = Len(q) /\ \A i \in 1 .. Len(q) : P[i] = q[i].page
  BY <1>1, PagesOfIs
<1>3. PICK r : r = Without(q, k) OBVIOUS
<1>4. /\ r \in Seq(Entry) /\ Len(r) = Len(q) - 1
      /\ \A i \in 1 .. Len(q) - 1 : r[i] = IF i < k THEN q[i] ELSE q[i + 1]
  BY <1>3, WithoutIs
<1>5. PICK s : s = Without(P, k) OBVIOUS
<1>6. /\ s \in Seq(Pages) /\ Len(s) = Len(P) - 1
      /\ \A i \in 1 .. Len(P) - 1 : s[i] = IF i < k THEN P[i] ELSE P[i + 1]
  BY <1>2, <1>5, WithoutIs
<1>7. PICK t : t = CAR!PagesOf(r) OBVIOUS
<1>8. t \in Seq(Pages) /\ Len(t) = Len(r) /\ \A i \in 1 .. Len(r) : t[i] = r[i].page
  BY <1>4, <1>7, PagesOfIs
<1>9. Len(q) \in Nat OBVIOUS
<1>10. ASSUME NEW i \in 1 .. Len(t) PROVE t[i] = s[i]
  <2>1. i \in 1 .. Len(q) - 1 /\ i \in 1 .. Len(q) /\ i + 1 \in 1 .. Len(q)
    BY <1>4, <1>8, <1>9
  <2>2. t[i] = r[i].page BY <1>8, <1>4, <2>1
  <2>3. CASE i < k BY <1>2, <1>4, <1>6, <2>1, <2>2, <2>3
  <2>4. CASE ~(i < k) BY <1>2, <1>4, <1>6, <2>1, <2>2, <2>4
  <2> QED BY <2>3, <2>4
<1>11. Len(t) = Len(s) BY <1>2, <1>4, <1>6, <1>8
<1>12. t = s BY <1>6, <1>8, <1>10, <1>11, SeqEqual
<1> QED BY <1>1, <1>3, <1>5, <1>7, <1>12

\* An entry is added at the end of a ring.
LEMMA PagesAppend ==
    ASSUME NEW q \in Seq(Entry), NEW e \in Entry
    PROVE  /\ q \o <<e>> \in Seq(Entry) /\ Append(q, e) = q \o <<e>>
           /\ CAR!PagesOf(q \o <<e>>) = CAR!PagesOf(q) \o <<e.page>>
           /\ In(q \o <<e>>) = In(q) \cup {e}
<1>1. PICK P : P = CAR!PagesOf(q) OBVIOUS
<1>2. P \in Seq(Pages) /\ Len(P) = Len(q) /\ \A i \in 1 .. Len(q) : P[i] = q[i].page
  BY <1>1, PagesOfIs
<1>3. <<e>> \in Seq(Entry) /\ <<e.page>> \in Seq(Pages) /\ Len(<<e>>) = 1 /\ Len(<<e.page>>) = 1
  BY DEF Entry
<1>4. PICK r : r = q \o <<e>> OBVIOUS
<1>5. /\ r \in Seq(Entry) /\ Len(r) = Len(q) + 1
      /\ \A i \in 1 .. Len(q) + 1 : r[i] = IF i <= Len(q) THEN q[i] ELSE <<e>>[i - Len(q)]
  BY <1>3, <1>4, ConcatProperties
<1>6. PICK s : s = P \o <<e.page>> OBVIOUS
<1>7. /\ s \in Seq(Pages) /\ Len(s) = Len(P) + 1
      /\ \A i \in 1 .. Len(P) + 1 : s[i] = IF i <= Len(P) THEN P[i] ELSE <<e.page>>[i - Len(P)]
  BY <1>2, <1>3, <1>6, ConcatProperties
<1>8. PICK t : t = CAR!PagesOf(r) OBVIOUS
<1>9. t \in Seq(Pages) /\ Len(t) = Len(r) /\ \A i \in 1 .. Len(r) : t[i] = r[i].page
  BY <1>5, <1>8, PagesOfIs
<1>10. Len(q) \in Nat OBVIOUS
<1>11. ASSUME NEW i \in 1 .. Len(t) PROVE t[i] = s[i]
  <2>1. i \in 1 .. Len(q) + 1 /\ i \in 1 .. Len(P) + 1 /\ i \in 1 .. Len(r) BY <1>2, <1>5, <1>9
  <2>2. CASE i <= Len(q) BY <1>2, <1>5, <1>7, <1>9, <1>10, <2>1, <2>2
  <2>3. CASE ~(i <= Len(q))
    <3>1. i - Len(q) = 1 /\ i - Len(P) = 1 BY <1>2, <1>10, <2>1, <2>3
    <3>2. r[i] = <<e>>[1] /\ s[i] = <<e.page>>[1] BY <1>2, <1>5, <1>7, <2>1, <2>3, <3>1
    <3>3. r[i] = e /\ s[i] = e.page BY <3>2
    <3> QED BY <1>9, <2>1, <3>3
  <2> QED BY <2>2, <2>3
<1>12. Len(t) = Len(s) BY <1>2, <1>5, <1>7, <1>9
<1>13. t = s BY <1>7, <1>9, <1>11, <1>12, SeqEqual
<1>14. Append(q, e) = r BY <1>4, AppendIsConcat
<1>15. In(<<e>>) = {e} BY DEF In
<1>16. In(q \o <<e>>) = In(q) \cup In(<<e>>)
  <2>1. PICK z : z = <<e>> OBVIOUS
  <2>2. z \in Seq(Entry) BY <1>3, <2>1
  <2>3. In(q \o z) = In(q) \cup In(z) BY <2>2, ConcatIn
  <2> QED BY <2>1, <2>3
<1> QED BY <1>1, <1>4, <1>5, <1>6, <1>8, <1>13, <1>14, <1>15, <1>16

\* The front of a ring is cut off.
LEMMA PagesAfter ==
    ASSUME NEW q \in Seq(Entry), NEW n \in 0 .. Len(q)
    PROVE  CAR!After(n, q) \in Seq(Entry)
           /\ CAR!PagesOf(CAR!After(n, q)) = CAR!After(n, CAR!PagesOf(q))
<1>1. PICK P : P = CAR!PagesOf(q) OBVIOUS
<1>2. P \in Seq(Pages) /\ Len(P) = Len(q) /\ \A i \in 1 .. Len(q) : P[i] = q[i].page
  BY <1>1, PagesOfIs
<1>3. PICK m \in Nat \ {0} : m = n + 1 OBVIOUS
<1>4. PICK r : r = CAR!After(n, q) OBVIOUS
<1>5. PICK s : s = CAR!After(n, P) OBVIOUS
<1>6. r = From(m, q) /\ s = From(m, P) BY <1>3, <1>4, <1>5 DEF CAR!After, From
<1>7. /\ r \in Seq(Entry)
      /\ Len(r) = IF m <= Len(q) THEN Len(q) - m + 1 ELSE 0
      /\ \A i \in 1 .. Len(r) : r[i] = q[m + i - 1]
  BY <1>6, FromIs
<1>8. /\ s \in Seq(Pages)
      /\ Len(s) = IF m <= Len(P) THEN Len(P) - m + 1 ELSE 0
      /\ \A i \in 1 .. Len(s) : s[i] = P[m + i - 1]
  BY <1>2, <1>6, FromIs
<1>9. PICK t : t = CAR!PagesOf(r) OBVIOUS
<1>10. t \in Seq(Pages) /\ Len(t) = Len(r) /\ \A i \in 1 .. Len(r) : t[i] = r[i].page
  BY <1>7, <1>9, PagesOfIs
<1>11. Len(t) = Len(s) BY <1>2, <1>7, <1>8, <1>10
<1>12. ASSUME NEW i \in 1 .. Len(t) PROVE t[i] = s[i]
  <2>1. i \in 1 .. Len(r) /\ i \in 1 .. Len(s) BY <1>10, <1>11
  <2>2. m + i - 1 \in 1 .. Len(q)
    <3>1. Len(q) \in Nat OBVIOUS
    <3> QED BY <1>7, <2>1, <3>1
  <2>3. t[i] = q[m + i - 1].page /\ s[i] = P[m + i - 1] BY <1>7, <1>8, <1>10, <2>1
  <2> QED BY <1>2, <2>2, <2>3
<1>13. t = s BY <1>8, <1>10, <1>11, <1>12, SeqEqual
<1> QED BY <1>1, <1>4, <1>5, <1>7, <1>9, <1>13

-----------------------------------------------------------------------------
(* One round of a search *)

CARLists ==
    [t1 : Seq(Entry), t2 : Seq(Entry), b1 : Seq(Pages), b2 : Seq(Pages),
     t1Hand : Nat, t2Hand : Nat, p : 0 .. c]
Search == [victim : Frames \cup {CAR!NoFrame}, lists : CARLists]

\* A candidate has a frame that can be evicted and holds its page.
LEMMA CandidateIs ==
    ASSUME FramesOK, NEW e, CAR!Candidate(e)
    PROVE  /\ CAR!FrameOf(e.page) \in Evictable /\ CAR!FrameOf(e.page) \in Frames
           /\ CAR!FrameOf(e.page) # CAR!NoFrame
           /\ page[CAR!FrameOf(e.page)] = e.page
<1>1. CAR!FrameOf(e.page) \in Evictable BY SameFrames DEF CAR!Candidate
<1>2. CAR!FrameOf(e.page) \in Frames BY <1>1 DEF Evictable, Used
<1>3. CAR!FrameOf(e.page) # CAR!NoFrame BY <1>2, ARCAssumption DEF Frames, CAR!NoFrame
<1> DEFINE S == {f \in Used : page[f] = e.page}
<1>4. CAR!FrameOf(e.page) = Lowest(S) /\ e.page \in Resident
  BY <1>3, SameFrames DEF CAR!FrameOf
<1>5. S \in SUBSET Frames /\ S # {} BY <1>4 DEF Used, Resident
<1>6. Lowest(S) \in S BY <1>5, LowestIs
<1> QED BY <1>1, <1>2, <1>3, <1>4, <1>6

\* What a round of the loop over T1 does while there is no victim: it passes an entry
\* that cannot go, moves a referenced one to T2, or takes it.
Turned1(x, h, e, y) ==
    /\ h \in 0 .. Len(x.lists.t1) - 1 /\ e \in Entry /\ y \in Search
    /\ y.lists.b1 = x.lists.b1 /\ y.lists.b2 = x.lists.b2 /\ y.lists.p = x.lists.p
    /\ ~CAR!Candidate(e) =>
         /\ y.victim = CAR!NoFrame /\ y.lists.t1Hand = h + 1
         /\ y.lists.t1 = x.lists.t1 /\ y.lists.t2 = x.lists.t2
    /\ CAR!Candidate(e) /\ e.ref =>
         /\ y.victim = CAR!NoFrame /\ y.lists.t1Hand = h
         /\ y.lists.t1 = Without(x.lists.t1, h + 1)
         /\ y.lists.t2 = x.lists.t2 \o <<[page |-> e.page, ref |-> FALSE]>>
    /\ CAR!Candidate(e) /\ ~e.ref =>
         /\ y.victim = CAR!FrameOf(e.page)
         /\ y.lists.t1 = Without(x.lists.t1, h + 1) /\ y.lists.t2 = x.lists.t2

\* A round of the loop over T1 does one of these things.
LEMMA Round1Is ==
    ASSUME FramesOK, NEW x \in Search, x.victim = CAR!NoFrame, x.lists.t1 # <<>>,
           NEW h, h = x.lists.t1Hand % Len(x.lists.t1),
           NEW e, e = x.lists.t1[h + 1],
           NEW y, y = CAR!T1Round(x)
    PROVE  Turned1(x, h, e, y)
<1>1. PICK L : L = x.lists OBVIOUS
<1>2. /\ L \in CARLists /\ x = [victim |-> CAR!NoFrame, lists |-> L]
  BY <1>1 DEF Search
<1>3. /\ L.t1 \in Seq(Entry) /\ L.t2 \in Seq(Entry) /\ L.b1 \in Seq(Pages) /\ L.b2 \in Seq(Pages)
      /\ L.t1Hand \in Nat /\ L.t2Hand \in Nat /\ L.p \in 0 .. c
      /\ L = [t1 |-> L.t1, t2 |-> L.t2, b1 |-> L.b1, b2 |-> L.b2,
              t1Hand |-> L.t1Hand, t2Hand |-> L.t2Hand, p |-> L.p]
  BY <1>2 DEF CARLists
<1>4. PICK n \in Nat \ {0} : n = Len(L.t1) BY <1>1, <1>3
<1>5. h \in 0 .. n - 1 BY <1>1, <1>3, <1>4, HandIs
<1>6. PICK k \in 1 .. Len(L.t1) : k = h + 1 BY <1>4, <1>5
<1>7. e \in Entry BY <1>1, <1>3, <1>6
<1>8. k \in Nat /\ h \in Nat BY <1>5, <1>6
<1>9. CASE ~CAR!Candidate(e)
  <2>1. y = [x EXCEPT !.lists.t1Hand = k]
    BY <1>1, <1>6, <1>9 DEF CAR!T1Round
  <2>2. PICK M : M = [L EXCEPT !.t1Hand = k] OBVIOUS
  <2>3. M = [t1 |-> L.t1, t2 |-> L.t2, b1 |-> L.b1, b2 |-> L.b2,
             t1Hand |-> k, t2Hand |-> L.t2Hand, p |-> L.p]
    BY <1>3, <2>2
  <2>4. y = [victim |-> CAR!NoFrame, lists |-> M] BY <1>2, <2>1, <2>2
  <2>5. y.victim = CAR!NoFrame /\ y.lists = M BY <2>4
  <2>6. /\ M.t1 = L.t1 /\ M.t2 = L.t2 /\ M.b1 = L.b1 /\ M.b2 = L.b2 /\ M.p = L.p
        /\ M.t1Hand = k
    BY <2>3
  <2>7. M \in CARLists BY <1>3, <1>8, <2>3 DEF CARLists
  <2>8. y \in Search BY <2>4, <2>7 DEF Search
  <2> QED BY <1>1, <1>4, <1>5, <1>6, <1>7, <1>9, <2>5, <2>6, <2>8 DEF Turned1
<1>10. CASE CAR!Candidate(e) /\ e.ref
  <2>1. PICK T : T = Without(L.t1, k) OBVIOUS
  <2>2. PICK d : d = [page |-> e.page, ref |-> FALSE] OBVIOUS
  <2>3. d \in Entry /\ d = [e EXCEPT !.ref = FALSE]
    <3>1. e = [page |-> e.page, ref |-> e.ref] /\ e.page \in Pages BY <1>7 DEF Entry
    <3>2. PICK z : z = [e EXCEPT !.ref = FALSE] OBVIOUS
    <3>3. z = [page |-> e.page, ref |-> FALSE] BY <3>1, <3>2
    <3> QED BY <2>2, <3>1, <3>2, <3>3 DEF Entry
  <2>4. PICK U : U = L.t2 \o <<d>> OBVIOUS
  <2>5. U \in Seq(Entry) /\ U = Append(L.t2, d) BY <1>3, <2>3, <2>4, PagesAppend
  <2>6. T \in Seq(Entry) /\ T = CAR!Without(L.t1, k) BY <1>3, <1>6, <2>1, WithoutIs, SameWithout
  <2>7. y = [x EXCEPT !.lists.t1Hand = h, !.lists.t1 = CAR!Without(@, k),
                      !.lists.t2 = Append(@, [e EXCEPT !.ref = FALSE])]
    BY <1>1, <1>6, <1>10 DEF CAR!T1Round
  <2>8. y = [x EXCEPT !.lists.t1Hand = h, !.lists.t1 = T, !.lists.t2 = U]
    BY <1>1, <1>2, <1>3, <2>3, <2>5, <2>6, <2>7
  <2>9. PICK M : M = [L EXCEPT !.t1Hand = h, !.t1 = T, !.t2 = U] OBVIOUS
  <2>10. M = [t1 |-> T, t2 |-> U, b1 |-> L.b1, b2 |-> L.b2,
             t1Hand |-> h, t2Hand |-> L.t2Hand, p |-> L.p]
    BY <1>3, <2>9
  <2>11. y = [victim |-> CAR!NoFrame, lists |-> M]
    <3>1. PICK y1 : y1 = [x EXCEPT !.lists.t1Hand = h] OBVIOUS
    <3>2. y1 = [victim |-> CAR!NoFrame, lists |-> [L EXCEPT !.t1Hand = h]] BY <1>2, <3>1
    <3>3. PICK y2 : y2 = [y1 EXCEPT !.lists.t1 = T] OBVIOUS
    <3>4. y2 = [victim |-> CAR!NoFrame, lists |-> [L EXCEPT !.t1Hand = h, !.t1 = T]]
      BY <3>2, <3>3
    <3>5. y = [y2 EXCEPT !.lists.t2 = U] BY <2>8, <3>1, <3>3
    <3> QED BY <2>9, <3>4, <3>5
  <2>12. y.victim = CAR!NoFrame /\ y.lists = M BY <2>11
  <2>13. /\ M.t1 = T /\ M.t2 = U /\ M.b1 = L.b1 /\ M.b2 = L.b2 /\ M.p = L.p
         /\ M.t1Hand = h
    BY <2>10
  <2>14. M \in CARLists BY <1>3, <1>8, <2>5, <2>6, <2>10 DEF CARLists
  <2>15. y \in Search BY <2>11, <2>14 DEF Search
  <2> QED BY <1>1, <1>4, <1>5, <1>6, <1>7, <1>10, <2>1, <2>2, <2>4, <2>12, <2>13, <2>15 DEF Turned1
<1>11. CASE CAR!Candidate(e) /\ ~e.ref
  <2>1. PICK T : T = Without(L.t1, k) OBVIOUS
  <2>2. T \in Seq(Entry) /\ T = CAR!Without(L.t1, k) BY <1>3, <1>6, <2>1, WithoutIs, SameWithout
  <2>3. PICK M : M = [L EXCEPT !.t1Hand = k, !.t1 = CAR!Without(@, k)] OBVIOUS
  <2>4. M = [L EXCEPT !.t1Hand = k, !.t1 = T] BY <1>3, <2>2, <2>3
  <2>5. M = [t1 |-> T, t2 |-> L.t2, b1 |-> L.b1, b2 |-> L.b2,
             t1Hand |-> k, t2Hand |-> L.t2Hand, p |-> L.p]
    BY <1>3, <2>4
  <2>6. PICK f : f = CAR!FrameOf(e.page) OBVIOUS
  <2>7. y = [victim |-> f, lists |-> M]
    BY <1>1, <1>6, <1>11, <2>3, <2>6 DEF CAR!T1Round
  <2>8. y.victim = f /\ y.lists = M BY <2>7
  <2>9. /\ M.t1 = T /\ M.t2 = L.t2 /\ M.b1 = L.b1 /\ M.b2 = L.b2 /\ M.p = L.p BY <2>5
  <2>10. M \in CARLists BY <1>3, <1>8, <2>2, <2>5 DEF CARLists
  <2>11. f \in Frames BY <1>11, <2>6, CandidateIs
  <2>12. y \in Search BY <2>7, <2>10, <2>11 DEF Search
  <2> QED BY <1>1, <1>4, <1>5, <1>6, <1>7, <1>11, <2>1, <2>6, <2>8, <2>9, <2>12 DEF Turned1
<1>12. e.ref \in BOOLEAN BY <1>7 DEF Entry
<1> QED BY <1>9, <1>10, <1>11, <1>12

\* The same over T2, where a referenced entry stays without its bit.
Turned2(x, h, e, y) ==
    /\ h \in 0 .. Len(x.lists.t2) - 1 /\ e \in Entry /\ y \in Search
    /\ y.lists.b1 = x.lists.b1 /\ y.lists.b2 = x.lists.b2 /\ y.lists.p = x.lists.p
    /\ y.lists.t1 = x.lists.t1
    /\ ~CAR!Candidate(e) =>
         /\ y.victim = CAR!NoFrame /\ y.lists.t2Hand = h + 1
         /\ y.lists.t2 = x.lists.t2
    /\ CAR!Candidate(e) /\ e.ref =>
         /\ y.victim = CAR!NoFrame /\ y.lists.t2Hand = h + 1
         /\ Len(y.lists.t2) = Len(x.lists.t2)
         /\ \A i \in 1 .. Len(x.lists.t2) :
               y.lists.t2[i] = IF i = h + 1 THEN [page |-> e.page, ref |-> FALSE]
                               ELSE x.lists.t2[i]
    /\ CAR!Candidate(e) /\ ~e.ref =>
         /\ y.victim = CAR!FrameOf(e.page)
         /\ y.lists.t2 = Without(x.lists.t2, h + 1)

\* A round of the loop over T2 does one of these things.
LEMMA Round2Is ==
    ASSUME FramesOK, NEW x \in Search, x.victim = CAR!NoFrame, x.lists.t2 # <<>>,
           NEW h, h = x.lists.t2Hand % Len(x.lists.t2),
           NEW e, e = x.lists.t2[h + 1],
           NEW y, y = CAR!T2Round(x)
    PROVE  Turned2(x, h, e, y)
<1>1. PICK L : L = x.lists OBVIOUS
<1>2. /\ L \in CARLists /\ x = [victim |-> CAR!NoFrame, lists |-> L]
  BY <1>1 DEF Search
<1>3. /\ L.t1 \in Seq(Entry) /\ L.t2 \in Seq(Entry) /\ L.b1 \in Seq(Pages) /\ L.b2 \in Seq(Pages)
      /\ L.t1Hand \in Nat /\ L.t2Hand \in Nat /\ L.p \in 0 .. c
      /\ L = [t1 |-> L.t1, t2 |-> L.t2, b1 |-> L.b1, b2 |-> L.b2,
              t1Hand |-> L.t1Hand, t2Hand |-> L.t2Hand, p |-> L.p]
  BY <1>2 DEF CARLists
<1>4. PICK n \in Nat \ {0} : n = Len(L.t2) BY <1>1, <1>3
<1>5. h \in 0 .. n - 1 BY <1>1, <1>3, <1>4, HandIs
<1>6. PICK k \in 1 .. Len(L.t2) : k = h + 1 BY <1>4, <1>5
<1>7. e \in Entry BY <1>1, <1>3, <1>6
<1>8. k \in Nat /\ h \in Nat BY <1>5, <1>6
<1>9. CASE ~CAR!Candidate(e)
  <2>1. y = [x EXCEPT !.lists.t2Hand = k]
    BY <1>1, <1>6, <1>9 DEF CAR!T2Round
  <2>2. PICK M : M = [L EXCEPT !.t2Hand = k] OBVIOUS
  <2>3. M = [t1 |-> L.t1, t2 |-> L.t2, b1 |-> L.b1, b2 |-> L.b2,
             t1Hand |-> L.t1Hand, t2Hand |-> k, p |-> L.p]
    BY <1>3, <2>2
  <2>4. y = [victim |-> CAR!NoFrame, lists |-> M] BY <1>2, <2>1, <2>2
  <2>5. y.victim = CAR!NoFrame /\ y.lists = M BY <2>4
  <2>6. /\ M.t1 = L.t1 /\ M.t2 = L.t2 /\ M.b1 = L.b1 /\ M.b2 = L.b2 /\ M.p = L.p
        /\ M.t2Hand = k
    BY <2>3
  <2>7. M \in CARLists BY <1>3, <1>8, <2>3 DEF CARLists
  <2>8. y \in Search BY <2>4, <2>7 DEF Search
  <2> QED BY <1>1, <1>4, <1>5, <1>6, <1>7, <1>9, <2>5, <2>6, <2>8 DEF Turned2
<1>10. CASE CAR!Candidate(e) /\ e.ref
  <2>1. PICK d : d = [page |-> e.page, ref |-> FALSE] OBVIOUS
  <2>2. d \in Entry /\ d = [e EXCEPT !.ref = FALSE]
    <3>1. e = [page |-> e.page, ref |-> e.ref] /\ e.page \in Pages BY <1>7 DEF Entry
    <3>2. PICK z : z = [e EXCEPT !.ref = FALSE] OBVIOUS
    <3>3. z = [page |-> e.page, ref |-> FALSE] BY <3>1, <3>2
    <3> QED BY <2>1, <3>1, <3>2, <3>3 DEF Entry
  <2>3. PICK U : U = [L.t2 EXCEPT ![k].ref = FALSE] OBVIOUS
  <2>4. U = [L.t2 EXCEPT ![k] = d] BY <1>1, <1>3, <1>6, <2>2, <2>3
  <2>5. /\ U \in Seq(Entry) /\ Len(U) = Len(L.t2)
        /\ \A i \in 1 .. Len(L.t2) : U[i] = IF i = k THEN d ELSE L.t2[i]
    <3>1. PICK t : t = L.t2 OBVIOUS
    <3>2. t \in Seq(Entry) /\ k \in 1 .. Len(t) /\ d \in Entry BY <1>3, <1>6, <2>2, <3>1
    <3>3. U = [t EXCEPT ![k] = d] BY <2>4, <3>1
    <3>4. /\ U \in Seq(Entry) /\ Len(U) = Len(t)
          /\ \A i \in 1 .. Len(t) : U[i] = IF i = k THEN d ELSE t[i]
      BY <3>2, <3>3
    <3> QED BY <3>1, <3>4
  <2>6. y = [x EXCEPT !.lists.t2Hand = k, !.lists.t2[k].ref = FALSE]
    BY <1>1, <1>6, <1>10 DEF CAR!T2Round
  <2>7. PICK M : M = [L EXCEPT !.t2Hand = k, !.t2 = U] OBVIOUS
  <2>8. M = [t1 |-> L.t1, t2 |-> U, b1 |-> L.b1, b2 |-> L.b2,
             t1Hand |-> L.t1Hand, t2Hand |-> k, p |-> L.p]
    BY <1>3, <2>7
  <2>9. y = [victim |-> CAR!NoFrame, lists |-> M]
    <3>1. PICK L1 : L1 = [L EXCEPT !.t2Hand = k] OBVIOUS
    <3>2. L1.t2 = L.t2 /\ M = [L1 EXCEPT !.t2 = U] BY <1>3, <2>7, <3>1
    <3>3. PICK y1 : y1 = [x EXCEPT !.lists.t2Hand = k] OBVIOUS
    <3>4. y1 = [victim |-> CAR!NoFrame, lists |-> L1] BY <1>2, <3>1, <3>3
    <3>5. y = [y1 EXCEPT !.lists.t2[k].ref = FALSE] BY <2>6, <3>3
    <3>6. y = [y1 EXCEPT !.lists.t2 = U] BY <2>3, <3>2, <3>4, <3>5
    <3> QED BY <3>2, <3>4, <3>6
  <2>10. y.victim = CAR!NoFrame /\ y.lists = M BY <2>9
  <2>11. /\ M.t1 = L.t1 /\ M.t2 = U /\ M.b1 = L.b1 /\ M.b2 = L.b2 /\ M.p = L.p
         /\ M.t2Hand = k
    BY <2>8
  <2>12. M \in CARLists BY <1>3, <1>8, <2>5, <2>8 DEF CARLists
  <2>13. y \in Search BY <2>9, <2>12 DEF Search
  <2> QED BY <1>1, <1>4, <1>5, <1>6, <1>7, <1>10, <2>1, <2>5, <2>10, <2>11, <2>13 DEF Turned2
<1>11. CASE CAR!Candidate(e) /\ ~e.ref
  <2>1. PICK T : T = Without(L.t2, k) OBVIOUS
  <2>2. T \in Seq(Entry) /\ T = CAR!Without(L.t2, k) BY <1>3, <1>6, <2>1, WithoutIs, SameWithout
  <2>3. PICK M : M = [L EXCEPT !.t2Hand = k, !.t2 = CAR!Without(@, k)] OBVIOUS
  <2>4. M = [L EXCEPT !.t2Hand = k, !.t2 = T] BY <1>3, <2>2, <2>3
  <2>5. M = [t1 |-> L.t1, t2 |-> T, b1 |-> L.b1, b2 |-> L.b2,
             t1Hand |-> L.t1Hand, t2Hand |-> k, p |-> L.p]
    BY <1>3, <2>4
  <2>6. PICK f : f = CAR!FrameOf(e.page) OBVIOUS
  <2>7. y = [victim |-> f, lists |-> M]
    BY <1>1, <1>6, <1>11, <2>3, <2>6 DEF CAR!T2Round
  <2>8. y.victim = f /\ y.lists = M BY <2>7
  <2>9. /\ M.t1 = L.t1 /\ M.t2 = T /\ M.b1 = L.b1 /\ M.b2 = L.b2 /\ M.p = L.p BY <2>5
  <2>10. M \in CARLists BY <1>3, <1>8, <2>2, <2>5 DEF CARLists
  <2>11. f \in Frames BY <1>11, <2>6, CandidateIs
  <2>12. y \in Search BY <2>7, <2>10, <2>11 DEF Search
  <2> QED BY <1>1, <1>4, <1>5, <1>6, <1>7, <1>11, <2>1, <2>6, <2>8, <2>9, <2>12 DEF Turned2
<1>12. e.ref \in BOOLEAN BY <1>7 DEF Entry
<1> QED BY <1>9, <1>10, <1>11, <1>12

\* A search that has found a victim, or whose ring is empty, does not go on.
LEMMA RoundStops ==
    ASSUME NEW x
    PROVE  /\ x.victim # CAR!NoFrame \/ x.lists.t1 = <<>> => CAR!T1Round(x) = x
           /\ x.victim # CAR!NoFrame \/ x.lists.t2 = <<>> => CAR!T2Round(x) = x
BY DEF CAR!T1Round, CAR!T2Round

-----------------------------------------------------------------------------
(* Rounds one after the other *)

Round(one, x) == IF one THEN CAR!T1Round(x) ELSE CAR!T2Round(x)
Rounds(one, g, x, k) == g = [n \in 0 .. k |-> IF n = 0 THEN x ELSE Round(one, g[n - 1])]

\* There is a function of the searches after any number of rounds: the least number
\* without one is not 0, and the function for its predecessor can be extended.
LEMMA RoundsExist ==
    ASSUME NEW one, NEW x, NEW k \in Nat
    PROVE  \E g : Rounds(one, g, x, k)
<1> DEFINE S == {i \in Nat : ~ \E g : Rounds(one, g, x, i)}
<1>1. SUFFICES ASSUME S # {} PROVE FALSE OBVIOUS
<1>2. S \in SUBSET Nat OBVIOUS
<1>3. PICK m \in S : \A n \in S : m <= n BY <1>1, <1>2, LeastNumber
<1>4. m # 0
  <2>1. SUFFICES \E g : Rounds(one, g, x, 0) BY <1>3
  <2>2. PICK g : g = [n \in 0 .. 0 |-> x] OBVIOUS
  <2>3. g = [n \in 0 .. 0 |-> IF n = 0 THEN x ELSE Round(one, g[n - 1])] BY <2>2
  <2> QED BY <2>3 DEF Rounds
<1>5. PICK l \in Nat : m = l + 1 BY <1>3, <1>4
<1>6. l \notin S BY <1>3, <1>5
<1>7. PICK g : Rounds(one, g, x, l) BY <1>6
<1>8. PICK h : h = [n \in 0 .. m |-> IF n = m THEN Round(one, g[l]) ELSE g[n]] OBVIOUS
<1>9. ASSUME NEW n \in 0 .. m
      PROVE  h[n] = IF n = 0 THEN x ELSE Round(one, h[n - 1])
  <2>1. CASE n = 0
    <3>1. h[0] = g[0] BY <1>5, <1>8
    <3>2. g[0] = x BY <1>7 DEF Rounds
    <3> QED BY <2>1, <3>1, <3>2
  <2>2. CASE n # 0 /\ n # m
    <3>1. n \in 0 .. l /\ n - 1 \in 0 .. m /\ n - 1 # m BY <1>5, <2>2
    <3>2. h[n] = g[n] /\ h[n - 1] = g[n - 1] BY <1>8, <2>2, <3>1
    <3>3. g[n] = Round(one, g[n - 1]) BY <1>7, <2>2, <3>1 DEF Rounds
    <3> QED BY <2>2, <3>2, <3>3
  <2>3. CASE n = m
    <3>1. n - 1 = l /\ l \in 0 .. m /\ l # m BY <1>5, <2>3
    <3>2. h[n] = Round(one, g[l]) /\ h[l] = g[l] BY <1>8, <2>3, <3>1
    <3> QED BY <1>4, <2>3, <3>1, <3>2
  <2> QED BY <2>1, <2>2, <2>3
<1>10. h = [n \in 0 .. m |-> IF n = 0 THEN x ELSE Round(one, h[n - 1])]
  BY <1>8, <1>9
<1>11. Rounds(one, h, x, m) BY <1>10 DEF Rounds
<1> QED BY <1>3, <1>11

\* A loop is its rounds.
LEMMA SearchIs ==
    ASSUME NEW x, NEW k \in Nat
    PROVE  /\ k = 2 * Len(x.lists.t1) =>
                \E g : Rounds(TRUE, g, x, k) /\ CAR!T1Search(x) = g[k]
           /\ k = 2 * Len(x.lists.t2) =>
                \E g : Rounds(FALSE, g, x, k) /\ CAR!T2Search(x) = g[k]
<1>1. ASSUME k = 2 * Len(x.lists.t1)
      PROVE  \E g : Rounds(TRUE, g, x, k) /\ CAR!T1Search(x) = g[k]
  <2>1. PICK f : Rounds(TRUE, f, x, k) BY RoundsExist
  <2>2. f = [n \in 0 .. k |-> IF n = 0 THEN x ELSE CAR!T1Round(f[n - 1])]
    BY <2>1 DEF Rounds, Round
  <2>3. PICK g : g = CHOOSE h : h = [n \in 0 .. k |-> IF n = 0 THEN x ELSE CAR!T1Round(h[n - 1])]
    OBVIOUS
  <2>4. g = [n \in 0 .. k |-> IF n = 0 THEN x ELSE CAR!T1Round(g[n - 1])] BY <2>2, <2>3, Zenon
  <2>5. Rounds(TRUE, g, x, k) BY <2>4 DEF Rounds, Round
  <2>6. CAR!T1Search(x) = g[k] BY <1>1, <2>3, Zenon DEF CAR!T1Search
  <2> QED BY <2>5, <2>6
<1>2. ASSUME k = 2 * Len(x.lists.t2)
      PROVE  \E g : Rounds(FALSE, g, x, k) /\ CAR!T2Search(x) = g[k]
  <2>1. PICK f : Rounds(FALSE, f, x, k) BY RoundsExist
  <2>2. f = [n \in 0 .. k |-> IF n = 0 THEN x ELSE CAR!T2Round(f[n - 1])]
    BY <2>1 DEF Rounds, Round
  <2>3. PICK g : g = CHOOSE h : h = [n \in 0 .. k |-> IF n = 0 THEN x ELSE CAR!T2Round(h[n - 1])]
    OBVIOUS
  <2>4. g = [n \in 0 .. k |-> IF n = 0 THEN x ELSE CAR!T2Round(g[n - 1])] BY <2>2, <2>3, Zenon
  <2>5. Rounds(FALSE, g, x, k) BY <2>4 DEF Rounds, Round
  <2>6. CAR!T2Search(x) = g[k] BY <1>2, <2>3, Zenon DEF CAR!T2Search
  <2> QED BY <2>5, <2>6
<1> QED BY <1>1, <1>2

-----------------------------------------------------------------------------
(* The loop over T1 *)

\* Every other entry stays in a list.
LEMMA WithoutKeeps ==
    ASSUME NEW S, NEW q \in Seq(S), NEW k \in 1 .. Len(q)
    PROVE  In(q) \subseteq In(Without(q, k)) \cup {q[k]}
<1>1. PICK r : r = Without(q, k) OBVIOUS
<1>2. /\ r \in Seq(S) /\ Len(r) = Len(q) - 1
      /\ \A i \in 1 .. Len(q) - 1 : r[i] = IF i < k THEN q[i] ELSE q[i + 1]
  BY <1>1, WithoutIs
<1>3. Len(q) \in Nat OBVIOUS
<1>4. DOMAIN q = 1 .. Len(q) /\ DOMAIN r = 1 .. Len(q) - 1 BY <1>2
<1>5. ASSUME NEW i \in 1 .. Len(q), i # k PROVE q[i] \in In(r)
  <2>1. CASE i < k
    <3>1. i \in 1 .. Len(q) - 1 BY <1>3, <2>1
    <3> QED BY <1>2, <1>4, <2>1, <3>1 DEF In
  <2>2. CASE ~(i < k)
    <3>1. PICK j \in 1 .. Len(q) - 1 : i = j + 1 /\ ~(j < k) BY <1>3, <1>5, <2>2
    <3> QED BY <1>2, <1>4, <3>1 DEF In
  <2> QED BY <2>1, <2>2
<1> QED BY <1>1, <1>4, <1>5 DEF In

\* After k rounds over T1 without a victim, the last k entries ahead of the hand, up to
\* all of them, cannot go, and those that could go are in T2 now.
Passed1(q, hand, n) ==
    \A j \in 0 .. Len(q) - 1 : j >= n => ~CAR!Candidate(q[Rot(Len(q), hand % Len(q), j) + 1])
Scan1(o, y, n) ==
    /\ y \in Search /\ In(y.lists.t1) \subseteq In(o.t1)
    /\ y.victim # CAR!NoFrame =>
          \E e \in In(o.t1) : CAR!Candidate(e) /\ ~e.ref /\ y.victim = CAR!FrameOf(e.page)
    /\ y.victim = CAR!NoFrame =>
          /\ Passed1(y.lists.t1, y.lists.t1Hand, n)
          /\ \A e \in In(o.t1) : CAR!Candidate(e) /\ ~e.ref => e \in In(y.lists.t1)
          /\ \A e \in In(o.t1) \cup In(o.t2) :
                \E d \in In(y.lists.t1) \cup In(y.lists.t2) : d.page = e.page

\* Positions ahead of a hand that moves on by one, ...
LEMMA RotPass ==
    ASSUME NEW l \in Nat \ {0}, NEW h \in 0 .. l - 1, NEW g \in 0 .. l - 1,
           h + 1 = l => g = 0, h + 1 # l => g = h + 1, NEW j \in 0 .. l - 1
    PROVE  /\ j = l - 1 => Rot(l, g, j) = h
           /\ j # l - 1 => Rot(l, g, j) = Rot(l, h, j + 1)
<1>1. CASE h + 1 = l BY <1>1 DEF Rot
<1>2. CASE h + 1 # l BY <1>2 DEF Rot
<1> QED BY <1>1, <1>2

\* ... and of one that stays while the ring loses the entry at its place: the position
\* j ahead in the smaller ring is the one at i in the larger.
Shifts(m, g, j, l, h, i) ==
    /\ Rot(m, g, j) \in Nat /\ Rot(m, g, j) < m
    /\ Rot(l, h, i) = IF Rot(m, g, j) < h THEN Rot(m, g, j) ELSE Rot(m, g, j) + 1

\* The position after a removal.
LEMMA RotMove ==
    ASSUME NEW m \in Nat, NEW l, l = m + 1, NEW h \in Nat, h <= m, NEW g \in Nat, g < m,
           h = m => g = 0, h # m => g = h, NEW j \in Nat, j < m, NEW i, i = j + 1
    PROVE  Shifts(m, g, j, l, h, i)
<1>1. CASE h = m BY <1>1 DEF Shifts, Rot
<1>2. CASE h # m BY <1>2 DEF Shifts, Rot
<1> QED BY <1>1, <1>2

\* The hand passes an entry that cannot go.
LEMMA Pass1 ==
    ASSUME NEW q \in Seq(Entry), q # <<>>, NEW hand \in Nat, NEW n \in Int,
           NEW h, h = hand % Len(q), ~CAR!Candidate(q[h + 1]), Passed1(q, hand, n)
    PROVE  Passed1(q, h + 1, n - 1)
<1>1. PICK l \in Nat \ {0} : l = Len(q) OBVIOUS
<1>2. h \in 0 .. l - 1 BY <1>1, HandIs
<1>3. PICK g \in 0 .. l - 1 : g = (h + 1) % l /\ (IF h + 1 = l THEN g = 0 ELSE g = h + 1)
  <2>1. CASE h + 1 = l BY <1>2, <2>1, HandIs
  <2>2. CASE h + 1 # l
    <3>1. h + 1 \in Nat /\ h + 1 < l BY <1>2, <2>2
    <3>2. (h + 1) % l = h + 1 BY <3>1, HandIs
    <3> QED BY <2>2, <3>1, <3>2
  <2> QED BY <2>1, <2>2
<1>4. ASSUME NEW j \in 0 .. l - 1, j >= n - 1
      PROVE  ~CAR!Candidate(q[Rot(l, g, j) + 1])
  <2>1. CASE j = l - 1
    <3>1. Rot(l, g, j) = h BY <1>2, <1>3, <2>1, RotPass
    <3> QED BY <3>1
  <2>2. CASE j # l - 1
    <3>1. PICK i \in 0 .. l - 1 : i = j + 1 BY <2>2
    <3>2. i >= n BY <1>4, <3>1
    <3>3. Rot(l, g, j) = Rot(l, h, i) BY <1>2, <1>3, <2>2, <3>1, RotPass
    <3>4. ~CAR!Candidate(q[Rot(l, h, i) + 1]) BY <1>1, <3>2 DEF Passed1
    <3> QED BY <3>3, <3>4
  <2> QED BY <2>1, <2>2
<1> QED BY <1>1, <1>3, <1>4 DEF Passed1

\* The entry at the hand leaves the ring.
LEMMA Move1 ==
    ASSUME NEW q \in Seq(Entry), q # <<>>, NEW hand \in Nat, NEW n \in Int,
           NEW h, h = hand % Len(q), Passed1(q, hand, n)
    PROVE  Passed1(Without(q, h + 1), h, n - 1)
<1>1. PICK l \in Nat \ {0} : l = Len(q) OBVIOUS
<1>2. h \in 0 .. l - 1 BY <1>1, HandIs
<1>3. PICK k \in 1 .. Len(q) : k = h + 1 BY <1>1, <1>2
<1>4. PICK r : r = Without(q, k) OBVIOUS
<1>5. /\ r \in Seq(Entry) /\ Len(r) = Len(q) - 1
      /\ \A i \in 1 .. Len(q) - 1 : r[i] = IF i < k THEN q[i] ELSE q[i + 1]
  BY <1>4, WithoutIs
<1>6. CASE l = 1
  <2>1. Len(r) = 0 BY <1>1, <1>5, <1>6
  <2> QED BY <1>3, <1>4, <2>1 DEF Passed1
<1>7. CASE l # 1
  <2>1. PICK m \in Nat \ {0} : m = l - 1 BY <1>7
  <2>2. PICK g \in 0 .. m - 1 : g = h % m /\ (IF h = m THEN g = 0 ELSE g = h)
    <3>1. CASE h = m BY <2>1, <3>1, HandIs
    <3>2. CASE h # m
      <4>1. h \in Nat /\ h < m BY <1>2, <2>1, <3>2
      <4> QED BY <3>2, <4>1, HandIs
    <3> QED BY <3>1, <3>2
  <2>3. ASSUME NEW j \in 0 .. m - 1, j >= n - 1
        PROVE  ~CAR!Candidate(r[Rot(m, g, j) + 1])
    <3>1. PICK i \in 0 .. l - 1 : i = j + 1 BY <2>1
    <3>2. i >= n BY <2>3, <3>1
    <3>0. PICK a \in 0 .. l - 2 : /\ a = Rot(m, g, j)
                                 /\ Rot(l, h, i) = IF a < h THEN a ELSE a + 1
      <4>1. /\ m \in Nat /\ h \in Nat /\ h <= m /\ (h = m => g = 0) /\ (h # m => g = h)
            /\ l = m + 1 /\ g \in Nat /\ g < m /\ j \in Nat /\ j < m
        BY <1>2, <2>1, <2>2
      <4>2. /\ Rot(m, g, j) \in Nat /\ Rot(m, g, j) < m
            /\ Rot(l, h, i) = IF Rot(m, g, j) < h THEN Rot(m, g, j) ELSE Rot(m, g, j) + 1
        <5>1. Shifts(m, g, j, l, h, i) BY <3>1, <4>1, RotMove
        <5> QED BY <5>1 DEF Shifts
      <4>3. Rot(m, g, j) \in 0 .. l - 2 BY <4>1, <4>2
      <4> QED BY <4>2, <4>3
    <3>3. PICK s \in 1 .. Len(q) - 1 : s = a + 1 BY <1>1, <3>0
    <3>4. Rot(l, h, i) + 1 = IF s < k THEN s ELSE s + 1
      <4>1. PICK b : b = Rot(l, h, i) OBVIOUS
      <4>2. b = (IF a < h THEN a ELSE a + 1) /\ a \in Int /\ h \in Int BY <1>2, <3>0, <4>1
      <4>3. b + 1 = IF s < k THEN s ELSE s + 1 BY <1>3, <3>3, <4>2
      <4> QED BY <4>1, <4>3
    <3>5. r[s] = q[Rot(l, h, i) + 1] BY <1>5, <3>4
    <3>6. ~CAR!Candidate(q[Rot(l, h, i) + 1]) BY <1>1, <3>2 DEF Passed1
    <3> QED BY <3>0, <3>3, <3>5, <3>6
  <2>4. Len(r) = m BY <1>1, <1>5, <2>1
  <2> QED BY <1>3, <1>4, <2>2, <2>3, <2>4 DEF Passed1
<1> QED BY <1>6, <1>7

\* One round.
LEMMA Scan1Step ==
    ASSUME FramesOK, NEW o \in CARLists, NEW y, NEW n \in Int, Scan1(o, y, n)
    PROVE  Scan1(o, CAR!T1Round(y), n - 1)
<1>1. PICK z : z = CAR!T1Round(y) OBVIOUS
<1>2. PICK q : q = y.lists.t1 OBVIOUS
<1>3. /\ y \in Search /\ q \in Seq(Entry) /\ y.lists.t2 \in Seq(Entry) /\ y.lists.t1Hand \in Nat
  BY <1>2 DEF Scan1, Search, CARLists
<1>4. CASE y.victim # CAR!NoFrame
  <2>1. z = y BY <1>1, <1>4, RoundStops
  <2> QED BY <1>1, <1>4, <2>1 DEF Scan1
<1>5. CASE y.victim = CAR!NoFrame /\ q = <<>>
  <2>1. z = y BY <1>1, <1>2, <1>5, RoundStops
  <2>2. Passed1(q, y.lists.t1Hand, n - 1) BY <1>5 DEF Passed1
  <2> QED BY <1>1, <1>2, <1>5, <2>1, <2>2 DEF Scan1
<1>6. CASE y.victim = CAR!NoFrame /\ q # <<>>
  <2>1. PICK h : h = y.lists.t1Hand % Len(q) OBVIOUS
  <2>2. PICK e : e = q[h + 1] OBVIOUS
  <2>3. /\ h \in 0 .. Len(q) - 1 /\ e \in Entry /\ z \in Search
        /\ ~CAR!Candidate(e) =>
              /\ z.victim = CAR!NoFrame /\ z.lists.t1Hand = h + 1
              /\ z.lists.t1 = q /\ z.lists.t2 = y.lists.t2
        /\ CAR!Candidate(e) /\ e.ref =>
              /\ z.victim = CAR!NoFrame /\ z.lists.t1Hand = h
              /\ z.lists.t1 = Without(q, h + 1)
              /\ z.lists.t2 = y.lists.t2 \o <<[page |-> e.page, ref |-> FALSE]>>
        /\ CAR!Candidate(e) /\ ~e.ref =>
              /\ z.victim = CAR!FrameOf(e.page)
              /\ z.lists.t1 = Without(q, h + 1) /\ z.lists.t2 = y.lists.t2
    <3>1. /\ y \in Search /\ y.victim = CAR!NoFrame /\ y.lists.t1 # <<>>
          /\ h = y.lists.t1Hand % Len(y.lists.t1) /\ e = y.lists.t1[h + 1]
          /\ z = CAR!T1Round(y)
      BY <1>1, <1>2, <1>3, <1>6, <2>1, <2>2
    <3>2. Turned1(y, h, e, z) BY <3>1, Round1Is
    <3> QED BY <1>2, <3>2 DEF Turned1
  <2>4. PICK k \in 1 .. Len(q) : k = h + 1 BY <1>3, <2>3
  <2>5. e \in In(q) BY <1>3, <2>2, <2>4 DEF In
  <2>6. /\ In(q) \subseteq In(o.t1) /\ Passed1(q, y.lists.t1Hand, n)
        /\ \A d \in In(o.t1) : CAR!Candidate(d) /\ ~d.ref => d \in In(q)
        /\ \A d \in In(o.t1) \cup In(o.t2) : \E a \in In(q) \cup In(y.lists.t2) : a.page = d.page
    BY <1>2, <1>6 DEF Scan1
  <2>7. /\ In(Without(q, k)) \subseteq In(q) /\ In(q) \subseteq In(Without(q, k)) \cup {e}
    BY <1>3, <2>2, <2>4, WithoutIn, WithoutKeeps
  <2>8. CASE ~CAR!Candidate(e)
    <3>1. Passed1(q, h + 1, n - 1) BY <1>3, <1>6, <2>1, <2>2, <2>6, <2>8, Pass1
    <3> QED BY <1>1, <2>3, <2>6, <2>8, <3>1 DEF Scan1
  <2>9. CASE CAR!Candidate(e) /\ e.ref
    <3>1. Passed1(Without(q, k), h, n - 1) BY <1>3, <1>6, <2>1, <2>4, <2>6, Move1
    <3>2. PICK d : d = [page |-> e.page, ref |-> FALSE] OBVIOUS
    <3>3. d \in Entry /\ d.page = e.page BY <2>3, <3>2 DEF Entry
    <3>4. In(z.lists.t2) = In(y.lists.t2) \cup {d} BY <1>3, <2>3, <2>9, <3>2, <3>3, PagesAppend
    <3>5. z.lists.t1 = Without(q, k) /\ z.lists.t1Hand = h /\ z.victim = CAR!NoFrame
      BY <2>3, <2>4, <2>9
    <3>6. \A a \in In(o.t1) : CAR!Candidate(a) /\ ~a.ref => a \in In(z.lists.t1)
      BY <2>6, <2>7, <2>9, <3>5
    <3>7. ASSUME NEW a \in In(o.t1) \cup In(o.t2)
          PROVE  \E b \in In(z.lists.t1) \cup In(z.lists.t2) : b.page = a.page
      <4>1. PICK b \in In(q) \cup In(y.lists.t2) : b.page = a.page BY <2>6
      <4>2. CASE b = e BY <3>3, <3>4, <4>1, <4>2
      <4>3. CASE b # e BY <2>7, <3>4, <3>5, <4>1, <4>3
      <4> QED BY <4>2, <4>3
    <3> QED BY <1>1, <2>3, <2>6, <2>7, <3>1, <3>5, <3>6, <3>7 DEF Scan1
  <2>10. CASE CAR!Candidate(e) /\ ~e.ref
    <3>1. z.victim # CAR!NoFrame BY <2>3, <2>10, CandidateIs
    <3>2. z.lists.t1 = Without(q, k) BY <2>3, <2>4, <2>10
    <3> QED BY <1>1, <2>3, <2>5, <2>6, <2>7, <2>10, <3>1, <3>2 DEF Scan1
  <2>11. e.ref \in BOOLEAN BY <2>3 DEF Entry
  <2> QED BY <2>8, <2>9, <2>10, <2>11
<1> QED BY <1>4, <1>5, <1>6

\* The whole loop: a victim that was not referenced, if T1 has one that can go, and else
\* nothing in T1 can go and what could is in T2.
LEMMA Scan1Done ==
    ASSUME FramesOK, NEW o \in CARLists, NEW x, x = [victim |-> CAR!NoFrame, lists |-> o],
           NEW y, y = CAR!T1Search(x)
    PROVE  /\ y \in Search
           /\ y.victim # CAR!NoFrame =>
                \E e \in In(o.t1) : CAR!Candidate(e) /\ ~e.ref /\ y.victim = CAR!FrameOf(e.page)
           /\ y.victim = CAR!NoFrame =>
                /\ \A e \in In(o.t1) : CAR!Candidate(e) => e.ref
                /\ \A e \in In(o.t1) \cup In(o.t2) : CAR!Candidate(e) =>
                      \E d \in In(y.lists.t2) : d.page = e.page
<1>1. x.victim = CAR!NoFrame /\ x.lists = o OBVIOUS
<1>2. o.t1 \in Seq(Entry) BY DEF CARLists
<1>3. PICK l \in Nat : l = Len(o.t1) BY <1>2
<1>4. PICK k \in Nat : k = 2 * l OBVIOUS
<1>5. PICK g : Rounds(TRUE, g, x, k) /\ y = g[k] BY <1>1, <1>3, <1>4, SearchIs
<1>6. g[0] = x /\ \A i \in 0 .. k : i # 0 => g[i] = CAR!T1Round(g[i - 1])
  BY <1>5 DEF Rounds, Round
<1>7. Scan1(o, x, l)
  <2>1. x \in Search BY DEF Search
  <2>2. Passed1(o.t1, o.t1Hand, l) BY <1>2, <1>3 DEF Passed1
  <2> QED BY <1>1, <2>1, <2>2 DEF Scan1
<1>8. Scan1(o, g[k], l - k)
  <2> DEFINE S == {i \in 0 .. k : ~Scan1(o, g[i], l - i)}
  <2>1. SUFFICES ASSUME S # {} PROVE FALSE BY <1>4
  <2>2. S \in SUBSET Nat OBVIOUS
  <2>3. PICK m \in S : \A i \in S : m <= i BY <2>1, <2>2, LeastNumber
  <2>4. m \in 0 .. k /\ m # 0
    <3>1. Scan1(o, g[0], l - 0) BY <1>6, <1>7
    <3> QED BY <2>3, <3>1
  <2>5. PICK i \in 0 .. k : m = i + 1 BY <2>4
  <2>6. i \notin S BY <2>3, <2>5
  <2>7. Scan1(o, g[i], l - i) BY <2>6
  <2>8. PICK n \in Int : n = l - i OBVIOUS
  <2>9. Scan1(o, CAR!T1Round(g[i]), n - 1) BY <2>7, <2>8, Scan1Step
  <2>10. g[m] = CAR!T1Round(g[i]) /\ l - m = n - 1
    <3>1. m - 1 = i BY <2>5
    <3> QED BY <1>6, <2>4, <2>5, <2>8, <3>1
  <2>11. Scan1(o, g[m], l - m) BY <2>9, <2>10
  <2> QED BY <2>3, <2>11
<1>9. Scan1(o, y, l - k) BY <1>5, <1>8
<1>10. ASSUME y.victim = CAR!NoFrame, NEW e \in In(y.lists.t1)
       PROVE  ~CAR!Candidate(e)
  <2>1. PICK q : q = y.lists.t1 OBVIOUS
  <2>2. q \in Seq(Entry) /\ y.lists.t1Hand \in Nat BY <1>9, <2>1 DEF Scan1, Search, CARLists
  <2>3. PICK a \in 1 .. Len(q) : e = q[a] BY <1>10, <2>1, <2>2 DEF In
  <2>4. PICK n \in Nat \ {0} : n = Len(q) BY <2>2, <2>3
  <2>5. PICK h \in 0 .. n - 1 : h = y.lists.t1Hand % n BY <2>2, <2>4, HandIs
  <2>6. PICK j \in 0 .. n - 1 : Rot(n, h, j) = a - 1
    <3>1. CASE a - 1 >= h
      <4>1. (a - 1) - h \in 0 .. n - 1 BY <2>3, <2>4, <2>5, <3>1
      <4>2. Rot(n, h, (a - 1) - h) = a - 1 BY <2>3, <2>4, <2>5, <3>1 DEF Rot
      <4> QED BY <4>1, <4>2
    <3>2. CASE ~(a - 1 >= h)
      <4>1. (a - 1) - h + n \in 0 .. n - 1 BY <2>3, <2>4, <2>5, <3>2
      <4>2. Rot(n, h, (a - 1) - h + n) = a - 1 BY <2>3, <2>4, <2>5, <3>2 DEF Rot
      <4> QED BY <4>1, <4>2
    <3> QED BY <3>1, <3>2
  <2>7. j >= l - k BY <1>4
  <2>8. Passed1(q, y.lists.t1Hand, l - k) BY <1>9, <1>10, <2>1 DEF Scan1
  <2>9. ~CAR!Candidate(q[Rot(n, h, j) + 1]) BY <2>4, <2>5, <2>7, <2>8 DEF Passed1
  <2>10. Rot(n, h, j) + 1 = a BY <2>6
  <2> QED BY <2>3, <2>9, <2>10
<1>11. ASSUME y.victim = CAR!NoFrame, NEW e \in In(o.t1), CAR!Candidate(e)
       PROVE  e.ref
  <2>1. e.ref \/ e \in In(y.lists.t1) BY <1>9, <1>11 DEF Scan1
  <2> QED BY <1>10, <1>11, <2>1
<1>12. ASSUME y.victim = CAR!NoFrame, NEW e \in In(o.t1) \cup In(o.t2), CAR!Candidate(e)
       PROVE  \E d \in In(y.lists.t2) : d.page = e.page
  <2>1. PICK d \in In(y.lists.t1) \cup In(y.lists.t2) : d.page = e.page
    BY <1>9, <1>12 DEF Scan1
  <2>2. CAR!Candidate(d) BY <1>12, <2>1 DEF CAR!Candidate
  <2> QED BY <1>10, <1>12, <2>1, <2>2
<1> QED BY <1>9, <1>11, <1>12 DEF Scan1

-----------------------------------------------------------------------------
(* The loop over T2 *)

\* After k rounds over T2 without a victim, the last k entries ahead of the hand cannot
\* go or are not referenced, and those that the hand has passed twice cannot go.
Passed2(q, hand, n) ==
    \A j \in 0 .. Len(q) - 1 :
        LET e == q[Rot(Len(q), hand % Len(q), j) + 1]
        IN  /\ j >= n => (CAR!Candidate(e) => ~e.ref)
            /\ j >= n + Len(q) => ~CAR!Candidate(e)
Scan2(o, y, n) ==
    /\ y \in Search
    /\ y.victim # CAR!NoFrame =>
          \E e \in In(o.t2) : CAR!Candidate(e) /\ y.victim = CAR!FrameOf(e.page)
    /\ y.victim = CAR!NoFrame =>
          /\ Len(y.lists.t2) = Len(o.t2)
          /\ \A i \in 1 .. Len(o.t2) : y.lists.t2[i].page = o.t2[i].page
          /\ Passed2(y.lists.t2, y.lists.t2Hand, n)

\* The hand passes an entry that cannot go, or takes its bit: r is the ring then.
LEMMA Pass2 ==
    ASSUME NEW q \in Seq(Entry), q # <<>>, NEW r \in Seq(Entry), Len(r) = Len(q),
           NEW hand \in Nat, NEW n \in Int, n <= Len(q),
           NEW h, h = hand % Len(q), Passed2(q, hand, n),
           \A i \in 1 .. Len(q) : i # h + 1 => r[i] = q[i],
           CAR!Candidate(r[h + 1]) => ~r[h + 1].ref,
           CAR!Candidate(r[h + 1]) => CAR!Candidate(q[h + 1]) /\ q[h + 1].ref
    PROVE  Passed2(r, h + 1, n - 1)
<1>1. PICK l \in Nat \ {0} : l = Len(q) OBVIOUS
<1>2. h \in 0 .. l - 1 BY <1>1, HandIs
<1>3. PICK g \in 0 .. l - 1 : g = (h + 1) % l /\ (IF h + 1 = l THEN g = 0 ELSE g = h + 1)
  <2>1. CASE h + 1 = l BY <1>2, <2>1, HandIs
  <2>2. CASE h + 1 # l
    <3>1. h + 1 \in Nat /\ h + 1 < l BY <1>2, <2>2
    <3>2. (h + 1) % l = h + 1 BY <3>1, HandIs
    <3> QED BY <2>2, <3>1, <3>2
  <2> QED BY <2>1, <2>2
<1>4. \A j \in 0 .. l - 1 :
        /\ j >= n => (CAR!Candidate(q[Rot(l, h, j) + 1]) => ~q[Rot(l, h, j) + 1].ref)
        /\ j >= n + l => ~CAR!Candidate(q[Rot(l, h, j) + 1])
  BY <1>1 DEF Passed2
<1>5. ASSUME NEW j \in 0 .. l - 1
      PROVE  /\ j >= n - 1 => (CAR!Candidate(r[Rot(l, g, j) + 1]) => ~r[Rot(l, g, j) + 1].ref)
             /\ j >= n - 1 + l => ~CAR!Candidate(r[Rot(l, g, j) + 1])
  <2>1. CASE j = l - 1
    <3>1. Rot(l, g, j) = h BY <1>2, <1>3, <2>1, RotPass
    <3>2. ASSUME j >= n - 1 + l PROVE ~CAR!Candidate(r[h + 1])
      <4>1. 0 >= n BY <2>1, <3>2
      <4>2. Rot(l, h, 0) = h /\ 0 \in 0 .. l - 1 BY <1>2 DEF Rot
      <4>3. CAR!Candidate(q[h + 1]) => ~q[h + 1].ref BY <1>4, <4>1, <4>2
      <4> QED BY <4>3
    <3> QED BY <3>1, <3>2
  <2>2. CASE j # l - 1
    <3>1. PICK i \in 0 .. l - 1 : i = j + 1 BY <2>2
    <3>2. Rot(l, g, j) = Rot(l, h, i) BY <1>2, <1>3, <2>2, <3>1, RotPass
    <3>30. i \in 1 .. l - 1 /\ h \in 0 .. l - 1 /\ l \in Nat BY <1>2, <3>1
    <3>31. Rot(l, h, i) \in 0 .. l - 1 /\ Rot(l, h, i) # h BY <3>30 DEF Rot
    <3>3. PICK a \in 1 .. l : a = Rot(l, h, i) + 1 /\ a # h + 1 BY <3>30, <3>31
    <3>4. r[a] = q[a] BY <1>1, <3>3
    <3>5. /\ i >= n => (CAR!Candidate(q[a]) => ~q[a].ref)
          /\ i >= n + l => ~CAR!Candidate(q[a])
      BY <1>4, <3>3
    <3>6. (j >= n - 1 => i >= n) /\ (j >= n - 1 + l => i >= n + l) BY <3>1
    <3> QED BY <3>2, <3>3, <3>4, <3>5, <3>6
  <2> QED BY <2>1, <2>2
<1> QED BY <1>1, <1>3, <1>5 DEF Passed2

\* One round.
LEMMA Scan2Step ==
    ASSUME FramesOK, NEW o \in CARLists, NEW y, NEW n \in Int, n <= Len(o.t2), Scan2(o, y, n)
    PROVE  Scan2(o, CAR!T2Round(y), n - 1)
<1>1. PICK z : z = CAR!T2Round(y) OBVIOUS
<1>2. PICK q : q = y.lists.t2 OBVIOUS
<1>3. /\ y \in Search /\ q \in Seq(Entry) /\ y.lists.t2Hand \in Nat /\ o.t2 \in Seq(Entry)
  BY <1>2 DEF Scan2, Search, CARLists
<1>4. CASE y.victim # CAR!NoFrame
  <2>1. z = y BY <1>1, <1>4, RoundStops
  <2> QED BY <1>1, <1>4, <2>1 DEF Scan2
<1>5. CASE y.victim = CAR!NoFrame /\ q = <<>>
  <2>1. z = y BY <1>1, <1>2, <1>5, RoundStops
  <2>2. Passed2(q, y.lists.t2Hand, n - 1) BY <1>5 DEF Passed2
  <2> QED BY <1>1, <1>2, <1>5, <2>1, <2>2 DEF Scan2
<1>6. CASE y.victim = CAR!NoFrame /\ q # <<>>
  <2>1. PICK h : h = y.lists.t2Hand % Len(q) OBVIOUS
  <2>2. PICK e : e = q[h + 1] OBVIOUS
  <2>3. Turned2(y, h, e, z)
    <3>1. /\ y \in Search /\ y.victim = CAR!NoFrame /\ y.lists.t2 # <<>>
          /\ h = y.lists.t2Hand % Len(y.lists.t2) /\ e = y.lists.t2[h + 1]
          /\ z = CAR!T2Round(y)
      BY <1>1, <1>2, <1>3, <1>6, <2>1, <2>2
    <3> QED BY <3>1, Round2Is
  <2>4. h \in 0 .. Len(q) - 1 /\ e \in Entry /\ z \in Search BY <1>2, <2>3 DEF Turned2
  <2>5. PICK k \in 1 .. Len(q) : k = h + 1 BY <1>3, <2>4
  <2>6. /\ Len(q) = Len(o.t2) /\ Passed2(q, y.lists.t2Hand, n)
        /\ \A i \in 1 .. Len(o.t2) : q[i].page = o.t2[i].page
    BY <1>2, <1>6 DEF Scan2
  <2>7. PICK r : r = z.lists.t2 OBVIOUS
  <2>8. r \in Seq(Entry) BY <2>4, <2>7 DEF Search, CARLists
  <2>9. CASE ~CAR!Candidate(e)
    <3>1. z.victim = CAR!NoFrame /\ z.lists.t2Hand = h + 1 /\ r = q
      BY <1>2, <2>3, <2>7, <2>9 DEF Turned2
    <3>2. Passed2(r, h + 1, n - 1)
      BY <1>3, <1>6, <2>1, <2>2, <2>6, <2>9, <3>1, Pass2
    <3> QED BY <1>1, <2>4, <2>6, <2>7, <3>1, <3>2 DEF Scan2
  <2>10. CASE CAR!Candidate(e) /\ e.ref
    <3>1. PICK d : d = [page |-> e.page, ref |-> FALSE] OBVIOUS
    <3>2. /\ z.victim = CAR!NoFrame /\ z.lists.t2Hand = h + 1 /\ Len(r) = Len(q)
          /\ \A i \in 1 .. Len(q) : r[i] = IF i = h + 1 THEN d ELSE q[i]
      BY <1>2, <2>3, <2>7, <2>10, <3>1 DEF Turned2
    <3>3. d.page = e.page /\ d.ref = FALSE BY <3>1
    <3>4. r[h + 1] = d BY <2>5, <3>2
    <3>5. Passed2(r, h + 1, n - 1)
      BY <1>3, <1>6, <2>1, <2>2, <2>6, <2>8, <2>10, <3>2, <3>3, <3>4, Pass2
    <3>6. \A i \in 1 .. Len(o.t2) : r[i].page = o.t2[i].page
      BY <2>2, <2>6, <3>2, <3>3
    <3> QED BY <1>1, <2>4, <2>6, <2>7, <3>2, <3>5, <3>6 DEF Scan2
  <2>11. CASE CAR!Candidate(e) /\ ~e.ref
    <3>1. z.victim = CAR!FrameOf(e.page) BY <2>3, <2>11 DEF Turned2
    <3>2. z.victim # CAR!NoFrame BY <2>11, <3>1, CandidateIs
    <3>3. PICK d : d = o.t2[k] OBVIOUS
    <3>4. d \in In(o.t2) BY <1>3, <2>5, <2>6, <3>3 DEF In
    <3>5. d.page = e.page BY <2>2, <2>5, <2>6, <3>3
    <3>6. CAR!Candidate(d) BY <2>11, <3>5 DEF CAR!Candidate
    <3> QED BY <1>1, <2>4, <3>1, <3>2, <3>4, <3>5, <3>6 DEF Scan2
  <2>12. e.ref \in BOOLEAN BY <2>4 DEF Entry
  <2> QED BY <2>9, <2>10, <2>11, <2>12
<1> QED BY <1>4, <1>5, <1>6

\* The whole loop: a victim that was in T2, if T2 has one that can go; a search that has
\* its victim already stays as it is.
LEMMA Scan2Done ==
    ASSUME FramesOK, NEW x \in Search, NEW y, y = CAR!T2Search(x)
    PROVE  /\ y \in Search
           /\ x.victim # CAR!NoFrame => y = x
           /\ x.victim = CAR!NoFrame /\ y.victim # CAR!NoFrame =>
                \E e \in In(x.lists.t2) : CAR!Candidate(e) /\ y.victim = CAR!FrameOf(e.page)
           /\ x.victim = CAR!NoFrame /\ y.victim = CAR!NoFrame =>
                \A e \in In(x.lists.t2) : ~CAR!Candidate(e)
<1>1. PICK o \in CARLists : o = x.lists BY DEF Search
<1>2. o.t2 \in Seq(Entry) /\ o.t2Hand \in Nat BY DEF CARLists
<1>3. PICK l \in Nat : l = Len(o.t2) BY <1>2
<1>4. PICK k \in Nat : k = 2 * l OBVIOUS
<1>5. PICK g : Rounds(FALSE, g, x, k) /\ y = g[k] BY <1>1, <1>3, <1>4, SearchIs
<1>6. g[0] = x /\ \A i \in 0 .. k : i # 0 => g[i] = CAR!T2Round(g[i - 1])
  BY <1>5 DEF Rounds, Round
<1>7. CASE x.victim # CAR!NoFrame
  <2> DEFINE S == {i \in 0 .. k : g[i] # x}
  <2>1. S = {}
    <3>1. SUFFICES ASSUME S # {} PROVE FALSE OBVIOUS
    <3>2. S \in SUBSET Nat OBVIOUS
    <3>3. PICK m \in S : \A i \in S : m <= i BY <3>1, <3>2, LeastNumber
    <3>4. m \in 0 .. k /\ m # 0 BY <1>6, <3>3
    <3>5. PICK i \in 0 .. k : m = i + 1 BY <3>4
    <3>6. i \notin S BY <3>3, <3>5
    <3>7. g[i] = x BY <3>6
    <3>8. m - 1 = i BY <3>5
    <3>9. g[m] = CAR!T2Round(x) BY <1>6, <3>4, <3>7, <3>8
    <3> QED BY <1>7, <3>3, <3>9, RoundStops
  <2>2. y = x BY <1>4, <1>5, <2>1
  <2> QED BY <1>7, <2>2
<1>8. CASE x.victim = CAR!NoFrame
  <2>1. Scan2(o, x, l)
    <3>1. Passed2(o.t2, o.t2Hand, l)
      <4>1. \A j \in 0 .. l - 1 : ~(j >= l) /\ ~(j >= l + l) OBVIOUS
      <4> QED BY <1>3, <4>1 DEF Passed2
    <3> QED BY <1>1, <1>8, <3>1 DEF Scan2
  <2>2. Scan2(o, g[k], l - k)
    <3> DEFINE S == {i \in 0 .. k : ~Scan2(o, g[i], l - i)}
    <3>1. SUFFICES ASSUME S # {} PROVE FALSE BY <1>4
    <3>2. S \in SUBSET Nat OBVIOUS
    <3>3. PICK m \in S : \A i \in S : m <= i BY <3>1, <3>2, LeastNumber
    <3>4. m \in 0 .. k /\ m # 0
      <4>1. Scan2(o, g[0], l - 0) BY <1>6, <2>1
      <4> QED BY <3>3, <4>1
    <3>5. PICK i \in 0 .. k : m = i + 1 BY <3>4
    <3>6. i \notin S BY <3>3, <3>5
    <3>7. Scan2(o, g[i], l - i) BY <3>6
    <3>8. PICK n \in Int : n = l - i /\ n <= l OBVIOUS
    <3>9. Scan2(o, CAR!T2Round(g[i]), n - 1) BY <1>3, <3>7, <3>8, Scan2Step
    <3>10. g[m] = CAR!T2Round(g[i]) /\ l - m = n - 1
      <4>1. m - 1 = i BY <3>5
      <4> QED BY <1>6, <3>4, <3>5, <3>8, <4>1
    <3>11. Scan2(o, g[m], l - m) BY <3>9, <3>10
    <3> QED BY <3>3, <3>11
  <2>3. Scan2(o, y, l - k) BY <1>5, <2>2
  <2>4. ASSUME y.victim = CAR!NoFrame, NEW e \in In(o.t2)
        PROVE  ~CAR!Candidate(e)
    <3>1. PICK q : q = y.lists.t2 OBVIOUS
    <3>2. q \in Seq(Entry) /\ y.lists.t2Hand \in Nat BY <2>3, <3>1 DEF Scan2, Search, CARLists
    <3>3. PICK a \in 1 .. Len(o.t2) : e = o.t2[a] BY <1>2, <2>4 DEF In
    <3>4. PICK n \in Nat \ {0} : n = Len(o.t2) BY <1>2, <3>3
    <3>5. Len(q) = n /\ q[a].page = e.page /\ Passed2(q, y.lists.t2Hand, l - k)
      BY <2>3, <2>4, <3>1, <3>3, <3>4 DEF Scan2
    <3>6. PICK h \in 0 .. n - 1 : h = y.lists.t2Hand % n BY <3>2, <3>4, HandIs
    <3>7. PICK j \in 0 .. n - 1 : Rot(n, h, j) = a - 1
      <4>1. CASE a - 1 >= h
        <5>1. (a - 1) - h \in 0 .. n - 1 BY <3>3, <3>4, <3>6, <4>1
        <5>2. Rot(n, h, (a - 1) - h) = a - 1 BY <3>3, <3>4, <3>6, <4>1 DEF Rot
        <5> QED BY <5>1, <5>2
      <4>2. CASE ~(a - 1 >= h)
        <5>1. (a - 1) - h + n \in 0 .. n - 1 BY <3>3, <3>4, <3>6, <4>2
        <5>2. Rot(n, h, (a - 1) - h + n) = a - 1 BY <3>3, <3>4, <3>6, <4>2 DEF Rot
        <5> QED BY <5>1, <5>2
      <4> QED BY <4>1, <4>2
    <3>8. j >= (l - k) + n BY <1>3, <1>4, <3>4
    <3>9. ~CAR!Candidate(q[Rot(n, h, j) + 1]) BY <3>5, <3>6, <3>8 DEF Passed2
    <3>10. Rot(n, h, j) + 1 = a BY <3>7
    <3>11. ~CAR!Candidate(q[a]) BY <3>9, <3>10
    <3> QED BY <3>5, <3>11 DEF CAR!Candidate
  <2> QED BY <1>1, <1>8, <2>3, <2>4 DEF Scan2
<1> QED BY <1>7, <1>8

-----------------------------------------------------------------------------
(* What a search leaves of the rings *)

\* The victim comes from the rings as long as they have a page that can go, and from T1
\* if T1 has one that was not referenced.
LEMMA RingedIs ==
    ASSUME FramesOK, car \in CARLists
    PROVE  /\ CAR!Ringed \in Search
           /\ CAR!Ringed.victim # CAR!NoFrame => CAR!Ringed.victim \in Evictable
           /\ CAR!Ringed.victim = CAR!NoFrame =>
                \A e \in In(car.t1) \cup In(car.t2) : ~CAR!Candidate(e)
           /\ \A e \in In(car.t1) : CAR!Candidate(e) /\ ~e.ref =>
                \E d \in In(car.t1) : /\ CAR!Candidate(d) /\ ~d.ref
                                      /\ page[CAR!Ringed.victim] = d.page
<1>1. PICK x : x = [victim |-> CAR!NoFrame, lists |-> car] OBVIOUS
<1>2. PICK y : y = CAR!T1Search(x) OBVIOUS
<1>3. /\ y \in Search
      /\ y.victim # CAR!NoFrame =>
           \E e \in In(car.t1) : CAR!Candidate(e) /\ ~e.ref /\ y.victim = CAR!FrameOf(e.page)
      /\ y.victim = CAR!NoFrame =>
           /\ \A e \in In(car.t1) : CAR!Candidate(e) => e.ref
           /\ \A e \in In(car.t1) \cup In(car.t2) : CAR!Candidate(e) =>
                 \E d \in In(y.lists.t2) : d.page = e.page
  BY <1>1, <1>2, Scan1Done
<1>4. PICK z : z = CAR!T2Search(y) OBVIOUS
<1>5. /\ z \in Search
      /\ y.victim # CAR!NoFrame => z = y
      /\ y.victim = CAR!NoFrame /\ z.victim # CAR!NoFrame =>
           \E e \in In(y.lists.t2) : CAR!Candidate(e) /\ z.victim = CAR!FrameOf(e.page)
      /\ y.victim = CAR!NoFrame /\ z.victim = CAR!NoFrame =>
           \A e \in In(y.lists.t2) : ~CAR!Candidate(e)
  BY <1>3, <1>4, Scan2Done
<1>6. CAR!Ringed = z BY <1>1, <1>2, <1>4 DEF CAR!Ringed
<1>7. CASE y.victim # CAR!NoFrame
  <2>1. PICK d \in In(car.t1) : CAR!Candidate(d) /\ ~d.ref /\ y.victim = CAR!FrameOf(d.page)
    BY <1>3, <1>7
  <2>2. y.victim \in Evictable /\ page[y.victim] = d.page BY <2>1, CandidateIs
  <2> QED BY <1>5, <1>6, <1>7, <2>1, <2>2
<1>8. CASE y.victim = CAR!NoFrame
  <2>1. z.victim # CAR!NoFrame => z.victim \in Evictable BY <1>5, <1>8, CandidateIs
  <2>2. ASSUME z.victim = CAR!NoFrame, NEW e \in In(car.t1) \cup In(car.t2), CAR!Candidate(e)
        PROVE  FALSE
    <3>1. PICK d \in In(y.lists.t2) : d.page = e.page BY <1>3, <1>8, <2>2
    <3>2. CAR!Candidate(d) BY <2>2, <3>1 DEF CAR!Candidate
    <3> QED BY <1>5, <1>8, <2>2, <3>2
  <2> QED BY <1>3, <1>5, <1>6, <1>8, <2>1, <2>2
<1> QED BY <1>7, <1>8

\* Four lists without a page that is in two places, two of them with pages of R.
Listed(P, Q, b, d, R) ==
    /\ Distinct(P) /\ Distinct(Q) /\ Distinct(b) /\ Distinct(d)
    /\ In(P) \cap In(Q) = {} /\ (In(P) \cup In(Q)) \cap (In(b) \cup In(d)) = {}
    /\ In(b) \cap In(d) = {} /\ In(P) \cup In(Q) \subseteq R
ListedIn(L, R) == Listed(CAR!PagesOf(L.t1), CAR!PagesOf(L.t2), L.b1, L.b2, R)

\* What a search has found so far, it has taken from the rings.
Kept(y, R) ==
    /\ y.victim = CAR!NoFrame => ListedIn(y.lists, R)
    /\ y.victim # CAR!NoFrame => ListedIn(y.lists, R \ {page[y.victim]})

\* A page at the end of a list that does not have it.
LEMMA AtEnd ==
    ASSUME NEW q \in Seq(Pages), NEW x \in Pages
    PROVE  /\ q \o <<x>> \in Seq(Pages) /\ In(q \o <<x>>) = In(q) \cup {x}
           /\ Distinct(q) /\ x \notin In(q) => Distinct(q \o <<x>>)
<1>1. <<x>> \in Seq(Pages) /\ In(<<x>>) = {x} /\ Distinct(<<x>>) BY DEF In, Distinct
<1>2. /\ q \o <<x>> \in Seq(Pages) /\ In(q \o <<x>>) = In(q) \cup In(<<x>>)
      /\ Distinct(q) /\ Distinct(<<x>>) /\ In(q) \cap In(<<x>>) = {} => Distinct(q \o <<x>>)
  BY <1>1, ConcatIn
<1> QED BY <1>1, <1>2

\* Rounds keep what the lists hold, but for the victim.
LEMMA Kept1 ==
    ASSUME FramesOK, NEW y \in Search, NEW R, Kept(y, R)
    PROVE  CAR!T1Round(y) \in Search /\ Kept(CAR!T1Round(y), R)
<1>1. PICK z : z = CAR!T1Round(y) OBVIOUS
<1>2. PICK q : q = y.lists.t1 OBVIOUS
<1>3. q \in Seq(Entry) /\ y.lists.t2 \in Seq(Entry) BY <1>2 DEF Search, CARLists
<1>4. CASE y.victim # CAR!NoFrame \/ q = <<>>
  <2>1. z = y BY <1>1, <1>2, <1>4, RoundStops
  <2> QED BY <1>1, <2>1
<1>5. CASE y.victim = CAR!NoFrame /\ q # <<>>
  <2>1. PICK h : h = y.lists.t1Hand % Len(q) OBVIOUS
  <2>2. PICK e : e = q[h + 1] OBVIOUS
  <2>3. Turned1(y, h, e, z)
    <3>1. /\ y \in Search /\ y.victim = CAR!NoFrame /\ y.lists.t1 # <<>>
          /\ h = y.lists.t1Hand % Len(y.lists.t1) /\ e = y.lists.t1[h + 1]
          /\ z = CAR!T1Round(y)
      BY <1>1, <1>2, <1>5, <2>1, <2>2
    <3> QED BY <3>1, Round1Is
  <2>4. /\ h \in 0 .. Len(q) - 1 /\ e \in Entry /\ z \in Search
        /\ z.lists.b1 = y.lists.b1 /\ z.lists.b2 = y.lists.b2
    BY <1>2, <2>3 DEF Turned1
  <2>5. PICK k \in 1 .. Len(q) : k = h + 1 BY <1>3, <2>4
  <2>6. PICK P \in Seq(Pages) : P = CAR!PagesOf(q) /\ Len(P) = Len(q) /\ P[k] = e.page
    BY <1>3, <2>2, <2>5, PagesOfIs
  <2>7. PICK Q \in Seq(Pages) : Q = CAR!PagesOf(y.lists.t2) BY <1>3, PagesOfIs
  <2>8. Listed(P, Q, y.lists.b1, y.lists.b2, R) BY <1>2, <1>5, <2>6, <2>7 DEF Kept, ListedIn
  <2>9. PICK T : T = Without(P, k) OBVIOUS
  <2>10. /\ T = CAR!PagesOf(Without(q, k)) /\ In(T) \subseteq In(P)
         /\ Distinct(P) => Distinct(T) /\ e.page \notin In(T)
    BY <1>3, <2>5, <2>6, <2>9, PagesWithout, WithoutIn
  <2>11. e.page \in In(P) /\ e.page \in Pages
    <3>1. k \in DOMAIN P BY <2>5, <2>6
    <3> QED BY <2>4, <2>6, <3>1 DEF In, Entry
  <2>12. CASE ~CAR!Candidate(e)
    <3>1. z.victim = CAR!NoFrame /\ z.lists.t1 = q /\ z.lists.t2 = y.lists.t2
      BY <1>2, <2>3, <2>12 DEF Turned1
    <3>2. ListedIn(z.lists, R) BY <2>4, <2>6, <2>7, <2>8, <3>1 DEF ListedIn
    <3> QED BY <1>1, <2>4, <3>1, <3>2 DEF Kept
  <2>13. CASE CAR!Candidate(e) /\ e.ref
    <3>1. PICK d : d = [page |-> e.page, ref |-> FALSE] OBVIOUS
    <3>2. d \in Entry /\ d.page = e.page BY <2>4, <3>1 DEF Entry
    <3>3. z.victim = CAR!NoFrame /\ z.lists.t1 = Without(q, k) /\ z.lists.t2 = y.lists.t2 \o <<d>>
      BY <1>2, <2>3, <2>5, <2>13, <3>1 DEF Turned1
    <3>4. CAR!PagesOf(z.lists.t2) = Q \o <<e.page>> BY <1>3, <2>7, <3>2, <3>3, PagesAppend
    <3>5. /\ In(Q \o <<e.page>>) = In(Q) \cup {e.page}
          /\ Distinct(Q) /\ e.page \notin In(Q) => Distinct(Q \o <<e.page>>)
      BY <2>11, AtEnd
    <3>6. Listed(T, Q \o <<e.page>>, y.lists.b1, y.lists.b2, R)
      BY <2>8, <2>10, <2>11, <3>5 DEF Listed
    <3>7. ListedIn(z.lists, R) BY <2>4, <2>10, <3>3, <3>4, <3>6 DEF ListedIn
    <3> QED BY <1>1, <2>4, <3>3, <3>7 DEF Kept
  <2>14. CASE CAR!Candidate(e) /\ ~e.ref
    <3>1. z.victim = CAR!FrameOf(e.page) /\ z.lists.t1 = Without(q, k) /\ z.lists.t2 = y.lists.t2
      BY <1>2, <2>3, <2>5, <2>14 DEF Turned1
    <3>2. z.victim # CAR!NoFrame /\ page[z.victim] = e.page BY <2>14, <3>1, CandidateIs
    <3>3. Listed(T, Q, y.lists.b1, y.lists.b2, R \ {e.page}) BY <2>8, <2>10, <2>11 DEF Listed
    <3>4. ListedIn(z.lists, R \ {e.page}) BY <2>4, <2>7, <2>10, <3>1, <3>3 DEF ListedIn
    <3> QED BY <1>1, <2>4, <3>2, <3>4 DEF Kept
  <2>15. e.ref \in BOOLEAN BY <2>4 DEF Entry
  <2> QED BY <2>12, <2>13, <2>14, <2>15
<1> QED BY <1>4, <1>5

\* The same for T2.
LEMMA Kept2 ==
    ASSUME FramesOK, NEW y \in Search, NEW R, Kept(y, R)
    PROVE  CAR!T2Round(y) \in Search /\ Kept(CAR!T2Round(y), R)
<1>1. PICK z : z = CAR!T2Round(y) OBVIOUS
<1>2. PICK q : q = y.lists.t2 OBVIOUS
<1>3. q \in Seq(Entry) /\ y.lists.t1 \in Seq(Entry) BY <1>2 DEF Search, CARLists
<1>4. CASE y.victim # CAR!NoFrame \/ q = <<>>
  <2>1. z = y BY <1>1, <1>2, <1>4, RoundStops
  <2> QED BY <1>1, <2>1
<1>5. CASE y.victim = CAR!NoFrame /\ q # <<>>
  <2>1. PICK h : h = y.lists.t2Hand % Len(q) OBVIOUS
  <2>2. PICK e : e = q[h + 1] OBVIOUS
  <2>3. Turned2(y, h, e, z)
    <3>1. /\ y \in Search /\ y.victim = CAR!NoFrame /\ y.lists.t2 # <<>>
          /\ h = y.lists.t2Hand % Len(y.lists.t2) /\ e = y.lists.t2[h + 1]
          /\ z = CAR!T2Round(y)
      BY <1>1, <1>2, <1>5, <2>1, <2>2
    <3> QED BY <3>1, Round2Is
  <2>4. /\ h \in 0 .. Len(q) - 1 /\ e \in Entry /\ z \in Search
        /\ z.lists.b1 = y.lists.b1 /\ z.lists.b2 = y.lists.b2 /\ z.lists.t1 = y.lists.t1
    BY <1>2, <2>3 DEF Turned2
  <2>5. PICK k \in 1 .. Len(q) : k = h + 1 BY <1>3, <2>4
  <2>6. PICK Q \in Seq(Pages) : Q = CAR!PagesOf(q) /\ Len(Q) = Len(q) /\ Q[k] = e.page
    BY <1>3, <2>2, <2>5, PagesOfIs
  <2>7. PICK P \in Seq(Pages) : P = CAR!PagesOf(y.lists.t1) BY <1>3, PagesOfIs
  <2>8. Listed(P, Q, y.lists.b1, y.lists.b2, R) BY <1>2, <1>5, <2>6, <2>7 DEF Kept, ListedIn
  <2>9. CASE ~CAR!Candidate(e)
    <3>1. z.victim = CAR!NoFrame /\ z.lists.t2 = q
      BY <1>2, <2>3, <2>9 DEF Turned2
    <3>2. ListedIn(z.lists, R) BY <2>4, <2>6, <2>7, <2>8, <3>1 DEF ListedIn
    <3> QED BY <1>1, <2>4, <3>1, <3>2 DEF Kept
  <2>10. CASE CAR!Candidate(e) /\ e.ref
    <3>1. PICK d : d = [page |-> e.page, ref |-> FALSE] OBVIOUS
    <3>2. d.page = e.page BY <3>1
    <3>3. PICK r : r = z.lists.t2 OBVIOUS
    <3>4. r \in Seq(Entry) BY <2>4, <3>3 DEF Search, CARLists
    <3>5. /\ z.victim = CAR!NoFrame /\ Len(r) = Len(q)
          /\ \A i \in 1 .. Len(q) : r[i] = IF i = h + 1 THEN d ELSE q[i]
      BY <1>2, <2>3, <2>10, <3>1, <3>3 DEF Turned2
    <3>6. \A i \in 1 .. Len(q) : q[i].page = r[i].page BY <2>2, <3>2, <3>5
    <3>7. CAR!PagesOf(r) = Q BY <1>3, <2>6, <3>4, <3>5, <3>6, SamePages
    <3>8. ListedIn(z.lists, R) BY <2>4, <2>7, <2>8, <3>3, <3>7 DEF ListedIn
    <3> QED BY <1>1, <2>4, <3>5, <3>8 DEF Kept
  <2>11. CASE CAR!Candidate(e) /\ ~e.ref
    <3>1. z.victim = CAR!FrameOf(e.page) /\ z.lists.t2 = Without(q, k)
      BY <1>2, <2>3, <2>5, <2>11 DEF Turned2
    <3>2. z.victim # CAR!NoFrame /\ page[z.victim] = e.page BY <2>11, <3>1, CandidateIs
    <3>3. PICK T : T = Without(Q, k) OBVIOUS
    <3>4. /\ T = CAR!PagesOf(Without(q, k)) /\ In(T) \subseteq In(Q)
          /\ Distinct(Q) => Distinct(T) /\ e.page \notin In(T)
      BY <1>3, <2>5, <2>6, <3>3, PagesWithout, WithoutIn
    <3>5. k \in DOMAIN Q BY <2>5, <2>6
    <3>6. e.page \in In(Q) BY <2>6, <3>5 DEF In
    <3>7. Listed(P, T, y.lists.b1, y.lists.b2, R \ {e.page}) BY <2>8, <3>4, <3>6 DEF Listed
    <3>8. ListedIn(z.lists, R \ {e.page}) BY <2>4, <2>7, <3>1, <3>4, <3>7 DEF ListedIn
    <3> QED BY <1>1, <2>4, <3>2, <3>8 DEF Kept
  <2>12. e.ref \in BOOLEAN BY <2>4 DEF Entry
  <2> QED BY <2>9, <2>10, <2>11, <2>12
<1> QED BY <1>4, <1>5

\* Any number of rounds.
LEMMA KeptRounds ==
    ASSUME FramesOK, NEW x \in Search, NEW R, Kept(x, R),
           NEW one \in BOOLEAN, NEW k \in Nat, NEW g, Rounds(one, g, x, k)
    PROVE  g[k] \in Search /\ Kept(g[k], R)
<1>1. g[0] = x /\ \A i \in 0 .. k : i # 0 => g[i] = Round(one, g[i - 1]) BY DEF Rounds
<1> DEFINE S == {i \in 0 .. k : ~(g[i] \in Search /\ Kept(g[i], R))}
<1>2. SUFFICES ASSUME S # {} PROVE FALSE OBVIOUS
<1>3. S \in SUBSET Nat OBVIOUS
<1>4. PICK m \in S : \A i \in S : m <= i BY <1>2, <1>3, LeastNumber
<1>5. m \in 0 .. k /\ m # 0 BY <1>1, <1>4
<1>6. PICK i \in 0 .. k : m = i + 1 BY <1>5
<1>7. i \notin S BY <1>4, <1>6
<1>8. g[i] \in Search /\ Kept(g[i], R) BY <1>7
<1>9. m - 1 = i BY <1>6
<1>10. g[m] = Round(one, g[i]) BY <1>1, <1>5, <1>9
<1>11. g[m] \in Search /\ Kept(g[m], R) BY <1>8, <1>10, Kept1, Kept2 DEF Round
<1> QED BY <1>4, <1>11

\* The whole search.
LEMMA RingedKept ==
    ASSUME FramesOK, car \in CARLists, NEW R, ListedIn(car, R)
    PROVE  Kept(CAR!Ringed, R)
<1>1. PICK x : x = [victim |-> CAR!NoFrame, lists |-> car] OBVIOUS
<1>2. x.victim = CAR!NoFrame /\ x.lists = car BY <1>1
<1>3. x \in Search /\ Kept(x, R) BY <1>1, <1>2 DEF Search, Kept
<1>4. PICK y : y = CAR!T1Search(x) OBVIOUS
<1>5. y \in Search /\ Kept(y, R)
  <2>1. Len(x.lists.t1) \in Nat BY <1>2 DEF CARLists
  <2>2. PICK k \in Nat : k = 2 * Len(x.lists.t1) BY <2>1
  <2>3. PICK g : Rounds(TRUE, g, x, k) /\ y = g[k] BY <1>4, <2>2, SearchIs
  <2> QED BY <1>3, <2>3, KeptRounds
<1>6. PICK z : z = CAR!T2Search(y) OBVIOUS
<1>7. z \in Search /\ Kept(z, R)
  <2>1. Len(y.lists.t2) \in Nat BY <1>5 DEF Search, CARLists
  <2>2. PICK k \in Nat : k = 2 * Len(y.lists.t2) BY <2>1
  <2>3. PICK g : Rounds(FALSE, g, y, k) /\ z = g[k] BY <1>6, <2>2, SearchIs
  <2> QED BY <1>5, <2>3, KeptRounds
<1>8. CAR!Ringed = z BY <1>1, <1>4, <1>6 DEF CAR!Ringed
<1> QED BY <1>7, <1>8

\* No two frames in use have the same page.
Unique == \A f, g \in Used : page[f] = page[g] => f = g

\* SelectVictim takes a frame that can be evicted, if there is one, and without strays
\* the rings do not have its page any more: not even if the rings had no candidate.
LEMMA SelectedIs ==
    ASSUME FramesOK, car \in CARLists
    PROVE  /\ CAR!SelectVictim.lists \in CARLists
           /\ Evictable # {} => CAR!SelectVictim.victim \in Evictable
           /\ Unique /\ ListedIn(car, Resident) =>
                /\ Evictable # {} =>
                     ListedIn(CAR!SelectVictim.lists, Resident \ {page[CAR!SelectVictim.victim]})
                /\ Evictable = {} => ListedIn(CAR!SelectVictim.lists, Resident)
<1>1. PICK x : x = CAR!Ringed OBVIOUS
<1>2. /\ x \in Search
      /\ x.victim # CAR!NoFrame => x.victim \in Evictable
      /\ x.victim = CAR!NoFrame => \A e \in In(car.t1) \cup In(car.t2) : ~CAR!Candidate(e)
  BY <1>1, RingedIs
<1>3. \A R : ListedIn(car, R) => Kept(x, R) BY <1>1, RingedKept
<1>4. x.lists \in CARLists /\ x = [victim |-> x.victim, lists |-> x.lists] BY <1>2 DEF Search
<1>5. CASE ~(x.victim = CAR!NoFrame /\ Evictable # {})
  <2>1. CAR!SelectVictim = x BY <1>1, <1>5, SameFrames DEF CAR!SelectVictim
  <2>2. ASSUME Evictable # {}, ListedIn(car, Resident)
        PROVE  ListedIn(x.lists, Resident \ {page[x.victim]})
    BY <1>3, <1>5, <2>2 DEF Kept
  <2>3. ASSUME Evictable = {}, ListedIn(car, Resident)
        PROVE  ListedIn(x.lists, Resident)
    BY <1>2, <1>3, <2>3 DEF Kept
  <2> QED BY <1>2, <1>4, <1>5, <2>1, <2>2, <2>3
<1>6. CASE x.victim = CAR!NoFrame /\ Evictable # {}
  <2>1. PICK v : v = Lowest(Evictable) OBVIOUS
  <2>2. v \in Evictable
    <3>1. Evictable \in SUBSET Frames BY DEF Evictable, Used
    <3> QED BY <1>6, <2>1, <3>1, LowestIs
  <2>3. PICK s : s = CAR!SelectVictim OBVIOUS
  <2>4. s = [x EXCEPT !.victim = v] BY <1>1, <1>6, <2>1, <2>3, SameFrames DEF CAR!SelectVictim
  <2>5. s = [victim |-> v, lists |-> x.lists] BY <1>4, <2>4
  <2>6. s.victim = v /\ s.lists = x.lists BY <2>5
  <2>7. ASSUME Unique, ListedIn(car, Resident)
        PROVE  ListedIn(x.lists, Resident \ {page[v]})
    <3> DEFINE R == In(CAR!PagesOf(car.t1)) \cup In(CAR!PagesOf(car.t2))
    <3>1. ListedIn(car, R) /\ R \subseteq Resident BY <2>7 DEF ListedIn, Listed
    <3>2. ListedIn(x.lists, R) BY <1>3, <1>6, <3>1 DEF Kept
    <3>3. page[v] \notin R
      <4>1. SUFFICES ASSUME page[v] \in R PROVE FALSE OBVIOUS
      <4>2. PICK e \in In(car.t1) \cup In(car.t2) : e.page = page[v]
        <5>1. car.t1 \in Seq(Entry) /\ car.t2 \in Seq(Entry) BY DEF CARLists
        <5>2. ASSUME NEW q \in Seq(Entry), page[v] \in In(CAR!PagesOf(q))
              PROVE  \E e \in In(q) : e.page = page[v]
          <6>1. PICK P \in Seq(Pages) : /\ P = CAR!PagesOf(q) /\ Len(P) = Len(q)
                                        /\ \A i \in 1 .. Len(q) : P[i] = q[i].page
            BY PagesOfIs
          <6>2. PICK i \in 1 .. Len(q) : page[v] = P[i] BY <5>2, <6>1 DEF In
          <6>3. q[i] \in In(q) BY DEF In
          <6> QED BY <6>1, <6>2, <6>3
        <5> QED BY <4>1, <5>1, <5>2
      <4>3. v \in Used BY <2>2 DEF Evictable
      <4> DEFINE S == {f \in Used : page[f] = e.page}
      <4>4. S = {v} BY <2>7, <4>2, <4>3 DEF Unique
      <4>5. Lowest(S) \in S
        <5>1. S \in SUBSET Frames /\ S # {} BY <4>4, <4>3 DEF Used
        <5> QED BY <5>1, LowestIs
      <4>6. e.page \in Resident BY <4>2, <4>3 DEF Resident
      <4>7. CAR!FrameOf(e.page) = v BY <4>4, <4>5, <4>6, SameFrames DEF CAR!FrameOf
      <4>8. CAR!Candidate(e) BY <2>2, <4>7, SameFrames DEF CAR!Candidate
      <4> QED BY <1>2, <1>6, <4>8
    <3>4. R \subseteq Resident \ {page[v]} BY <3>1, <3>3
    <3> HIDE DEF R
    <3> QED BY <3>2, <3>4 DEF ListedIn, Listed
  <2> QED BY <1>4, <1>6, <2>2, <2>3, <2>6, <2>7
<1> QED BY <1>5, <1>6

-----------------------------------------------------------------------------
(* The operations on the lists of CAR *)

\* Every page that the lists have.
AllOf(L) == In(CAR!PagesOf(L.t1)) \cup In(CAR!PagesOf(L.t2)) \cup In(L.b1) \cup In(L.b2)

\* The fields of the lists.
LEMMA CARFields ==
    ASSUME NEW L \in CARLists
    PROVE  /\ L.t1 \in Seq(Entry) /\ L.t2 \in Seq(Entry) /\ L.b1 \in Seq(Pages) /\ L.b2 \in Seq(Pages)
           /\ L.t1Hand \in Nat /\ L.t2Hand \in Nat /\ L.p \in 0 .. c
           /\ L = [t1 |-> L.t1, t2 |-> L.t2, b1 |-> L.b1, b2 |-> L.b2,
                   t1Hand |-> L.t1Hand, t2Hand |-> L.t2Hand, p |-> L.p]
BY DEF CARLists

\* The pages that are cut from the front of a ring go to a list of ghosts.
LEMMA CutRing ==
    ASSUME NEW q \in Seq(Entry), NEW b \in Seq(Pages), NEW n \in 0 .. Len(q)
    PROVE  LET P == CAR!PagesOf(q)
               Q == CAR!PagesOf(CAR!After(n, q))
               B == CAR!Ghosts(b, q, n)
           IN  /\ CAR!After(n, q) \in Seq(Entry) /\ B \in Seq(Pages)
               /\ In(Q) \subseteq In(P) /\ In(B) \subseteq In(b) \cup In(P)
               /\ Distinct(P) /\ Distinct(b) /\ In(P) \cap In(b) = {} =>
                     Distinct(Q) /\ Distinct(B) /\ In(Q) \cap In(B) = {}
<1>1. PICK P \in Seq(Pages) : P = CAR!PagesOf(q) /\ Len(P) = Len(q) BY PagesOfIs
<1>2. PICK Q : Q = CAR!After(n, P) OBVIOUS
<1>3. CAR!After(n, q) \in Seq(Entry) /\ CAR!PagesOf(CAR!After(n, q)) = Q
  BY <1>1, <1>2, PagesAfter
<1>4. PICK A : A = SubSeq(P, 1, n) OBVIOUS
<1>5. /\ A \in Seq(Pages) /\ Q \in Seq(Pages) /\ In(A) \subseteq In(P) /\ In(Q) \subseteq In(P)
      /\ Distinct(P) => Distinct(A) /\ Distinct(Q) /\ In(A) \cap In(Q) = {}
  BY <1>1, <1>2, <1>4, CutIn
<1>6. PICK C : C = b \o A OBVIOUS
<1>7. /\ C \in Seq(Pages) /\ In(C) = In(b) \cup In(A)
      /\ Distinct(b) /\ Distinct(A) /\ In(b) \cap In(A) = {} => Distinct(C)
  BY <1>5, <1>6, ConcatIn
<1>8. PICK m \in Nat : m = 2 * CAR!c BY CapacityIs, SameFrames
<1>9. PICK B : B = CAR!LastOf(m, C) OBVIOUS
<1>10. /\ B \in Seq(Pages) /\ In(B) \subseteq In(C)
       /\ Distinct(C) => Distinct(B)
  BY <1>7, <1>9, LastOfIn
<1>11. CAR!Ghosts(b, q, n) = B BY <1>1, <1>4, <1>6, <1>8, <1>9 DEF CAR!Ghosts
<1>12. ASSUME Distinct(P), Distinct(b), In(P) \cap In(b) = {}
       PROVE  Distinct(Q) /\ Distinct(B) /\ In(Q) \cap In(B) = {}
  BY <1>5, <1>7, <1>10, <1>12
<1> QED BY <1>1, <1>3, <1>5, <1>7, <1>10, <1>11, <1>12

\* adapt moves pages from the rings to the ghosts.
LEMMA AdaptCAR ==
    ASSUME NEW L \in CARLists
    PROVE  /\ CAR!Adapt(L) \in CARLists /\ AllOf(CAR!Adapt(L)) \subseteq AllOf(L)
           /\ \A R : ListedIn(L, R) => ListedIn(CAR!Adapt(L), R)
<1>1. /\ L.t1 \in Seq(Entry) /\ L.t2 \in Seq(Entry) /\ L.b1 \in Seq(Pages) /\ L.b2 \in Seq(Pages)
      /\ L.t1Hand \in Nat /\ L.t2Hand \in Nat /\ L.p \in 0 .. c
      /\ L = [t1 |-> L.t1, t2 |-> L.t2, b1 |-> L.b1, b2 |-> L.b2,
              t1Hand |-> L.t1Hand, t2Hand |-> L.t2Hand, p |-> L.p]
  BY CARFields
<1>a. Len(L.t1) \in Nat /\ Len(L.t2) \in Nat
  <2>1. L.t1 \in Seq(Entry) /\ L.t2 \in Seq(Entry) BY <1>1
  <2> QED BY <2>1, LenProperties
<1>2. PICK u \in Nat : u = Len(L.t1) BY <1>a
<1>3. PICK v \in Nat : v = Len(L.t2) BY <1>a
<1>4. PICK n1 \in Nat : n1 = CAR!Larger(Len(L.t1) - L.p, 0) /\ n1 <= u /\ u - n1 <= c
  BY <1>1, <1>2, CapacityIs DEF CAR!Larger
<1>5. PICK n \in Nat : n = CAR!Larger(Len(L.t1) - n1 + Len(L.t2) - CAR!c, 0) /\ n <= v
  <2>1. CAR!c = c BY SameFrames
  <2> QED BY <1>2, <1>3, <1>4, <2>1, CapacityIs DEF CAR!Larger
<1>6. PICK n2 \in 0 .. Len(L.t2) : n2 = CAR!Smaller(n, Len(L.t2)) /\ n2 = n
  BY <1>3, <1>5 DEF CAR!Smaller
<1>7. PICK m1 \in 0 .. Len(L.t1) : m1 = n1 + (n - n2) BY <1>2, <1>4, <1>6
<1>8. PICK M : M = CAR!Adapt(L) OBVIOUS
<1>9. M = [L EXCEPT !.t1 = CAR!After(m1, @), !.b1 = CAR!Ghosts(@, L.t1, m1),
                    !.t2 = CAR!After(n2, @), !.b2 = CAR!Ghosts(@, L.t2, n2)]
  BY <1>4, <1>5, <1>6, <1>7, <1>8, Zenon DEF CAR!Adapt
<1>10. PICK T1 : T1 = CAR!After(m1, L.t1) OBVIOUS
<1>11. PICK T2 : T2 = CAR!After(n2, L.t2) OBVIOUS
<1>12. PICK B1 : B1 = CAR!Ghosts(L.b1, L.t1, m1) OBVIOUS
<1>13. PICK B2 : B2 = CAR!Ghosts(L.b2, L.t2, n2) OBVIOUS
<1>14. M = [L EXCEPT !.t1 = T1, !.b1 = B1, !.t2 = T2, !.b2 = B2]
  BY <1>1, <1>9, <1>10, <1>11, <1>12, <1>13
<1>15. M = [t1 |-> T1, t2 |-> T2, b1 |-> B1, b2 |-> B2,
            t1Hand |-> L.t1Hand, t2Hand |-> L.t2Hand, p |-> L.p]
  BY <1>1, <1>14
<1>16. M.t1 = T1 /\ M.t2 = T2 /\ M.b1 = B1 /\ M.b2 = B2 BY <1>15
<1>17. PICK P1 : P1 = CAR!PagesOf(L.t1) OBVIOUS
<1>18. PICK P2 : P2 = CAR!PagesOf(L.t2) OBVIOUS
<1>19. PICK Q1 : Q1 = CAR!PagesOf(T1) OBVIOUS
<1>20. PICK Q2 : Q2 = CAR!PagesOf(T2) OBVIOUS
<1>21. /\ T1 \in Seq(Entry) /\ B1 \in Seq(Pages)
       /\ In(Q1) \subseteq In(P1) /\ In(B1) \subseteq In(L.b1) \cup In(P1)
       /\ Distinct(P1) /\ Distinct(L.b1) /\ In(P1) \cap In(L.b1) = {} =>
             Distinct(Q1) /\ Distinct(B1) /\ In(Q1) \cap In(B1) = {}
  BY <1>1, <1>10, <1>12, <1>17, <1>19, CutRing
<1>22. /\ T2 \in Seq(Entry) /\ B2 \in Seq(Pages)
       /\ In(Q2) \subseteq In(P2) /\ In(B2) \subseteq In(L.b2) \cup In(P2)
       /\ Distinct(P2) /\ Distinct(L.b2) /\ In(P2) \cap In(L.b2) = {} =>
             Distinct(Q2) /\ Distinct(B2) /\ In(Q2) \cap In(B2) = {}
  BY <1>1, <1>11, <1>13, <1>18, <1>20, CutRing
<1>23. M \in CARLists BY <1>1, <1>15, <1>21, <1>22 DEF CARLists
<1>24. AllOf(M) \subseteq AllOf(L) BY <1>16, <1>17, <1>18, <1>19, <1>20, <1>21, <1>22 DEF AllOf
<1>25. ASSUME NEW R, ListedIn(L, R) PROVE ListedIn(M, R)
  <2>1. Listed(P1, P2, L.b1, L.b2, R) BY <1>17, <1>18, <1>25 DEF ListedIn
  <2>2. Listed(Q1, Q2, B1, B2, R) BY <1>21, <1>22, <2>1 DEF Listed
  <2> QED BY <1>16, <1>19, <1>20, <2>2 DEF ListedIn
<1> QED BY <1>8, <1>23, <1>24, <1>25

\* A new entry at the end of T1 or of T2.
LEMMA EnterRing ==
    ASSUME NEW L \in CARLists, NEW pg \in Pages
    PROVE  LET M == [L EXCEPT !.t1 = @ \o CAR!NewEntry(pg)]
               N == [L EXCEPT !.t2 = @ \o CAR!NewEntry(pg)]
           IN  /\ M \in CARLists /\ N \in CARLists
               /\ \A R : ListedIn(L, R) /\ pg \notin AllOf(L) =>
                     ListedIn(M, R \cup {pg}) /\ ListedIn(N, R \cup {pg})
<1>1. /\ L.t1 \in Seq(Entry) /\ L.t2 \in Seq(Entry) /\ L.b1 \in Seq(Pages) /\ L.b2 \in Seq(Pages)
      /\ L.t1Hand \in Nat /\ L.t2Hand \in Nat /\ L.p \in 0 .. c
      /\ L = [t1 |-> L.t1, t2 |-> L.t2, b1 |-> L.b1, b2 |-> L.b2,
              t1Hand |-> L.t1Hand, t2Hand |-> L.t2Hand, p |-> L.p]
  BY CARFields
<1>2. PICK e \in Entry : e.page = pg /\ CAR!NewEntry(pg) = <<e>>
  <2>1. [page |-> pg, ref |-> TRUE] \in Entry BY DEF Entry
  <2> QED BY <2>1 DEF CAR!NewEntry
<1>3. PICK T : T = L.t1 \o <<e>> OBVIOUS
<1>4. PICK U : U = L.t2 \o <<e>> OBVIOUS
<1>5. PICK M : M = [L EXCEPT !.t1 = @ \o CAR!NewEntry(pg)] OBVIOUS
<1>6. PICK N : N = [L EXCEPT !.t2 = @ \o CAR!NewEntry(pg)] OBVIOUS
<1>7. M = [L EXCEPT !.t1 = T] BY <1>1, <1>2, <1>3, <1>5
<1>8. N = [L EXCEPT !.t2 = U] BY <1>1, <1>2, <1>4, <1>6
<1>9. M = [t1 |-> T, t2 |-> L.t2, b1 |-> L.b1, b2 |-> L.b2,
           t1Hand |-> L.t1Hand, t2Hand |-> L.t2Hand, p |-> L.p]
  BY <1>1, <1>7
<1>10. N = [t1 |-> L.t1, t2 |-> U, b1 |-> L.b1, b2 |-> L.b2,
            t1Hand |-> L.t1Hand, t2Hand |-> L.t2Hand, p |-> L.p]
  BY <1>1, <1>8
<1>11. PICK P \in Seq(Pages) : P = CAR!PagesOf(L.t1) BY <1>1, PagesOfIs
<1>12. PICK Q \in Seq(Pages) : Q = CAR!PagesOf(L.t2) BY <1>1, PagesOfIs
<1>13. T \in Seq(Entry) /\ CAR!PagesOf(T) = P \o <<pg>> BY <1>1, <1>2, <1>3, <1>11, PagesAppend
<1>14. U \in Seq(Entry) /\ CAR!PagesOf(U) = Q \o <<pg>> BY <1>1, <1>2, <1>4, <1>12, PagesAppend
<1>15. M \in CARLists BY <1>1, <1>9, <1>13 DEF CARLists
<1>16. N \in CARLists BY <1>1, <1>10, <1>14 DEF CARLists
<1>17. /\ In(P \o <<pg>>) = In(P) \cup {pg}
       /\ Distinct(P) /\ pg \notin In(P) => Distinct(P \o <<pg>>)
  BY AtEnd
<1>18. /\ In(Q \o <<pg>>) = In(Q) \cup {pg}
       /\ Distinct(Q) /\ pg \notin In(Q) => Distinct(Q \o <<pg>>)
  BY AtEnd
<1>19. M.t1 = T /\ M.t2 = L.t2 /\ M.b1 = L.b1 /\ M.b2 = L.b2 BY <1>9
<1>20. N.t1 = L.t1 /\ N.t2 = U /\ N.b1 = L.b1 /\ N.b2 = L.b2 BY <1>10
<1>21. ASSUME NEW R, ListedIn(L, R), pg \notin AllOf(L)
       PROVE  ListedIn(M, R \cup {pg}) /\ ListedIn(N, R \cup {pg})
  <2>1. Listed(P, Q, L.b1, L.b2, R) BY <1>11, <1>12, <1>21 DEF ListedIn
  <2>2. pg \notin In(P) \cup In(Q) \cup In(L.b1) \cup In(L.b2)
    BY <1>11, <1>12, <1>21 DEF AllOf
  <2>3. Listed(P \o <<pg>>, Q, L.b1, L.b2, R \cup {pg}) BY <1>17, <2>1, <2>2 DEF Listed
  <2>4. Listed(P, Q \o <<pg>>, L.b1, L.b2, R \cup {pg}) BY <1>18, <2>1, <2>2 DEF Listed
  <2> QED BY <1>11, <1>12, <1>13, <1>14, <1>19, <1>20, <2>3, <2>4 DEF ListedIn
<1> QED BY <1>5, <1>6, <1>15, <1>16, <1>21

\* CAR removes a ghost as ARC does.
LEMMA SameForget ==
    ASSUME NEW b, NEW pg, pg \in In(b)
    PROVE  CAR!Forget(b, pg) = Forget(b, pg)
<1>1. CAR!Forget(b, pg) = CAR!Without(b, FirstAt(b, pg)) BY DEF CAR!Forget, FirstAt
<1> QED BY <1>1, SameWithout DEF Forget

\* A page leaves the ghosts, and the target may change: no list has the page any more.
LEMMA GhostLeaves ==
    ASSUME NEW L \in CARLists, NEW pg \in Pages, NEW k \in 0 .. c,
           NEW M, M = [t1 |-> L.t1, t2 |-> L.t2, b1 |-> Forget(L.b1, pg), b2 |-> L.b2,
                       t1Hand |-> L.t1Hand, t2Hand |-> L.t2Hand, p |-> k],
           NEW N, N = [t1 |-> L.t1, t2 |-> L.t2, b1 |-> L.b1, b2 |-> Forget(L.b2, pg),
                       t1Hand |-> L.t1Hand, t2Hand |-> L.t2Hand, p |-> k]
    PROVE  /\ M \in CARLists /\ N \in CARLists
           /\ \A R : ListedIn(L, R) /\ pg \in In(L.b1) => ListedIn(M, R) /\ pg \notin AllOf(M)
           /\ \A R : ListedIn(L, R) /\ pg \in In(L.b2) => ListedIn(N, R) /\ pg \notin AllOf(N)
<1>1. /\ L.t1 \in Seq(Entry) /\ L.t2 \in Seq(Entry) /\ L.b1 \in Seq(Pages) /\ L.b2 \in Seq(Pages)
      /\ L.t1Hand \in Nat /\ L.t2Hand \in Nat
  BY CARFields
<1>2. PICK B : B = Forget(L.b1, pg) OBVIOUS
<1>3. PICK D : D = Forget(L.b2, pg) OBVIOUS
<1>4. /\ B \in Seq(Pages) /\ In(B) \subseteq In(L.b1)
      /\ Distinct(L.b1) => Distinct(B) /\ pg \notin In(B)
  BY <1>1, <1>2, ForgetIs
<1>5. /\ D \in Seq(Pages) /\ In(D) \subseteq In(L.b2)
      /\ Distinct(L.b2) => Distinct(D) /\ pg \notin In(D)
  BY <1>1, <1>3, ForgetIs
<1>6. M \in CARLists BY <1>1, <1>2, <1>4 DEF CARLists
<1>7. N \in CARLists BY <1>1, <1>3, <1>5 DEF CARLists
<1>8. M.t1 = L.t1 /\ M.t2 = L.t2 /\ M.b1 = B /\ M.b2 = L.b2 BY <1>2
<1>9. N.t1 = L.t1 /\ N.t2 = L.t2 /\ N.b1 = L.b1 /\ N.b2 = D BY <1>3
<1>10. PICK P : P = CAR!PagesOf(L.t1) OBVIOUS
<1>11. PICK Q : Q = CAR!PagesOf(L.t2) OBVIOUS
<1>12. ASSUME NEW R, ListedIn(L, R), pg \in In(L.b1)
       PROVE  ListedIn(M, R) /\ pg \notin AllOf(M)
  <2>1. Listed(P, Q, L.b1, L.b2, R) BY <1>10, <1>11, <1>12 DEF ListedIn
  <2>2. Listed(P, Q, B, L.b2, R) BY <1>4, <2>1 DEF Listed
  <2>3. pg \notin In(P) \cup In(Q) \cup In(B) \cup In(L.b2) BY <1>4, <1>12, <2>1 DEF Listed
  <2> QED BY <1>8, <1>10, <1>11, <2>2, <2>3 DEF ListedIn, AllOf
<1>13. ASSUME NEW R, ListedIn(L, R), pg \in In(L.b2)
       PROVE  ListedIn(N, R) /\ pg \notin AllOf(N)
  <2>1. Listed(P, Q, L.b1, L.b2, R) BY <1>10, <1>11, <1>13 DEF ListedIn
  <2>2. Listed(P, Q, L.b1, D, R) BY <1>5, <2>1 DEF Listed
  <2>3. pg \notin In(P) \cup In(Q) \cup In(L.b1) \cup In(D) BY <1>5, <1>13, <2>1 DEF Listed
  <2> QED BY <1>9, <1>10, <1>11, <2>2, <2>3 DEF ListedIn, AllOf
<1> QED BY <1>6, <1>7, <1>12, <1>13

\* A page that is in no list enters T1 or T2, and adapt runs.
LEMMA EnterAdapted ==
    ASSUME NEW L \in CARLists, NEW pg \in Pages,
           NEW X, \/ X = [L EXCEPT !.t1 = @ \o CAR!NewEntry(pg)]
                  \/ X = [L EXCEPT !.t2 = @ \o CAR!NewEntry(pg)]
    PROVE  /\ CAR!Adapt(X) \in CARLists
           /\ \A R : ListedIn(L, R) /\ pg \notin AllOf(L) => ListedIn(CAR!Adapt(X), R \cup {pg})
<1>1. /\ X \in CARLists
      /\ \A R : ListedIn(L, R) /\ pg \notin AllOf(L) => ListedIn(X, R \cup {pg})
  BY EnterRing
<1>2. CAR!Adapt(X) \in CARLists /\ \A R : ListedIn(X, R) => ListedIn(CAR!Adapt(X), R)
  BY <1>1, AdaptCAR
<1> QED BY <1>1, <1>2

\* A fault of a page that is not resident.
LEMMA FaultRings ==
    ASSUME NEW L \in CARLists, NEW pg \in Pages
    PROVE  /\ CAR!OnPageFault(L, pg) \in CARLists
           /\ \A R : ListedIn(L, R) /\ pg \notin R =>
                 ListedIn(CAR!OnPageFault(L, pg), R \cup {pg})
<1>1. /\ L.t1 \in Seq(Entry) /\ L.t2 \in Seq(Entry) /\ L.b1 \in Seq(Pages) /\ L.b2 \in Seq(Pages)
      /\ L.t1Hand \in Nat /\ L.t2Hand \in Nat /\ L.p \in 0 .. c
      /\ L = [t1 |-> L.t1, t2 |-> L.t2, b1 |-> L.b1, b2 |-> L.b2,
              t1Hand |-> L.t1Hand, t2Hand |-> L.t2Hand, p |-> L.p]
  BY CARFields
<1>2. PICK B : B = Forget(L.b1, pg) OBVIOUS
<1>3. PICK D : D = Forget(L.b2, pg) OBVIOUS
<1>4. PICK U : U = L.t2 \o CAR!NewEntry(pg) OBVIOUS
<1>5. PICK M : M = [t1 |-> L.t1, t2 |-> L.t2, b1 |-> B, b2 |-> L.b2,
                    t1Hand |-> L.t1Hand, t2Hand |-> L.t2Hand, p |-> L.p]
  OBVIOUS
<1>6. PICK N : N = [t1 |-> L.t1, t2 |-> L.t2, b1 |-> L.b1, b2 |-> D,
                    t1Hand |-> L.t1Hand, t2Hand |-> L.t2Hand, p |-> L.p]
  OBVIOUS
<1>7. /\ M \in CARLists /\ N \in CARLists
      /\ \A R : ListedIn(L, R) /\ pg \in In(L.b1) => ListedIn(M, R) /\ pg \notin AllOf(M)
      /\ \A R : ListedIn(L, R) /\ pg \in In(L.b2) => ListedIn(N, R) /\ pg \notin AllOf(N)
  BY <1>1, <1>2, <1>3, <1>5, <1>6, GhostLeaves
<1>8. CASE pg \in In(L.b1)
  <2>1. PICK X : X = [L EXCEPT !.b1 = CAR!Forget(@, pg), !.t2 = @ \o CAR!NewEntry(pg)] OBVIOUS
  <2>2. CAR!OnPageFault(L, pg) = CAR!Adapt(X) BY <1>8, <2>1, SameFrames DEF CAR!OnPageFault
  <2>3. X = [L EXCEPT !.b1 = B, !.t2 = U] BY <1>1, <1>2, <1>4, <1>8, <2>1, SameForget
  <2>4. X = [t1 |-> L.t1, t2 |-> U, b1 |-> B, b2 |-> L.b2,
             t1Hand |-> L.t1Hand, t2Hand |-> L.t2Hand, p |-> L.p]
    BY <1>1, <2>3
  <2>5. PICK Y : Y = [M EXCEPT !.t2 = @ \o CAR!NewEntry(pg)] OBVIOUS
  <2>6. Y = [M EXCEPT !.t2 = U] BY <1>4, <1>5, <2>5
  <2>7. Y = [t1 |-> L.t1, t2 |-> U, b1 |-> B, b2 |-> L.b2,
             t1Hand |-> L.t1Hand, t2Hand |-> L.t2Hand, p |-> L.p]
    BY <1>5, <2>6
  <2>8. X = [M EXCEPT !.t2 = @ \o CAR!NewEntry(pg)] BY <2>4, <2>5, <2>7
  <2>9. /\ CAR!Adapt(X) \in CARLists
        /\ \A R : ListedIn(M, R) /\ pg \notin AllOf(M) => ListedIn(CAR!Adapt(X), R \cup {pg})
    BY <1>7, <2>8, EnterAdapted
  <2> QED BY <1>7, <1>8, <2>2, <2>9
<1>9. CASE pg \notin In(L.b1) /\ pg \in In(L.b2)
  <2>1. PICK X : X = [L EXCEPT !.b2 = CAR!Forget(@, pg), !.t2 = @ \o CAR!NewEntry(pg)] OBVIOUS
  <2>2. CAR!OnPageFault(L, pg) = CAR!Adapt(X) BY <1>9, <2>1, SameFrames DEF CAR!OnPageFault
  <2>3. X = [L EXCEPT !.b2 = D, !.t2 = U] BY <1>1, <1>3, <1>4, <1>9, <2>1, SameForget
  <2>4. X = [t1 |-> L.t1, t2 |-> U, b1 |-> L.b1, b2 |-> D,
             t1Hand |-> L.t1Hand, t2Hand |-> L.t2Hand, p |-> L.p]
    BY <1>1, <2>3
  <2>5. PICK Y : Y = [N EXCEPT !.t2 = @ \o CAR!NewEntry(pg)] OBVIOUS
  <2>6. Y = [N EXCEPT !.t2 = U] BY <1>4, <1>6, <2>5
  <2>7. Y = [t1 |-> L.t1, t2 |-> U, b1 |-> L.b1, b2 |-> D,
             t1Hand |-> L.t1Hand, t2Hand |-> L.t2Hand, p |-> L.p]
    BY <1>6, <2>6
  <2>8. X = [N EXCEPT !.t2 = @ \o CAR!NewEntry(pg)] BY <2>4, <2>5, <2>7
  <2>9. /\ CAR!Adapt(X) \in CARLists
        /\ \A R : ListedIn(N, R) /\ pg \notin AllOf(N) => ListedIn(CAR!Adapt(X), R \cup {pg})
    BY <1>7, <2>8, EnterAdapted
  <2> QED BY <1>7, <1>9, <2>2, <2>9
<1>10. CASE pg \notin In(L.b1) /\ pg \notin In(L.b2)
  <2>1. PICK X : X = [L EXCEPT !.t1 = @ \o CAR!NewEntry(pg)] OBVIOUS
  <2>2. CAR!OnPageFault(L, pg) = CAR!Adapt(X) BY <1>10, <2>1, SameFrames DEF CAR!OnPageFault
  <2>3. /\ CAR!Adapt(X) \in CARLists
        /\ \A R : ListedIn(L, R) /\ pg \notin AllOf(L) => ListedIn(CAR!Adapt(X), R \cup {pg})
    BY <2>1, EnterAdapted
  <2>4. \A R : ListedIn(L, R) /\ pg \notin R => pg \notin AllOf(L)
    BY <1>10 DEF ListedIn, Listed, AllOf
  <2> QED BY <2>2, <2>3, <2>4
<1> QED BY <1>8, <1>9, <1>10

\* An entry of a ring is referenced: the pages stay where they are.
LEMMA TouchIs ==
    ASSUME NEW q \in Seq(Entry), NEW pg, CAR!Tracks(q, pg)
    PROVE  CAR!Touch(q, pg) \in Seq(Entry) /\ CAR!PagesOf(CAR!Touch(q, pg)) = CAR!PagesOf(q)
<1>1. PICK P \in Seq(Pages) : /\ P = CAR!PagesOf(q) /\ Len(P) = Len(q)
                              /\ \A i \in 1 .. Len(q) : P[i] = q[i].page
  BY PagesOfIs
<1>2. DOMAIN q = 1 .. Len(q) /\ DOMAIN P = 1 .. Len(q) /\ Len(q) \in Nat BY <1>1
<1>3. pg \in In(P) BY <1>1, SameFrames DEF CAR!Tracks
<1> DEFINE T == {i \in 1 .. Len(q) : q[i].page = pg}
<1>4. T # {} BY <1>1, <1>2, <1>3 DEF In
<1>5. T \in SUBSET Nat OBVIOUS
<1>6. PICK i \in T : \A j \in T : i <= j BY <1>4, <1>5, LeastNumber
<1>7. i \in DOMAIN q /\ q[i].page = pg /\ \A j \in 1 .. i - 1 : q[j].page # pg
  BY <1>2, <1>6
<1>8. PICK k \in DOMAIN q :
        k = CHOOSE i1 \in DOMAIN q : q[i1].page = pg /\ \A j \in 1 .. i1 - 1 : q[j].page # pg
  BY <1>7, Zenon
<1>9. CAR!Touch(q, pg) = [q EXCEPT ![k].ref = TRUE] BY <1>8, Zenon DEF CAR!Touch
<1>10. q[k] \in Entry /\ k \in 1 .. Len(q) BY <1>2, <1>8
<1>11. PICK e : e = [q[k] EXCEPT !.ref = TRUE] OBVIOUS
<1>12. e \in Entry /\ e.page = q[k].page BY <1>10, <1>11 DEF Entry
<1>13. PICK r : r = [q EXCEPT ![k].ref = TRUE] OBVIOUS
<1>14. r = [q EXCEPT ![k] = e] BY <1>11, <1>13
<1>15. /\ r \in Seq(Entry) /\ Len(r) = Len(q)
       /\ \A j \in 1 .. Len(q) : r[j] = IF j = k THEN e ELSE q[j]
  BY <1>10, <1>12, <1>14
<1>16. \A j \in 1 .. Len(r) : r[j].page = q[j].page BY <1>12, <1>15
<1>17. CAR!PagesOf(r) = CAR!PagesOf(q) BY <1>15, <1>16, SamePages
<1> QED BY <1>9, <1>13, <1>15, <1>17

\* The target moves by a positive number.
LEMMA DeltaCAR ==
    ASSUME NEW m \in Nat, NEW n \in Nat
    PROVE  CAR!Delta(m, n) \in Nat
<1>1. PICK d \in Nat \ {0} : d = CAR!Larger(1, n) BY DEF CAR!Larger
<1>2. PICK e \in Nat : e = m \div d BY <1>1
<1>3. CAR!Larger(1, e) \in Nat BY DEF CAR!Larger
<1> QED BY <1>1, <1>2, <1>3 DEF CAR!Delta

\* The page enters T2 after adapt.
LEMMA PromoteRings ==
    ASSUME NEW L \in CARLists, NEW pg \in Pages
    PROVE  /\ CAR!Promote(L, pg) \in CARLists
           /\ \A R : ListedIn(L, R) /\ pg \notin AllOf(L) =>
                 ListedIn(CAR!Promote(L, pg), R \cup {pg})
<1>1. PICK N : N = CAR!Adapt(L) OBVIOUS
<1>2. /\ N \in CARLists /\ AllOf(N) \subseteq AllOf(L)
      /\ \A R : ListedIn(L, R) => ListedIn(N, R)
  BY <1>1, AdaptCAR
<1>3. PICK X : X = [N EXCEPT !.t2 = @ \o CAR!NewEntry(pg)] OBVIOUS
<1>4. /\ X \in CARLists
      /\ \A R : ListedIn(N, R) /\ pg \notin AllOf(N) => ListedIn(X, R \cup {pg})
  BY <1>2, <1>3, EnterRing
<1>5. CAR!Promote(L, pg) = X BY <1>1, <1>3 DEF CAR!Promote
<1> QED BY <1>2, <1>4, <1>5

\* A hit of a resident page, in whichever list it is.
LEMMA AccessRings ==
    ASSUME NEW L \in CARLists, NEW pg \in Pages
    PROVE  /\ CAR!OnPageAccess(L, pg) \in CARLists
           /\ \A R : ListedIn(L, R) /\ pg \in R => ListedIn(CAR!OnPageAccess(L, pg), R)
<1>1. /\ L.t1 \in Seq(Entry) /\ L.t2 \in Seq(Entry) /\ L.b1 \in Seq(Pages) /\ L.b2 \in Seq(Pages)
      /\ L.t1Hand \in Nat /\ L.t2Hand \in Nat /\ L.p \in 0 .. c
      /\ L = [t1 |-> L.t1, t2 |-> L.t2, b1 |-> L.b1, b2 |-> L.b2,
              t1Hand |-> L.t1Hand, t2Hand |-> L.t2Hand, p |-> L.p]
  BY CARFields
<1>2. PICK A : A = CAR!OnPageAccess(L, pg) OBVIOUS
<1>3. CASE CAR!Tracks(L.t1, pg)
  <2>1. A = [L EXCEPT !.t1 = CAR!Touch(@, pg)] BY <1>2, <1>3 DEF CAR!OnPageAccess
  <2>2. PICK T : T = CAR!Touch(L.t1, pg) OBVIOUS
  <2>3. T \in Seq(Entry) /\ CAR!PagesOf(T) = CAR!PagesOf(L.t1) BY <1>1, <1>3, <2>2, TouchIs
  <2>4. A = [L EXCEPT !.t1 = T] BY <1>1, <2>1, <2>2
  <2>5. A = [t1 |-> T, t2 |-> L.t2, b1 |-> L.b1, b2 |-> L.b2,
             t1Hand |-> L.t1Hand, t2Hand |-> L.t2Hand, p |-> L.p]
    BY <1>1, <2>4
  <2>6. A \in CARLists BY <1>1, <2>3, <2>5 DEF CARLists
  <2>7. A.t1 = T /\ A.t2 = L.t2 /\ A.b1 = L.b1 /\ A.b2 = L.b2 BY <2>5
  <2> QED BY <1>2, <2>3, <2>6, <2>7 DEF ListedIn
<1>4. CASE ~CAR!Tracks(L.t1, pg) /\ CAR!Tracks(L.t2, pg)
  <2>1. A = [L EXCEPT !.t2 = CAR!Touch(@, pg)] BY <1>2, <1>4 DEF CAR!OnPageAccess
  <2>2. PICK T : T = CAR!Touch(L.t2, pg) OBVIOUS
  <2>3. T \in Seq(Entry) /\ CAR!PagesOf(T) = CAR!PagesOf(L.t2) BY <1>1, <1>4, <2>2, TouchIs
  <2>4. A = [L EXCEPT !.t2 = T] BY <1>1, <2>1, <2>2
  <2>5. A = [t1 |-> L.t1, t2 |-> T, b1 |-> L.b1, b2 |-> L.b2,
             t1Hand |-> L.t1Hand, t2Hand |-> L.t2Hand, p |-> L.p]
    BY <1>1, <2>4
  <2>6. A \in CARLists BY <1>1, <2>3, <2>5 DEF CARLists
  <2>7. A.t1 = L.t1 /\ A.t2 = T /\ A.b1 = L.b1 /\ A.b2 = L.b2 BY <2>5
  <2> QED BY <1>2, <2>3, <2>6, <2>7 DEF ListedIn
<1>5. ~CAR!Tracks(L.t1, pg) /\ ~CAR!Tracks(L.t2, pg) =>
         pg \notin In(CAR!PagesOf(L.t1)) \cup In(CAR!PagesOf(L.t2))
  BY SameFrames DEF CAR!Tracks
<1>6. Len(L.b1) \in Nat /\ Len(L.b2) \in Nat BY <1>1
<1>7. \A R : pg \in R => R \cup {pg} = R OBVIOUS
<1>8. CASE ~CAR!Tracks(L.t1, pg) /\ ~CAR!Tracks(L.t2, pg) /\ pg \in In(L.b1)
  <2>1. PICK X : X = [L EXCEPT !.p = CAR!Smaller(@ + CAR!Delta(Len(L.b1), Len(L.b2)), CAR!c),
                               !.b1 = CAR!Forget(@, pg)]
    OBVIOUS
  <2>2. A = CAR!Promote(X, pg) BY <1>2, <1>8, <2>1, SameFrames DEF CAR!OnPageAccess
  <2>3. PICK d \in Nat : d = CAR!Delta(Len(L.b1), Len(L.b2)) BY <1>6, DeltaCAR
  <2>4. PICK k \in 0 .. c : k = CAR!Smaller(L.p + CAR!Delta(Len(L.b1), Len(L.b2)), CAR!c)
    BY <1>1, <2>3, CapacityIs, SameFrames DEF CAR!Smaller
  <2>5. PICK B : B = Forget(L.b1, pg) OBVIOUS
  <2>6. X = [L EXCEPT !.p = k, !.b1 = B] BY <1>1, <1>8, <2>1, <2>4, <2>5, SameForget
  <2>7. X = [t1 |-> L.t1, t2 |-> L.t2, b1 |-> B, b2 |-> L.b2,
             t1Hand |-> L.t1Hand, t2Hand |-> L.t2Hand, p |-> k]
    BY <1>1, <2>6
  <2>8. PICK N : N = [t1 |-> L.t1, t2 |-> L.t2, b1 |-> L.b1, b2 |-> Forget(L.b2, pg),
                      t1Hand |-> L.t1Hand, t2Hand |-> L.t2Hand, p |-> k]
    OBVIOUS
  <2>9. X \in CARLists /\ \A R : ListedIn(L, R) => ListedIn(X, R) /\ pg \notin AllOf(X)
    BY <1>8, <2>5, <2>7, <2>8, GhostLeaves
  <2>10. /\ CAR!Promote(X, pg) \in CARLists
         /\ \A R : ListedIn(X, R) /\ pg \notin AllOf(X) =>
               ListedIn(CAR!Promote(X, pg), R \cup {pg})
    BY <2>9, PromoteRings
  <2> QED BY <1>2, <1>7, <2>2, <2>9, <2>10
<1>9. CASE /\ ~CAR!Tracks(L.t1, pg) /\ ~CAR!Tracks(L.t2, pg)
           /\ pg \notin In(L.b1) /\ pg \in In(L.b2)
  <2>1. PICK X : X = [L EXCEPT !.p = CAR!Larger(@ - CAR!Delta(Len(L.b2), Len(L.b1)), 0),
                               !.b2 = CAR!Forget(@, pg)]
    OBVIOUS
  <2>2. A = CAR!Promote(X, pg) BY <1>2, <1>9, <2>1, SameFrames DEF CAR!OnPageAccess
  <2>3. PICK d \in Nat : d = CAR!Delta(Len(L.b2), Len(L.b1)) BY <1>6, DeltaCAR
  <2>4. PICK k \in 0 .. c : k = CAR!Larger(L.p - CAR!Delta(Len(L.b2), Len(L.b1)), 0)
    BY <1>1, <2>3, CapacityIs DEF CAR!Larger
  <2>5. PICK D : D = Forget(L.b2, pg) OBVIOUS
  <2>6. X = [L EXCEPT !.p = k, !.b2 = D] BY <1>1, <1>9, <2>1, <2>4, <2>5, SameForget
  <2>7. X = [t1 |-> L.t1, t2 |-> L.t2, b1 |-> L.b1, b2 |-> D,
             t1Hand |-> L.t1Hand, t2Hand |-> L.t2Hand, p |-> k]
    BY <1>1, <2>6
  <2>8. PICK M : M = [t1 |-> L.t1, t2 |-> L.t2, b1 |-> Forget(L.b1, pg), b2 |-> L.b2,
                      t1Hand |-> L.t1Hand, t2Hand |-> L.t2Hand, p |-> k]
    OBVIOUS
  <2>9. X \in CARLists /\ \A R : ListedIn(L, R) => ListedIn(X, R) /\ pg \notin AllOf(X)
    BY <1>9, <2>5, <2>7, <2>8, GhostLeaves
  <2>10. /\ CAR!Promote(X, pg) \in CARLists
         /\ \A R : ListedIn(X, R) /\ pg \notin AllOf(X) =>
               ListedIn(CAR!Promote(X, pg), R \cup {pg})
    BY <2>9, PromoteRings
  <2> QED BY <1>2, <1>7, <2>2, <2>9, <2>10
<1>10. CASE /\ ~CAR!Tracks(L.t1, pg) /\ ~CAR!Tracks(L.t2, pg)
            /\ pg \notin In(L.b1) /\ pg \notin In(L.b2)
  <2>1. PICK X : X = [L EXCEPT !.t1 = @ \o CAR!NewEntry(pg)] OBVIOUS
  <2>2. A = CAR!Adapt(X) BY <1>2, <1>10, <2>1, SameFrames DEF CAR!OnPageAccess
  <2>3. /\ CAR!Adapt(X) \in CARLists
        /\ \A R : ListedIn(L, R) /\ pg \notin AllOf(L) => ListedIn(CAR!Adapt(X), R \cup {pg})
    BY <2>1, EnterAdapted
  <2>4. pg \notin AllOf(L) BY <1>5, <1>10 DEF AllOf
  <2> QED BY <1>2, <1>7, <2>2, <2>3, <2>4
<1> QED BY <1>3, <1>4, <1>8, <1>9, <1>10

\* A new CAR has empty lists.
LEMMA NewIs == CAR!NewCAR \in CARLists /\ \A R : ListedIn(CAR!NewCAR, R)
<1>1. PICK L : L = CAR!NewCAR OBVIOUS
<1>2. PICK k \in 0 .. c : k = CAR!c \div 2
  <2>1. CAR!c \in Nat /\ c = CAR!c BY CapacityIs, SameFrames
  <2> QED BY <2>1
<1>3. L = [t1 |-> <<>>, t2 |-> <<>>, b1 |-> <<>>, b2 |-> <<>>,
           t1Hand |-> 0, t2Hand |-> 0, p |-> k]
  BY <1>1, <1>2 DEF CAR!NewCAR
<1>4. <<>> \in Seq(Entry) /\ <<>> \in Seq(Pages) OBVIOUS
<1>5. L \in CARLists BY <1>3, <1>4 DEF CARLists
<1>6. L.t1 = <<>> /\ L.t2 = <<>> /\ L.b1 = <<>> /\ L.b2 = <<>> BY <1>3
<1>7. CAR!PagesOf(<<>>) = <<>> BY DEF CAR!PagesOf
<1>8. In(<<>>) = {} /\ Distinct(<<>>) BY DEF In, Distinct
<1>9. \A R : ListedIn(L, R) BY <1>6, <1>7, <1>8 DEF ListedIn, Listed
<1> QED BY <1>1, <1>5, <1>9

-----------------------------------------------------------------------------
(* The invariant of CAR *)

\* The lists of CAR have their types; without strays, no page is in two frames, or in
\* two lists, and the rings hold resident pages; while ARC is in use they are new.
CARInv ==
    /\ car \in CARLists
    /\ ~stray => Unique /\ ListedIn(car, Resident)
    /\ alg = "ARC" => car = CAR!NewCAR

\* Any pages of which the lists were sound may be joined by others.
LEMMA ListedWidens ==
    ASSUME NEW L, NEW R, NEW Q, R \subseteq Q, ListedIn(L, R)
    PROVE  ListedIn(L, Q)
BY DEF ListedIn, Listed

\* The conclusion of every step.
LEMMA SoundRings ==
    ASSUME NEW M, M \in CARLists, car' = M,
           ~stray' => Unique' /\ ListedIn(M, Resident'),
           alg' = "ARC" => M = CAR!NewCAR
    PROVE  CARInv'
<1>1. (car \in CARLists)' BY DEF CARLists, Entry, c
<1>2. ASSUME ~stray' PROVE ListedIn(car, Resident)'
  <2>1. Listed(CAR!PagesOf(M.t1), CAR!PagesOf(M.t2), M.b1, M.b2, Resident')
    BY <1>2 DEF ListedIn
  <2>2. PICK P1 : P1 = CAR!PagesOf(M.t1) OBVIOUS
  <2>3. PICK P2 : P2 = CAR!PagesOf(M.t2) OBVIOUS
  <2>4. CAR!PagesOf(car.t1)' = P1 BY <2>2 DEF CAR!PagesOf
  <2>5. CAR!PagesOf(car.t2)' = P2 BY <2>3 DEF CAR!PagesOf
  <2>6. Listed(P1, P2, M.b1, M.b2, Resident)'
    BY <2>1, <2>2, <2>3 DEF Listed, Distinct, In
  <2> QED BY <2>4, <2>5, <2>6 DEF ListedIn, Listed, Distinct, In
<1>3. CAR!NewCAR' = CAR!NewCAR BY DEF CAR!NewCAR, CAR!c
<1> QED BY <1>1, <1>2, <1>3 DEF CARInv

\* A page that is not resident is loaded: its frame is the only one that has it.
LEMMA LoadedOnce ==
    ASSUME FramesOK, NEW f \in Frames, NEW pg \in Pages, page' = [page EXCEPT ![f] = pg],
           pg \notin Resident, Unique
    PROVE  Unique'
<1>1. /\ page'[f] = pg /\ \A g \in Frames : g # f => page'[g] = page[g]
  BY DEF FramesOK
<1>2. Used' = {g \in Frames : page'[g] # NoPage} BY DEF Used
<1>3. \A g \in Frames : g # f /\ page'[g] # NoPage => g \in Used /\ page[g] \in Resident
  BY <1>1 DEF Used, Resident
<1>4. ASSUME NEW g \in Used', NEW h \in Used', page'[g] = page'[h] PROVE g = h
  BY <1>1, <1>2, <1>3, <1>4 DEF Unique
<1> QED BY <1>4 DEF Unique

\* Steps that leave the pages alone, or take them away, have no page in two frames.
LEMMA FewerPages ==
    ASSUME Unique, page' = page
    PROVE  Unique' /\ Resident' = Resident
BY DEF Unique, Used, Resident

\* Frames without a page.
LEMMA NoPages ==
    ASSUME page' = [f \in Frames |-> NoPage]
    PROVE  Unique'
BY DEF Unique, Used

\* A fault while a frame is free keeps the invariant.
LEMMA FaultCAR ==
    ASSUME FramesOK, stray \in BOOLEAN, CARInv, alg' = "CAR", NEW pg \in Pages, CAR!Fault(pg)
    PROVE  CARInv'
<1>1. PICK M : M = CAR!OnPageFault(car, pg) OBVIOUS
<1>2. /\ M \in CARLists
      /\ \A R : ListedIn(car, R) /\ pg \notin R => ListedIn(M, R \cup {pg})
  BY <1>1, FaultRings DEF CARInv
<1>3. /\ Used # Frames /\ page' = [page EXCEPT ![Lowest(Frames \ Used)] = pg]
      /\ car' = M /\ pinned' = pinned /\ (~stray' => ~stray /\ pg \notin Resident)
  BY <1>1, SameFrames DEF CAR!Fault
<1>4. PICK f \in Frames : f = Lowest(Frames \ Used) /\ page[f] = NoPage
  <2>1. Frames \ Used \in SUBSET Frames /\ Frames \ Used # {} BY <1>3 DEF Used
  <2>2. Lowest(Frames \ Used) \in Frames \ Used BY <2>1, LowestIs
  <2> QED BY <2>2 DEF Used
<1>5. (Resident \ {page[f]}) \cup {pg} \subseteq Resident' BY <1>3, <1>4, Loaded
<1>6. NoPage \notin Resident BY DEF Resident, Used
<1>7. Resident \cup {pg} \subseteq Resident' BY <1>4, <1>5, <1>6
<1>8. ASSUME ~stray' PROVE Unique' /\ ListedIn(M, Resident')
  <2>1. ListedIn(M, Resident \cup {pg}) BY <1>2, <1>3, <1>8 DEF CARInv
  <2>2. ListedIn(M, Resident') BY <1>7, <2>1, ListedWidens
  <2>3. Unique' BY <1>3, <1>4, <1>8, LoadedOnce DEF CARInv
  <2> QED BY <2>2, <2>3
<1> QED BY <1>2, <1>3, <1>8, SoundRings

\* A fault that evicts keeps it.
LEMMA FaultEvictCAR ==
    ASSUME FramesOK, stray \in BOOLEAN, CARInv, alg' = "CAR", NEW pg \in Pages,
           CAR!FaultEvict(pg)
    PROVE  CARInv'
<1>1. PICK s : s = CAR!SelectVictim OBVIOUS
<1>2. Evictable # {} BY SameFrames DEF CAR!FaultEvict
<1>3. /\ s.lists \in CARLists /\ s.victim \in Evictable
      /\ Unique /\ ListedIn(car, Resident) => ListedIn(s.lists, Resident \ {page[s.victim]})
  BY <1>1, <1>2, SelectedIs DEF CARInv
<1>4. PICK f \in Frames : f = s.victim BY <1>3 DEF Evictable, Used
<1>5. PICK M : M = CAR!OnPageFault(s.lists, pg) OBVIOUS
<1>6. /\ M \in CARLists
      /\ \A R : ListedIn(s.lists, R) /\ pg \notin R => ListedIn(M, R \cup {pg})
  BY <1>3, <1>5, FaultRings
<1>7. /\ page' = [page EXCEPT ![f] = pg]
      /\ car' = M /\ pinned' = pinned /\ (~stray' => ~stray /\ pg \notin Resident)
  BY <1>1, <1>4, <1>5, SameFrames DEF CAR!FaultEvict
<1>8. (Resident \ {page[f]}) \cup {pg} \subseteq Resident' BY <1>7, Loaded
<1>9. ASSUME ~stray' PROVE Unique' /\ ListedIn(M, Resident')
  <2>1. ListedIn(s.lists, Resident \ {page[f]}) BY <1>3, <1>4, <1>7, <1>9 DEF CARInv
  <2>2. ListedIn(M, (Resident \ {page[f]}) \cup {pg}) BY <1>6, <1>7, <1>9, <2>1
  <2>3. ListedIn(M, Resident') BY <1>8, <2>2, ListedWidens
  <2>4. Unique' BY <1>7, <1>9, LoadedOnce DEF CARInv
  <2> QED BY <2>3, <2>4
<1> QED BY <1>6, <1>7, <1>9, SoundRings

\* Every step under CAR keeps it.
LEMMA NextRings ==
    ASSUME FramesOK, stray \in BOOLEAN, CARInv, CARStep
    PROVE  CARInv'
<1>1. alg = "CAR" /\ alg' = "CAR" BY DEF CARStep
<1>2. ASSUME NEW pg \in Pages, CAR!Fault(pg) PROVE CARInv' BY <1>1, <1>2, FaultCAR
<1>3. ASSUME NEW pg \in Pages, CAR!FaultEvict(pg) PROVE CARInv'
  BY <1>1, <1>3, FaultEvictCAR
<1>4. ASSUME NEW M \in CARLists, car' = M, page' = page, stray' = stray,
             ~stray => ListedIn(M, Resident)
      PROVE  CARInv'
  <2>1. ASSUME ~stray' PROVE Unique' /\ ListedIn(M, Resident')
    BY <1>4, <2>1, FewerPages DEF CARInv
  <2> QED BY <1>1, <1>4, <2>1, SoundRings
<1>5. ASSUME NEW f \in Frames, CAR!Hit(f) PROVE CARInv'
  <2>1. PICK pg \in Pages : pg = page[f] /\ pg \in Resident
    BY <1>5, SameFrames DEF FramesOK, CAR!Hit, Used, Resident
  <2>2. PICK M : M = CAR!OnPageAccess(car, pg) OBVIOUS
  <2>3. M \in CARLists /\ \A R : ListedIn(car, R) /\ pg \in R => ListedIn(M, R)
    BY <2>2, AccessRings DEF CARInv
  <2>4. car' = M /\ page' = page /\ stray' = stray BY <1>5, <2>1, <2>2 DEF CAR!Hit
  <2>5. ~stray => ListedIn(M, Resident) BY <2>1, <2>3 DEF CARInv
  <2> QED BY <1>4, <2>3, <2>4, <2>5
<1>6. ASSUME NEW f \in Frames, CAR!Release(f) PROVE CARInv'
  <2>1. PICK M : M = car OBVIOUS
  <2>2. M \in CARLists /\ car' = M /\ stray' = TRUE BY <1>6, <2>1 DEF CAR!Release, CARInv
  <2> QED BY <1>1, <2>2, SoundRings
<1>7. ASSUME NEW f \in Frames, CAR!SetPinned(f) PROVE CARInv'
  <2>1. PICK M : M = car OBVIOUS
  <2>2. M \in CARLists /\ car' = M /\ page' = page /\ stray' = stray
    BY <1>7, <2>1 DEF CAR!SetPinned, CARInv
  <2>3. ~stray => ListedIn(M, Resident) BY <2>1 DEF CARInv
  <2> QED BY <1>4, <2>2, <2>3
<1>8. ASSUME CAR!FaultFails PROVE CARInv'
  <2>1. Evictable = {} BY <1>8, SameFrames DEF CAR!FaultFails
  <2>2. PICK M : M = CAR!SelectVictim.lists OBVIOUS
  <2>3. /\ M \in CARLists
        /\ Unique /\ ListedIn(car, Resident) => ListedIn(M, Resident)
    BY <2>1, <2>2, SelectedIs DEF CARInv
  <2>4. car' = M /\ page' = page /\ stray' = stray BY <1>8, <2>2 DEF CAR!FaultFails
  <2>5. ~stray => ListedIn(M, Resident) BY <2>3 DEF CARInv
  <2> QED BY <1>4, <2>3, <2>4, <2>5
<1>9. ASSUME CAR!Reset PROVE CARInv'
  <2>1. PICK M : M = CAR!NewCAR OBVIOUS
  <2>2. M \in CARLists /\ ListedIn(M, Resident') BY <2>1, NewIs
  <2>3. car' = M /\ page' = [f \in Frames |-> NoPage]
    BY <1>9, <2>1, SameFrames DEF CAR!Reset
  <2>4. Unique' BY <2>3, NoPages
  <2> QED BY <1>1, <2>2, <2>3, <2>4, SoundRings
<1> QED BY <1>2, <1>3, <1>5, <1>6, <1>7, <1>8, <1>9, SameFrames DEF CARStep, CAR!Next

\* So does every step under ARC, which leaves the new lists of CAR alone and loads pages
\* into frames.
LEMMA NextUnderARC ==
    ASSUME FramesOK, stray \in BOOLEAN, Good(Lists), Tight(Lists), CARInv, ARCStep
    PROVE  CARInv'
<1>1. PICK M : M = CAR!NewCAR OBVIOUS
<1>2. M \in CARLists /\ ListedIn(M, Resident') BY <1>1, NewIs
<1>3. car' = M BY <1>1 DEF ARCStep, CARInv
<1>4. SUFFICES ASSUME ~stray' PROVE Unique' BY <1>1, <1>2, <1>3, SoundRings
<1>5. ASSUME NEW pg \in Pages, Fault(pg) PROVE Unique'
  <2>1. PICK f \in Frames : f = Lowest(Frames \ Used)
    <3>1. Frames \ Used \in SUBSET Frames /\ Frames \ Used # {} BY <1>5 DEF Fault, Used
    <3>2. Lowest(Frames \ Used) \in Frames \ Used BY <3>1, LowestIs
    <3> QED BY <3>2
  <2>2. page' = [page EXCEPT ![f] = pg] /\ ~stray /\ pg \notin Resident
    BY <1>4, <1>5, <2>1 DEF Fault
  <2> QED BY <2>2, LoadedOnce DEF CARInv
<1>6. ASSUME NEW pg \in Pages, FaultEvict(pg) PROVE Unique'
  <2>1. FindVictim \in Evictable BY <1>6, VictimLists DEF FaultEvict
  <2>2. PICK f \in Frames : f = FindVictim BY <2>1 DEF Evictable, Used
  <2>3. page' = [page EXCEPT ![f] = pg] /\ ~stray /\ pg \notin Resident
    BY <1>4, <1>6, <2>2 DEF FaultEvict
  <2> QED BY <2>3, LoadedOnce DEF CARInv
<1>7. ASSUME page' = page, stray' = stray PROVE Unique'
  BY <1>4, <1>7, FewerPages DEF CARInv
<1>8. ASSUME NEW f \in Frames, Hit(f) PROVE Unique' BY <1>7, <1>8 DEF Hit
<1>9. ASSUME NEW f \in Frames, Release(f) PROVE Unique' BY <1>4, <1>9 DEF Release
<1>10. ASSUME NEW f \in Frames, SetPinned(f) PROVE Unique' BY <1>7, <1>10 DEF SetPinned
<1>11. ASSUME Reset PROVE Unique' BY <1>11, NoPages DEF Reset
<1> QED BY <1>5, <1>6, <1>8, <1>9, <1>10, <1>11 DEF ARCStep, Next

\* The rings and ghosts of CAR are sound whatever the callers do with frames and
\* policies: the inductive invariant, on top of the one of the lists of ARC.
THEOREM RingsInductive == AdaptiveSpec => []CARInv
<1>1. AdaptiveInit => CARInv
  <2>1. SUFFICES ASSUME AdaptiveInit PROVE CARInv OBVIOUS
  <2>2. car = CAR!NewCAR BY <2>1 DEF AdaptiveInit, CAR!Init
  <2>3. Unique BY <2>1 DEF AdaptiveInit, Init, Unique, Used
  <2> QED BY <2>2, <2>3, NewIs DEF CARInv
<1>2. ARCInv /\ CARInv /\ [AdaptiveNext]_all => CARInv'
  <2>1. SUFFICES ASSUME ARCInv, CARInv, [AdaptiveNext]_all PROVE CARInv' OBVIOUS
  <2>2. FramesOK /\ stray \in BOOLEAN /\ Good(Lists) /\ Tight(Lists) BY <2>1 DEF ARCInv
  <2>3. CASE ARCStep BY <2>1, <2>2, <2>3, NextUnderARC
  <2>4. CASE CARStep BY <2>1, <2>2, <2>4, NextRings
  <2>5. ASSUME NEW a \in {"ARC", "CAR"}, SetAlgorithm(a) PROVE CARInv'
    <3>1. PICK M : M = CAR!NewCAR OBVIOUS
    <3>2. M \in CARLists /\ ListedIn(M, Resident') BY <3>1, NewIs
    <3>3. car' = M /\ page' = page /\ stray' = stray BY <2>5, <3>1 DEF SetAlgorithm
    <3>4. ~stray' => Unique' BY <2>1, <3>3, FewerPages DEF CARInv
    <3> QED BY <3>1, <3>2, <3>3, <3>4, SoundRings
  <2>6. CASE UNCHANGED all
    <3>1. PICK M : M = car OBVIOUS
    <3>2. car' = M /\ page' = page /\ stray' = stray /\ alg' = alg
      BY <2>6, <3>1 DEF all, vars
    <3>3. M \in CARLists /\ (alg' = "ARC" => M = CAR!NewCAR) BY <2>1, <3>1, <3>2 DEF CARInv
    <3>4. ~stray' => Unique' /\ ListedIn(M, Resident')
      BY <2>1, <3>1, <3>2, FewerPages DEF CARInv
    <3> QED BY <3>2, <3>3, <3>4, SoundRings
  <2> QED BY <2>1, <2>3, <2>4, <2>5, <2>6 DEF AdaptiveNext
<1> QED BY <1>1, <1>2, ListsInductive, PTL DEF AdaptiveSpec

\* Without releases and with one process, a page is in one of the four lists at most,
\* and once, and those in the rings are resident: no eviction, promotion or cut of adapt
\* leaves a copy behind, whatever policy was in use before.
THEOREM PagesListedOnce == AdaptiveSpec => []ListedOnce
<1>1. ASSUME CARInv, ~stray,
             NEW ring, ring = CAR!PagesOf(car.t1) \o CAR!PagesOf(car.t2),
             NEW four, four = ring \o car.b1 \o car.b2
      PROVE  /\ CAR!In(ring) \subseteq CAR!Resident
             /\ \A i, j \in DOMAIN four : four[i] = four[j] => i = j
  <2>1. /\ car.t1 \in Seq(Entry) /\ car.t2 \in Seq(Entry)
        /\ car.b1 \in Seq(Pages) /\ car.b2 \in Seq(Pages)
    BY <1>1, CARFields DEF CARInv
  <2>2. PICK P \in Seq(Pages) : P = CAR!PagesOf(car.t1) BY <2>1, PagesOfIs
  <2>3. PICK Q \in Seq(Pages) : Q = CAR!PagesOf(car.t2) BY <2>1, PagesOfIs
  <2>4. Listed(P, Q, car.b1, car.b2, Resident) BY <1>1, <2>2, <2>3 DEF CARInv, ListedIn
  <2>5. /\ ring \in Seq(Pages) /\ In(ring) = In(P) \cup In(Q)
        /\ Distinct(P) /\ Distinct(Q) /\ In(P) \cap In(Q) = {} => Distinct(ring)
    BY <1>1, <2>2, <2>3, ConcatIn
  <2>6. PICK three : three = ring \o car.b1 OBVIOUS
  <2>7. /\ three \in Seq(Pages) /\ In(three) = In(ring) \cup In(car.b1)
        /\ Distinct(ring) /\ Distinct(car.b1) /\ In(ring) \cap In(car.b1) = {} =>
              Distinct(three)
    BY <2>1, <2>5, <2>6, ConcatIn
  <2>8. Distinct(three) /\ Distinct(car.b2) /\ In(three) \cap In(car.b2) = {} =>
              Distinct(four)
    BY <1>1, <2>1, <2>6, <2>7, ConcatIn
  <2>9. In(ring) \subseteq Resident /\ Distinct(four)
    BY <2>4, <2>5, <2>7, <2>8 DEF Listed
  <2>10. CAR!In(ring) \subseteq CAR!Resident BY <2>9, SameFrames
  <2> QED BY <2>9, <2>10 DEF Distinct
<1>2. CARInv => ListedOnce BY <1>1 DEF ListedOnce, CAR!ListedOnce
<1> QED BY <1>2, RingsInductive, PTL

\* Wherever the hands of CAR are, a search takes a page from the rings as long as they
\* hold one that can go, and an entry of T1 that is not referenced before any of T2: the
\* bounds of the two loops, twice the length of a ring, are enough for rings of any length.
THEOREM SearchSkipsNothing == AdaptiveSpec => []NoCandidateSkipped
<1>1. ASSUME FramesOK, CARInv
      PROVE  NoCandidateSkipped
  <2> DEFINE old == {i \in DOMAIN car.t1 : CAR!Candidate(car.t1[i]) /\ ~car.t1[i].ref}
  <2>1. /\ CAR!Ringed.victim = CAR!NoFrame =>
             \A e \in In(car.t1) \cup In(car.t2) : ~CAR!Candidate(e)
        /\ \A e \in In(car.t1) : CAR!Candidate(e) /\ ~e.ref =>
             \E d \in In(car.t1) : /\ CAR!Candidate(d) /\ ~d.ref
                                   /\ page[CAR!Ringed.victim] = d.page
    BY <1>1, RingedIs DEF CARInv
  <2>2. ASSUME {e \in CAR!In(car.t1) \cup CAR!In(car.t2) : CAR!Candidate(e)} # {}
        PROVE  CAR!Ringed.victim # CAR!NoFrame
    BY <2>1, <2>2, SameFrames
  <2>3. ASSUME NEW k \in old
        PROVE  page[CAR!Ringed.victim] \in {car.t1[i].page : i \in old}
    <3>1. car.t1[k] \in In(car.t1) BY <2>3 DEF In
    <3>2. PICK d \in In(car.t1) : /\ CAR!Candidate(d) /\ ~d.ref
                                  /\ page[CAR!Ringed.victim] = d.page
      BY <2>1, <2>3, <3>1
    <3>3. PICK i \in DOMAIN car.t1 : d = car.t1[i] BY <3>2 DEF In
    <3>4. i \in old BY <3>2, <3>3
    <3> QED BY <3>2, <3>3, <3>4
  <2> QED BY <2>2, <2>3 DEF NoCandidateSkipped, CAR!NoCandidateSkipped
<1>2. ARCInv /\ CARInv => NoCandidateSkipped BY <1>1 DEF ARCInv
<1> QED BY <1>2, ListsInductive, RingsInductive, PTL

=============================================================================
