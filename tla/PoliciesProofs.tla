--------------------------- MODULE PoliciesProofs ---------------------------
(***************************************************************************)
(* For any number of frames, whatever pages are loaded, used, pinned and   *)
(* released, and whatever policies were in use before: a search finds a    *)
(* victim if there is one, CLOCK gives every page its second chance,       *)
(* WSClock spares the working set, LRU evicts the page unused longest, and *)
(* PFF trims down to its target and spares the page that it has loaded.    *)
(***************************************************************************)
EXTENDS Policies, SequenceTheorems, FiniteSetTheorems, WellFoundedInduction, TLAPS

(* Numbers *)

\* A set of natural numbers has a least one.
LEMMA LeastNumber ==
    ASSUME NEW S \in SUBSET Nat, S # {}
    PROVE  \E m \in S : \A n \in S : m <= n
<1>1. PICK m \in S : \A n \in S : ~(<<n, m>> \in OpToRel(<, Nat))
  BY WFMin, NatLessThanWellFounded
<1>2. \A n \in S : ~(n < m) BY <1>1 DEF OpToRel
<1> QED BY <1>2

\* Induction, as a fact about sets: one that has 0 and, with every number up to k
\* that is less than k, the next one, has every number up to k.
LEMMA Climb ==
    ASSUME NEW k \in Nat, NEW S, 0 \in S,
           \A n \in Nat : n < k /\ n \in S => n + 1 \in S
    PROVE  \A n \in 0 .. k : n \in S
<1> DEFINE T == {n \in Nat : n <= k /\ n \notin S}
<1>1. SUFFICES ASSUME T # {} PROVE FALSE OBVIOUS
<1>2. T \in SUBSET Nat OBVIOUS
<1>3. PICK m \in T : \A n \in T : m <= n BY <1>1, <1>2, LeastNumber
<1>4. m # 0 BY <1>3
<1>5. PICK l \in Nat : m = l + 1 BY <1>3, <1>4
<1>6. l \notin T BY <1>3, <1>5
<1>7. l \in S /\ l < k BY <1>3, <1>5, <1>6
<1> QED BY <1>3, <1>5, <1>7

-----------------------------------------------------------------------------
(* Recursive functions *)

\* The step from the value at i - 1 to the value at i, of each of the recursive
\* functions of the model.
Rec(kind, a, b, i, x) ==
    CASE kind = "keep"  -> IF a[i] \in b THEN Append(x, a[i]) ELSE x
      [] kind = "clock" -> ClockStep(x)
      [] kind = "ws"    -> WSStep(a, x)
      [] kind = "calls" -> UNION {Adjusted(d, a - i + 1) : d \in x}

Computes(g, kind, a, b, x, k) ==
    g = [i \in 0 .. k |-> IF i = 0 THEN x ELSE Rec(kind, a, b, i, g[i - 1])]

\* There is such a function: the one for k can be extended to k + 1.
LEMMA Computable ==
    ASSUME NEW kind, NEW a, NEW b, NEW x, NEW k \in Nat
    PROVE  \E g : Computes(g, kind, a, b, x, k)
<1> DEFINE S == {n \in Nat : \E g : Computes(g, kind, a, b, x, n)}
<1>1. 0 \in S
  <2>1. PICK g : g = [n \in 0 .. 0 |-> x] OBVIOUS
  <2>2. g = [n \in 0 .. 0 |-> IF n = 0 THEN x ELSE Rec(kind, a, b, n, g[n - 1])] BY <2>1
  <2>3. Computes(g, kind, a, b, x, 0) BY <2>2 DEF Computes
  <2> QED BY <2>3
<1>2. ASSUME NEW l \in Nat, l \in S PROVE l + 1 \in S
  <2>1. PICK g : Computes(g, kind, a, b, x, l) BY <1>2
  <2>2. PICK m \in Nat : m = l + 1 OBVIOUS
  <2>3. PICK h : h = [n \in 0 .. m |-> IF n = m THEN Rec(kind, a, b, m, g[l]) ELSE g[n]] OBVIOUS
  <2>4. ASSUME NEW n \in 0 .. m
        PROVE  h[n] = IF n = 0 THEN x ELSE Rec(kind, a, b, n, h[n - 1])
    <3>1. CASE n = 0
      <4>1. h[0] = g[0] BY <2>2, <2>3
      <4>2. g[0] = x BY <2>1 DEF Computes
      <4> QED BY <3>1, <4>1, <4>2
    <3>2. CASE n # 0 /\ n # m
      <4>1. n \in 0 .. l /\ n - 1 \in 0 .. m /\ n - 1 # m BY <2>2, <3>2
      <4>2. h[n] = g[n] /\ h[n - 1] = g[n - 1] BY <2>3, <3>2, <4>1
      <4>3. g[n] = Rec(kind, a, b, n, g[n - 1]) BY <2>1, <3>2, <4>1 DEF Computes
      <4> QED BY <3>2, <4>2, <4>3
    <3>3. CASE n = m
      <4>1. n - 1 = l /\ l \in 0 .. m /\ l # m /\ n # 0 BY <2>2, <3>3
      <4>2. h[n] = Rec(kind, a, b, m, g[l]) /\ h[l] = g[l] BY <2>3, <3>3, <4>1
      <4> QED BY <3>3, <4>1, <4>2
    <3> QED BY <3>1, <3>2, <3>3
  <2>5. h = [n \in 0 .. m |-> IF n = 0 THEN x ELSE Rec(kind, a, b, n, h[n - 1])]
    BY <2>3, <2>4
  <2>6. Computes(h, kind, a, b, x, m) BY <2>5 DEF Computes
  <2> QED BY <2>2, <2>6
<1> HIDE DEF S
<1>3. k \in S BY <1>1, <1>2, Climb
<1> QED BY <1>3 DEF S

\* The value that the recursive function of Keep returns.
LEMMA KeepIs ==
    ASSUME NEW q, NEW S, Len(q) \in Nat
    PROVE  \E g : Computes(g, "keep", q, S, <<>>, Len(q)) /\ Keep(q, S) = g[Len(q)]
<1>1. PICK f : Computes(f, "keep", q, S, <<>>, Len(q)) BY Computable
<1>2. f = [i \in 0 .. Len(q) |-> IF i = 0 THEN <<>>
             ELSE IF q[i] \in S THEN Append(f[i - 1], q[i]) ELSE f[i - 1]]
  BY <1>1 DEF Computes, Rec
<1>3. PICK g : g = CHOOSE h : h = [i \in 0 .. Len(q) |-> IF i = 0 THEN <<>>
             ELSE IF q[i] \in S THEN Append(h[i - 1], q[i]) ELSE h[i - 1]]
  OBVIOUS
<1>4. g = [i \in 0 .. Len(q) |-> IF i = 0 THEN <<>>
             ELSE IF q[i] \in S THEN Append(g[i - 1], q[i]) ELSE g[i - 1]]
  BY <1>2, <1>3, Zenon
<1>5. Computes(g, "keep", q, S, <<>>, Len(q)) BY <1>4 DEF Computes, Rec
<1>6. Keep(q, S) = g[Len(q)] BY <1>3, Zenon DEF Keep
<1> QED BY <1>5, <1>6

First == Outcome(NoFrame, hand, ref, mod)

\* What the steps of CLOCK's hand are.
LEMMA ClockIs ==
    ASSUME NEW k \in Nat
    PROVE  \E g : Computes(g, "clock", 0, 0, First, k) /\ ClockSweep(k) = g[k]
<1>1. PICK f : Computes(f, "clock", 0, 0, First, k) BY Computable
<1>2. f = [i \in 0 .. k |-> IF i = 0 THEN First ELSE ClockStep(f[i - 1])]
  BY <1>1 DEF Computes, Rec
<1>3. PICK g : g = CHOOSE h : h = [i \in 0 .. k |-> IF i = 0 THEN First ELSE ClockStep(h[i - 1])]
  OBVIOUS
<1>4. g = [i \in 0 .. k |-> IF i = 0 THEN First ELSE ClockStep(g[i - 1])]
  BY <1>2, <1>3, Zenon
<1>5. Computes(g, "clock", 0, 0, First, k) BY <1>4 DEF Computes, Rec
<1>6. ClockSweep(k) = g[k] BY <1>3, Zenon DEF ClockSweep, First
<1> QED BY <1>5, <1>6

\* What the two turns of WSClock are.
LEMMA WSIs ==
    ASSUME NEW A, NEW k \in Nat, k = 2 * NumFrames
    PROVE  \E g : Computes(g, "ws", A, 0, First, k) /\ WSSweep(A) = g[k]
<1>1. PICK f : Computes(f, "ws", A, 0, First, k) BY Computable
<1>2. f = [i \in 0 .. k |-> IF i = 0 THEN First ELSE WSStep(A, f[i - 1])]
  BY <1>1 DEF Computes, Rec
<1>3. PICK g : g = CHOOSE h : h = [i \in 0 .. k |-> IF i = 0 THEN First ELSE WSStep(A, h[i - 1])]
  OBVIOUS
<1>4. g = [i \in 0 .. k |-> IF i = 0 THEN First ELSE WSStep(A, g[i - 1])]
  BY <1>2, <1>3, Zenon
<1>5. Computes(g, "ws", A, 0, First, k) BY <1>4 DEF Computes, Rec
<1>6. WSSweep(A) = g[k] BY <1>3, Zenon DEF WSSweep, First
<1> QED BY <1>5, <1>6

\* What k calls of SelectVictim make of the fields of PFF.
LEMMA CallsAre ==
    ASSUME NEW c, NEW n, NEW k \in Nat
    PROVE  \E g : Computes(g, "calls", n, 0, {c}, k) /\ AdjustedBy(c, n, k) = g[k]
<1>1. PICK f : Computes(f, "calls", n, 0, {c}, k) BY Computable
<1>2. f = [i \in 0 .. k |-> IF i = 0 THEN {c} ELSE UNION {Adjusted(d, n - i + 1) : d \in f[i - 1]}]
  BY <1>1 DEF Computes, Rec
<1>3. PICK g : g = CHOOSE h : h = [i \in 0 .. k |-> IF i = 0 THEN {c}
                                     ELSE UNION {Adjusted(d, n - i + 1) : d \in h[i - 1]}]
  OBVIOUS
<1>4. g = [i \in 0 .. k |-> IF i = 0 THEN {c} ELSE UNION {Adjusted(d, n - i + 1) : d \in g[i - 1]}]
  BY <1>2, <1>3, Zenon
<1>5. Computes(g, "calls", n, 0, {c}, k) BY <1>4 DEF Computes, Rec
<1>6. AdjustedBy(c, n, k) = g[k] BY <1>3, Zenon DEF AdjustedBy
<1> QED BY <1>5, <1>6

-----------------------------------------------------------------------------
(* Orders of frames: the sequences of the model by what is in them and by what comes *)
(* before what.                                                                      *)

Before(q, f, g) == \E i, j \in 1 .. Len(q) : i < j /\ q[i] = f /\ q[j] = g
Order(q) == q \in Seq(Frames) /\ \A f \in Frames : ~Before(q, f, f)

\* The elements of a sequence are what its positions hold.
LEMMA ElementsAre ==
    ASSUME NEW T, NEW q \in Seq(T), NEW f
    PROVE  f \in Elements(q) <=> \E i \in 1 .. Len(q) : q[i] = f
<1>1. DOMAIN q = 1 .. Len(q) OBVIOUS
<1> QED BY <1>1, Zenon DEF Elements

\* The elements of a sequence over T are in T.
LEMMA ElementsIn ==
    ASSUME NEW T, NEW q \in Seq(T)
    PROVE  Elements(q) \subseteq T /\ Len(q) \in Nat /\ \A i \in 1 .. Len(q) : q[i] \in T
BY DEF Elements

Appended(r, T, q, x) ==
    /\ r \in Seq(T)
    /\ \A f : f \in Elements(r) <=> f \in Elements(q) \/ f = x
    /\ \A f, g : Before(r, f, g) <=> Before(q, f, g) \/ (f \in Elements(q) /\ g = x)

\* What an appended element is after.
LEMMA AppendIs ==
    ASSUME NEW T, NEW q \in Seq(T), NEW x \in T, NEW r, r = Append(q, x)
    PROVE  Appended(r, T, q, x)
<1>1. r \in Seq(T) /\ Len(q) \in Nat /\ Len(r) = Len(q) + 1 OBVIOUS
<1>2. \A i \in 1 .. Len(q) : r[i] = q[i] OBVIOUS
<1>3. r[Len(q) + 1] = x OBVIOUS
<1>4. PICK n \in Nat : n = Len(q) BY <1>1
<1>5. /\ Len(r) = n + 1 /\ r[n + 1] = x /\ \A i \in 1 .. n : r[i] = q[i]
  BY <1>1, <1>2, <1>3, <1>4
<1>6. \A f : f \in Elements(q) <=> \E i \in 1 .. n : q[i] = f BY <1>4, ElementsAre
<1>7. \A f : f \in Elements(r) <=> \E i \in 1 .. n + 1 : r[i] = f
  <2>1. r \in Seq(T) BY <1>1
  <2>2. \A f : f \in Elements(r) <=> \E i \in 1 .. Len(r) : r[i] = f BY <2>1, ElementsAre
  <2> QED BY <1>5, <2>2
<1>8. \A f : f \in Elements(r) <=> f \in Elements(q) \/ f = x
  <2>1. \A i \in 1 .. n + 1 : i = n + 1 \/ i \in 1 .. n OBVIOUS
  <2>2. n + 1 \in 1 .. n + 1 /\ \A i \in 1 .. n : i \in 1 .. n + 1 OBVIOUS
  <2> QED BY <1>5, <1>6, <1>7, <2>1, <2>2
<1>9. ASSUME NEW f, NEW g
      PROVE  Before(r, f, g) <=> Before(q, f, g) \/ (f \in Elements(q) /\ g = x)
  <2>1. ASSUME Before(r, f, g) PROVE Before(q, f, g) \/ (f \in Elements(q) /\ g = x)
    <3>1. PICK i, j \in 1 .. n + 1 : i < j /\ r[i] = f /\ r[j] = g BY <1>5, <2>1 DEF Before
    <3>2. i \in 1 .. n /\ q[i] = f BY <1>5, <3>1
    <3>3. CASE j = n + 1 BY <1>5, <1>6, <3>1, <3>2, <3>3
    <3>4. CASE j \in 1 .. n BY <1>4, <1>5, <3>1, <3>2, <3>4 DEF Before
    <3> QED BY <3>3, <3>4
  <2>2. ASSUME Before(q, f, g) PROVE Before(r, f, g)
    <3>1. PICK i, j \in 1 .. n : i < j /\ q[i] = f /\ q[j] = g BY <1>4, <2>2 DEF Before
    <3>2. i \in 1 .. n + 1 /\ j \in 1 .. n + 1 /\ r[i] = f /\ r[j] = g BY <1>5, <3>1
    <3> QED BY <1>5, <3>1, <3>2 DEF Before
  <2>3. ASSUME f \in Elements(q), g = x PROVE Before(r, f, g)
    <3>1. PICK i \in 1 .. n : q[i] = f BY <1>6, <2>3
    <3>2. i \in 1 .. n + 1 /\ n + 1 \in 1 .. n + 1 /\ i < n + 1 /\ r[i] = f BY <1>5, <3>1
    <3> QED BY <1>5, <2>3, <3>2 DEF Before
  <2> QED BY <2>1, <2>2, <2>3
<1> QED BY <1>1, <1>8, <1>9 DEF Appended

\* r holds what the first n positions of q have of S, in their order.
Kept(r, T, q, S, n) ==
    /\ r \in Seq(T)
    /\ \A f : f \in Elements(r) <=> f \in S /\ \E i \in 1 .. n : q[i] = f
    /\ \A f, g : Before(r, f, g) <=>
          f \in S /\ g \in S /\ \E i, j \in 1 .. n : i < j /\ q[i] = f /\ q[j] = g

\* One more position.
LEMMA KeptOneMore ==
    ASSUME NEW T, NEW q \in Seq(T), NEW S, NEW n \in Nat, n < Len(q), NEW r,
           Kept(r, T, q, S, n), NEW m \in Nat, m = n + 1
    PROVE  Kept(Rec("keep", q, S, m, r), T, q, S, m)
<1>1. PICK x \in T : x = q[m] /\ m \in 1 .. m OBVIOUS
<1>2. \A i \in 1 .. m : i = m \/ i \in 1 .. n OBVIOUS
<1>3. \A i \in 1 .. n : i \in 1 .. m /\ i < m OBVIOUS
<1>4. CASE x \in S
  <2>1. PICK s : s = Append(r, x) OBVIOUS
  <2>2. Rec("keep", q, S, m, r) = s BY <1>1, <1>4, <2>1 DEF Rec
  <2>3. r \in Seq(T) BY DEF Kept
  <2>4. Appended(s, T, r, x) BY <2>1, <2>3, AppendIs
  <2>5. /\ s \in Seq(T)
        /\ \A f : f \in Elements(s) <=> f \in Elements(r) \/ f = x
        /\ \A f, g : Before(s, f, g) <=> Before(r, f, g) \/ (f \in Elements(r) /\ g = x)
    BY <2>4 DEF Appended
  <2>6. ASSUME NEW f
        PROVE  f \in Elements(s) <=> f \in S /\ \E i \in 1 .. m : q[i] = f
    BY <1>1, <1>2, <1>3, <1>4, <2>5 DEF Kept
  <2>7. ASSUME NEW f, NEW g
        PROVE  Before(s, f, g) <=>
                 f \in S /\ g \in S /\ \E i, j \in 1 .. m : i < j /\ q[i] = f /\ q[j] = g
    <3>1. ASSUME Before(s, f, g)
          PROVE  f \in S /\ g \in S /\ \E i, j \in 1 .. m : i < j /\ q[i] = f /\ q[j] = g
      <4>1. CASE Before(r, f, g) BY <1>3, <4>1 DEF Kept
      <4>2. CASE f \in Elements(r) /\ g = x BY <1>1, <1>3, <1>4, <4>2 DEF Kept
      <4> QED BY <2>5, <3>1, <4>1, <4>2
    <3>2. ASSUME f \in S, g \in S, NEW i \in 1 .. m, NEW j \in 1 .. m, i < j, q[i] = f, q[j] = g
          PROVE  Before(s, f, g)
      <4>1. i \in 1 .. n BY <3>2
      <4>2. CASE j = m
        <5>1. f \in Elements(r) BY <3>2, <4>1 DEF Kept
        <5> QED BY <1>1, <2>5, <3>2, <4>2, <5>1
      <4>3. CASE j \in 1 .. n
        <5>1. Before(r, f, g) BY <3>2, <4>1, <4>3 DEF Kept
        <5> QED BY <2>5, <5>1
      <4> QED BY <1>2, <4>2, <4>3
    <3> QED BY <3>1, <3>2
  <2> QED BY <2>2, <2>5, <2>6, <2>7 DEF Kept
<1>5. CASE x \notin S
  <2>1. Rec("keep", q, S, m, r) = r BY <1>1, <1>5 DEF Rec
  <2>2. r \in Seq(T) BY DEF Kept
  <2>3. ASSUME NEW f
        PROVE  f \in Elements(r) <=> f \in S /\ \E i \in 1 .. m : q[i] = f
    BY <1>1, <1>2, <1>3, <1>5 DEF Kept
  <2>4. ASSUME NEW f, NEW g
        PROVE  Before(r, f, g) <=>
                 f \in S /\ g \in S /\ \E i, j \in 1 .. m : i < j /\ q[i] = f /\ q[j] = g
    BY <1>1, <1>2, <1>3, <1>5 DEF Kept
  <2> QED BY <2>1, <2>2, <2>3, <2>4 DEF Kept
<1> QED BY <1>4, <1>5

\* What Keep returns: the elements in S, in their order.
LEMMA KeepSeq ==
    ASSUME NEW T, NEW q \in Seq(T), NEW S
    PROVE  /\ Keep(q, S) \in Seq(T)
           /\ \A f : f \in Elements(Keep(q, S)) <=> f \in S /\ f \in Elements(q)
           /\ \A f, g : Before(Keep(q, S), f, g) <=> f \in S /\ g \in S /\ Before(q, f, g)
<1>1. PICK k \in Nat : k = Len(q) OBVIOUS
<1>2. PICK g : Computes(g, "keep", q, S, <<>>, k) /\ Keep(q, S) = g[k] BY <1>1, KeepIs
<1> DEFINE P == {n \in Nat : Kept(g[n], T, q, S, n)}
<1>3. 0 \in P
  <2>1. g[0] = <<>> BY <1>2 DEF Computes
  <2>2. <<>> \in Seq(T) /\ Len(<<>>) = 0 /\ 1 .. 0 = {} OBVIOUS
  <2>3. \A f : f \notin Elements(<<>>) BY <2>2, ElementsAre
  <2>4. \A f, h : ~Before(<<>>, f, h) BY <2>2 DEF Before
  <2>5. Kept(<<>>, T, q, S, 0) BY <2>2, <2>3, <2>4 DEF Kept
  <2> QED BY <2>1, <2>5
<1>4. ASSUME NEW n \in Nat, n < k, n \in P PROVE n + 1 \in P
  <2>1. PICK m \in Nat : m = n + 1 OBVIOUS
  <2>2. m \in 0 .. k /\ m # 0 /\ m - 1 = n BY <1>4, <2>1
  <2>3. g[m] = Rec("keep", q, S, m, g[n]) BY <1>2, <2>2 DEF Computes
  <2>4. Kept(Rec("keep", q, S, m, g[n]), T, q, S, m) BY <1>1, <1>4, <2>1, KeptOneMore
  <2> QED BY <2>1, <2>3, <2>4
<1> HIDE DEF P
<1>5. \A n \in 0 .. k : n \in P BY <1>3, <1>4, Climb
<1>6. k \in P BY <1>5
<1>7. Kept(Keep(q, S), T, q, S, k) BY <1>2, <1>6 DEF P
<1>8. \A f : f \in Elements(q) <=> \E i \in 1 .. k : q[i] = f BY <1>1, ElementsAre
<1>9. \A f, h : Before(q, f, h) <=> \E i, j \in 1 .. k : i < j /\ q[i] = f /\ q[j] = h
  BY <1>1 DEF Before
<1> QED BY <1>7, <1>8, <1>9 DEF Kept

-----------------------------------------------------------------------------
(* The operations on orders *)

\* The frames of an order, and those that come before others, are frames.
LEMMA BeforeIn ==
    ASSUME NEW q, Order(q)
    PROVE  /\ q \in Seq(Frames) /\ Elements(q) \subseteq Frames
           /\ \A f, g : Before(q, f, g) => f \in Elements(q) /\ g \in Elements(q) /\ f # g
<1>1. q \in Seq(Frames) BY DEF Order
<1>2. Elements(q) \subseteq Frames BY <1>1, ElementsIn
<1>3. \A f : f \in Elements(q) <=> \E i \in 1 .. Len(q) : q[i] = f BY <1>1, ElementsAre
<1>4. ASSUME NEW f, NEW g, Before(q, f, g) PROVE f \in Elements(q) /\ g \in Elements(q)
  BY <1>3, <1>4 DEF Before
<1>5. ASSUME NEW f, Before(q, f, f) PROVE FALSE
  BY <1>2, <1>4, <1>5 DEF Order
<1> QED BY <1>1, <1>2, <1>4, <1>5

Picked(r, q, S) ==
    /\ Order(r) /\ Elements(r) = Elements(q) \cap S
    /\ \A f, g : Before(r, f, g) <=> f \in S /\ g \in S /\ Before(q, f, g)

\* Some of an order are an order.
LEMMA KeepOrder ==
    ASSUME NEW q, Order(q), NEW S
    PROVE  Picked(Keep(q, S), q, S)
<1>1. q \in Seq(Frames) BY DEF Order
<1>2. /\ Keep(q, S) \in Seq(Frames)
      /\ \A f : f \in Elements(Keep(q, S)) <=> f \in S /\ f \in Elements(q)
      /\ \A f, g : Before(Keep(q, S), f, g) <=> f \in S /\ g \in S /\ Before(q, f, g)
  BY <1>1, KeepSeq
<1>3. Order(Keep(q, S)) BY <1>2 DEF Order
<1>4. Elements(Keep(q, S)) = Elements(q) \cap S BY <1>2
<1> QED BY <1>2, <1>3, <1>4 DEF Picked

Removed(r, q, f) ==
    /\ Order(r) /\ Elements(r) = Elements(q) \ {f}
    /\ \A g, h : Before(r, g, h) <=> g # f /\ h # f /\ Before(q, g, h)

\* A frame is taken out of an order.
LEMMA WithoutOrder ==
    ASSUME NEW q, Order(q), NEW f
    PROVE  Removed(Without(q, f), q, f)
<1>1. PICK S : S = Frames \ {f} OBVIOUS
<1>2. PICK r : r = Keep(q, S) OBVIOUS
<1>3. Picked(r, q, S) BY <1>2, KeepOrder
<1>4. /\ Elements(q) \subseteq Frames
      /\ \A g, h : Before(q, g, h) => g \in Elements(q) /\ h \in Elements(q)
  BY BeforeIn
<1>5. Elements(r) = Elements(q) \ {f} BY <1>1, <1>3, <1>4 DEF Picked
<1>6. \A g, h : Before(r, g, h) <=> g # f /\ h # f /\ Before(q, g, h)
  BY <1>1, <1>3, <1>4 DEF Picked
<1>7. Removed(r, q, f) BY <1>3, <1>5, <1>6 DEF Removed, Picked
<1> QED BY <1>1, <1>2, <1>7 DEF Without

Ended(r, q, f) ==
    /\ Order(r) /\ Elements(r) = Elements(q) \cup {f}
    /\ \A g, h : Before(r, g, h) <=>
          \/ g # f /\ h # f /\ Before(q, g, h)
          \/ g # f /\ h = f /\ g \in Elements(q)

\* A frame is moved to the end of an order, or put there.
LEMMA ToEndOrder ==
    ASSUME NEW q, Order(q), NEW f \in Frames
    PROVE  Ended(ToEnd(q, f), q, f)
<1>1. PICK p : p = Without(q, f) OBVIOUS
<1>2. Removed(p, q, f) BY <1>1, WithoutOrder
<1>3. p \in Seq(Frames) BY <1>2 DEF Removed, Order
<1>4. PICK r : r = Append(p, f) OBVIOUS
<1>5. Appended(r, Frames, p, f) BY <1>3, <1>4, AppendIs
<1>6. Elements(r) = Elements(q) \cup {f} BY <1>2, <1>5 DEF Appended, Removed
<1>7. \A g, h : Before(r, g, h) <=>
          \/ g # f /\ h # f /\ Before(q, g, h)
          \/ g # f /\ h = f /\ g \in Elements(q)
  BY <1>2, <1>5 DEF Appended, Removed
<1>8. r \in Seq(Frames) BY <1>5 DEF Appended
<1>9. \A g \in Frames : ~Before(q, g, g) BY DEF Order
<1>10. Order(r) BY <1>7, <1>8, <1>9 DEF Order
<1>11. Ended(r, q, f) BY <1>6, <1>7, <1>10 DEF Ended
<1> QED BY <1>1, <1>4, <1>11 DEF ToEnd

\* No frames are in order.
LEMMA EmptyOrder == Order(<<>>) /\ Elements(<<>>) = {} /\ \A f, g : ~Before(<<>>, f, g)
<1>1. <<>> \in Seq(Frames) /\ Len(<<>>) = 0 /\ 1 .. 0 = {} OBVIOUS
<1>2. \A f : f \notin Elements(<<>>) BY <1>1, ElementsAre
<1>3. \A f, g : ~Before(<<>>, f, g) BY <1>1 DEF Before
<1> QED BY <1>1, <1>2, <1>3 DEF Order

\* The positions of an order hold different frames.
LEMMA OrderOnce ==
    ASSUME NEW q, Order(q), NEW i \in 1 .. Len(q), NEW j \in 1 .. Len(q), q[i] = q[j]
    PROVE  i = j
<1>1. q[i] \in Frames BY DEF Order
<1>2. Len(q) \in Nat BY DEF Order
<1>3. ~(i < j) BY <1>1 DEF Order, Before
<1>4. ~(j < i) BY <1>1 DEF Order, Before
<1> QED BY <1>2, <1>3, <1>4

\* Of two frames of an order one is before the other.
LEMMA BeforeTotal ==
    ASSUME NEW q, Order(q), NEW f \in Elements(q), NEW g \in Elements(q), f # g,
           ~Before(q, g, f)
    PROVE  Before(q, f, g)
<1>1. q \in Seq(Frames) /\ Len(q) \in Nat BY DEF Order
<1>2. PICK i \in 1 .. Len(q) : q[i] = f BY <1>1, ElementsAre
<1>3. PICK j \in 1 .. Len(q) : q[j] = g BY <1>1, ElementsAre
<1>4. i < j BY <1>1, <1>2, <1>3 DEF Before
<1> QED BY <1>2, <1>3, <1>4 DEF Before

\* ... and only one.
LEMMA BeforeOnce ==
    ASSUME NEW q, Order(q), NEW f, NEW g, Before(q, f, g), Before(q, g, f)
    PROVE  FALSE
<1>1. Len(q) \in Nat BY DEF Order
<1>2. PICK i \in 1 .. Len(q), j \in 1 .. Len(q) : i < j /\ q[i] = f /\ q[j] = g BY DEF Before
<1>3. PICK a \in 1 .. Len(q), b \in 1 .. Len(q) : a < b /\ q[a] = g /\ q[b] = f BY DEF Before
<1>4. a = j /\ b = i BY <1>2, <1>3, OrderOnce
<1> QED BY <1>1, <1>2, <1>3, <1>4

\* An order has as many positions as frames.
LEMMA OrderLen ==
    ASSUME NEW q, Order(q)
    PROVE  IsFiniteSet(Elements(q)) /\ Cardinality(Elements(q)) = Len(q)
<1>1. q \in Seq(Frames) BY DEF Order
<1>2. PICK n \in Nat : n = Len(q) BY <1>1
<1>3. \A f : f \in Elements(q) <=> \E i \in 1 .. n : q[i] = f BY <1>1, <1>2, ElementsAre
<1>4. \A i, j \in 1 .. n : q[i] = q[j] => i = j BY <1>2, OrderOnce
<1>5. PICK b : b = [i \in 1 .. n |-> q[i]] OBVIOUS
<1>6. b \in Bijection(1 .. n, Elements(q))
  <2>1. b \in [1 .. n -> Elements(q)] BY <1>3, <1>5
  <2>2. b \in Injection(1 .. n, Elements(q)) BY <1>4, <1>5, <2>1 DEF Injection, IsInjective
  <2>3. b \in Surjection(1 .. n, Elements(q)) BY <1>3, <1>5, <2>1 DEF Surjection
  <2> QED BY <2>2, <2>3 DEF Bijection
<1>7. ExistsBijection(1 .. n, Elements(q)) BY <1>6 DEF ExistsBijection
<1>8. IsFiniteSet(Elements(q)) BY <1>7, FS_NatBijection
<1>9. IsFiniteSet(1 .. n) /\ Cardinality(1 .. n) = n BY FS_Interval
<1> QED BY <1>2, <1>7, <1>8, FS_CountingElements

\* The first frames of an order.
LEMMA FirstOrder ==
    ASSUME NEW q, Order(q), NEW k \in 0 .. Len(q)
    PROVE  /\ Elements(SubSeq(q, 1, k)) \subseteq Elements(q)
           /\ IsFiniteSet(Elements(SubSeq(q, 1, k))) /\ Cardinality(Elements(SubSeq(q, 1, k))) = k
           /\ k = Len(q) => Elements(SubSeq(q, 1, k)) = Elements(q)
           /\ \A f \in Elements(SubSeq(q, 1, k)) : (\A g : ~Before(q, f, g)) => k = Len(q)
<1>1. q \in Seq(Frames) /\ Len(q) \in Nat /\ k \in Nat /\ k <= Len(q) BY DEF Order
<1>2. PICK r : r = SubSeq(q, 1, k) OBVIOUS
<1>3. r \in Seq(Frames) /\ Len(r) = k /\ \A i \in 1 .. k : r[i] = q[i]
  <2>1. \A i \in 1 .. k : q[i] \in Frames BY <1>1
  <2> QED BY <1>1, <1>2, <2>1, SubSeqProperties
<1>4. \A f : f \in Elements(q) <=> \E i \in 1 .. Len(q) : q[i] = f BY <1>1, ElementsAre
<1>5. \A f : f \in Elements(r) <=> \E i \in 1 .. k : q[i] = f
  <2>1. \A f : f \in Elements(r) <=> \E i \in 1 .. Len(r) : r[i] = f BY <1>3, ElementsAre
  <2> QED BY <1>3, <2>1
<1>6. \A i \in 1 .. k : i \in 1 .. Len(q) BY <1>1
<1>7. \A f, g : Before(r, f, g) => Before(q, f, g) BY <1>3, <1>6 DEF Before
<1>8. Order(r) BY <1>3, <1>7 DEF Order
<1>9. IsFiniteSet(Elements(r)) /\ Cardinality(Elements(r)) = k BY <1>3, <1>8, OrderLen
<1>10. Elements(r) \subseteq Elements(q) BY <1>4, <1>5, <1>6
<1>11. k = Len(q) => Elements(r) = Elements(q) BY <1>4, <1>5
<1>12. ASSUME NEW f \in Elements(r), \A g : ~Before(q, f, g), k # Len(q) PROVE FALSE
  <2>1. PICK i \in 1 .. k : q[i] = f BY <1>5
  <2>2. i \in 1 .. Len(q) /\ Len(q) \in 1 .. Len(q) /\ i < Len(q) BY <1>1, <1>12
  <2>3. Before(q, f, q[Len(q)]) BY <2>1, <2>2 DEF Before
  <2> QED BY <1>12, <2>3
<1> QED BY <1>2, <1>9, <1>10, <1>11, <1>12

-----------------------------------------------------------------------------
(* What is first *)

\* The first frame of an order in S is the one that no other of S comes before.
LEMMA FirstInIs ==
    ASSUME NEW q, Order(q), NEW S, NEW f
    PROVE  f \in FirstIn(q, S) <=>
              f \in Elements(q) /\ f \in S /\ \A g \in S : ~Before(q, g, f)
<1>1. q \in Seq(Frames) /\ Len(q) \in Nat BY DEF Order
<1>2. DOMAIN q = 1 .. Len(q) BY <1>1
<1>3. f \in Elements(q) <=> \E i \in 1 .. Len(q) : q[i] = f BY <1>1, ElementsAre
<1>4. f \in FirstIn(q, S) <=>
        \E j \in 1 .. Len(q) : q[j] = f /\ f \in S /\ \A k \in 1 .. j - 1 : q[k] \notin S
  BY <1>2, Zenon DEF FirstIn
<1>5. ASSUME NEW j \in 1 .. Len(q), q[j] = f, \A k \in 1 .. j - 1 : q[k] \notin S, NEW g \in S
      PROVE  ~Before(q, g, f)
  <2>1. SUFFICES ASSUME NEW a \in 1 .. Len(q), NEW b \in 1 .. Len(q), a < b, q[a] = g, q[b] = f
                 PROVE  FALSE
    BY DEF Before
  <2>2. b = j BY <1>5, <2>1, OrderOnce
  <2>3. a \in 1 .. j - 1 BY <1>1, <2>1, <2>2
  <2> QED BY <1>5, <2>1, <2>3
<1>6. ASSUME NEW j \in 1 .. Len(q), q[j] = f, \A g \in S : ~Before(q, g, f),
             NEW k \in 1 .. j - 1
      PROVE  q[k] \notin S
  <2>1. k \in 1 .. Len(q) /\ k < j BY <1>1, <1>6
  <2>2. Before(q, q[k], f) BY <1>6, <2>1 DEF Before
  <2> QED BY <1>6, <2>2
<1> QED BY <1>3, <1>4, <1>5, <1>6

\* There is one if there is any, and only one.
LEMMA FirstInOne ==
    ASSUME NEW q, Order(q), NEW S, NEW e \in Elements(q), e \in S
    PROVE  \E f \in S : f \in Elements(q) /\ FirstIn(q, S) = {f}
<1>1. q \in Seq(Frames) /\ Len(q) \in Nat BY DEF Order
<1>2. DOMAIN q = 1 .. Len(q) BY <1>1
<1>3. \A f : f \in Elements(q) <=> \E i \in 1 .. Len(q) : q[i] = f BY <1>1, ElementsAre
<1> DEFINE P == {i \in 1 .. Len(q) : q[i] \in S}
<1>4. P \in SUBSET Nat /\ P # {} BY <1>1, <1>3
<1>5. PICK m \in P : \A n \in P : m <= n BY <1>4, LeastNumber
<1>6. \A f : f \in FirstIn(q, S) <=>
        \E j \in 1 .. Len(q) : q[j] = f /\ f \in S /\ \A k \in 1 .. j - 1 : q[k] \notin S
  BY <1>2, Zenon DEF FirstIn
<1>7. \A k \in 1 .. m - 1 : q[k] \notin S BY <1>1, <1>5
<1>8. q[m] \in FirstIn(q, S) BY <1>5, <1>6, <1>7
<1>9. ASSUME NEW f \in FirstIn(q, S) PROVE f = q[m]
  <2>1. PICK j \in 1 .. Len(q) : q[j] = f /\ f \in S /\ \A k \in 1 .. j - 1 : q[k] \notin S
    BY <1>6
  <2>2. m <= j BY <1>5, <2>1
  <2>3. ~(m < j) BY <1>5, <2>1
  <2>4. m = j BY <1>5, <2>2, <2>3
  <2> QED BY <2>1, <2>4
<1>10. q[m] \in S /\ q[m] \in Elements(q) BY <1>3, <1>5
<1> QED BY <1>8, <1>9, <1>10

\* Some frames have a lowest one, and it is one of them.
LEMMA LowestIs ==
    ASSUME NEW S \in SUBSET Frames
    PROVE  Lowest(S) \subseteq S /\ (S # {} => Lowest(S) # {})
<1>1. Frames \subseteq Nat BY NumFramesAssumption DEF Frames
<1>2. S \in SUBSET Nat BY <1>1
<1>3. S # {} => \E m \in S : \A n \in S : m <= n BY <1>2, LeastNumber
<1> QED BY <1>3 DEF Lowest

-----------------------------------------------------------------------------
(* The hand *)

\* Remainders of less than two turns.
LEMMA TwoTurns ==
    ASSUME NEW n \in Nat \ {0}, NEW x \in Nat, x < 2 * n
    PROVE  x % n = IF x < n THEN x ELSE x - n
<1>1. CASE x < n BY <1>1
<1>2. CASE ~(x < n)
  <2>1. PICK y \in Nat : x = y + n /\ y < n BY <1>2
  <2>2. x % n \in 0 .. n - 1 /\ x = n * (x \div n) + (x % n) OBVIOUS
  <2>3. x \div n = 1 BY <2>1, <2>2
  <2> QED BY <1>2, <2>2, <2>3
<1> QED BY <1>1, <1>2

\* How far ahead of the hand a frame is.
LEMMA AheadIs ==
    ASSUME hand \in Frames, NEW f \in Frames
    PROVE  /\ Ahead(f) \in Nat /\ Ahead(f) < NumFrames
           /\ hand <= f => Ahead(f) = f - hand
           /\ ~(hand <= f) => Ahead(f) = f - hand + NumFrames
<1>1. /\ NumFrames \in Nat \ {0} /\ hand \in Nat /\ f \in Nat /\ hand < NumFrames /\ f < NumFrames
  BY NumFramesAssumption DEF Frames
<1>2. PICK x \in Nat : x = f - hand + NumFrames /\ x < 2 * NumFrames BY <1>1
<1>3. x % NumFrames = IF x < NumFrames THEN x ELSE x - NumFrames BY <1>1, <1>2, TwoTurns
<1>4. Ahead(f) = IF x < NumFrames THEN x ELSE x - NumFrames BY <1>2, <1>3 DEF Ahead
<1> QED BY <1>1, <1>2, <1>4

\* No two frames are equally far.
LEMMA AheadOnce ==
    ASSUME hand \in Frames, NEW f \in Frames, NEW g \in Frames, Ahead(f) = Ahead(g)
    PROVE  f = g
<1>1. /\ NumFrames \in Nat \ {0} /\ hand \in Nat /\ f \in Nat /\ hand < NumFrames /\ f < NumFrames
      /\ g \in Nat /\ g < NumFrames
  BY NumFramesAssumption DEF Frames
<1>2. /\ hand <= f => Ahead(f) = f - hand
      /\ ~(hand <= f) => Ahead(f) = f - hand + NumFrames
  BY AheadIs
<1>3. /\ hand <= g => Ahead(g) = g - hand
      /\ ~(hand <= g) => Ahead(g) = g - hand + NumFrames
  BY AheadIs
<1> QED BY <1>1, <1>2, <1>3

\* The hand moves one frame on, and comes back to where it was.
LEMMA TurnIs ==
    ASSUME hand \in Frames, NEW f \in Frames
    PROVE  /\ Turn(f) \in Frames
           /\ Ahead(Turn(f)) = IF Ahead(f) + 1 < NumFrames THEN Ahead(f) + 1 ELSE 0
<1>1. /\ NumFrames \in Nat \ {0} /\ hand \in Nat /\ f \in Nat /\ hand < NumFrames /\ f < NumFrames
  BY NumFramesAssumption DEF Frames
<1>2. PICK x \in Nat : x = f + 1 /\ x < 2 * NumFrames BY <1>1
<1>3. x % NumFrames = IF x < NumFrames THEN x ELSE x - NumFrames BY <1>1, <1>2, TwoTurns
<1>4. PICK t : t = Turn(f) OBVIOUS
<1>5. t = IF x < NumFrames THEN x ELSE x - NumFrames BY <1>2, <1>3, <1>4 DEF Turn
<1>6. t \in Frames /\ t \in Nat BY <1>1, <1>2, <1>5 DEF Frames
<1>7. /\ hand <= f => Ahead(f) = f - hand
      /\ ~(hand <= f) => Ahead(f) = f - hand + NumFrames
  BY AheadIs
<1>8. /\ hand <= t => Ahead(t) = t - hand
      /\ ~(hand <= t) => Ahead(t) = t - hand + NumFrames
  BY <1>6, AheadIs
<1>9. Ahead(t) = IF Ahead(f) + 1 < NumFrames THEN Ahead(f) + 1 ELSE 0
  <2>1. CASE x < NumFrames
    <3>1. t = f + 1 BY <1>2, <1>5, <2>1
    <3> QED BY <1>1, <1>7, <1>8, <3>1, <2>1, <1>2
  <2>2. CASE ~(x < NumFrames)
    <3>1. t = 0 /\ f = NumFrames - 1 BY <1>1, <1>2, <1>5, <2>2
    <3> QED BY <1>1, <1>7, <1>8, <3>1
  <2> QED BY <2>1, <2>2
<1> QED BY <1>4, <1>6, <1>9

-----------------------------------------------------------------------------
(* CLOCK *)

Search == [victim : Frames \cup {NoFrame}, hand : Frames, ref : SUBSET ref, mod : SUBSET mod]

\* No frame is the one that stands for none.
LEMMA NoFrameIs == NoFrame \notin Frames
BY NumFramesAssumption DEF NoFrame, Frames

\* Where the search starts.
LEMMA FirstIs ==
    ASSUME hand \in Frames
    PROVE  /\ First \in Search /\ First.victim = NoFrame /\ First.hand = hand
           /\ First.ref = ref /\ First.mod = mod
BY DEF First, Outcome, Search

Ticked(d, c, R, M, v) ==
    d \in Search /\ d.hand = Turn(c.hand) /\ d.ref = R /\ d.mod = M /\ d.victim = v

\* A step of CLOCK's hand, field by field.
LEMMA ClockStepIs ==
    ASSUME hand \in Frames, NEW c \in Search, c.victim = NoFrame,
           NEW R, R = IF c.hand \in Evictable THEN c.ref \ {c.hand} ELSE c.ref,
           NEW v, v = IF c.hand \in Evictable \ c.ref THEN c.hand ELSE NoFrame
    PROVE  Ticked(ClockStep(c), c, R, c.mod, v)
<1>1. c.hand \in Frames /\ c.ref \in SUBSET ref /\ c.mod \in SUBSET mod BY DEF Search
<1>2. PICK h \in Frames : h = Turn(c.hand) BY <1>1, TurnIs
<1>3. R \in SUBSET ref /\ v \in Frames \cup {NoFrame} BY <1>1
<1>4. PICK d : d = [c EXCEPT !.hand = h, !.ref = R, !.victim = v] OBVIOUS
<1>5. ClockStep(c) = d BY <1>2, <1>4 DEF ClockStep
<1>6. d = [victim |-> v, hand |-> h, ref |-> R, mod |-> c.mod] BY <1>4 DEF Search
<1>7. d \in Search BY <1>1, <1>3, <1>6 DEF Search
<1>8. d.hand = h /\ d.ref = R /\ d.mod = c.mod /\ d.victim = v BY <1>6
<1> QED BY <1>2, <1>5, <1>7, <1>8 DEF Ticked

\* How far the hand is after i steps.
Passes(i) == IF i < NumFrames THEN i ELSE IF i < 2 * NumFrames THEN i - NumFrames ELSE 0

\* The hand after one more step.
LEMMA PassesOn ==
    ASSUME hand \in Frames, NEW f \in Frames, NEW i \in Nat, i < 2 * NumFrames,
           Ahead(f) = Passes(i)
    PROVE  Ahead(Turn(f)) = Passes(i + 1)
<1>1. NumFrames \in Nat \ {0} BY NumFramesAssumption
<1>2. Ahead(Turn(f)) = IF Ahead(f) + 1 < NumFrames THEN Ahead(f) + 1 ELSE 0 BY TurnIs
<1>3. CASE i < NumFrames
  <2>1. Ahead(f) = i BY <1>3 DEF Passes
  <2> QED BY <1>1, <1>2, <1>3, <2>1 DEF Passes
<1>4. CASE ~(i < NumFrames)
  <2>1. Ahead(f) = i - NumFrames BY <1>4 DEF Passes
  <2> QED BY <1>1, <1>2, <1>4, <2>1 DEF Passes
<1> QED BY <1>3, <1>4

\* What SecondChance says of an outcome.
Chosen(o) ==
    LET idle   == Evictable \ ref
        choice == IF idle = {} THEN Evictable ELSE idle
    IN  /\ o.victim \in choice
        /\ \A f \in choice : Ahead(o.victim) <= Ahead(f)
        /\ o.hand = Turn(o.victim)
        /\ o.ref = IF idle = {} THEN ref \ Evictable
                   ELSE ref \ {f \in Evictable : Ahead(f) < Ahead(o.victim)}

\* After i steps without a victim: the evictable frames that the hand has passed were
\* referenced and are not any more, and it has passed none a second time.
Passed(c, i) ==
    /\ Ahead(c.hand) = Passes(i)
    /\ c.ref = ref \ {f \in Evictable : Ahead(f) < i}
    /\ \A f \in Evictable : Ahead(f) < i => f \in ref
    /\ \A f \in Evictable : i <= Ahead(f) + NumFrames

\* A step that finds a victim.
LEMMA ClockFinds ==
    ASSUME hand \in Frames, Evictable \subseteq Frames, NEW c \in Search, NEW i \in Nat,
           i < 2 * NumFrames, Passed(c, i), c.hand \in Evictable, c.hand \notin c.ref,
           NEW d, d.victim = c.hand, d.hand = Turn(c.hand), d.ref = c.ref \ {c.hand}
    PROVE  Chosen(d)
<1>1. PICK f \in Evictable : f = c.hand OBVIOUS
<1>2. NumFrames \in Nat \ {0} BY NumFramesAssumption
<1>3. d.ref = c.ref /\ d.victim = f /\ d.hand = Turn(f) BY <1>1
<1>4. \A g \in Evictable : Ahead(g) \in Nat /\ Ahead(g) < NumFrames BY AheadIs
<1>5. CASE i < NumFrames
  <2>1. Ahead(f) = i BY <1>1, <1>5 DEF Passed, Passes
  <2>2. f \notin ref BY <1>1, <2>1 DEF Passed
  <2>3. \A g \in Evictable \ ref : Ahead(f) <= Ahead(g) BY <1>4, <2>1 DEF Passed
  <2>4. c.ref = ref \ {g \in Evictable : Ahead(g) < Ahead(f)} BY <2>1 DEF Passed
  <2> QED BY <1>1, <1>3, <2>2, <2>3, <2>4 DEF Chosen
<1>6. CASE ~(i < NumFrames)
  <2>1. Ahead(f) = i - NumFrames BY <1>1, <1>6 DEF Passed, Passes
  <2>2. \A g \in Evictable : Ahead(g) < i BY <1>2, <1>4, <1>6
  <2>3. Evictable \subseteq ref BY <2>2 DEF Passed
  <2>4. \A g \in Evictable : Ahead(f) <= Ahead(g) BY <1>2, <1>4, <2>1 DEF Passed
  <2>5. c.ref = ref \ Evictable BY <2>2 DEF Passed
  <2>6. Evictable \ ref = {} BY <2>3
  <2> QED BY <1>1, <1>3, <2>4, <2>5, <2>6 DEF Chosen
<1> QED BY <1>5, <1>6

\* A step that does not.
LEMMA ClockPasses ==
    ASSUME hand \in Frames, Evictable \subseteq Frames, NEW c \in Search, NEW i \in Nat,
           i < 2 * NumFrames, Passed(c, i), c.hand \in Evictable => c.hand \in c.ref,
           NEW d, d.hand = Turn(c.hand),
           d.ref = IF c.hand \in Evictable THEN c.ref \ {c.hand} ELSE c.ref
    PROVE  Passed(d, i + 1)
<1>1. PICK f \in Frames : f = c.hand BY DEF Search
<1>2. NumFrames \in Nat \ {0} BY NumFramesAssumption
<1>3. \A g \in Evictable : Ahead(g) \in Nat /\ Ahead(g) < NumFrames BY AheadIs
<1>4. \A g \in Evictable : Ahead(g) = Ahead(f) => g = f BY AheadOnce
<1>5. Ahead(f) = Passes(i) BY <1>1 DEF Passed
<1>6. Ahead(d.hand) = Passes(i + 1) BY <1>1, <1>5, PassesOn
<1>7. f \in Evictable => f \in c.ref /\ ~(Ahead(f) < i) /\ f \in ref BY <1>1 DEF Passed
<1>8. CASE i < NumFrames
  <2>1. Ahead(f) = i BY <1>5, <1>8 DEF Passes
  <2>2. \A g \in Evictable : Ahead(g) < i + 1 <=> Ahead(g) < i \/ g = f BY <1>3, <1>4, <2>1
  <2>3. d.ref = ref \ {g \in Evictable : Ahead(g) < i + 1} BY <1>1, <2>2 DEF Passed
  <2>4. \A g \in Evictable : Ahead(g) < i + 1 => g \in ref BY <1>7, <2>2 DEF Passed
  <2>5. \A g \in Evictable : i + 1 <= Ahead(g) + NumFrames BY <1>2, <1>3, <1>8
  <2> QED BY <1>6, <2>3, <2>4, <2>5 DEF Passed
<1>9. CASE ~(i < NumFrames)
  <2>1. Ahead(f) = i - NumFrames BY <1>5, <1>9 DEF Passes
  <2>2. f \notin Evictable BY <1>2, <1>7, <2>1
  <2>3. \A g \in Evictable : Ahead(g) < i + 1 /\ Ahead(g) < i BY <1>2, <1>3, <1>9
  <2>4. d.ref = ref \ {g \in Evictable : Ahead(g) < i + 1} BY <1>1, <2>2, <2>3 DEF Passed
  <2>5. \A g \in Evictable : Ahead(g) # i - NumFrames BY <1>4, <2>1, <2>2
  <2>6. \A g \in Evictable : i + 1 <= Ahead(g) + NumFrames BY <1>2, <1>3, <2>5 DEF Passed
  <2> QED BY <1>6, <2>3, <2>4, <2>6 DEF Passed
<1> QED BY <1>8, <1>9

Swept(c, i) ==
    c \in Search /\ c.mod = mod /\ IF c.victim = NoFrame THEN Passed(c, i) ELSE Chosen(c)

\* A step of the search.
LEMMA ClockOn ==
    ASSUME hand \in Frames, Evictable \subseteq Frames, NEW c, NEW i \in Nat,
           i < 2 * NumFrames, Swept(c, i)
    PROVE  Swept(ClockStep(c), i + 1)
<1>1. c \in Search /\ c.mod = mod BY DEF Swept
<1>2. CASE c.victim # NoFrame
  <2>1. ClockStep(c) = c BY <1>2 DEF ClockStep
  <2> QED BY <1>2, <2>1 DEF Swept
<1>3. CASE c.victim = NoFrame
  <2>1. Passed(c, i) BY <1>3 DEF Swept
  <2>2. PICK R : R = IF c.hand \in Evictable THEN c.ref \ {c.hand} ELSE c.ref OBVIOUS
  <2>3. PICK v : v = IF c.hand \in Evictable \ c.ref THEN c.hand ELSE NoFrame OBVIOUS
  <2>4. PICK d : d = ClockStep(c) OBVIOUS
  <2>5. Ticked(d, c, R, c.mod, v) BY <1>1, <1>3, <2>2, <2>3, <2>4, ClockStepIs
  <2>6. d \in Search /\ d.hand = Turn(c.hand) /\ d.ref = R /\ d.mod = mod /\ d.victim = v
    BY <1>1, <2>5 DEF Ticked
  <2>7. CASE c.hand \in Evictable /\ c.hand \notin c.ref
    <3>1. d.victim = c.hand /\ d.ref = c.ref \ {c.hand} BY <2>2, <2>3, <2>6, <2>7
    <3>2. Chosen(d) BY <1>1, <2>1, <2>6, <2>7, <3>1, ClockFinds
    <3>3. d.victim # NoFrame BY <2>7, <3>1, NoFrameIs
    <3> QED BY <2>4, <2>6, <3>2, <3>3 DEF Swept
  <2>8. CASE c.hand \in Evictable => c.hand \in c.ref
    <3>1. Passed(d, i + 1) BY <1>1, <2>1, <2>2, <2>6, <2>8, ClockPasses
    <3>2. d.victim = NoFrame BY <2>3, <2>6, <2>8
    <3> QED BY <2>4, <2>6, <3>1, <3>2 DEF Swept
  <2> QED BY <2>7, <2>8
<1> QED BY <1>2, <1>3

\* The search after two turns.
LEMMA ClockSwept ==
    ASSUME hand \in Frames, Evictable \subseteq Frames, NEW k \in Nat, k = 2 * NumFrames
    PROVE  Swept(ClockSweep(k), k)
<1>1. PICK g : Computes(g, "clock", 0, 0, First, k) /\ ClockSweep(k) = g[k] BY ClockIs
<1> DEFINE P == {n \in Nat : Swept(g[n], n)}
<1>2. 0 \in P
  <2>1. g[0] = First BY <1>1 DEF Computes
  <2>2. NumFrames \in Nat \ {0} BY NumFramesAssumption
  <2>3. \A f \in Evictable : Ahead(f) \in Nat BY AheadIs
  <2>4. First \in Search /\ First.victim = NoFrame /\ First.hand = hand
        /\ First.ref = ref /\ First.mod = mod
    BY FirstIs
  <2>5. hand \in Nat /\ Ahead(hand) = hand - hand BY AheadIs DEF Frames
  <2>6. Ahead(First.hand) = Passes(0) BY <2>2, <2>4, <2>5 DEF Passes
  <2>7. {f \in Evictable : Ahead(f) < 0} = {} BY <2>3
  <2>8. Passed(First, 0) BY <2>2, <2>3, <2>4, <2>6, <2>7 DEF Passed
  <2>9. Swept(First, 0) BY <2>4, <2>8 DEF Swept
  <2> QED BY <2>1, <2>9
<1>3. ASSUME NEW n \in Nat, n < k, n \in P PROVE n + 1 \in P
  <2>1. PICK m \in Nat : m = n + 1 OBVIOUS
  <2>2. m \in 0 .. k /\ m # 0 /\ m - 1 = n BY <1>3, <2>1
  <2>3. g[m] = Rec("clock", 0, 0, m, g[n]) BY <1>1, <2>2 DEF Computes
  <2>4. g[m] = ClockStep(g[n]) BY <2>3 DEF Rec
  <2>5. Swept(ClockStep(g[n]), n + 1) BY <1>3, ClockOn
  <2> QED BY <2>1, <2>4, <2>5
<1> HIDE DEF P
<1>4. \A n \in 0 .. k : n \in P BY <1>2, <1>3, Climb
<1>5. k \in P BY <1>4
<1> QED BY <1>1, <1>5 DEF P

\* CLOCK finds a victim if there is one, and it is the one that SecondChance says.
LEMMA ClockFound ==
    ASSUME hand \in Frames, Evictable \subseteq Frames
    PROVE  /\ ClockVictim = {} <=> Evictable = {}
           /\ \A o \in ClockVictim : o \in Search /\ o.mod = mod /\ Chosen(o)
<1>1. PICK k \in Nat : k = 2 * NumFrames BY NumFramesAssumption
<1>2. PICK c : c = ClockSweep(k) OBVIOUS
<1>3. Swept(c, k) BY <1>1, <1>2, ClockSwept
<1>4. ClockVictim = IF c.victim # NoFrame THEN {c} ELSE FromStart(c, Evictable)
  BY <1>1, <1>2 DEF ClockVictim
<1>5. CASE c.victim # NoFrame
  <2>1. ClockVictim = {c} BY <1>4, <1>5
  <2>2. c \in Search /\ c.mod = mod /\ Chosen(c) BY <1>3, <1>5 DEF Swept
  <2>3. c.victim \in Evictable BY <2>2 DEF Chosen
  <2> QED BY <2>1, <2>2, <2>3
<1>6. CASE c.victim = NoFrame
  <2>1. ClockVictim = FromStart(c, Evictable) BY <1>4, <1>6
  <2>2. \A f \in Evictable : k <= Ahead(f) + NumFrames BY <1>3, <1>6 DEF Swept, Passed
  <2>3. \A f \in Evictable : Ahead(f) \in Nat /\ Ahead(f) < NumFrames BY AheadIs
  <2>4. Evictable = {} BY <1>1, <2>2, <2>3, NumFramesAssumption
  <2>5. ClockVictim = {} BY <2>1, <2>4 DEF FromStart, Lowest
  <2> QED BY <2>4, <2>5
<1> QED BY <1>5, <1>6

-----------------------------------------------------------------------------
(* WSClock *)

\* A step of WSClock's hand, field by field.
LEMMA WSStepIs ==
    ASSUME hand \in Frames, NEW A, NEW c \in Search, c.victim = NoFrame,
           NEW idle, idle = (c.hand \in (Evictable \cap A) \ c.ref),
           NEW R, R = IF c.hand \in Evictable THEN c.ref \ {c.hand} ELSE c.ref,
           NEW M, M = IF idle THEN c.mod \ {c.hand} ELSE c.mod,
           NEW v, v = IF idle /\ c.hand \notin c.mod THEN c.hand ELSE NoFrame
    PROVE  Ticked(WSStep(A, c), c, R, M, v)
<1>1. c.hand \in Frames /\ c.ref \in SUBSET ref /\ c.mod \in SUBSET mod BY DEF Search
<1>2. PICK h \in Frames : h = Turn(c.hand) BY <1>1, TurnIs
<1>3. R \in SUBSET ref /\ M \in SUBSET mod /\ v \in Frames \cup {NoFrame} BY <1>1
<1>4. PICK d : d = [c EXCEPT !.hand = h, !.ref = R, !.mod = M, !.victim = v] OBVIOUS
<1>5. WSStep(A, c) = d BY <1>2, <1>4 DEF WSStep
<1>6. d = [victim |-> v, hand |-> h, ref |-> R, mod |-> M] BY <1>4 DEF Search
<1>7. d \in Search BY <1>3, <1>6 DEF Search
<1>8. d.hand = h /\ d.ref = R /\ d.mod = M /\ d.victim = v BY <1>6
<1> QED BY <1>2, <1>5, <1>7, <1>8 DEF Ticked

\* After i steps without a victim: the evictable frames that the hand has passed are
\* not referenced, and those in A that it has passed twice are clean; no other frame
\* has lost a bit.
Cleaned(A, c, i) ==
    /\ Ahead(c.hand) = Passes(i)
    /\ ref \ Evictable \subseteq c.ref /\ mod \ Evictable \subseteq c.mod
    /\ \A f \in Evictable : Ahead(f) < i => f \notin c.ref
    /\ \A f \in Evictable \cap A : Ahead(f) + NumFrames < i => f \notin c.mod

WSSwept(A, c, i) ==
    c \in Search /\ IF c.victim = NoFrame THEN Cleaned(A, c, i) ELSE c.victim \in Evictable \cap A

\* A step of the search.
LEMMA WSOn ==
    ASSUME hand \in Frames, Evictable \subseteq Frames, NEW A, NEW c, NEW i \in Nat,
           i < 2 * NumFrames, WSSwept(A, c, i)
    PROVE  WSSwept(A, WSStep(A, c), i + 1)
<1>1. c \in Search BY DEF WSSwept
<1>2. CASE c.victim # NoFrame
  <2>1. WSStep(A, c) = c BY <1>2 DEF WSStep
  <2> QED BY <1>2, <2>1 DEF WSSwept
<1>3. CASE c.victim = NoFrame
  <2>1. Cleaned(A, c, i) BY <1>3 DEF WSSwept
  <2>2. PICK f \in Frames : f = c.hand BY <1>1 DEF Search
  <2>3. PICK idle : idle = (c.hand \in (Evictable \cap A) \ c.ref) OBVIOUS
  <2>4. PICK R : R = IF c.hand \in Evictable THEN c.ref \ {c.hand} ELSE c.ref OBVIOUS
  <2>5. PICK M : M = IF idle THEN c.mod \ {c.hand} ELSE c.mod OBVIOUS
  <2>6. PICK v : v = IF idle /\ c.hand \notin c.mod THEN c.hand ELSE NoFrame OBVIOUS
  <2>7. PICK d : d = WSStep(A, c) OBVIOUS
  <2>8. Ticked(d, c, R, M, v) BY <1>1, <1>3, <2>3, <2>4, <2>5, <2>6, <2>7, WSStepIs
  <2>9. d \in Search /\ d.hand = Turn(f) /\ d.ref = R /\ d.mod = M /\ d.victim = v
    BY <2>2, <2>8 DEF Ticked
  <2>10. CASE v # NoFrame
    <3>1. v \in Evictable \cap A BY <2>3, <2>6, <2>10
    <3> QED BY <2>7, <2>9, <2>10, <3>1 DEF WSSwept
  <2>11. CASE v = NoFrame
    <3>1. NumFrames \in Nat \ {0} BY NumFramesAssumption
    <3>2. \A g \in Evictable : Ahead(g) \in Nat /\ Ahead(g) < NumFrames BY AheadIs
    <3>3. \A g \in Evictable : Ahead(g) = Ahead(f) => g = f BY AheadOnce
    <3>4. Ahead(f) = Passes(i) BY <2>1, <2>2 DEF Cleaned
    <3>5. Ahead(d.hand) = Passes(i + 1) BY <2>9, <3>4, PassesOn
    <3>6. f \in Evictable => f \notin d.ref BY <2>2, <2>4, <2>9
    <3>7. d.ref \subseteq c.ref /\ d.mod \subseteq c.mod BY <2>4, <2>5, <2>9
    <3>8. ref \ Evictable \subseteq d.ref /\ mod \ Evictable \subseteq d.mod
      BY <2>1, <2>3, <2>4, <2>5, <2>9 DEF Cleaned
    <3>9. CASE i < NumFrames
      <4>1. Ahead(f) = i BY <3>4, <3>9 DEF Passes
      <4>2. \A g \in Evictable : Ahead(g) < i + 1 => Ahead(g) < i \/ g = f BY <3>2, <3>3, <4>1
      <4>3. \A g \in Evictable : Ahead(g) < i + 1 => g \notin d.ref
        BY <2>1, <3>6, <3>7, <4>2 DEF Cleaned
      <4>4. \A g \in Evictable : ~(Ahead(g) + NumFrames < i + 1) BY <3>1, <3>2, <3>9
      <4>5. Cleaned(A, d, i + 1) BY <3>5, <3>8, <4>3, <4>4 DEF Cleaned
      <4> QED BY <2>7, <2>9, <2>11, <4>5 DEF WSSwept
    <3>10. CASE ~(i < NumFrames)
      <4>1. Ahead(f) = i - NumFrames BY <3>4, <3>10 DEF Passes
      <4>2. \A g \in Evictable : Ahead(g) < i BY <3>1, <3>2, <3>10
      <4>3. \A g \in Evictable : g \notin c.ref BY <2>1, <4>2 DEF Cleaned
      <4>4. \A g \in Evictable : g \notin d.ref BY <3>7, <4>3
      <4>5. f \in Evictable \cap A => idle BY <2>2, <2>3, <4>3
      <4>6. f \in Evictable \cap A => f \notin d.mod BY <2>2, <2>5, <2>9, <4>5
      <4>7. \A g \in Evictable : Ahead(g) + NumFrames < i + 1 => Ahead(g) + NumFrames < i \/ g = f
        BY <3>1, <3>2, <3>3, <4>1
      <4>8. \A g \in Evictable \cap A : Ahead(g) + NumFrames < i + 1 => g \notin d.mod
        BY <2>1, <3>7, <4>6, <4>7 DEF Cleaned
      <4>9. Cleaned(A, d, i + 1) BY <3>5, <3>8, <4>4, <4>8 DEF Cleaned
      <4> QED BY <2>7, <2>9, <2>11, <4>9 DEF WSSwept
    <3> QED BY <3>9, <3>10
  <2> QED BY <2>10, <2>11
<1> QED BY <1>2, <1>3

\* The search after two turns.
LEMMA WSTurned ==
    ASSUME hand \in Frames, Evictable \subseteq Frames, NEW A, NEW k \in Nat, k = 2 * NumFrames
    PROVE  WSSwept(A, WSSweep(A), k)
<1>1. PICK g : Computes(g, "ws", A, 0, First, k) /\ WSSweep(A) = g[k] BY WSIs
<1> DEFINE P == {n \in Nat : WSSwept(A, g[n], n)}
<1>2. 0 \in P
  <2>1. g[0] = First BY <1>1 DEF Computes
  <2>2. NumFrames \in Nat \ {0} BY NumFramesAssumption
  <2>3. \A f \in Evictable : Ahead(f) \in Nat BY AheadIs
  <2>4. First \in Search /\ First.victim = NoFrame /\ First.hand = hand
        /\ First.ref = ref /\ First.mod = mod
    BY FirstIs
  <2>5. hand \in Nat /\ Ahead(hand) = hand - hand BY AheadIs DEF Frames
  <2>6. Ahead(First.hand) = Passes(0) BY <2>2, <2>4, <2>5 DEF Passes
  <2>7. Cleaned(A, First, 0) BY <2>2, <2>3, <2>4, <2>6 DEF Cleaned
  <2>8. WSSwept(A, First, 0) BY <2>4, <2>7 DEF WSSwept
  <2> QED BY <2>1, <2>8
<1>3. ASSUME NEW n \in Nat, n < k, n \in P PROVE n + 1 \in P
  <2>1. PICK m \in Nat : m = n + 1 OBVIOUS
  <2>2. m \in 0 .. k /\ m # 0 /\ m - 1 = n BY <1>3, <2>1
  <2>3. g[m] = Rec("ws", A, 0, m, g[n]) BY <1>1, <2>2 DEF Computes
  <2>4. g[m] = WSStep(A, g[n]) BY <2>3 DEF Rec
  <2>5. WSSwept(A, WSStep(A, g[n]), n + 1) BY <1>3, WSOn
  <2> QED BY <2>1, <2>4, <2>5
<1> HIDE DEF P
<1>4. \A n \in 0 .. k : n \in P BY <1>2, <1>3, Climb
<1>5. k \in P BY <1>4
<1> QED BY <1>1, <1>5 DEF P

\* What a search takes from the start of the frames.
LEMMA FromStartIs ==
    ASSUME hand \in Frames, NEW c \in Search, NEW S \in SUBSET Frames
    PROVE  /\ \A o \in FromStart(c, S) : o \in Search /\ o.victim \in S
           /\ FromStart(c, S) = {} <=> S = {}
<1>1. Lowest(S) \subseteq S /\ (S # {} => Lowest(S) # {}) BY LowestIs
<1>2. ASSUME NEW f \in Lowest(S)
      PROVE  /\ [c EXCEPT !.victim = f, !.hand = Turn(f)] \in Search
             /\ [c EXCEPT !.victim = f, !.hand = Turn(f)].victim = f
  <2>1. f \in Frames BY <1>1
  <2>2. PICK h \in Frames : h = Turn(f) BY <2>1, TurnIs
  <2>3. PICK d : d = [c EXCEPT !.victim = f, !.hand = h] OBVIOUS
  <2>4. d = [victim |-> f, hand |-> h, ref |-> c.ref, mod |-> c.mod] BY <2>3 DEF Search
  <2>5. c.ref \in SUBSET ref /\ c.mod \in SUBSET mod BY DEF Search
  <2>6. d \in Search /\ d.victim = f BY <2>1, <2>4, <2>5 DEF Search
  <2> QED BY <2>2, <2>3, <2>6
<1>3. S = {} => Lowest(S) = {} BY <1>1
<1> QED BY <1>1, <1>2, <1>3 DEF FromStart

\* WSClock finds a victim if there is one, and one outside of the working set if some
\* evictable frame is.
LEMMA WSFound ==
    ASSUME hand \in Frames, Evictable \subseteq Frames, NEW A, NEW B, A \subseteq B
    PROVE  /\ WSClockVictim(A, B) = {} <=> Evictable = {}
           /\ \A o \in WSClockVictim(A, B) :
                o \in Search /\ o.victim \in Evictable
                /\ (Evictable \cap A # {} => o.victim \in B)
<1>1. PICK k \in Nat : k = 2 * NumFrames BY NumFramesAssumption
<1>2. PICK c : c = WSSweep(A) OBVIOUS
<1>3. WSSwept(A, c, k) BY <1>1, <1>2, WSTurned
<1>4. c \in Search BY <1>3 DEF WSSwept
<1>5. PICK aged : aged = (Evictable \cap B) \ c.mod OBVIOUS
<1>6. WSClockVictim(A, B) = IF c.victim # NoFrame THEN {c}
                            ELSE IF aged # {} THEN FromStart(c, aged)
                            ELSE FromStart(c, Evictable)
  BY <1>2, <1>5 DEF WSClockVictim, WSChoose
<1>7. CASE c.victim # NoFrame
  <2>1. c.victim \in Evictable \cap A BY <1>3, <1>7 DEF WSSwept
  <2>2. WSClockVictim(A, B) = {c} BY <1>6, <1>7
  <2> QED BY <1>4, <2>1, <2>2
<1>8. CASE c.victim = NoFrame /\ aged # {}
  <2>1. WSClockVictim(A, B) = FromStart(c, aged) BY <1>6, <1>8
  <2>2. aged \in SUBSET Frames /\ aged \subseteq Evictable \cap B BY <1>5
  <2>3. /\ \A o \in FromStart(c, aged) : o \in Search /\ o.victim \in aged
        /\ FromStart(c, aged) = {} <=> aged = {}
    BY <1>4, <2>2, FromStartIs
  <2> QED BY <1>8, <2>1, <2>2, <2>3
<1>9. CASE c.victim = NoFrame /\ aged = {}
  <2>1. WSClockVictim(A, B) = FromStart(c, Evictable) BY <1>6, <1>9
  <2>2. /\ \A o \in FromStart(c, Evictable) : o \in Search /\ o.victim \in Evictable
        /\ FromStart(c, Evictable) = {} <=> Evictable = {}
    BY <1>4, FromStartIs
  <2>3. \A f \in Evictable \cap A : Ahead(f) + NumFrames < k => f \notin c.mod
    BY <1>3, <1>9 DEF WSSwept, Cleaned
  <2>4. \A f \in Evictable : Ahead(f) \in Nat /\ Ahead(f) < NumFrames BY AheadIs
  <2>5. \A f \in Evictable : Ahead(f) + NumFrames < k BY <1>1, <2>4, NumFramesAssumption
  <2>6. Evictable \cap A \subseteq aged BY <1>5, <2>3, <2>5
  <2> QED BY <1>9, <2>1, <2>2, <2>6
<1> QED BY <1>7, <1>8, <1>9

-----------------------------------------------------------------------------
(* The inductive invariant *)

Fields == [target : Int, since : 0 .. AdjustInterval + 1]

PolicyOK == alg \in Algs /\ hand \in Frames /\ ticks \in 0 .. ClearPeriod /\ pff \in Fields

OrdersOK ==
    /\ Order(loaded) /\ Order(touched) /\ Order(lastUse)
    /\ Elements(touched) = Used /\ Elements(lastUse) = Used

BitsOK ==
    /\ ref \subseteq Used /\ mod \subseteq Used /\ blind \subseteq Used
    /\ pinned \subseteq Pinnable /\ count \in [Frames -> 0 .. MaxCount + 1]

\* What is after a frame by LastAccess is after it by use, if the last use of that frame
\* itself was recorded: unrecorded uses only make frames newer than LastAccess says.
SameOrder ==
    \A f \in Used \ blind : \A g \in Used : Before(touched, f, g) => Before(lastUse, f, g)

IInv == PolicyOK /\ OrdersOK /\ BitsOK /\ SameOrder

\* Only frames are in use.
LEMMA UsedIs ==
    ASSUME OrdersOK
    PROVE  Used \subseteq Frames /\ Evictable \subseteq Used /\ Evictable \subseteq Frames
<1>1. Used \subseteq Frames BY BeforeIn DEF OrdersOK, Used
<1> QED BY <1>1 DEF Evictable

-----------------------------------------------------------------------------
(* The searches *)

Found(S) ==
    /\ \A o \in S : o \in Search /\ o.victim \in Evictable
    /\ S = {} <=> Evictable = {}

\* A search that only picks.
LEMMA PickFound ==
    ASSUME hand \in Frames, Evictable \subseteq Frames, NEW R \in SUBSET ref,
           NEW T \in SUBSET Evictable, Evictable # {} => T # {}
    PROVE  Found({Outcome(f, hand, R, mod) : f \in T})
<1>1. \A f \in T : Outcome(f, hand, R, mod) \in Search /\ Outcome(f, hand, R, mod).victim = f
  BY DEF Outcome, Search
<1>2. {Outcome(f, hand, R, mod) : f \in T} = {} <=> T = {} OBVIOUS
<1>3. T = {} <=> Evictable = {} OBVIOUS
<1> QED BY <1>1, <1>2, <1>3 DEF Found

\* A search that takes the first of some frames of an order.
LEMMA FirstFound ==
    ASSUME hand \in Frames, Evictable \subseteq Frames, NEW q, Order(q),
           Evictable \subseteq Elements(q), NEW T \in SUBSET Evictable, Evictable # {} => T # {}
    PROVE  Found(Pick(FirstIn(q, T)))
<1>1. FirstIn(q, T) \in SUBSET Evictable
  <2>1. \A f : f \in FirstIn(q, T) => f \in T BY FirstInIs
  <2> QED BY <2>1
<1>2. ASSUME Evictable # {} PROVE FirstIn(q, T) # {}
  <2>1. PICK e \in T : e \in Elements(q) BY <1>2
  <2>2. PICK f \in T : f \in Elements(q) /\ FirstIn(q, T) = {f} BY <2>1, FirstInOne
  <2> QED BY <2>2
<1>3. ref \in SUBSET ref OBVIOUS
<1>4. Found({Outcome(f, hand, ref, mod) : f \in FirstIn(q, T)})
  BY <1>1, <1>2, <1>3, PickFound
<1> QED BY <1>4 DEF Pick

\* Some frames have one with the least count.
LEMMA LeastCount ==
    ASSUME NEW S, S # {}, NEW n \in [S -> Nat]
    PROVE  \E f \in S : \A g \in S : n[f] <= n[g]
<1> DEFINE N == {n[f] : f \in S}
<1>1. N \in SUBSET Nat /\ N # {} OBVIOUS
<1>2. PICK m \in N : \A k \in N : m <= k BY <1>1, LeastNumber
<1> QED BY <1>2

\* LFU finds a victim.
LEMMA LFUFound ==
    ASSUME hand \in Frames, OrdersOK, BitsOK
    PROVE  Found(LFUVictim)
<1>1. Evictable \subseteq Frames /\ Evictable \subseteq Elements(touched) /\ Order(touched)
  BY UsedIs DEF OrdersOK
<1>2. PICK T : T = {f \in Evictable : \A g \in Evictable : count[f] <= count[g]} OBVIOUS
<1>3. ASSUME Evictable # {} PROVE T # {}
  <2>1. PICK n : n = [f \in Evictable |-> count[f]] OBVIOUS
  <2>2. n \in [Evictable -> Nat] BY <1>1, <2>1, CountsAssumption DEF BitsOK
  <2>3. PICK f \in Evictable : \A g \in Evictable : n[f] <= n[g] BY <1>3, <2>2, LeastCount
  <2>4. \A g \in Evictable : count[f] <= count[g] BY <2>1, <2>3
  <2> QED BY <1>2, <2>4
<1>4. T \in SUBSET Evictable BY <1>2
<1>5. Found(Pick(FirstIn(touched, T))) BY <1>1, <1>3, <1>4, FirstFound
<1> QED BY <1>2, <1>5 DEF LFUVictim

\* NRU finds a victim.
LEMMA NRUFound ==
    ASSUME hand \in Frames, OrdersOK
    PROVE  Found(NRUVictim)
<1>1. Evictable \subseteq Frames BY UsedIs
<1>2. PICK R \in SUBSET ref : R = IF ticks >= ClearPeriod THEN ref \ Used ELSE ref OBVIOUS
<1> DEFINE class(f) == (IF f \in R THEN 2 ELSE 0) + (IF f \in mod THEN 1 ELSE 0)
<1>3. PICK T : T = {f \in Evictable : \A g \in Evictable : class(f) <= class(g)} OBVIOUS
<1>4. ASSUME Evictable # {} PROVE T # {}
  <2>1. PICK n : n = [f \in Evictable |-> class(f)] OBVIOUS
  <2>2. n \in [Evictable -> Nat] BY <2>1
  <2>3. PICK f \in Evictable : \A g \in Evictable : n[f] <= n[g] BY <1>4, <2>2, LeastCount
  <2>4. \A g \in Evictable : class(f) <= class(g) BY <2>1, <2>3
  <2> QED BY <1>3, <2>4
<1>5. T \in SUBSET Evictable BY <1>3
<1>6. Found({Outcome(f, hand, R, mod) : f \in T}) BY <1>1, <1>4, <1>5, PickFound
<1>7. NRUVictim = {Outcome(f, hand, R, mod) : f \in T} BY <1>2, <1>3 DEF NRUVictim
<1> QED BY <1>6, <1>7

\* Optimal and OPT+ find a victim, whatever the scores.
LEMMA FarthestFound ==
    ASSUME hand \in Frames, OrdersOK, NEW score \in Scores
    PROVE  Found(FarthestVictim(score))
<1>1. Evictable \subseteq Frames BY UsedIs
<1>2. NumFrames \in Nat \ {0} BY NumFramesAssumption
<1>3. PICK T : T = {f \in Evictable : \A g \in Evictable : score[g] <= score[f]} OBVIOUS
<1>4. ASSUME Evictable # {} PROVE T # {}
  <2>1. PICK n : n = [f \in Evictable |-> NumFrames - 1 - score[f]] OBVIOUS
  <2>2. \A f \in Evictable : score[f] \in Nat /\ score[f] <= NumFrames - 1
    BY <1>1, <1>2 DEF Scores, Frames
  <2>3. n \in [Evictable -> Nat] BY <1>2, <2>1, <2>2
  <2>4. PICK f \in Evictable : \A g \in Evictable : n[f] <= n[g] BY <1>4, <2>3, LeastCount
  <2>5. \A g \in Evictable : score[g] <= score[f] BY <1>2, <2>1, <2>2, <2>4
  <2> QED BY <1>3, <2>5
<1>5. T \in SUBSET Evictable /\ T \in SUBSET Frames BY <1>1, <1>3
<1>6. PICK L : L = Lowest(T) OBVIOUS
<1>7. L \in SUBSET Evictable /\ (Evictable # {} => L # {}) BY <1>4, <1>5, <1>6, LowestIs
<1>8. ref \in SUBSET ref OBVIOUS
<1>9. Found({Outcome(f, hand, ref, mod) : f \in L}) BY <1>1, <1>7, <1>8, PickFound
<1> QED BY <1>3, <1>6, <1>9 DEF FarthestVictim, Pick

\* Every search finds a victim if there is one.
LEMMA SearchFound ==
    ASSUME IInv, NEW S \in Searches
    PROVE  Found(S)
<1>1. hand \in Frames /\ OrdersOK /\ BitsOK BY DEF IInv, PolicyOK
<1>2. /\ Evictable \subseteq Frames /\ Evictable \subseteq Elements(touched) /\ Order(touched)
      /\ Evictable \subseteq Elements(loaded) /\ Order(loaded)
  BY <1>1, UsedIs DEF OrdersOK, Used
<1>3. Evictable \in SUBSET Evictable /\ ref \in SUBSET ref OBVIOUS
<1>4. CASE alg = "FIFO"
  <2>1. S = FIFOVictim BY <1>4 DEF Searches
  <2> QED BY <1>1, <1>2, <1>3, <2>1, FirstFound DEF FIFOVictim
<1>5. CASE alg \in {"LRU", "PFF"}
  <2>1. S = LRUVictim BY <1>5 DEF Searches
  <2> QED BY <1>1, <1>2, <1>3, <2>1, FirstFound DEF LRUVictim
<1>6. CASE alg = "LFU"
  <2>1. S = LFUVictim BY <1>6 DEF Searches
  <2> QED BY <1>1, <2>1, LFUFound
<1>7. CASE alg = "CLOCK"
  <2>1. S = ClockVictim BY <1>7 DEF Searches
  <2>2. /\ ClockVictim = {} <=> Evictable = {}
        /\ \A o \in ClockVictim : o \in Search /\ o.mod = mod /\ Chosen(o)
    BY <1>1, <1>2, ClockFound
  <2>3. \A o : Chosen(o) => o.victim \in Evictable BY DEF Chosen
  <2> QED BY <2>1, <2>2, <2>3 DEF Found
<1>8. CASE alg = "NRU"
  <2>1. S = NRUVictim BY <1>8 DEF Searches
  <2> QED BY <1>1, <2>1, NRUFound
<1>9. CASE alg = "Random"
  <2>1. S = RandomVictim BY <1>9 DEF Searches
  <2>2. Found({Outcome(f, hand, ref, mod) : f \in Evictable}) BY <1>1, <1>2, <1>3, PickFound
  <2> QED BY <2>1, <2>2 DEF RandomVictim, Pick
<1>10. CASE alg = "WSClock"
  <2>1. PICK A \in Ageings : \E B \in Later(A) : S = WSClockVictim(A, B) BY <1>10 DEF Searches
  <2>2. PICK B \in Later(A) : S = WSClockVictim(A, B) BY <2>1
  <2>3. A \subseteq B BY DEF Later
  <2>4. /\ WSClockVictim(A, B) = {} <=> Evictable = {}
        /\ \A o \in WSClockVictim(A, B) :
             o \in Search /\ o.victim \in Evictable
             /\ (Evictable \cap A # {} => o.victim \in B)
    BY <1>1, <1>2, <2>3, WSFound
  <2> QED BY <2>4, <2>2 DEF Found
<1>11. CASE alg \in {"Optimal", "OPT+"}
  <2>1. PICK score \in Scores : S = FarthestVictim(score) BY <1>11 DEF Searches
  <2> QED BY <1>1, <2>1, FarthestFound
<1>12. CASE alg \in {"ARC", "CAR"}
  <2>1. S = ListedVictim BY <1>12 DEF Searches
  <2>2. Found({Outcome(f, hand, ref, mod) : f \in Evictable}) BY <1>1, <1>2, <1>3, PickFound
  <2> QED BY <2>1, <2>2 DEF ListedVictim, Pick
<1>13. alg \in PolicyNames BY AlgsAssumption DEF IInv, PolicyOK
<1> QED BY <1>4, <1>5, <1>6, <1>7, <1>8, <1>9, <1>10, <1>11, <1>12, <1>13 DEF PolicyNames

\* What is selected is an evictable frame.
LEMMA VictimIs ==
    ASSUME IInv, NEW o \in SelectVictim
    PROVE  o \in Search /\ o.victim \in Evictable /\ o.victim \in Used /\ o.victim \in Frames
<1>1. PICK S \in Searches : o \in S BY DEF SelectVictim
<1>2. Found(S) BY SearchFound
<1>3. Used \subseteq Frames /\ Evictable \subseteq Used BY UsedIs DEF IInv
<1> QED BY <1>1, <1>2, <1>3 DEF Found

-----------------------------------------------------------------------------
(* PFF's resident set *)

\* The target stays a number.
LEMMA AdjustedOK ==
    ASSUME NEW c \in Fields, NEW n \in Int, NEW d \in Adjusted(c, n)
    PROVE  d \in Fields
<1>1. c.target \in Int /\ c.since \in 0 .. AdjustInterval + 1 BY DEF Fields
<1>2. {NumFrames, AdjustInterval} \subseteq Nat BY NumFramesAssumption, CountsAssumption
<1>3. CASE c.since >= AdjustInterval
  <2>1. PICK rate : d = [target |-> AdjustResidentSize(c.target, n, rate), since |-> 1]
    BY <1>3 DEF Adjusted
  <2>2. PICK r \in Int : r = CASE rate = "high" /\ c.target < NumFrames -> c.target + 1
                               [] rate = "low" /\ c.target > MinResident -> c.target - 1
                               [] OTHER -> c.target
    BY <1>1
  <2>3. AdjustResidentSize(c.target, n, rate) = IF n > r + 1 THEN Smaller(n - 1, NumFrames) ELSE r
    BY <2>2 DEF AdjustResidentSize
  <2>4. Smaller(n - 1, NumFrames) \in Int BY <1>2 DEF Smaller
  <2>5. AdjustResidentSize(c.target, n, rate) \in Int BY <2>3, <2>4
  <2>6. 1 \in 0 .. AdjustInterval + 1 BY <1>2
  <2> QED BY <2>1, <2>5, <2>6 DEF Fields
<1>4. CASE ~(c.since >= AdjustInterval)
  <2>1. d = [c EXCEPT !.since = c.since + 1] BY <1>4 DEF Adjusted
  <2>2. PICK s \in 0 .. AdjustInterval + 1 : s = c.since + 1 BY <1>1, <1>2, <1>4
  <2>3. d = [c EXCEPT !.since = s] BY <2>1, <2>2
  <2> QED BY <2>3 DEF Fields
<1> QED BY <1>3, <1>4

\* ... over several calls.
LEMMA AdjustedByOK ==
    ASSUME NEW c \in Fields, NEW n \in Int, NEW k \in Nat
    PROVE  AdjustedBy(c, n, k) \subseteq Fields
<1>1. PICK g : Computes(g, "calls", n, 0, {c}, k) /\ AdjustedBy(c, n, k) = g[k] BY CallsAre
<1> DEFINE P == {i \in Nat : g[i] \subseteq Fields}
<1>2. 0 \in P
  <2>1. g[0] = {c} BY <1>1 DEF Computes
  <2> QED BY <2>1
<1>3. ASSUME NEW i \in Nat, i < k, i \in P PROVE i + 1 \in P
  <2>1. PICK m \in Nat : m = i + 1 OBVIOUS
  <2>2. m \in 0 .. k /\ m # 0 /\ m - 1 = i BY <1>3, <2>1
  <2>3. g[m] = Rec("calls", n, 0, m, g[i]) BY <1>1, <2>2 DEF Computes
  <2>4. PICK w \in Int : w = n - m + 1 OBVIOUS
  <2>5. g[m] = UNION {Adjusted(d, w) : d \in g[i]} BY <2>3, <2>4 DEF Rec
  <2>6. \A d \in g[i] : d \in Fields BY <1>3
  <2>7. \A d \in g[i] : Adjusted(d, w) \subseteq Fields BY <2>6, AdjustedOK
  <2>8. g[m] \subseteq Fields BY <2>5, <2>7
  <2> QED BY <2>1, <2>8
<1> HIDE DEF P
<1>4. \A i \in 0 .. k : i \in P BY <1>2, <1>3, Climb
<1>5. k \in P BY <1>4
<1> QED BY <1>1, <1>5 DEF P

\* What trimming leaves.
TrimOK(f, x) ==
    LET left == (Used \cup {f}) \ x.gone
    IN  /\ f \in left \/ left \subseteq pinned
        /\ x.limit > 0 => Cardinality(left) <= x.limit \/ left \subseteq pinned
        /\ x.gone \subseteq Used \cup {f} /\ x.pff \in Fields

\* Some of a finite set are taken out of it.
LEMMA Remaining ==
    ASSUME NEW S, IsFiniteSet(S), NEW T \in SUBSET S
    PROVE  Cardinality(S \ T) = Cardinality(S) - Cardinality(T)
<1>1. IsFiniteSet(T) BY FS_Subset
<1>2. S \cap T = T OBVIOUS
<1>3. Cardinality(S \ T) = Cardinality(S) - Cardinality(S \cap T) BY <1>1, FS_Difference
<1> QED BY <1>2, <1>3

\* Trimming after frame f has been loaded.
LEMMA TrimIs ==
    ASSUME IInv, NEW f \in Frames, NEW c \in Fields, NEW x \in Trims(f, c)
    PROVE  TrimOK(f, x)
<1>1. Order(touched) /\ Elements(touched) = Used BY DEF IInv, OrdersOK
<1>2. PICK q : q = ToEnd(touched, f) OBVIOUS
<1>3. Ended(q, touched, f) BY <1>1, <1>2, ToEndOrder
<1>4. PICK used : used = Used \cup {f} OBVIOUS
<1>5. Order(q) /\ Elements(q) = used BY <1>1, <1>3, <1>4 DEF Ended
<1>6. \A g : ~Before(q, f, g) BY <1>3 DEF Ended
<1>7. PICK can : can = Keep(q, Frames \ pinned) OBVIOUS
<1>8. Picked(can, q, Frames \ pinned) BY <1>5, <1>7, KeepOrder
<1>9. Order(can) /\ Elements(can) = used \cap (Frames \ pinned) BY <1>5, <1>8 DEF Picked
<1>10. \A g : ~Before(can, f, g) BY <1>6, <1>8 DEF Picked
<1>11. used \subseteq Frames /\ Elements(can) = used \ pinned BY <1>4, <1>9, UsedIs DEF IInv
<1>12. IsFiniteSet(used) /\ Cardinality(used) \in Nat BY <1>5, OrderLen, FS_CardinalityType
<1>13. Len(can) \in Nat BY <1>9 DEF Order
<1>14. c.target \in Int BY DEF Fields
<1>15. PICK e : e = Excess(Cardinality(used), c.target) OBVIOUS
<1>16. /\ e \in Nat
       /\ c.target > 0 => e = (IF Cardinality(used) <= c.target THEN 0
                               ELSE Cardinality(used) - c.target)
  BY <1>12, <1>14, <1>15 DEF Excess
<1>17. PICK k \in 0 .. Len(can) : k = Smaller(e, Len(can)) /\ (k = e \/ k = Len(can))
  BY <1>13, <1>16 DEF Smaller
<1>18. PICK gone : gone = Elements(SubSeq(can, 1, k)) OBVIOUS
<1>19. PICK d \in AdjustedBy(c, Len(can), k) : x = [gone |-> gone, limit |-> c.target, pff |-> d]
  BY <1>2, <1>4, <1>7, <1>15, <1>17, <1>18 DEF Trims
<1>20. x.gone = gone /\ x.limit = c.target /\ x.pff = d BY <1>19
<1>21. d \in Fields
  <2>1. Len(can) \in Int /\ k \in Nat BY <1>13, <1>17
  <2>2. AdjustedBy(c, Len(can), k) \subseteq Fields BY <2>1, AdjustedByOK
  <2> QED BY <1>19, <2>2
<1>22. /\ gone \subseteq Elements(can) /\ Cardinality(gone) = k
       /\ k = Len(can) => gone = Elements(can)
       /\ f \in gone => k = Len(can)
  <2>1. /\ Elements(SubSeq(can, 1, k)) \subseteq Elements(can)
        /\ IsFiniteSet(Elements(SubSeq(can, 1, k))) /\ Cardinality(Elements(SubSeq(can, 1, k))) = k
        /\ k = Len(can) => Elements(SubSeq(can, 1, k)) = Elements(can)
        /\ \A g \in Elements(SubSeq(can, 1, k)) : (\A h : ~Before(can, g, h)) => k = Len(can)
    BY <1>9, <1>17, FirstOrder
  <2> QED BY <1>10, <1>18, <2>1
<1>23. PICK left : left = used \ gone OBVIOUS
<1>24. gone \subseteq used BY <1>11, <1>22
<1>25. k = Len(can) => left \subseteq pinned BY <1>11, <1>22, <1>23
<1>26. f \in left \/ left \subseteq pinned BY <1>4, <1>22, <1>23, <1>25
<1>27. Cardinality(left) = Cardinality(used) - k
  <2>1. gone \in SUBSET used BY <1>24
  <2>2. Cardinality(used \ gone) = Cardinality(used) - Cardinality(gone) BY <1>12, <2>1, Remaining
  <2> QED BY <1>22, <1>23, <2>2
<1>28. ASSUME c.target > 0, k # Len(can) PROVE Cardinality(left) <= c.target
  <2>1. k = e BY <1>17, <1>28
  <2> QED BY <1>12, <1>14, <1>16, <1>27, <1>28, <2>1
<1> QED BY <1>4, <1>20, <1>21, <1>23, <1>24, <1>25, <1>26, <1>28 DEF TrimOK

\* A fault under PFF.
LEMMA PFFFaultIs ==
    ASSUME IInv, NEW o \in PFFFaults
    PROVE  o.frame \in Frames /\ TrimOK(o.frame, o.trim)
<1>1. pff \in Fields BY DEF IInv, PolicyOK
<1>2. OrdersOK BY DEF IInv
<1>3. CASE Used # Frames
  <2>1. PICK f \in Lowest(Frames \ Used) : \E x \in Trims(f, pff) : o = [frame |-> f, trim |-> x]
    BY <1>3 DEF PFFFaults
  <2>2. f \in Frames BY <2>1 DEF Lowest
  <2>3. PICK x \in Trims(f, pff) : o = [frame |-> f, trim |-> x] BY <2>1
  <2>4. TrimOK(f, x) BY <1>1, <2>2, TrimIs
  <2> QED BY <2>2, <2>3, <2>4
<1>4. CASE Used = Frames
  <2>1. PICK v \in SelectVictim : \E c \in Adjusted(pff, Cardinality(Evictable)) :
            \E x \in Trims(v.victim, c) : o = [frame |-> v.victim, trim |-> x]
    BY <1>4 DEF PFFFaults
  <2>2. PICK c \in Adjusted(pff, Cardinality(Evictable)) :
            \E x \in Trims(v.victim, c) : o = [frame |-> v.victim, trim |-> x]
    BY <2>1
  <2>3. PICK x \in Trims(v.victim, c) : o = [frame |-> v.victim, trim |-> x] BY <2>2
  <2>4. v.victim \in Frames BY VictimIs
  <2>5. Cardinality(Evictable) \in Int
    <3>1. IsFiniteSet(Used) BY <1>2, OrderLen DEF OrdersOK, Used
    <3>2. Evictable \in SUBSET Used BY <1>2, UsedIs
    <3>3. IsFiniteSet(Evictable) BY <3>1, <3>2, FS_Subset
    <3>4. Cardinality(Evictable) \in Nat BY <3>3, FS_CardinalityType
    <3> QED BY <3>4
  <2>6. c \in Fields BY <1>1, <2>5, AdjustedOK
  <2>7. TrimOK(v.victim, x) BY <2>4, <2>6, TrimIs
  <2> QED BY <2>3, <2>4, <2>7
<1> QED BY <1>3, <1>4

-----------------------------------------------------------------------------
(* The orders through a step *)

Orders(l, t, u) ==
    /\ Order(l) /\ Order(t) /\ Order(u)
    /\ Elements(t) = Elements(l) /\ Elements(u) = Elements(l)
Same(t, u, S) == \A f \in S : \A g \in Elements(t) : Before(t, f, g) => Before(u, f, g)

\* What the invariant says of the orders.
LEMMA OrdersAre ==
    /\ OrdersOK <=> Orders(loaded, touched, lastUse)
    /\ OrdersOK => (SameOrder <=> Same(touched, lastUse, Elements(loaded) \ blind))
    /\ Used = Elements(loaded)
BY DEF OrdersOK, Orders, SameOrder, Same, Used

EndedBoth(t2, u2, t, f, B) ==
    /\ Order(t2) /\ Elements(t2) = Elements(t) \cup {f}
    /\ Order(u2) /\ Elements(u2) = Elements(t) \cup {f}
    /\ Same(t2, u2, (Elements(t) \cup {f}) \ (B \ {f}))

\* A frame moves to the end of two orders.
LEMMA EndSame ==
    ASSUME NEW t, NEW u, Order(t), Order(u), Elements(t) = Elements(u), NEW f \in Frames, NEW B,
           Same(t, u, Elements(t) \ B), NEW t2, NEW u2, t2 = ToEnd(t, f), u2 = ToEnd(u, f)
    PROVE  EndedBoth(t2, u2, t, f, B)
<1>1. Ended(t2, t, f) /\ Ended(u2, u, f) BY ToEndOrder
<1>2. /\ Order(t2) /\ Elements(t2) = Elements(t) \cup {f}
      /\ Order(u2) /\ Elements(u2) = Elements(t) \cup {f}
  BY <1>1 DEF Ended
<1>3. ASSUME NEW g \in (Elements(t) \cup {f}) \ (B \ {f}), NEW h \in Elements(t2), Before(t2, g, h)
      PROVE  Before(u2, g, h)
  <2>1. CASE g # f /\ h # f
    <3>1. g \in Elements(t) \ B /\ h \in Elements(t) BY <1>2, <2>1
    <3>2. Before(t, g, h) BY <1>1, <1>3, <2>1 DEF Ended
    <3>3. Before(u, g, h) BY <3>1, <3>2 DEF Same
    <3> QED BY <1>1, <2>1, <3>3 DEF Ended
  <2>2. CASE g = f \/ h = f BY <1>1, <1>3, <2>2 DEF Ended
  <2> QED BY <2>1, <2>2
<1> QED BY <1>2, <1>3 DEF Same, EndedBoth

EndedAll(l2, t2, u2, l, f, B) ==
    /\ Orders(l2, t2, u2) /\ Elements(l2) = Elements(l) \cup {f}
    /\ Same(t2, u2, Elements(l2) \ (B \ {f}))

\* A frame is loaded.
LEMMA EndAll ==
    ASSUME NEW l, NEW t, NEW u, Orders(l, t, u), NEW f \in Frames, NEW B,
           Same(t, u, Elements(l) \ B), NEW l2, NEW t2, NEW u2,
           l2 = ToEnd(l, f), t2 = ToEnd(t, f), u2 = ToEnd(u, f)
    PROVE  EndedAll(l2, t2, u2, l, f, B)
<1>1. /\ Order(l) /\ Order(t) /\ Order(u)
      /\ Elements(t) = Elements(l) /\ Elements(u) = Elements(t)
  BY DEF Orders
<1>2. Ended(l2, l, f) BY <1>1, ToEndOrder
<1>3. Same(t, u, Elements(t) \ B) BY <1>1
<1>4. /\ Order(t2) /\ Elements(t2) = Elements(t) \cup {f}
      /\ Order(u2) /\ Elements(u2) = Elements(t) \cup {f}
      /\ Same(t2, u2, (Elements(t) \cup {f}) \ (B \ {f}))
  <2>1. EndedBoth(t2, u2, t, f, B) BY <1>1, <1>3, EndSame
  <2> QED BY <2>1 DEF EndedBoth
<1>5. Order(l2) /\ Elements(l2) = Elements(l) \cup {f} BY <1>2 DEF Ended
<1> QED BY <1>1, <1>4, <1>5 DEF Orders, EndedAll

KeptAll(l2, t2, u2, l, S, X) ==
    /\ Orders(l2, t2, u2) /\ Elements(l2) = Elements(l) \cap S
    /\ Same(t2, u2, X)

\* Some frames stay.
LEMMA KeepAll ==
    ASSUME NEW l, NEW t, NEW u, Orders(l, t, u), NEW S, NEW X, Same(t, u, X),
           NEW l2, NEW t2, NEW u2, l2 = Keep(l, S), t2 = Keep(t, S), u2 = Keep(u, S)
    PROVE  KeptAll(l2, t2, u2, l, S, X)
<1>1. /\ Order(l) /\ Order(t) /\ Order(u)
      /\ Elements(t) = Elements(l) /\ Elements(u) = Elements(l)
  BY DEF Orders
<1>2. Picked(l2, l, S) /\ Picked(t2, t, S) /\ Picked(u2, u, S) BY <1>1, KeepOrder
<1>3. Orders(l2, t2, u2) /\ Elements(l2) = Elements(l) \cap S
  BY <1>1, <1>2 DEF Picked, Orders
<1>4. ASSUME NEW f \in X, NEW g \in Elements(t2), Before(t2, f, g) PROVE Before(u2, f, g)
  <2>1. f \in S /\ g \in S /\ Before(t, f, g) /\ g \in Elements(t) BY <1>2, <1>4 DEF Picked
  <2>2. Before(u, f, g) BY <2>1 DEF Same
  <2> QED BY <1>2, <2>1, <2>2 DEF Picked
<1> QED BY <1>3, <1>4 DEF KeptAll, Same

\* Fewer frames are in the same order.
LEMMA SameOfFewer ==
    ASSUME NEW t, NEW u, NEW X, NEW Y, Y \subseteq X, Same(t, u, X)
    PROVE  Same(t, u, Y)
BY DEF Same

-----------------------------------------------------------------------------
(* The invariant *)

\* The invariant holds of new frames.
LEMMA InitIInv == Init => IInv
<1> SUFFICES ASSUME Init PROVE IInv OBVIOUS
<1>1. /\ NumFrames \in Nat \ {0} /\ ClearPeriod \in Nat /\ AdjustInterval \in Nat /\ MaxCount \in Nat
  BY NumFramesAssumption, CountsAssumption
<1>2. PICK h \in Int : h = NumFrames \div 2 BY <1>1
<1>3. pff = [target |-> h, since |-> 0] BY <1>2 DEF Init, NewPFF
<1>4. pff \in Fields BY <1>1, <1>3 DEF Fields
<1>5. alg \in Algs /\ hand = 0 /\ ticks = 0 BY DEF Init
<1>6. PolicyOK BY <1>1, <1>4, <1>5 DEF PolicyOK, Frames
<1>7. loaded = <<>> /\ touched = <<>> /\ lastUse = <<>> BY DEF Init
<1>8. OrdersOK /\ SameOrder BY <1>7, EmptyOrder DEF OrdersOK, SameOrder, Used
<1>9. ref = {} /\ mod = {} /\ pinned = {} /\ blind = {} /\ count = [f \in Frames |-> 0]
  BY DEF Init
<1>10. BitsOK BY <1>1, <1>9 DEF BitsOK
<1> QED BY <1>6, <1>8, <1>10 DEF IInv

\* NRU's count stays within its period.
LEMMA TickIs ==
    ASSUME PolicyOK
    PROVE  Tick \in 0 .. ClearPeriod
BY CountsAssumption DEF PolicyOK, Tick

\* Release
LEMMA ReleaseIInv ==
    ASSUME IInv, NEW f \in Frames, Release(f)
    PROVE  IInv'
<1>1. /\ Orders(loaded, touched, lastUse) /\ Same(touched, lastUse, Elements(loaded) \ blind)
      /\ Used = Elements(loaded) /\ BitsOK /\ PolicyOK
  BY OrdersAre DEF IInv
<1>2. PICK S : S = Frames \ {f} OBVIOUS
<1>3. /\ loaded' = Keep(loaded, S) /\ touched' = Keep(touched, S) /\ lastUse' = Keep(lastUse, S)
      /\ blind' = blind \ {f} /\ ref' = ref \ {f} /\ mod' = mod \ {f}
      /\ count' = [count EXCEPT ![f] = 0]
      /\ UNCHANGED <<policy, pinned>>
  BY <1>2 DEF Release, Without
<1>4. /\ Orders(loaded', touched', lastUse') /\ Elements(loaded') = Elements(loaded) \cap S
      /\ Same(touched', lastUse', Elements(loaded) \ blind)
  <2>1. KeptAll(loaded', touched', lastUse', loaded, S, Elements(loaded) \ blind)
    BY <1>1, <1>3, KeepAll
  <2> QED BY <2>1 DEF KeptAll
<1>5. Used \subseteq Frames BY UsedIs DEF IInv
<1>6. Elements(loaded') = Used \ {f} BY <1>1, <1>2, <1>4, <1>5
<1>7. Elements(loaded') \ blind' \subseteq Elements(loaded) \ blind BY <1>1, <1>3, <1>6
<1>8. Same(touched', lastUse', Elements(loaded') \ blind') BY <1>4, <1>7, SameOfFewer
<1>9. OrdersOK' /\ SameOrder' /\ Used' = Elements(loaded')
  BY <1>4, <1>8 DEF OrdersOK, Orders, SameOrder, Same, Used
<1>10. 0 \in 0 .. MaxCount + 1 BY CountsAssumption
<1>11. BitsOK' BY <1>1, <1>3, <1>6, <1>9, <1>10 DEF BitsOK
<1>12. PolicyOK' BY <1>1, <1>3 DEF PolicyOK, policy
<1> QED BY <1>9, <1>11, <1>12 DEF IInv

\* Access
LEMMA AccessIInv ==
    ASSUME IInv, NEW f \in Frames, NEW w \in BOOLEAN, Access(f, w)
    PROVE  IInv'
<1>1. /\ Order(loaded) /\ Order(touched) /\ Order(lastUse)
      /\ Elements(touched) = Used /\ Elements(lastUse) = Used /\ Used = Elements(loaded)
      /\ Same(touched, lastUse, Used \ blind) /\ BitsOK /\ PolicyOK
  BY DEF IInv, OrdersOK, SameOrder, Same, Used
<1>2. /\ f \in Used /\ count[f] < MaxCount
      /\ lastUse' = ToEnd(lastUse, f) /\ ticks' = Tick
      /\ UNCHANGED <<alg, hand, pff, loaded, pinned>>
  BY DEF Access, OnPageAccess
<1>3. PolicyOK' BY <1>1, <1>2, TickIs DEF PolicyOK
<1>4. Used' = Used BY <1>2 DEF Used
<1>5. PICK k \in 0 .. MaxCount + 1 : k = count[f] + 1 BY <1>1, <1>2, CountsAssumption DEF BitsOK
<1>6. mod' = mod \/ mod' = mod \cup {f} BY DEF Access, OnPageAccess
<1>7. CASE Recorded(w)
  <2>1. /\ touched' = ToEnd(touched, f) /\ count' = [count EXCEPT ![f] = k] /\ ref' = ref \cup {f}
        /\ blind' = blind \ {f}
    BY <1>5, <1>7 DEF Access, OnPageAccess
  <2>2. Same(touched, lastUse, Elements(touched) \ blind) /\ Elements(touched) = Elements(lastUse)
    BY <1>1
  <2>3. /\ Order(touched') /\ Elements(touched') = Elements(touched) \cup {f}
        /\ Order(lastUse') /\ Elements(lastUse') = Elements(touched) \cup {f}
        /\ Same(touched', lastUse', (Elements(touched) \cup {f}) \ (blind \ {f}))
    <3>1. EndedBoth(touched', lastUse', touched, f, blind) BY <1>1, <1>2, <2>1, <2>2, EndSame
    <3> QED BY <3>1 DEF EndedBoth
  <2>4. Elements(touched) \cup {f} = Used BY <1>1, <1>2
  <2>5. OrdersOK' BY <1>1, <1>2, <1>4, <2>3, <2>4 DEF OrdersOK
  <2>6. SameOrder' BY <1>4, <2>1, <2>3, <2>4 DEF SameOrder, Same
  <2>7. BitsOK' BY <1>1, <1>2, <1>4, <1>6, <2>1 DEF BitsOK
  <2> QED BY <1>3, <2>5, <2>6, <2>7 DEF IInv
<1>8. CASE ~Recorded(w)
  <2>1. /\ touched' = touched /\ count' = count /\ ref' = ref /\ mod' = mod
        /\ blind' = blind \cup {f}
    BY <1>8 DEF Access, OnPageAccess
  <2>2. Ended(lastUse', lastUse, f) BY <1>1, <1>2, ToEndOrder
  <2>3. Order(lastUse') /\ Elements(lastUse') = Used BY <1>1, <1>2, <2>2 DEF Ended
  <2>4. OrdersOK' BY <1>1, <1>2, <1>4, <2>1, <2>3 DEF OrdersOK
  <2>5. ASSUME NEW g \in Used \ (blind \cup {f}), NEW h \in Used, Before(touched, g, h)
        PROVE  Before(lastUse', g, h)
    <3>1. Before(lastUse, g, h) /\ g \in Elements(lastUse) BY <1>1, <2>5 DEF Same
    <3> QED BY <2>2, <3>1 DEF Ended
  <2>6. SameOrder' BY <1>4, <2>1, <2>5 DEF SameOrder
  <2>7. BitsOK' BY <1>1, <1>2, <1>4, <2>1 DEF BitsOK
  <2> QED BY <1>3, <2>4, <2>6, <2>7 DEF IInv
<1> QED BY <1>7, <1>8

\* Load
LEMMA LoadIInv ==
    ASSUME IInv, NEW f \in Frames, NEW R \in SUBSET ref, NEW M \in SUBSET mod,
           Load(f, R, M), pinned' = pinned
    PROVE  OrdersOK' /\ SameOrder' /\ BitsOK'
<1>1. /\ Orders(loaded, touched, lastUse) /\ Same(touched, lastUse, Elements(loaded) \ blind)
      /\ Used = Elements(loaded) /\ BitsOK
  BY OrdersAre DEF IInv
<1>2. /\ loaded' = ToEnd(loaded, f) /\ touched' = ToEnd(touched, f) /\ lastUse' = ToEnd(lastUse, f)
      /\ blind' = blind \ {f} /\ ref' = R \cup {f} /\ mod' = M \ {f}
  BY DEF Load
<1>3. PICK k \in 0 .. MaxCount + 1 : count' = [count EXCEPT ![f] = k]
  <2>1. PICK k : k = IF alg \in {"FIFO", "Optimal", "OPT+"} THEN 0 ELSE 1 OBVIOUS
  <2>2. k \in 0 .. MaxCount + 1 BY <2>1, CountsAssumption
  <2>3. count' = [count EXCEPT ![f] = k] BY <2>1 DEF Load
  <2> QED BY <2>2, <2>3
<1>4. /\ Orders(loaded', touched', lastUse') /\ Elements(loaded') = Elements(loaded) \cup {f}
      /\ Same(touched', lastUse', Elements(loaded') \ (blind \ {f}))
  <2>1. EndedAll(loaded', touched', lastUse', loaded, f, blind) BY <1>1, <1>2, EndAll
  <2> QED BY <2>1 DEF EndedAll
<1>5. OrdersOK' /\ SameOrder' /\ Used' = Used \cup {f}
  BY <1>1, <1>2, <1>4 DEF OrdersOK, Orders, SameOrder, Same, Used
<1>6. BitsOK' BY <1>1, <1>2, <1>3, <1>5 DEF BitsOK
<1> QED BY <1>5, <1>6

\* Fault
LEMMA FaultIInv ==
    ASSUME IInv, Fault
    PROVE  IInv'
<1>1. PICK f \in Lowest(Frames \ Used) : Load(f, ref, mod) BY DEF Fault
<1>2. f \in Frames BY <1>1 DEF Lowest
<1>3. /\ ticks' = Tick /\ UNCHANGED <<alg, hand, pff, pinned>> BY DEF Fault
<1>4. ref \in SUBSET ref /\ mod \in SUBSET mod OBVIOUS
<1>5. OrdersOK' /\ SameOrder' /\ BitsOK' BY <1>1, <1>2, <1>3, <1>4, LoadIInv
<1>6. PolicyOK' BY <1>3, TickIs DEF PolicyOK, IInv
<1> QED BY <1>5, <1>6 DEF IInv

\* FaultEvict
LEMMA FaultEvictIInv ==
    ASSUME IInv, FaultEvict
    PROVE  IInv'
<1>1. PICK o \in SelectVictim : Load(o.victim, o.ref, o.mod) /\ hand' = o.hand BY DEF FaultEvict
<1>2. o \in Search /\ o.victim \in Frames BY VictimIs
<1>3. o.hand \in Frames /\ o.ref \in SUBSET ref /\ o.mod \in SUBSET mod BY <1>2 DEF Search
<1>4. UNCHANGED <<alg, pff, pinned>> BY DEF FaultEvict
<1>5. OrdersOK' /\ SameOrder' /\ BitsOK' BY <1>1, <1>2, <1>3, <1>4, LoadIInv
<1>6. Tick \in 0 .. ClearPeriod BY TickIs DEF IInv
<1>7. ticks' \in 0 .. ClearPeriod BY <1>6, CountsAssumption DEF FaultEvict, IInv, PolicyOK
<1>8. PolicyOK' BY <1>1, <1>3, <1>4, <1>7 DEF PolicyOK, IInv
<1> QED BY <1>5, <1>8 DEF IInv

\* PFFFault
LEMMA PFFFaultIInv ==
    ASSUME IInv, PFFFault
    PROVE  IInv'
<1>1. /\ Orders(loaded, touched, lastUse) /\ Same(touched, lastUse, Elements(loaded) \ blind)
      /\ Used = Elements(loaded) /\ BitsOK /\ PolicyOK
  BY OrdersAre DEF IInv
<1>2. PICK o \in PFFFaults :
        LET stays(q) == Keep(ToEnd(q, o.frame), Frames \ o.trim.gone)
        IN  /\ loaded' = stays(loaded) /\ touched' = stays(touched)
            /\ lastUse' = stays(lastUse) /\ blind' = blind \ (o.trim.gone \cup {o.frame})
            /\ ref' = (ref \cup {o.frame}) \ o.trim.gone
            /\ mod' = mod \ (o.trim.gone \cup {o.frame})
            /\ count' = [f \in Frames |-> IF f \in o.trim.gone THEN 0
                                          ELSE IF f = o.frame THEN 1 ELSE count[f]]
            /\ pff' = o.trim.pff
  BY DEF PFFFault
<1>3. PICK f \in Frames : f = o.frame /\ TrimOK(f, o.trim) BY PFFFaultIs
<1>4. PICK gone : gone = o.trim.gone OBVIOUS
<1>5. pff' \in Fields BY <1>2, <1>3 DEF TrimOK
<1>6. PICK S : S = Frames \ gone OBVIOUS
<1>7. /\ loaded' = Keep(ToEnd(loaded, f), S) /\ touched' = Keep(ToEnd(touched, f), S)
      /\ lastUse' = Keep(ToEnd(lastUse, f), S)
      /\ blind' = blind \ (gone \cup {f}) /\ ref' = (ref \cup {f}) \ gone
      /\ mod' = mod \ (gone \cup {f})
      /\ count' = [g \in Frames |-> IF g \in gone THEN 0 ELSE IF g = f THEN 1 ELSE count[g]]
  BY <1>2, <1>3, <1>4, <1>6
<1>8. PICK l : l = ToEnd(loaded, f) OBVIOUS
<1>9. PICK t : t = ToEnd(touched, f) OBVIOUS
<1>10. PICK u : u = ToEnd(lastUse, f) OBVIOUS
<1>11. /\ Orders(l, t, u) /\ Elements(l) = Elements(loaded) \cup {f}
       /\ Same(t, u, Elements(l) \ (blind \ {f}))
  <2>1. EndedAll(l, t, u, loaded, f, blind) BY <1>1, <1>8, <1>9, <1>10, EndAll
  <2> QED BY <2>1 DEF EndedAll
<1>12. /\ Orders(loaded', touched', lastUse') /\ Elements(loaded') = Elements(l) \cap S
       /\ Same(touched', lastUse', Elements(l) \ (blind \ {f}))
  <2>1. /\ loaded' = Keep(l, S) /\ touched' = Keep(t, S) /\ lastUse' = Keep(u, S)
    BY <1>7, <1>8, <1>9, <1>10
  <2>2. KeptAll(loaded', touched', lastUse', l, S, Elements(l) \ (blind \ {f}))
    BY <1>11, <2>1, KeepAll
  <2> QED BY <2>2 DEF KeptAll
<1>13. Used \subseteq Frames BY UsedIs DEF IInv
<1>14. Elements(loaded') = (Used \cup {f}) \ gone BY <1>1, <1>6, <1>11, <1>12, <1>13
<1>15. Elements(loaded') \ blind' \subseteq Elements(l) \ (blind \ {f})
  BY <1>1, <1>7, <1>11, <1>14
<1>16. Same(touched', lastUse', Elements(loaded') \ blind') BY <1>12, <1>15, SameOfFewer
<1>17. OrdersOK' /\ SameOrder' /\ Used' = Elements(loaded')
  BY <1>12, <1>16 DEF OrdersOK, Orders, SameOrder, Same, Used
<1>18. UNCHANGED <<alg, hand, ticks, pinned>> BY DEF PFFFault
<1>19. 0 \in 0 .. MaxCount + 1 /\ 1 \in 0 .. MaxCount + 1 BY CountsAssumption
<1>20. count' \in [Frames -> 0 .. MaxCount + 1] BY <1>1, <1>7, <1>19 DEF BitsOK
<1>21. BitsOK' BY <1>1, <1>7, <1>14, <1>17, <1>18, <1>20 DEF BitsOK
<1>22. PolicyOK' BY <1>1, <1>5, <1>18 DEF PolicyOK
<1> QED BY <1>17, <1>21, <1>22 DEF IInv

\* FaultFails
LEMMA FaultFailsIInv ==
    ASSUME IInv, FaultFails
    PROVE  IInv'
<1>1. UNCHANGED <<alg, hand, pff, loaded, touched, mod, count, lastUse, blind, pinned>>
  BY DEF FaultFails
<1>2. (ref' = {} /\ ticks' = 0) \/ UNCHANGED <<ref, ticks>> BY DEF FaultFails
<1>3. Used' = Used BY <1>1 DEF Used
<1>4. OrdersOK' /\ SameOrder' BY <1>1, <1>3 DEF IInv, OrdersOK, SameOrder
<1>5. BitsOK' BY <1>1, <1>2, <1>3 DEF IInv, BitsOK
<1>6. 0 \in 0 .. ClearPeriod BY CountsAssumption
<1>7. PolicyOK' BY <1>1, <1>2, <1>6 DEF IInv, PolicyOK
<1> QED BY <1>4, <1>5, <1>7 DEF IInv

\* SetAlgorithm
LEMMA SetAlgorithmIInv ==
    ASSUME IInv, NEW a \in Algs, SetAlgorithm(a)
    PROVE  IInv'
<1>1. alg' = a /\ hand' = 0 /\ ticks' = 0 /\ pff' = NewPFF BY DEF SetAlgorithm
<1>2. UNCHANGED <<loaded, touched, ref, mod, count, lastUse, blind, pinned>>
  BY DEF SetAlgorithm, frames
<1>3. /\ NumFrames \in Nat \ {0} /\ ClearPeriod \in Nat /\ AdjustInterval \in Nat
  BY NumFramesAssumption, CountsAssumption
<1>4. PICK h \in Int : h = NumFrames \div 2 BY <1>3
<1>5. pff' = [target |-> h, since |-> 0] BY <1>1, <1>4 DEF NewPFF
<1>6. pff' \in Fields BY <1>3, <1>5 DEF Fields
<1>7. 0 \in Frames /\ 0 \in 0 .. ClearPeriod BY <1>3 DEF Frames
<1>8. PolicyOK' BY <1>1, <1>6, <1>7 DEF PolicyOK
<1>9. Used' = Used BY <1>2 DEF Used
<1>10. OrdersOK' /\ SameOrder' BY <1>2, <1>9 DEF IInv, OrdersOK, SameOrder
<1>11. BitsOK' BY <1>2, <1>9 DEF IInv, BitsOK
<1> QED BY <1>8, <1>10, <1>11 DEF IInv

\* Reset
LEMMA ResetIInv ==
    ASSUME IInv, Reset
    PROVE  IInv'
<1>1. /\ loaded' = <<>> /\ touched' = <<>> /\ lastUse' = <<>>
      /\ ref' = {} /\ mod' = {} /\ count' = [f \in Frames |-> 0] /\ blind' = {}
      /\ hand' = 0 /\ ticks' = 0 /\ UNCHANGED <<alg, pinned>>
  BY DEF Reset
<1>2. /\ NumFrames \in Nat \ {0} /\ ClearPeriod \in Nat /\ AdjustInterval \in Nat /\ MaxCount \in Nat
  BY NumFramesAssumption, CountsAssumption
<1>3. pff' = [pff EXCEPT !.since = 0] BY DEF Reset
<1>4. pff' \in Fields BY <1>2, <1>3 DEF IInv, PolicyOK, Fields
<1>5. 0 \in Frames /\ 0 \in 0 .. ClearPeriod /\ 0 \in 0 .. MaxCount + 1 BY <1>2 DEF Frames
<1>6. PolicyOK' BY <1>1, <1>4, <1>5 DEF IInv, PolicyOK
<1>7. OrdersOK' /\ SameOrder' BY <1>1, EmptyOrder DEF OrdersOK, SameOrder, Used
<1>8. BitsOK' BY <1>1, <1>5 DEF IInv, BitsOK
<1> QED BY <1>6, <1>7, <1>8 DEF IInv

\* SetPinned
LEMMA SetPinnedIInv ==
    ASSUME IInv, NEW f \in Pinnable, NEW b \in BOOLEAN, SetPinned(f, b)
    PROVE  IInv'
<1>1. pinned' \subseteq pinned \cup {f} BY DEF SetPinned
<1>2. UNCHANGED <<alg, hand, ticks, pff, loaded, touched, ref, mod, count, lastUse, blind>>
  BY DEF SetPinned, policy, frames
<1>3. Used' = Used BY <1>2 DEF Used
<1>4. OrdersOK' /\ SameOrder' BY <1>2, <1>3 DEF IInv, OrdersOK, SameOrder
<1>5. BitsOK' BY <1>1, <1>2, <1>3 DEF IInv, BitsOK
<1>6. PolicyOK' BY <1>2 DEF IInv, PolicyOK
<1> QED BY <1>4, <1>5, <1>6 DEF IInv

\* Every step keeps the invariant.
LEMMA NextIInv == IInv /\ [Next]_vars => IInv'
<1> SUFFICES ASSUME IInv, [Next]_vars PROVE IInv' OBVIOUS
<1>1. CASE UNCHANGED vars
  <2>1. /\ UNCHANGED <<alg, hand, ticks, pff, loaded, touched, ref, mod, count, lastUse, blind>>
        /\ pinned' = pinned
    BY <1>1 DEF vars, policy, frames
  <2>2. Used' = Used BY <2>1 DEF Used
  <2> QED BY <2>1, <2>2 DEF IInv, PolicyOK, OrdersOK, BitsOK, SameOrder
<1>2. ASSUME NEW f \in Frames, Release(f) PROVE IInv' BY <1>2, ReleaseIInv
<1>3. ASSUME NEW f \in Frames, NEW w \in BOOLEAN, Access(f, w) PROVE IInv' BY <1>3, AccessIInv
<1>4. CASE Fault BY <1>4, FaultIInv
<1>5. CASE FaultEvict BY <1>5, FaultEvictIInv
<1>6. CASE PFFFault BY <1>6, PFFFaultIInv
<1>7. CASE FaultFails BY <1>7, FaultFailsIInv
<1>8. ASSUME NEW a \in Algs, SetAlgorithm(a) PROVE IInv' BY <1>8, SetAlgorithmIInv
<1>9. CASE Reset BY <1>9, ResetIInv
<1>10. ASSUME NEW f \in Pinnable, NEW b \in BOOLEAN, SetPinned(f, b) PROVE IInv'
  BY <1>10, SetPinnedIInv
<1> QED BY <1>1, <1>2, <1>3, <1>4, <1>5, <1>6, <1>7, <1>8, <1>9, <1>10 DEF Next

\* The invariant holds in every state.
THEOREM Invariance == Spec => []IInv
BY InitIInv, NextIInv, PTL DEF Spec

-----------------------------------------------------------------------------
(* The properties *)

\* The orders by load, by access and by use range over the same frames, each of which
\* they have once, and only frames in use carry bits and counts.
THEOREM TypeCorrect == Spec => []TypeOK
<1>1. IInv => TypeOK
  <2> SUFFICES ASSUME IInv PROVE TypeOK OBVIOUS
  <2>1. OrdersOK /\ BitsOK /\ PolicyOK BY DEF IInv
  <2>2. pff.since \in 0 .. AdjustInterval + 1 BY <2>1 DEF PolicyOK, Fields
  <2>3. Cardinality(Elements(loaded)) = Len(loaded) BY <2>1, OrderLen DEF OrdersOK
  <2>4. Cardinality(Elements(touched)) = Len(touched) BY <2>1, OrderLen DEF OrdersOK
  <2>5. Cardinality(Elements(lastUse)) = Len(lastUse) BY <2>1, OrderLen DEF OrdersOK
  <2>6. IsOrder(loaded, Used) /\ IsOrder(touched, Used) /\ IsOrder(lastUse, Used)
    BY <2>1, <2>3, <2>4, <2>5 DEF IsOrder, OrdersOK, Used
  <2>7. Used \subseteq Frames BY <2>1, UsedIs
  <2> QED BY <2>1, <2>2, <2>6, <2>7 DEF TypeOK, PolicyOK, BitsOK
<1> QED BY <1>1, Invariance, PTL

\* Every search ends with a victim exactly if there is an unpinned frame in use, and the
\* victim is one, under each policy that decides from the frames and whatever the scores of
\* Optimal and OPT+, for any number of frames.
THEOREM AVictimIsFound == Spec => []VictimFound
<1>1. IInv => VictimFound
  <2> SUFFICES ASSUME IInv, NEW S \in Searches
               PROVE  (\A o \in S : o.victim \in Evictable) /\ (S = {} <=> Evictable = {})
    BY DEF VictimFound
  <2>1. Found(S) BY SearchFound
  <2> QED BY <2>1 DEF Found
<1> QED BY <1>1, Invariance, PTL

\* CLOCK spares a referenced page while some page was not referenced, takes the first
\* other one ahead of its hand and the chance of exactly the pages that it passes, and
\* two turns of the hand are always enough, for any number of frames.
THEOREM PagesHaveASecondChance == Spec => []SecondChance
<1>1. IInv => SecondChance
  <2> SUFFICES ASSUME IInv, alg = "CLOCK", NEW o \in SelectVictim PROVE Chosen(o)
    BY DEF SecondChance, Chosen
  <2>1. hand \in Frames /\ OrdersOK BY DEF IInv, PolicyOK
  <2>2. Evictable \subseteq Frames BY <2>1, UsedIs
  <2>3. o \in ClockVictim BY DEF SelectVictim, Searches
  <2> QED BY <2>1, <2>2, <2>3, ClockFound
<1> QED BY <1>1, Invariance, PTL

\* WSClock's victim is outside the working set as long as some unpinned page is, however
\* many of those are referenced or dirty, and whatever leaves it during the search.
THEOREM TheWorkingSetIsSpared == Spec => []WorkingSetSpared
<1>1. IInv => WorkingSetSpared
  <2> SUFFICES ASSUME IInv, NEW A \in Ageings, Evictable \cap A # {}, NEW B \in Later(A),
                      NEW o \in WSClockVictim(A, B)
               PROVE  o.victim \in B
    BY DEF WorkingSetSpared
  <2>1. hand \in Frames /\ OrdersOK BY DEF IInv, PolicyOK
  <2>2. Evictable \subseteq Frames BY <2>1, UsedIs
  <2>3. A \subseteq B BY DEF Later
  <2>4. \A x \in WSClockVictim(A, B) :
           x \in Search /\ x.victim \in Evictable /\ (Evictable \cap A # {} => x.victim \in B)
    BY <2>1, <2>2, <2>3, WSFound
  <2> QED BY <2>4
<1> QED BY <1>1, Invariance, PTL

\* LRU's victim is the unpinned page whose last load, read or write is the oldest, whichever
\* of the twelve policies were in use before, unless the victim itself was last used under one
\* that does not record it: FIFO for reads, Optimal and OPT+ for every access.
THEOREM TheVictimIsUnusedLongest == Spec => []UnusedLongest
<1>1. IInv => UnusedLongest
  <2> SUFFICES ASSUME IInv, alg = "LRU", NEW o \in SelectVictim, o.victim \notin blind
               PROVE  {o.victim} = FirstIn(lastUse, Evictable)
    BY DEF UnusedLongest
  <2>1. /\ Order(touched) /\ Order(lastUse) /\ Elements(touched) = Used /\ Elements(lastUse) = Used
    BY DEF IInv, OrdersOK
  <2>2. Evictable \subseteq Used BY UsedIs DEF IInv
  <2>3. o \in LRUVictim BY DEF SelectVictim, Searches
  <2>4. PICK f \in FirstIn(touched, Evictable) : o = Outcome(f, hand, ref, mod)
    BY <2>3 DEF LRUVictim, Pick
  <2>5. o.victim = f BY <2>4 DEF Outcome
  <2>6. f \in Elements(touched) /\ f \in Evictable /\ \A g \in Evictable : ~Before(touched, g, f)
    BY <2>1, FirstInIs
  <2>7. ASSUME NEW g \in Evictable, Before(lastUse, g, f) PROVE FALSE
    <3>1. g # f BY <2>1, <2>7, BeforeIn
    <3>2. Before(touched, f, g) BY <2>1, <2>2, <2>6, <3>1, BeforeTotal
    <3>3. Before(lastUse, f, g) BY <2>1, <2>2, <2>5, <2>6, <3>2 DEF IInv, SameOrder
    <3> QED BY <2>1, <2>7, <3>3, BeforeOnce
  <2>8. f \in FirstIn(lastUse, Evictable) BY <2>1, <2>6, <2>7, FirstInIs
  <2>9. PICK g \in Evictable : FirstIn(lastUse, Evictable) = {g}
    BY <2>1, <2>6, FirstInOne
  <2> QED BY <2>5, <2>8, <2>9
<1> QED BY <1>1, Invariance, PTL

\* A fault under PFF leaves no more pages than the target that the trimming was called
\* with allows, as far as pins let it, and leaves the page that it was for unless only
\* pinned pages are left, for any number of frames and however the loop moves the target.
THEOREM TrimmingSparesTheNewest == Spec => []TrimSparesNewest
<1>1. IInv => TrimSparesNewest
  <2> SUFFICES ASSUME IInv, NEW o \in PFFFaults PROVE TrimOK(o.frame, o.trim)
    BY DEF TrimSparesNewest, TrimOK
  <2> QED BY PFFFaultIs
<1> QED BY <1>1, Invariance, PTL

\* A search that has nothing to find leaves the hand of CLOCK and of WSClock where it was,
\* after two turns, and all bits as they were: what FaultFails says of the error path.
THEOREM FailedSearchChangesNothing ==
    Spec => [](Evictable = {} =>
                 ClockSweep(2 * NumFrames) = First /\ \A A : WSSweep(A) = First)
<1>1. IInv => (Evictable = {} =>
                 ClockSweep(2 * NumFrames) = First /\ \A A : WSSweep(A) = First)
  <2> SUFFICES ASSUME IInv, Evictable = {}, NEW A
               PROVE  ClockSweep(2 * NumFrames) = First /\ WSSweep(A) = First
    OBVIOUS
  <2>1. hand \in Frames BY DEF IInv, PolicyOK
  <2>2. PICK k \in Nat : k = 2 * NumFrames BY NumFramesAssumption
  <2>3. Passes(k) = 0 BY <2>2, NumFramesAssumption DEF Passes
  <2>4. Ahead(hand) = 0
    <3>1. hand \in Nat /\ Ahead(hand) = hand - hand BY <2>1, AheadIs DEF Frames
    <3> QED BY <3>1
  <2>5. ASSUME NEW c \in Search, c.victim = NoFrame, Ahead(c.hand) = Passes(k), c.ref = ref, c.mod = mod
        PROVE  c = First
    <3>1. c.hand \in Frames BY <2>5 DEF Search
    <3>2. c.hand = hand BY <2>1, <2>3, <2>4, <2>5, <3>1, AheadOnce
    <3> QED BY <2>5, <3>2 DEF Search, First, Outcome
  <2>6. PICK c : c = ClockSweep(k) OBVIOUS
  <2>7. Swept(c, k) BY <2>1, <2>2, <2>6, ClockSwept
  <2>8. c.victim = NoFrame BY <2>7 DEF Swept, Chosen
  <2>9. c \in Search /\ Ahead(c.hand) = Passes(k) /\ c.ref = ref /\ c.mod = mod
    BY <2>7, <2>8 DEF Swept, Passed
  <2>10. PICK d : d = WSSweep(A) OBVIOUS
  <2>11. WSSwept(A, d, k) BY <2>1, <2>2, <2>10, WSTurned
  <2>12. d.victim = NoFrame BY <2>11 DEF WSSwept
  <2>13. /\ d \in Search /\ Ahead(d.hand) = Passes(k)
         /\ ref \subseteq d.ref /\ mod \subseteq d.mod
    BY <2>11, <2>12 DEF WSSwept, Cleaned
  <2>14. d.ref = ref /\ d.mod = mod BY <2>13 DEF Search
  <2>15. c = First BY <2>5, <2>8, <2>9
  <2>16. d = First BY <2>5, <2>12, <2>13, <2>14
  <2> QED BY <2>2, <2>6, <2>10, <2>15, <2>16
<1> QED BY <1>1, Invariance, PTL

=============================================================================
