---------------------------- MODULE MonitorProofs ----------------------------
(***************************************************************************)
(* Theorems about Monitor, for queues, logs, histories, windows and        *)
(* channels of any capacity and any set of subscribers.                    *)
(***************************************************************************)
EXTENDS Monitor, SequenceTheorems, FiniteSetTheorems, TLAPS

-----------------------------------------------------------------------------
(* Sequences: what is in them, and in which order *)

\* The members of a sequence are its entries.
LEMMA MembersAre ==
    ASSUME NEW S, NEW q \in Seq(S)
    PROVE  /\ Members(q) \subseteq S
           /\ \A i \in 1 .. Len(q) : q[i] \in Members(q)
           /\ \A x \in Members(q) : \E i \in 1 .. Len(q) : x = q[i]
BY LenProperties DEF Members

\* The empty sequence has none, in order.
LEMMA EmptyMembers == Members(<<>>) = {} /\ InOrder(<<>>)
BY DEF Members, InOrder

\* One event is in order.
LEMMA OneMember ==
    ASSUME NEW e PROVE Members(<<e>>) = {e} /\ InOrder(<<e>>)
BY DEF Members, InOrder

\* An event at the end of a sequence joins its members.
LEMMA AppendMembers ==
    ASSUME NEW S, NEW q \in Seq(S), NEW e \in S
    PROVE  Members(Append(q, e)) = Members(q) \cup {e}
<1>1. /\ Append(q, e) \in Seq(S) /\ Len(Append(q, e)) = Len(q) + 1 /\ Len(q) \in Nat
      /\ \A i \in 1 .. Len(q) : Append(q, e)[i] = q[i]
      /\ Append(q, e)[Len(q) + 1] = e
  BY AppendProperties, LenProperties
<1> DEFINE r == Append(q, e)
<1>2. /\ \A i \in 1 .. Len(r) : r[i] \in Members(r)
      /\ \A x \in Members(r) : \E i \in 1 .. Len(r) : x = r[i]
  BY <1>1, MembersAre
<1> HIDE DEF r
<1>3. /\ \A i \in 1 .. Len(q) : q[i] \in Members(q)
      /\ \A x \in Members(q) : \E i \in 1 .. Len(q) : x = q[i]
  BY MembersAre
<1>4. Members(r) \subseteq Members(q) \cup {e}
  BY <1>1, <1>2, <1>3 DEF r
<1>5. Members(q) \cup {e} \subseteq Members(r)
  BY <1>1, <1>2, <1>3 DEF r
<1> QED BY <1>4, <1>5 DEF r

\* An event that is newer than all before it keeps the order, and so does an alarm.
LEMMA AppendOrder ==
    ASSUME NEW q \in Seq(Nat), NEW e \in Nat, InOrder(q),
           \A x \in Members(q) : x # Alarm /\ e # Alarm => x < e
    PROVE  InOrder(Append(q, e))
<1>1. /\ Len(Append(q, e)) = Len(q) + 1 /\ Len(q) \in Nat
      /\ DOMAIN Append(q, e) = 1 .. Len(q) + 1 /\ DOMAIN q = 1 .. Len(q)
      /\ \A i \in 1 .. Len(q) : Append(q, e)[i] = q[i]
      /\ Append(q, e)[Len(q) + 1] = e
  BY AppendProperties, LenProperties
<1>2. \A i \in 1 .. Len(q) : q[i] \in Members(q) BY MembersAre
<1> DEFINE r == Append(q, e)
<1> HIDE DEF r
<1> SUFFICES ASSUME NEW i \in 1 .. Len(q) + 1, NEW j \in 1 .. Len(q) + 1, i < j,
                    r[i] # Alarm, r[j] # Alarm
             PROVE  r[i] < r[j]
  BY <1>1 DEF InOrder, r
<1>3. i \in 1 .. Len(q) /\ r[i] = q[i] BY <1>1 DEF r
<1>4. CASE j \in 1 .. Len(q)
  BY <1>1, <1>3, <1>4 DEF InOrder, r
<1>5. CASE j = Len(q) + 1
  BY <1>1, <1>2, <1>3, <1>5 DEF r
<1> QED BY <1>1, <1>4, <1>5

\* A sequence is its head and the members of its tail.
LEMMA TailMembers ==
    ASSUME NEW S, NEW q \in Seq(S), q # <<>>
    PROVE  Members(q) = {Head(q)} \cup Members(Tail(q))
<1>1. /\ Len(q) \in Nat \ {0} /\ Tail(q) \in Seq(S) /\ Len(Tail(q)) = Len(q) - 1
      /\ \A i \in 1 .. Len(Tail(q)) : Tail(q)[i] = q[i + 1]
  BY HeadTailProperties, EmptySeq, LenProperties
<1>2. Head(q) = q[1] OBVIOUS
<1> DEFINE r == Tail(q)
<1>3. /\ \A i \in 1 .. Len(r) : r[i] \in Members(r)
      /\ \A x \in Members(r) : \E i \in 1 .. Len(r) : x = r[i]
  BY <1>1, MembersAre
<1> HIDE DEF r
<1>4. /\ \A i \in 1 .. Len(q) : q[i] \in Members(q)
      /\ \A x \in Members(q) : \E i \in 1 .. Len(q) : x = q[i]
  BY MembersAre
<1>5. ASSUME NEW x \in Members(q) PROVE x \in {q[1]} \cup Members(r)
  <2>1. PICK i \in 1 .. Len(q) : x = q[i] BY <1>4
  <2>2. i # 1 => i - 1 \in 1 .. Len(r) /\ (i - 1) + 1 = i BY <1>1 DEF r
  <2>3. \A j \in 1 .. Len(r) : r[j] = q[j + 1] BY <1>1 DEF r
  <2>4. i # 1 => r[i - 1] = q[(i - 1) + 1]
    <3> HIDE DEF r
    <3> QED BY <2>2, <2>3
  <2> QED BY <2>1, <2>2, <2>4, <1>3
<1>6. {q[1]} \cup Members(r) \subseteq Members(q)
  BY <1>1, <1>3, <1>4 DEF r
<1> QED BY <1>2, <1>5, <1>6 DEF r

\* What comes after the head of an ordered sequence is ordered and later than the head.
LEMMA TailOrder ==
    ASSUME NEW q \in Seq(Nat), q # <<>>, InOrder(q)
    PROVE  /\ InOrder(Tail(q))
           /\ \A x \in Members(Tail(q)) : Head(q) # Alarm /\ x # Alarm => Head(q) < x
<1>1. /\ Len(q) \in Nat \ {0} /\ Tail(q) \in Seq(Nat) /\ Len(Tail(q)) = Len(q) - 1
      /\ DOMAIN Tail(q) = 1 .. Len(q) - 1 /\ DOMAIN q = 1 .. Len(q)
      /\ \A i \in 1 .. Len(q) - 1 : Tail(q)[i] = q[i + 1]
  BY HeadTailProperties, EmptySeq, LenProperties
<1>2. Head(q) = q[1] OBVIOUS
<1>3. \A x \in Members(Tail(q)) : \E i \in 1 .. Len(q) - 1 : x = q[i + 1]
  <2>1. \A x \in Members(Tail(q)) : \E i \in 1 .. Len(Tail(q)) : x = Tail(q)[i]
    BY <1>1, MembersAre
  <2> QED BY <1>1, <2>1
<1>4. \A i, j \in 1 .. Len(q) : i < j /\ q[i] # Alarm /\ q[j] # Alarm => q[i] < q[j]
  BY <1>1 DEF InOrder
<1>5. InOrder(Tail(q)) BY <1>1, <1>4 DEF InOrder
<1>6. ASSUME NEW x \in Members(Tail(q)), Head(q) # Alarm, x # Alarm PROVE Head(q) < x
  <2>1. PICK i \in 1 .. Len(q) - 1 : x = q[i + 1] BY <1>3
  <2>2. 1 \in 1 .. Len(q) /\ i + 1 \in 1 .. Len(q) /\ 1 < i + 1 BY <1>1
  <2> QED BY <1>2, <1>4, <1>6, <2>1, <2>2
<1> QED BY <1>5, <1>6

\* Last keeps the newest elements: its i-th is the one that is as far from the end.
LEMMA LastIs ==
    ASSUME NEW S, NEW q \in Seq(S), NEW n \in Nat \ {0}
    PROVE  /\ Last(q, n) \in Seq(S) /\ Len(Last(q, n)) <= n
           /\ \E k \in 0 .. Len(q) :
                /\ Len(Last(q, n)) = Len(q) - k
                /\ k > 0 => Len(Last(q, n)) = n
                /\ \A i \in 1 .. Len(q) - k : Last(q, n)[i] = q[i + k]
<1>1. Len(q) \in Nat /\ \A i \in 1 .. Len(q) : q[i] \in S BY LenProperties
<1>2. CASE Len(q) > n
  <2>1. Last(q, n) = SubSeq(q, Len(q) - n + 1, Len(q)) BY <1>2 DEF Last
  <2>2. \A i \in Len(q) - n + 1 .. Len(q) : q[i] \in S BY <1>1, <1>2
  <2> DEFINE m == Len(q) - n + 1
  <2>5. m \in Int /\ Len(q) \in Int /\ m <= Len(q) /\ Len(q) - m + 1 = n
    BY <1>1, <1>2
  <2>6. \A i \in Int : m + i - 1 = i + (Len(q) - n) BY <1>1
  <2>7. /\ SubSeq(q, m, Len(q)) \in Seq(S)
        /\ Len(SubSeq(q, m, Len(q))) = IF m <= Len(q) THEN Len(q) - m + 1 ELSE 0
        /\ \A i \in 1 .. Len(q) - m + 1 : SubSeq(q, m, Len(q))[i] = q[m + i - 1]
    <3> HIDE DEF m
    <3> QED BY <2>2, <2>5, SubSeqProperties DEF m
  <2>3. /\ Last(q, n) \in Seq(S) /\ Len(Last(q, n)) = n
        /\ \A i \in 1 .. n : Last(q, n)[i] = q[i + (Len(q) - n)]
    BY <2>1, <2>5, <2>6, <2>7
  <2>4. Len(q) - n \in 0 .. Len(q) /\ Len(q) - (Len(q) - n) = n BY <1>1, <1>2
  <2> DEFINE k == Len(q) - n
  <2>8. k \in 0 .. Len(q) /\ Len(q) - k = n BY <2>4
  <2>9. \A i \in 1 .. n : Last(q, n)[i] = q[i + k] BY <2>3
  <2>10. n <= n /\ n \in Nat OBVIOUS
  <2> HIDE DEF k
  <2>11. \E j \in 0 .. Len(q) :
            /\ Len(Last(q, n)) = Len(q) - j
            /\ j > 0 => Len(Last(q, n)) = n
            /\ \A i \in 1 .. Len(q) - j : Last(q, n)[i] = q[i + j]
    <3> USE <2>8
    <3> WITNESS k \in 0 .. Len(q)
    <3> QED BY <2>3, <2>9
  <2> QED BY <2>3, <2>10, <2>11
<1>3. CASE ~(Len(q) > n)
  <2>1. Last(q, n) = q BY <1>3 DEF Last
  <2> QED BY <1>1, <1>3, <2>1
<1> QED BY <1>2, <1>3

\* It keeps the order, and of the events it keeps all that are newer than one it keeps.
LEMMA LastOrder ==
    ASSUME NEW q \in Seq(Nat), NEW n \in Nat \ {0}, InOrder(q)
    PROVE  /\ Members(Last(q, n)) \subseteq Members(q) /\ InOrder(Last(q, n))
           /\ \A x \in Members(Last(q, n)) \ {Alarm}, y \in Members(q) \ {Alarm} :
                x <= y => y \in Members(Last(q, n))
<1> DEFINE r == Last(q, n)
<1>1. r \in Seq(Nat) BY LastIs
<1>2. PICK k \in 0 .. Len(q) :
         Len(r) = Len(q) - k /\ \A i \in 1 .. Len(q) - k : r[i] = q[i + k]
  BY LastIs
<1> HIDE DEF r
<1>3. Len(q) \in Nat /\ DOMAIN q = 1 .. Len(q) /\ DOMAIN r = 1 .. Len(q) - k
  BY <1>1, <1>2, LenProperties
<1>4. /\ \A i \in 1 .. Len(q) : q[i] \in Members(q) /\ q[i] \in Nat
      /\ \A x \in Members(q) : \E i \in 1 .. Len(q) : x = q[i]
      /\ \A i \in 1 .. Len(q) - k : r[i] \in Members(r)
      /\ \A x \in Members(r) : \E i \in 1 .. Len(q) - k : x = r[i]
  <2>1. /\ Members(q) \subseteq Nat /\ \A i \in 1 .. Len(q) : q[i] \in Members(q)
        /\ \A x \in Members(q) : \E i \in 1 .. Len(q) : x = q[i]
    BY MembersAre
  <2>2. /\ \A i \in 1 .. Len(r) : r[i] \in Members(r)
        /\ \A x \in Members(r) : \E i \in 1 .. Len(r) : x = r[i]
    BY <1>1, MembersAre
  <2> QED BY <1>2, <2>1, <2>2
<1>5. \A i, j \in 1 .. Len(q) : i < j /\ q[i] # Alarm /\ q[j] # Alarm => q[i] < q[j]
  BY <1>3 DEF InOrder
<1>6. Members(r) \subseteq Members(q) BY <1>2, <1>3, <1>4
<1>7. InOrder(r)
  <2> SUFFICES ASSUME NEW i \in 1 .. Len(q) - k, NEW j \in 1 .. Len(q) - k, i < j,
                      r[i] # Alarm, r[j] # Alarm
               PROVE  r[i] < r[j]
    BY <1>3 DEF InOrder
  <2>1. i + k \in 1 .. Len(q) /\ j + k \in 1 .. Len(q) /\ i + k < j + k BY <1>3
  <2>2. r[i] = q[i + k] /\ r[j] = q[j + k] BY <1>2
  <2> QED BY <1>5, <2>1, <2>2
<1>8. ASSUME NEW x \in Members(r) \ {Alarm}, NEW y \in Members(q) \ {Alarm}, x <= y
      PROVE  y \in Members(r)
  <2>0. PICK i \in 1 .. Len(q) - k : x = r[i] BY <1>4
  <2>1. x = q[i + k] BY <1>2, <2>0
  <2>2. PICK j \in 1 .. Len(q) : y = q[j] BY <1>4
  <2>3. i + k \in 1 .. Len(q) BY <1>3
  <2>4. ~(j < i + k) BY <1>4, <1>5, <1>8, <2>1, <2>2, <2>3
  <2>5. j - k \in 1 .. Len(q) - k /\ r[j - k] = q[j] BY <1>2, <1>3, <2>4
  <2> QED BY <1>4, <2>2, <2>5
<1> QED BY <1>6, <1>7, <1>8 DEF r

\* Two sequences in order make one when all of the first is older than all of the second.
LEMMA ConcatOrder ==
    ASSUME NEW q \in Seq(Nat), NEW r \in Seq(Nat)
    PROVE  /\ q \o r \in Seq(Nat) /\ Members(q \o r) = Members(q) \cup Members(r)
           /\ (/\ InOrder(q) /\ InOrder(r)
               /\ \A x \in Members(q) \ {Alarm}, y \in Members(r) \ {Alarm} : x < y)
              => InOrder(q \o r)
<1> DEFINE c == q \o r
<1>1. /\ c \in Seq(Nat) /\ Len(c) = Len(q) + Len(r) /\ Len(q) \in Nat /\ Len(r) \in Nat
      /\ \A i \in 1 .. Len(q) + Len(r) : c[i] = IF i <= Len(q) THEN q[i] ELSE r[i - Len(q)]
  BY ConcatProperties, LenProperties
<1> HIDE DEF c
<1>2. DOMAIN q = 1 .. Len(q) /\ DOMAIN r = 1 .. Len(r) /\ DOMAIN c = 1 .. Len(q) + Len(r)
  BY <1>1, LenProperties
<1>3. /\ \A i \in 1 .. Len(q) : i \in 1 .. Len(c) /\ c[i] = q[i]
      /\ \A i \in 1 .. Len(r) : i + Len(q) \in 1 .. Len(c) /\ c[i + Len(q)] = r[i]
      /\ \A i \in 1 .. Len(c) : i \in 1 .. Len(q) \/ i - Len(q) \in 1 .. Len(r)
      /\ \A i \in 1 .. Len(c) : i \notin 1 .. Len(q) => c[i] = r[i - Len(q)]
  <2>1. /\ \A i \in 1 .. Len(q) : i \in 1 .. Len(q) + Len(r) /\ i <= Len(q)
        /\ \A i \in 1 .. Len(r) : /\ i + Len(q) \in 1 .. Len(q) + Len(r)
                                  /\ ~(i + Len(q) <= Len(q)) /\ (i + Len(q)) - Len(q) = i
        /\ \A i \in 1 .. Len(q) + Len(r) :
             i \notin 1 .. Len(q) => i - Len(q) \in 1 .. Len(r) /\ ~(i <= Len(q))
    BY <1>1
  <2>2. \A i \in 1 .. Len(q) : c[i] = q[i] BY <1>1, <2>1
  <2>3. \A i \in 1 .. Len(r) : c[i + Len(q)] = r[(i + Len(q)) - Len(q)] BY <1>1, <2>1
  <2>4. \A i \in 1 .. Len(c) : i \notin 1 .. Len(q) => c[i] = r[i - Len(q)] BY <1>1, <2>1
  <2> QED BY <1>1, <2>1, <2>2, <2>3, <2>4
<1>q. /\ \A i \in 1 .. Len(q) : q[i] \in Members(q)
      /\ \A x \in Members(q) : \E i \in 1 .. Len(q) : x = q[i]
  BY MembersAre
<1>r. /\ \A i \in 1 .. Len(r) : r[i] \in Members(r)
      /\ \A x \in Members(r) : \E i \in 1 .. Len(r) : x = r[i]
  BY MembersAre
<1>c. /\ \A i \in 1 .. Len(c) : c[i] \in Members(c)
      /\ \A x \in Members(c) : \E i \in 1 .. Len(c) : x = c[i]
  BY <1>1, MembersAre
<1>5. Members(c) \subseteq Members(q) \cup Members(r)
  <2> SUFFICES ASSUME NEW x \in Members(c) PROVE x \in Members(q) \cup Members(r) OBVIOUS
  <2>1. PICK i \in 1 .. Len(c) : x = c[i] BY <1>c
  <2>2. CASE i \in 1 .. Len(q) BY <1>3, <1>q, <2>1, <2>2
  <2>3. CASE i \notin 1 .. Len(q)
    <3>1. i - Len(q) \in 1 .. Len(r) /\ c[i] = r[i - Len(q)] BY <1>3, <2>3
    <3> QED BY <1>r, <2>1, <3>1
  <2> QED BY <2>2, <2>3
<1>6. Members(q) \cup Members(r) \subseteq Members(c)
  <2>1. ASSUME NEW x \in Members(q) PROVE x \in Members(c)
    <3>1. PICK i \in 1 .. Len(q) : x = q[i] BY <1>q
    <3>2. i \in 1 .. Len(c) /\ c[i] = q[i] BY <1>3
    <3> QED BY <1>c, <3>1, <3>2
  <2>2. ASSUME NEW x \in Members(r) PROVE x \in Members(c)
    <3>1. PICK i \in 1 .. Len(r) : x = r[i] BY <1>r
    <3>2. i + Len(q) \in 1 .. Len(c) /\ c[i + Len(q)] = x BY <1>3, <3>1
    <3> QED BY <1>c, <3>2
  <2> QED BY <2>1, <2>2
<1>7. ASSUME InOrder(q), InOrder(r),
             \A x \in Members(q) \ {Alarm}, y \in Members(r) \ {Alarm} : x < y
      PROVE  InOrder(c)
  <2> SUFFICES ASSUME NEW i \in 1 .. Len(q) + Len(r), NEW j \in 1 .. Len(q) + Len(r), i < j,
                      c[i] # Alarm, c[j] # Alarm
               PROVE  c[i] < c[j]
    BY <1>2 DEF InOrder
  <2>1. CASE j <= Len(q)
    <3>1. i \in DOMAIN q /\ j \in DOMAIN q /\ c[i] = q[i] /\ c[j] = q[j]
      BY <1>1, <1>2, <1>3, <2>1
    <3>2. \A m, n \in DOMAIN q : m < n /\ q[m] # Alarm /\ q[n] # Alarm => q[m] < q[n]
      BY <1>7 DEF InOrder
    <3> QED BY <3>1, <3>2
  <2>2. CASE i > Len(q)
    <3>1. i - Len(q) \in DOMAIN r /\ j - Len(q) \in DOMAIN r /\ i - Len(q) < j - Len(q)
      BY <1>1, <1>2, <2>2
    <3>2. c[i] = r[i - Len(q)] /\ c[j] = r[j - Len(q)] BY <1>1, <2>2
    <3>3. \A m, n \in DOMAIN r : m < n /\ r[m] # Alarm /\ r[n] # Alarm => r[m] < r[n]
      BY <1>7 DEF InOrder
    <3> QED BY <3>1, <3>2, <3>3
  <2>3. CASE i <= Len(q) /\ j > Len(q)
    <3>1. i \in 1 .. Len(q) /\ j - Len(q) \in 1 .. Len(r) BY <1>1, <2>3
    <3>2. c[i] = q[i] /\ c[j] = r[j - Len(q)] BY <1>1, <2>3
    <3>3. q[i] \in Members(q) \ {Alarm} /\ r[j - Len(q)] \in Members(r) \ {Alarm}
      BY <1>q, <1>r, <3>1, <3>2
    <3> QED BY <1>7, <3>2, <3>3
  <2> QED BY <1>1, <2>1, <2>2, <2>3
<1> QED BY <1>1, <1>5, <1>6, <1>7 DEF c

-----------------------------------------------------------------------------
(* What every step keeps *)

\* The worker has an event in its hands, and the capture goroutine only has alarms.
Holding == run["worker"].at \in {"log", "copy", "send"}
Handling ==
    /\ run["capture"].event = Alarm
    /\ Holding => run["worker"].event \in 1 .. emitted
    /\ reset # "idle" => resetAt # -1

\* What of the events is still known: logged, in hand, queued.
Hand == IF At("worker", "log") THEN {run["worker"].event} ELSE {}
Known == Members(log) \cup Hand \cup Members(queue)

\* The three are in order and one after the other, and from an event that is known up
\* to the newest one all are known or lost: NothingLostSilently without its sequence.
Ordered ==
    /\ InOrder(log) /\ InOrder(queue)
    /\ \A x \in Members(log) \ {Alarm}, y \in Hand : x < y
    /\ \A x \in Members(log) \ {Alarm}, y \in Members(queue) : x < y
    /\ \A x \in Hand, y \in Members(queue) : x < y
Covered ==
    \A x \in Known \ {Alarm} :
      x <= emitted /\ x \notin lost /\ x .. emitted \subseteq Known \cup lost

\* The metric counts the losses since the last reset.
Counted == dropped = Cardinality({n \in lost : n > resetAt})

\* What subscriber s has got or is about to get is in order, and older than the events
\* that are still to be sent to it: those queued, and the one in the worker's hands
\* unless it is done with s.
Seen(s) == {chan[s].got} \cup Members(chan[s].q)
Pending(s) ==
    \/ run["worker"].at \in {"log", "copy"}
    \/ run["worker"].at = "send" /\ s \in run["worker"].todo
Served(s) ==
    /\ InOrder(chan[s].q) /\ \A x \in Members(chan[s].q) \ {Alarm} : chan[s].got < x
    /\ \A x \in Seen(s) : x <= emitted
    /\ \A x \in Seen(s), y \in Members(queue) : x < y
    /\ Pending(s) => \A x \in Seen(s) : x < run["worker"].event
AllServed ==
    /\ \A s \in Subs : Served(s)
    /\ Holding => \A y \in Members(queue) : run["worker"].event < y

\* Before a reset the snapshots only grow, and what DetectRead has judged is what the
\* window still shows when Decide publishes it.
Growing ==
    /\ \A i, j \in DOMAIN history : i <= j => history[i].accesses <= history[j].accesses
    /\ \A i \in DOMAIN history : history[i].accesses <= accesses
    /\ run["capture"].at = "append" =>
         /\ local.snap.accesses <= accesses
         /\ \A i \in DOMAIN history : history[i].accesses <= local.snap.accesses
Newest == Last(history, Window)
Judged ==
    run["capture"].at = "decide" =>
      local.verdict = Thrash(Head(Newest), Newest[Len(Newest)])
Verdicts == resetAt = -1 => Growing /\ Judged

IInv ==
    /\ TypeOK /\ Handling /\ Ordered /\ Covered /\ Counted /\ AllServed /\ Verdicts
    /\ VerdictIsLatest

-----------------------------------------------------------------------------
(* emitEvent *)

\* What emitEvent does: nothing after Close, or one event more, queued or lost.
Ignored(d) == UNCHANGED <<queue, emitted, lost>> /\ dropped' = d
Queued(d) ==
    /\ emitted' = emitted + 1 /\ UNCHANGED lost /\ dropped' = d
    /\ Len(queue) < QueueCap /\ queue' = Append(queue, emitted + 1)
Missed(d) ==
    /\ emitted' = emitted + 1 /\ lost' = lost \cup {emitted + 1} /\ dropped' = d + 1
    /\ UNCHANGED queue

\* emit ignores an event of a closed pipeline, queues it, or misses a full channel.
LEMMA EmitIs ==
    ASSUME NEW d, Emit(d)
    PROVE  Ignored(d) \/ Queued(d) \/ Missed(d)
BY DEF Emit, Ignored, Queued, Missed

\* The types of the pipe, which the other parts rest on.
PipeTypes ==
    /\ queue \in Seq(1 .. MaxEmits) /\ Len(queue) <= QueueCap
    /\ emitted \in 0 .. MaxEmits /\ lost \subseteq 1 .. emitted /\ resetAt \in -1 .. emitted

\* What the channels and the log hold are event numbers, and only the log and the
\* channels of subscribers may hold the alarm.
LEMMA MembersTypes ==
    ASSUME TypeOK
    PROVE  /\ queue \in Seq(Nat) /\ Members(queue) \subseteq Nat \ {Alarm}
           /\ log \in Seq(Nat) /\ Members(log) \subseteq Nat
           /\ \A s \in Subs : /\ chan[s].q \in Seq(Nat) /\ Members(chan[s].q) \subseteq Nat
                             /\ chan[s].got \in Nat
<1>1. /\ 1 .. MaxEmits \subseteq Nat \ {Alarm} /\ 1 .. MaxEmits \subseteq Nat
      /\ 0 .. MaxEmits \subseteq Nat
  BY CapsAssumption DEF Alarm
<1>2. queue \in Seq(1 .. MaxEmits) /\ log \in Seq(0 .. MaxEmits) BY DEF TypeOK
<1>3. \A s \in Subs : chan[s].q \in Seq(0 .. MaxEmits) /\ chan[s].got \in 0 .. MaxEmits
  BY DEF TypeOK, Chan
<1>4. queue \in Seq(Nat) /\ log \in Seq(Nat) BY <1>1, <1>2, SeqMonotonic
<1>5. Members(queue) \subseteq 1 .. MaxEmits BY <1>2, MembersAre
<1>6. Members(log) \subseteq 0 .. MaxEmits BY <1>2, MembersAre
<1>7. ASSUME NEW s \in Subs
      PROVE  chan[s].q \in Seq(Nat) /\ Members(chan[s].q) \subseteq Nat
  <2>1. chan[s].q \in Seq(Nat) BY <1>1, <1>3, SeqMonotonic
  <2> QED BY <2>1, MembersAre
<1> QED BY <1>1, <1>3, <1>4, <1>5, <1>6, <1>7

\* The event in the hand of the processing goroutine was emitted.
LEMMA HandTypes ==
    ASSUME TypeOK, Handling
    PROVE  Hand \subseteq 1 .. emitted /\ Hand \subseteq Nat \ {Alarm} /\ Known \subseteq Nat
<1>1. Hand \subseteq 1 .. emitted BY DEF Handling, Holding, Hand, At
<1>2. 1 .. emitted \subseteq Nat \ {Alarm} BY DEF TypeOK, Alarm
<1> QED BY <1>1, <1>2, MembersTypes DEF Known

\* emit keeps the types of the pipeline.
LEMMA EmitTypes ==
    ASSUME TypeOK, NEW d, Emit(d), emitted < MaxEmits, resetAt' \in {resetAt, emitted}
    PROVE  PipeTypes'
<1> USE CapsAssumption DEF TypeOK, PipeTypes
<1>1. CASE Ignored(d) BY <1>1 DEF Ignored
<1>2. CASE Queued(d)
  <2>1. emitted + 1 \in 1 .. MaxEmits OBVIOUS
  <2>2. /\ Append(queue, emitted + 1) \in Seq(1 .. MaxEmits)
        /\ Len(Append(queue, emitted + 1)) = Len(queue) + 1
    BY <2>1, AppendProperties
  <2>3. Len(queue) \in Nat BY LenProperties
  <2> QED BY <1>2, <2>1, <2>2, <2>3 DEF Queued
<1>3. CASE Missed(d) BY <1>3 DEF Missed
<1> QED BY <1>1, <1>2, <1>3, EmitIs

\* The number of losses since a point is a count of events.
LEMMA Losses ==
    ASSUME NEW n \in Nat, NEW L \in SUBSET (1 .. n), NEW k \in Int
    PROVE  /\ IsFiniteSet({m \in L : m > k})
           /\ Cardinality({m \in L : m > k}) \in 0 .. n
<1>1. IsFiniteSet(1 .. n) /\ Cardinality(1 .. n) = n
  <2>1. 1 \in Int /\ n \in Int /\ n - 1 + 1 = n /\ (1 > n => n = 0) OBVIOUS
  <2> QED BY <2>1, FS_Interval
<1> DEFINE T == {m \in L : m > k}
<1>2. T \in SUBSET (1 .. n) OBVIOUS
<1> HIDE DEF T
<1>3. IsFiniteSet(T) /\ Cardinality(T) <= n BY <1>1, <1>2, FS_Subset
<1>4. Cardinality(T) \in Nat BY <1>3, FS_CardinalityType
<1> QED BY <1>3, <1>4 DEF T

\* emit keeps the count of drops equal to the events lost since the last Reset, which
\* an emission and a Reset may change together.
LEMMA EmitCounted ==
    ASSUME TypeOK, Counted, NEW d, Emit(d),
           \/ resetAt' = resetAt /\ d = dropped
           \/ resetAt' = emitted /\ d = 0
    PROVE  Counted'
<1> DEFINE New(L, k) == {n \in L : n > k}
<1>0. emitted \in Nat /\ lost \in SUBSET (1 .. emitted) /\ resetAt \in Int /\ resetAt <= emitted
  BY DEF TypeOK
<1>1. d = Cardinality(New(lost, resetAt')) /\ IsFiniteSet(New(lost, resetAt'))
  <2>1. CASE resetAt' = resetAt /\ d = dropped
    BY <1>0, <2>1, Losses DEF Counted
  <2>2. CASE resetAt' = emitted /\ d = 0
    <3>0. \A n \in lost : ~(n > emitted) BY <1>0
    <3>1. New(lost, resetAt') = {} BY <2>2, <3>0
    <3> QED BY <2>2, <3>1, FS_EmptySet
  <2> QED BY <2>1, <2>2
<1>2. CASE lost' = lost /\ dropped' = d
  BY <1>1, <1>2 DEF Counted
<1>3. CASE lost' = lost \cup {emitted + 1} /\ dropped' = d + 1
  <2>1. /\ New(lost', resetAt') = New(lost, resetAt') \cup {emitted + 1}
        /\ emitted + 1 \notin New(lost, resetAt')
    BY <1>0, <1>3
  <2>2. Cardinality(New(lost', resetAt')) = Cardinality(New(lost, resetAt')) + 1
    <3> HIDE DEF New
    <3> QED BY <1>1, <2>1, FS_AddElement
  <2> QED BY <1>1, <1>3, <2>2 DEF Counted
<1> QED BY <1>2, <1>3, EmitIs DEF Ignored, Queued, Missed

\* An event more keeps the order: it is newer than all that are known.
LEMMA EmitOrdered ==
    ASSUME TypeOK, Handling, Ordered, Covered, NEW d, Emit(d), UNCHANGED <<log, run>>
    PROVE  Ordered' /\ Covered'
<1>0. /\ emitted \in Nat /\ lost \subseteq 1 .. emitted /\ Members(queue) \subseteq Nat \ {Alarm}
      /\ queue \in Seq(Nat) /\ Known \subseteq Nat
  BY MembersTypes, HandTypes DEF TypeOK
<1>1. Hand' = Hand /\ Members(log)' = Members(log) /\ InOrder(log)' = InOrder(log)
  BY DEF Hand, At
<1>2. CASE Ignored(d)
  BY <1>1, <1>2 DEF Ignored, Ordered, Covered, Known
<1>3. CASE Queued(d)
  <2>1. Members(queue)' = Members(queue) \cup {emitted + 1}
    BY <1>0, <1>3, AppendMembers DEF Queued
  <2>2. \A x \in Known \ {Alarm} : x < emitted + 1 BY <1>0 DEF Covered
  <2>3. InOrder(queue)'
    <3>1. \A x \in Members(queue) : x # Alarm => x < emitted + 1 BY <2>2 DEF Known
    <3> QED BY <1>0, <1>3, <3>1, AppendOrder DEF Queued, Ordered
  <2>4. Known' = Known \cup {emitted + 1} BY <1>1, <2>1 DEF Known
  <2>5. Ordered'
    <3>1. \A x \in Hand : x # Alarm BY HandTypes
    <3> QED BY <1>0, <1>1, <2>1, <2>2, <2>3, <3>1 DEF Ordered, Known
  <2>6. Covered'
    <3> SUFFICES ASSUME NEW x \in Known' \ {Alarm}
                 PROVE  /\ x <= emitted + 1 /\ x \notin lost
                        /\ x .. emitted + 1 \subseteq Known' \cup lost
      BY <1>3 DEF Covered, Queued
    <3>1. CASE x = emitted + 1 BY <1>0, <2>4, <3>1
    <3>2. CASE x \in Known BY <1>0, <2>4, <3>2 DEF Covered
    <3> QED BY <2>4, <3>1, <3>2
  <2> QED BY <2>5, <2>6
<1>4. CASE Missed(d)
  <2>1. Known' = Known /\ Members(queue)' = Members(queue) /\ InOrder(queue)' = InOrder(queue)
    BY <1>1, <1>4 DEF Missed, Known
  <2>2. Ordered' BY <1>1, <2>1 DEF Ordered
  <2>3. Covered' BY <1>0, <1>4, <2>1 DEF Missed, Covered
  <2> QED BY <2>2, <2>3
<1> QED BY <1>2, <1>3, <1>4, EmitIs

\* It is newer than all that a subscriber has seen.
LEMMA EmitServed ==
    ASSUME TypeOK, Handling, AllServed, NEW d, Emit(d), UNCHANGED <<chan, run>>
    PROVE  AllServed' /\ (Holding => run["worker"].event \in 1 .. emitted')
<1>0. /\ emitted \in Nat /\ queue \in Seq(Nat) /\ Members(queue) \subseteq Nat
      /\ \A s \in Subs : Seen(s) \subseteq Nat
  BY MembersTypes DEF TypeOK, Seen
<1>1. emitted' \in {emitted, emitted + 1} /\ Members(queue)' \subseteq Members(queue) \cup {emitted + 1}
  <2>1. CASE Ignored(d) BY <2>1 DEF Ignored
  <2>2. CASE Queued(d) BY <1>0, <2>2, AppendMembers DEF Queued
  <2>3. CASE Missed(d) BY <2>3 DEF Missed
  <2> QED BY <2>1, <2>2, <2>3, EmitIs
<1>2. Holding' = Holding /\ (Holding => run["worker"].event \in 1 .. emitted)
  BY DEF Holding, Handling
<1>3. ASSUME NEW s \in Subs PROVE Served(s)'
  <2>1. Seen(s)' = Seen(s) /\ Pending(s)' = Pending(s) BY DEF Seen, Pending
  <2>2. Served(s) BY DEF AllServed
  <2>3. \A x \in Seen(s) : x <= emitted' BY <1>0, <1>1, <2>2 DEF Served
  <2>4. \A x \in Seen(s), y \in Members(queue)' : x < y BY <1>0, <1>1, <2>2 DEF Served
  <2> QED BY <2>1, <2>2, <2>3, <2>4 DEF Served
<1>4. Holding => \A y \in Members(queue)' : run["worker"].event < y
  BY <1>0, <1>1, <1>2 DEF AllServed
<1>5. Holding => run["worker"].event \in 1 .. emitted' BY <1>0, <1>1, <1>2
<1> QED BY <1>2, <1>3, <1>4, <1>5 DEF AllServed

-----------------------------------------------------------------------------
(* The verdict *)

Done == {"idle", "end", "log", "copy", "send"}

\* The counts in the history and in the hand of the analyzer are natural numbers.
LEMMA HistoryTypes ==
    ASSUME TypeOK
    PROVE  /\ accesses \in Nat /\ history \in Seq(Snapshot) /\ Len(history) \in Nat
           /\ \A i \in DOMAIN history : history[i].accesses \in Nat
           /\ local.snap \in Snapshot /\ local.snap.accesses \in Nat
<1>1. history \in Seq(Snapshot) BY DEF TypeOK
<1>2. history \in [1 .. Len(history) -> Snapshot] /\ Len(history) \in Nat BY <1>1, LenProperties
<1> QED BY <1>1, <1>2 DEF TypeOK, Snapshot

\* After a reset nothing is claimed of it.
LEMMA VerdictsOff ==
    ASSUME resetAt' # -1 PROVE Verdicts' /\ VerdictIsLatest'
BY DEF Verdicts, VerdictIsLatest

\* A step that leaves the snapshots and the verdict, and at most counts an access.
LEMMA VerdictsSame ==
    ASSUME TypeOK, Verdicts, VerdictIsLatest, UNCHANGED <<history, thrashing, resetAt>>,
           accesses' \in {accesses, accesses + 1},
           \/ run'["capture"] = run["capture"] /\ local' = local
           \/ run["capture"].at \in Done /\ run'["capture"].at \in Done
    PROVE  Verdicts' /\ VerdictIsLatest'
<1> SUFFICES ASSUME resetAt = -1 PROVE Verdicts' /\ VerdictIsLatest'
  BY VerdictsOff
<1>0. accesses \in Nat /\ \A i \in DOMAIN history : history[i].accesses \in Nat
  BY HistoryTypes
<1>1. Growing /\ Judged BY DEF Verdicts
<1>2. Newest' = Newest BY DEF Newest, Last
<1>3. /\ \A i, j \in DOMAIN history : i <= j => history[i].accesses <= history[j].accesses
      /\ \A i \in DOMAIN history : history[i].accesses <= accesses'
  BY <1>0, <1>1 DEF Growing
<1>4. CASE run'["capture"] = run["capture"] /\ local' = local
  <2>1. Growing'
    <3>1. run["capture"].at = "append" => local.snap.accesses <= accesses'
      BY <1>0, <1>1 DEF Growing, TypeOK, Snapshot
    <3> QED BY <1>1, <1>3, <1>4, <3>1 DEF Growing
  <2>2. Judged' BY <1>1, <1>2, <1>4 DEF Judged
  <2>3. VerdictIsLatest' BY <1>2, <1>4, VerdictIsLatest DEF VerdictIsLatest, Newest
  <2> QED BY <2>1, <2>2, <2>3 DEF Verdicts
<1>5. CASE run["capture"].at \in Done /\ run'["capture"].at \in Done
  <2>1. run'["capture"].at # "append" /\ run'["capture"].at # "decide" BY <1>5 DEF Done
  <2>2. Growing' /\ Judged' BY <1>3, <2>1 DEF Growing, Judged
  <2>3. VerdictIsLatest' BY <1>2, <1>5, VerdictIsLatest DEF VerdictIsLatest, Newest, Done
  <2> QED BY <2>2, <2>3 DEF Verdicts
<1> QED BY <1>4, <1>5

\* The window of a history of snapshots that only grow: its end shows at least as many
\* accesses as its start, and it spans two snapshots only if there are two.
LEMMA WindowGrows ==
    ASSUME NEW h \in Seq(Snapshot), NEW n \in Nat \ {0},
           \A i, j \in DOMAIN h : i <= j => h[i].accesses <= h[j].accesses
    PROVE  LET w == Last(h, n)
           IN  /\ w \in Seq(Snapshot) /\ Len(w) <= Len(h)
               /\ Len(w) >= 1 => /\ Head(w) \in Snapshot /\ w[Len(w)] \in Snapshot
                                 /\ Head(w).accesses <= w[Len(w)].accesses
<1> DEFINE w == Last(h, n)
<1>1. w \in Seq(Snapshot) BY LastIs
<1>2. PICK k \in 0 .. Len(h) :
         Len(w) = Len(h) - k /\ \A i \in 1 .. Len(h) - k : w[i] = h[i + k]
  BY LastIs
<1> HIDE DEF w
<1>3. Len(h) \in Nat /\ DOMAIN h = 1 .. Len(h) BY LenProperties
<1>4. ASSUME Len(w) >= 1
      PROVE  /\ Head(w) \in Snapshot /\ w[Len(w)] \in Snapshot
             /\ Head(w).accesses <= w[Len(w)].accesses
  <2>1. /\ 1 \in 1 .. Len(h) - k /\ Len(w) \in 1 .. Len(h) - k
        /\ 1 + k \in DOMAIN h /\ Len(w) + k \in DOMAIN h /\ 1 + k <= Len(w) + k
    BY <1>2, <1>3, <1>4
  <2>2. w[1] = h[1 + k] /\ w[Len(w)] = h[Len(w) + k] BY <1>2, <2>1
  <2>3. Head(w) = w[1] BY <1>1, <1>4
  <2>4. w[1] \in Snapshot /\ w[Len(w)] \in Snapshot BY <1>1, <1>2, <2>1, ElementOfSeq
  <2> QED BY <2>1, <2>2, <2>3, <2>4
<1> QED BY <1>1, <1>2, <1>3, <1>4 DEF w

\* A snapshot that is no older than the others keeps them growing, up to the limit b.
LEMMA AppendGrows ==
    ASSUME NEW h \in Seq(Snapshot), NEW n \in Nat \ {0}, NEW p \in Snapshot, NEW b \in Nat,
           \A i, j \in DOMAIN h : i <= j => h[i].accesses <= h[j].accesses,
           \A i \in DOMAIN h : h[i].accesses <= p.accesses, p.accesses <= b
    PROVE  LET w == Last(Append(h, p), n)
           IN  /\ \A i, j \in DOMAIN w : i <= j => w[i].accesses <= w[j].accesses
               /\ \A i \in DOMAIN w : w[i].accesses <= b
<1> DEFINE g == Append(h, p)
           w == Last(g, n)
<1>1. /\ g \in Seq(Snapshot) /\ Len(g) = Len(h) + 1 /\ Len(h) \in Nat
      /\ \A i \in 1 .. Len(h) : g[i] = h[i] /\ g[Len(h) + 1] = p
  BY AppendProperties, LenProperties
<1>2. DOMAIN h = 1 .. Len(h) /\ h \in [1 .. Len(h) -> Snapshot] BY LenProperties
<1> HIDE DEF g
<1>3. w \in Seq(Snapshot) BY <1>1, LastIs
<1>40. g \in Seq(Snapshot) BY <1>1
<1>4. PICK k \in 0 .. Len(g) :
         Len(w) = Len(g) - k /\ \A i \in 1 .. Len(g) - k : w[i] = g[i + k]
  BY <1>40, LastIs
<1> HIDE DEF w
<1>5. DOMAIN w = 1 .. Len(g) - k BY <1>3, <1>4, LenProperties
<1>6. p.accesses \in Nat /\ \A i \in 1 .. Len(h) : h[i].accesses \in Nat
  BY <1>2 DEF Snapshot
<1>7. \A i, j \in 1 .. Len(h) + 1 : i <= j => g[i].accesses <= g[j].accesses
  <2> SUFFICES ASSUME NEW i \in 1 .. Len(h) + 1, NEW j \in 1 .. Len(h) + 1, i <= j
               PROVE  g[i].accesses <= g[j].accesses
    OBVIOUS
  <2>0. g[Len(h) + 1] = p BY <1>1, AppendProperties DEF g
  <2>1. CASE j \in 1 .. Len(h) BY <1>1, <1>2, <2>1
  <2>2. CASE j = Len(h) + 1 /\ i \in 1 .. Len(h) BY <1>1, <1>2, <2>0, <2>2
  <2>3. CASE j = Len(h) + 1 /\ i = Len(h) + 1 BY <1>6, <2>0, <2>3
  <2> QED BY <1>1, <2>1, <2>2, <2>3
<1>8. \A i \in 1 .. Len(h) + 1 : g[i].accesses <= b
  <2>0. g[Len(h) + 1] = p BY <1>1, AppendProperties DEF g
  <2> SUFFICES ASSUME NEW i \in 1 .. Len(h) + 1 PROVE g[i].accesses <= b OBVIOUS
  <2>1. CASE i \in 1 .. Len(h) BY <1>1, <1>2, <1>6, <2>1
  <2>2. CASE i = Len(h) + 1 BY <2>0, <2>2
  <2> QED BY <1>1, <2>1, <2>2
<1>9. \A i \in DOMAIN w : i + k \in 1 .. Len(h) + 1 /\ w[i] = g[i + k] BY <1>1, <1>4, <1>5
<1>10. ASSUME NEW i \in DOMAIN w, NEW j \in DOMAIN w, i <= j
       PROVE  w[i].accesses <= w[j].accesses
  <2>1. i + k <= j + k BY <1>1, <1>5, <1>10
  <2> QED BY <1>7, <1>9, <2>1
<1>11. \A i \in DOMAIN w : w[i].accesses <= b BY <1>8, <1>9
<1> QED BY <1>10, <1>11 DEF w, g

\* A snapshot is taken, appended, judged and decided on.
LEMMA CaptureVerdicts ==
    ASSUME TypeOK, Verdicts, VerdictIsLatest,
           Capture \/ AppendSnapshot \/ DetectRead \/ Decide
    PROVE  Verdicts' /\ VerdictIsLatest'
<1>0. resetAt' = resetAt /\ accesses' = accesses
  BY DEF Capture, AppendSnapshot, DetectRead, Decide, pipe, metrics
<1> SUFFICES ASSUME resetAt = -1 PROVE Growing' /\ Judged' /\ VerdictIsLatest'
  BY <1>0, VerdictsOff DEF Verdicts
<1>1. Growing /\ Judged BY DEF Verdicts
<1>2. \A p : Goto("capture", p) => run'["capture"] = p
  BY DEF TypeOK, Goto, Agents
<1>3. accesses \in Nat /\ local.snap \in Snapshot /\ local.verdict \in BOOLEAN
  BY HistoryTypes DEF TypeOK
<1>4. CASE Capture
  <2>1. /\ run'["capture"].at = "append" /\ history' = history
        /\ local'.snap.accesses = accesses
    BY <1>2, <1>4, HistoryTypes DEF Capture, Idle, mon, TypeOK
  <2>2. Growing' BY <1>0, <1>1, <1>3, <2>1 DEF Growing
  <2> QED BY <2>1, <2>2 DEF Judged, VerdictIsLatest
<1>5. CASE AppendSnapshot
  <2>1. /\ run'["capture"].at = "read" /\ run["capture"].at = "append"
        /\ history' = Last(Append(history, local.snap), MaxHistory)
    BY <1>2, <1>5 DEF AppendSnapshot, Idle, At
  <2>2. /\ \A i, j \in DOMAIN history' : i <= j => history'[i].accesses <= history'[j].accesses
        /\ \A i \in DOMAIN history' : history'[i].accesses <= accesses
    BY <1>1, <1>3, <2>1, AppendGrows, HistoryTypes, CapsAssumption DEF Growing
  <2> QED BY <1>0, <2>1, <2>2 DEF Growing, Judged, VerdictIsLatest
<1>6. CASE DetectRead
  <2> DEFINE w == Newest
             judged == Len(history) >= 2 /\ w[Len(w)].accesses > Head(w).accesses
  <2>1. /\ local' = (IF judged THEN [local EXCEPT !.verdict = Thrash(Head(w), w[Len(w)])]
                     ELSE local)
        /\ Goto("capture", IF judged THEN [Idle EXCEPT !.at = "decide"] ELSE Idle)
        /\ history' = history
    BY <1>6 DEF DetectRead, Newest, mon
  <2>2. Newest' = Newest BY <2>1 DEF Newest, Last
  <2>3. Growing'
    <3>1. run'["capture"].at # "append" BY <1>2, <2>1 DEF Idle
    <3> QED BY <1>0, <1>1, <2>1, <3>1 DEF Growing
  <2>4. CASE judged
    <3>1. run'["capture"].at = "decide" /\ local'.verdict = Thrash(Head(w), w[Len(w)])
      BY <1>2, <2>1, <2>4 DEF Idle, TypeOK
    <3> QED BY <2>2, <2>3, <3>1 DEF Judged, VerdictIsLatest
  <2>5. CASE ~judged
    <3>1. run'["capture"].at = "idle" BY <1>2, <2>1, <2>5 DEF Idle
    <3>2. /\ w \in Seq(Snapshot) /\ Len(w) <= Len(history)
          /\ Len(w) >= 1 => /\ Head(w) \in Snapshot /\ w[Len(w)] \in Snapshot
                            /\ Head(w).accesses <= w[Len(w)].accesses
      BY <1>1, HistoryTypes, WindowGrows, CapsAssumption DEF Growing, Newest
    <3>3. Len(w) >= 2 => w[Len(w)].accesses = Head(w).accesses
      <4> SUFFICES ASSUME Len(w) >= 2 PROVE w[Len(w)].accesses = Head(w).accesses OBVIOUS
      <4>1. Len(w) \in Nat /\ Len(history) \in Nat BY <3>2, HistoryTypes, LenProperties
      <4>2. Len(w) >= 1 /\ Len(history) >= 2 BY <3>2, <4>1
      <4>3. w[Len(w)].accesses \in Nat /\ Head(w).accesses \in Nat BY <3>2, <4>2 DEF Snapshot
      <4>4. ~(w[Len(w)].accesses > Head(w).accesses) BY <2>5, <4>2
      <4> HIDE DEF w
      <4> QED BY <3>2, <4>2, <4>3, <4>4
    <3>4. VerdictIsLatest' BY <2>2, <3>3 DEF VerdictIsLatest, Newest
    <3> QED BY <2>3, <3>1, <3>4 DEF Judged
  <2> QED BY <2>4, <2>5
<1>7. CASE Decide
  <2>1. /\ run["capture"].at = "decide" /\ run'["capture"].at \in {"log", "idle"}
        /\ thrashing' = local.verdict /\ history' = history
    BY <1>2, <1>7 DEF Decide, Idle, At
  <2>2. Newest' = Newest BY <2>1 DEF Newest, Last
  <2>3. VerdictIsLatest' BY <1>1, <2>1, <2>2 DEF Judged, VerdictIsLatest, Newest
  <2> QED BY <1>0, <1>1, <2>1, <2>3 DEF Growing, Judged
<1> QED BY <1>4, <1>5, <1>6, <1>7

-----------------------------------------------------------------------------
(* The worker and handleEvent *)

\* The states of an agent that its steps lead to, as operators for the provers.
AtPlace(p) == [Idle EXCEPT !.at = p]
Copies(r) == [r EXCEPT !.at = "copy"]
Sends(r, S) == [r EXCEPT !.at = "send", !.todo = S]

\* An agent that rests has no event.
LEMMA IdleRun == Idle \in Run /\ Idle.at = "idle" /\ Idle.event = Alarm
BY CapsAssumption DEF Run, Idle, Places, Alarm

\* An agent that is sent to a place has no event yet.
LEMMA PlaceRun ==
    ASSUME NEW p \in Places
    PROVE  AtPlace(p) \in Run /\ AtPlace(p).at = p /\ AtPlace(p).event = Alarm
<1>1. Alarm \in 0 .. MaxEmits BY CapsAssumption DEF Alarm
<1> QED BY <1>1 DEF Run, Idle, AtPlace

\* An agent that copies the subscribers still has its event.
LEMMA CopiesRun ==
    ASSUME NEW r \in Run
    PROVE  Copies(r) \in Run /\ Copies(r).at = "copy" /\ Copies(r).event = r.event
BY DEF Run, Places, Copies

\* An agent that sends to subscribers still has its event.
LEMMA SendsRun ==
    ASSUME NEW r \in Run, NEW S \in SUBSET Subs
    PROVE  /\ Sends(r, S) \in Run /\ Sends(r, S).at = "send" /\ Sends(r, S).event = r.event
           /\ Sends(r, S).todo = S
BY DEF Run, Places, Sends

\* The processing goroutine takes an event from the channel.
LEMMA Taken ==
    ASSUME NEW e \in 0 .. MaxEmits
    PROVE  LET r == [Idle EXCEPT !.at = "log", !.event = e]
           IN  r \in Run /\ r.at = "log" /\ r.event = e
BY DEF Run, Idle, Places

\* An agent goes on, and the other stays where it is.
LEMMA Goes ==
    ASSUME TypeOK, NEW a \in Agents, NEW r \in Run, Goto(a, r)
    PROVE  /\ run' \in [Agents -> Run] /\ run'[a] = r
           /\ \A b \in Agents \ {a} : run'[b] = run[b]
BY DEF TypeOK, Goto

\* An agent sends to the rest of its subscribers, or rests when there are none.
LEMMA FanIs ==
    ASSUME TypeOK, NEW a \in Agents, NEW S \in SUBSET Subs
    PROVE  /\ Fan(a, S) \in Run
           /\ \/ Fan(a, S) = Idle
              \/ Fan(a, S).at = "send" /\ Fan(a, S).event = run[a].event /\ Fan(a, S).todo = S
<1>1. run[a] \in Run BY DEF TypeOK
<1>2. CASE S = {} BY <1>2, IdleRun DEF Fan
<1>3. CASE S # {}
  <2>1. Fan(a, S) = Sends(run[a], S) BY <1>3 DEF Fan, Sends
  <2> QED BY <1>1, <2>1, SendsRun
<1> QED BY <1>2, <1>3

\* Take: the oldest event goes from the queue into the worker's hand.
LEMMA TakeKeeps ==
    ASSUME TypeOK, Handling, Ordered, Covered, AllServed, Take
    PROVE  TypeOK' /\ Handling' /\ Ordered' /\ Covered' /\ AllServed'
<1>0. /\ queue \in Seq(Nat) /\ Members(queue) \subseteq Nat \ {Alarm}
      /\ "worker" \in Agents /\ "capture" \in Agents \ {"worker"}
      /\ At("worker", "idle") /\ Hand = {} /\ ~Holding
  BY MembersTypes DEF Take, At, Agents, Hand, Holding
<1>1. /\ UNCHANGED <<metrics, closed, emitted, lost, resetAt, mon, local, reset, stopped>>
      /\ Members(log)' = Members(log) /\ InOrder(log)' = InOrder(log)
  BY DEF Take, mon
<1>2. CASE queue # <<>>
  <2> DEFINE e == Head(queue)
  <2>1. /\ queue \in Seq(1 .. MaxEmits) /\ queue' = Tail(queue)
        /\ Tail(queue) \in Seq(1 .. MaxEmits) /\ Len(Tail(queue)) = Len(queue) - 1
        /\ e \in 1 .. MaxEmits
    BY <1>2, HeadTailProperties DEF Take, TypeOK
  <2>2. Members(queue) = {e} \cup Members(queue)' BY <1>2, <2>1, TailMembers
  <2>3. InOrder(queue)' /\ \A x \in Members(queue)' : e < x
    <3>1. /\ InOrder(Tail(queue))
          /\ \A x \in Members(Tail(queue)) : e # Alarm /\ x # Alarm => e < x
      BY <1>0, <1>2, TailOrder DEF Ordered
    <3> QED BY <1>0, <2>1, <2>2, <3>1
  <2>4. /\ run' \in [Agents -> Run] /\ run'["worker"].at = "log" /\ run'["worker"].event = e
        /\ run'["capture"] = run["capture"]
    <3> DEFINE r == [Idle EXCEPT !.at = "log", !.event = e]
    <3>1. Goto("worker", r) BY <1>2 DEF Take
    <3>2. e \in 0 .. MaxEmits BY <2>1, CapsAssumption
    <3>3. r \in Run /\ r.at = "log" /\ r.event = e BY <3>2, Taken
    <3> HIDE DEF r
    <3> QED BY <1>0, <3>1, <3>3, Goes
  <2> HIDE DEF e
  <2>5. TypeOK'
    <3>1. Len(queue) \in Nat /\ Len(queue) <= QueueCap BY LenProperties DEF TypeOK
    <3>2. Len(Tail(queue)) <= QueueCap BY <2>1, <3>1, CapsAssumption
    <3> QED BY <1>1, <2>1, <2>4, <3>2 DEF TypeOK, metrics, mon
  <2>6. Hand' = {e} /\ Known' = Known
    BY <1>0, <1>1, <2>2, <2>4 DEF Hand, At, Known
  <2>7. e \in 1 .. emitted
    <3>1. e \in Known \ {Alarm} BY <1>0, <2>2 DEF Known
    <3>2. e <= emitted BY <3>1 DEF Covered
    <3> QED BY <2>1, <3>2 DEF TypeOK
  <2>8. Handling' BY <1>1, <2>4, <2>7 DEF Handling
  <2>9. Ordered' BY <1>1, <2>2, <2>3, <2>6 DEF Ordered
  <2>10. Covered' BY <1>1, <2>6 DEF Covered
  <2>11. AllServed'
    <3>1. ASSUME NEW s \in Subs PROVE Served(s)'
      BY <1>1, <2>2, <2>4 DEF mon, AllServed, Served, Seen
    <3> QED BY <2>3, <2>4, <3>1 DEF AllServed
  <2> QED BY <2>5, <2>8, <2>9, <2>10, <2>11
<1>3. CASE queue = <<>>
  <2>1. /\ run' \in [Agents -> Run] /\ run'["worker"].at = "end"
        /\ run'["capture"] = run["capture"] /\ queue' = queue
    <3>1. Goto("worker", AtPlace("end")) /\ queue' = queue BY <1>3 DEF Take, AtPlace
    <3>2. "end" \in Places BY DEF Places
    <3>3. AtPlace("end") \in Run /\ AtPlace("end").at = "end" BY <3>2, PlaceRun
    <3> QED BY <1>0, <3>1, <3>3, Goes
  <2>2. TypeOK' BY <1>1, <2>1 DEF TypeOK, metrics, mon
  <2>3. Hand' = Hand /\ Known' = Known /\ ~Holding' /\ Members(queue)' = Members(queue)
    BY <1>0, <1>1, <2>1 DEF Hand, At, Known, Holding
  <2>4. Handling' BY <1>1, <2>1, <2>3 DEF Handling
  <2>5. Ordered' /\ Covered' BY <1>1, <2>1, <2>3 DEF Ordered, Covered
  <2>6. AllServed' BY <1>1, <2>1, <2>3 DEF AllServed, Served, Seen, Pending, mon
  <2> QED BY <2>2, <2>4, <2>5, <2>6
<1> QED BY <1>2, <1>3

\* The event of an agent, and what is in the log once it has appended it.
LEMMA LogTypes ==
    ASSUME TypeOK, Handling, NEW a \in Agents, At(a, "log")
    PROVE  /\ run[a].event \in 0 .. MaxEmits /\ run[a] \in Run
           /\ Append(log, run[a].event) \in Seq(Nat)
           /\ Members(Append(log, run[a].event)) = Members(log) \cup {run[a].event}
           /\ Last(Append(log, run[a].event), MaxEvents) \in Seq(0 .. MaxEmits)
           /\ Len(Last(Append(log, run[a].event), MaxEvents)) <= MaxEvents
<1>1. run[a] \in Run /\ run \in [Agents -> Run] BY DEF TypeOK
<1>2. run[a].event \in 0 .. MaxEmits BY <1>1 DEF Run
<1>3. log \in Seq(0 .. MaxEmits) BY DEF TypeOK
<1>4. Append(log, run[a].event) \in Seq(0 .. MaxEmits) BY <1>2, <1>3, AppendProperties
<1>5. 0 .. MaxEmits \subseteq Nat /\ MaxEvents \in Nat \ {0} BY CapsAssumption
<1>6. Append(log, run[a].event) \in Seq(Nat) BY <1>4, <1>5, SeqMonotonic
<1>7. Members(Append(log, run[a].event)) = Members(log) \cup {run[a].event}
  <2> DEFINE e == run[a].event
  <2>1. e \in Nat /\ log \in Seq(Nat) BY <1>2, <1>5, MembersTypes
  <2> HIDE DEF e
  <2>2. Members(Append(log, e)) = Members(log) \cup {e} BY <2>1, AppendMembers
  <2> QED BY <2>2 DEF e
<1> DEFINE full == Append(log, run[a].event)
<1>8. full \in Seq(0 .. MaxEmits) BY <1>4
<1> HIDE DEF full
<1>9. Last(full, MaxEvents) \in Seq(0 .. MaxEmits) /\ Len(Last(full, MaxEvents)) <= MaxEvents
  BY <1>5, <1>8, LastIs
<1> QED BY <1>1, <1>2, <1>6, <1>7, <1>9 DEF full

\* handleEvent appends to the log: the worker's event is newer than all in it, and an
\* alarm is none of the memory manager's.  What falls off the log is the oldest.
LEMMA LogEventKeeps ==
    ASSUME TypeOK, Handling, Ordered, Covered, AllServed, NEW a \in Agents, LogEvent(a)
    PROVE  TypeOK' /\ Handling' /\ Ordered' /\ Covered' /\ AllServed'
<1> DEFINE e == run[a].event
           full == Append(log, e)
<1>0. /\ At(a, "log") /\ log' = Last(full, MaxEvents) /\ Goto(a, Copies(run[a]))
      /\ UNCHANGED <<metrics, pipe, history, thrashing, chan, local, reset, stopped>>
  BY DEF LogEvent, Copies
<1>1. /\ queue' = queue /\ Members(queue)' = Members(queue) /\ InOrder(queue)' = InOrder(queue)
      /\ emitted' = emitted /\ lost' = lost
  BY <1>0 DEF pipe
<1>2. /\ e \in 0 .. MaxEmits /\ run[a] \in Run /\ full \in Seq(Nat)
      /\ Members(full) = Members(log) \cup {e}
      /\ log' \in Seq(0 .. MaxEmits) /\ Len(log') <= MaxEvents
  BY <1>0, LogTypes
<1>3. /\ run' \in [Agents -> Run] /\ run'[a].at = "copy" /\ run'[a].event = e
      /\ \A b \in Agents \ {a} : run'[b] = run[b]
  BY <1>0, <1>2, Goes, CopiesRun
<1>4. /\ Members(queue) \subseteq Nat \ {Alarm} /\ Members(log) \subseteq Nat /\ log \in Seq(Nat)
      /\ Hand \subseteq Nat \ {Alarm} /\ Known \subseteq Nat
  BY MembersTypes, HandTypes
<1>5. \/ a = "worker" /\ Hand = {e} /\ Hand' = {}
      \/ a = "capture" /\ e = Alarm /\ Hand' = Hand
  BY <1>0, <1>3 DEF Agents, Hand, At, Handling
<1>6. TypeOK' BY <1>0, <1>2, <1>3 DEF TypeOK, metrics, pipe
<1>7. /\ "worker" \in Agents /\ "capture" \in Agents /\ run'["capture"].event = Alarm
      /\ run'["worker"].event = run["worker"].event /\ Holding' = Holding
      /\ \A s \in Subs : Pending(s)' => Pending(s)
  BY <1>0, <1>3 DEF Agents, Handling, Holding, Pending, At
<1>8. Handling' BY <1>0, <1>7 DEF Handling, pipe
<1>9. AllServed'
  BY <1>0, <1>1, <1>7 DEF AllServed, Served, Seen
<1>10. InOrder(full)
  <2>1. \A x \in Members(log) : x # Alarm /\ e # Alarm => x < e BY <1>5 DEF Ordered
  <2>2. e \in Nat BY <1>2
  <2> HIDE DEF e
  <2> QED BY <1>4, <2>1, <2>2, AppendOrder DEF Ordered
<1>11. /\ Members(log)' \subseteq Members(full) /\ InOrder(log)'
       /\ \A x \in Members(log)' \ {Alarm}, y \in Members(full) \ {Alarm} :
            x <= y => y \in Members(log)'
  <2> HIDE DEF full
  <2> QED BY <1>0, <1>2, <1>10, LastOrder, CapsAssumption
<1> HIDE DEF e, full
<1>12. Ordered'
  BY <1>1, <1>2, <1>4, <1>5, <1>11 DEF Ordered
<1>13. Known' \subseteq Known \cup {Alarm} /\ Members(full) \cup Members(queue) \cup Hand = Known \cup {e}
  BY <1>1, <1>2, <1>4, <1>5, <1>11 DEF Known
<1>14. Covered'
  <2> SUFFICES ASSUME NEW x \in Known' \ {Alarm}
               PROVE  x <= emitted /\ x \notin lost /\ x .. emitted \subseteq Known' \cup lost
    BY <1>1 DEF Covered
  <2>1. x \in Known \ {Alarm} BY <1>13
  <2>2. x <= emitted /\ x \notin lost /\ x .. emitted \subseteq Known \cup lost
    BY <2>1 DEF Covered
  <2>3. ASSUME NEW y \in x .. emitted, y \notin lost PROVE y \in Known'
    <3>1. y \in Known /\ y # Alarm /\ x <= y /\ x \in Nat BY <1>4, <2>1, <2>2, <2>3 DEF Alarm
    <3>2. CASE y \in Members(queue) \cup Hand' BY <1>1, <3>2 DEF Known
    <3>3. CASE y \notin Members(queue) \cup Hand'
      <4>1. y \in Members(full) \ {Alarm} BY <1>2, <1>5, <3>1, <3>3 DEF Known
      <4>2. x \in Members(queue) \cup Hand' => y < x
        BY <1>2, <1>5, <3>1, <4>1 DEF Ordered
      <4>3. x \in Members(log)' BY <1>1, <1>4, <3>1, <4>2 DEF Known
      <4>4. y \in Members(log)' BY <1>11, <3>1, <4>1, <4>3
      <4> QED BY <4>4 DEF Known
    <3> QED BY <3>2, <3>3
  <2> QED BY <2>2, <2>3
<1> QED BY <1>6, <1>8, <1>9, <1>12, <1>14

\* handleEvent copies the channels, or is done with one more of them: nothing of the
\* pipeline changes, and the worker has no more to send than it had.
LEMMA RunKeeps ==
    ASSUME TypeOK, Handling, Ordered, Covered, NEW a \in Agents, NEW S \in SUBSET Subs,
           run[a].at \in {"copy", "send"}, run[a].at = "send" => S \subseteq run[a].todo,
           Goto(a, Fan(a, S)), UNCHANGED <<pipe, log, reset>>
    PROVE  /\ run' \in [Agents -> Run] /\ Handling' /\ Ordered' /\ Covered'
           /\ \A s \in Subs : Pending(s)' =>
                /\ Pending(s) /\ run'["worker"].event = run["worker"].event
                /\ a = "worker" => s \in S
           /\ Holding' => Holding /\ run'["worker"].event = run["worker"].event
           /\ a = "worker" => UNCHANGED run["capture"]
           /\ a = "capture" => run["capture"].at \in Done /\ run'["capture"].at \in Done
<1>1. Fan(a, S) \in Run BY FanIs
<1>2. run' \in [Agents -> Run] /\ run'[a] = Fan(a, S) /\ \A b \in Agents \ {a} : run'[b] = run[b]
  BY <1>1, Goes
<1>3. \/ run'[a] = Idle
      \/ run'[a].at = "send" /\ run'[a].event = run[a].event /\ run'[a].todo = S
  BY <1>2, FanIs
<1>4. a \in {"worker", "capture"} BY DEF Agents
<1>5. CASE a = "worker"
  <2>1. run'["capture"] = run["capture"] BY <1>2, <1>5 DEF Agents
  <2>2. Hand = {} /\ Hand' = {} BY <1>3, <1>5, IdleRun DEF Hand, At
  <2>3. Holding' => Holding /\ run'["worker"].event = run["worker"].event
    BY <1>3, <1>5, IdleRun DEF Holding
  <2>4. Handling' BY <2>1, <2>3 DEF Handling, pipe
  <2>5. Ordered' /\ Covered' BY <2>2 DEF Ordered, Covered, Known, pipe
  <2>6. \A s \in Subs : Pending(s)' =>
          Pending(s) /\ run'["worker"].event = run["worker"].event /\ s \in S
    BY <1>3, <1>5, IdleRun DEF Pending
  <2> QED BY <1>2, <1>5, <2>1, <2>3, <2>4, <2>5, <2>6
<1>6. CASE a = "capture"
  <2>1. run'["worker"] = run["worker"] BY <1>2, <1>6 DEF Agents
  <2>2. Hand' = Hand /\ Holding' = Holding /\ \A s \in Subs : Pending(s)' = Pending(s)
    BY <2>1 DEF Hand, At, Holding, Pending
  <2>3. run'["capture"].event = Alarm /\ run'["capture"].at \in Done
    BY <1>3, <1>6, IdleRun DEF Handling, Done
  <2>4. Handling' BY <2>1, <2>2, <2>3 DEF Handling, pipe
  <2>5. Ordered' /\ Covered' BY <2>2 DEF Ordered, Covered, Known, pipe
  <2> QED BY <1>2, <1>6, <2>1, <2>2, <2>3, <2>4, <2>5 DEF Done
<1> QED BY <1>4, <1>5, <1>6

\* Copying the subscribers keeps what is known of the pipeline.
LEMMA CopySubsKeeps ==
    ASSUME TypeOK, Handling, Ordered, Covered, AllServed, NEW a \in Agents, CopySubs(a)
    PROVE  TypeOK' /\ Handling' /\ Ordered' /\ Covered' /\ AllServed'
<1> DEFINE S == {s \in Subs : chan[s].on}
<1>1. /\ run[a].at = "copy" /\ S \in SUBSET Subs /\ Goto(a, Fan(a, S))
      /\ UNCHANGED <<metrics, pipe, mon, local, reset, stopped>>
  BY DEF CopySubs, At
<1> HIDE DEF S
<1>2. /\ run' \in [Agents -> Run] /\ Handling' /\ Ordered' /\ Covered'
      /\ \A s \in Subs : Pending(s)' => Pending(s) /\ run'["worker"].event = run["worker"].event
      /\ Holding' => Holding /\ run'["worker"].event = run["worker"].event
  BY <1>1, RunKeeps DEF mon
<1>3. TypeOK' BY <1>1, <1>2 DEF TypeOK, metrics, pipe, mon
<1>4. AllServed' BY <1>1, <1>2 DEF AllServed, Served, Seen, pipe, mon
<1> QED BY <1>2, <1>3, <1>4

\* What a step may do to a subscriber's channel: send to it, receive from it, switch it.
SentTo(s, e) == [chan EXCEPT ![s].q = Append(@, e)]

\* A subscriber with room gets an event at the end of its channel, and no other does.
LEMMA SentToIs ==
    ASSUME TypeOK, NEW s \in Subs, NEW e \in 0 .. MaxEmits, Len(chan[s].q) < SubCap,
           chan' = SentTo(s, e)
    PROVE  /\ chan' \in [Subs -> Chan] /\ \A t \in Subs : Len(chan'[t].q) <= SubCap
           /\ chan'[s].q = Append(chan[s].q, e) /\ chan'[s].got = chan[s].got
           /\ \A t \in Subs \ {s} : chan'[t] = chan[t]
<1>1. chan \in [Subs -> Chan] /\ chan[s] \in Chan BY DEF TypeOK
<1>2. chan[s].q \in Seq(0 .. MaxEmits) BY <1>1 DEF Chan
<1>3. /\ Append(chan[s].q, e) \in Seq(0 .. MaxEmits)
      /\ Len(Append(chan[s].q, e)) = Len(chan[s].q) + 1 /\ Len(chan[s].q) \in Nat
  BY <1>2, AppendProperties, LenProperties
<1> DEFINE q == Append(chan[s].q, e)
           c == [chan[s] EXCEPT !.q = q]
<1>4. q \in Seq(0 .. MaxEmits) /\ Len(q) <= SubCap BY <1>3, CapsAssumption
<1>5. chan' = [chan EXCEPT ![s] = c] BY <1>1 DEF SentTo
<1> HIDE DEF q
<1>6. c \in Chan /\ c.q = q /\ c.got = chan[s].got BY <1>1, <1>4 DEF Chan
<1> HIDE DEF c
<1>7. chan' \in [Subs -> Chan] /\ chan'[s] = c /\ \A t \in Subs \ {s} : chan'[t] = chan[t]
  BY <1>1, <1>5, <1>6
<1>8. \A t \in Subs : Len(chan'[t].q) <= SubCap BY <1>4, <1>6, <1>7 DEF TypeOK
<1> QED BY <1>6, <1>7, <1>8 DEF q

\* A send to one subscriber, or its omission, keeps what is known of the pipeline.
LEMMA SendSubKeeps ==
    ASSUME TypeOK, Handling, Ordered, Covered, AllServed, NEW a \in Agents, NEW s \in Subs,
           SendSub(a, s)
    PROVE  TypeOK' /\ Handling' /\ Ordered' /\ Covered' /\ AllServed'
<1> DEFINE S == run[a].todo \ {s}
           e == run[a].event
<1>0. run[a] \in Run BY DEF TypeOK
<1>1. /\ run[a].at = "send" /\ s \in run[a].todo /\ Goto(a, Fan(a, S))
      /\ chan' = IF Len(chan[s].q) < SubCap THEN SentTo(s, e) ELSE chan
      /\ UNCHANGED <<metrics, pipe, history, log, thrashing, local, reset, stopped>>
  BY DEF SendSub, At, SentTo
<1>2. S \in SUBSET Subs /\ S \subseteq run[a].todo /\ s \notin S /\ e \in 0 .. MaxEmits
  BY <1>0 DEF Run
<1> HIDE DEF S
<1>3. /\ run' \in [Agents -> Run] /\ Handling' /\ Ordered' /\ Covered'
      /\ \A t \in Subs : Pending(t)' =>
           /\ Pending(t) /\ run'["worker"].event = run["worker"].event
           /\ a = "worker" => t \in S
      /\ Holding' => Holding /\ run'["worker"].event = run["worker"].event
  BY <1>1, <1>2, RunKeeps
<1>4. queue' = queue /\ emitted' = emitted BY <1>1 DEF pipe
<1>5. CASE ~(Len(chan[s].q) < SubCap)
  <2>1. chan' = chan BY <1>1, <1>5
  <2>2. TypeOK' BY <1>1, <1>3, <2>1 DEF TypeOK, metrics, pipe
  <2>3. AllServed' BY <1>3, <1>4, <2>1 DEF AllServed, Served, Seen
  <2> QED BY <1>3, <2>2, <2>3
<1>6. CASE Len(chan[s].q) < SubCap
  <2>1. /\ chan' \in [Subs -> Chan] /\ \A t \in Subs : Len(chan'[t].q) <= SubCap
        /\ chan'[s].q = Append(chan[s].q, e) /\ chan'[s].got = chan[s].got
        /\ \A t \in Subs \ {s} : chan'[t] = chan[t]
    BY <1>1, <1>2, <1>6, SentToIs
  <2>2. TypeOK' BY <1>1, <1>3, <2>1 DEF TypeOK, metrics, pipe
  <2>3. ASSUME NEW t \in Subs \ {s} PROVE Served(t)'
    <3>1. Seen(t)' = Seen(t) /\ chan'[t] = chan[t] BY <2>1, <2>3 DEF Seen
    <3> QED BY <1>3, <1>4, <3>1 DEF AllServed, Served
  <2>4. /\ e \in Nat /\ emitted \in Nat /\ chan[s].q \in Seq(Nat) /\ Seen(s) \subseteq Nat
        /\ Members(queue) \subseteq Nat \ {Alarm}
    BY <1>2, MembersTypes, CapsAssumption DEF Seen, TypeOK
  <2>5. Members(chan[s].q)' = Members(chan[s].q) \cup {e} BY <2>1, <2>4, AppendMembers
  <2>6. Seen(s)' = Seen(s) \cup {e} BY <2>1, <2>5 DEF Seen
  <2>7. \/ /\ a = "worker" /\ Pending(s) /\ Holding /\ e \in 1 .. emitted /\ ~Pending(s)'
           /\ e = run["worker"].event
        \/ a = "capture" /\ e = Alarm
    BY <1>1, <1>2, <1>3 DEF Agents, Pending, Holding, Handling
  <2>8. e <= emitted /\ \A y \in Members(queue) : e < y
    BY <2>4, <2>7 DEF AllServed, Alarm
  <2>9. Served(s) BY DEF AllServed
  <2>10. e # Alarm => \A x \in Seen(s) : x < e BY <2>7, <2>9 DEF Served
  <2>11. InOrder(chan[s].q)'
    <3>1. \A x \in Members(chan[s].q) : x # Alarm /\ e # Alarm => x < e BY <2>10 DEF Seen
    <3> HIDE DEF e
    <3> QED BY <2>1, <2>4, <2>9, <3>1, AppendOrder DEF Served
  <2>12. \A x \in Members(chan[s].q)' \ {Alarm} : chan'[s].got < x
    BY <2>1, <2>5, <2>9, <2>10 DEF Served, Seen
  <2>13. \A x \in Seen(s)' : x <= emitted /\ \A y \in Members(queue) : x < y
    BY <2>6, <2>8, <2>9 DEF Served
  <2>14. Pending(s)' => \A x \in Seen(s)' : x < run'["worker"].event
    <3> SUFFICES ASSUME Pending(s)' PROVE \A x \in Seen(s)' : x < run'["worker"].event OBVIOUS
    <3>1. a = "capture" /\ e = Alarm /\ Pending(s) /\ run'["worker"].event = run["worker"].event
      BY <1>3, <2>7
    <3>2. run["worker"].event \in 1 .. emitted
      BY <3>1 DEF Pending, Handling, Holding
    <3>3. e < run["worker"].event BY <2>4, <3>1, <3>2 DEF Alarm
    <3> QED BY <2>6, <2>9, <3>1, <3>3 DEF Served
  <2>15. Served(s)' BY <1>4, <2>11, <2>12, <2>13, <2>14 DEF Served
  <2>16. AllServed' BY <1>3, <1>4, <2>3, <2>15 DEF AllServed
  <2> QED BY <1>3, <2>2, <2>16
<1> QED BY <1>5, <1>6

-----------------------------------------------------------------------------
(* The other steps *)

\* A step that leaves the pipeline, the log, the channels and the worker alone.
LEMMA QuietKeeps ==
    ASSUME Handling, Ordered, Covered, AllServed, UNCHANGED <<pipe, log, chan>>,
           run'["worker"] = run["worker"], run'["capture"].event = Alarm,
           reset' # "idle" => resetAt # -1
    PROVE  Handling' /\ Ordered' /\ Covered' /\ AllServed'
<1>1. Hand' = Hand /\ Holding' = Holding /\ \A s \in Subs : Pending(s)' = Pending(s)
  BY DEF Hand, At, Holding, Pending
<1>2. Known' = Known BY <1>1 DEF Known, pipe
<1>3. Handling' BY <1>1 DEF Handling, pipe
<1>4. Ordered' /\ Covered' BY <1>1, <1>2 DEF Ordered, Covered, pipe
<1>5. AllServed' BY <1>1 DEF AllServed, Served, Seen, pipe
<1> QED BY <1>3, <1>4, <1>5

\* The capture goroutine, other than in handleEvent.
LEMMA CaptureKeeps ==
    ASSUME TypeOK, Handling, Ordered, Covered, AllServed,
           Capture \/ AppendSnapshot \/ DetectRead \/ Decide \/ CaptureStop
    PROVE  TypeOK' /\ Handling' /\ Ordered' /\ Covered' /\ AllServed'
<1>0. \E p \in Places : Goto("capture", AtPlace(p))
  <2>0. /\ "append" \in Places /\ "read" \in Places /\ "decide" \in Places
        /\ "idle" \in Places /\ "log" \in Places /\ "end" \in Places
    BY DEF Places
  <2>1. Idle = AtPlace("idle") BY DEF Idle, AtPlace
  <2>2. CASE Capture BY <2>0, <2>2 DEF Capture, AtPlace
  <2>3. CASE AppendSnapshot BY <2>0, <2>3 DEF AppendSnapshot, AtPlace
  <2>4. CASE DetectRead
    <3>1. Goto("capture", AtPlace("decide")) \/ Goto("capture", Idle)
      BY <2>4 DEF DetectRead, AtPlace
    <3> QED BY <2>0, <2>1, <3>1
  <2>5. CASE Decide
    <3>1. Goto("capture", AtPlace("log")) \/ Goto("capture", Idle)
      BY <2>5 DEF Decide, AtPlace
    <3> QED BY <2>0, <2>1, <3>1
  <2>6. CASE CaptureStop BY <2>0, <2>6 DEF CaptureStop, AtPlace
  <2> QED BY <2>2, <2>3, <2>4, <2>5, <2>6
<1>1. PICK p \in Places : Goto("capture", AtPlace(p)) BY <1>0
<1>2. "capture" \in Agents /\ "worker" \in Agents \ {"capture"} BY DEF Agents
<1>3. /\ run' \in [Agents -> Run] /\ run'["worker"] = run["worker"]
      /\ run'["capture"].event = Alarm
  BY <1>1, <1>2, PlaceRun, Goes
<1>4. UNCHANGED <<metrics, pipe, log, chan, reset, stopped>>
  BY DEF Capture, AppendSnapshot, DetectRead, Decide, CaptureStop, mon
<1>5. Handling' /\ Ordered' /\ Covered' /\ AllServed'
  BY <1>3, <1>4, QuietKeeps DEF Handling
<1>6. NoLocal \in [snap : Snapshot, verdict : BOOLEAN] /\ [faults |-> faults, accesses |-> accesses] \in Snapshot
  BY CapsAssumption DEF NoLocal, Snapshot, TypeOK
<1>7. local' \in [snap : Snapshot, verdict : BOOLEAN] /\ thrashing' \in BOOLEAN
  <2>1. CASE Capture BY <1>6, <2>1 DEF Capture, TypeOK, mon
  <2>2. CASE AppendSnapshot BY <1>6, <2>2 DEF AppendSnapshot, TypeOK, mon
  <2>3. CASE DetectRead
    <3>1. \A c, d : Thrash(c, d) \in BOOLEAN BY DEF Thrash
    <3> DEFINE w == Last(history, Window)
               v == Thrash(Head(w), w[Len(w)])
    <3>2. v \in BOOLEAN BY <3>1
    <3>3. local' = [local EXCEPT !.verdict = v] \/ local' = local BY <2>3 DEF DetectRead
    <3> HIDE DEF v
    <3> QED BY <2>3, <3>2, <3>3 DEF DetectRead, TypeOK, mon
  <2>4. CASE Decide BY <1>6, <2>4 DEF Decide, TypeOK
  <2>5. CASE CaptureStop BY <2>5 DEF CaptureStop, TypeOK, mon
  <2> QED BY <2>1, <2>2, <2>3, <2>4, <2>5
<1>8. history' \in Seq(Snapshot) /\ Len(history') <= MaxHistory
  <2>1. CASE history' = history BY <2>1 DEF TypeOK
  <2>2. CASE AppendSnapshot
    <3> DEFINE h == Append(history, local.snap)
    <3>1. h \in Seq(Snapshot) BY HistoryTypes, AppendProperties
    <3>2. history' = Last(h, MaxHistory) BY <2>2 DEF AppendSnapshot
    <3> HIDE DEF h
    <3> QED BY <3>1, <3>2, LastIs, CapsAssumption
  <2> QED BY <2>1, <2>2 DEF Capture, DetectRead, Decide, CaptureStop, mon
<1>9. TypeOK' BY <1>3, <1>4, <1>7, <1>8 DEF TypeOK, metrics, pipe
<1> QED BY <1>5, <1>9

\* Subscribing and unsubscribing change neither what is in the channel nor its reader.
LEMMA SwitchKeeps ==
    ASSUME TypeOK, Handling, Ordered, Covered, AllServed, NEW s \in Subs,
           SubscribeEvents(s) \/ UnsubscribeEvents(s)
    PROVE  TypeOK' /\ Handling' /\ Ordered' /\ Covered' /\ AllServed'
<1>0. UNCHANGED <<metrics, pipe, history, log, thrashing, run, local, reset, stopped>>
  BY DEF SubscribeEvents, UnsubscribeEvents
<1>1. chan \in [Subs -> Chan] /\ chan[s] \in Chan BY DEF TypeOK
<1>2. \E c \in Chan : c.q = chan[s].q /\ c.got = chan[s].got /\ chan' = [chan EXCEPT ![s] = c]
  <2>1. CASE SubscribeEvents(s)
    <3> DEFINE c == [chan[s] EXCEPT !.on = TRUE, !.used = TRUE]
    <3>1. c \in Chan /\ c.q = chan[s].q /\ c.got = chan[s].got BY <1>1 DEF Chan
    <3>2. chan' = [chan EXCEPT ![s] = c] BY <1>1, <2>1 DEF SubscribeEvents, Chan
    <3> QED BY <3>1, <3>2
  <2>2. CASE UnsubscribeEvents(s)
    <3> DEFINE c == [chan[s] EXCEPT !.on = FALSE]
    <3>1. c \in Chan /\ c.q = chan[s].q /\ c.got = chan[s].got BY <1>1 DEF Chan
    <3>2. chan' = [chan EXCEPT ![s] = c] BY <1>1, <2>2 DEF UnsubscribeEvents, Chan
    <3> QED BY <3>1, <3>2
  <2> QED BY <2>1, <2>2
<1>3. PICK c \in Chan : c.q = chan[s].q /\ c.got = chan[s].got /\ chan' = [chan EXCEPT ![s] = c]
  BY <1>2
<1>4. /\ chan' \in [Subs -> Chan]
      /\ \A t \in Subs : chan'[t].q = chan[t].q /\ chan'[t].got = chan[t].got
  BY <1>1, <1>3
<1>5. TypeOK' BY <1>0, <1>4 DEF TypeOK, metrics, pipe
<1>6. Handling' /\ Ordered' /\ Covered'
  BY <1>0 DEF Handling, Holding, Ordered, Covered, Known, Hand, At, pipe
<1>7. AllServed'
  <2>1. ASSUME NEW t \in Subs PROVE Served(t)'
    <3>1. Seen(t)' = Seen(t) /\ Pending(t)' = Pending(t) BY <1>0, <1>4 DEF Seen, Pending
    <3> QED BY <1>0, <1>4, <3>1 DEF AllServed, Served, pipe
  <2> QED BY <1>0, <2>1 DEF AllServed, Holding, pipe
<1> QED BY <1>5, <1>6, <1>7

\* A subscriber receives: the event is newer than those it has, older than those left.
LEMMA ReceiveKeeps ==
    ASSUME TypeOK, Handling, Ordered, Covered, AllServed, NEW s \in Subs, ReceiveEvent(s)
    PROVE  TypeOK' /\ Handling' /\ Ordered' /\ Covered' /\ AllServed'
<1> DEFINE q == chan[s].q
           e == Head(q)
           g == IF e = Alarm THEN chan[s].got ELSE e
<1>0. UNCHANGED <<metrics, pipe, history, log, thrashing, run, local, reset, stopped>>
  BY DEF ReceiveEvent
<1>1. chan \in [Subs -> Chan] /\ chan[s] \in Chan BY DEF TypeOK
<1>2. q \in Seq(0 .. MaxEmits) /\ q # <<>> /\ chan[s].got \in 0 .. MaxEmits /\ Len(q) <= SubCap
  BY <1>1 DEF Chan, ReceiveEvent, TypeOK
<1>3. /\ e \in 0 .. MaxEmits /\ Tail(q) \in Seq(0 .. MaxEmits) /\ Len(Tail(q)) = Len(q) - 1
      /\ Len(q) \in Nat
  <2> HIDE DEF q
  <2> QED BY <1>2, HeadTailProperties, LenProperties
<1>4. chan' = [chan EXCEPT ![s] = [chan[s] EXCEPT !.q = Tail(q), !.got = g]]
  BY <1>1 DEF ReceiveEvent, Chan
<1>5. g \in 0 .. MaxEmits BY <1>2, <1>3
<1>60. chan[s].q \in Seq(Nat) /\ Members(chan[s].q) \subseteq Nat /\ chan[s].got \in Nat
  BY MembersTypes
<1>61. e \in Nat
  <2> HIDE DEF e
  <2> QED BY <1>3, CapsAssumption
<1>6. q \in Seq(Nat) /\ Members(q) \subseteq Nat /\ chan[s].got \in Nat /\ e \in Nat
  BY <1>60, <1>61, Zenon
<1>7. Members(q) = {e} \cup Members(Tail(q))
  <2> HIDE DEF q
  <2> QED BY <1>2, <1>6, TailMembers
<1>8. Served(s) BY DEF AllServed
<1>9. InOrder(Tail(q)) /\ \A x \in Members(Tail(q)) : e # Alarm /\ x # Alarm => e < x
  <2>1. InOrder(q) BY <1>8 DEF Served
  <2> HIDE DEF q
  <2> QED BY <1>2, <1>6, <2>1, TailOrder
<1>10. Len(Tail(q)) <= SubCap BY <1>2, <1>3, CapsAssumption
<1>11. g \in Seen(s) /\ (g # chan[s].got => g = e /\ e # Alarm) BY <1>7 DEF Seen
<1> DEFINE r == Tail(q)
<1>12. /\ r \in Seq(0 .. MaxEmits) /\ Len(r) <= SubCap /\ InOrder(r)
       /\ Members(r) \subseteq Members(q) /\ \A x \in Members(r) : e # Alarm /\ x # Alarm => e < x
  BY <1>3, <1>7, <1>9, <1>10
<1> HIDE DEF g, e, q, r
<1>13. /\ chan' \in [Subs -> Chan] /\ chan'[s].q = r /\ chan'[s].got = g
       /\ \A t \in Subs \ {s} : chan'[t] = chan[t]
  BY <1>1, <1>4, <1>5, <1>12 DEF Chan, r
<1>14. TypeOK'
  <2>1. \A t \in Subs : Len(chan'[t].q) <= SubCap BY <1>12, <1>13 DEF TypeOK
  <2> QED BY <1>0, <1>13, <2>1 DEF TypeOK, metrics, pipe
<1>15. Handling' /\ Ordered' /\ Covered'
  BY <1>0 DEF Handling, Holding, Ordered, Covered, Known, Hand, At, pipe
<1>16. AllServed'
  <2>0. UNCHANGED <<queue, emitted, run>> BY <1>0 DEF pipe
  <2>1. ASSUME NEW t \in Subs \ {s} PROVE Served(t)'
    <3>1. chan'[t] = chan[t] BY <1>13, <2>1
    <3>2. Seen(t)' = Seen(t) /\ Pending(t)' = Pending(t) BY <2>0, <3>1 DEF Seen, Pending
    <3> QED BY <2>0, <3>1, <3>2 DEF AllServed, Served
  <2>2. Served(s)'
    <3>1. Seen(s)' \subseteq Seen(s) /\ Pending(s)' = Pending(s)
      BY <1>11, <1>12, <1>13, <2>0 DEF Seen, Pending, q
    <3>2. \A x \in Members(r) \ {Alarm} : g < x
      BY <1>8, <1>11, <1>12 DEF Served, q
    <3> QED BY <1>8, <1>12, <1>13, <2>0, <3>1, <3>2 DEF Served
  <2> QED BY <2>0, <2>1, <2>2 DEF AllServed, Holding
<1> QED BY <1>14, <1>15, <1>16

\* The log is cleared: what is left of the pipeline is newer than what was in it.
LEMMA ClearKeeps ==
    ASSUME TypeOK, Handling, Ordered, Covered, AllServed, ClearHistory
    PROVE  TypeOK' /\ Handling' /\ Ordered' /\ Covered' /\ AllServed'
<1>0. /\ UNCHANGED <<metrics, pipe, chan, run, local, stopped>>
      /\ resetAt # -1 /\ reset' \in {"idle", "history", "events", "thrash"}
      /\ thrashing' \in {thrashing, FALSE}
  BY DEF ClearHistory, Handling, pipe
<1>1. (log' = log \/ log' = <<>>) /\ (history' = history \/ history' = <<>>)
  BY DEF ClearHistory
<1>2. TypeOK'
  <2>0. /\ Len(<<>>) <= MaxEvents /\ Len(<<>>) <= MaxHistory
        /\ <<>> \in Seq(0 .. MaxEmits) /\ <<>> \in Seq(Snapshot)
    <3>1. Len(<<>>) = 0 /\ <<>> \in Seq(0 .. MaxEmits) /\ <<>> \in Seq(Snapshot) BY EmptySeq
    <3>2. MaxEvents \in Nat /\ MaxHistory \in Nat BY CapsAssumption
    <3> QED BY <3>1, <3>2
  <2>1. log' \in Seq(0 .. MaxEmits) /\ Len(log') <= MaxEvents
    BY <1>1, <2>0 DEF TypeOK
  <2>2. history' \in Seq(Snapshot) /\ Len(history') <= MaxHistory
    BY <1>1, <2>0 DEF TypeOK
  <2> QED BY <1>0, <2>1, <2>2 DEF TypeOK, metrics, pipe
<1>3. CASE log' = log BY <1>0, <1>2, <1>3, QuietKeeps DEF Handling, pipe
<1>4. CASE log' = <<>>
  <2>0. UNCHANGED <<queue, emitted, lost, run, chan, resetAt>> BY <1>0 DEF pipe
  <2>1. Members(log)' = {} /\ InOrder(log)' BY <1>4, EmptyMembers
  <2>2. Hand' = Hand /\ Known' = Hand \cup Members(queue)
    BY <2>0, <2>1 DEF Hand, At, Known
  <2>3. Handling' BY <1>0, <2>0 DEF Handling, Holding
  <2>4. Ordered' BY <2>0, <2>1, <2>2 DEF Ordered
  <2>5. Covered'
    <3> SUFFICES ASSUME NEW x \in Known' \ {Alarm}
                 PROVE  x <= emitted /\ x \notin lost /\ x .. emitted \subseteq Known' \cup lost
      BY <2>0 DEF Covered
    <3>1. /\ x <= emitted /\ x \notin lost /\ x .. emitted \subseteq Known \cup lost
          /\ x \in Nat \ {Alarm} /\ emitted \in Nat
      BY <2>2, HandTypes DEF Covered, Known, TypeOK
    <3>2. ASSUME NEW y \in x .. emitted, y \in Members(log) PROVE FALSE
      BY <2>2, <3>1, <3>2 DEF Ordered, Alarm
    <3> QED BY <2>2, <3>1, <3>2 DEF Known
  <2>6. AllServed' BY <2>0 DEF AllServed, Served, Seen, Pending, Holding
  <2> QED BY <1>2, <2>3, <2>4, <2>5, <2>6
<1> QED BY <1>1, <1>3, <1>4

-----------------------------------------------------------------------------
(* All steps *)

\* An emission: an access under the lock, another event, or the one of a reset.
LEMMA EmissionKeeps ==
    ASSUME IInv, NEW d, Emit(d), emitted < MaxEmits,
           UNCHANGED <<closed, mon, run, local, stopped>>,
           accesses' \in 0 .. MaxEmits, faults' \in 0 .. accesses',
           \/ resetAt' = resetAt /\ d = dropped /\ reset' = reset
           \/ resetAt' = emitted /\ d = 0 /\ reset' = "history"
    PROVE  TypeOK' /\ Handling' /\ Ordered' /\ Covered' /\ Counted' /\ AllServed'
<1> USE DEF IInv
<1>0. resetAt' \in {resetAt, emitted} /\ emitted \in Nat BY DEF TypeOK
<1>1. PipeTypes' BY <1>0, EmitTypes
<1>2. Counted' BY EmitCounted
<1>3. Ordered' /\ Covered' BY EmitOrdered DEF mon
<1>4. AllServed' /\ (Holding => run["worker"].event \in 1 .. emitted') BY EmitServed DEF mon
<1>5. dropped' \in 0 .. MaxEmits
  <2>1. /\ emitted' \in Nat /\ emitted' <= MaxEmits /\ lost' \in SUBSET (1 .. emitted')
        /\ resetAt' \in Int
    BY <1>1, CapsAssumption DEF PipeTypes
  <2>2. Cardinality({n \in lost' : n > resetAt'}) \in 0 .. emitted' BY <2>1, Losses
  <2> QED BY <1>2, <2>1, <2>2, CapsAssumption DEF Counted
<1>6. TypeOK' BY <1>1, <1>5 DEF TypeOK, PipeTypes, mon
<1>7. Handling' BY <1>0, <1>4 DEF Handling, Holding
<1> QED BY <1>2, <1>3, <1>4, <1>6, <1>7

\* The invariant holds at first.
LEMMA InitIInv == ASSUME Init PROVE IInv
<1> USE DEF Init
<1>1. TypeOK
  <2>1. 0 \in 0 .. MaxEmits /\ Len(<<>>) = 0 BY CapsAssumption, EmptySeq
  <2>2. /\ <<>> \in Seq(0 .. MaxEmits) /\ queue \in Seq(1 .. MaxEmits)
        /\ log \in Seq(0 .. MaxEmits) /\ history \in Seq(Snapshot)
    BY EmptySeq
  <2>3. chan \in [Subs -> Chan] /\ \A s \in Subs : Len(chan[s].q) <= SubCap
    BY <2>1, <2>2, CapsAssumption DEF Chan
  <2>4. run \in [Agents -> Run] BY IdleRun
  <2>5. local \in [snap : Snapshot, verdict : BOOLEAN] BY DEF NoLocal, Snapshot
  <2>6. lost \subseteq 1 .. emitted /\ resetAt \in -1 .. emitted /\ faults \in 0 .. accesses
    OBVIOUS
  <2>7. Len(queue) <= QueueCap /\ Len(history) <= MaxHistory /\ Len(log) <= MaxEvents
    BY <2>1, CapsAssumption
  <2> QED BY <2>1, <2>2, <2>3, <2>4, <2>5, <2>6, <2>7 DEF TypeOK
<1>2. Hand = {} /\ ~Holding /\ run["capture"] = Idle /\ run["worker"] = Idle
  BY IdleRun DEF Hand, At, Holding, Agents
<1>3. Handling BY <1>2, IdleRun DEF Handling
<1>4. Members(log) = {} /\ Members(queue) = {} /\ InOrder(log) /\ InOrder(queue)
  BY EmptyMembers
<1>5. Ordered /\ Covered BY <1>2, <1>4 DEF Ordered, Covered, Known
<1>6. Counted
  <2>1. {n \in lost : n > resetAt} = {} OBVIOUS
  <2> QED BY <2>1, FS_EmptySet DEF Counted
<1>7. AllServed
  <2>1. ASSUME NEW s \in Subs PROVE Served(s)
    <3>1. chan[s].q = <<>> /\ chan[s].got = 0 OBVIOUS
    <3>2. Seen(s) = {0} /\ InOrder(chan[s].q) /\ Members(chan[s].q) = {}
      BY <3>1, EmptyMembers DEF Seen
    <3>3. ~Pending(s) BY <1>2, IdleRun DEF Pending
    <3> QED BY <1>4, <3>2, <3>3 DEF Served
  <2> QED BY <1>2, <2>1 DEF AllServed
<1>8. Verdicts
  BY <1>2, IdleRun DEF Verdicts, Growing, Judged
<1>9. VerdictIsLatest
  <2>1. Len(<<>>) = 0 BY EmptySeq
  <2>2. Last(history, Window) = <<>> BY <2>1, CapsAssumption DEF Last
  <2>3. ~(Len(Last(history, Window)) >= 2) BY <2>1, <2>2
  <2> QED BY <2>3 DEF VerdictIsLatest
<1> QED BY <1>1, <1>3, <1>5, <1>6, <1>7, <1>8, <1>9 DEF IInv

\* Every step of every goroutine keeps the invariant.
LEMMA NextIInv == ASSUME IInv, [Next]_vars PROVE IInv'
<1> USE DEF IInv
<1>0. /\ emitted \in Nat /\ accesses \in 0 .. MaxEmits /\ faults \in 0 .. accesses
      /\ MaxEmits \in Nat /\ MaxAfter \in 0 .. MaxEmits /\ "worker" \in Agents /\ "capture" \in Agents
  BY CapsAssumption DEF TypeOK, Agents
<1>1. Room => accesses + 1 \in 0 .. MaxEmits BY <1>0 DEF Room
<1>2. ASSUME NEW fault \in BOOLEAN, Access(fault) PROVE IInv'
  <2>1. /\ Emit(dropped) /\ emitted < MaxEmits /\ accesses' = accesses + 1 /\ Room
        /\ faults' \in {faults, faults + 1}
        /\ UNCHANGED <<closed, resetAt, mon, run, local, reset, stopped>>
    BY <1>2 DEF Access
  <2>2. accesses' \in 0 .. MaxEmits /\ faults' \in 0 .. accesses' BY <1>0, <1>1, <2>1
  <2>3. TypeOK' /\ Handling' /\ Ordered' /\ Covered' /\ Counted' /\ AllServed'
    BY <2>1, <2>2, EmissionKeeps
  <2>4. Verdicts' /\ VerdictIsLatest' BY <2>1, VerdictsSame DEF mon
  <2> QED BY <2>3, <2>4
<1>3. CASE AccessFast
  <2>1. /\ Room /\ accesses' = accesses + 1
        /\ UNCHANGED <<faults, dropped, pipe, mon, run, local, reset, stopped>>
    BY <1>3 DEF AccessFast
  <2>2. TypeOK' BY <1>0, <1>1, <2>1 DEF TypeOK, pipe, mon
  <2>3. Handling' /\ Ordered' /\ Covered' /\ AllServed'
    BY <2>1, QuietKeeps DEF mon, Handling
  <2>4. Counted' BY <2>1 DEF Counted, pipe
  <2>5. Verdicts' /\ VerdictIsLatest' BY <2>1, VerdictsSame DEF mon, pipe
  <2> QED BY <2>2, <2>3, <2>4, <2>5
<1>4. CASE EmitEvent
  <2>1. /\ Emit(dropped) /\ emitted < MaxEmits
        /\ UNCHANGED <<faults, accesses, closed, resetAt, mon, run, local, reset, stopped>>
    BY <1>4 DEF EmitEvent
  <2>2. TypeOK' /\ Handling' /\ Ordered' /\ Covered' /\ Counted' /\ AllServed'
    BY <1>0, <2>1, EmissionKeeps
  <2>3. Verdicts' /\ VerdictIsLatest' BY <2>1, VerdictsSame DEF mon
  <2> QED BY <2>2, <2>3
<1>5. CASE ResetMetrics
  <2>1. /\ Emit(0) /\ emitted < MaxEmits /\ faults' = 0 /\ accesses' = 0 /\ resetAt' = emitted
        /\ reset' = "history" /\ UNCHANGED <<closed, mon, run, local, stopped>>
    BY <1>5 DEF ResetMetrics
  <2>2. accesses' \in 0 .. MaxEmits /\ faults' \in 0 .. accesses' BY <1>0, <2>1
  <2>3. TypeOK' /\ Handling' /\ Ordered' /\ Covered' /\ Counted' /\ AllServed'
    BY <2>1, <2>2, EmissionKeeps
  <2>4. Verdicts' /\ VerdictIsLatest' BY <1>0, <2>1, VerdictsOff
  <2> QED BY <2>3, <2>4
<1>6. CASE Take
  <2>1. UNCHANGED <<metrics, resetAt, lost, mon, local>> /\ run'["capture"] = run["capture"]
    BY <1>0, <1>6 DEF Take, Goto, Agents, TypeOK
  <2>2. Counted' BY <2>1 DEF Counted, metrics
  <2>3. Verdicts' /\ VerdictIsLatest' BY <2>1, VerdictsSame DEF metrics, mon
  <2> QED BY <1>6, <2>2, <2>3, TakeKeeps
<1>7. ASSUME NEW a \in Agents, HandleEvent(a) PROVE IInv'
  <2>1. UNCHANGED <<metrics, pipe, history, thrashing, local>>
    BY <1>7 DEF HandleEvent, LogEvent, CopySubs, SendSub, mon
  <2>2. TypeOK' /\ Handling' /\ Ordered' /\ Covered' /\ AllServed'
    BY <1>7, LogEventKeeps, CopySubsKeeps, SendSubKeeps DEF HandleEvent
  <2>3. Counted' BY <2>1 DEF Counted, metrics, pipe
  <2>4. \/ run'["capture"] = run["capture"]
        \/ run["capture"].at \in Done /\ run'["capture"].at \in Done
    <3>1. run[a] \in Run BY DEF TypeOK
    <3>2. \E r \in Run : Goto(a, r) /\ r.at \in Done /\ run[a].at \in Done
      <4>1. CASE LogEvent(a)
        BY <3>1, <4>1, CopiesRun DEF LogEvent, Copies, At, Done
      <4>2. CASE CopySubs(a)
        <5> DEFINE S == {s \in Subs : chan[s].on}
        <5>1. S \in SUBSET Subs /\ Goto(a, Fan(a, S)) /\ run[a].at \in Done
          BY <4>2 DEF CopySubs, At, Done
        <5> HIDE DEF S
        <5> QED BY <5>1, FanIs, IdleRun DEF Done
      <4>3. ASSUME NEW s \in Subs, SendSub(a, s)
            PROVE  \E r \in Run : Goto(a, r) /\ r.at \in Done /\ run[a].at \in Done
        <5> DEFINE S == run[a].todo \ {s}
        <5>1. S \in SUBSET Subs /\ Goto(a, Fan(a, S)) /\ run[a].at \in Done
          BY <3>1, <4>3 DEF SendSub, At, Done, Run
        <5> HIDE DEF S
        <5> QED BY <5>1, FanIs, IdleRun DEF Done
      <4> QED BY <1>7, <4>1, <4>2, <4>3 DEF HandleEvent
    <3> QED BY <1>0, <3>2, Goes
  <2>5. Verdicts' /\ VerdictIsLatest' BY <2>1, <2>4, VerdictsSame DEF metrics, pipe
  <2> QED BY <2>2, <2>3, <2>5
<1>8. CASE Capture \/ AppendSnapshot \/ DetectRead \/ Decide \/ CaptureStop
  <2>1. TypeOK' /\ Handling' /\ Ordered' /\ Covered' /\ AllServed' BY <1>8, CaptureKeeps
  <2>2. Counted'
    BY <1>8 DEF Counted, Capture, AppendSnapshot, DetectRead, Decide, CaptureStop, metrics, pipe
  <2>3. CASE CaptureStop
    <3>1. /\ UNCHANGED <<metrics, pipe, mon>> /\ run["capture"].at = "idle"
          /\ Goto("capture", AtPlace("end"))
      BY <2>3 DEF CaptureStop, At, AtPlace
    <3>2. "end" \in Places BY DEF Places
    <3>3. run'["capture"].at = "end" BY <1>0, <3>1, <3>2, PlaceRun, Goes
    <3>4. run["capture"].at \in Done /\ run'["capture"].at \in Done BY <3>1, <3>3 DEF Done
    <3> QED BY <2>1, <2>2, <3>1, <3>4, VerdictsSame DEF metrics, pipe, mon
  <2> QED BY <1>8, <2>1, <2>2, <2>3, CaptureVerdicts
<1>9. ASSUME NEW s \in Subs, SubscribeEvents(s) \/ UnsubscribeEvents(s) \/ ReceiveEvent(s) PROVE IInv'
  <2>1. UNCHANGED <<metrics, pipe, history, log, thrashing, run, local, reset, stopped>>
    BY <1>9 DEF SubscribeEvents, UnsubscribeEvents, ReceiveEvent
  <2>2. Counted' BY <2>1 DEF Counted, metrics, pipe
  <2>3. Verdicts' /\ VerdictIsLatest' BY <2>1, VerdictsSame DEF metrics, pipe
  <2> QED BY <1>9, <2>2, <2>3, SwitchKeeps, ReceiveKeeps
<1>10. CASE ClearHistory
  <2>1. UNCHANGED <<metrics, pipe>> /\ resetAt' # -1 BY <1>10 DEF ClearHistory, Handling, pipe
  <2>2. Counted' BY <2>1 DEF Counted, metrics, pipe
  <2> QED BY <1>10, <2>1, <2>2, ClearKeeps, VerdictsOff
<1>11. CASE Shutdown \/ UNCHANGED vars
  <2>1. /\ UNCHANGED <<metrics, queue, emitted, lost, resetAt, mon, run, local, reset>>
        /\ closed' \in BOOLEAN /\ stopped' \in BOOLEAN
    BY <1>11 DEF Shutdown, vars, pipe, TypeOK
  <2>2. TypeOK' BY <2>1 DEF TypeOK, metrics, mon
  <2>3. Handling' /\ Ordered' /\ Covered' /\ AllServed'
    BY <2>1 DEF Handling, Holding, Ordered, Covered, Known, Hand, At, AllServed, Served, Seen, Pending, mon
  <2>4. Counted' BY <2>1 DEF Counted, metrics
  <2>5. Verdicts' /\ VerdictIsLatest' BY <2>1, VerdictsSame DEF metrics, mon
  <2> QED BY <2>2, <2>3, <2>4, <2>5
<1> QED
  BY <1>0, <1>2, <1>3, <1>4, <1>5, <1>6, <1>7, <1>8, <1>9, <1>10, <1>11
  DEF Next, Worker, CaptureStep

\* The inductive invariant of the pipeline, the subscribers and the verdict.
THEOREM MonitorInductive == Spec => []IInv
<1>1. Init => IInv BY InitIInv
<1>2. IInv /\ [Next]_vars => IInv' BY NextIInv
<1> QED BY <1>1, <1>2, PTL DEF Spec

\* The invariant says that every event is accounted for.
LEMMA NothingLost == ASSUME IInv PROVE NothingLostSilently
<1> USE DEF IInv
<1>1. /\ queue \in Seq(Nat) /\ log \in Seq(Nat) /\ Members(log) \subseteq Nat
      /\ Members(queue) \subseteq Nat \ {Alarm} /\ Hand \subseteq Nat \ {Alarm}
  BY MembersTypes, HandTypes
<1>2. InHand \in Seq(Nat) /\ Members(InHand) = Hand /\ InOrder(InHand)
  <2>1. CASE At("worker", "log")
    <3>1. run["worker"].event \in Nat BY <1>1, <2>1 DEF Hand
    <3> QED BY <2>1, <3>1, OneMember DEF InHand, Hand
  <2>2. CASE ~At("worker", "log") BY <2>2, EmptyMembers, EmptySeq DEF InHand, Hand
  <2> QED BY <2>1, <2>2
<1>3. /\ log \o InHand \in Seq(Nat) /\ Members(log \o InHand) = Members(log) \cup Hand
      /\ InOrder(log \o InHand)
  <2>1. \A x \in Members(log) \ {Alarm}, y \in Members(InHand) \ {Alarm} : x < y
    BY <1>2 DEF Ordered
  <2> QED BY <1>1, <1>2, <2>1, ConcatOrder DEF Ordered
<1>4. Members(Trail) = Known /\ InOrder(Trail)
  <2> DEFINE q == log \o InHand
  <2>1. q \in Seq(Nat) /\ Members(q) = Members(log) \cup Hand /\ InOrder(q) BY <1>3
  <2> HIDE DEF q
  <2>2. \A x \in Members(q) \ {Alarm}, y \in Members(queue) \ {Alarm} : x < y
    BY <2>1 DEF Ordered
  <2>3. Members(q \o queue) = Members(q) \cup Members(queue) /\ InOrder(q \o queue)
    BY <1>1, <2>1, <2>2, ConcatOrder DEF Ordered
  <2> QED BY <2>1, <2>3 DEF Trail, Known, q
<1> QED BY <1>4 DEF NothingLostSilently, Covered, Counted

\* However accesses, the worker, alarms of the capture goroutine, resets and Shutdown
\* interleave, no event vanishes from the pipeline or the log without being counted in
\* dropped_events.
THEOREM NoEventLostSilently == Spec => []NothingLostSilently
<1>1. IInv => NothingLostSilently BY NothingLost
<1> QED BY <1>1, MonitorInductive, PTL

\* The invariant says that what a subscriber will see is in order.
LEMMA SubscriberSees == ASSUME IInv PROVE SubscriberOrder
<1> SUFFICES ASSUME NEW s \in Subs PROVE InOrder(<<chan[s].got>> \o chan[s].q)
  BY DEF SubscriberOrder
<1>1. Served(s) BY DEF IInv, AllServed
<1> DEFINE g == chan[s].got
           q == chan[s].q
<1>2. g \in Nat /\ q \in Seq(Nat) /\ InOrder(q) /\ \A x \in Members(q) \ {Alarm} : g < x
  BY <1>1, MembersTypes DEF IInv, Served
<1> HIDE DEF g, q
<1>3. <<g>> \in Seq(Nat) /\ Members(<<g>>) = {g} /\ InOrder(<<g>>) BY <1>2, OneMember
<1>4. InOrder(<<g>> \o q) BY <1>2, <1>3, ConcatOrder
<1> QED BY <1>4 DEF g, q

\* A subscriber receives events in the order of their emission, although the worker
\* and the capture goroutine both send to its channel.
THEOREM SubscribersInOrder == Spec => []SubscriberOrder
<1>1. IInv => SubscriberOrder BY SubscriberSees
<1> QED BY <1>1, MonitorInductive, PTL

\* Until a reset, isThrashing is the verdict of the newest window of snapshots whenever
\* the capture goroutine is not at work on it.
THEOREM PublishedVerdict == Spec => []VerdictIsLatest
<1>1. IInv => VerdictIsLatest BY DEF IInv
<1> QED BY <1>1, MonitorInductive, PTL

-----------------------------------------------------------------------------
(* The pipeline is an event stream *)

\* A sequence is its head followed by its tail.
LEMMA HeadThenTail ==
    ASSUME NEW q \in Seq(Nat), q # <<>> PROVE <<Head(q)>> \o Tail(q) = q
<1>1. /\ Head(q) \in Nat /\ Tail(q) \in Seq(Nat) /\ Len(Tail(q)) = Len(q) - 1
      /\ Len(q) \in Nat \ {0} /\ \A i \in 1 .. Len(Tail(q)) : Tail(q)[i] = q[i + 1]
  BY HeadTailProperties, EmptySeq
<1> DEFINE h == <<Head(q)>>
           r == Tail(q)
           c == h \o r
<1>2. h \in Seq(Nat) /\ Len(h) = 1 /\ h[1] = q[1] BY <1>1
<1> HIDE DEF h, r
<1>3. /\ c \in Seq(Nat) /\ Len(c) = Len(h) + Len(r)
      /\ \A i \in 1 .. Len(h) + Len(r) : c[i] = IF i <= Len(h) THEN h[i] ELSE r[i - Len(h)]
  BY <1>1, <1>2, ConcatProperties DEF r
<1> HIDE DEF c
<1>4. Len(h) + Len(r) = Len(q) BY <1>1, <1>2 DEF r
<1>5. ASSUME NEW i \in 1 .. Len(q) PROVE c[i] = q[i]
  <2>1. CASE i = 1 BY <1>1, <1>2, <1>3, <1>4, <2>1
  <2>2. CASE i # 1
    <3>1. i - 1 \in 1 .. Len(r) /\ (i - 1) + 1 = i /\ ~(i <= 1) BY <1>1, <2>2 DEF r
    <3>2. c[i] = r[i - 1] BY <1>2, <1>3, <1>4, <3>1
    <3>3. r[i - 1] = q[(i - 1) + 1] BY <1>1, <3>1 DEF r
    <3> QED BY <3>1, <3>2, <3>3
  <2> QED BY <2>1, <2>2
<1>6. c = q BY <1>3, <1>4, <1>5, SeqEqual
<1> QED BY <1>6 DEF c, h, r

\* The tail of a sequence with a new head is the old one.
LEMMA TailOfCons ==
    ASSUME NEW q \in Seq(Nat), NEW e \in Nat
    PROVE  <<e>> \o q # <<>> /\ Tail(<<e>> \o q) = q
<1> DEFINE h == <<e>>
           c == h \o q
<1>1. h \in Seq(Nat) /\ Len(h) = 1 /\ Len(q) \in Nat BY LenProperties
<1> HIDE DEF h
<1>2. /\ c \in Seq(Nat) /\ Len(c) = Len(h) + Len(q)
      /\ \A i \in 1 .. Len(h) + Len(q) : c[i] = IF i <= Len(h) THEN h[i] ELSE q[i - Len(h)]
  BY <1>1, ConcatProperties
<1> HIDE DEF c
<1>3. c # <<>> /\ Len(c) = 1 + Len(q) BY <1>1, <1>2
<1>4. /\ Tail(c) \in Seq(Nat) /\ Len(Tail(c)) = Len(c) - 1
      /\ \A i \in 1 .. Len(Tail(c)) : Tail(c)[i] = c[i + 1]
  BY <1>2, <1>3, HeadTailProperties
<1> DEFINE t == Tail(c)
<1>5. t \in Seq(Nat) /\ Len(t) = Len(q) /\ \A i \in 1 .. Len(q) : t[i] = c[i + 1]
  BY <1>1, <1>3, <1>4
<1> HIDE DEF t
<1>6. ASSUME NEW i \in 1 .. Len(q) PROVE t[i] = q[i]
  <2>1. i + 1 \in 1 .. Len(h) + Len(q) /\ ~(i + 1 <= 1) /\ (i + 1) - 1 = i BY <1>1
  <2>2. c[i + 1] = q[(i + 1) - 1] BY <1>1, <1>2, <2>1
  <2> QED BY <1>5, <2>1, <2>2
<1>7. t = q BY <1>5, <1>6, SeqEqual
<1> QED BY <1>3, <1>7 DEF t, c, h

\* An entry at the end of the second of two sequences is at the end of both.
LEMMA AppendToConcat ==
    ASSUME NEW h \in Seq(Nat), NEW q \in Seq(Nat), NEW e \in Nat
    PROVE  h \o Append(q, e) = Append(h \o q, e)
<1> DEFINE t == <<e>>
<1>1. t \in Seq(Nat) /\ h \o q \in Seq(Nat) BY ConcatProperties
<1>2. Append(q, e) = q \o t BY AppendIsConcat
<1>3. Append(h \o q, e) = (h \o q) \o t BY <1>1, AppendIsConcat
<1> HIDE DEF t
<1>4. (h \o q) \o t = h \o (q \o t)
  <2>1. t \in Seq(Nat) BY <1>1
  <2> QED BY <2>1, ConcatAssociative
<1> QED BY <1>2, <1>3, <1>4

Waiting == InHand \o queue

\* What waits are events, at least as many as are queued.
LEMMA WaitingIs ==
    ASSUME IInv
    PROVE  /\ queue \in Seq(Nat) /\ InHand \in Seq(Nat) /\ Waiting \in Seq(Nat)
           /\ Len(queue) \in Nat /\ Len(Waiting) \in Nat /\ Len(Waiting) >= Len(queue)
           /\ At("worker", "log") => run["worker"].event \in Nat
           /\ ~At("worker", "log") => Waiting = queue
<1>1. queue \in Seq(Nat) /\ Hand \subseteq Nat BY MembersTypes, HandTypes DEF IInv
<1>2. At("worker", "log") => run["worker"].event \in Nat BY <1>1 DEF Hand
<1>3. InHand \in Seq(Nat) BY <1>2, EmptySeq DEF InHand
<1>4. ~At("worker", "log") => Waiting = queue
  BY <1>1, ConcatEmptySeq DEF Waiting, InHand
<1>5. Waiting \in Seq(Nat) /\ Len(Waiting) = Len(InHand) + Len(queue)
  BY <1>1, <1>3, ConcatProperties DEF Waiting
<1>6. Len(queue) \in Nat /\ Len(InHand) \in Nat BY <1>1, <1>3, LenProperties
<1> QED BY <1>1, <1>2, <1>3, <1>4, <1>5, <1>6

\* An emission is an event accepted, an event lost while the queue is full, or, after
\* Close, nothing.
LEMMA EmissionOfStream ==
    ASSUME IInv, NEW d, Emit(d), UNCHANGED <<run, closed>>
    PROVE  Stream!Accept \/ Stream!Lose \/ UNCHANGED <<Waiting, emitted, ~closed>>
<1>0. InHand' = InHand BY DEF InHand, At
<1>1. emitted \in Nat /\ closed \in BOOLEAN BY DEF IInv, TypeOK
<1>2. CASE closed
  BY <1>0, <1>2 DEF Emit, Waiting
<1>3. CASE ~closed /\ Len(queue) < QueueCap
  <2>1. emitted' = emitted + 1 /\ queue' = Append(queue, emitted + 1) BY <1>3 DEF Emit
  <2>2. emitted + 1 \in Nat BY <1>1
  <2> DEFINE e == emitted + 1
  <2>3. InHand \o Append(queue, e) = Append(InHand \o queue, e)
    <3> HIDE DEF e
    <3>1. e \in Nat BY <2>2 DEF e
    <3> QED BY <3>1, WaitingIs, AppendToConcat
  <2> QED BY <1>0, <1>3, <2>1, <2>3 DEF Stream!Accept
<1>4. CASE ~closed /\ ~(Len(queue) < QueueCap)
  <2>1. emitted' = emitted + 1 /\ queue' = queue BY <1>4 DEF Emit
  <2>2. Len(Waiting) >= QueueCap BY <1>4, WaitingIs, CapsAssumption
  <2> QED BY <1>0, <1>4, <2>1, <2>2 DEF Stream!Lose, Waiting
<1> QED BY <1>2, <1>3, <1>4

\* Every step is one of the stream, or none of its concern: Take moves the oldest event
\* from the queue into the worker's hand, and the log is where it is delivered.
LEMMA StreamStep ==
    ASSUME IInv, [Next]_vars
    PROVE  Stream!Next \/ UNCHANGED <<Waiting, emitted, ~closed>>
<1>0. "worker" \in Agents /\ "capture" \in Agents /\ run \in [Agents -> Run] /\ run["worker"] \in Run
  BY DEF Agents, IInv, TypeOK
<1>1. CASE (\E fault \in BOOLEAN : Access(fault)) \/ EmitEvent \/ ResetMetrics
  <2>1. \E d : Emit(d) /\ UNCHANGED <<run, closed>>
    BY <1>1 DEF Access, EmitEvent, ResetMetrics
  <2> QED BY <2>1, EmissionOfStream DEF Stream!Next
<1>2. CASE Take
  <2>1. At("worker", "idle") /\ UNCHANGED <<emitted, closed>> BY <1>2 DEF Take
  <2>2. Waiting = queue BY <2>1, WaitingIs DEF At
  <2>3. CASE queue # <<>>
    <3>1. /\ Goto("worker", [Idle EXCEPT !.at = "log", !.event = Head(queue)])
          /\ queue' = Tail(queue)
      BY <1>2, <2>3 DEF Take
    <3> DEFINE r == [Idle EXCEPT !.at = "log", !.event = Head(queue)]
    <3>2. r.at = "log" /\ r.event = Head(queue) BY DEF Idle
    <3>3. run'["worker"] = r BY <1>0, <3>1 DEF Goto
    <3> HIDE DEF r
    <3>4. Waiting' = <<Head(queue)>> \o Tail(queue)
      BY <3>1, <3>2, <3>3 DEF Waiting, InHand, At
    <3> QED BY <2>1, <2>2, <2>3, <3>4, HeadThenTail, WaitingIs
  <2>4. CASE queue = <<>>
    <3>1. Goto("worker", [Idle EXCEPT !.at = "end"]) /\ queue' = queue
      BY <1>2, <2>4 DEF Take
    <3>2. run'["worker"].at = "end" BY <1>0, <3>1 DEF Goto, Idle
    <3>3. InHand = InHand' BY <2>1, <3>2 DEF InHand, At
    <3> QED BY <2>1, <3>1, <3>3 DEF Waiting
  <2> QED BY <2>3, <2>4
<1>3. CASE LogEvent("worker")
  <2>1. /\ At("worker", "log") /\ Goto("worker", Copies(run["worker"]))
        /\ UNCHANGED <<queue, emitted, closed>>
    BY <1>3 DEF LogEvent, Copies, pipe
  <2>2. run'["worker"].at = "copy" BY <1>0, <2>1, CopiesRun, Goes DEF IInv
  <2> DEFINE e == run["worker"].event
  <2>3. e \in Nat /\ queue \in Seq(Nat) BY <2>1, WaitingIs
  <2>4. Waiting = <<e>> \o queue BY <2>1 DEF Waiting, InHand
  <2>5. Waiting' = queue
    BY <2>1, <2>2, <2>3, ConcatEmptySeq DEF Waiting, InHand, At
  <2>6. Waiting # <<>> /\ Waiting' = Tail(Waiting)
    <3> HIDE DEF e
    <3> QED BY <2>3, <2>4, <2>5, TailOfCons
  <2>7. Stream!Deliver BY <2>1, <2>6 DEF Stream!Deliver, Waiting
  <2> QED BY <2>7 DEF Stream!Next
<1>4. CASE Shutdown
  <2>1. UNCHANGED <<queue, emitted, run>> /\ (closed' = closed \/ (~closed /\ closed' = TRUE))
    BY <1>4 DEF Shutdown
  <2>2. Waiting' = Waiting BY <2>1 DEF Waiting, InHand, At
  <2> QED BY <2>1, <2>2 DEF Stream!Next, Stream!Close, Waiting
<1>5. CASE UNCHANGED <<queue, emitted, closed>> /\ run'["worker"] = run["worker"]
  BY <1>5 DEF Waiting, InHand, At
<1>6. ASSUME UNCHANGED <<queue, emitted, closed>>, ~At("worker", "log"), run'["worker"].at # "log"
      PROVE  UNCHANGED <<Waiting, emitted, ~closed>>
  BY <1>6 DEF Waiting, InHand, At
<1>7. CASE CopySubs("worker") \/ \E s \in Subs : SendSub("worker", s)
  <2>1. /\ UNCHANGED <<queue, emitted, closed>> /\ ~At("worker", "log")
        /\ \E S \in SUBSET Subs : Goto("worker", Fan("worker", S))
    <3>1. CASE CopySubs("worker")
      BY <3>1 DEF CopySubs, At, pipe
    <3>2. ASSUME NEW s \in Subs, SendSub("worker", s)
          PROVE  /\ UNCHANGED <<queue, emitted, closed>> /\ ~At("worker", "log")
                 /\ \E S \in SUBSET Subs : Goto("worker", Fan("worker", S))
      <4>1. run["worker"].todo \ {s} \in SUBSET Subs BY <1>0 DEF Run
      <4>2. Goto("worker", Fan("worker", run["worker"].todo \ {s}))
        BY <3>2 DEF SendSub
      <4>3. UNCHANGED <<queue, emitted, closed>> /\ ~At("worker", "log")
        BY <3>2 DEF SendSub, At, pipe
      <4> QED BY <4>1, <4>2, <4>3, Zenon
    <3> QED BY <1>7, <3>1, <3>2
  <2>2. run'["worker"].at # "log" BY <1>0, <2>1, FanIs, Goes, IdleRun DEF IInv
  <2> QED BY <1>6, <2>1, <2>2
<1>8. ASSUME HandleEvent("capture") PROVE UNCHANGED <<queue, emitted, closed>> /\ run'["worker"] = run["worker"]
  <2>1. \A r : Goto("capture", r) => run'["worker"] = run["worker"] BY <1>0 DEF Goto, Agents
  <2> QED BY <1>8, <2>1 DEF HandleEvent, LogEvent, CopySubs, SendSub, pipe
<1>9. ASSUME Capture \/ AppendSnapshot \/ DetectRead \/ Decide \/ CaptureStop
      PROVE  UNCHANGED <<queue, emitted, closed>> /\ run'["worker"] = run["worker"]
  <2>1. \A r : Goto("capture", r) => run'["worker"] = run["worker"] BY <1>0 DEF Goto, Agents
  <2> QED BY <1>9, <2>1 DEF Capture, AppendSnapshot, DetectRead, Decide, CaptureStop, pipe
<1>10. ASSUME \/ AccessFast \/ ClearHistory \/ UNCHANGED vars
              \/ \E s \in Subs : SubscribeEvents(s) \/ UnsubscribeEvents(s) \/ ReceiveEvent(s)
       PROVE  UNCHANGED <<queue, emitted, closed>> /\ run'["worker"] = run["worker"]
  BY <1>10 DEF AccessFast, ClearHistory, vars, SubscribeEvents, UnsubscribeEvents, ReceiveEvent, pipe
<1> QED
  BY <1>1, <1>2, <1>3, <1>4, <1>5, <1>7, <1>8, <1>9, <1>10
  DEF Next, Worker, CaptureStep, HandleEvent

\* The event channel, the worker and the log implement the safety part of EventStream:
\* events are accepted in order, each is delivered to the log once and in order, and one
\* is lost only while as many wait as the channel can hold; a reset, an alarm or Close
\* takes nothing that was accepted away.
THEOREM PipelineIsStream == Spec => Stream!Safety
<1>1. Init => Stream!Init
  BY IdleRun DEF Init, Stream!Init, InHand, At, Agents
<1>2. IInv /\ [Next]_vars => [Stream!Next]_<<InHand \o queue, emitted, ~closed>>
  BY StreamStep DEF Waiting
<1> QED BY <1>1, <1>2, MonitorInductive, PTL DEF Spec, Stream!Safety, Stream!stream

=============================================================================
