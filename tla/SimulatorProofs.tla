--------------------------- MODULE SimulatorProofs ---------------------------
(***************************************************************************)
(* Theorems about Simulator, for any number of runs, lengths, processes    *)
(* and resets.                                                             *)
(***************************************************************************)
EXTENDS Simulator, SequenceTheorems, FiniteSetTheorems, TLAPS

-----------------------------------------------------------------------------
(* Where the parts of a scenario are *)

\* The accesses made before each part of a script and at its end, and the draws.
From(scenario) ==
    CASE scenario \in {"sequential", "random", "locality"} -> <<0, 0, Cut(100)>>
      [] scenario = "looping"    -> <<0, 0, Cut(15) * Cut(5)>>
      [] scenario = "mixed"      ->
            <<0, 0, Cut(20), Cut(20) + Cut(30), Cut(20) + Cut(30) + Cut(30)>>
      [] scenario = "fork_cow"   ->
            <<0, 0, Cut(30), Cut(30), Cut(30) + Cut(10), Cut(30) + 2 * Cut(10),
              Cut(30) + 3 * Cut(10), Cut(30) + 4 * Cut(10)>>
      [] scenario = "thrashing"  -> <<0, 0, Cut(200)>>

Draws(scenario) ==
    CASE scenario = "sequential" -> <<0, 0, 0>>
      [] scenario = "random"     -> <<0, 0, 2 * Cut(100)>>
      [] scenario = "locality"   -> <<0, 0, Cut(20) + 3 * Cut(100)>>
      [] scenario = "looping"    -> <<0, 0, Cut(15) * Cut(5)>>
      [] scenario = "mixed"      ->
            <<0, 0, 0, 2 * Cut(30), 2 * Cut(30) + Cut(10) + 3 * Cut(30)>>
      [] scenario = "fork_cow"   ->
            <<0, 0, 0, 0, 2 * Cut(10), 4 * Cut(10), 6 * Cut(10), 8 * Cut(10)>>
      [] scenario = "thrashing"  -> <<0, 0, 2 * Cut(200)>>

\* The accesses of a part, the draws of its first t accesses, and the page of the access
\* after them, when the part begins at draw k.
Amount(part) == IF part.kind \in Accesses THEN part.n ELSE 0
Progress(part, t) ==
    CASE part.kind = "random"   -> 2 * t
      [] part.kind = "locality" -> IF t = 0 THEN 0 ELSE part.size + 3 * t
      [] part.kind = "looping"  -> t
      [] OTHER -> 0
PageAt(part, k, t) ==
    CASE part.kind = "sequential" -> Fixed(t)
      [] part.kind = "random"     -> Drawn(k + 2 * t, part.max)
      [] part.kind = "locality"   -> Local(k + part.size + 3 * t, k, part.size)
      [] part.kind = "looping"    -> Fixed(t % part.size)

-----------------------------------------------------------------------------
(* What every step keeps *)

Active == {"begin", "precompute", "dispatch", "run", "return", "report", "unlock"}
Holds == {"precompute", "dispatch", "run", "return"}

\* Runs come one after the other: the holder of simulationMu is the run started last,
\* and no other is active.  scenarioMu is free when it is asked for.
Serial ==
    /\ lock # 0 => lock = started
    /\ \A r \in Runs :
         /\ r > started => job[r] = NoJob
         /\ job[r].at = "end" => r <= started
         /\ r <= started => job[r].at # "none"
         /\ r <= started /\ job[r].at # "end" => lock = r
         /\ lock = r => job[r].at \in Active
         /\ scenarioMu = r => job[r].at \in Holds

\* A run has a process only while it runs its script.
NoProcess(j) == j.at \notin {"run", "return"} => j.parent = 0 /\ j.child = 0
Fresh(j) == j.at \in {"none", "begin", "precompute", "dispatch"} =>
               j.made = 0 /\ j.i = 0 /\ ~j.failed
Known(j) == j.at = "run" => j.scenario \in Names

\* Which part of its script a run is at, and what is left of the script.
Index(j) == Len(Script(j.scenario)) + 1 - Len(j.script)
OnScript(j) ==
    LET S == Script(j.scenario)
        d == Index(j)
    IN  /\ Len(j.script) <= Len(S)
        /\ \A i \in 1 .. Len(j.script) : j.script[i] = S[d + i - 1]
        /\ j.script # <<>> => j.i < Head(j.script).n
        /\ j.script = <<>> => j.i = 0
        /\ (j.script # <<>> /\ Head(j.script).kind \notin Accesses) => j.i = 0
        /\ j.made = From(j.scenario)[d] + j.i

\* The generator, after k draws, is where the prediction has it, for the first run.
OnSeed(j, k) ==
    LET d == Index(j)
    IN  /\ k = Draws(j.scenario)[d] +
                 (IF j.script = <<>> THEN 0 ELSE Progress(Head(j.script), j.i))
        /\ j.i > 0 => j.ws = Draws(j.scenario)[d]

Matched(r, j) == r = 1 \/ j.scenario \in {"sequential", "looping"}

\* What the policy knows of the future is the prediction of this run.
Foreseen(j, fut) ==
    fut # <<>> => j.scenario \in Names /\ fut = PrecomputeAccesses(j.scenario)

\* The accesses made so far are the first of those predicted, also if the run fails.
Followed(r, j, fut) ==
    LET F == PrecomputeAccesses(j.scenario)
    IN  /\ j.made > 0 => /\ j.scenario \in Names /\ j.made <= Len(F)
                         /\ Matched(r, j) => F[j.made] = j.last
        /\ Foreseen(j, fut) \/ (j.made = 0 /\ j.failed)

Complete(j) == ~j.failed => j.made = Len(PrecomputeAccesses(j.scenario))

\* What run r is in state j, when the policy knows fut and k draws have been made.
RunIs(r, j, fut, k) ==
    /\ NoProcess(j) /\ Fresh(j) /\ Known(j)
    /\ j.at = "run" => OnScript(j) /\ ~j.failed
    /\ r = 1 /\ j.at = "run" => OnSeed(j, k)
    /\ j.at = "dispatch" => Foreseen(j, fut)
    /\ j.at \in {"run", "return"} => Followed(r, j, fut)
    /\ j.at \in {"return", "report", "unlock"} => Complete(j)
AllRunsOK == \A r \in Runs : RunIs(r, job[r], futures, rng)

\* Nothing has been drawn before the first run makes its first access.
Undrawn ==
    started = 0 \/ (1 \in Runs /\ job[1].at \in {"begin", "precompute", "dispatch"}) => rng = 0

\* The numbers that the active run is still to take, and those left for the others.
Needs(j) ==
    CASE j.at \in {"begin", "precompute", "dispatch"} -> 2
      [] j.at = "run" -> IF Index(j) = 1 THEN 2
                         ELSE IF \E i \in DOMAIN j.script : j.script[i].kind = "fork" THEN 1 ELSE 0
      [] OTHER -> 0
Numbers ==
    /\ nextPID + 2 * (MaxRuns - started) <= MaxPID
    /\ \A r \in Runs : nextPID + 2 * (MaxRuns - started) + Needs(job[r]) <= MaxPID \/ r # started

\* Until a reset numbers are not used again.
Owned ==
    resets = 0 =>
      /\ \A pid \in processes : pid <= nextPID
      /\ \A r \in Runs : job[r].parent <= nextPID /\ job[r].child <= nextPID

IInv ==
    /\ TypeOK /\ Serial /\ AllRunsOK /\ Undrawn /\ Numbers /\ Owned
    /\ OwnProcesses

-----------------------------------------------------------------------------
(* The script of a scenario and its prediction agree *)

\* Script S makes the accesses F: part d begins with access P[d] + 1 and draw D[d], and
\* its pages are those that F has from there on.
Agrees(part, k, m, F) ==
    part.kind \in Accesses =>
      /\ m + part.n <= Len(F)
      /\ \A t \in 0 .. part.n - 1 : F[m + t + 1] = PageAt(part, k, t)
Placed(S, P, D) ==
    /\ S \in Seq(Parts) /\ Len(S) > 0 /\ P \in Seq(Nat) /\ D \in Seq(Nat)
    /\ Len(P) = Len(S) + 1 /\ Len(D) = Len(S) + 1 /\ P[1] = 0 /\ D[1] = 0
    /\ \A d \in 1 .. Len(S) : /\ P[d + 1] = P[d] + Amount(S[d])
                              /\ D[d + 1] = D[d] + Progress(S[d], S[d].n)
Shaped(S) ==
    /\ S[1].kind = "create"
    /\ \A d \in 1 .. Len(S) : /\ d > 1 => S[d].kind # "create"
                              /\ S[d].kind = "looping" => S[d].size > 0
                              /\ S[d].kind \notin Accesses => S[d].n = 1
    /\ \A d, e \in 1 .. Len(S) : S[d].kind = "fork" /\ S[e].kind = "fork" => d = e
Planned(S, P, D, F) ==
    /\ Placed(S, P, D) /\ Shaped(S) /\ F \in Seq(Page) /\ P[Len(S) + 1] = Len(F)
    /\ \A d \in 1 .. Len(S) : Agrees(S[d], D[d], P[d], F)

\* A length that is cut to the bound is at least one.
LEMMA CutIs == ASSUME NEW n \in Nat \ {0} PROVE Cut(n) \in Nat \ {0}
BY SimulatorAssumption DEF Cut

\* The types of pages and parts.
LEMMA PageTypes ==
    ASSUME NEW part \in Parts, part.kind \in Accesses, part.kind = "looping" => part.size > 0,
           NEW k \in Nat, NEW t \in Nat
    PROVE  PageAt(part, k, t) \in Page /\ Progress(part, t) \in Nat /\ Amount(part) = part.n
<1>0. part.size \in Nat /\ part.max \in Nat /\ part.n \in Nat BY DEF Parts
<1>1. CASE part.kind = "sequential"
  BY <1>0, <1>1 DEF PageAt, Progress, Amount, Page, Fixed, Accesses
<1>2. CASE part.kind = "random"
  BY <1>0, <1>2 DEF PageAt, Progress, Amount, Page, Drawn, Accesses
<1>3. CASE part.kind = "locality"
  BY <1>0, <1>3 DEF PageAt, Progress, Amount, Page, Local, Accesses
<1>4. CASE part.kind = "looping"
  <2>1. t % part.size \in Nat BY <1>0, <1>4
  <2> QED BY <1>0, <1>4, <2>1 DEF PageAt, Progress, Amount, Page, Fixed, Accesses
<1> QED BY <1>1, <1>2, <1>3, <1>4 DEF Accesses

\* The pages of a part that begins at draw k.
PagesOf(part, k) == [i \in 1 .. part.n |-> PageAt(part, k, i - 1)]

\* The pages of a part of a script, one for each of its accesses.
LEMMA PagesOfIs ==
    ASSUME NEW part \in Parts, part.kind \in Accesses, part.kind = "looping" => part.size > 0,
           NEW k \in Nat
    PROVE  /\ PagesOf(part, k) \in Seq(Page) /\ Len(PagesOf(part, k)) = part.n
           /\ \A t \in 0 .. part.n - 1 : PagesOf(part, k)[t + 1] = PageAt(part, k, t)
<1>0. part.n \in Nat BY DEF Parts
<1>1. \A i \in 1 .. part.n : i - 1 \in Nat BY <1>0
<1>2. \A i \in 1 .. part.n : PageAt(part, k, i - 1) \in Page BY <1>1, PageTypes
<1> DEFINE q == PagesOf(part, k)
<1>3. q \in [1 .. part.n -> Page] BY <1>2 DEF PagesOf
<1>4. q \in Seq(Page) /\ DOMAIN q = 1 .. part.n BY <1>0, <1>3, SeqDef
<1>5. Len(q) = part.n BY <1>0, <1>4, LenProperties
<1>6. ASSUME NEW t \in 0 .. part.n - 1 PROVE q[t + 1] = PageAt(part, k, t)
  <2>1. t + 1 \in 1 .. part.n /\ (t + 1) - 1 = t BY <1>0
  <2>2. q[t + 1] = PageAt(part, k, (t + 1) - 1) BY <2>1 DEF PagesOf
  <2> QED BY <2>1, <2>2
<1> QED BY <1>4, <1>5, <1>6

\* The first part of every script.
LEMMA CreatePlanned == Planned(<<Create>>, <<0, 0>>, <<0, 0>>, <<>>)
<1>1. Create \in Parts /\ Create.kind = "create" /\ Create.n = 1
  BY DEF Create, Part, Parts, Accesses
<1> DEFINE S == <<Create>>
           P == <<0, 0>>
<1>2. /\ S \in Seq(Parts) /\ Len(S) = 1 /\ S[1] = Create /\ P \in Seq(Nat) /\ Len(P) = 2
      /\ P[1] = 0 /\ P[2] = 0
  BY <1>1
<1>3. Amount(Create) = 0 /\ Progress(Create, Create.n) = 0 /\ "create" \notin Accesses
  BY <1>1 DEF Amount, Progress, Accesses
<1> HIDE DEF S, P
<1>4. Placed(S, P, P)
  BY <1>2, <1>3 DEF Placed
<1>5. Shaped(S) BY <1>1, <1>2 DEF Shaped
<1>6. <<>> \in Seq(Page) /\ Len(<<>>) = 0 BY EmptySeq
<1>7. \A d \in 1 .. Len(S) : Agrees(S[d], P[d], P[d], <<>>)
  BY <1>1, <1>2, <1>3 DEF Agrees
<1> QED BY <1>2, <1>4, <1>5, <1>6, <1>7 DEF Planned, S, P

\* What Append does.
LEMMA AppendIs ==
    ASSUME NEW E, NEW q \in Seq(E), NEW e \in E
    PROVE  /\ Append(q, e) \in Seq(E) /\ Len(Append(q, e)) = Len(q) + 1
           /\ \A i \in 1 .. Len(q) : Append(q, e)[i] = q[i]
           /\ Append(q, e)[Len(q) + 1] = e
BY AppendProperties

\* A script with one more part of accesses.
LEMMA PlanExtend ==
    ASSUME NEW S, NEW P, NEW D, NEW F, Planned(S, P, D, F),
           NEW part \in Parts, part.kind \in Accesses, part.kind = "looping" => part.size > 0
    PROVE  /\ D[Len(S) + 1] \in Nat /\ P[Len(S) + 1] \in Nat
           /\ Planned(Append(S, part), Append(P, P[Len(S) + 1] + part.n),
                      Append(D, D[Len(S) + 1] + Progress(part, part.n)),
                      F \o PagesOf(part, D[Len(S) + 1]))
<1> DEFINE n == Len(S)
           m == P[n + 1]
           k == D[n + 1]
           S2 == Append(S, part)
           P2 == Append(P, m + part.n)
           D2 == Append(D, k + Progress(part, part.n))
           G == PagesOf(part, k)
           F2 == F \o G
<1>1. /\ S \in Seq(Parts) /\ n \in Nat /\ n > 0 /\ P \in Seq(Nat) /\ D \in Seq(Nat)
      /\ Len(P) = n + 1 /\ Len(D) = n + 1 /\ F \in Seq(Page) /\ m = Len(F) /\ Len(F) \in Nat
  BY DEF Planned, Placed
<1>2. m \in Nat /\ k \in Nat
  BY <1>1, ElementOfSeq
<1>3. part.n \in Nat /\ part.n > 0 /\ Progress(part, part.n) \in Nat /\ Amount(part) = part.n
  <2>1. part.n \in Nat /\ part.n > 0 BY DEF Parts
  <2> QED BY <2>1, PageTypes
<1> HIDE DEF m, k
<1>4. /\ S2 \in Seq(Parts) /\ Len(S2) = n + 1 /\ S2[n + 1] = part
      /\ \A d \in 1 .. n : S2[d] = S[d]
  BY <1>1, AppendIs
<1>5. /\ P2 \in Seq(Nat) /\ Len(P2) = n + 2 /\ P2[n + 2] = m + part.n
      /\ \A d \in 1 .. n + 1 : P2[d] = P[d]
  <2>1. m + part.n \in Nat BY <1>2, <1>3
  <2>2. /\ P2 \in Seq(Nat) /\ Len(P2) = Len(P) + 1 /\ P2[Len(P) + 1] = m + part.n
        /\ \A d \in 1 .. Len(P) : P2[d] = P[d]
    BY <1>1, <2>1, AppendIs
  <2> HIDE DEF P2
  <2> QED BY <1>1, <2>2
<1>6. /\ D2 \in Seq(Nat) /\ Len(D2) = n + 2 /\ D2[n + 2] = k + Progress(part, part.n)
      /\ \A d \in 1 .. n + 1 : D2[d] = D[d]
  <2>1. k + Progress(part, part.n) \in Nat BY <1>2, <1>3
  <2>2. /\ D2 \in Seq(Nat) /\ Len(D2) = Len(D) + 1
        /\ D2[Len(D) + 1] = k + Progress(part, part.n)
        /\ \A d \in 1 .. Len(D) : D2[d] = D[d]
    BY <1>1, <2>1, AppendIs
  <2> HIDE DEF D2
  <2> QED BY <1>1, <2>2
<1>7. /\ G \in Seq(Page) /\ Len(G) = part.n
      /\ \A t \in 0 .. part.n - 1 : G[t + 1] = PageAt(part, k, t)
  BY <1>2, PagesOfIs
<1> HIDE DEF G
<1>8. /\ F2 \in Seq(Page) /\ Len(F2) = Len(F) + part.n
      /\ \A i \in 1 .. Len(F) : F2[i] = F[i]
      /\ \A t \in 0 .. part.n - 1 : F2[Len(F) + t + 1] = PageAt(part, k, t)
  <2>1. /\ F2 \in Seq(Page) /\ Len(F2) = Len(F) + Len(G)
        /\ \A i \in 1 .. Len(F) + Len(G) :
             F2[i] = IF i <= Len(F) THEN F[i] ELSE G[i - Len(F)]
    BY <1>1, <1>7, ConcatProperties
  <2>2. ASSUME NEW t \in 0 .. part.n - 1 PROVE F2[Len(F) + t + 1] = PageAt(part, k, t)
    <3>0. Len(F) \in Nat /\ Len(G) = part.n /\ part.n \in Nat BY <1>1, <1>3, <1>7
    <3>1. /\ Len(F) + t + 1 \in 1 .. Len(F) + Len(G) /\ ~(Len(F) + t + 1 <= Len(F))
          /\ (Len(F) + t + 1) - Len(F) = t + 1
      <4>1. PICK f, g : f = Len(F) /\ g = Len(G) OBVIOUS
      <4>2. f \in Nat /\ g \in Nat /\ t \in 0 .. g - 1 BY <3>0, <4>1
      <4>3. f + t + 1 \in 1 .. f + g /\ ~(f + t + 1 <= f) /\ (f + t + 1) - f = t + 1 BY <4>2
      <4> QED BY <4>1, <4>3
    <3> HIDE DEF F2
    <3> QED BY <1>7, <2>1, <3>1
  <2> HIDE DEF F2
  <2>3. \A i \in 1 .. Len(F) : i \in 1 .. Len(F) + Len(G) /\ i <= Len(F) BY <1>1, <1>3, <1>7
  <2>4. \A i \in 1 .. Len(F) : F2[i] = F[i] BY <2>1, <2>3
  <2> QED BY <1>7, <2>1, <2>2, <2>4
<1> HIDE DEF S2, P2, D2, F2
<1>9. Placed(S2, P2, D2)
  <2>1. ASSUME NEW d \in 1 .. n + 1
        PROVE  P2[d + 1] = P2[d] + Amount(S2[d]) /\ D2[d + 1] = D2[d] + Progress(S2[d], S2[d].n)
    <3>1. CASE d = n + 1
      <4>1. n + 1 \in 1 .. n + 1 /\ d + 1 = n + 2 BY <1>1, <3>1
      <4>2. P2[d] = m /\ D2[d] = k /\ S2[d] = part BY <1>4, <1>5, <1>6, <3>1, <4>1 DEF m, k
      <4> QED BY <1>2, <1>3, <1>5, <1>6, <4>1, <4>2
    <3>2. CASE d # n + 1
      <4>1. d \in 1 .. n /\ d + 1 \in 1 .. n + 1 /\ d \in 1 .. n + 1 BY <1>1, <3>2
      <4>2. P[d + 1] = P[d] + Amount(S[d]) /\ D[d + 1] = D[d] + Progress(S[d], S[d].n)
        BY <4>1 DEF Planned, Placed
      <4> QED BY <1>4, <1>5, <1>6, <4>1, <4>2
    <3> QED BY <3>1, <3>2
  <2>2. P2[1] = 0 /\ D2[1] = 0 BY <1>1, <1>5, <1>6 DEF Planned, Placed
  <2>3. /\ S2 \in Seq(Parts) /\ Len(S2) > 0 /\ P2 \in Seq(Nat) /\ D2 \in Seq(Nat)
        /\ Len(P2) = Len(S2) + 1 /\ Len(D2) = Len(S2) + 1
    BY <1>1, <1>4, <1>5, <1>6
  <2>4. 1 .. Len(S2) = 1 .. n + 1 BY <1>4
  <2> QED BY <2>1, <2>2, <2>3, <2>4 DEF Placed
<1>10. Shaped(S2)
  <2>1. Shaped(S) BY DEF Planned
  <2>2. \A d \in 1 .. Len(S2) : d = n + 1 \/ d \in 1 .. n BY <1>1, <1>4
  <2>3. part.kind # "create" /\ part.kind # "fork" BY DEF Accesses
  <2>4. S2[1].kind = "create"
    <3>1. 1 \in 1 .. n BY <1>1
    <3> QED BY <1>4, <2>1, <3>1 DEF Shaped
  <2>5. \A d \in 1 .. Len(S2) : /\ d > 1 => S2[d].kind # "create"
                                /\ S2[d].kind = "looping" => S2[d].size > 0
                                /\ S2[d].kind \notin Accesses => S2[d].n = 1
    BY <1>4, <2>1, <2>2, <2>3 DEF Shaped
  <2>6. \A d, e \in 1 .. Len(S2) : S2[d].kind = "fork" /\ S2[e].kind = "fork" => d = e
    BY <1>4, <2>1, <2>2, <2>3 DEF Shaped
  <2> QED BY <2>4, <2>5, <2>6 DEF Shaped
<1>11. \A d \in 1 .. Len(S2) : Agrees(S2[d], D2[d], P2[d], F2)
  <2>1. Agrees(part, k, m, F2)
    BY <1>1, <1>2, <1>3, <1>8 DEF Agrees
  <2>2. ASSUME NEW d \in 1 .. n PROVE Agrees(S2[d], D2[d], P2[d], F2)
    <3>0. d \in 1 .. n + 1 BY <1>1
    <3>1. S2[d] = S[d] /\ D2[d] = D[d] /\ P2[d] = P[d] BY <1>4, <1>5, <1>6, <3>0
    <3>2. Agrees(S[d], D[d], P[d], F) BY DEF Planned
    <3>3. P[d] \in Nat /\ S[d] \in Parts BY <1>1, <3>0, ElementOfSeq
    <3>4. S[d].n \in Nat BY <3>3 DEF Parts
    <3>5. Len(F) <= Len(F2) /\ Len(F2) \in Nat BY <1>1, <1>3, <1>8
    <3>6. SUFFICES ASSUME S[d].kind \in Accesses PROVE
            /\ P[d] + S[d].n <= Len(F2)
            /\ \A t \in 0 .. S[d].n - 1 : F2[P[d] + t + 1] = PageAt(S[d], D[d], t)
      BY <3>1 DEF Agrees
    <3>7. P[d] + S[d].n <= Len(F)
      BY <3>2, <3>6 DEF Agrees
    <3>8. ASSUME NEW t \in 0 .. S[d].n - 1 PROVE F2[P[d] + t + 1] = PageAt(S[d], D[d], t)
      <4>0. t \in Nat /\ t + 1 <= S[d].n BY <3>4
      <4>1. P[d] + t + 1 \in 1 .. Len(F)
        <5> DEFINE p == P[d]
                   a == S[d].n
                   f == Len(F)
        <5>1. p \in Nat /\ a \in Nat /\ f \in Nat /\ p + a <= f /\ t \in Nat /\ t + 1 <= a
          BY <1>1, <3>3, <3>4, <3>7, <4>0
        <5> HIDE DEF p, a, f
        <5>2. p + t + 1 \in 1 .. f BY <5>1
        <5> QED BY <5>2 DEF p, f
      <4>2. F[P[d] + t + 1] = PageAt(S[d], D[d], t) BY <3>2, <3>6 DEF Agrees
      <4> QED BY <1>8, <4>1, <4>2
    <3>9. P[d] + S[d].n <= Len(F2) BY <1>1, <3>3, <3>4, <3>5, <3>7
    <3> QED BY <3>8, <3>9
  <2>3. S2[n + 1] = part /\ D2[n + 1] = k /\ P2[n + 1] = m
    <3>1. n + 1 \in 1 .. n + 1 BY <1>1
    <3> QED BY <1>4, <1>5, <1>6, <3>1 DEF m, k
  <2>4. \A d \in 1 .. Len(S2) : d = n + 1 \/ d \in 1 .. n BY <1>1, <1>4
  <2> QED BY <2>1, <2>2, <2>3, <2>4
<1>12. P2[Len(S2) + 1] = Len(F2) BY <1>1, <1>4, <1>5, <1>8
<1> QED BY <1>2, <1>8, <1>9, <1>10, <1>11, <1>12 DEF Planned, S2, P2, D2, F2, G, m, k

\* A script with a fork.
LEMMA PlanFork ==
    ASSUME NEW S, NEW P, NEW D, NEW F, Planned(S, P, D, F),
           \A d \in 1 .. Len(S) : S[d].kind # "fork"
    PROVE  Planned(Append(S, Fork), Append(P, P[Len(S) + 1]), Append(D, D[Len(S) + 1]), F)
<1> DEFINE n == Len(S)
           m == P[n + 1]
           k == D[n + 1]
           S2 == Append(S, Fork)
           P2 == Append(P, m)
           D2 == Append(D, k)
<1>1. /\ S \in Seq(Parts) /\ n \in Nat /\ n > 0 /\ P \in Seq(Nat) /\ D \in Seq(Nat)
      /\ Len(P) = n + 1 /\ Len(D) = n + 1 /\ F \in Seq(Page) /\ m = Len(F) /\ Len(F) \in Nat
  BY DEF Planned, Placed
<1>2. m \in Nat /\ k \in Nat
  BY <1>1, ElementOfSeq
<1>3. Fork \in Parts /\ Fork.kind = "fork" /\ Fork.n = 1
  BY DEF Fork, Part, Parts, Accesses
<1>30. Amount(Fork) = 0 /\ Progress(Fork, Fork.n) = 0 /\ "fork" \notin Accesses
  BY <1>3 DEF Amount, Progress, Accesses
<1> HIDE DEF m, k
<1>4. /\ S2 \in Seq(Parts) /\ Len(S2) = n + 1 /\ S2[n + 1] = Fork
      /\ \A d \in 1 .. n : S2[d] = S[d]
  BY <1>1, <1>3, AppendIs
<1>5. /\ P2 \in Seq(Nat) /\ Len(P2) = n + 2 /\ P2[n + 2] = m
      /\ \A d \in 1 .. n + 1 : P2[d] = P[d]
  <2>2. /\ P2 \in Seq(Nat) /\ Len(P2) = Len(P) + 1 /\ P2[Len(P) + 1] = m
        /\ \A d \in 1 .. Len(P) : P2[d] = P[d]
    BY <1>1, <1>2, AppendIs
  <2> HIDE DEF P2
  <2> QED BY <1>1, <2>2
<1>6. /\ D2 \in Seq(Nat) /\ Len(D2) = n + 2 /\ D2[n + 2] = k
      /\ \A d \in 1 .. n + 1 : D2[d] = D[d]
  <2>2. /\ D2 \in Seq(Nat) /\ Len(D2) = Len(D) + 1 /\ D2[Len(D) + 1] = k
        /\ \A d \in 1 .. Len(D) : D2[d] = D[d]
    BY <1>1, <1>2, AppendIs
  <2> HIDE DEF D2
  <2> QED BY <1>1, <2>2
<1> HIDE DEF S2, P2, D2
<1>9. Placed(S2, P2, D2)
  <2>1. ASSUME NEW d \in 1 .. n + 1
        PROVE  P2[d + 1] = P2[d] + Amount(S2[d]) /\ D2[d + 1] = D2[d] + Progress(S2[d], S2[d].n)
    <3>1. CASE d = n + 1
      <4>1. n + 1 \in 1 .. n + 1 /\ d + 1 = n + 2 BY <1>1, <3>1
      <4>2. P2[d] = m /\ D2[d] = k /\ S2[d] = Fork BY <1>4, <1>5, <1>6, <3>1, <4>1 DEF m, k
      <4> QED BY <1>2, <1>30, <1>5, <1>6, <4>1, <4>2
    <3>2. CASE d # n + 1
      <4>1. d \in 1 .. n /\ d + 1 \in 1 .. n + 1 /\ d \in 1 .. n + 1 BY <1>1, <3>2
      <4>2. P[d + 1] = P[d] + Amount(S[d]) /\ D[d + 1] = D[d] + Progress(S[d], S[d].n)
        BY <4>1 DEF Planned, Placed
      <4> QED BY <1>4, <1>5, <1>6, <4>1, <4>2
    <3> QED BY <3>1, <3>2
  <2>2. P2[1] = 0 /\ D2[1] = 0 BY <1>1, <1>5, <1>6 DEF Planned, Placed
  <2>3. /\ S2 \in Seq(Parts) /\ Len(S2) > 0 /\ P2 \in Seq(Nat) /\ D2 \in Seq(Nat)
        /\ Len(P2) = Len(S2) + 1 /\ Len(D2) = Len(S2) + 1
    BY <1>1, <1>4, <1>5, <1>6
  <2>4. 1 .. Len(S2) = 1 .. n + 1 BY <1>4
  <2> QED BY <2>1, <2>2, <2>3, <2>4 DEF Placed
<1>10. Shaped(S2)
  <2>1. Shaped(S) BY DEF Planned
  <2>2. \A d \in 1 .. Len(S2) : d = n + 1 \/ d \in 1 .. n BY <1>1, <1>4
  <2>4. S2[1].kind = "create"
    <3>1. 1 \in 1 .. n BY <1>1
    <3> QED BY <1>4, <2>1, <3>1 DEF Shaped
  <2>5. \A d \in 1 .. Len(S2) : /\ d > 1 => S2[d].kind # "create"
                                /\ S2[d].kind = "looping" => S2[d].size > 0
                                /\ S2[d].kind \notin Accesses => S2[d].n = 1
    BY <1>3, <1>4, <2>1, <2>2 DEF Shaped
  <2>6. \A d, e \in 1 .. Len(S2) : S2[d].kind = "fork" /\ S2[e].kind = "fork" => d = e
    BY <1>4, <2>2
  <2> QED BY <2>4, <2>5, <2>6 DEF Shaped
<1>11. \A d \in 1 .. Len(S2) : Agrees(S2[d], D2[d], P2[d], F)
  <2>1. Agrees(Fork, k, m, F) BY <1>3, <1>30 DEF Agrees
  <2>2. ASSUME NEW d \in 1 .. n PROVE Agrees(S2[d], D2[d], P2[d], F)
    <3>0. d \in 1 .. n + 1 BY <1>1
    <3>1. S2[d] = S[d] /\ D2[d] = D[d] /\ P2[d] = P[d] BY <1>4, <1>5, <1>6, <3>0
    <3>2. Agrees(S[d], D[d], P[d], F) BY DEF Planned
    <3> QED BY <3>1, <3>2
  <2>3. S2[n + 1] = Fork /\ D2[n + 1] = k /\ P2[n + 1] = m
    <3>1. n + 1 \in 1 .. n + 1 BY <1>1
    <3> QED BY <1>4, <1>5, <1>6, <3>1 DEF m, k
  <2>4. \A d \in 1 .. Len(S2) : d = n + 1 \/ d \in 1 .. n BY <1>1, <1>4
  <2> QED BY <2>1, <2>2, <2>3, <2>4
<1>12. P2[Len(S2) + 1] = Len(F) BY <1>1, <1>4, <1>5
<1> QED BY <1>1, <1>9, <1>10, <1>11, <1>12 DEF Planned, S2, P2, D2, m, k

\* Tuples and Append.
LEMMA Longer ==
    ASSUME NEW E, NEW p \in Seq(E), NEW q \in Seq(E), Len(q) = Len(p) + 1,
           \A i \in 1 .. Len(p) : q[i] = p[i]
    PROVE  q = Append(p, q[Len(p) + 1])
<1>1. q[Len(p) + 1] \in E /\ Len(p) \in Nat BY ElementOfSeq
<1>2. PICK e \in E : e = q[Len(p) + 1] BY <1>1
<1>3. /\ Append(p, e) \in Seq(E) /\ Len(Append(p, e)) = Len(p) + 1
      /\ \A i \in 1 .. Len(p) + 1 : q[i] = Append(p, e)[i]
  BY <1>1, <1>2, AppendProperties
<1> QED BY <1>2, <1>3, SeqEqual

\* Tuples, one entry after the other: the scripts are built part by part.
LEMMA AppendTuple ==
    ASSUME NEW E, NEW a \in E, NEW b \in E, NEW c \in E, NEW d \in E, NEW e \in E, NEW f \in E,
           NEW g \in E, NEW h \in E
    PROVE  /\ <<a, b>> = Append(<<a>>, b)
           /\ <<a, b, c>> = Append(<<a, b>>, c)
           /\ <<a, b, c, d>> = Append(<<a, b, c>>, d)
           /\ <<a, b, c, d, e>> = Append(<<a, b, c, d>>, e)
           /\ <<a, b, c, d, e, f>> = Append(<<a, b, c, d, e>>, f)
           /\ <<a, b, c, d, e, f, g>> = Append(<<a, b, c, d, e, f>>, g)
           /\ <<a, b, c, d, e, f, g, h>> = Append(<<a, b, c, d, e, f, g>>, h)
<1>1. <<a, b>> = Append(<<a>>, b) BY Longer
<1>2. <<a, b, c>> = Append(<<a, b>>, c) BY Longer
<1>3. <<a, b, c, d>> = Append(<<a, b, c>>, d) BY Longer
<1>4. <<a, b, c, d, e>> = Append(<<a, b, c, d>>, e) BY Longer
<1>5. <<a, b, c, d, e, f>> = Append(<<a, b, c, d, e>>, f) BY Longer
<1>6. <<a, b, c, d, e, f, g>> = Append(<<a, b, c, d, e, f>>, g) BY Longer
<1>7. <<a, b, c, d, e, f, g, h>> = Append(<<a, b, c, d, e, f, g>>, h) BY Longer
<1> QED BY <1>1, <1>2, <1>3, <1>4, <1>5, <1>6, <1>7

\* The kinds of parts, and what is computed for them beforehand.
LEMMA PlanSequential ==
    ASSUME NEW S, NEW P, NEW D, NEW F, Planned(S, P, D, F), NEW n \in Nat \ {0}
    PROVE  Planned(Append(S, Sequential(n)), Append(P, P[Len(S) + 1] + n),
                   Append(D, D[Len(S) + 1] + 0), F \o PrecomputeSequential(n))
<1> DEFINE part == Sequential(n)
<1>1. part \in Parts /\ part.kind = "sequential" /\ part.kind \in Accesses /\ part.n = n
  BY DEF Sequential, Part, Parts, Accesses
<1> HIDE DEF part
<1>2. Progress(part, part.n) = 0 BY <1>1 DEF Progress
<1>3. \A k : PagesOf(part, k) = PrecomputeSequential(n)
  BY <1>1 DEF PagesOf, PrecomputeSequential, PageAt
<1>4. part.kind # "looping" BY <1>1
<1>5. Planned(Append(S, part), Append(P, P[Len(S) + 1] + part.n),
              Append(D, D[Len(S) + 1] + Progress(part, part.n)),
              F \o PagesOf(part, D[Len(S) + 1]))
  BY <1>1, <1>4, PlanExtend
<1> QED BY <1>1, <1>2, <1>3, <1>5 DEF part

\* A part of random accesses is added to a script that is on plan.
LEMMA PlanRandom ==
    ASSUME NEW S, NEW P, NEW D, NEW F, Planned(S, P, D, F), NEW n \in Nat \ {0},
           NEW max \in Nat, NEW who \in {"parent", "child"}
    PROVE  Planned(Append(S, Random(who, max, n)), Append(P, P[Len(S) + 1] + n),
                   Append(D, D[Len(S) + 1] + 2 * n),
                   F \o PrecomputeRandom(D[Len(S) + 1], max, n))
<1> DEFINE part == Random(who, max, n)
<1>1. /\ part \in Parts /\ part.kind = "random" /\ part.kind \in Accesses /\ part.n = n
      /\ part.max = max
  BY DEF Random, Part, Parts, Accesses
<1> HIDE DEF part
<1>2. Progress(part, part.n) = 2 * n BY <1>1 DEF Progress
<1>3. \A k : PagesOf(part, k) = PrecomputeRandom(k, max, n)
  BY <1>1 DEF PagesOf, PrecomputeRandom, PageAt
<1>4. part.kind # "looping" BY <1>1
<1>5. Planned(Append(S, part), Append(P, P[Len(S) + 1] + part.n),
              Append(D, D[Len(S) + 1] + Progress(part, part.n)),
              F \o PagesOf(part, D[Len(S) + 1]))
  BY <1>1, <1>4, PlanExtend
<1> QED BY <1>1, <1>2, <1>3, <1>5 DEF part

\* A part of local accesses is added.
LEMMA PlanLocality ==
    ASSUME NEW S, NEW P, NEW D, NEW F, Planned(S, P, D, F), NEW n \in Nat \ {0},
           NEW size \in Nat \ {0}
    PROVE  Planned(Append(S, Locality(size, n)), Append(P, P[Len(S) + 1] + n),
                   Append(D, D[Len(S) + 1] + (size + 3 * n)),
                   F \o PrecomputeLocality(D[Len(S) + 1], size, n))
<1> DEFINE part == Locality(size, n)
<1>1. /\ part \in Parts /\ part.kind = "locality" /\ part.kind \in Accesses /\ part.n = n
      /\ part.size = size
  BY DEF Locality, Part, Parts, Accesses
<1> HIDE DEF part
<1>2. Progress(part, part.n) = size + 3 * n BY <1>1 DEF Progress
<1>3. \A k : PagesOf(part, k) = PrecomputeLocality(k, size, n)
  BY <1>1 DEF PagesOf, PrecomputeLocality, PageAt
<1>4. part.kind # "looping" BY <1>1
<1>5. Planned(Append(S, part), Append(P, P[Len(S) + 1] + part.n),
              Append(D, D[Len(S) + 1] + Progress(part, part.n)),
              F \o PagesOf(part, D[Len(S) + 1]))
  BY <1>1, <1>4, PlanExtend
<1> QED BY <1>1, <1>2, <1>3, <1>5 DEF part

\* A part of looping accesses is added.
LEMMA PlanLooping ==
    ASSUME NEW S, NEW P, NEW D, NEW F, Planned(S, P, D, F), NEW iterations \in Nat \ {0},
           NEW size \in Nat \ {0}
    PROVE  Planned(Append(S, Looping(size, iterations)),
                   Append(P, P[Len(S) + 1] + size * iterations),
                   Append(D, D[Len(S) + 1] + size * iterations),
                   F \o PrecomputeLooping(size, iterations))
<1> DEFINE part == Looping(size, iterations)
           n == size * iterations
<1>0. n \in Nat \ {0}
  OBVIOUS
<1>1. /\ part \in Parts /\ part.kind = "looping" /\ part.kind \in Accesses /\ part.n = n
      /\ part.size = size
  BY <1>0 DEF Looping, Part, Parts, Accesses
<1> HIDE DEF part
<1>2. Progress(part, part.n) = n BY <1>1 DEF Progress
<1>3. \A k : PagesOf(part, k) = PrecomputeLooping(size, iterations)
  BY <1>1 DEF PagesOf, PrecomputeLooping, PageAt
<1>4. part.size > 0 BY <1>1
<1>5. Planned(Append(S, part), Append(P, P[Len(S) + 1] + part.n),
              Append(D, D[Len(S) + 1] + Progress(part, part.n)),
              F \o PagesOf(part, D[Len(S) + 1]))
  BY <1>1, <1>4, PlanExtend
<1> QED BY <1>1, <1>2, <1>3, <1>5 DEF part

\* Each script makes the accesses that are predicted for it.
OnPlan(sc) == Planned(Script(sc), From(sc), Draws(sc), PrecomputeAccesses(sc))

\* A script that starts with sequential accesses, which draw nothing.
LEMMA SequentialFirst ==
    ASSUME NEW n \in Nat \ {0}
    PROVE  Planned(<<Create, Sequential(n)>>, <<0, 0, n>>, <<0, 0, 0>>, PrecomputeSequential(n))
<1>2. PrecomputeSequential(n) \in Seq(Page)
  BY DEF PrecomputeSequential, Page, Fixed
<1>3. Create \in Parts /\ Sequential(n) \in Parts
  BY DEF Create, Sequential, Part, Parts, Accesses
<1>4. Planned(Append(<<Create>>, Sequential(n)), Append(<<0, 0>>, n), Append(<<0, 0>>, 0),
              <<>> \o PrecomputeSequential(n))
  <2>1. <<0, 0>>[Len(<<Create>>) + 1] + n = n /\ <<0, 0>>[Len(<<Create>>) + 1] + 0 = 0 OBVIOUS
  <2> QED BY <2>1, CreatePlanned, PlanSequential
<1>5. /\ <<Create, Sequential(n)>> = Append(<<Create>>, Sequential(n))
      /\ <<0, 0, n>> = Append(<<0, 0>>, n) /\ <<0, 0, 0>> = Append(<<0, 0>>, 0)
  BY <1>3, AppendTuple
<1>6. <<>> \o PrecomputeSequential(n) = PrecomputeSequential(n) BY <1>2, ConcatEmptySeq
<1> QED BY <1>4, <1>5, <1>6

\* The script and the prediction of the sequential scenario agree.
LEMMA SequentialPlanned == OnPlan("sequential")
<1> DEFINE n == Cut(100)
<1>0. n \in Nat \ {0} BY CutIs
<1>1. /\ Script("sequential") = <<Create, Sequential(n)>> /\ From("sequential") = <<0, 0, n>>
      /\ Draws("sequential") = <<0, 0, 0>>
      /\ PrecomputeAccesses("sequential") = PrecomputeSequential(n)
  BY DEF Script, From, Draws, PrecomputeAccesses
<1> HIDE DEF n
<1> QED BY <1>0, <1>1, SequentialFirst DEF OnPlan

\* A script that starts with a part of random accesses.
LEMMA RandomFirst ==
    ASSUME NEW n \in Nat \ {0}, NEW max \in Nat
    PROVE  Planned(Append(<<Create>>, Random("parent", max, n)), Append(<<0, 0>>, n),
                   Append(<<0, 0>>, 2 * n), <<>> \o PrecomputeRandom(0, max, n))
<1>1. PICK S, Z : S = <<Create>> /\ Z = <<0, 0>> OBVIOUS
<1>2. Planned(S, Z, Z, <<>>) BY <1>1, CreatePlanned, Zenon
<1>3. PICK z : z = Z[Len(S) + 1] OBVIOUS
<1>4. z = 0 /\ z + n = n /\ z + 2 * n = 2 * n BY <1>1, <1>3
<1>5. Planned(Append(S, Random("parent", max, n)), Append(Z, Z[Len(S) + 1] + n),
              Append(Z, Z[Len(S) + 1] + 2 * n), <<>> \o PrecomputeRandom(Z[Len(S) + 1], max, n))
  BY <1>2, PlanRandom
<1> QED BY <1>1, <1>3, <1>4, <1>5, Zenon

\* ... of the random one ...
LEMMA RandomPlanned == OnPlan("random")
<1> DEFINE n == Cut(100)
<1>0. n \in Nat \ {0} BY CutIs
<1>1. /\ Script("random") = <<Create, Random("parent", 200, n)>> /\ From("random") = <<0, 0, n>>
      /\ Draws("random") = <<0, 0, 2 * n>>
      /\ PrecomputeAccesses("random") = PrecomputeRandom(0, 200, n)
  BY DEF Script, From, Draws, PrecomputeAccesses
<1> HIDE DEF n
<1>2. PrecomputeRandom(0, 200, n) \in Seq(Page)
  BY <1>0 DEF PrecomputeRandom, Drawn, Page
<1>3. Create \in Parts /\ Random("parent", 200, n) \in Parts /\ n \in Nat /\ 2 * n \in Nat
  BY <1>0 DEF Create, Random, Part, Parts, Accesses
<1>4. Planned(Append(<<Create>>, Random("parent", 200, n)), Append(<<0, 0>>, n), Append(<<0, 0>>, 2 * n),
              <<>> \o PrecomputeRandom(0, 200, n))
  <2>1. n \in Nat \ {0} /\ 200 \in Nat BY <1>0
  <2> QED BY <2>1, RandomFirst
<1>5. /\ <<Create, Random("parent", 200, n)>> = Append(<<Create>>, Random("parent", 200, n))
      /\ <<0, 0, n>> = Append(<<0, 0>>, n) /\ <<0, 0, 2 * n>> = Append(<<0, 0>>, 2 * n)
  BY <1>3, AppendTuple
<1>6. <<>> \o PrecomputeRandom(0, 200, n) = PrecomputeRandom(0, 200, n) BY <1>2, ConcatEmptySeq
<1> QED BY <1>1, <1>4, <1>5, <1>6 DEF OnPlan

\* ... of the one with locality ...
LEMMA LocalityPlanned == OnPlan("locality")
<1> DEFINE n == Cut(100)
           size == Cut(20)
<1>0. n \in Nat \ {0} /\ size \in Nat \ {0} BY CutIs
<1>1. /\ Script("locality") = <<Create, Locality(size, n)>> /\ From("locality") = <<0, 0, n>>
      /\ Draws("locality") = <<0, 0, size + 3 * n>>
      /\ PrecomputeAccesses("locality") = PrecomputeLocality(0, size, n)
  BY DEF Script, From, Draws, PrecomputeAccesses
<1> HIDE DEF n, size
<1>2. PrecomputeLocality(0, size, n) \in Seq(Page)
  BY <1>0 DEF PrecomputeLocality, Local, Page
<1>3. Create \in Parts /\ Locality(size, n) \in Parts /\ n \in Nat /\ size + 3 * n \in Nat
  BY <1>0 DEF Create, Locality, Part, Parts, Accesses
<1>4. Planned(Append(<<Create>>, Locality(size, n)), Append(<<0, 0>>, n), Append(<<0, 0>>, size + 3 * n),
              <<>> \o PrecomputeLocality(0, size, n))
  <2>1. /\ <<0, 0>>[Len(<<Create>>) + 1] = 0
        /\ 0 + n = n /\ 0 + (size + 3 * n) = size + 3 * n
    BY <1>3
  <2> QED BY <1>0, <2>1, CreatePlanned, PlanLocality
<1>5. /\ <<Create, Locality(size, n)>> = Append(<<Create>>, Locality(size, n))
      /\ <<0, 0, n>> = Append(<<0, 0>>, n) /\ <<0, 0, size + 3 * n>> = Append(<<0, 0>>, size + 3 * n)
  BY <1>3, AppendTuple
<1>6. <<>> \o PrecomputeLocality(0, size, n) = PrecomputeLocality(0, size, n) BY <1>2, ConcatEmptySeq
<1> QED BY <1>1, <1>4, <1>5, <1>6 DEF OnPlan

\* ... of the looping one ...
LEMMA LoopingPlanned == OnPlan("looping")
<1> DEFINE size == Cut(15)
           times == Cut(5)
<1>0. size \in Nat \ {0} /\ times \in Nat \ {0} BY CutIs
<1>1. /\ Script("looping") = <<Create, Looping(size, times)>> /\ From("looping") = <<0, 0, size * times>>
      /\ Draws("looping") = <<0, 0, size * times>>
      /\ PrecomputeAccesses("looping") = PrecomputeLooping(size, times)
  BY DEF Script, From, Draws, PrecomputeAccesses
<1> HIDE DEF size, times
<1>2. PrecomputeLooping(size, times) \in Seq(Page)
  BY <1>0 DEF PrecomputeLooping, Fixed, Page
<1>3. Create \in Parts /\ Looping(size, times) \in Parts /\ size * times \in Nat /\ size * times \in Nat
  BY <1>0 DEF Create, Looping, Part, Parts, Accesses
<1>4. Planned(Append(<<Create>>, Looping(size, times)), Append(<<0, 0>>, size * times), Append(<<0, 0>>, size * times),
              <<>> \o PrecomputeLooping(size, times))
  <2>1. /\ <<0, 0>>[Len(<<Create>>) + 1] = 0
        /\ 0 + size * times = size * times /\ 0 + (size * times) = size * times
    BY <1>3
  <2> QED BY <1>0, <2>1, CreatePlanned, PlanLooping
<1>5. /\ <<Create, Looping(size, times)>> = Append(<<Create>>, Looping(size, times))
      /\ <<0, 0, size * times>> = Append(<<0, 0>>, size * times) /\ <<0, 0, size * times>> = Append(<<0, 0>>, size * times)
  BY <1>3, AppendTuple
<1>6. <<>> \o PrecomputeLooping(size, times) = PrecomputeLooping(size, times) BY <1>2, ConcatEmptySeq
<1> QED BY <1>1, <1>4, <1>5, <1>6 DEF OnPlan

\* ... of thrashing ...
LEMMA ThrashingPlanned == OnPlan("thrashing")
<1> DEFINE n == Cut(200)
           max == 1000
<1>0. n \in Nat \ {0} /\ max \in Nat BY CutIs
<1>1. /\ Script("thrashing") = <<Create, Random("parent", max, n)>> /\ From("thrashing") = <<0, 0, n>>
      /\ Draws("thrashing") = <<0, 0, 2 * n>>
      /\ PrecomputeAccesses("thrashing") = PrecomputeRandom(0, max, n)
  BY DEF Script, From, Draws, PrecomputeAccesses
<1> HIDE DEF n, max
<1>2. PrecomputeRandom(0, max, n) \in Seq(Page)
  BY <1>0 DEF PrecomputeRandom, Drawn, Page
<1>3. Create \in Parts /\ Random("parent", max, n) \in Parts /\ n \in Nat /\ 2 * n \in Nat
  BY <1>0 DEF Create, Random, Part, Parts, Accesses
<1>4. Planned(Append(<<Create>>, Random("parent", max, n)), Append(<<0, 0>>, n), Append(<<0, 0>>, 2 * n),
              <<>> \o PrecomputeRandom(0, max, n))
  <2>1. n \in Nat \ {0} /\ max \in Nat BY <1>0
  <2> QED BY <2>1, RandomFirst
<1>5. /\ <<Create, Random("parent", max, n)>> = Append(<<Create>>, Random("parent", max, n))
      /\ <<0, 0, n>> = Append(<<0, 0>>, n) /\ <<0, 0, 2 * n>> = Append(<<0, 0>>, 2 * n)
  BY <1>3, AppendTuple
<1>6. <<>> \o PrecomputeRandom(0, max, n) = PrecomputeRandom(0, max, n) BY <1>2, ConcatEmptySeq
<1> QED BY <1>1, <1>4, <1>5, <1>6 DEF OnPlan

\* ... of the mixed workload ...
LEMMA MixedPlanned == OnPlan("mixed")
<1> DEFINE a == Cut(20)
           b == Cut(30)
           c == Cut(10)
           A == Sequential(a)
           B == Random("parent", 100, b)
           C == Locality(c, b)
           F == PrecomputeSequential(a)
           G == PrecomputeRandom(0, 100, b)
           H == PrecomputeLocality(2 * b, c, b)
<1>0. a \in Nat \ {0} /\ b \in Nat \ {0} /\ c \in Nat \ {0} BY CutIs
<1>1. /\ Script("mixed") = <<Create, A, B, C>> /\ From("mixed") = <<0, 0, a, a + b, a + b + b>>
      /\ Draws("mixed") = <<0, 0, 0, 2 * b, 2 * b + c + 3 * b>>
      /\ PrecomputeAccesses("mixed") = (F \o G) \o H
  BY DEF Script, From, Draws, PrecomputeAccesses, PrecomputeMixed
<1> HIDE DEF a, b, c
<1>2. Create \in Parts /\ A \in Parts /\ B \in Parts /\ C \in Parts
  BY <1>0 DEF Create, Sequential, Random, Locality, Part, Parts, Accesses
<1>3. Planned(<<Create, A>>, <<0, 0, a>>, <<0, 0, 0>>, F)
  BY <1>0, SequentialFirst
<1>4. Planned(<<Create, A, B>>, <<0, 0, a, a + b>>, <<0, 0, 0, 2 * b>>, F \o G)
  <2>1. /\ <<0, 0, a>>[Len(<<Create, A>>) + 1] = a /\ <<0, 0, 0>>[Len(<<Create, A>>) + 1] = 0
        /\ 0 + 2 * b = 2 * b
    BY <1>0
  <2> HIDE DEF A, F
  <2>2. Planned(Append(<<Create, A>>, B), Append(<<0, 0, a>>, a + b), Append(<<0, 0, 0>>, 2 * b),
                F \o G)
    BY <1>0, <1>3, <2>1, PlanRandom
  <2> HIDE DEF B, G
  <2>3. a + b \in Nat /\ 2 * b \in Nat BY <1>0
  <2>4. /\ <<Create, A, B>> = Append(<<Create, A>>, B)
        /\ <<0, 0, a, a + b>> = Append(<<0, 0, a>>, a + b)
        /\ <<0, 0, 0, 2 * b>> = Append(<<0, 0, 0>>, 2 * b)
    BY <1>0, <1>2, <2>3, AppendTuple
  <2> QED BY <2>2, <2>4
<1>5. Planned(<<Create, A, B, C>>, <<0, 0, a, a + b, a + b + b>>,
              <<0, 0, 0, 2 * b, 2 * b + c + 3 * b>>, (F \o G) \o H)
  <2> HIDE DEF A, B, F, G
  <2>1. /\ <<0, 0, a, a + b>>[Len(<<Create, A, B>>) + 1] = a + b
        /\ <<0, 0, 0, 2 * b>>[Len(<<Create, A, B>>) + 1] = 2 * b
        /\ 2 * b + (c + 3 * b) = 2 * b + c + 3 * b
    BY <1>0
  <2>2. Planned(Append(<<Create, A, B>>, C), Append(<<0, 0, a, a + b>>, a + b + b),
                Append(<<0, 0, 0, 2 * b>>, 2 * b + c + 3 * b), (F \o G) \o H)
    BY <1>0, <1>4, <2>1, PlanLocality
  <2> HIDE DEF C, H
  <2>3. a + b \in Nat /\ 2 * b \in Nat /\ a + b + b \in Nat /\ 2 * b + c + 3 * b \in Nat BY <1>0
  <2>4. /\ <<Create, A, B, C>> = Append(<<Create, A, B>>, C)
        /\ <<0, 0, a, a + b, a + b + b>> = Append(<<0, 0, a, a + b>>, a + b + b)
        /\ <<0, 0, 0, 2 * b, 2 * b + c + 3 * b>> = Append(<<0, 0, 0, 2 * b>>, 2 * b + c + 3 * b)
    BY <1>0, <1>2, <2>3, AppendTuple
  <2> QED BY <2>2, <2>4
<1> HIDE DEF A, B, C, F, G, H
<1> QED BY <1>1, <1>5 DEF OnPlan

\* ... and of fork_cow, with its child.
LEMMA ForkPlanned == OnPlan("fork_cow")
<1> DEFINE a == Cut(30)
           n == Cut(10)
           A == Sequential(a)
           B == Random("parent", 30, n)
           C == Random("child", 30, n)
           F == PrecomputeSequential(a)
           G == PrecomputeRandom(0, 30, n)
           H == PrecomputeRandom(2 * n, 30, n)
           I == PrecomputeRandom(4 * n, 30, n)
           J == PrecomputeRandom(6 * n, 30, n)
<1>0. a \in Nat \ {0} /\ n \in Nat \ {0} BY CutIs
<1>1. /\ Script("fork_cow") = <<Create, A, Fork, B, C, C, B>>
      /\ From("fork_cow") = <<0, 0, a, a, a + n, a + 2 * n, a + 3 * n, a + 4 * n>>
      /\ Draws("fork_cow") = <<0, 0, 0, 0, 2 * n, 4 * n, 6 * n, 8 * n>>
      /\ PrecomputeAccesses("fork_cow") = (((F \o G) \o H) \o I) \o J
  BY DEF Script, From, Draws, PrecomputeAccesses, PrecomputeForkCoW
<1> HIDE DEF a, n
<1>2. /\ Create \in Parts /\ A \in Parts /\ B \in Parts /\ C \in Parts /\ Fork \in Parts
      /\ Create.kind = "create" /\ A.kind = "sequential"
  BY <1>0 DEF Create, Sequential, Random, Fork, Part, Parts, Accesses
<1>3. Planned(<<Create, A>>, <<0, 0, a>>, <<0, 0, 0>>, F)
  BY <1>0, SequentialFirst
<1>30. \A x \in {2 * n, 4 * n, 6 * n, 8 * n, a + n, a + 2 * n, a + 3 * n, a + 4 * n} : x \in Nat
  BY <1>0
<1>4. Planned(<<Create, A, Fork>>, <<0, 0, a, a>>, <<0, 0, 0, 0>>, F)
  <2> HIDE DEF A, F
  <2>1. /\ <<0, 0, a>>[Len(<<Create, A>>) + 1] = a /\ <<0, 0, 0>>[Len(<<Create, A>>) + 1] = 0
    BY <1>0
  <2>2. \A d \in 1 .. Len(<<Create, A>>) : <<Create, A>>[d].kind # "fork"
    BY <1>2
  <2>3. Planned(Append(<<Create, A>>, Fork), Append(<<0, 0, a>>, a), Append(<<0, 0, 0>>, 0), F)
    BY <1>3, <2>1, <2>2, PlanFork
  <2>4. /\ <<Create, A, Fork>> = Append(<<Create, A>>, Fork)
        /\ <<0, 0, a, a>> = Append(<<0, 0, a>>, a) /\ <<0, 0, 0, 0>> = Append(<<0, 0, 0>>, 0)
    BY <1>0, <1>2, AppendTuple
  <2> QED BY <2>3, <2>4
<1>5. Planned(<<Create, A, Fork, B>>, <<0, 0, a, a, a + n>>,
              <<0, 0, 0, 0, 2 * n>>, F \o G)
  <2> DEFINE S == <<Create, A, Fork>>
             P == <<0, 0, a, a>>
             D == <<0, 0, 0, 0>>
  <2>1. P[Len(S) + 1] = a /\ D[Len(S) + 1] = 0 OBVIOUS
  <2>2. a + n = a + n /\ 0 + 2 * n = 2 * n BY <1>0
  <2> HIDE DEF S, P, D
  <2>3. Planned(Append(S, B), Append(P, P[Len(S) + 1] + n), Append(D, D[Len(S) + 1] + 2 * n),
                (F) \o PrecomputeRandom(D[Len(S) + 1], 30, n))
    BY <1>0, <1>4, PlanRandom DEF S, P, D
  <2>4. Planned(Append(S, B), Append(P, a + n), Append(D, 2 * n), F \o G)
    BY <2>1, <2>2, <2>3
  <2>5. /\ <<Create, A, Fork, B>> = Append(S, B) /\ <<0, 0, a, a, a + n>> = Append(P, a + n)
        /\ <<0, 0, 0, 0, 2 * n>> = Append(D, 2 * n)
    <3> HIDE DEF A, B, C, F, G, H, I, J
    <3> QED BY <1>0, <1>2, <1>30, AppendTuple DEF S, P, D
  <2> QED BY <2>4, <2>5
<1>6. Planned(<<Create, A, Fork, B, C>>, <<0, 0, a, a, a + n, a + 2 * n>>,
              <<0, 0, 0, 0, 2 * n, 4 * n>>, (F \o G) \o H)
  <2> DEFINE S == <<Create, A, Fork, B>>
             P == <<0, 0, a, a, a + n>>
             D == <<0, 0, 0, 0, 2 * n>>
  <2>1. P[Len(S) + 1] = a + n /\ D[Len(S) + 1] = 2 * n OBVIOUS
  <2>2. a + n + n = a + 2 * n /\ 2 * n + 2 * n = 4 * n BY <1>0
  <2> HIDE DEF S, P, D
  <2>3. Planned(Append(S, C), Append(P, P[Len(S) + 1] + n), Append(D, D[Len(S) + 1] + 2 * n),
                (F \o G) \o PrecomputeRandom(D[Len(S) + 1], 30, n))
    BY <1>0, <1>5, PlanRandom DEF S, P, D
  <2>4. Planned(Append(S, C), Append(P, a + 2 * n), Append(D, 4 * n), (F \o G) \o H)
    BY <2>1, <2>2, <2>3
  <2>5. /\ <<Create, A, Fork, B, C>> = Append(S, C) /\ <<0, 0, a, a, a + n, a + 2 * n>> = Append(P, a + 2 * n)
        /\ <<0, 0, 0, 0, 2 * n, 4 * n>> = Append(D, 4 * n)
    <3> HIDE DEF A, B, C, F, G, H, I, J
    <3> QED BY <1>0, <1>2, <1>30, AppendTuple DEF S, P, D
  <2> QED BY <2>4, <2>5
<1>7. Planned(<<Create, A, Fork, B, C, C>>, <<0, 0, a, a, a + n, a + 2 * n, a + 3 * n>>,
              <<0, 0, 0, 0, 2 * n, 4 * n, 6 * n>>, ((F \o G) \o H) \o I)
  <2> DEFINE S == <<Create, A, Fork, B, C>>
             P == <<0, 0, a, a, a + n, a + 2 * n>>
             D == <<0, 0, 0, 0, 2 * n, 4 * n>>
  <2>1. P[Len(S) + 1] = a + 2 * n /\ D[Len(S) + 1] = 4 * n OBVIOUS
  <2>2. a + 2 * n + n = a + 3 * n /\ 4 * n + 2 * n = 6 * n BY <1>0
  <2> HIDE DEF S, P, D
  <2>3. Planned(Append(S, C), Append(P, P[Len(S) + 1] + n), Append(D, D[Len(S) + 1] + 2 * n),
                ((F \o G) \o H) \o PrecomputeRandom(D[Len(S) + 1], 30, n))
    BY <1>0, <1>6, PlanRandom DEF S, P, D
  <2>4. Planned(Append(S, C), Append(P, a + 3 * n), Append(D, 6 * n), ((F \o G) \o H) \o I)
    BY <2>1, <2>2, <2>3
  <2>5. /\ <<Create, A, Fork, B, C, C>> = Append(S, C) /\ <<0, 0, a, a, a + n, a + 2 * n, a + 3 * n>> = Append(P, a + 3 * n)
        /\ <<0, 0, 0, 0, 2 * n, 4 * n, 6 * n>> = Append(D, 6 * n)
    <3> HIDE DEF A, B, C, F, G, H, I, J
    <3> QED BY <1>0, <1>2, <1>30, AppendTuple DEF S, P, D
  <2> QED BY <2>4, <2>5
<1>8. Planned(<<Create, A, Fork, B, C, C, B>>, <<0, 0, a, a, a + n, a + 2 * n, a + 3 * n, a + 4 * n>>,
              <<0, 0, 0, 0, 2 * n, 4 * n, 6 * n, 8 * n>>, (((F \o G) \o H) \o I) \o J)
  <2> DEFINE S == <<Create, A, Fork, B, C, C>>
             P == <<0, 0, a, a, a + n, a + 2 * n, a + 3 * n>>
             D == <<0, 0, 0, 0, 2 * n, 4 * n, 6 * n>>
  <2>1. P[Len(S) + 1] = a + 3 * n /\ D[Len(S) + 1] = 6 * n OBVIOUS
  <2>2. a + 3 * n + n = a + 4 * n /\ 6 * n + 2 * n = 8 * n BY <1>0
  <2> HIDE DEF S, P, D
  <2>3. Planned(Append(S, B), Append(P, P[Len(S) + 1] + n), Append(D, D[Len(S) + 1] + 2 * n),
                (((F \o G) \o H) \o I) \o PrecomputeRandom(D[Len(S) + 1], 30, n))
    BY <1>0, <1>7, PlanRandom DEF S, P, D
  <2>4. Planned(Append(S, B), Append(P, a + 4 * n), Append(D, 8 * n), (((F \o G) \o H) \o I) \o J)
    BY <2>1, <2>2, <2>3
  <2>5. /\ <<Create, A, Fork, B, C, C, B>> = Append(S, B) /\ <<0, 0, a, a, a + n, a + 2 * n, a + 3 * n, a + 4 * n>> = Append(P, a + 4 * n)
        /\ <<0, 0, 0, 0, 2 * n, 4 * n, 6 * n, 8 * n>> = Append(D, 8 * n)
    <3> HIDE DEF A, B, C, F, G, H, I, J
    <3> QED BY <1>0, <1>2, <1>30, AppendTuple DEF S, P, D
  <2> QED BY <2>4, <2>5
<1> HIDE DEF A, B, C, F, G, H, I, J
<1> QED BY <1>1, <1>8 DEF OnPlan

\* Script and prediction agree in every scenario.
LEMMA ScriptsPlanned == ASSUME NEW sc \in Names PROVE OnPlan(sc)
BY SequentialPlanned, RandomPlanned, LocalityPlanned, LoopingPlanned, MixedPlanned, ForkPlanned,
   ThrashingPlanned DEF Names

\* The accesses of these two scenarios do not depend on the generator.
LEMMA Undrawing ==
    ASSUME NEW sc \in {"sequential", "looping"}, NEW d \in 1 .. Len(Script(sc)),
           Script(sc)[d].kind \in Accesses
    PROVE  Script(sc)[d].kind \in {"sequential", "looping"}
<1>1. CASE sc = "sequential"
  <2>1. Script(sc) = <<Create, Sequential(Cut(100))>> BY <1>1 DEF Script
  <2>2. d = 1 \/ d = 2 BY <2>1
  <2> QED BY <2>1, <2>2 DEF Create, Sequential, Part, Accesses
<1>2. CASE sc = "looping"
  <2>1. Script(sc) = <<Create, Looping(Cut(15), Cut(5))>> BY <1>2 DEF Script
  <2>2. d = 1 \/ d = 2 BY <2>1
  <2> QED BY <2>1, <2>2 DEF Create, Looping, Part, Accesses
<1> QED BY <1>1, <1>2

-----------------------------------------------------------------------------
(* The part of its script that a run is at *)

PartOf(j) == Script(j.scenario)[Index(j)]
Start(j) == From(j.scenario)[Index(j)]
Seed(j) == Draws(j.scenario)[Index(j)]

\* Where a run is in its script: the part at its head, and where this part starts in the
\* prediction and among the draws.
LEMMA AtPart ==
    ASSUME NEW j \in Job, j.scenario \in Names, OnScript(j), j.script # <<>>
    PROVE  /\ Index(j) \in 1 .. Len(Script(j.scenario)) /\ Head(j.script) = PartOf(j)
           /\ PartOf(j) \in Parts /\ Start(j) \in Nat /\ Seed(j) \in Nat
           /\ From(j.scenario)[Index(j) + 1] = Start(j) + Amount(PartOf(j))
           /\ Draws(j.scenario)[Index(j) + 1] = Seed(j) + Progress(PartOf(j), PartOf(j).n)
           /\ Agrees(PartOf(j), Seed(j), Start(j), PrecomputeAccesses(j.scenario))
           /\ j.i < PartOf(j).n /\ j.made = Start(j) + j.i
<1> DEFINE S == Script(j.scenario)
           P == From(j.scenario)
           D == Draws(j.scenario)
           F == PrecomputeAccesses(j.scenario)
           d == Index(j)
           q == j.script
<1>1. Planned(S, P, D, F) BY ScriptsPlanned DEF OnPlan
<1>2. q \in Seq(Parts) BY DEF Job
<1>3. /\ Len(q) <= Len(S) /\ \A i \in 1 .. Len(q) : q[i] = S[d + i - 1]
      /\ j.i < Head(q).n /\ j.made = P[d] + j.i
  BY DEF OnScript
<1>4. d = Len(S) + 1 - Len(q) BY DEF Index
<1> HIDE DEF S, P, D, F, d, q
<1>5. S \in Seq(Parts) /\ P \in Seq(Nat) /\ D \in Seq(Nat) /\ Len(P) = Len(S) + 1
      /\ Len(D) = Len(S) + 1 /\ Len(S) \in Nat
  BY <1>1 DEF Planned, Placed
<1>6. Len(q) \in Nat /\ Len(q) > 0 /\ Head(q) = q[1] BY <1>2 DEF q
<1>7. d \in 1 .. Len(S) /\ d \in 1 .. Len(S) + 1 /\ d + 1 - 1 = d BY <1>3, <1>4, <1>5, <1>6
<1>8. Head(q) = S[d] BY <1>3, <1>6, <1>7
<1>9. S[d] \in Parts /\ P[d] \in Nat /\ D[d] \in Nat BY <1>5, <1>7, ElementOfSeq
<1>10. P[d + 1] = P[d] + Amount(S[d]) /\ D[d + 1] = D[d] + Progress(S[d], S[d].n)
  BY <1>1, <1>7 DEF Planned, Placed
<1>11. Agrees(S[d], D[d], P[d], F) BY <1>1, <1>7 DEF Planned
<1> QED BY <1>3, <1>7, <1>8, <1>9, <1>10, <1>11 DEF S, P, D, F, d, q, PartOf, Start, Seed

\* Going on to the next part.
LEMMA OnwardOnScript ==
    ASSUME NEW j \in Job, j.scenario \in Names, OnScript(j), j.script # <<>>,
           NEW j2 \in Job, j2.scenario = j.scenario, j2.script = Tail(j.script), j2.i = 0,
           j2.made = Start(j) + Amount(PartOf(j))
    PROVE  OnScript(j2) /\ Index(j2) = Index(j) + 1
<1> DEFINE S == Script(j.scenario)
           d == Index(j)
           q == j.script
           q2 == j2.script
<1>1. q \in Seq(Parts) /\ q2 \in Seq(Parts) BY DEF Job
<1>2. Len(q) <= Len(S) /\ \A i \in 1 .. Len(q) : q[i] = S[d + i - 1]
  BY DEF OnScript
<1>3. d = Len(S) + 1 - Len(q) /\ Index(j2) = Len(S) + 1 - Len(q2) BY DEF Index
<1>4. From(j.scenario)[d + 1] = Start(j) + Amount(PartOf(j)) /\ d \in 1 .. Len(S)
  BY AtPart
<1>40. Start(j) + Amount(PartOf(j)) \in Nat
  <2>1. j2.made \in Nat BY DEF Job
  <2> QED BY <2>1
<1>5. Len(q) \in Nat /\ Len(q) > 0 BY <1>1
<1>6. q2 = Tail(q) BY DEF q, q2
<1>60. q # <<>> BY DEF q
<1> HIDE DEF S, d, q, q2
<1>7. Len(q2) = Len(q) - 1 /\ \A i \in 1 .. Len(q2) : q2[i] = q[i + 1]
  BY <1>1, <1>6, <1>60, HeadTailProperties
<1>8. Len(S) \in Nat /\ Index(j2) = d + 1 BY <1>3, <1>4, <1>5, <1>7
<1>9. ASSUME NEW i \in 1 .. Len(q2) PROVE q2[i] = S[(d + 1) + i - 1]
  <2>1. i + 1 \in 1 .. Len(q) /\ d + (i + 1) - 1 = (d + 1) + i - 1 BY <1>4, <1>5, <1>7
  <2> QED BY <1>2, <1>7, <2>1
<1>10. q2 # <<>> => 0 < Head(q2).n
  <2> SUFFICES ASSUME q2 # <<>> PROVE 0 < Head(q2).n OBVIOUS
  <2>1. Head(q2) \in Parts BY <1>1
  <2> QED BY <2>1 DEF Parts
<1>11. Len(q2) <= Len(S) BY <1>2, <1>5, <1>7, <1>8
<1>12. j2.made = From(j.scenario)[d + 1] + 0 BY <1>4, <1>40
<1> QED BY <1>8, <1>9, <1>10, <1>11, <1>12 DEF OnScript, S, q2, d

-----------------------------------------------------------------------------
(* The steps of a run *)

\* Access i + 1 of a part is to page, and takes the generator from draw k to draw k2.
Drawing(part, i, ws, k, page, k2) ==
    LET set == IF part.kind = "locality" /\ i = 0 THEN part.size ELSE 0
    IN  /\ part.kind = "sequential" => page = Fixed(i) /\ k2 = k
        /\ part.kind = "random"     => page = Drawn(k, part.max) /\ k2 = k + 2
        /\ part.kind = "locality"   =>
              page = Local(k + set, IF i = 0 THEN k ELSE ws, part.size) /\ k2 = k + set + 3
        /\ part.kind = "looping"    => page = Fixed(i % part.size) /\ k2 = k + 1

\* A generator that is where the prediction has it yields the page predicted.
LEMMA DrawnPage ==
    ASSUME NEW part \in Parts, part.kind \in Accesses, NEW i \in Nat, NEW K \in Nat, NEW k \in Nat,
           NEW ws, k = K + Progress(part, i), i > 0 => ws = K,
           NEW page, NEW k2, Drawing(part, i, ws, k, page, k2)
    PROVE  /\ page = PageAt(part, K, i) /\ k2 = K + Progress(part, i + 1)
           /\ (IF i = 0 THEN k ELSE ws) = K
<1>0. part.size \in Nat /\ part.max \in Nat BY DEF Parts
<1>1. CASE part.kind = "sequential"
  BY <1>0, <1>1 DEF PageAt, Progress, Drawing
<1>2. CASE part.kind = "random"
  BY <1>0, <1>2 DEF PageAt, Progress, Drawing
<1>3. CASE part.kind = "locality"
  <2>1. CASE i = 0
    <3>1. k = K /\ Progress(part, i + 1) = part.size + 3 BY <1>0, <1>3, <2>1 DEF Progress
    <3>2. page = Local(k + part.size, k, part.size) /\ k2 = k + part.size + 3
      BY <1>3, <2>1 DEF Drawing
    <3>3. PageAt(part, K, i) = Local(K + part.size + 3 * i, K, part.size)
      BY <1>3 DEF PageAt
    <3>4. K + part.size + 3 * i = k + part.size /\ k2 = K + (part.size + 3)
      BY <1>0, <2>1, <3>1, <3>2
    <3> QED BY <2>1, <3>1, <3>2, <3>3, <3>4
  <2>2. CASE i # 0
    <3>1. /\ ws = K /\ k = K + (part.size + 3 * i)
          /\ Progress(part, i + 1) = part.size + 3 * (i + 1)
      BY <1>0, <1>3, <2>2 DEF Progress
    <3>2. page = Local(k + 0, ws, part.size) /\ k2 = k + 0 + 3
      BY <1>3, <2>2 DEF Drawing
    <3>3. PageAt(part, K, i) = Local(K + part.size + 3 * i, K, part.size)
      BY <1>3 DEF PageAt
    <3>4. K + part.size + 3 * i = k + 0 /\ k2 = K + (part.size + 3 * (i + 1))
      BY <1>0, <3>1, <3>2
    <3> QED BY <2>2, <3>1, <3>2, <3>3, <3>4
  <2> QED BY <2>1, <2>2
<1>4. CASE part.kind = "looping"
  BY <1>0, <1>4 DEF PageAt, Progress, Drawing
<1> QED BY <1>1, <1>2, <1>3, <1>4 DEF Accesses

\* So does any generator where the pages do not depend on it.
LEMMA FixedPage ==
    ASSUME NEW part, part.kind \in {"sequential", "looping"}, NEW i, NEW K, NEW k, NEW ws,
           NEW page, NEW k2, Drawing(part, i, ws, k, page, k2)
    PROVE  page = PageAt(part, K, i)
BY DEF PageAt, Drawing

\* A part that has made no access has drawn nothing.
LEMMA NoProgress == ASSUME NEW part PROVE Progress(part, 0) = 0
BY DEF Progress

\* An access that succeeds.
LEMMA AccessRuns ==
    ASSUME NEW r \in Runs, NEW j \in Job, NEW fut, NEW k \in Nat, RunIs(r, j, fut, k),
           j.at = "run", j.script # <<>>, PartOf(j).kind \in Accesses,
           NEW j2 \in Job, j2.at = "run", j2.scenario = j.scenario, ~j2.failed,
           j2.made = j.made + 1, j2.ws = (IF j.i = 0 THEN k ELSE j.ws),
           NEW k2 \in Nat, Drawing(PartOf(j), j.i, j.ws, k, j2.last, k2),
           \/ j.i + 1 # PartOf(j).n /\ j2.i = j.i + 1 /\ j2.script = j.script
           \/ j.i + 1 = PartOf(j).n /\ j2.i = 0 /\ j2.script = Tail(j.script)
    PROVE  RunIs(r, j2, fut, k2)
<1> DEFINE sc == j.scenario
           part == PartOf(j)
           d == Index(j)
           F == PrecomputeAccesses(sc)
<1>1. sc \in Names /\ OnScript(j) /\ ~j.failed /\ Followed(r, j, fut) /\ (r = 1 => OnSeed(j, k))
  BY DEF RunIs, Known
<1>2. /\ d \in 1 .. Len(Script(sc)) /\ Head(j.script) = part /\ part \in Parts
      /\ Start(j) \in Nat /\ Seed(j) \in Nat
      /\ Draws(sc)[d + 1] = Seed(j) + Progress(part, part.n)
      /\ Agrees(part, Seed(j), Start(j), F) /\ j.i < part.n /\ j.made = Start(j) + j.i
  BY <1>1, AtPart
<1>30. j.i \in Nat /\ j.made \in Nat /\ j2.made \in Nat BY DEF Job
<1>31. part.n \in Nat
  <2>1. part \in Parts BY <1>2
  <2> HIDE DEF part
  <2> QED BY <2>1 DEF Parts
<1>3. j.i \in Nat /\ part.n \in Nat /\ j.made \in Nat /\ j2.made \in Nat BY <1>30, <1>31
<1>32. j.i < part.n /\ j.made = Start(j) + j.i /\ Start(j) \in Nat BY <1>2
<1>4. Amount(part) = part.n BY DEF Amount
<1>5. OnScript(j2) /\ Index(j2) = (IF j.i + 1 = part.n THEN d + 1 ELSE d)
  <2>1. CASE j.i + 1 = part.n
    <3>1. j2.made = Start(j) + Amount(part)
      <4>1. j2.made = j.made + 1 OBVIOUS
      <4>2. PICK a : a = Start(j) OBVIOUS
      <4> HIDE DEF part
      <4>3. j2.made = a + part.n BY <1>3, <1>32, <2>1, <4>1, <4>2
      <4> QED BY <1>4, <4>2, <4>3
    <3>2. j2.i = 0 /\ j2.script = Tail(j.script) BY <2>1
    <3> QED BY <1>1, <2>1, <3>1, <3>2, OnwardOnScript
  <2>2. CASE j.i + 1 # part.n
    <3>1. j2.i = j.i + 1 /\ j2.script = j.script BY <2>2
    <3>2. Index(j2) = d BY <3>1 DEF Index
    <3>3. j.i + 1 < part.n
      <4> HIDE DEF part
      <4> QED BY <1>3, <1>32, <2>2
    <3>4. j2.made = Start(j) + (j.i + 1) BY <1>3, <1>32
    <3>5. Head(j.script).kind \in Accesses BY <1>2
    <3> QED BY <1>1, <1>2, <2>2, <3>1, <3>2, <3>3, <3>4, <3>5 DEF OnScript, Start
  <2> QED BY <2>1, <2>2
<1>6. r = 1 => /\ j2.last = PageAt(part, Seed(j), j.i) /\ k2 = Seed(j) + Progress(part, j.i + 1)
               /\ j2.ws = Seed(j)
  <2> SUFFICES ASSUME r = 1 PROVE /\ j2.last = PageAt(part, Seed(j), j.i)
                                  /\ k2 = Seed(j) + Progress(part, j.i + 1) /\ j2.ws = Seed(j)
    OBVIOUS
  <2>1. k = Seed(j) + Progress(part, j.i) /\ (j.i > 0 => j.ws = Seed(j))
    BY <1>1, <1>2 DEF OnSeed, Seed
  <2>2. part \in Parts /\ Seed(j) \in Nat BY <1>2
  <2>3. part.kind \in Accesses /\ Drawing(part, j.i, j.ws, k, j2.last, k2) OBVIOUS
  <2>4. j2.ws = (IF j.i = 0 THEN k ELSE j.ws) OBVIOUS
  <2>5. PICK K : K = Seed(j) OBVIOUS
  <2> HIDE DEF part
  <2>6. /\ j2.last = PageAt(part, K, j.i) /\ k2 = K + Progress(part, j.i + 1)
        /\ (IF j.i = 0 THEN k ELSE j.ws) = K
    BY <1>3, <2>1, <2>2, <2>3, <2>5, DrawnPage
  <2> QED BY <2>4, <2>5, <2>6
<1>7. r = 1 => OnSeed(j2, k2)
  <2> SUFFICES ASSUME r = 1 PROVE OnSeed(j2, k2) OBVIOUS
  <2>1. CASE j.i + 1 = part.n
    <3>1. j2.i = 0 /\ Index(j2) = d + 1 BY <1>5, <2>1
    <3>2. k2 = Draws(sc)[d + 1] BY <1>2, <1>6, <2>1
    <3>3. Progress(Head(j2.script), j2.i) = 0 BY <3>1, NoProgress
    <3>4. k2 + 0 = k2 OBVIOUS
    <3> QED BY <3>1, <3>2, <3>3, <3>4 DEF OnSeed
  <2>2. CASE j.i + 1 # part.n
    <3>1. j2.i = j.i + 1 /\ Index(j2) = d /\ j2.script = j.script BY <1>5, <2>2
    <3> QED BY <1>2, <1>6, <3>1 DEF OnSeed, Seed
  <2> QED BY <2>1, <2>2
<1>8. Followed(r, j2, fut)
  <2>1. j2.made <= Len(F)
    <3>1. Start(j) + part.n <= Len(F) BY <1>2 DEF Agrees
    <3>2. F \in Seq(Page) BY <1>1, ScriptsPlanned DEF OnPlan, Planned
    <3>3. Len(F) \in Nat BY <3>2
    <3> HIDE DEF part, F
    <3> QED BY <1>3, <1>32, <3>1, <3>3
  <2>2. ASSUME Matched(r, j) PROVE F[j2.made] = j2.last
    <3>1. j2.last = PageAt(part, Seed(j), j.i)
      <4>1. CASE r = 1 BY <1>6, <4>1
      <4>2. CASE sc \in {"sequential", "looping"}
        <5>1. part.kind \in {"sequential", "looping"} BY <1>2, <4>2, Undrawing DEF PartOf
        <5> QED BY <5>1, FixedPage
      <4> QED BY <2>2, <4>1, <4>2 DEF Matched
    <3>2. j.i \in 0 .. part.n - 1 BY <1>2, <1>3
    <3>3. F[Start(j) + j.i + 1] = PageAt(part, Seed(j), j.i) BY <1>2, <3>2 DEF Agrees
    <3>4. j2.made = Start(j) + j.i + 1 BY <1>2, <1>3
    <3> QED BY <3>1, <3>3, <3>4
  <2>3. Matched(r, j2) <=> Matched(r, j) BY DEF Matched
  <2>4. Foreseen(j2, fut) BY <1>1 DEF Followed, Foreseen
  <2> QED BY <1>1, <2>1, <2>2, <2>3, <2>4 DEF Followed
<1> QED BY <1>1, <1>5, <1>7, <1>8 DEF RunIs, NoProcess, Fresh, Known

\* A process that is created or forked.
LEMMA ForwardRuns ==
    ASSUME NEW r \in Runs, NEW j \in Job, NEW fut, NEW k \in Nat, RunIs(r, j, fut, k),
           j.at = "run", j.script # <<>>, PartOf(j).kind \notin Accesses,
           NEW j2 \in Job, j2.at = "run", j2.scenario = j.scenario, j2.failed = j.failed,
           j2.made = j.made, j2.last = j.last, j2.i = 0, j2.script = Tail(j.script)
    PROVE  RunIs(r, j2, fut, k)
<1> DEFINE sc == j.scenario
           part == PartOf(j)
           d == Index(j)
<1>1. sc \in Names /\ OnScript(j) /\ ~j.failed /\ Followed(r, j, fut) /\ (r = 1 => OnSeed(j, k))
  BY DEF RunIs, Known
<1>2. /\ Head(j.script) = part /\ Start(j) \in Nat /\ Seed(j) \in Nat
      /\ Draws(sc)[d + 1] = Seed(j) + Progress(part, part.n) /\ j.made = Start(j) + j.i
  BY <1>1, AtPart
<1>3. Amount(part) = 0 /\ Progress(part, part.n) = 0 /\ Progress(part, 0) = 0
  BY DEF Amount, Progress, Accesses
<1>4. j.i = 0 BY <1>1, <1>2 DEF OnScript
<1>5. OnScript(j2) /\ Index(j2) = d + 1
  <2>1. j2.made = Start(j) + Amount(part) BY <1>2, <1>3, <1>4
  <2> QED BY <1>1, <2>1, OnwardOnScript
<1>6. r = 1 => OnSeed(j2, k)
  <2> SUFFICES ASSUME r = 1 PROVE OnSeed(j2, k) OBVIOUS
  <2>1. k = Seed(j) + 0 BY <1>1, <1>2, <1>3, <1>4 DEF OnSeed, Seed
  <2>2. k = Draws(sc)[d + 1] BY <1>2, <1>3, <2>1
  <2>3. Progress(Head(j2.script), j2.i) = 0 BY NoProgress
  <2>4. k + 0 = k OBVIOUS
  <2> QED BY <1>5, <2>2, <2>3, <2>4 DEF OnSeed
<1>7. Followed(r, j2, fut) BY <1>1 DEF Followed, Foreseen, Matched
<1> QED BY <1>1, <1>5, <1>6, <1>7 DEF RunIs, NoProcess, Fresh, Known

\* A part of the script that fails.
LEMMA FailRuns ==
    ASSUME NEW r \in Runs, NEW j \in Job, NEW fut, NEW k, RunIs(r, j, fut, k), j.at = "run",
           NEW j2 \in Job, j2.at = "return", j2.failed, j2.scenario = j.scenario,
           j2.made = j.made, j2.last = j.last, NEW k2
    PROVE  RunIs(r, j2, fut, k2)
<1>1. ~j.failed /\ Followed(r, j, fut) BY DEF RunIs
<1>2. Followed(r, j2, fut) BY <1>1 DEF Followed, Foreseen, Matched
<1> QED BY <1>2 DEF RunIs, NoProcess, Fresh, Known, Complete

\* The end of the script.
LEMMA FinishRuns ==
    ASSUME NEW r \in Runs, NEW j \in Job, NEW fut, NEW k, RunIs(r, j, fut, k), j.at = "run",
           j.script = <<>>,
           NEW j2 \in Job, j2.at = "return", j2.scenario = j.scenario,
           j2.made = j.made, j2.last = j.last
    PROVE  RunIs(r, j2, fut, k)
<1> DEFINE sc == j.scenario
           S == Script(sc)
           P == From(sc)
           F == PrecomputeAccesses(sc)
<1>1. sc \in Names /\ OnScript(j) /\ ~j.failed /\ Followed(r, j, fut) BY DEF RunIs, Known
<1>2. Followed(r, j2, fut) BY <1>1 DEF Followed, Foreseen, Matched
<1>3. Planned(S, P, Draws(sc), F) BY <1>1, ScriptsPlanned DEF OnPlan
<1>4. j.i = 0 /\ j.made = P[Index(j)] + j.i BY <1>1 DEF OnScript
<1>5. Index(j) = Len(S) + 1 - 0 BY DEF Index
<1>6. Len(S) \in Nat /\ P[Len(S) + 1] = Len(F) /\ Len(F) \in Nat BY <1>3 DEF Planned, Placed
<1> HIDE DEF S, P, F
<1>7. Index(j) = Len(S) + 1 BY <1>5, <1>6
<1>8. j2.made = Len(F) BY <1>4, <1>6, <1>7
<1> QED BY <1>2, <1>8 DEF RunIs, NoProcess, Fresh, Known, Complete, F

\* A script is dispatched to, by the first run with a generator that nobody has used.
LEMMA DispatchRuns ==
    ASSUME NEW r \in Runs, NEW j \in Job, NEW fut, NEW k, RunIs(r, j, fut, k),
           j.at = "dispatch", j.scenario \in Names, r = 1 => k = 0,
           NEW j2 \in Job, j2.at = "run", ~j2.failed, j2.scenario = j.scenario,
           j2.made = j.made, j2.i = j.i, j2.script = Script(j.scenario)
    PROVE  RunIs(r, j2, fut, k)
<1> DEFINE sc == j.scenario
           S == Script(sc)
           P == From(sc)
           D == Draws(sc)
<1>1. j.made = 0 /\ j.i = 0 /\ Foreseen(j, fut) BY DEF RunIs, Fresh
<1>2. Planned(S, P, D, PrecomputeAccesses(sc)) BY ScriptsPlanned DEF OnPlan
<1>3. S \in Seq(Parts) /\ Len(S) \in Nat /\ Len(S) > 0 /\ P[1] = 0 /\ D[1] = 0
  BY <1>2 DEF Planned, Placed
<1>4. Index(j2) = Len(S) + 1 - Len(S) BY DEF Index
<1>40. j2.script = S OBVIOUS
<1>41. From(j2.scenario) = P /\ Draws(j2.scenario) = D /\ Script(j2.scenario) = S OBVIOUS
<1> HIDE DEF S, P, D
<1>5. Index(j2) = 1 BY <1>3, <1>4
<1>6. S # <<>> /\ Head(S) = S[1] BY <1>3
<1>7. S[1] \in Parts BY <1>3, ElementOfSeq
<1>8. 0 < Head(S).n BY <1>6, <1>7 DEF Parts
<1>9. \A i \in 1 .. Len(S) : S[i] = S[1 + i - 1]
  <2>1. \A i \in 1 .. Len(S) : 1 + i - 1 = i BY <1>3
  <2> QED BY <2>1
<1>10. OnScript(j2)
  BY <1>1, <1>3, <1>40, <1>41, <1>5, <1>6, <1>8, <1>9 DEF OnScript
<1>11. r = 1 => OnSeed(j2, k)
  <2>1. Progress(Head(S), 0) = 0 BY NoProgress
  <2> QED BY <1>1, <1>3, <1>40, <1>41, <1>5, <2>1 DEF OnSeed
<1>12. Followed(r, j2, fut) BY <1>1 DEF Followed, Foreseen
<1> QED BY <1>10, <1>11, <1>12 DEF RunIs, NoProcess, Fresh, Known

\* The rest: a run that begins, one that is refused its scenario, one that is over.
LEMMA EarlyRuns ==
    ASSUME NEW r, NEW j \in Job, NEW fut, NEW k, RunIs(r, j, fut, k),
           j.at \in {"begin", "precompute", "dispatch"},
           NEW j2 \in Job, j2.at \in {"precompute", "dispatch", "return"},
           j2.at = "return" => j2.failed, j2.at # "return" => ~j2.failed,
           j2.scenario = j.scenario, j2.made = j.made, j2.i = j.i,
           j2.parent = j.parent, j2.child = j.child,
           NEW fut2, j2.at = "dispatch" => Foreseen(j2, fut2), NEW k2
    PROVE  RunIs(r, j2, fut2, k2)
<1>1. j.made = 0 /\ j.i = 0 /\ j.parent = 0 /\ j.child = 0 BY DEF RunIs, Fresh, NoProcess
<1>2. CASE j2.at = "return"
  BY <1>1, <1>2 DEF RunIs, NoProcess, Fresh, Known, Followed, Complete
<1>3. CASE j2.at # "return"
  BY <1>1, <1>3 DEF RunIs, NoProcess, Fresh, Known
<1> QED BY <1>2, <1>3

\* A run that has ended keeps its figures until it has reported them.
LEMMA LateRuns ==
    ASSUME NEW r, NEW j \in Job, NEW fut, NEW k, RunIs(r, j, fut, k),
           j.at \in {"return", "report", "unlock"},
           NEW j2 \in Job, j2.at \in {"report", "unlock"},
           j2.scenario = j.scenario, j2.made = j.made, j2.failed = j.failed,
           j2.parent = 0, j2.child = 0, NEW fut2, NEW k2
    PROVE  RunIs(r, j2, fut2, k2)
BY DEF RunIs, NoProcess, Fresh, Known, Complete

\* A run that has not begun, or has left, claims nothing.
LEMMA IdleRuns ==
    ASSUME NEW r, NEW j \in Job, j.at \in {"none", "begin", "end"}, j.made = 0, j.i = 0, ~j.failed,
           j.parent = 0, j.child = 0, NEW fut, NEW k
    PROVE  RunIs(r, j, fut, k)
BY DEF RunIs, NoProcess, Fresh, Known

\* Nothing but the future and the generator changes for a run that is not running.
LEMMA OtherRuns ==
    ASSUME NEW r, NEW j \in Job, NEW fut, NEW k, RunIs(r, j, fut, k),
           j.at \notin {"dispatch", "run", "return"}, NEW fut2, NEW k2
    PROVE  RunIs(r, j, fut2, k2)
BY DEF RunIs

\* A policy that forgets the future.
LEMMA ForgetRuns ==
    ASSUME NEW r, NEW j \in Job, NEW fut, NEW k, RunIs(r, j, fut, k)
    PROVE  RunIs(r, j, <<>>, k)
BY DEF RunIs, Followed, Foreseen

\* A run needs two process IDs at most.
LEMMA NeedsIs == ASSUME NEW j PROVE Needs(j) \in {0, 1, 2}
BY DEF Needs

-----------------------------------------------------------------------------
(* One run at a time *)

\* The bounds are numbers, and there are PIDs enough for every run and its child.
LEMMA Bounds == MaxRuns \in Nat /\ MaxPID \in Nat /\ MaxPID > 2 * MaxRuns /\ MaxResets \in Nat
BY SimulatorAssumption

\* A run that is active is the one that was started last, and the others are idle.
LEMMA Actor ==
    ASSUME IInv, NEW r \in Runs, job[r].at \in Active
    PROVE  /\ lock = r /\ started = r /\ r \in Nat /\ r > 0
           /\ \A q \in Runs \ {r} : job[q].at \in {"none", "end"} /\ lock # q
<1>1. r \in Nat /\ r > 0 /\ started \in Nat BY Bounds DEF Runs, IInv, TypeOK
<1>2. NoJob.at = "none" BY DEF NoJob
<1>3. r <= started
  BY <1>1, <1>2 DEF IInv, Serial, Active
<1>4. lock = r /\ started = r BY <1>1, <1>3 DEF IInv, Serial, Active
<1>5. ASSUME NEW q \in Runs \ {r} PROVE job[q].at \in {"none", "end"}
  <2>0. q \in Nat BY DEF Runs
  <2>1. CASE q > started BY <1>2, <2>1 DEF IInv, Serial
  <2>2. CASE q <= started BY <1>4, <2>2 DEF IInv, Serial
  <2> QED BY <1>1, <2>0, <2>1, <2>2
<1> QED BY <1>1, <1>4, <1>5

\* The runs after a step of one of them.
LEMMA StepRuns ==
    ASSUME IInv, NEW r \in Runs, job[r].at \in Active,
           NEW j2 \in Job, job' = [job EXCEPT ![r] = j2], RunIs(r, j2, futures', rng')
    PROVE  /\ job' \in [Runs -> Job] /\ job'[r] = j2 /\ AllRunsOK'
           /\ \A q \in Runs \ {r} : job'[q] = job[q]
<1>1. job \in [Runs -> Job] BY DEF IInv, TypeOK
<1>2. /\ job' \in [Runs -> Job] /\ job'[r] = j2
      /\ \A q \in Runs \ {r} : job'[q] = job[q]
  BY <1>1
<1>3. ASSUME NEW q \in Runs \ {r} PROVE RunIs(q, job'[q], futures', rng')
  <2>1. job[q].at \in {"none", "end"} BY Actor
  <2>2. RunIs(q, job[q], futures, rng) BY DEF IInv, AllRunsOK
  <2>3. job[q] \in Job BY <1>1
  <2>4. RunIs(q, job[q], futures', rng') BY <2>1, <2>2, <2>3, OtherRuns
  <2> QED BY <1>2, <2>4
<1>4. \A q \in Runs : RunIs(q, job'[q], futures', rng') BY <1>2, <1>3
<1> QED BY <1>2, <1>4 DEF AllRunsOK

\* A step of a run that takes no process number and keeps simulationMu.
LEMMA QuietStep ==
    ASSUME IInv, NEW r \in Runs, job[r].at \in Active,
           NEW j2 \in Job, job' = [job EXCEPT ![r] = j2], RunIs(r, j2, futures', rng'),
           j2.at \in Active, Needs(j2) <= Needs(job[r]),
           j2.parent \in {job[r].parent, 0}, j2.child \in {job[r].child, 0},
           UNCHANGED <<optimal, processes, tables, nextPID, maker, lock, started, resets, resetting>>,
           ~optimal => futures' = <<>>,
           rng' \in Nat, reports' \in Seq(Runs), scenarioMu' \in Runs \cup {0},
           scenarioMu' = r => j2.at \in Holds,
           scenarioMu' \in {scenarioMu, 0, r},
           j2.at \in {"begin", "precompute", "dispatch"} =>
              rng' = rng /\ job[r].at \in {"begin", "precompute", "dispatch"}
    PROVE  IInv'
<1>0. /\ lock = r /\ started = r /\ r \in Nat /\ r > 0
      /\ \A q \in Runs \ {r} : job[q].at \in {"none", "end"} /\ lock # q
  BY Actor
<1>1. /\ job' \in [Runs -> Job] /\ job'[r] = j2 /\ AllRunsOK'
      /\ \A q \in Runs \ {r} : job'[q] = job[q]
  BY StepRuns
<1>2. TypeOK' BY <1>1 DEF IInv, TypeOK
<1>3. Serial'
  <2>1. lock' = r /\ started' = r BY <1>0
  <2>2. ASSUME NEW q \in Runs
        PROVE  /\ q > started' => job'[q] = NoJob
               /\ job'[q].at = "end" => q <= started'
               /\ q <= started' => job'[q].at # "none"
               /\ q <= started' /\ job'[q].at # "end" => lock' = q
               /\ lock' = q => job'[q].at \in Active
               /\ scenarioMu' = q => job'[q].at \in Holds
    <3>1. CASE q = r
      <4>1. j2.at # "end" /\ j2.at # "none" BY DEF Active
      <4>2. ~(r > r) BY <1>0
      <4> QED BY <1>1, <2>1, <3>1, <4>1, <4>2
    <3>2. CASE q # r
      <4>1. job'[q] = job[q] /\ lock # q /\ q # 0 BY <1>0, <1>1, <3>2 DEF Runs
      <4>2. scenarioMu' = q => scenarioMu = q BY <3>2, <4>1
      <4> QED BY <4>1, <4>2 DEF IInv, Serial
    <3> QED BY <3>1, <3>2
  <2> QED BY <1>0, <2>1, <2>2 DEF Serial
<1>4. Undrawn'
  <2>1. started' # 0 BY <1>0
  <2>2. ASSUME 1 \in Runs, job'[1].at \in {"begin", "precompute", "dispatch"} PROVE rng' = 0
    <3>1. r = 1 BY <1>0, <1>1, <2>2
    <3> QED BY <1>1, <2>2, <3>1 DEF IInv, Undrawn
  <2> QED BY <2>1, <2>2 DEF Undrawn
<1>5. Numbers'
  <2>1. nextPID + 2 * (MaxRuns - started) + Needs(job[r]) <= MaxPID
    BY <1>0 DEF IInv, Numbers
  <2>2. Needs(j2) \in Nat /\ Needs(job[r]) \in Nat BY NeedsIs
  <2>3. nextPID \in Nat /\ MaxRuns \in Nat /\ MaxPID \in Nat /\ started \in Nat
    BY <1>0, Bounds DEF IInv, TypeOK, PIDs
  <2>4. nextPID + 2 * (MaxRuns - started) + Needs(j2) <= MaxPID BY <2>1, <2>2, <2>3
  <2>5. nextPID + 2 * (MaxRuns - started) <= MaxPID BY DEF IInv, Numbers
  <2>6. Needs(job'[r]) = Needs(j2) BY <1>1
  <2>7. \A q \in Runs : nextPID' + 2 * (MaxRuns - started') + Needs(job'[q]) <= MaxPID
                          \/ q # started'
    BY <1>0, <2>4, <2>6
  <2> QED BY <2>5, <2>7 DEF Numbers
<1>6. Owned'
  <2>1. nextPID \in Nat /\ 0 <= nextPID BY Bounds DEF IInv, TypeOK, PIDs
  <2> QED BY <1>1, <2>1 DEF IInv, Owned
<1>7. OwnProcesses'
  <2> SUFFICES ASSUME NEW q \in Runs, resets = 0,
                      NEW pid \in {job'[q].parent, job'[q].child} \cap processes
               PROVE  maker[pid] = q
    BY DEF OwnProcesses
  <2>1. pid # 0 BY Bounds DEF IInv, TypeOK, PIDs
  <2>2. pid \in {job[q].parent, job[q].child} BY <1>1, <2>1
  <2> QED BY <2>2 DEF IInv, OwnProcesses
<1> QED BY <1>1, <1>2, <1>3, <1>4, <1>5, <1>6, <1>7 DEF IInv

\* A run that has not reached its script needs as many IDs as it ever will.
LEMMA NeedsEarly ==
    ASSUME NEW j, j.at \in {"begin", "precompute", "dispatch"}, NEW j2
    PROVE  Needs(j2) <= Needs(j)
<1>1. Needs(j) = 2 BY DEF Needs
<1> QED BY <1>1, NeedsIs

\* A run that has ended needs none.
LEMMA NeedsLate ==
    ASSUME NEW j, NEW j2, j2.at \in {"return", "report", "unlock", "end", "none"}
    PROVE  Needs(j2) = 0 /\ Needs(j2) <= Needs(j)
<1>1. Needs(j2) = 0 BY DEF Needs
<1> QED BY <1>1, NeedsIs

\* The start of a scenario keeps the invariant.
LEMMA BeginStep == ASSUME IInv, NEW r \in Runs, BeginScenario(r) PROVE IInv'
<1> DEFINE j == job[r]
<1>1. j \in Job /\ j.at = "begin" /\ j.at \in Active /\ RunIs(r, j, futures, rng)
  BY DEF IInv, TypeOK, AllRunsOK, BeginScenario, At, Active
<1>2. PICK j2 \in Job : j2 = [j EXCEPT !.at = IF optimal THEN "precompute" ELSE "dispatch"]
  BY <1>1 DEF Job, Places
<1>3. /\ j2.at = (IF optimal THEN "precompute" ELSE "dispatch") /\ j2.failed = j.failed
      /\ j2.scenario = j.scenario /\ j2.made = j.made /\ j2.i = j.i
      /\ j2.parent = j.parent /\ j2.child = j.child
  BY <1>1, <1>2 DEF Job
<1>4. job' = [job EXCEPT ![r] = j2] BY <1>2 DEF BeginScenario, Become
<1>5. /\ UNCHANGED <<optimal, futures, rng, processes, tables, nextPID, maker, lock, started, reports,
                     resets, resetting>>
      /\ scenarioMu' = r
  BY DEF BeginScenario, policy, procs, users
<1>6. ~optimal => futures = <<>> BY DEF IInv, TypeOK
<1>7. ~j.failed BY <1>1 DEF RunIs, Fresh
<1>8. RunIs(r, j2, futures', rng')
  <2>1. j2.at \in {"precompute", "dispatch", "return"} /\ j2.at # "return" BY <1>3
  <2>2. j2.at = "dispatch" => Foreseen(j2, futures) BY <1>3, <1>6 DEF Foreseen
  <2>3. j.at \in {"begin", "precompute", "dispatch"} BY <1>1
  <2>4. RunIs(r, j2, futures, rng) BY <1>1, <1>3, <1>7, <2>1, <2>2, <2>3, EarlyRuns
  <2> QED BY <1>5, <2>4
<1>9. j2.at \in Active /\ j2.at \in Holds BY <1>3 DEF Active, Holds
<1>10. Needs(j2) <= Needs(j) BY <1>1, NeedsEarly
<1>11. rng' \in Nat /\ reports' \in Seq(Runs) /\ scenarioMu' \in Runs \cup {0}
  BY <1>5 DEF IInv, TypeOK
<1> QED BY <1>1, <1>3, <1>4, <1>5, <1>6, <1>8, <1>9, <1>10, <1>11, QuietStep

\* The prediction keeps it.
LEMMA PrecomputeStep == ASSUME IInv, NEW r \in Runs, Precompute(r) PROVE IInv'
<1> DEFINE j == job[r]
           known == j.scenario # Unknown
<1>1. j \in Job /\ j.at = "precompute" /\ j.at \in Active /\ RunIs(r, j, futures, rng)
  BY DEF IInv, TypeOK, AllRunsOK, Precompute, At, Active
<1>2. PICK j2 \in Job : j2 = [j EXCEPT !.at = IF known THEN "dispatch" ELSE "return",
                                       !.failed = ~known]
  BY <1>1 DEF Job, Places
<1>3. /\ j2.at = (IF known THEN "dispatch" ELSE "return") /\ j2.failed = ~known
      /\ j2.scenario = j.scenario /\ j2.made = j.made /\ j2.i = j.i
      /\ j2.parent = j.parent /\ j2.child = j.child
  BY <1>1, <1>2 DEF Job
<1>4. job' = [job EXCEPT ![r] = j2] BY <1>2 DEF Precompute, Become
<1>5. /\ UNCHANGED <<optimal, rng, processes, tables, nextPID, maker, lock, started, scenarioMu,
                     reports, resets, resetting>>
      /\ futures' = IF known /\ optimal THEN PrecomputeAccesses(j.scenario) ELSE futures
  BY DEF Precompute, procs, locks, users
<1>6. ~optimal => futures = <<>> BY DEF IInv, TypeOK
<1>7. j.scenario \in Names \cup {Unknown} BY <1>1 DEF Job
<1>8. RunIs(r, j2, futures', rng')
  <2>1. /\ j2.at \in {"precompute", "dispatch", "return"} /\ (j2.at = "return" => j2.failed)
        /\ (j2.at # "return" => ~j2.failed)
    BY <1>3
  <2>2. j2.at = "dispatch" => Foreseen(j2, futures') BY <1>3, <1>5, <1>6, <1>7 DEF Foreseen
  <2>3. j.at \in {"begin", "precompute", "dispatch"} BY <1>1
  <2> QED BY <1>1, <1>3, <2>1, <2>2, <2>3, EarlyRuns
<1>9. j2.at \in Active /\ j2.at \in Holds BY <1>3 DEF Active, Holds
<1>10. Needs(j2) <= Needs(j) BY <1>1, NeedsEarly
<1>11. /\ rng' \in Nat /\ reports' \in Seq(Runs) /\ scenarioMu' \in Runs \cup {0}
       /\ (~optimal => futures' = <<>>)
  BY <1>5, <1>6 DEF IInv, TypeOK
<1> QED BY <1>1, <1>3, <1>4, <1>5, <1>8, <1>9, <1>10, <1>11, QuietStep

\* The choice of the script keeps it.
LEMMA DispatchStep == ASSUME IInv, NEW r \in Runs, Dispatch(r) PROVE IInv'
<1> DEFINE j == job[r]
           known == j.scenario # Unknown
<1>1. j \in Job /\ j.at = "dispatch" /\ j.at \in Active /\ RunIs(r, j, futures, rng)
  BY DEF IInv, TypeOK, AllRunsOK, Dispatch, At, Active
<1>20. PICK sc \in Seq(Parts) : sc = IF known THEN Script(j.scenario) ELSE <<>>
  <2>1. <<>> \in Seq(Parts) BY EmptySeq
  <2>2. known => Script(j.scenario) \in Seq(Parts)
    BY <1>1, ScriptsPlanned DEF Job, OnPlan, Planned, Placed
  <2> QED BY <2>1, <2>2
<1>2. PICK j2 \in Job : j2 = [j EXCEPT !.at = IF known THEN "run" ELSE "return",
                                       !.script = sc, !.failed = ~known]
  BY <1>1 DEF Job, Places
<1>3. /\ j2.at = (IF known THEN "run" ELSE "return") /\ j2.failed = ~known /\ j2.script = sc
      /\ j2.scenario = j.scenario /\ j2.made = j.made /\ j2.i = j.i
      /\ j2.parent = j.parent /\ j2.child = j.child
  BY <1>1, <1>2 DEF Job
<1>4. job' = [job EXCEPT ![r] = j2] BY <1>2, <1>20 DEF Dispatch, Become
<1>5. UNCHANGED <<optimal, futures, rng, processes, tables, nextPID, maker, lock, started,
                  scenarioMu, reports, resets, resetting>>
  BY DEF Dispatch, policy, procs, locks, users
<1>6. ~optimal => futures = <<>> BY DEF IInv, TypeOK
<1>7. j.scenario \in Names \cup {Unknown} BY <1>1 DEF Job
<1>8. RunIs(r, j2, futures, rng)
  <2>1. CASE known
    <3>1. j.scenario \in Names BY <1>7, <2>1
    <3>2. r = 1 => rng = 0 BY <1>1 DEF IInv, Undrawn
    <3>3. j2.at = "run" /\ ~j2.failed /\ j2.script = Script(j.scenario) BY <1>20, <1>3, <2>1
    <3> QED BY <1>1, <1>3, <3>1, <3>2, <3>3, DispatchRuns
  <2>2. CASE ~known
    <3>1. j2.at = "return" /\ j2.failed BY <1>3, <2>2
    <3>2. /\ j.at \in {"begin", "precompute", "dispatch"}
          /\ j2.at \in {"precompute", "dispatch", "return"}
      BY <1>1, <3>1
    <3> QED BY <1>1, <1>3, <3>1, <3>2, EarlyRuns
  <2> QED BY <2>1, <2>2
<1>9. j2.at \in Active /\ j2.at \in Holds BY <1>3 DEF Active, Holds
<1>10. Needs(j2) <= Needs(j) BY <1>1, NeedsEarly
<1>11. rng' \in Nat /\ reports' \in Seq(Runs) /\ scenarioMu' \in Runs \cup {0}
  BY <1>5 DEF IInv, TypeOK
<1>12. j2.at \notin {"begin", "precompute", "dispatch"} BY <1>3
<1>13. RunIs(r, j2, futures', rng') BY <1>5, <1>8
<1> QED BY <1>1, <1>3, <1>4, <1>5, <1>6, <1>13, <1>9, <1>10, <1>11, <1>12, QuietStep

\* The end of a script keeps it.
LEMMA FinishStep == ASSUME IInv, NEW r \in Runs, Finish(r) PROVE IInv'
<1> DEFINE j == job[r]
<1>1. /\ j \in Job /\ j.at = "run" /\ j.at \in Active /\ RunIs(r, j, futures, rng)
      /\ j.script = <<>>
  BY DEF IInv, TypeOK, AllRunsOK, Finish, At, Active
<1>2. PICK j2 \in Job : j2 = [j EXCEPT !.at = "return"]
  BY <1>1 DEF Job, Places
<1>3. /\ j2.at = "return" /\ j2.failed = j.failed
      /\ j2.scenario = j.scenario /\ j2.made = j.made /\ j2.i = j.i /\ j2.last = j.last
      /\ j2.parent = j.parent /\ j2.child = j.child
  BY <1>1, <1>2 DEF Job
<1>4. job' = [job EXCEPT ![r] = j2] BY <1>2 DEF Finish, Become
<1>5. UNCHANGED <<optimal, futures, rng, processes, tables, nextPID, maker, lock, started,
                  scenarioMu, reports, resets, resetting>>
  BY DEF Finish, policy, procs, locks, users
<1>8. RunIs(r, j2, futures', rng') BY <1>1, <1>3, <1>5, FinishRuns
<1>9. j2.at \in Active /\ j2.at \in Holds BY <1>3 DEF Active, Holds
<1>10. Needs(j2) <= Needs(j) BY <1>3, NeedsLate
<1>11. /\ rng' \in Nat /\ reports' \in Seq(Runs) /\ scenarioMu' \in Runs \cup {0}
       /\ (~optimal => futures' = <<>>)
  BY <1>5 DEF IInv, TypeOK
<1>12. j2.at \notin {"begin", "precompute", "dispatch"} BY <1>3
<1> QED BY <1>1, <1>3, <1>4, <1>5, <1>8, <1>9, <1>10, <1>11, <1>12, QuietStep

\* A slot without a run.
LEMMA NoJobIs ==
    /\ NoJob \in Job /\ NoJob.at = "none" /\ NoJob.made = 0 /\ NoJob.i = 0 /\ ~NoJob.failed
    /\ NoJob.parent = 0 /\ NoJob.child = 0
<1>1. <<>> \in Seq(Parts) BY EmptySeq
<1>2. Fixed(0) \in Page BY DEF Fixed, Page
<1> QED BY <1>1, <1>2 DEF NoJob, Job, Places, Names, Unknown

\* The return of a scenario to its handler keeps it.
LEMMA ReturnStep == ASSUME IInv, NEW r \in Runs, ReturnScenario(r) PROVE IInv'
<1> DEFINE j == job[r]
<1>1. j \in Job /\ j.at = "return" /\ j.at \in Active /\ RunIs(r, j, futures, rng)
  BY DEF IInv, TypeOK, AllRunsOK, ReturnScenario, At, Active
<1>2. PICK j2 \in Job : j2 = [NoJob EXCEPT !.at = "report", !.scenario = j.scenario,
                                           !.made = j.made, !.failed = j.failed]
  BY <1>1, NoJobIs DEF Job, Places
<1>3. /\ j2.at = "report" /\ j2.failed = j.failed /\ j2.scenario = j.scenario
      /\ j2.made = j.made /\ j2.parent = 0 /\ j2.child = 0
  BY <1>2, NoJobIs DEF Job
<1>4. job' = [job EXCEPT ![r] = j2] BY <1>2 DEF ReturnScenario, Become
<1>5. /\ UNCHANGED <<optimal, futures, rng, processes, tables, nextPID, maker, lock, started,
                     reports, resets, resetting>>
      /\ scenarioMu' = 0
  BY DEF ReturnScenario, policy, procs, users
<1>8. RunIs(r, j2, futures', rng')
  <2>1. j.at \in {"return", "report", "unlock"} /\ j2.at \in {"report", "unlock"} BY <1>1, <1>3
  <2> QED BY <1>1, <1>3, <2>1, LateRuns
<1>9. j2.at \in Active BY <1>3 DEF Active
<1>10. Needs(j2) <= Needs(j) BY <1>3, NeedsLate
<1>11. /\ rng' \in Nat /\ reports' \in Seq(Runs) /\ scenarioMu' \in Runs \cup {0}
       /\ (~optimal => futures' = <<>>) /\ scenarioMu' # r
  BY <1>5 DEF IInv, TypeOK, Runs
<1>12. j2.at \notin {"begin", "precompute", "dispatch"} BY <1>3
<1> QED BY <1>1, <1>3, <1>4, <1>5, <1>8, <1>9, <1>10, <1>11, <1>12, QuietStep

\* The report of a run keeps it.
LEMMA ReportStep == ASSUME IInv, NEW r \in Runs, Report(r) PROVE IInv'
<1> DEFINE j == job[r]
<1>1. j \in Job /\ j.at = "report" /\ j.at \in Active /\ RunIs(r, j, futures, rng)
  BY DEF IInv, TypeOK, AllRunsOK, Report, At, Active
<1>2. PICK j2 \in Job : j2 = [j EXCEPT !.at = "unlock"]
  BY <1>1 DEF Job, Places
<1>30. j.parent = 0 /\ j.child = 0 BY <1>1 DEF RunIs, NoProcess
<1>3. /\ j2.at = "unlock" /\ j2.failed = j.failed /\ j2.scenario = j.scenario
      /\ j2.made = j.made /\ j2.parent = 0 /\ j2.child = 0
  BY <1>1, <1>2, <1>30 DEF Job
<1>4. job' = [job EXCEPT ![r] = j2] BY <1>2 DEF Report, Become
<1>5. /\ UNCHANGED <<optimal, futures, rng, processes, tables, nextPID, maker, lock, started,
                     scenarioMu, resets, resetting>>
      /\ reports' = Append(reports, r)
  BY DEF Report, policy, procs, locks, users
<1>8. RunIs(r, j2, futures', rng')
  <2>1. j.at \in {"return", "report", "unlock"} /\ j2.at \in {"report", "unlock"} BY <1>1, <1>3
  <2> QED BY <1>1, <1>3, <2>1, LateRuns
<1>9. j2.at \in Active BY <1>3 DEF Active
<1>10. Needs(j2) <= Needs(j) BY <1>3, NeedsLate
<1>11. /\ rng' \in Nat /\ scenarioMu' \in Runs \cup {0} /\ (~optimal => futures' = <<>>)
  BY <1>5 DEF IInv, TypeOK
<1>12. j2.at \notin {"begin", "precompute", "dispatch"} BY <1>3
<1>13. reports' \in Seq(Runs)
  <2>1. reports \in Seq(Runs) BY DEF IInv, TypeOK
  <2> QED BY <1>5, <2>1, AppendIs
<1>14. scenarioMu' # r
  <2>1. j.at \notin Holds BY <1>1 DEF Holds
  <2> QED BY <1>5, <2>1 DEF IInv, Serial
<1> QED BY <1>1, <1>3, <1>4, <1>5, <1>8, <1>9, <1>10, <1>11, <1>12, <1>13, <1>14, QuietStep

\* A run takes numbers for the process it creates first and for the one it forks.
LEMMA NeedsAt ==
    ASSUME NEW j \in Job, j.scenario \in Names, OnScript(j), j.script # <<>>, j.at = "run",
           NEW j2 \in Job, j2.at = "run", j2.script = Tail(j.script), Index(j2) = Index(j) + 1
    PROVE  /\ (PartOf(j).kind = "create" <=> Index(j) = 1)
           /\ PartOf(j).kind = "create" => Needs(j) = 2 /\ Needs(j2) <= 1
           /\ PartOf(j).kind = "fork" => Needs(j) = 1 /\ Needs(j2) = 0
           /\ PartOf(j).kind \in Accesses => Needs(j2) <= Needs(j)
<1> DEFINE S == Script(j.scenario)
           d == Index(j)
           q == j.script
           part == PartOf(j)
<1>1. q \in Seq(Parts) /\ q # <<>> BY DEF Job
<1>2. Len(q) <= Len(S) /\ \A i \in 1 .. Len(q) : q[i] = S[d + i - 1]
  BY DEF OnScript
<1>3. d \in 1 .. Len(S) /\ Head(q) = part /\ d = Len(S) + 1 - Len(q) /\ part = S[d]
  BY AtPart DEF Index, PartOf
<1>4. Shaped(S) /\ Len(S) \in Nat BY ScriptsPlanned DEF OnPlan, Planned, Placed
<1>5. (part.kind = "create" <=> d = 1)
  <2> HIDE DEF S, d, part
  <2>0. d \in 1 .. Len(S) BY <1>3
  <2>1. d = 1 \/ d > 1 BY <1>4, <2>0
  <2>2. S[1].kind = "create" /\ (d > 1 => S[d].kind # "create") BY <1>3, <1>4 DEF Shaped
  <2>3. CASE d = 1 BY <1>3, <2>2, <2>3
  <2>4. CASE d > 1
    <3>1. d # 1 BY <2>4
    <3> QED BY <1>3, <2>2, <2>4, <3>1
  <2> QED BY <2>1, <2>3, <2>4
<1>6. Index(j2) # 1 BY <1>3, <1>4
<1>7. /\ Needs(j) = (IF d = 1 THEN 2 ELSE IF \E i \in DOMAIN q : q[i].kind = "fork" THEN 1 ELSE 0)
      /\ Needs(j2) = (IF \E i \in DOMAIN Tail(q) : Tail(q)[i].kind = "fork" THEN 1 ELSE 0)
  BY <1>6 DEF Needs
<1> DEFINE u == Tail(q)
<1>8. u \in Seq(Parts) /\ Len(u) = Len(q) - 1 /\ \A i \in 1 .. Len(u) : u[i] = q[i + 1]
  BY <1>1, HeadTailProperties
<1>80. Len(q) \in Nat /\ Len(q) > 0 /\ Head(q) = q[1] /\ Len(u) \in Nat BY <1>1, <1>8
<1>9. DOMAIN q = 1 .. Len(q) /\ DOMAIN u = 1 .. Len(u) BY <1>1, <1>8, LenProperties
<1>10. ASSUME NEW i \in DOMAIN u, u[i].kind = "fork"
       PROVE  (\E m \in DOMAIN q : q[m].kind = "fork") /\ part.kind # "fork"
  <2> HIDE DEF S, d, q, u, part
  <2>1. i \in 1 .. Len(u) /\ i + 1 \in 1 .. Len(q) BY <1>80, <1>8, <1>9
  <2>2. q[i + 1].kind = "fork" BY <1>8, <1>10, <2>1
  <2>30. q[i + 1] = S[d + (i + 1) - 1] BY <1>2, <2>1
  <2>31. d \in 1 .. Len(S) /\ d = Len(S) + 1 - Len(q) /\ Len(S) \in Nat /\ Len(q) \in Nat
    BY <1>3, <1>4, <1>80
  <2>32. i \in Nat \ {0} /\ i + 1 <= Len(q) BY <1>80, <2>1
  <2>33. d + (i + 1) - 1 # d /\ d + (i + 1) - 1 \in 1 .. Len(S) BY <2>31, <2>32
  <2>3. q[i + 1] = S[d + (i + 1) - 1] /\ d + (i + 1) - 1 # d /\ d + (i + 1) - 1 \in 1 .. Len(S)
    BY <2>30, <2>33
  <2>4. part.kind # "fork" BY <1>3, <1>4, <2>2, <2>3 DEF Shaped
  <2> QED BY <1>9, <2>1, <2>2, <2>4
<1>11. part.kind = "fork" => \E m \in DOMAIN q : q[m].kind = "fork"
  <2> HIDE DEF S, d, q, u, part
  <2>1. 1 \in DOMAIN q /\ q[1] = part BY <1>3, <1>80, <1>9
  <2> QED BY <2>1
<1>12. "create" \notin Accesses /\ "fork" # "create" BY DEF Accesses
<1>13. part.kind = "create" => Needs(j) = 2 /\ Needs(j2) <= 1
  BY <1>5, <1>7
<1>14. part.kind = "fork" => Needs(j) = 1 /\ Needs(j2) = 0
  BY <1>5, <1>7, <1>10, <1>11, <1>12
<1>15. part.kind \in Accesses => Needs(j2) <= Needs(j)
  BY <1>7, <1>10
<1> QED BY <1>5, <1>13, <1>14, <1>15

\* The page of an access and its draws.
LEMMA NextIs ==
    ASSUME IInv, NEW r \in Runs, job[r].at = "run", job[r].script # <<>>,
           Part1(r).kind \in Accesses, rng' = rng + SetDraws(r) + NextPage(r).draws
    PROVE  /\ NextPage(r).page \in Page /\ rng' \in Nat /\ WorkingSet(r) \in Nat
           /\ Drawing(Part1(r), job[r].i, job[r].ws, rng, NextPage(r).page, rng')
<1> DEFINE j == job[r]
           part == Part1(r)
           pg == NextPage(r).page
<1>1. /\ j \in Job /\ j.i \in Nat /\ j.ws \in Nat /\ rng \in Nat
      /\ RunIs(r, j, futures, rng)
  BY DEF IInv, TypeOK, AllRunsOK, Job
<1>2. j.scenario \in Names /\ OnScript(j) BY <1>1 DEF RunIs, Known
<1>3. part = PartOf(j) /\ PartOf(j) \in Parts /\ Index(j) \in 1 .. Len(Script(j.scenario))
  BY <1>1, <1>2, AtPart DEF Part1
<1>4. part.n \in Nat /\ part.max \in Nat /\ part.size \in Nat BY <1>3 DEF Parts
<1>5. part.kind = "looping" => part.size > 0
  <2>1. Shaped(Script(j.scenario)) BY <1>2, ScriptsPlanned DEF OnPlan, Planned
  <2> QED BY <1>3, <2>1 DEF Shaped, PartOf
<1>6. WorkingSet(r) = (IF j.i = 0 THEN rng ELSE j.ws) /\ WorkingSet(r) \in Nat
  BY <1>1 DEF WorkingSet
<1>7. CASE part.kind = "sequential"
  <2>1. NextPage(r) = [page |-> Fixed(j.i), draws |-> 0] /\ SetDraws(r) = 0
    BY <1>7 DEF NextPage, SetDraws
  <2>2. pg = Fixed(j.i) /\ rng' = rng BY <1>1, <2>1
  <2> QED BY <1>1, <1>6, <1>7, <2>2 DEF Drawing, Fixed, Page
<1>8. CASE part.kind = "random"
  <2>1. /\ NextPage(r) = [page |-> Drawn(rng + SetDraws(r), part.max), draws |-> 2]
        /\ SetDraws(r) = 0
    BY <1>8 DEF NextPage, SetDraws
  <2>2. pg = Drawn(rng, part.max) /\ rng' = rng + 2 BY <1>1, <2>1
  <2> QED BY <1>1, <1>4, <1>6, <1>8, <2>2 DEF Drawing, Drawn, Page
<1>9. CASE part.kind = "locality"
  <2>1. /\ NextPage(r) = [page |-> Local(rng + SetDraws(r), WorkingSet(r), part.size), draws |-> 3]
        /\ SetDraws(r) = (IF j.i = 0 THEN part.size ELSE 0)
    BY <1>9 DEF NextPage, SetDraws
  <2>2. /\ pg = Local(rng + SetDraws(r), WorkingSet(r), part.size)
        /\ rng' = rng + SetDraws(r) + 3 /\ SetDraws(r) \in Nat
    BY <1>4, <2>1
  <2>3. pg \in Page
    <3>1. rng + SetDraws(r) \in Nat BY <1>1, <2>2
    <3> QED BY <1>4, <1>6, <2>2, <3>1 DEF Local, Page
  <2>4. rng' \in Nat BY <1>1, <2>2
  <2>5. Drawing(part, j.i, j.ws, rng, pg, rng') BY <1>6, <1>9, <2>1, <2>2 DEF Drawing
  <2> QED BY <1>6, <2>3, <2>4, <2>5
<1>10. CASE part.kind = "looping"
  <2>1. NextPage(r) = [page |-> Fixed(j.i % part.size), draws |-> 1] /\ SetDraws(r) = 0
    BY <1>10 DEF NextPage, SetDraws
  <2>2. pg = Fixed(j.i % part.size) /\ rng' = rng + 1 BY <1>1, <2>1
  <2>3. j.i % part.size \in Nat BY <1>1, <1>4, <1>5, <1>10
  <2>4. pg \in Page BY <2>2, <2>3 DEF Fixed, Page
  <2> QED BY <1>1, <1>6, <1>10, <2>2, <2>4 DEF Drawing
<1> QED BY <1>7, <1>8, <1>9, <1>10 DEF Accesses

\* An access keeps it: the page is the one that was predicted, if a prediction is in use.
LEMMA AccessStep == ASSUME IInv, NEW r \in Runs, Access(r) PROVE IInv'
<1> DEFINE j == job[r]
           part == Part1(r)
           pid == IF part.who = "child" THEN j.child ELSE j.parent
           pg == NextPage(r).page
           w == WorkingSet(r)
<1>1. /\ j \in Job /\ j.at = "run" /\ j.at \in Active /\ RunIs(r, j, futures, rng)
      /\ j.script # <<>> /\ part.kind \in Accesses /\ job \in [Runs -> Job]
  BY DEF IInv, TypeOK, AllRunsOK, Access, Doing, At, Active, Accesses
<1>2. j.scenario \in Names /\ OnScript(j) /\ ~j.failed BY <1>1 DEF RunIs, Known
<1>3. part = PartOf(j) BY <1>1, <1>2, AtPart DEF Part1
<1>4. rng' = rng + SetDraws(r) + NextPage(r).draws BY DEF Access
<1>5. pg \in Page /\ rng' \in Nat /\ w \in Nat /\ Drawing(part, j.i, j.ws, rng, pg, rng')
  BY <1>1, <1>4, NextIs
<1>6. UNCHANGED <<optimal, futures, processes, tables, nextPID, maker, lock, started,
                  scenarioMu, reports, resets, resetting>>
  BY DEF Access, policy, procs, locks, users
<1>7. /\ reports' \in Seq(Runs) /\ scenarioMu' \in Runs \cup {0}
      /\ (~optimal => futures' = <<>>)
  BY <1>6 DEF IInv, TypeOK
<1>70. j.i \in Nat /\ j.made \in Nat /\ j.script \in Seq(Parts) BY <1>1 DEF Job
<1>8. PICK i2 \in Nat : i2 = j.i + 1 BY <1>70
<1>9. PICK m2 \in Nat : m2 = j.made + 1 BY <1>70
<1>10. PICK jj \in Job : jj = [j EXCEPT !.i = i2, !.ws = w, !.made = m2, !.last = pg]
  BY <1>1, <1>5 DEF Job
<1>11. /\ jj.at = "run" /\ jj.i = i2 /\ jj.ws = w /\ jj.made = m2 /\ jj.last = pg
       /\ jj.scenario = j.scenario /\ jj.script = j.script /\ jj.parent = j.parent
       /\ jj.child = j.child /\ jj.failed = j.failed
  BY <1>1, <1>10 DEF Job
<1>12. Become(r, IF pid \notin processes \cap tables THEN Fail(j)
                 ELSE IF jj.i = part.n THEN Forward(jj) ELSE jj)
  <2>1. jj = [j EXCEPT !.i = j.i + 1, !.ws = w, !.made = j.made + 1, !.last = pg]
    BY <1>8, <1>9, <1>10, Zenon
  <2> QED BY <2>1, Zenon DEF Access
<1>13. w = (IF j.i = 0 THEN rng ELSE j.ws) BY DEF WorkingSet
<1>14. CASE pid \notin processes \cap tables
  <2>1. PICK j2 \in Job : j2 = Fail(j) BY <1>1 DEF Fail, Job, Places
  <2>2. /\ j2.at = "return" /\ j2.failed /\ j2.scenario = j.scenario /\ j2.made = j.made
        /\ j2.last = j.last /\ j2.parent = j.parent /\ j2.child = j.child
    BY <1>1, <2>1 DEF Fail, Job
  <2>3. job' = [job EXCEPT ![r] = j2] BY <1>12, <1>14, <2>1 DEF Become
  <2>4. RunIs(r, j2, futures', rng') BY <1>1, <1>6, <2>2, FailRuns
  <2>5. j2.at \in Active /\ j2.at \in Holds BY <2>2 DEF Active, Holds
  <2>6. Needs(j2) <= Needs(j) BY <2>2, NeedsLate
  <2>7. j2.at \notin {"begin", "precompute", "dispatch"} BY <2>2
  <2> QED BY <1>1, <1>5, <1>6, <1>7, <2>2, <2>3, <2>4, <2>5, <2>6, <2>7, QuietStep
<1>15. CASE pid \in processes \cap tables /\ jj.i = part.n
  <2>0. Tail(j.script) \in Seq(Parts) BY <1>1, <1>70
  <2>1. PICK j2 \in Job : j2 = Forward(jj) BY <1>11, <2>0 DEF Forward, Job
  <2>2. /\ j2.at = "run" /\ j2.failed = j.failed /\ j2.scenario = j.scenario /\ j2.made = m2
        /\ j2.last = pg /\ j2.parent = j.parent /\ j2.child = j.child /\ j2.ws = w
        /\ j2.i = 0 /\ j2.script = Tail(j.script)
    BY <1>11, <2>1 DEF Forward, Job
  <2>3. job' = [job EXCEPT ![r] = j2] BY <1>12, <1>15, <2>1 DEF Become
  <2>4. j.i + 1 = PartOf(j).n BY <1>3, <1>8, <1>11, <1>15
  <2>40. rng \in Nat BY DEF IInv, TypeOK
  <2>41. RunIs(r, j2, futures, rng')
    BY <1>1, <1>2, <1>3, <1>5, <1>9, <1>13, <2>2, <2>4, <2>40, AccessRuns
  <2>42. RunIs(r, j2, futures', rng') BY <1>6, <2>41
  <2>5. j2.at \in Active /\ j2.at \in Holds BY <2>2 DEF Active, Holds
  <2>50. j2.made = Start(j) + Amount(PartOf(j))
    <3>1. j.made = Start(j) + j.i /\ Start(j) \in Nat BY <1>1, <1>2, AtPart
    <3>2. Amount(PartOf(j)) = PartOf(j).n BY <1>1, <1>3 DEF Amount
    <3> QED BY <1>9, <1>70, <2>2, <2>4, <3>1, <3>2
  <2>51. Index(j2) = Index(j) + 1 BY <1>1, <1>2, <2>2, <2>50, OnwardOnScript
  <2>6. Needs(j2) <= Needs(j) BY <1>1, <1>2, <1>3, <2>2, <2>51, NeedsAt
  <2>7. j2.at \notin {"begin", "precompute", "dispatch"} BY <2>2
  <2> QED BY <1>1, <1>5, <1>6, <1>7, <2>2, <2>3, <2>42, <2>5, <2>6, <2>7, QuietStep
<1>16. CASE pid \in processes \cap tables /\ jj.i # part.n
  <2>3. job' = [job EXCEPT ![r] = jj] BY <1>12, <1>16 DEF Become
  <2>4. j.i + 1 # PartOf(j).n /\ jj.i = j.i + 1 BY <1>3, <1>8, <1>11, <1>16
  <2>40. rng \in Nat BY DEF IInv, TypeOK
  <2>41. RunIs(r, jj, futures, rng')
    BY <1>1, <1>2, <1>3, <1>5, <1>9, <1>11, <1>13, <2>4, <2>40, AccessRuns
  <2>42. RunIs(r, jj, futures', rng') BY <1>6, <2>41
  <2>5. jj.at \in Active /\ jj.at \in Holds BY <1>11 DEF Active, Holds
  <2>6. Needs(jj) = Needs(j) BY <1>1, <1>11 DEF Needs, Index
  <2>60. Needs(jj) <= Needs(j)
    <3>1. Needs(j) \in Nat BY NeedsIs
    <3> QED BY <2>6, <3>1
  <2>7. jj.at \notin {"begin", "precompute", "dispatch"} BY <1>11
  <2> QED BY <1>1, <1>5, <1>6, <1>7, <1>11, <2>3, <2>42, <2>5, <2>60, <2>7, QuietStep
<1> QED BY <1>14, <1>15, <1>16

\* A run that is to take a number finds one.
LEMMA NumberLeft ==
    ASSUME IInv, NEW r \in Runs, job[r].at \in Active, Needs(job[r]) >= 1
    PROVE  nextPID + 1 \in PIDs
<1>1. started = r /\ r \in Nat BY Actor
<1>2. nextPID + 2 * (MaxRuns - started) + Needs(job[r]) <= MaxPID
  BY <1>1 DEF IInv, Numbers
<1>3. Needs(job[r]) \in Nat BY NeedsIs
<1>4. nextPID \in Nat /\ nextPID >= 1 /\ MaxRuns \in Nat /\ MaxPID \in Nat /\ started <= MaxRuns
  BY <1>1, Bounds DEF IInv, TypeOK, PIDs, Runs
<1> QED BY <1>1, <1>2, <1>3, <1>4 DEF PIDs

\* A step of a run that takes the next number, and may give it to a process.
LEMMA TakeStep ==
    ASSUME IInv, NEW r \in Runs, job[r].at = "run",
           NEW j2 \in Job, job' = [job EXCEPT ![r] = j2], RunIs(r, j2, futures, rng),
           j2.at \in {"run", "return"}, Needs(j2) + 1 <= Needs(job[r]), nextPID' = nextPID + 1,
           \/ /\ UNCHANGED <<processes, tables, maker>>
              /\ j2.parent = job[r].parent /\ j2.child = job[r].child
           \/ /\ Register(r)
              /\ j2.parent \in {job[r].parent, nextPID + 1}
              /\ j2.child \in {job[r].child, nextPID + 1},
           UNCHANGED <<optimal, futures, rng, lock, scenarioMu, started, reports, resets, resetting>>
    PROVE  IInv'
<1>0. job[r].at \in Active BY DEF Active
<1>1. /\ lock = r /\ started = r /\ r \in Nat /\ r > 0
      /\ \A q \in Runs \ {r} : job[q].at \in {"none", "end"} /\ lock # q
  BY <1>0, Actor
<1>2. RunIs(r, j2, futures', rng') OBVIOUS
<1>3. /\ job' \in [Runs -> Job] /\ job'[r] = j2 /\ AllRunsOK'
      /\ \A q \in Runs \ {r} : job'[q] = job[q]
  BY <1>0, <1>2, StepRuns
<1>4. Needs(j2) \in Nat /\ Needs(job[r]) \in Nat BY NeedsIs
<1>5. nextPID + 1 \in PIDs
  <2>1. Needs(job[r]) >= 1 BY <1>4
  <2> QED BY <1>0, <2>1, NumberLeft
<1>50. /\ nextPID \in Nat /\ nextPID >= 1 /\ MaxRuns \in Nat /\ MaxPID \in Nat
       /\ processes \subseteq PIDs /\ tables \subseteq PIDs /\ maker \in [PIDs -> Runs \cup {User}]
  BY Bounds DEF IInv, TypeOK, PIDs
<1>51. PICK pid \in PIDs : pid = nextPID + 1 BY <1>5
<1>6. /\ processes' \subseteq processes \cup {pid} /\ tables' \subseteq tables \cup {pid}
      /\ maker' \in [PIDs -> Runs \cup {User}]
      /\ \A p \in PIDs \ {pid} : maker'[p] = maker[p]
      /\ pid \in processes' => maker'[pid] = r \/ (pid \in processes /\ maker' = maker)
  <2>1. CASE UNCHANGED <<processes, tables, maker>> BY <1>50, <2>1
  <2>2. CASE Register(r)
    <3>1. /\ processes' = processes \cup {pid} /\ tables' = tables \cup {pid}
          /\ maker' = [maker EXCEPT ![pid] = r]
      BY <1>51, <2>2 DEF Register
    <3> QED BY <1>50, <3>1
  <2> QED BY <2>1, <2>2
<1>7. TypeOK'
  <2>1. processes' \subseteq PIDs /\ tables' \subseteq PIDs BY <1>50, <1>6
  <2> QED BY <1>3, <1>5, <1>6, <2>1 DEF IInv, TypeOK
<1>8. Serial'
  <2>1. lock' = r /\ started' = r BY <1>1
  <2>2. ASSUME NEW q \in Runs
        PROVE  /\ q > started' => job'[q] = NoJob
               /\ job'[q].at = "end" => q <= started'
               /\ q <= started' => job'[q].at # "none"
               /\ q <= started' /\ job'[q].at # "end" => lock' = q
               /\ lock' = q => job'[q].at \in Active
               /\ scenarioMu' = q => job'[q].at \in Holds
    <3>1. CASE q = r
      <4>1. j2.at # "end" /\ j2.at # "none" /\ j2.at \in Active /\ j2.at \in Holds
        BY DEF Active, Holds
      <4>2. ~(r > r) BY <1>1
      <4> QED BY <1>3, <2>1, <3>1, <4>1, <4>2
    <3>2. CASE q # r
      <4>1. job'[q] = job[q] /\ lock # q BY <1>1, <1>3, <3>2
      <4> QED BY <4>1 DEF IInv, Serial
    <3> QED BY <3>1, <3>2
  <2> QED BY <1>1, <2>1, <2>2 DEF Serial
<1>9. Undrawn'
  <2>1. started' # 0 BY <1>1
  <2>2. ASSUME 1 \in Runs PROVE job'[1].at \notin {"begin", "precompute", "dispatch"}
    BY <1>1, <1>3, <2>2
  <2> QED BY <2>1, <2>2 DEF Undrawn
<1>10. Numbers'
  <2>1. nextPID + 2 * (MaxRuns - started) + Needs(job[r]) <= MaxPID
    BY <1>1 DEF IInv, Numbers
  <2>4. nextPID' + 2 * (MaxRuns - started) + Needs(j2) <= MaxPID
    BY <1>1, <1>4, <1>50, <2>1
  <2>5. nextPID' + 2 * (MaxRuns - started) <= MaxPID BY <1>1, <1>4, <1>50, <2>4
  <2>6. Needs(job'[r]) = Needs(j2) BY <1>3
  <2>7. \A q \in Runs : nextPID' + 2 * (MaxRuns - started') + Needs(job'[q]) <= MaxPID
                          \/ q # started'
    BY <1>1, <2>4, <2>6
  <2> QED BY <2>5, <2>7 DEF Numbers
<1>11. Owned'
  <2> SUFFICES ASSUME resets = 0
               PROVE  /\ \A p \in processes' : p <= nextPID'
                      /\ \A q \in Runs : job'[q].parent <= nextPID' /\ job'[q].child <= nextPID'
    BY DEF Owned
  <2>1. /\ \A p \in processes : p <= nextPID /\ p \in Nat
        /\ \A q \in Runs : /\ job[q].parent <= nextPID /\ job[q].child <= nextPID
                            /\ job[q].parent \in Nat /\ job[q].child \in Nat
    <3>1. \A p \in PIDs : p \in Nat BY Bounds DEF PIDs
    <3>2. \A q \in Runs : job[q] \in Job BY DEF IInv, TypeOK
    <3>3. \A q \in Runs : job[q].parent \in PIDs \cup {0} /\ job[q].child \in PIDs \cup {0}
      BY <3>2 DEF Job
    <3>4. \A q \in Runs : job[q].parent \in Nat /\ job[q].child \in Nat BY <3>1, <3>3
    <3>5. \A p \in processes : p <= nextPID BY DEF IInv, Owned
    <3>6. \A q \in Runs : job[q].parent <= nextPID /\ job[q].child <= nextPID BY DEF IInv, Owned
    <3> QED BY <1>50, <3>1, <3>4, <3>5, <3>6
  <2>2. \A p \in Nat : p <= nextPID => p <= nextPID' BY <1>50
  <2>3. pid \in Nat /\ pid <= nextPID' BY <1>50, <1>51
  <2>4. \A p \in processes' : p <= nextPID' BY <1>6, <2>1, <2>2, <2>3
  <2>5. j2.parent <= nextPID' /\ j2.child <= nextPID'
    BY <1>51, <2>1, <2>2, <2>3
  <2>6. \A q \in Runs : job'[q].parent <= nextPID' /\ job'[q].child <= nextPID'
    BY <1>3, <2>1, <2>2, <2>5
  <2> QED BY <2>4, <2>6
<1>12. OwnProcesses'
  <2> SUFFICES ASSUME NEW q \in Runs, resets = 0,
                      NEW p \in {job'[q].parent, job'[q].child} \cap processes'
               PROVE  maker'[p] = q
    BY DEF OwnProcesses
  <2>1. p \in PIDs /\ p # 0
    <3>1. p \in PIDs BY <1>50, <1>6
    <3> QED BY <1>50, <3>1 DEF PIDs
  <2>2. CASE q # r
    <3>1. job'[q] = job[q] /\ job[q].at \in {"none", "end"} BY <1>1, <1>3, <2>2
    <3>2. job[q].parent = 0 /\ job[q].child = 0 BY <3>1 DEF IInv, AllRunsOK, RunIs, NoProcess
    <3> QED BY <2>1, <3>1, <3>2
  <2>3. CASE q = r
    <3>1. pid \notin processes
      BY <1>50, <1>51 DEF IInv, Owned
    <3>2. p = pid => maker'[p] = r BY <1>6, <3>1
    <3>3. ASSUME p # pid PROVE maker'[p] = r
      <4>1. p \in processes /\ p \in {job[r].parent, job[r].child}
        BY <1>3, <1>51, <1>6, <2>3, <3>3
      <4>2. maker[p] = r BY <4>1 DEF IInv, OwnProcesses
      <4> QED BY <1>6, <2>1, <3>3, <4>2
    <3> QED BY <2>3, <3>2, <3>3
  <2> QED BY <2>2, <2>3
<1> QED BY <1>3, <1>7, <1>8, <1>9, <1>10, <1>11, <1>12 DEF IInv

\* What a run knows of the process part that it is at.
LEMMA AtProcessPart ==
    ASSUME IInv, NEW r \in Runs, Doing(r, {"create", "fork"})
    PROVE  /\ job[r] \in Job /\ job[r].at = "run" /\ RunIs(r, job[r], futures, rng)
           /\ job[r].script # <<>> /\ job[r].scenario \in Names /\ OnScript(job[r])
           /\ Part1(r) = PartOf(job[r]) /\ PartOf(job[r]).kind \notin Accesses
           /\ \A j2 \in Job :
                j2.made = job[r].made => j2.made = Start(job[r]) + Amount(PartOf(job[r]))
<1> DEFINE j == job[r]
<1>1. j \in Job /\ j.at = "run" /\ RunIs(r, j, futures, rng) /\ j.script # <<>>
  BY DEF IInv, TypeOK, AllRunsOK, Doing, At
<1>2. j.scenario \in Names /\ OnScript(j) BY <1>1 DEF RunIs, Known
<1>3. /\ Part1(r) = PartOf(j) /\ Start(j) \in Nat /\ j.made = Start(j) + j.i
      /\ Head(j.script) = PartOf(j)
  BY <1>1, <1>2, AtPart DEF Part1
<1>4. PartOf(j).kind \notin Accesses BY <1>3 DEF Doing, Accesses
<1>5. j.i = 0 BY <1>1, <1>2, <1>3, <1>4 DEF OnScript
<1>6. Amount(PartOf(j)) = 0 BY <1>4 DEF Amount
<1>7. j.made = Start(j) + Amount(PartOf(j)) BY <1>3, <1>5, <1>6
<1> QED BY <1>1, <1>2, <1>3, <1>4, <1>7

\* The creation of the process of a run keeps it.
LEMMA CreateStep == ASSUME IInv, NEW r \in Runs, CreateProcess(r) PROVE IInv'
<1> DEFINE j == job[r]
<1>0. Doing(r, {"create", "fork"}) /\ Part1(r).kind = "create" BY DEF CreateProcess, Doing
<1>1. /\ j \in Job /\ j.at = "run" /\ RunIs(r, j, futures, rng) /\ j.script # <<>>
      /\ j.scenario \in Names /\ OnScript(j) /\ PartOf(j).kind = "create"
      /\ PartOf(j).kind \notin Accesses
      /\ \A j2 \in Job : j2.made = j.made => j2.made = Start(j) + Amount(PartOf(j))
  BY <1>0, AtProcessPart
<1>2. UNCHANGED <<optimal, futures, rng, lock, scenarioMu, started, reports, resets, resetting>>
  BY DEF CreateProcess, policy, locks, users
<1>3. rng \in Nat BY DEF IInv, TypeOK
<1>4. j.script \in Seq(Parts) /\ Tail(j.script) \in Seq(Parts)
  <2>1. j.script \in Seq(Parts) BY <1>1 DEF Job
  <2> QED BY <1>1, <2>1
<1>5. PICK j1 \in Job : j1 = Forward(j) BY <1>1, <1>4 DEF Forward, Job
<1>6. /\ j1.at = "run" /\ j1.scenario = j.scenario /\ j1.failed = j.failed /\ j1.made = j.made
      /\ j1.last = j.last /\ j1.i = 0 /\ j1.script = Tail(j.script) /\ j1.child = j.child
      /\ j1.parent = j.parent
  BY <1>1, <1>5 DEF Forward, Job
<1>7. Index(j1) = Index(j) + 1 BY <1>1, <1>6, OnwardOnScript
<1>8. Needs(j) = 2 BY <1>1, <1>6, <1>7, NeedsAt
<1>9. nextPID + 1 \in PIDs
  <2>1. j.at \in Active BY <1>1 DEF Active
  <2>2. Needs(j) >= 1 BY <1>8
  <2> QED BY <2>1, <2>2, NumberLeft
<1>10. CASE nextPID + 1 \in tables
  <2>1. PICK j2 \in Job : j2 = Fail(j) BY <1>1 DEF Fail, Job, Places
  <2>2. /\ j2.at = "return" /\ j2.failed /\ j2.scenario = j.scenario /\ j2.made = j.made
        /\ j2.last = j.last /\ j2.parent = j.parent /\ j2.child = j.child
    BY <1>1, <2>1 DEF Fail, Job
  <2>3. /\ job' = [job EXCEPT ![r] = j2] /\ nextPID' = nextPID + 1
        /\ UNCHANGED <<processes, tables, maker>>
    BY <1>10, <2>1 DEF CreateProcess, Become
  <2>4. RunIs(r, j2, futures, rng) BY <1>1, <2>2, FailRuns
  <2>5. Needs(j2) = 0 BY <2>2, NeedsLate
  <2>6. Needs(j2) + 1 <= Needs(j) BY <1>8, <2>5
  <2> QED BY <1>1, <1>2, <2>2, <2>3, <2>4, <2>6, TakeStep
<1>11. CASE nextPID + 1 \notin tables
  <2>0. PICK pid \in PIDs : pid = nextPID + 1 BY <1>9
  <2>1. PICK j2 \in Job : j2 = [j1 EXCEPT !.parent = pid] BY DEF Job
  <2>2. /\ j2.at = "run" /\ j2.scenario = j.scenario /\ j2.failed = j.failed /\ j2.made = j.made
        /\ j2.last = j.last /\ j2.i = 0 /\ j2.script = Tail(j.script) /\ j2.child = j.child
        /\ j2.parent = pid
    BY <1>6, <2>1 DEF Job
  <2>3. Register(r) /\ nextPID' = nextPID + 1 BY <1>11 DEF CreateProcess, Register
  <2>4. job' = [job EXCEPT ![r] = j2]
    <3>1. Become(r, [Forward(j) EXCEPT !.parent = nextPID']) BY <1>11 DEF CreateProcess
    <3>2. nextPID' = pid BY <2>0, <2>3
    <3> QED BY <1>5, <2>1, <3>1, <3>2 DEF Become
  <2>5. RunIs(r, j2, futures, rng) BY <1>1, <1>3, <2>2, ForwardRuns
  <2>6. Index(j2) = Index(j) + 1 BY <1>1, <2>2, OnwardOnScript
  <2>7. Needs(j2) <= 1 /\ Needs(j2) \in Nat BY <1>1, <2>2, <2>6, NeedsAt, NeedsIs
  <2>8. Needs(j2) + 1 <= Needs(j) BY <1>8, <2>7
  <2> QED BY <1>1, <1>2, <2>0, <2>2, <2>3, <2>4, <2>5, <2>8, TakeStep
<1> QED BY <1>10, <1>11

\* The fork of its child keeps it.
LEMMA ForkStep == ASSUME IInv, NEW r \in Runs, ForkProcess(r) PROVE IInv'
<1> DEFINE j == job[r]
<1>0. Doing(r, {"create", "fork"}) /\ Part1(r).kind = "fork" BY DEF ForkProcess, Doing
<1>1. /\ j \in Job /\ j.at = "run" /\ RunIs(r, j, futures, rng) /\ j.script # <<>>
      /\ j.scenario \in Names /\ OnScript(j) /\ PartOf(j).kind = "fork"
      /\ PartOf(j).kind \notin Accesses
      /\ \A j2 \in Job : j2.made = j.made => j2.made = Start(j) + Amount(PartOf(j))
  BY <1>0, AtProcessPart
<1>2. UNCHANGED <<optimal, futures, rng, lock, scenarioMu, started, reports, resets, resetting>>
  BY DEF ForkProcess, policy, locks, users
<1>3. rng \in Nat BY DEF IInv, TypeOK
<1>4. j.script \in Seq(Parts) /\ Tail(j.script) \in Seq(Parts)
  <2>1. j.script \in Seq(Parts) BY <1>1 DEF Job
  <2> QED BY <1>1, <2>1
<1>5. PICK j1 \in Job : j1 = Forward(j) BY <1>1, <1>4 DEF Forward, Job
<1>6. /\ j1.at = "run" /\ j1.scenario = j.scenario /\ j1.failed = j.failed /\ j1.made = j.made
      /\ j1.last = j.last /\ j1.i = 0 /\ j1.script = Tail(j.script) /\ j1.child = j.child
      /\ j1.parent = j.parent
  BY <1>1, <1>5 DEF Forward, Job
<1>7. Index(j1) = Index(j) + 1 BY <1>1, <1>6, OnwardOnScript
<1>8. Needs(j) = 1 BY <1>1, <1>6, <1>7, NeedsAt
<1>80. j.at \in Active BY <1>1 DEF Active
<1>9. nextPID + 1 \in PIDs
  <2>2. Needs(j) >= 1 BY <1>8
  <2> QED BY <1>80, <2>2, NumberLeft
<1>10. CASE j.parent \notin processes
  <2>1. PICK j2 \in Job : j2 = Fail(j) BY <1>1 DEF Fail, Job, Places
  <2>2. /\ j2.at = "return" /\ j2.failed /\ j2.scenario = j.scenario /\ j2.made = j.made
        /\ j2.last = j.last /\ j2.parent = j.parent /\ j2.child = j.child
    BY <1>1, <2>1 DEF Fail, Job
  <2>3. job' = [job EXCEPT ![r] = j2] /\ UNCHANGED <<processes, tables, nextPID, maker>>
    BY <1>10, <2>1 DEF ForkProcess, Become
  <2>4. RunIs(r, j2, futures', rng') BY <1>1, <1>2, <2>2, FailRuns
  <2>5. j2.at \in Active /\ j2.at \in Holds BY <2>2 DEF Active, Holds
  <2>6. Needs(j2) <= Needs(j) BY <2>2, NeedsLate
  <2>7. j2.at \notin {"begin", "precompute", "dispatch"} BY <2>2
  <2>8. /\ rng' \in Nat /\ reports' \in Seq(Runs) /\ scenarioMu' \in Runs \cup {0}
        /\ (~optimal => futures' = <<>>)
    BY <1>2 DEF IInv, TypeOK
  <2> QED BY <1>1, <1>2, <1>80, <2>2, <2>3, <2>4, <2>5, <2>6, <2>7, <2>8, QuietStep
<1>12. CASE j.parent \in processes \ tables
  <2>1. PICK j2 \in Job : j2 = Fail(j) BY <1>1 DEF Fail, Job, Places
  <2>2. /\ j2.at = "return" /\ j2.failed /\ j2.scenario = j.scenario /\ j2.made = j.made
        /\ j2.last = j.last /\ j2.parent = j.parent /\ j2.child = j.child
    BY <1>1, <2>1 DEF Fail, Job
  <2>3. /\ job' = [job EXCEPT ![r] = j2] /\ UNCHANGED <<processes, tables, maker>>
        /\ nextPID' = nextPID + 1
    BY <1>12, <2>1 DEF ForkProcess, Become
  <2>4. RunIs(r, j2, futures, rng) BY <1>1, <2>2, FailRuns
  <2>5. Needs(j2) = 0 BY <2>2, NeedsLate
  <2>6. Needs(j2) + 1 <= Needs(j) BY <1>8, <2>5
  <2> QED BY <1>1, <1>2, <2>2, <2>3, <2>4, <2>6, TakeStep
<1>11. CASE j.parent \in processes \cap tables
  <2>0. PICK pid \in PIDs : pid = nextPID + 1 BY <1>9
  <2>1. PICK j2 \in Job : j2 = [j1 EXCEPT !.child = pid] BY DEF Job
  <2>2. /\ j2.at = "run" /\ j2.scenario = j.scenario /\ j2.failed = j.failed /\ j2.made = j.made
        /\ j2.last = j.last /\ j2.i = 0 /\ j2.script = Tail(j.script) /\ j2.parent = j.parent
        /\ j2.child = pid
    BY <1>6, <2>1 DEF Job
  <2>3. Register(r) /\ nextPID' = nextPID + 1 BY <1>11 DEF ForkProcess, Register
  <2>4. job' = [job EXCEPT ![r] = j2]
    <3>1. Become(r, [Forward(j) EXCEPT !.child = nextPID']) BY <1>11 DEF ForkProcess
    <3>2. nextPID' = pid BY <2>0, <2>3
    <3> QED BY <1>5, <2>1, <3>1, <3>2 DEF Become
  <2>5. RunIs(r, j2, futures, rng) BY <1>1, <1>3, <2>2, ForwardRuns
  <2>6. Index(j2) = Index(j) + 1 BY <1>1, <2>2, OnwardOnScript
  <2>7. Needs(j2) = 0 BY <1>1, <2>2, <2>6, NeedsAt
  <2>8. Needs(j2) + 1 <= Needs(j) BY <1>8, <2>7
  <2> QED BY <1>1, <1>2, <2>0, <2>2, <2>3, <2>4, <2>5, <2>8, TakeStep
<1> QED BY <1>10, <1>11, <1>12

\* A run that gives up the simulator keeps it.
LEMMA UnlockStep == ASSUME IInv, NEW r \in Runs, Unlock(r) PROVE IInv'
<1> DEFINE j == job[r]
<1>1. /\ j \in Job /\ j.at = "unlock" /\ j.at \in Active /\ RunIs(r, j, futures, rng)
      /\ j.at \notin Holds
  BY DEF IInv, TypeOK, AllRunsOK, Unlock, At, Active, Holds
<1>2. PICK j2 \in Job : j2 = [NoJob EXCEPT !.at = "end"]
  BY NoJobIs DEF Job, Places
<1>3. /\ j2.at = "end" /\ ~j2.failed /\ j2.made = 0 /\ j2.i = 0 /\ j2.parent = 0 /\ j2.child = 0
  BY <1>2, NoJobIs DEF Job
<1>4. job' = [job EXCEPT ![r] = j2] BY <1>2 DEF Unlock, Become
<1>5. /\ UNCHANGED <<optimal, futures, rng, processes, tables, nextPID, maker, scenarioMu, started,
                     reports, resets, resetting>>
      /\ lock' = 0
  BY DEF Unlock, policy, procs, users
<1>6. /\ lock = r /\ started = r /\ r \in Nat /\ r > 0
      /\ \A q \in Runs \ {r} : job[q].at \in {"none", "end"} /\ lock # q
  BY <1>1, Actor
<1>7. RunIs(r, j2, futures', rng')
  <2>1. j2.at \in {"none", "begin", "end"} BY <1>3
  <2> QED BY <1>3, <2>1, IdleRuns
<1>8. /\ job' \in [Runs -> Job] /\ job'[r] = j2 /\ AllRunsOK'
      /\ \A q \in Runs \ {r} : job'[q] = job[q]
  BY <1>1, <1>4, <1>7, StepRuns
<1>9. TypeOK' BY <1>5, <1>8 DEF IInv, TypeOK
<1>10. Serial'
  <2>1. lock' = 0 /\ started' = r BY <1>5, <1>6
  <2>2. ASSUME NEW q \in Runs
        PROVE  /\ q > started' => job'[q] = NoJob
               /\ job'[q].at = "end" => q <= started'
               /\ q <= started' => job'[q].at # "none"
               /\ q <= started' /\ job'[q].at # "end" => lock' = q
               /\ lock' = q => job'[q].at \in Active
               /\ scenarioMu' = q => job'[q].at \in Holds
    <3>0. q # 0 BY DEF Runs
    <3>1. CASE q = r
      <4>1. ~(r > r) /\ r <= r BY <1>6
      <4>2. scenarioMu # r BY <1>1 DEF IInv, Serial
      <4> QED BY <1>3, <1>5, <1>8, <2>1, <3>0, <3>1, <4>1, <4>2
    <3>2. CASE q # r
      <4>1. job'[q] = job[q] /\ lock # q BY <1>6, <1>8, <3>2
      <4> QED BY <1>5, <1>6, <2>1, <3>0, <4>1 DEF IInv, Serial
    <3> QED BY <3>1, <3>2
  <2> QED BY <2>1, <2>2 DEF Serial
<1>11. Undrawn'
  <2>1. started' # 0 BY <1>5, <1>6
  <2>2. ASSUME 1 \in Runs PROVE job'[1].at \notin {"begin", "precompute", "dispatch"}
    BY <1>3, <1>6, <1>8, <2>2
  <2> QED BY <2>1, <2>2 DEF Undrawn
<1>12. Numbers'
  <2>1. nextPID + 2 * (MaxRuns - started) <= MaxPID /\ MaxRuns \in Nat /\ nextPID \in Nat
    BY Bounds DEF IInv, Numbers, TypeOK, PIDs
  <2>2. Needs(j2) = 0 BY <1>3, NeedsLate
  <2>3. nextPID + 2 * (MaxRuns - started) + Needs(j2) <= MaxPID BY <1>6, <2>1, <2>2
  <2>4. Needs(job'[r]) = Needs(j2) BY <1>8
  <2>5. \A q \in Runs : nextPID' + 2 * (MaxRuns - started') + Needs(job'[q]) <= MaxPID
                          \/ q # started'
    BY <1>5, <1>6, <2>3, <2>4
  <2> QED BY <1>5, <2>1, <2>5 DEF Numbers
<1>13. Owned'
  <2>1. nextPID \in Nat /\ 0 <= nextPID BY Bounds DEF IInv, TypeOK, PIDs
  <2> QED BY <1>3, <1>5, <1>8, <2>1 DEF IInv, Owned
<1>14. OwnProcesses'
  <2> SUFFICES ASSUME NEW q \in Runs, resets = 0,
                      NEW pid \in {job'[q].parent, job'[q].child} \cap processes
               PROVE  maker[pid] = q
    BY <1>5 DEF OwnProcesses
  <2>1. pid # 0 BY Bounds DEF IInv, TypeOK, PIDs
  <2>2. pid \in {job[q].parent, job[q].child} BY <1>3, <1>8, <2>1
  <2> QED BY <2>2 DEF IInv, OwnProcesses
<1> QED BY <1>8, <1>9, <1>10, <1>11, <1>12, <1>13, <1>14 DEF IInv

\* A request for a run keeps it.
LEMMA HandleStep == ASSUME IInv, NEW sc \in Scenarios, HandleRunSimulation(sc) PROVE IInv'
<1>0. /\ started \in Nat /\ MaxRuns \in Nat /\ started < MaxRuns /\ lock = 0 /\ nextPID \in Nat
      /\ MaxPID \in Nat /\ nextPID >= 1
  BY Bounds DEF HandleRunSimulation, IInv, TypeOK, PIDs
<1>1. PICK r \in Runs : r = started + 1 BY <1>0 DEF Runs
<1>10. r \in Nat /\ r > started /\ r > 0 BY <1>0, <1>1
<1>2. PICK j2 \in Job : j2 = [NoJob EXCEPT !.at = "begin", !.scenario = sc]
  <2>1. sc \in Names \cup {Unknown} BY SimulatorAssumption
  <2> QED BY <2>1, NoJobIs DEF Job, Places
<1>3. /\ j2.at = "begin" /\ ~j2.failed /\ j2.made = 0 /\ j2.i = 0 /\ j2.parent = 0 /\ j2.child = 0
      /\ j2.at \in Active
  BY <1>2, NoJobIs DEF Job, Active
<1>4. job' = [job EXCEPT ![r] = j2] /\ started' = r /\ lock' = r
  BY <1>1, <1>2 DEF HandleRunSimulation, Become
<1>5. UNCHANGED <<optimal, futures, rng, processes, tables, nextPID, maker, scenarioMu,
                  reports, resets, resetting>>
  BY DEF HandleRunSimulation, policy, procs, users
<1>6. \A q \in Runs : job[q].at \in {"none", "end"} /\ q # 0
  <2> SUFFICES ASSUME NEW q \in Runs PROVE job[q].at \in {"none", "end"} /\ q # 0 OBVIOUS
  <2>0. q \in Nat /\ q # 0 BY DEF Runs
  <2>1. CASE q > started BY <2>0, <2>1, NoJobIs DEF IInv, Serial
  <2>2. CASE q <= started BY <1>0, <2>0, <2>2 DEF IInv, Serial
  <2> QED BY <1>0, <2>0, <2>1, <2>2
<1>60. job \in [Runs -> Job] BY DEF IInv, TypeOK
<1>7. RunIs(r, j2, futures', rng')
  <2>1. j2.at \in {"none", "begin", "end"} BY <1>3
  <2> QED BY <1>3, <2>1, IdleRuns
<1>8. /\ job' \in [Runs -> Job] /\ job'[r] = j2
      /\ \A q \in Runs \ {r} : job'[q] = job[q]
  BY <1>4, <1>60
<1>80. AllRunsOK'
  <2>1. \A q \in Runs : RunIs(q, job[q], futures', rng') BY <1>5 DEF IInv, AllRunsOK
  <2>2. \A q \in Runs : RunIs(q, job'[q], futures', rng') BY <1>7, <1>8, <2>1
  <2> QED BY <2>2 DEF AllRunsOK
<1>9. TypeOK'
  <2>1. started' \in 0 .. MaxRuns BY <1>4, <1>10 DEF Runs
  <2> QED BY <1>4, <1>5, <1>8, <2>1 DEF IInv, TypeOK
<1>11. Serial'
  <2>2. ASSUME NEW q \in Runs
        PROVE  /\ q > started' => job'[q] = NoJob
               /\ job'[q].at = "end" => q <= started'
               /\ q <= started' => job'[q].at # "none"
               /\ q <= started' /\ job'[q].at # "end" => lock' = q
               /\ lock' = q => job'[q].at \in Active
               /\ scenarioMu' = q => job'[q].at \in Holds
    <3>0. q \in Nat BY DEF Runs
    <3>1. CASE q = r
      <4>1. ~(r > r) BY <1>10
      <4>2. scenarioMu # r
        <5>1. job[r].at \notin Holds BY <1>6 DEF Holds
        <5> QED BY <5>1 DEF IInv, Serial
      <4> QED BY <1>3, <1>4, <1>5, <1>8, <3>1, <4>1, <4>2
    <3>2. CASE q # r
      <4>1. job'[q] = job[q] BY <1>8, <3>2
      <4>2. q > r => q > started BY <1>0, <1>1, <3>0
      <4>3. q <= r => q <= started BY <1>0, <1>1, <3>0, <3>2
      <4>4. q <= started => q <= r BY <1>0, <1>1, <3>0
      <4>5. q <= started => job[q].at = "end" BY <1>6 DEF IInv, Serial
      <4> QED BY <1>4, <1>5, <3>2, <4>1, <4>2, <4>3, <4>4, <4>5 DEF IInv, Serial
    <3> QED BY <3>1, <3>2
  <2> QED BY <1>4, <2>2 DEF Serial
<1>12. Undrawn'
  <2>1. started' # 0 BY <1>4, <1>10
  <2>2. ASSUME 1 \in Runs, job'[1].at \in {"begin", "precompute", "dispatch"} PROVE rng' = 0
    <3>1. r = 1 BY <1>6, <1>8, <2>2
    <3>2. started = 0 BY <1>0, <1>1, <3>1
    <3> QED BY <1>5, <3>2 DEF IInv, Undrawn
  <2> QED BY <2>1, <2>2 DEF Undrawn
<1>13. Numbers'
  <2>1. nextPID + 2 * (MaxRuns - started) <= MaxPID BY DEF IInv, Numbers
  <2>2. Needs(j2) = 2 BY <1>3 DEF Needs
  <2>3. nextPID + 2 * (MaxRuns - r) + 2 <= MaxPID BY <1>0, <1>1, <2>1
  <2>4. nextPID + 2 * (MaxRuns - r) <= MaxPID BY <1>0, <1>10, <2>3
  <2>5. Needs(job'[r]) = Needs(j2) BY <1>8
  <2>6. \A q \in Runs : nextPID' + 2 * (MaxRuns - started') + Needs(job'[q]) <= MaxPID
                          \/ q # started'
    BY <1>4, <1>5, <2>2, <2>3, <2>5
  <2> QED BY <1>4, <1>5, <2>4, <2>6 DEF Numbers
<1>14. Owned'
  <2>1. 0 <= nextPID BY <1>0
  <2> QED BY <1>3, <1>5, <1>8, <2>1 DEF IInv, Owned
<1>15. OwnProcesses'
  <2> SUFFICES ASSUME NEW q \in Runs, resets = 0,
                      NEW pid \in {job'[q].parent, job'[q].child} \cap processes
               PROVE  maker[pid] = q
    BY <1>5 DEF OwnProcesses
  <2>1. pid # 0 BY Bounds DEF IInv, TypeOK, PIDs
  <2>2. pid \in {job[q].parent, job[q].child} BY <1>3, <1>8, <2>1
  <2> QED BY <2>2 DEF IInv, OwnProcesses
<1> QED BY <1>80, <1>9, <1>11, <1>12, <1>13, <1>14, <1>15 DEF IInv

-----------------------------------------------------------------------------
(* The steps of users *)

\* What no step of a user touches.
LEMMA UserKeeps ==
    ASSUME IInv, UNCHANGED <<rng, lock, scenarioMu, started, job>>,
           futures' = futures \/ futures' = <<>>
    PROVE  Serial' /\ Undrawn' /\ AllRunsOK'
<1>1. Serial' BY DEF IInv, Serial
<1>2. Undrawn' BY DEF IInv, Undrawn
<1>3. ASSUME NEW r \in Runs PROVE RunIs(r, job[r], futures', rng)
  <2>1. RunIs(r, job[r], futures, rng) /\ job[r] \in Job BY DEF IInv, AllRunsOK, TypeOK
  <2>2. RunIs(r, job[r], <<>>, rng) BY <2>1, ForgetRuns
  <2> QED BY <2>1, <2>2
<1>4. AllRunsOK' BY <1>3 DEF AllRunsOK
<1> QED BY <1>1, <1>2, <1>4

\* SetAlgorithm keeps it.
LEMMA AlgorithmStep == ASSUME IInv, NEW opt \in BOOLEAN, SetAlgorithm(opt) PROVE IInv'
<1>1. /\ UNCHANGED <<rng, processes, tables, nextPID, maker, lock, scenarioMu, started, job, reports,
                     resets, resetting>>
      /\ optimal' \in BOOLEAN /\ futures' = <<>>
  BY DEF SetAlgorithm, procs, locks, users
<1>2. Serial' /\ Undrawn' /\ AllRunsOK' BY <1>1, UserKeeps
<1>3. TypeOK' BY <1>1 DEF IInv, TypeOK
<1>4. Numbers' /\ Owned' BY <1>1 DEF IInv, Numbers, Owned
<1>5. OwnProcesses' BY <1>1 DEF IInv, OwnProcesses
<1> QED BY <1>2, <1>3, <1>4, <1>5 DEF IInv

\* A reset of the memory keeps it.
LEMMA ResetMemoryStep == ASSUME IInv, ResetMemory PROVE IInv'
<1>1. /\ UNCHANGED <<optimal, rng, processes, nextPID, maker, lock, scenarioMu, started, job, reports,
                     resets>>
      /\ futures' = <<>> /\ tables' = {} /\ resetting' = FALSE
  BY DEF ResetMemory, locks
<1>2. Serial' /\ Undrawn' /\ AllRunsOK' BY <1>1, UserKeeps
<1>3. TypeOK' BY <1>1 DEF IInv, TypeOK
<1>4. Numbers' /\ Owned' BY <1>1 DEF IInv, Numbers, Owned
<1>5. OwnProcesses' BY <1>1 DEF IInv, OwnProcesses
<1> QED BY <1>2, <1>3, <1>4, <1>5 DEF IInv

\* A process that is terminated from outside keeps it.
LEMMA TerminateStep == ASSUME IInv, NEW p \in PIDs, Terminate(p) PROVE IInv'
<1>1. /\ UNCHANGED <<optimal, futures, rng, nextPID, lock, scenarioMu, started, job, reports, resets,
                     resetting>>
      /\ processes' = processes \ {p} /\ tables' = tables \ {p}
      /\ maker' = [maker EXCEPT ![p] = User]
  BY DEF Terminate, policy, locks, users
<1>2. Serial' /\ Undrawn' /\ AllRunsOK' BY <1>1, UserKeeps
<1>3. /\ maker' \in [PIDs -> Runs \cup {User}]
      /\ \A q \in PIDs \ {p} : maker'[q] = maker[q]
  BY <1>1 DEF IInv, TypeOK
<1>4. TypeOK'
  <2>1. processes' \subseteq PIDs /\ tables' \subseteq PIDs BY <1>1 DEF IInv, TypeOK
  <2> QED BY <1>1, <1>3, <2>1 DEF IInv, TypeOK
<1>5. Numbers' BY <1>1 DEF IInv, Numbers
<1>6. Owned' BY <1>1 DEF IInv, Owned
<1>7. OwnProcesses'
  <2> SUFFICES ASSUME NEW q \in Runs, resets = 0,
                      NEW pid \in {job[q].parent, job[q].child} \cap processes'
               PROVE  maker'[pid] = q
    BY <1>1 DEF OwnProcesses
  <2>1. pid \in processes /\ pid # p BY <1>1
  <2>2. pid \in PIDs BY <2>1 DEF IInv, TypeOK
  <2>3. maker[pid] = q BY <2>1 DEF IInv, OwnProcesses
  <2> QED BY <1>3, <2>1, <2>2, <2>3
<1> QED BY <1>2, <1>4, <1>5, <1>6, <1>7 DEF IInv

\* A reset of the process manager keeps it.
LEMMA ResetProcessesStep == ASSUME IInv, ResetProcesses PROVE IInv'
<1>1. /\ UNCHANGED <<optimal, futures, rng, lock, scenarioMu, started, job, reports>>
      /\ processes' = {} /\ tables' \subseteq tables /\ nextPID' = 1
      /\ maker' = [pid \in PIDs |-> User] /\ resets' = resets + 1 /\ resetting' = TRUE
      /\ resets < MaxResets
  BY DEF ResetProcesses, policy, locks
<1>2. Serial' /\ Undrawn' /\ AllRunsOK' BY <1>1, UserKeeps
<1>3. resets \in Nat /\ resets' \in 0 .. MaxResets /\ resets' # 0
  BY <1>1, Bounds DEF IInv, TypeOK
<1>4. 1 \in PIDs /\ MaxPID >= 2 * MaxRuns + 1 /\ MaxRuns \in Nat /\ MaxPID \in Nat
  BY Bounds DEF PIDs
<1>5. TypeOK'
  <2>1. tables' \subseteq PIDs /\ processes' \subseteq PIDs BY <1>1 DEF IInv, TypeOK
  <2>2. maker' \in [PIDs -> Runs \cup {User}] BY <1>1
  <2> QED BY <1>1, <1>3, <1>4, <2>1, <2>2 DEF IInv, TypeOK
<1>6. Numbers'
  <2>1. started \in 0 .. MaxRuns BY DEF IInv, TypeOK
  <2>2. 1 + 2 * (MaxRuns - started) <= MaxPID BY <1>4, <2>1
  <2>3. ASSUME NEW r \in Runs, r = started
        PROVE  1 + 2 * (MaxRuns - started) + Needs(job[r]) <= MaxPID
    <3>1. started >= 1 BY <2>3 DEF Runs
    <3>2. Needs(job[r]) \in Nat /\ Needs(job[r]) <= 2 BY NeedsIs
    <3> QED BY <1>4, <2>1, <3>1, <3>2
  <2>4. \A r \in Runs : nextPID' + 2 * (MaxRuns - started') + Needs(job'[r]) <= MaxPID
                          \/ r # started'
    BY <1>1, <2>3
  <2> QED BY <1>1, <2>2, <2>4 DEF Numbers
<1>7. Owned' BY <1>3 DEF Owned
<1>8. OwnProcesses' BY <1>3 DEF OwnProcesses
<1> QED BY <1>2, <1>5, <1>6, <1>7, <1>8 DEF IInv

\* The runs that are not over are those that were not started and the one that is active.
LEMMA UnfinishedIs ==
    ASSUME IInv
    PROVE  /\ Cardinality(Unfinished) \in Nat /\ Cardinality(Unfinished) >= MaxRuns - started
           /\ \A r \in Runs : r = started /\ job[r].at # "end" =>
                Cardinality(Unfinished) >= MaxRuns - started + 1
<1>1. started \in Nat /\ MaxRuns \in Nat /\ started <= MaxRuns BY Bounds DEF IInv, TypeOK
<1>2. \A r \in Runs : r > started => job[r].at # "end" BY NoJobIs DEF IInv, Serial
<1>3. /\ IsFiniteSet(Runs) /\ Unfinished \subseteq Runs
  BY <1>1, FS_Interval DEF Runs, Unfinished
<1>4. IsFiniteSet(Unfinished) /\ Cardinality(Unfinished) \in Nat
  BY <1>3, FS_Subset, FS_CardinalityType
<1> DEFINE later == (started + 1) .. MaxRuns
           now == started .. MaxRuns
<1>5. Cardinality(later) = MaxRuns - started
  <2>1. Cardinality(later) = IF started + 1 > MaxRuns THEN 0 ELSE MaxRuns - (started + 1) + 1
    BY <1>1, FS_Interval
  <2> HIDE DEF later
  <2> QED BY <1>1, <2>1
<1>6. Cardinality(now) = MaxRuns - started + 1
  <2>1. Cardinality(now) = IF started > MaxRuns THEN 0 ELSE MaxRuns - started + 1
    BY <1>1, FS_Interval
  <2> HIDE DEF now
  <2> QED BY <1>1, <2>1
<1>7. later \subseteq Unfinished BY <1>1, <1>2 DEF Runs, Unfinished
<1>8. Cardinality(later) <= Cardinality(Unfinished) BY <1>4, <1>7, FS_Subset
<1>9. ASSUME NEW r \in Runs, r = started, job[r].at # "end"
      PROVE  Cardinality(Unfinished) >= MaxRuns - started + 1
  <2>1. now \subseteq Unfinished
    <3> SUFFICES ASSUME NEW q \in now PROVE q \in Runs /\ job[q].at # "end" BY DEF Unfinished
    <3>1. q \in Runs BY <1>1, <1>9 DEF Runs
    <3>2. q = started \/ q > started BY <1>1
    <3> QED BY <1>2, <1>9, <3>1, <3>2
  <2>2. Cardinality(now) <= Cardinality(Unfinished) BY <1>4, <2>1, FS_Subset
  <2> HIDE DEF now
  <2> QED BY <1>1, <1>4, <1>6, <2>2
<1> HIDE DEF later
<1>10. Cardinality(Unfinished) >= MaxRuns - started BY <1>1, <1>4, <1>5, <1>8
<1> QED BY <1>4, <1>9, <1>10

\* A process created from outside keeps it.
LEMMA UserCreatesStep == ASSUME IInv, UserCreates PROVE IInv'
<1>1. /\ UNCHANGED <<optimal, futures, rng, lock, scenarioMu, started, job, reports, resets, resetting>>
      /\ Register(User) /\ nextPID + 2 * Cardinality(Unfinished) < MaxPID
  BY DEF UserCreates, Room, policy, locks, users
<1>2. Serial' /\ Undrawn' /\ AllRunsOK' BY <1>1, UserKeeps
<1>3. /\ nextPID \in Nat /\ nextPID >= 1 /\ MaxRuns \in Nat /\ MaxPID \in Nat /\ started \in Nat
      /\ processes \subseteq PIDs /\ tables \subseteq PIDs /\ maker \in [PIDs -> Runs \cup {User}]
      /\ started <= MaxRuns
  BY Bounds DEF IInv, TypeOK, PIDs
<1>4. PICK c \in Nat : c = Cardinality(Unfinished) BY UnfinishedIs
<1>5. /\ nextPID + 2 * c < MaxPID /\ c >= MaxRuns - started
      /\ \A r \in Runs : r = started /\ job[r].at # "end" => c >= MaxRuns - started + 1
  BY <1>1, <1>4, UnfinishedIs
<1>6. PICK p \in PIDs : p = nextPID + 1
  <2>1. nextPID + 1 \in 1 .. MaxPID BY <1>3, <1>5
  <2> QED BY <2>1 DEF PIDs
<1>7. /\ nextPID' = p /\ processes' = processes \cup {p} /\ tables' = tables \cup {p}
      /\ maker' = [maker EXCEPT ![p] = User]
  BY <1>1, <1>6 DEF Register
<1>8. /\ maker' \in [PIDs -> Runs \cup {User}]
      /\ \A q \in PIDs \ {p} : maker'[q] = maker[q]
  BY <1>3, <1>7
<1>9. TypeOK'
  <2>1. processes' \subseteq PIDs /\ tables' \subseteq PIDs /\ nextPID' \in PIDs BY <1>3, <1>7
  <2> QED BY <1>1, <1>8, <2>1 DEF IInv, TypeOK
<1>10. Numbers'
  <2>1. p + 2 * (MaxRuns - started) <= MaxPID BY <1>3, <1>5, <1>6
  <2>2. ASSUME NEW r \in Runs, r = started
        PROVE  p + 2 * (MaxRuns - started) + Needs(job[r]) <= MaxPID
    <3>1. CASE job[r].at = "end"
      <4>1. Needs(job[r]) = 0 BY <3>1, NeedsLate
      <4> QED BY <1>3, <1>6, <2>1, <4>1
    <3>2. CASE job[r].at # "end"
      <4>1. c >= MaxRuns - started + 1 BY <1>5, <2>2, <3>2
      <4>2. Needs(job[r]) \in Nat /\ Needs(job[r]) <= 2 BY NeedsIs
      <4> QED BY <1>3, <1>5, <1>6, <4>1, <4>2
    <3> QED BY <3>1, <3>2
  <2>3. \A r \in Runs : nextPID' + 2 * (MaxRuns - started') + Needs(job'[r]) <= MaxPID
                          \/ r # started'
    BY <1>1, <1>7, <2>2
  <2> QED BY <1>1, <1>7, <2>1, <2>3 DEF Numbers
<1>11. Owned'
  <2> SUFFICES ASSUME resets = 0
               PROVE  /\ \A q \in processes' : q <= p
                      /\ \A r \in Runs : job[r].parent <= p /\ job[r].child <= p
    BY <1>1, <1>7 DEF Owned
  <2>1. \A q \in PIDs \cup {0} : q \in Nat BY <1>3 DEF PIDs
  <2>2. \A q \in Nat : q <= nextPID => q <= p BY <1>3, <1>6
  <2>3. \A q \in processes : q <= p BY <1>3, <2>1, <2>2 DEF IInv, Owned
  <2>4. \A r \in Runs : job[r].parent \in PIDs \cup {0} /\ job[r].child \in PIDs \cup {0}
    BY DEF IInv, TypeOK, Job
  <2>5. \A r \in Runs : job[r].parent <= p /\ job[r].child <= p
    BY <2>1, <2>2, <2>4 DEF IInv, Owned
  <2>6. p <= p BY <2>1
  <2> QED BY <1>7, <2>3, <2>5, <2>6
<1>12. OwnProcesses'
  <2> SUFFICES ASSUME NEW q \in Runs, resets = 0,
                      NEW pid \in {job[q].parent, job[q].child} \cap processes'
               PROVE  maker'[pid] = q
    BY <1>1 DEF OwnProcesses
  <2>1. job[q].parent <= nextPID /\ job[q].child <= nextPID BY DEF IInv, Owned
  <2>2. pid # p BY <1>3, <1>6, <2>1
  <2>3. pid \in processes /\ pid \in PIDs BY <1>3, <1>7, <2>2
  <2>4. maker[pid] = q BY <2>3 DEF IInv, OwnProcesses
  <2> QED BY <1>8, <2>2, <2>3, <2>4
<1> QED BY <1>2, <1>9, <1>10, <1>11, <1>12 DEF IInv

-----------------------------------------------------------------------------
(* Theorems *)

\* The invariant holds at first.
LEMMA InitIInv == ASSUME Init PROVE IInv
<1>1. /\ optimal \in BOOLEAN /\ futures = <<>> /\ rng = 0 /\ processes = {} /\ tables = {}
      /\ nextPID = 1 /\ maker = [pid \in PIDs |-> User] /\ lock = 0 /\ scenarioMu = 0 /\ started = 0
      /\ job = [r \in Runs |-> NoJob] /\ reports = <<>> /\ resets = 0 /\ resetting = FALSE
  BY DEF Init
<1>2. /\ 1 \in PIDs /\ MaxRuns \in Nat /\ MaxResets \in Nat /\ MaxPID \in Nat
      /\ 1 + 2 * (MaxRuns - 0) <= MaxPID
  BY Bounds DEF PIDs
<1>3. \A r \in Runs : job[r] = NoJob /\ r \in Nat /\ r # 0 /\ r > 0 BY <1>1 DEF Runs
<1>4. TypeOK
  <2>1. job \in [Runs -> Job] BY <1>1, NoJobIs
  <2>2. reports \in Seq(Runs) BY <1>1, EmptySeq
  <2>3. maker \in [PIDs -> Runs \cup {User}] BY <1>1
  <2>4. started \in 0 .. MaxRuns /\ resets \in 0 .. MaxResets /\ rng \in Nat BY <1>1, <1>2
  <2>5. /\ processes \subseteq PIDs /\ tables \subseteq PIDs /\ nextPID \in PIDs
        /\ lock \in Runs \cup {0} /\ scenarioMu \in Runs \cup {0} /\ resetting \in BOOLEAN
    BY <1>1, <1>2
  <2> QED BY <1>1, <2>1, <2>2, <2>3, <2>4, <2>5, Zenon DEF TypeOK
<1>5. Serial BY <1>1, <1>3, NoJobIs DEF Serial
<1>6. AllRunsOK
  <2>1. NoJob.at \in {"none", "begin", "end"} BY NoJobIs
  <2>2. \A r \in Runs : RunIs(r, NoJob, futures, rng) BY <2>1, NoJobIs, IdleRuns
  <2> QED BY <1>3, <2>2 DEF AllRunsOK
<1>7. Undrawn BY <1>1 DEF Undrawn
<1>8. Numbers BY <1>1, <1>2, <1>3 DEF Numbers
<1>9. Owned
  <2>1. 0 <= 1 OBVIOUS
  <2> QED BY <1>1, <1>3, <2>1, NoJobIs DEF Owned
<1>10. OwnProcesses BY <1>1 DEF OwnProcesses
<1> QED BY <1>4, <1>5, <1>6, <1>7, <1>8, <1>9, <1>10 DEF IInv

\* Steps that change nothing keep it.
LEMMA StutterIInv == ASSUME IInv, UNCHANGED vars PROVE IInv'
<1>1. UNCHANGED <<optimal, futures, rng, processes, tables, nextPID, maker, lock, scenarioMu, started,
                  job, reports, resets, resetting>>
  BY DEF vars, policy, procs, locks, users
<1>2. Serial' /\ Undrawn' /\ AllRunsOK' BY <1>1, UserKeeps
<1>3. TypeOK' BY <1>1 DEF IInv, TypeOK
<1>4. Numbers' /\ Owned' BY <1>1 DEF IInv, Numbers, Owned
<1>5. OwnProcesses' BY <1>1 DEF IInv, OwnProcesses
<1> QED BY <1>2, <1>3, <1>4, <1>5 DEF IInv

\* Every step keeps it.
LEMMA NextIInv == ASSUME IInv, [Next]_vars PROVE IInv'
<1>1. ASSUME NEW sc \in Scenarios, HandleRunSimulation(sc) PROVE IInv' BY <1>1, HandleStep
<1>2. ASSUME NEW r \in Runs, Step(r) PROVE IInv'
  BY <1>2, BeginStep, PrecomputeStep, DispatchStep, CreateStep, ForkStep, AccessStep, FinishStep,
     ReturnStep, ReportStep, UnlockStep DEF Step
<1>3. ASSUME NEW opt \in BOOLEAN, SetAlgorithm(opt) PROVE IInv' BY <1>3, AlgorithmStep
<1>4. CASE UserCreates BY <1>4, UserCreatesStep
<1>5. ASSUME NEW p \in PIDs, Terminate(p) PROVE IInv' BY <1>5, TerminateStep
<1>6. CASE ResetProcesses BY <1>6, ResetProcessesStep
<1>7. CASE ResetMemory BY <1>7, ResetMemoryStep
<1>8. CASE UNCHANGED vars BY <1>8, StutterIInv
<1> QED BY <1>1, <1>2, <1>3, <1>4, <1>5, <1>6, <1>7, <1>8 DEF Next

\* The inductive invariant: runs come one after the other under simulationMu, each is at
\* one place of its script with the accesses before it made, and a number is left for
\* every process that a run is still to make.
THEOREM SimulatorInductive == Spec => []IInv
<1>1. Init => IInv BY InitIInv
<1>2. IInv /\ [Next]_vars => IInv' BY NextIInv
<1> QED BY <1>1, <1>2, PTL DEF Spec

\* The types, and process numbers stay within the bound.
THEOREM SimulatorTypes == Spec => []TypeOK
<1>1. IInv => TypeOK BY DEF IInv
<1> QED BY <1>1, SimulatorInductive, PTL

\* Until a reset no run accesses a process that it has not made, whatever processes
\* users create and terminate meanwhile.
THEOREM RunsOwnTheirProcesses == Spec => []OwnProcesses
<1>1. IInv => OwnProcesses BY DEF IInv
<1> QED BY <1>1, SimulatorInductive, PTL

\* A run that reports success has made every access of its scenario.
THEOREM SuccessMeansAll == Spec => []CompleteMeansAll
<1>1. ASSUME IInv PROVE CompleteMeansAll
  BY <1>1 DEF IInv, AllRunsOK, RunIs, Complete, CompleteMeansAll
<1> QED BY <1>1, SimulatorInductive, PTL

\* The run makes the accesses that precomputeAndSetOptimal has told Optimal of, in their
\* order, as long as nobody replaces or resets the policy: the first run of a simulator,
\* and any run of a scenario whose pages do not depend on the generator.
THEOREM PredictionHolds == Spec => []PredictionFollowed
<1>1. ASSUME IInv PROVE PredictionFollowed
  <2> SUFFICES ASSUME NEW r \in Runs, job[r].at \in {"run", "return"}, futures # <<>>,
                      r = 1 \/ job[r].scenario \in {"sequential", "looping"}
               PROVE  /\ job[r].made > 0 =>
                           job[r].made <= Len(futures) /\ futures[job[r].made] = job[r].last
                      /\ job[r].at = "return" /\ ~job[r].failed => job[r].made = Len(futures)
    BY DEF PredictionFollowed
  <2> DEFINE j == job[r]
             F == PrecomputeAccesses(j.scenario)
  <2>1. Followed(r, j, futures) /\ (j.at = "return" => Complete(j))
    BY <1>1 DEF IInv, AllRunsOK, RunIs
  <2>2. Matched(r, j) BY DEF Matched
  <2>3. ASSUME j.made > 0 PROVE j.made <= Len(futures) /\ futures[j.made] = j.last
    <3>1. Foreseen(j, futures) BY <2>1, <2>3 DEF Followed
    <3>2. futures = F BY <3>1 DEF Foreseen
    <3> QED BY <2>1, <2>2, <2>3, <3>2 DEF Followed
  <2>4. ASSUME j.at = "return", ~j.failed PROVE j.made = Len(futures)
    <3>1. Foreseen(j, futures) BY <2>1, <2>4 DEF Followed
    <3>2. futures = F BY <3>1 DEF Foreseen
    <3> QED BY <2>1, <2>4, <3>2 DEF Complete
  <2> QED BY <2>3, <2>4
<1> QED BY <1>1, SimulatorInductive, PTL

=============================================================================
