------------------------- MODULE CopyOnWriteProofs -------------------------
(***************************************************************************)
(* For any number of processes and pages: the counts of the registry agree *)
(* with its sets, processes that share a page are registered sharers, and  *)
(* the last user of a page keeps the original instead of copying it.       *)
(***************************************************************************)
EXTENDS CopyOnWrite, FiniteSetTheorems, TLAPS

\* Cardinalities of sets of processes, as registering and deregistering move them.
LEMMA Cardinalities ==
    ASSUME NEW S \in SUBSET Procs
    PROVE  /\ Cardinality(S) \in Nat
           /\ \A T \in SUBSET Procs : /\ Cardinality(T \ S) \in Nat
                /\ Cardinality(S \cup (T \ S)) = Cardinality(S) + Cardinality(T \ S)
           /\ \A p \in S : Cardinality(S \ {p}) = Cardinality(S) - 1
<1>1. IsFiniteSet(S) BY ProcsAssumption, FS_Subset
<1>2. Cardinality(S) \in Nat BY <1>1, FS_CardinalityType
<1>3. ASSUME NEW T \in SUBSET Procs
      PROVE  /\ Cardinality(T \ S) \in Nat
             /\ Cardinality(S \cup (T \ S)) = Cardinality(S) + Cardinality(T \ S)
  <2>1. IsFiniteSet(T \ S) BY ProcsAssumption, FS_Subset
  <2>2. Cardinality(T \ S) \in Nat BY <2>1, FS_CardinalityType
  <2>3. S \cap (T \ S) = {} OBVIOUS
  <2>4. Cardinality(S \cap (T \ S)) = 0 BY <2>3, FS_EmptySet
  <2>5. Cardinality(S \cup (T \ S)) =
          Cardinality(S) + Cardinality(T \ S) - Cardinality(S \cap (T \ S))
    BY <1>1, <2>1, FS_Union
  <2> QED BY <1>2, <2>2, <2>4, <2>5
<1>4. \A p \in S : Cardinality(S \ {p}) = Cardinality(S) - 1
  BY <1>1, FS_RemoveElement
<1> QED BY <1>2, <1>3, <1>4

\* Two different sharers are two references.
LEMMA TwoReferences ==
    ASSUME NEW S \in SUBSET Procs, NEW p \in S, NEW q \in S, p # q
    PROVE  Cardinality(S) > 1
<1>1. /\ Cardinality(S) \in Nat /\ Cardinality(S \ {p}) = Cardinality(S) - 1
  BY Cardinalities
<1>2. q \in S \ {p} OBVIOUS
<1>3. IsFiniteSet(S \ {p}) BY ProcsAssumption, FS_Subset
<1>4. Cardinality(S \ {p}) # 0 BY <1>2, <1>3, FS_EmptySet
<1>5. Cardinality(S \ {p}) \in Nat BY <1>3, FS_CardinalityType
<1> QED BY <1>1, <1>4, <1>5

\* Registering keeps the counts in step with the sets.
LEMMA RegisterEffect ==
    ASSUME TypeOK, CountsAgree, NEW P \in SUBSET Procs, NEW I \in SUBSET Pages, Register(P, I)
    PROVE  /\ procs' \in [Pages -> SUBSET Procs]
           /\ refs' \in [Pages -> Nat] /\ counts' \in [Pages -> Nat]
           /\ CountsAgree'
           /\ \A id \in Pages : procs'[id] = IF id \in I THEN procs[id] \cup P ELSE procs[id]
<1> DEFINE new(id) == IF id \in I THEN P \ procs[id] ELSE {}
<1>1. /\ procs' = [id \in Pages |-> procs[id] \cup new(id)]
      /\ refs' = [id \in Pages |-> refs[id] + Cardinality(new(id))]
      /\ counts' = [id \in Pages |-> counts[id] + Cardinality(new(id))]
  BY DEF Register
<1>2. ASSUME NEW id \in Pages
      PROVE  /\ procs[id] \cup new(id) \in SUBSET Procs
             /\ procs[id] \cup new(id) = IF id \in I THEN procs[id] \cup P ELSE procs[id]
             /\ Cardinality(new(id)) \in Nat
             /\ Cardinality(procs[id] \cup new(id)) = refs[id] + Cardinality(new(id))
             /\ refs[id] \in Nat /\ counts[id] = refs[id]
  <2>1. /\ procs[id] \in SUBSET Procs /\ refs[id] \in Nat
        /\ refs[id] = Cardinality(procs[id]) /\ counts[id] = refs[id]
    BY DEF TypeOK, CountsAgree
  <2>2. CASE id \in I
    <3>1. new(id) = P \ procs[id] BY <2>2
    <3>2. /\ Cardinality(P \ procs[id]) \in Nat
          /\ Cardinality(procs[id] \cup (P \ procs[id])) =
               Cardinality(procs[id]) + Cardinality(P \ procs[id])
      BY <2>1, Cardinalities
    <3> QED BY <2>1, <2>2, <3>1, <3>2
  <2>3. CASE id \notin I
    <3>1. new(id) = {} /\ procs[id] \cup {} = procs[id] BY <2>3
    <3>2. Cardinality({}) = 0 BY FS_EmptySet
    <3> QED BY <2>1, <2>3, <3>1, <3>2
  <2> QED BY <2>2, <2>3
<1> HIDE DEF new
<1>3. /\ procs' \in [Pages -> SUBSET Procs]
      /\ refs' \in [Pages -> Nat] /\ counts' \in [Pages -> Nat]
  <2>1. \A id \in Pages : procs[id] \cup new(id) \in SUBSET Procs BY <1>2
  <2>2. ASSUME NEW id \in Pages
        PROVE  refs[id] + Cardinality(new(id)) \in Nat /\ counts[id] = refs[id]
    <3>1. refs[id] \in Nat /\ Cardinality(new(id)) \in Nat /\ counts[id] = refs[id] BY <1>2
    <3> QED BY <3>1
  <2>3. \A id \in Pages : counts[id] + Cardinality(new(id)) \in Nat BY <2>2
  <2>4. procs' \in [Pages -> SUBSET Procs] BY <1>1, <2>1
  <2>5. refs' \in [Pages -> Nat] BY <1>1, <2>2
  <2>6. counts' \in [Pages -> Nat] BY <1>1, <2>3
  <2> QED BY <2>4, <2>5, <2>6
<1>4. CountsAgree' BY <1>1, <1>2 DEF CountsAgree
<1> QED BY <1>1, <1>2, <1>3, <1>4

\* So does deregistering, which takes p off the pages in I and nobody else.
LEMMA DeregisterEffect ==
    ASSUME TypeOK, CountsAgree, NEW p \in Procs, NEW I \in SUBSET Pages, Deregister(p, I)
    PROVE  /\ procs' \in [Pages -> SUBSET Procs]
           /\ refs' \in [Pages -> Nat] /\ counts' \in [Pages -> Nat]
           /\ CountsAgree'
           /\ \A id \in Pages : procs'[id] = IF id \in I THEN procs[id] \ {p} ELSE procs[id]
<1>1. ASSUME NEW id \in Pages
      PROVE  /\ procs'[id] = IF id \in I THEN procs[id] \ {p} ELSE procs[id]
             /\ refs'[id] = Cardinality(procs'[id]) /\ counts'[id] = refs'[id]
             /\ refs'[id] \in Nat
  <2>1. /\ procs[id] \in SUBSET Procs /\ refs[id] \in Nat
        /\ refs[id] = Cardinality(procs[id]) /\ counts[id] = refs[id]
    BY DEF TypeOK, CountsAgree
  <2>2. CASE id \in I /\ p \in procs[id]
    <3>1. /\ procs'[id] = procs[id] \ {p} /\ refs'[id] = refs[id] - 1
          /\ counts'[id] = counts[id] - 1
      BY <2>2 DEF Deregister
    <3>2. Cardinality(procs[id] \ {p}) = Cardinality(procs[id]) - 1 BY <2>1, <2>2, Cardinalities
    <3>3. Cardinality(procs[id] \ {p}) \in Nat
      <4>1. procs[id] \ {p} \in SUBSET Procs BY <2>1
      <4> QED BY <4>1, Cardinalities
    <3> QED BY <2>1, <2>2, <3>1, <3>2, <3>3
  <2>3. CASE ~(id \in I /\ p \in procs[id])
    <3>1. procs'[id] = procs[id] /\ refs'[id] = refs[id] /\ counts'[id] = counts[id]
      BY <2>3 DEF Deregister
    <3> QED BY <2>1, <2>3, <3>1
  <2> QED BY <2>2, <2>3
<1>2. /\ procs' = [id \in Pages |-> procs'[id]] /\ refs' = [id \in Pages |-> refs'[id]]
      /\ counts' = [id \in Pages |-> counts'[id]]
  BY DEF Deregister
<1>3. \A id \in Pages : procs'[id] \in SUBSET Procs BY <1>1 DEF TypeOK
<1>4. /\ procs' \in [Pages -> SUBSET Procs]
      /\ refs' \in [Pages -> Nat] /\ counts' \in [Pages -> Nat]
  BY <1>1, <1>2, <1>3
<1>5. CountsAgree' BY <1>1 DEF CountsAgree
<1> QED BY <1>1, <1>4, <1>5

\* The initial states satisfy the inductive invariant.
LEMMA InitIInv == Init => IInv
<1> SUFFICES ASSUME Init PROVE IInv OBVIOUS
<1>1. TypeOK
  <2>1. PICK id \in Pages : writing = [p \in Procs |-> [on |-> FALSE, page |-> id]]
    BY DEF Init
  <2>2. writing \in [Procs -> Writes] BY <2>1 DEF Writes
  <2>3. orig \in [Procs -> [Pages -> Procs \cup {NoProc}]] BY DEF Init
  <2> QED BY <2>2, <2>3, ProcsAssumption DEF Init, TypeOK
<1>2. CountsAgree BY FS_EmptySet DEF Init, CountsAgree
<1>3. MarkIsSharer BY DEF Init, MarkIsSharer
<1>4. SharersRegistered BY ProcsAssumption DEF Init, SharersRegistered, Alias
<1>5. Unborn BY DEF Init, Unborn
<1> QED BY <1>1, <1>2, <1>3, <1>4, <1>5 DEF IInv

\* Forking registers and marks parent and child alike.
LEMMA ForkIInv ==
    ASSUME IInv, NEW parent \in Procs, NEW child \in Procs, ForkProcess(parent, child)
    PROVE  IInv'
<1> DEFINE present == {id \in Pages : orig[parent][id] # NoProc}
<1>1. TypeOK /\ CountsAgree BY DEF IInv
<1>2. {parent, child} \in SUBSET Procs /\ present \in SUBSET Pages OBVIOUS
<1>3. Register({parent, child}, present) BY DEF ForkProcess
<1>4. /\ procs' \in [Pages -> SUBSET Procs]
      /\ refs' \in [Pages -> Nat] /\ counts' \in [Pages -> Nat]
      /\ CountsAgree'
      /\ \A id \in Pages : procs'[id] = IF id \in present THEN procs[id] \cup {parent, child}
                                                          ELSE procs[id]
  <2> HIDE DEF present
  <2> QED BY <1>1, <1>2, <1>3, RegisterEffect
<1>5. /\ parent \in born /\ child \notin born /\ parent # child
      /\ born' = born \cup {child} /\ orig' = [orig EXCEPT ![child] = orig[parent]]
      /\ marked' = [marked EXCEPT ![parent] = @ \cup present, ![child] = present]
      /\ writing' = writing
  BY DEF ForkProcess
<1>6. TypeOK' BY <1>1, <1>4, <1>5 DEF TypeOK
<1>7. /\ marked'[parent] = marked[parent] \cup present
      /\ marked'[child] = present
      /\ \A p \in Procs \ {parent, child} : marked'[p] = marked[p]
      /\ \A p \in Procs \ {child}, id \in Pages : orig'[p][id] = orig[p][id]
      /\ \A id \in Pages : orig'[child][id] = orig[parent][id]
  <2> HIDE DEF present
  <2>1. marked \in [Procs -> SUBSET Pages] /\ orig \in [Procs -> [Pages -> Procs \cup {NoProc}]]
    BY <1>1 DEF TypeOK
  <2> QED BY <1>5, <2>1
<1>8. \A id \in Pages : id \notin marked[child] BY <1>5 DEF IInv, Unborn
<1>9. \A id \in Pages : id \in present <=> orig[parent][id] # NoProc OBVIOUS
<1> HIDE DEF present
<1>10. MarkIsSharer'
  <2> SUFFICES ASSUME NEW p \in Procs, NEW id \in Pages
               PROVE  id \in marked'[p] <=> p \in procs'[id]
    BY DEF MarkIsSharer
  <2>1. id \in marked[p] <=> p \in procs[id] BY DEF IInv, MarkIsSharer
  <2>2. CASE p = parent BY <1>4, <1>7, <2>1, <2>2
  <2>3. CASE p = child BY <1>4, <1>5, <1>7, <1>8, <2>1, <2>3
  <2>4. CASE p \notin {parent, child} BY <1>4, <1>7, <2>1, <2>4
  <2> QED BY <2>2, <2>3, <2>4
<1>11. Unborn'
  <2> SUFFICES ASSUME NEW p \in Procs \ born', NEW id \in Pages
               PROVE  id \notin marked'[p] /\ orig'[p][id] = NoProc
    BY DEF Unborn
  <2>1. p \notin {parent, child} /\ p \notin born BY <1>5
  <2>2. id \notin marked[p] /\ orig[p][id] = NoProc BY <2>1 DEF IInv, Unborn
  <2> QED BY <1>7, <2>1, <2>2
<1>12. SharersRegistered'
  <2> SUFFICES ASSUME NEW p \in Procs, NEW q \in Procs, NEW id \in Pages, Alias(p, q, id)'
               PROVE  id \in marked'[p] /\ id \in marked'[q] /\ {p, q} \subseteq procs'[id]
    BY DEF SharersRegistered
  <2>1. p # q /\ orig'[p][id] = orig'[q][id] /\ orig'[p][id] # NoProc BY DEF Alias
  <2>2. id \in marked'[p] /\ id \in marked'[q]
    <3>1. CASE id \in present /\ p \in {parent, child} /\ q \in {parent, child}
      BY <1>7, <3>1
    <3>2. CASE p \in {parent, child} /\ q \notin {parent, child}
      <4>1. orig[parent][id] = orig[q][id] /\ orig[q][id] # NoProc BY <1>7, <2>1, <3>2
      <4>2. id \in marked[q] BY <3>2, <4>1 DEF IInv, SharersRegistered, Alias
      <4> QED BY <1>7, <1>9, <3>2, <4>1, <4>2
    <3>3. CASE q \in {parent, child} /\ p \notin {parent, child}
      <4>1. orig[parent][id] = orig[p][id] /\ orig[p][id] # NoProc BY <1>7, <2>1, <3>3
      <4>2. id \in marked[p] BY <3>3, <4>1 DEF IInv, SharersRegistered, Alias
      <4> QED BY <1>7, <1>9, <3>3, <4>1, <4>2
    <3>4. CASE p \notin {parent, child} /\ q \notin {parent, child}
      BY <1>7, <2>1, <3>4 DEF IInv, SharersRegistered, Alias
    <3>5. p \in {parent, child} /\ q \in {parent, child} => id \in present BY <1>7, <1>9, <2>1
    <3> QED BY <3>1, <3>2, <3>3, <3>4, <3>5
  <2> QED BY <1>10, <2>2 DEF MarkIsSharer
<1> QED BY <1>4, <1>6, <1>10, <1>11, <1>12 DEF IInv

\* The steps that take p off the pages in I, and clear its marks there: they keep
\* the invariant if p then shares no original with anyone on these pages.
LEMMA GiveUpIInv ==
    ASSUME IInv, NEW p \in Procs, NEW I \in SUBSET Pages, Deregister(p, I), born' = born,
           marked' \in [Procs -> SUBSET Pages], writing' \in [Procs -> Writes],
           orig' \in [Procs -> [Pages -> Procs \cup {NoProc}]],
           \A q \in Procs, id \in Pages :
             id \in marked'[q] <=> id \in marked[q] /\ ~(q = p /\ id \in I),
           \A q \in Procs, id \in Pages : orig'[q][id] \in {orig[q][id], NoProc},
           \A q \in Procs, id \in I :
             q # p /\ orig'[p][id] = orig'[q][id] => orig'[p][id] = NoProc
    PROVE  IInv'
<1>1. TypeOK /\ CountsAgree BY DEF IInv
<1>2. /\ procs' \in [Pages -> SUBSET Procs]
      /\ refs' \in [Pages -> Nat] /\ counts' \in [Pages -> Nat]
      /\ CountsAgree'
      /\ \A id \in Pages : procs'[id] = IF id \in I THEN procs[id] \ {p} ELSE procs[id]
  BY <1>1, DeregisterEffect
<1>3. TypeOK' BY <1>1, <1>2 DEF TypeOK
<1>4. MarkIsSharer' BY <1>2 DEF IInv, MarkIsSharer
<1>5. Unborn' BY DEF IInv, Unborn
<1>6. SharersRegistered'
  <2> SUFFICES ASSUME NEW q \in Procs, NEW r \in Procs, NEW id \in Pages, Alias(q, r, id)'
               PROVE  id \in marked'[q] /\ id \in marked'[r] /\ {q, r} \subseteq procs'[id]
    BY DEF SharersRegistered
  <2>1. q # r /\ orig'[q][id] = orig'[r][id] /\ orig'[q][id] # NoProc BY DEF Alias
  <2>2. Alias(q, r, id) BY <2>1 DEF Alias
  <2>3. id \in marked[q] /\ id \in marked[r] BY <2>2 DEF IInv, SharersRegistered
  <2>4. ~(q = p /\ id \in I) /\ ~(r = p /\ id \in I) BY <2>1
  <2> QED BY <1>4, <2>3, <2>4 DEF MarkIsSharer
<1> QED BY <1>2, <1>3, <1>4, <1>5, <1>6 DEF IInv

\* A page whose mark is cleared without a deregistration was not registered.
LEMMA TakeOwnershipIInv ==
    ASSUME IInv, NEW p \in Procs, TakeOwnership(p)
    PROVE  IInv'
<1> DEFINE id == writing[p].page
<1>1. TypeOK /\ CountsAgree /\ id \in Pages BY DEF IInv, TypeOK, Writes
<1>2. /\ refs[id] <= 1 \/ p \notin procs[id]
      /\ IF refs[id] = 1 THEN Deregister(p, {id}) ELSE UNCHANGED registry
      /\ marked' = [marked EXCEPT ![p] = @ \ {id}]
      /\ writing' = [writing EXCEPT ![p].on = FALSE] /\ born' = born /\ orig' = orig
  BY DEF TakeOwnership, EndWrite
<1>3. writing' \in [Procs -> Writes]
  <2>1. writing \in [Procs -> Writes] /\ writing[p] \in Writes BY <1>1 DEF TypeOK
  <2>2. [writing[p] EXCEPT !.on = FALSE] \in Writes BY <2>1 DEF Writes
  <2> QED BY <1>2, <2>1, <2>2
<1>4. marked' \in [Procs -> SUBSET Pages] BY <1>1, <1>2 DEF TypeOK
<1>5. \A q \in Procs, i \in Pages : i \in marked'[q] <=> i \in marked[q] /\ ~(q = p /\ i \in {id})
  BY <1>1, <1>2 DEF TypeOK
<1>6. orig' \in [Procs -> [Pages -> Procs \cup {NoProc}]] BY <1>1, <1>2 DEF TypeOK
<1>7. \A q \in Procs, i \in {id} : q # p /\ orig'[p][i] = orig'[q][i] => orig'[p][i] = NoProc
  <2> SUFFICES ASSUME NEW q \in Procs, q # p, orig[p][id] = orig[q][id], orig[p][id] # NoProc
               PROVE  FALSE
    BY <1>2
  <2>1. p \in procs[id] /\ q \in procs[id]
    BY <1>1 DEF IInv, SharersRegistered, Alias
  <2>2. procs[id] \in SUBSET Procs /\ refs[id] = Cardinality(procs[id])
    BY <1>1 DEF TypeOK, CountsAgree
  <2>3. Cardinality(procs[id]) > 1 BY <2>1, <2>2, TwoReferences
  <2>4. Cardinality(procs[id]) \in Nat BY <2>2, Cardinalities
  <2> QED BY <1>2, <2>1, <2>2, <2>3, <2>4
<1> DEFINE I == {id}
<1>8. CASE refs[id] = 1
  <2>1. Deregister(p, {id}) /\ {id} \in SUBSET Pages BY <1>1, <1>2, <1>8
  <2>2. \A q \in Procs, i \in Pages : orig'[q][i] \in {orig[q][i], NoProc} BY <1>2
  <2>3. /\ Deregister(p, I) /\ I \in SUBSET Pages /\ born' = born
        /\ \A q \in Procs, i \in Pages : i \in marked'[q] <=> i \in marked[q] /\ ~(q = p /\ i \in I)
        /\ \A q \in Procs, i \in I :
             q # p /\ orig'[p][i] = orig'[q][i] => orig'[p][i] = NoProc
    BY <1>2, <1>5, <1>7, <2>1
  <2> HIDE DEF id, I
  <2> QED BY <1>3, <1>4, <1>6, <2>2, <2>3, GiveUpIInv
<1>9. CASE refs[id] # 1
  <2>1. p \notin procs[id]
    <3>1. procs[id] \in SUBSET Procs /\ refs[id] = Cardinality(procs[id])
      BY <1>1 DEF TypeOK, CountsAgree
    <3>2. IsFiniteSet(procs[id]) BY <3>1, ProcsAssumption, FS_Subset
    <3>3. Cardinality(procs[id]) = 0 => procs[id] = {} BY <3>2, FS_EmptySet
    <3>4. Cardinality(procs[id]) \in Nat BY <3>1, Cardinalities
    <3> QED BY <1>2, <1>9, <3>1, <3>3, <3>4
  <2>2. Deregister(p, {id})
    <3>1. procs' = procs /\ refs' = refs /\ counts' = counts BY <1>2, <1>9 DEF registry
    <3>2. /\ procs = [i \in Pages |-> procs[i]] /\ refs = [i \in Pages |-> refs[i]]
          /\ counts = [i \in Pages |-> counts[i]]
      BY <1>1 DEF TypeOK
    <3>3. \A i \in Pages : ~(i \in {id} /\ p \in procs[i]) BY <2>1
    <3> QED BY <3>1, <3>2, <3>3 DEF Deregister
  <2>3. {id} \in SUBSET Pages BY <1>1
  <2>4. \A q \in Procs, i \in Pages : orig'[q][i] \in {orig[q][i], NoProc} BY <1>2
  <2>5. /\ Deregister(p, I) /\ I \in SUBSET Pages /\ born' = born
        /\ \A q \in Procs, i \in Pages : i \in marked'[q] <=> i \in marked[q] /\ ~(q = p /\ i \in I)
        /\ \A q \in Procs, i \in I :
             q # p /\ orig'[p][i] = orig'[q][i] => orig'[p][i] = NoProc
    BY <1>2, <1>5, <1>7, <2>2, <2>3
  <2> HIDE DEF id, I
  <2> QED BY <1>3, <1>4, <1>6, <2>4, <2>5, GiveUpIInv
<1> QED BY <1>8, <1>9

\* Copying, unsharing and removing also drop the mapping of the original.
LEMMA DropIInv ==
    ASSUME IInv, NEW p \in Procs, NEW I \in SUBSET Pages, Deregister(p, I), born' = born,
           writing' \in [Procs -> Writes],
           marked' = [marked EXCEPT ![p] = @ \ I],
           orig' = [orig EXCEPT ![p] = [id \in Pages |-> IF id \in I THEN NoProc ELSE @[id]]]
    PROVE  IInv'
<1>1. TypeOK BY DEF IInv
<1>2. marked' \in [Procs -> SUBSET Pages] BY <1>1 DEF TypeOK
<1>3. orig' \in [Procs -> [Pages -> Procs \cup {NoProc}]] BY <1>1 DEF TypeOK
<1>4. \A q \in Procs, id \in Pages : id \in marked'[q] <=> id \in marked[q] /\ ~(q = p /\ id \in I)
  BY <1>1 DEF TypeOK
<1>5. \A q \in Procs, id \in Pages : orig'[q][id] \in {orig[q][id], NoProc}
  BY <1>1 DEF TypeOK
<1>6. \A id \in I : orig'[p][id] = NoProc BY <1>1 DEF TypeOK
<1>7. \A q \in Procs, id \in I :
        q # p /\ orig'[p][id] = orig'[q][id] => orig'[p][id] = NoProc
  BY <1>6
<1> QED BY <1>2, <1>3, <1>4, <1>5, <1>7, GiveUpIInv

\* Every step preserves the inductive invariant.
LEMMA NextIInv == IInv /\ [Next]_vars => IInv'
<1> SUFFICES ASSUME IInv, [Next]_vars PROVE IInv' OBVIOUS
<1>1. TypeOK BY DEF IInv
<1>2. ASSUME NEW parent \in Procs, NEW child \in Procs, ForkProcess(parent, child) PROVE IInv'
  BY <1>2, ForkIInv
<1>3. ASSUME NEW p \in Procs, NEW id \in Pages, BeginWrite(p, id) PROVE IInv'
  <2>1. /\ procs' = procs /\ refs' = refs /\ counts' = counts /\ born' = born
        /\ orig' = orig /\ marked' = marked
        /\ writing' = [writing EXCEPT ![p] = [on |-> TRUE, page |-> id]]
    BY <1>3 DEF BeginWrite, registry
  <2>2. writing' \in [Procs -> Writes] BY <1>1, <2>1 DEF TypeOK, Writes
  <2> QED BY <2>1, <2>2
       DEF IInv, TypeOK, CountsAgree, MarkIsSharer, SharersRegistered, Alias, Unborn
<1>4. ASSUME NEW p \in Procs, NEW id \in Pages,
             Deregister(p, {id}), born' = born, writing' \in [Procs -> Writes],
             marked' = [marked EXCEPT ![p] = @ \ {id}], orig' = [orig EXCEPT ![p][id] = NoProc]
      PROVE  IInv'
  <2>1. orig' = [orig EXCEPT ![p] = [i \in Pages |-> IF i \in {id} THEN NoProc ELSE @[i]]]
    BY <1>1, <1>4 DEF TypeOK
  <2>2. {id} \in SUBSET Pages OBVIOUS
  <2> QED BY <1>4, <2>1, <2>2, DropIInv
<1>5. ASSUME NEW p \in Procs, NEW id \in Pages, UnsharePage(p, id) PROVE IInv'
  <2>1. writing' \in [Procs -> Writes] BY <1>1, <1>5 DEF UnsharePage, TypeOK
  <2> QED BY <1>4, <1>5, <2>1 DEF UnsharePage
<1>6. ASSUME NEW p \in Procs, TakeOwnership(p) PROVE IInv'
  BY <1>6, TakeOwnershipIInv
<1>7. ASSUME NEW p \in Procs, Copy(p) PROVE IInv'
  <2>1. writing \in [Procs -> Writes] /\ writing[p] \in Writes /\ writing[p].page \in Pages
    BY <1>1 DEF TypeOK, Writes
  <2>2. [writing[p] EXCEPT !.on = FALSE] \in Writes BY <2>1 DEF Writes
  <2>3. writing' \in [Procs -> Writes] BY <1>7, <2>1, <2>2 DEF Copy, EndWrite
  <2> QED BY <1>4, <1>7, <2>1, <2>3 DEF Copy
<1>8. ASSUME NEW p \in Procs, RemoveProcess(p) PROVE IInv'
  <2>1. /\ marked' = [marked EXCEPT ![p] = @ \ Pages]
        /\ orig' = [orig EXCEPT ![p] = [i \in Pages |-> IF i \in Pages THEN NoProc ELSE @[i]]]
        /\ writing' \in [Procs -> Writes] /\ Deregister(p, Pages) /\ born' = born
    BY <1>1, <1>8 DEF RemoveProcess, TypeOK
  <2> QED BY <2>1, DropIInv
<1>9. CASE UNCHANGED vars
  BY <1>9 DEF vars, registry, IInv, TypeOK, CountsAgree, MarkIsSharer, SharersRegistered,
              Alias, Unborn
<1> QED BY <1>2, <1>3, <1>5, <1>6, <1>7, <1>8, <1>9 DEF Next

\* Every variable of the registry and of the page tables around it keeps its type;
\* in particular no reference count ever becomes negative.
THEOREM RegistryTypeCorrect == Spec => []TypeOK
<1>1. IInv => TypeOK BY DEF IInv
<1> QED BY <1>1, InitIInv, NextIInv, PTL DEF Spec

\* The inductive invariant of the registry: HandleWrite decides on counts, marks and
\* registrations that agree, whatever happened between its two sections.
THEOREM RegistryInductive == Spec => []IInv
  BY InitIInv, NextIInv, PTL DEF Spec

\* The counts HandleWrite decides on are right, whatever the interleaving.
THEOREM CountsAlwaysAgree == Spec => []CountsAgree
<1>1. IInv => CountsAgree BY DEF IInv
<1> QED BY <1>1, InitIInv, NextIInv, PTL DEF Spec

\* Processes that share an original are marked and registered, for any number of
\* processes, roots and pages.
THEOREM SharersAlwaysRegistered == Spec => []SharersRegistered
<1>1. IInv => SharersRegistered BY DEF IInv
<1> QED BY <1>1, InitIInv, NextIInv, PTL DEF Spec

\* A registered sharer maps an original: it is deregistered when it gives it up.
SharersMap == \A p \in Procs, id \in Pages : p \in procs[id] => orig[p][id] # NoProc

\* Every step preserves it.
LEMMA NextSharersMap == IInv /\ SharersMap /\ [Next]_vars => SharersMap'
<1> SUFFICES ASSUME IInv, SharersMap, [Next]_vars PROVE SharersMap' OBVIOUS
<1>1. TypeOK /\ CountsAgree BY DEF IInv
<1>2. ASSUME NEW parent \in Procs, NEW child \in Procs, ForkProcess(parent, child)
      PROVE  SharersMap'
  <2> DEFINE present == {id \in Pages : orig[parent][id] # NoProc}
  <2>1. \A id \in Pages : id \in present <=> orig[parent][id] # NoProc OBVIOUS
  <2>2. {parent, child} \in SUBSET Procs /\ present \in SUBSET Pages OBVIOUS
  <2>3. Register({parent, child}, present) /\ orig' = [orig EXCEPT ![child] = orig[parent]]
        /\ child \notin born
    BY <1>2 DEF ForkProcess
  <2> HIDE DEF present
  <2>4. \A id \in Pages : procs'[id] = IF id \in present THEN procs[id] \cup {parent, child}
                                                          ELSE procs[id]
    BY <1>1, <2>2, <2>3, RegisterEffect
  <2>5. \A q \in Procs, id \in Pages :
          orig'[q][id] = IF q = child THEN orig[parent][id] ELSE orig[q][id]
    BY <1>1, <2>3 DEF TypeOK
  <2>6. \A id \in Pages : child \notin procs[id]
    BY <2>3 DEF IInv, Unborn, MarkIsSharer
  <2> SUFFICES ASSUME NEW q \in Procs, NEW id \in Pages, q \in procs'[id]
               PROVE  orig'[q][id] # NoProc
    BY DEF SharersMap
  <2>7. q \in procs[id] => orig[q][id] # NoProc BY DEF SharersMap
  <2>8. q \in procs[id] \/ (id \in present /\ q \in {parent, child}) BY <2>4
  <2> QED BY <2>1, <2>5, <2>6, <2>7, <2>8
<1>3. ASSUME NEW p \in Procs, NEW I \in SUBSET Pages, Deregister(p, I),
             \A q \in Procs, id \in Pages : orig'[q][id] = orig[q][id] \/ (q = p /\ id \in I)
      PROVE  SharersMap'
  <2>1. \A id \in Pages : procs'[id] = IF id \in I THEN procs[id] \ {p} ELSE procs[id]
    BY <1>1, <1>3, DeregisterEffect
  <2> SUFFICES ASSUME NEW q \in Procs, NEW id \in Pages, q \in procs'[id]
               PROVE  orig'[q][id] # NoProc
    BY DEF SharersMap
  <2>2. q \in procs[id] /\ ~(q = p /\ id \in I) BY <2>1
  <2>3. orig[q][id] # NoProc BY <2>2 DEF SharersMap
  <2> QED BY <1>3, <2>2, <2>3
<1>4. ASSUME NEW p \in Procs, NEW id \in Pages, Deregister(p, {id}),
             orig' = [orig EXCEPT ![p][id] = NoProc]
      PROVE  SharersMap'
  <2>1. \A q \in Procs, i \in Pages : orig'[q][i] = orig[q][i] \/ (q = p /\ i \in {id})
    BY <1>1, <1>4 DEF TypeOK
  <2>2. {id} \in SUBSET Pages OBVIOUS
  <2> QED BY <1>3, <1>4, <2>1, <2>2
<1>5. ASSUME NEW p \in Procs, NEW id \in Pages, UnsharePage(p, id) PROVE SharersMap'
  BY <1>4, <1>5 DEF UnsharePage
<1>6. ASSUME NEW p \in Procs, Copy(p) PROVE SharersMap'
  <2>1. writing[p].page \in Pages BY <1>1 DEF TypeOK, Writes
  <2> QED BY <1>4, <1>6, <2>1 DEF Copy
<1>7. ASSUME NEW p \in Procs, RemoveProcess(p) PROVE SharersMap'
  <2>1. orig' = [orig EXCEPT ![p] = [id \in Pages |-> NoProc]] /\ Deregister(p, Pages)
    BY <1>7 DEF RemoveProcess
  <2>2. \A q \in Procs, i \in Pages : orig'[q][i] = orig[q][i] \/ (q = p /\ i \in Pages)
    BY <1>1, <2>1 DEF TypeOK
  <2> QED BY <1>3, <2>1, <2>2
<1>8. ASSUME NEW p \in Procs, TakeOwnership(p) PROVE SharersMap'
  <2> DEFINE id == writing[p].page
  <2>1. id \in Pages /\ {id} \in SUBSET Pages BY <1>1 DEF TypeOK, Writes
  <2>2. orig' = orig /\ (Deregister(p, {id}) \/ UNCHANGED registry)
    BY <1>8 DEF TakeOwnership
  <2> HIDE DEF id
  <2>3. CASE Deregister(p, {id}) BY <1>3, <2>1, <2>2, <2>3
  <2>4. CASE UNCHANGED registry BY <2>2, <2>4 DEF registry, SharersMap
  <2> QED BY <2>2, <2>3, <2>4
<1>9. ASSUME NEW p \in Procs, NEW id \in Pages, BeginWrite(p, id) PROVE SharersMap'
  BY <1>9 DEF BeginWrite, registry, SharersMap
<1>10. CASE UNCHANGED vars BY <1>10 DEF vars, registry, SharersMap
<1> QED BY <1>2, <1>5, <1>6, <1>7, <1>8, <1>9, <1>10 DEF Next

\* A set of more than one process has another one beside any of them.
LEMMA AnotherReference ==
    ASSUME NEW S \in SUBSET Procs, NEW p \in S, Cardinality(S) > 1
    PROVE  \E q \in S : q # p
<1> SUFFICES ASSUME \A q \in S : q = p PROVE FALSE OBVIOUS
<1>1. S \ {p} = {} OBVIOUS
<1>2. Cardinality(S \ {p}) = 0 BY <1>1, FS_EmptySet
<1>3. Cardinality(S \ {p}) = Cardinality(S) - 1 /\ Cardinality(S) \in Nat BY Cardinalities
<1> QED BY <1>2, <1>3

\* However the writes of the sharers interleave, the one that is decided last keeps the
\* original: a copy is made only while another sharer still maps it.
THEOREM LastKeepsOriginal == Spec => OneKeepsOriginal
<1> DEFINE A == \A id \in Pages, r \in Procs, p \in Procs :
                  (/\ Copy(p) /\ writing[p].page = id /\ orig[p][id] = r
                   /\ \A q \in procs[id] : orig[q][id] \in {r, NoProc}) =>
                     \E q \in Procs : orig'[q][id] = r
<1>1. Init => SharersMap BY DEF Init, SharersMap
<1>2. IInv /\ SharersMap => A
  <2> SUFFICES ASSUME IInv, SharersMap, NEW id \in Pages, NEW r \in Procs, NEW p \in Procs,
                      Copy(p), writing[p].page = id, orig[p][id] = r,
                      \A q \in procs[id] : orig[q][id] \in {r, NoProc}
               PROVE  \E q \in Procs : orig'[q][id] = r
    OBVIOUS
  <2>1. procs[id] \in SUBSET Procs /\ refs[id] = Cardinality(procs[id])
    BY DEF IInv, TypeOK, CountsAgree
  <2>2. refs[id] > 1 /\ p \in procs[id] /\ orig' = [orig EXCEPT ![p][id] = NoProc]
    BY DEF Copy
  <2>3. PICK q \in procs[id] : q # p BY <2>1, <2>2, AnotherReference
  <2>4. orig[q][id] = r BY <2>1, <2>3 DEF SharersMap
  <2>5. orig'[q][id] = orig[q][id] BY <2>1, <2>2, <2>3 DEF IInv, TypeOK
  <2> QED BY <2>1, <2>4, <2>5
<1>3. IInv /\ SharersMap /\ [Next]_vars => [A]_vars BY <1>2
<1> QED BY <1>1, <1>3, InitIInv, NextIInv, NextSharersMap, PTL DEF Spec, OneKeepsOriginal
=============================================================================
