---------------------------- MODULE CopyOnWrite ----------------------------
(***************************************************************************)
(* The registry of shared pages of internal/cow, as concurrent callers use *)
(* it: its own lock cow.mu is all that orders them here (the unit tests    *)
(* call it so; the memory manager also holds mm.mu).  HandleWrite tests    *)
(* under the read lock whether the page is shared and decides under the    *)
(* write lock, so a write has two steps.  One write per process is in      *)
(* flight at a time.                                                       *)
(***************************************************************************)
EXTENDS Integers, FiniteSets

CONSTANTS
    Procs,    \* process IDs
    Roots,    \* the processes that exist, with pages of their own, at the start
    Pages,    \* page IDs, common to all processes
    NoProc

ASSUME ProcsAssumption == IsFiniteSet(Procs) /\ Roots \subseteq Procs /\ NoProc \notin Procs

VARIABLES
    procs,     \* SharedPage.Processes of each page ID
    refs,      \* SharedPage.RefCount, 0 where sharedPages has no entry
    counts,    \* ReferenceCounter.counts, 0 where it has no entry
    born,      \* the processes that have existed
    orig,      \* whose original page a process maps at an ID; NoProc: a copy, or none
    marked,    \* the IDs at which a process has Page.Shared set
    writing    \* the page ID of a process between the two steps of HandleWrite

registry == <<procs, refs, counts>>
vars == <<registry, born, orig, marked, writing>>

Writes == [on : BOOLEAN, page : Pages]
NotWriting(p) == ~writing[p].on

Init ==
    /\ procs = [id \in Pages |-> {}]
    /\ refs = [id \in Pages |-> 0]
    /\ counts = [id \in Pages |-> 0]
    /\ born = Roots
    /\ orig = [p \in Procs |-> [id \in Pages |-> IF p \in Roots THEN p ELSE NoProc]]
    /\ marked = [p \in Procs |-> {}]
    /\ writing \in {[p \in Procs |-> [on |-> FALSE, page |-> id]] : id \in Pages}

-----------------------------------------------------------------------------

\* Mutant: a fork registers the child and takes the parent for registered.
RegisterChild(P, I) ==
    LET new(id) == IF id \in I THEN P \ (procs[id] \cup born) ELSE {}
    IN  /\ procs' = [id \in Pages |-> procs[id] \cup new(id)]
        /\ refs' = [id \in Pages |-> refs[id] + Cardinality(new(id))]
        /\ counts' = [id \in Pages |-> counts[id] + Cardinality(new(id))]

\* Registering the processes P for the page IDs in I: each one that is new to an
\* entry adds one to RefCount and to the reference counter.
Register(P, I) ==
    LET new(id) == IF id \in I THEN P \ procs[id] ELSE {}
    IN  /\ procs' = [id \in Pages |-> procs[id] \cup new(id)]
        /\ refs' = [id \in Pages |-> refs[id] + Cardinality(new(id))]
        /\ counts' = [id \in Pages |-> counts[id] + Cardinality(new(id))]

\* Mutant: the counts go down even if the process is not registered.
DeregisterAlways(p, I) ==
    /\ procs' = [id \in Pages |-> IF id \in I THEN procs[id] \ {p} ELSE procs[id]]
    /\ refs' = [id \in Pages |-> IF id \in I THEN refs[id] - 1 ELSE refs[id]]
    /\ counts' = [id \in Pages |-> IF id \in I THEN counts[id] - 1 ELSE counts[id]]

\* Taking process p off the entries of the page IDs in I where it is registered;
\* an entry without references is deleted, which refs = 0 stands for.
Deregister(p, I) ==
    LET gone(id) == id \in I /\ p \in procs[id]
    IN  /\ procs' = [id \in Pages |-> IF gone(id) THEN procs[id] \ {p} ELSE procs[id]]
        /\ refs' = [id \in Pages |-> IF gone(id) THEN refs[id] - 1 ELSE refs[id]]
        /\ counts' = [id \in Pages |-> IF gone(id) THEN counts[id] - 1 ELSE counts[id]]

\* ForkProcess for the present pages of the parent, and the child's clone of the
\* parent's page table, whose entries are marked shared (PageTable.Clone); also while
\* a write of the parent is between its two steps.
ForkProcess(parent, child) ==
    LET present == {id \in Pages : orig[parent][id] # NoProc}
    IN  /\ parent \in born /\ child \notin born
        /\ Register({parent, child}, present)
        /\ born' = born \cup {child}
        /\ orig' = [orig EXCEPT ![child] = orig[parent]]
        /\ marked' = [marked EXCEPT ![parent] = @ \cup present, ![child] = present]
        /\ UNCHANGED writing

\* HandleWrite under the read lock: the page has an entry and is marked shared.
\* Otherwise it returns at once and nothing changes: handleCoW then clears the
\* mark of a page without an entry, but MarkIsSharer says there is none.
BeginWrite(p, id) ==
    /\ p \in born /\ NotWriting(p)
    /\ orig[p][id] # NoProc
    /\ refs[id] > 0 /\ id \in marked[p]
    /\ writing' = [writing EXCEPT ![p] = [on |-> TRUE, page |-> id]]
    /\ UNCHANGED <<registry, born, orig, marked>>

EndWrite(p) == writing' = [writing EXCEPT ![p].on = FALSE]

\* HandleWrite under the write lock, last reference: the page is given up to its
\* writer and its flags are cleared.  So are they, by handleCoW, where the entry
\* is gone or the writer is not registered.
TakeOwnership(p) ==
    LET id == writing[p].page
    IN  /\ writing[p].on
        /\ refs[id] <= 1 \/ p \notin procs[id]
        /\ IF refs[id] = 1 THEN Deregister(p, {id}) ELSE UNCHANGED registry
        /\ marked' = [marked EXCEPT ![p] = @ \ {id}]
        /\ EndWrite(p)
        /\ UNCHANGED <<born, orig>>

\* Mutant: the reference count is not looked at again under the write lock.
CopyUnchecked(p) ==
    LET id == writing[p].page
    IN  /\ writing[p].on
        /\ p \in procs[id]
        /\ Deregister(p, {id})
        /\ orig' = [orig EXCEPT ![p][id] = NoProc]
        /\ marked' = [marked EXCEPT ![p] = @ \ {id}]
        /\ EndWrite(p)
        /\ UNCHANGED born

\* HandleWrite under the write lock, several references: the writer gets a copy.
Copy(p) ==
    LET id == writing[p].page
    IN  /\ writing[p].on
        /\ refs[id] > 1 /\ p \in procs[id]
        /\ Deregister(p, {id})
        /\ orig' = [orig EXCEPT ![p][id] = NoProc]
        /\ marked' = [marked EXCEPT ![p] = @ \ {id}]
        /\ EndWrite(p)
        /\ UNCHANGED born

\* UnsharePage of a page that its process gives up, also while it writes.
UnsharePage(p, id) ==
    /\ p \in born /\ orig[p][id] # NoProc
    /\ Deregister(p, {id})
    /\ orig' = [orig EXCEPT ![p][id] = NoProc]
    /\ marked' = [marked EXCEPT ![p] = @ \ {id}]
    /\ UNCHANGED <<born, writing>>

\* RemoveProcess, also while a write of the process is between its two steps.
RemoveProcess(p) ==
    /\ p \in born
    /\ Deregister(p, Pages)
    /\ orig' = [orig EXCEPT ![p] = [id \in Pages |-> NoProc]]
    /\ marked' = [marked EXCEPT ![p] = {}]
    /\ UNCHANGED <<born, writing>>

Next ==
    \/ \E parent, child \in Procs : ForkProcess(parent, child)
    \/ \E p \in Procs, id \in Pages : BeginWrite(p, id) \/ UnsharePage(p, id)
    \/ \E p \in Procs : TakeOwnership(p) \/ Copy(p) \/ RemoveProcess(p)

Spec == Init /\ [][Next]_vars

-----------------------------------------------------------------------------

\* Sharers are processes, counts never go below zero, a write in flight is of a page.
TypeOK ==
    /\ procs \in [Pages -> SUBSET Procs]
    /\ refs \in [Pages -> Nat] /\ counts \in [Pages -> Nat]
    /\ born \subseteq Procs
    /\ orig \in [Procs -> [Pages -> Procs \cup {NoProc}]]
    /\ marked \in [Procs -> SUBSET Pages]
    /\ writing \in [Procs -> Writes]

\* The three records of who shares a page agree (the set, its RefCount and the
\* reference counter), in whatever order writes, forks and removals interleave: no
\* decision of HandleWrite is made on a count that is off.
CountsAgree ==
    \A id \in Pages : refs[id] = Cardinality(procs[id]) /\ counts[id] = refs[id]

\* A page is marked shared exactly where its process is a registered sharer.
MarkIsSharer ==
    \A p \in Procs, id \in Pages : id \in marked[p] <=> p \in procs[id]

Alias(p, q, id) == p # q /\ orig[p][id] = orig[q][id] /\ orig[p][id] # NoProc

\* Two processes map the same original only while both have it marked shared and
\* both are registered: whichever writes first will be made to copy.
SharersRegistered ==
    \A p, q \in Procs, id \in Pages :
        Alias(p, q, id) => id \in marked[p] \cap marked[q] /\ {p, q} \subseteq procs[id]

\* The inductive invariant behind SharersRegistered: a process that is not a second
\* reference shares with nobody, because marks, registrations and counts agree.
Unborn == \A p \in Procs \ born, id \in Pages : id \notin marked[p] /\ orig[p][id] = NoProc
IInv == TypeOK /\ CountsAgree /\ MarkIsSharer /\ SharersRegistered /\ Unborn

\* "no two concurrent writers can both see refCount>1" (cow.go): among the
\* processes that share an original, the last writer keeps it, however the writes
\* interleave, unless unrelated processes are registered under the same number.
OneKeepsOriginal ==
    [][\A id \in Pages, r \in Procs, p \in Procs :
         (/\ Copy(p) /\ writing[p].page = id /\ orig[p][id] = r
          /\ \A q \in procs[id] : orig[q][id] \in {r, NoProc}) =>
            \E q \in Procs : orig'[q][id] = r]_vars

=============================================================================
