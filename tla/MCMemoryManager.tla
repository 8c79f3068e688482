--------------------------- MODULE MCMemoryManager ---------------------------
(* Instances of MemoryManager for TLC. *)
EXTENDS MemoryManager, TLC

CONSTANTS p1, p2

OneProc == {p1}
TwoProcs == {p1, p2}
Symmetric == Permutations(Procs)

NoHuge == \A p \in Procs, i \in HugeIdx : mm.huge[p][i] = NoFrame

\* The mappings are explored up to and including the first breach; once a huge page has
\* been mapped, without pins and with one copy.
UpToBreach ==
    NoBreach /\ ("alias" \in mm.history => mm.pinned = {} /\ mm.copies < 2)

\* Compression and pins are explored apart from NUMA placement and clustering, which
\* share no state with them but the frames, and pins apart from huge pages.
Compressing ==
    /\ mm.on \subseteq {"compression"} /\ \A p \in Procs : mm.recent[p] = <<>>
    /\ mm.pinned = {} \/ NoHuge
Prefetching ==
    mm.on \subseteq {"numa", "clustering"} /\ mm.zip = {} /\ mm.pinned = {} /\ NoHuge
Apart == Compressing \/ Prefetching

\* The tables of MM_Policies are explored up to the first huge page that is mapped under
\* the number of a small page.
ApartUpToAlias == Apart /\ "alias" \notin mm.history
=============================================================================
