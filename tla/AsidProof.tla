----------------------------- MODULE AsidProof ------------------------------
(* Proofs about address space identifiers, for any number of processes a     *)
(* hart has identifiers for and for harts without identifiers.               *)
EXTENDS Asid, FiniteSetTheorems, TLAPS

\* Every hart has no identifiers, or enough for all processes: vma_reset_asid does not
\* take back the ones it has given out.
EnoughAsids ==
    /\ IsFiniteSet(Procs)
    /\ \A m \in MaxAsids : m = 0 \/ Cardinality(Procs) <= m + 1

-----------------------------------------------------------------------------
(* The inductive invariant *)

\* A process has an identifier once it has run, and its tables change once more then.
ServedProcesses ==
    /\ \A p \in Procs : asid[p] # Unset <=> p \in last_hart
    /\ \A p \in Procs \ last_hart : version[p] <= VersionBound
    /\ satp.proc = Boot => satp.asid = max_asid /\ last_hart = {}
    /\ satp.proc # Boot => satp.proc \in last_hart /\ satp.asid = asid[satp.proc]

\* Without identifiers everything cached belongs to the tables in satp.
CacheOfOne == \A e \in tlb : e = Cached(0, satp.proc)

\* With identifiers the processes that have run own the lowest ones, one each.
LowestAsids ==
    /\ last_hart = {} => current_highest_asid = max_asid
    /\ last_hart # {} => current_highest_asid + 1 = Cardinality(last_hart)
    /\ \A p \in last_hart : asid[p] <= current_highest_asid
    /\ \A p, q \in last_hart : asid[p] = asid[q] => p = q

\* Whatever is cached is the present version of the tables of the identifier's owner.
CacheOfOwners ==
    \A e \in tlb :
        /\ e = Cached(e.asid, e.proc)
        /\ IF satp.proc = Boot THEN e.proc = Boot /\ e.asid = max_asid
                               ELSE e.proc \in last_hart /\ e.asid = asid[e.proc]

IInv ==
    /\ TypeOK
    /\ ServedProcesses
    /\ IF max_asid = 0 THEN CacheOfOne ELSE LowestAsids /\ CacheOfOwners

-----------------------------------------------------------------------------
(* Every step keeps it *)

LEMMA InitIInv == Init => IInv
  BY AsidAssumption
  DEF Init, IInv, TypeOK, ServedProcesses, CacheOfOne, LowestAsids, CacheOfOwners, Asids, Unset

LEMMA TranslateKeepsIInv ==
    ASSUME IInv, Translate
    PROVE  IInv'
  <1> DEFINE new == Cached(satp.asid, satp.proc)
  <1>1. /\ tlb' = tlb \cup {new}
        /\ UNCHANGED <<max_asid, asid, current_highest_asid, last_hart, satp, version>>
    BY DEF Translate
  <1>2. new = [asid |-> satp.asid, proc |-> satp.proc, version |-> version[satp.proc]]
    BY DEF Cached
  <1>3. TypeOK'
    BY <1>1, <1>2 DEF IInv, TypeOK, Asids
  <1>4. ServedProcesses'
    BY <1>1 DEF IInv, ServedProcesses
  <1>5. CASE max_asid = 0
    <2>1. satp.asid = 0
      BY <1>5 DEF IInv, TypeOK, Asids
    <2>2. CacheOfOne'
      BY <1>1, <1>5, <2>1 DEF IInv, CacheOfOne, Cached
    <2>3. QED
      BY <1>1, <1>3, <1>4, <1>5, <2>2 DEF IInv
  <1>6. CASE max_asid # 0
    <2>1. LowestAsids'
      BY <1>1, <1>6 DEF IInv, LowestAsids
    <2>2. CacheOfOwners'
      BY <1>1, <1>2, <1>6 DEF IInv, CacheOfOwners, ServedProcesses, Cached
    <2>3. QED
      BY <1>1, <1>3, <1>4, <1>6, <2>1, <2>2 DEF IInv
  <1>7. QED
    BY <1>5, <1>6

LEMMA ReplaceKeepsIInv ==
    ASSUME IInv, NEW p \in Procs, vma_replace_section(p)
    PROVE  IInv'
  <1>1. /\ p = satp.proc \/ asid[p] = Unset
        /\ version[p] < VersionBound
        /\ version' = [version EXCEPT ![p] = @ + 1]
        /\ tlb' = Fence(asid[p], tlb)
        /\ UNCHANGED <<max_asid, asid, current_highest_asid, last_hart, satp>>
    BY DEF vma_replace_section
  <1>2. tlb' \subseteq tlb
    BY <1>1 DEF Fence
  <1>3. /\ version \in [Procs \cup {Boot} -> 0..VersionBound+1]
        /\ max_asid \in Nat /\ p # Boot
    BY AsidAssumption DEF IInv, TypeOK
  <1>4. TypeOK'
    BY <1>1, <1>2, <1>3, AsidAssumption DEF IInv, TypeOK, Asids
  <1>5. ServedProcesses'
    BY <1>1, <1>3, AsidAssumption DEF IInv, ServedProcesses
  <1>6. CASE max_asid = 0
    <2>1. \A e \in tlb : e.asid = 0
      BY <1>6 DEF IInv, CacheOfOne, Cached
    <2>2. tlb' = {}
      BY <1>1, <1>6, <2>1 DEF Fence
    <2>3. QED
      BY <1>1, <1>4, <1>5, <1>6, <2>2 DEF IInv, CacheOfOne
  <1>7. CASE max_asid # 0
    <2>1. LowestAsids'
      BY <1>1, <1>7 DEF IInv, LowestAsids
    <2>2. ASSUME NEW e \in tlb' PROVE e.proc # p
      <3>1. CASE asid[p] = Unset
        BY <1>2, <1>3, <1>7, <3>1 DEF IInv, CacheOfOwners, ServedProcesses
      <3>2. CASE p = satp.proc /\ asid[p] # Unset
        BY <1>1, <1>2, <1>3, <1>7, <3>2 DEF IInv, CacheOfOwners, Fence
      <3>3. QED
        BY <1>1, <3>1, <3>2
    <2>3. ASSUME NEW e \in tlb' PROVE Cached(e.asid, e.proc)' = Cached(e.asid, e.proc)
      <3>1. version'[e.proc] = version[e.proc]
        BY <1>1, <1>2, <1>3, <2>2 DEF IInv, TypeOK
      <3>2. QED
        BY <3>1 DEF Cached
    <2>4. CacheOfOwners'
      BY <1>1, <1>2, <1>7, <2>3 DEF IInv, CacheOfOwners
    <2>5. QED
      BY <1>1, <1>4, <1>5, <1>7, <2>1, <2>4 DEF IInv
  <1>8. QED
    BY <1>6, <1>7

\* A process that has not run is one the identifiers are not used up by.
LEMMA AsidLeft ==
    ASSUME IInv, EnoughAsids, max_asid # 0, last_hart # {}, NEW p \in Procs \ last_hart
    PROVE  /\ current_highest_asid + 1 <= max_asid
           /\ Cardinality(last_hart \cup {p}) = Cardinality(last_hart) + 1
  <1>1. IsFiniteSet(Procs) /\ last_hart \cup {p} \subseteq Procs /\ last_hart \subseteq Procs
    BY DEF EnoughAsids, IInv, TypeOK
  <1>2. IsFiniteSet(last_hart)
    BY <1>1, FS_Subset
  <1>3. Cardinality(last_hart \cup {p}) = Cardinality(last_hart) + 1
    BY <1>2, FS_AddElement
  <1>4. Cardinality(last_hart \cup {p}) <= Cardinality(Procs)
    BY <1>1, FS_Subset
  <1>5. Cardinality(Procs) <= max_asid + 1
    BY DEF EnoughAsids, IInv, TypeOK
  <1>6. current_highest_asid + 1 = Cardinality(last_hart) /\ max_asid \in Nat
    BY AsidAssumption DEF IInv, TypeOK, LowestAsids
  <1>7. Cardinality(last_hart) \in Nat /\ Cardinality(Procs) \in Nat
    BY <1>1, <1>2, FS_CardinalityType
  <1>8. current_highest_asid \in Nat
    BY DEF IInv, TypeOK, Asids
  <1>9. QED
    BY <1>3, <1>4, <1>5, <1>6, <1>7, <1>8

\* A switch to a process that has run before only writes satp.
LEMMA SwitchBackKeepsIInv ==
    ASSUME IInv, max_asid # 0, NEW p \in last_hart, change_context(p)
    PROVE  IInv'
  <1>1. p \in Procs /\ asid[p] # Unset
    BY DEF IInv, TypeOK, ServedProcesses
  <1>2. /\ last_hart' = last_hart /\ max_asid' = max_asid
        /\ current_highest_asid' = current_highest_asid
        /\ satp' = [asid |-> asid[p], proc |-> p]
        /\ tlb' = tlb
    BY <1>1 DEF change_context, SwapFence
  <1>3. version' = version /\ asid' = asid
    BY <1>1 DEF change_context, IInv, TypeOK
  <1>4. satp.proc # Boot /\ p # Boot
    BY <1>1, AsidAssumption DEF IInv, ServedProcesses
  <1>5. TypeOK'
    BY <1>1, <1>2, <1>3 DEF IInv, TypeOK, Asids
  <1>6. ServedProcesses'
    BY <1>2, <1>3, <1>4 DEF IInv, ServedProcesses
  <1>7. LowestAsids'
    BY <1>2, <1>3 DEF IInv, LowestAsids
  <1>8. CacheOfOwners'
    BY <1>2, <1>3, <1>4 DEF IInv, CacheOfOwners, Cached
  <1>9. QED
    BY <1>2, <1>5, <1>6, <1>7, <1>8 DEF IInv

\* A process that runs for the first time gets the next identifier, or the first one
\* with an empty cache.
LEMMA FirstSwitchKeepsIInv ==
    ASSUME IInv, EnoughAsids, max_asid # 0, NEW p \in Procs \ last_hart, change_context(p)
    PROVE  IInv'
  <1> DEFINE a == vma_fetch_asid
  <1>1. asid[p] = Unset /\ p # Boot /\ max_asid \in Nat /\ current_highest_asid \in 0..max_asid
    BY AsidAssumption DEF IInv, TypeOK, ServedProcesses, Asids
  <1>2. /\ last_hart' = last_hart \cup {p} /\ max_asid' = max_asid
        /\ version' = [version EXCEPT ![p] = @ + 1]
        /\ asid' = [asid EXCEPT ![p] = a]
        /\ current_highest_asid' = a
        /\ satp' = [asid |-> a, proc |-> p]
        /\ tlb' = Fence(a, IF Resets THEN {} ELSE Fence(asid[p], tlb))
    BY <1>1 DEF change_context, SwapFence
  <1>3. tlb' \subseteq tlb /\ (Resets => tlb' = {})
    BY <1>2 DEF Fence
  <1>4. CASE last_hart = {}
    <2>1. current_highest_asid = max_asid
      BY <1>4 DEF IInv, LowestAsids
    <2>2. a = 0 /\ Resets
      BY <1>1, <2>1 DEF vma_fetch_asid, Resets
    <2>3. Cardinality(last_hart') = 1
      BY <1>2, <1>4, FS_Singleton
    <2>4. TypeOK'
      BY <1>1, <1>2, <1>3, <2>2, AsidAssumption DEF IInv, TypeOK, ServedProcesses, Asids
    <2>5. ServedProcesses'
      BY <1>1, <1>2, <1>4, <2>2 DEF IInv, TypeOK, ServedProcesses, Unset
    <2>6. LowestAsids'
      BY <1>2, <1>4, <2>2, <2>3 DEF IInv, TypeOK, LowestAsids
    <2>7. CacheOfOwners'
      BY <1>3, <2>2 DEF CacheOfOwners
    <2>8. QED
      BY <1>2, <2>4, <2>5, <2>6, <2>7 DEF IInv
  <1>5. CASE last_hart # {}
    <2>1. /\ current_highest_asid + 1 <= max_asid
          /\ Cardinality(last_hart') = Cardinality(last_hart) + 1
      BY <1>2, <1>5, AsidLeft
    <2>2. a = current_highest_asid + 1 /\ a \in 0..max_asid
      BY <1>1, <2>1 DEF vma_fetch_asid
    <2>3. TypeOK'
      BY <1>1, <1>2, <1>3, <2>2, AsidAssumption DEF IInv, TypeOK, ServedProcesses, Asids
    <2>4. ServedProcesses'
      BY <1>1, <1>2, <2>2 DEF IInv, TypeOK, ServedProcesses, Unset
    <2>5. \A q \in last_hart : asid'[q] = asid[q] /\ asid[q] \in 0..max_asid /\ asid[q] < a
      BY <1>1, <1>2, <1>5, <2>2 DEF IInv, TypeOK, LowestAsids, ServedProcesses, Asids
    <2>6. asid'[p] = a
      BY <1>2 DEF IInv, TypeOK
    <2>7. LowestAsids'
      BY <1>1, <1>2, <1>5, <2>1, <2>2, <2>5, <2>6 DEF IInv, LowestAsids
    <2>8. satp.proc # Boot
      BY <1>5 DEF IInv, ServedProcesses
    <2>9. ASSUME NEW e \in tlb'
          PROVE  /\ e = Cached(e.asid, e.proc)'
                 /\ e.proc \in last_hart' /\ e.asid = asid'[e.proc]
      <3>1. /\ e = Cached(e.asid, e.proc)
            /\ e.proc \in last_hart /\ e.asid = asid[e.proc]
        BY <1>3, <2>8 DEF IInv, CacheOfOwners
      <3>2. version'[e.proc] = version[e.proc]
        BY <1>2, <3>1 DEF IInv, TypeOK
      <3>3. QED
        BY <1>2, <2>5, <3>1, <3>2 DEF Cached
    <2>10. CacheOfOwners'
      BY <1>1, <1>2, <2>9 DEF CacheOfOwners
    <2>11. QED
      BY <1>2, <2>3, <2>4, <2>7, <2>10 DEF IInv
  <1>6. QED
    BY <1>4, <1>5

\* Without identifiers every switch empties the cache.
LEMMA SwitchAloneKeepsIInv ==
    ASSUME IInv, max_asid = 0, NEW p \in Procs, change_context(p)
    PROVE  IInv'
  <1>1. vma_fetch_asid = 0 /\ p # Boot
    BY AsidAssumption DEF vma_fetch_asid
  <1>2. /\ last_hart' = last_hart \cup {p} /\ max_asid' = max_asid
        /\ asid' = [asid EXCEPT ![p] = 0]
        /\ current_highest_asid' = 0
        /\ satp' = [asid |-> 0, proc |-> p]
        /\ tlb' = {}
        /\ version' = [version EXCEPT ![p] = IF p \notin last_hart THEN @ + 1 ELSE @]
    BY <1>1 DEF change_context, SwapFence
  <1>3. TypeOK'
    <2>1. version' \in [Procs \cup {Boot} -> 0..VersionBound+1]
      BY <1>2, AsidAssumption DEF IInv, TypeOK, ServedProcesses
    <2>2. QED
      BY <1>2, <2>1, AsidAssumption DEF IInv, TypeOK, Asids
  <1>4. ServedProcesses'
    BY <1>1, <1>2 DEF IInv, TypeOK, ServedProcesses, Unset
  <1>5. QED
    BY <1>2, <1>3, <1>4 DEF IInv, CacheOfOne

LEMMA StepKeepsIInv == EnoughAsids /\ IInv /\ [Next]_vars => IInv'
  <1>1. SUFFICES ASSUME EnoughAsids, IInv, [Next]_vars PROVE IInv'
    OBVIOUS
  <1>2. CASE Translate
    BY <1>1, <1>2, TranslateKeepsIInv
  <1>3. ASSUME NEW p \in Procs, vma_replace_section(p) PROVE IInv'
    BY <1>1, <1>3, ReplaceKeepsIInv
  <1>4. ASSUME NEW p \in Procs, change_context(p) PROVE IInv'
    BY <1>1, <1>4, SwitchBackKeepsIInv, FirstSwitchKeepsIInv, SwitchAloneKeepsIInv
  <1>5. CASE UNCHANGED vars
    BY <1>1, <1>5
    DEF vars, IInv, TypeOK, ServedProcesses, CacheOfOne, LowestAsids, CacheOfOwners, Asids, Cached
  <1>6. QED
    BY <1>1, <1>2, <1>3, <1>4, <1>5 DEF Next

LEMMA SpecIInv == EnoughAsids => (Spec => []IInv)
  <1>1. SUFFICES ASSUME EnoughAsids PROVE Spec => []IInv
    OBVIOUS
  <1>2. IInv /\ [Next]_vars => IInv'
    BY <1>1, StepKeepsIInv
  <1>3. QED
    BY <1>2, InitIInv, PTL DEF Spec

\* The invariant leaves one owner to the identifier in satp.
LEMMA IInvImpliesFresh == IInv => NoStaleTranslation
  <1>1. SUFFICES ASSUME IInv, NEW e \in tlb, e.asid = satp.asid
                 PROVE  e = Cached(satp.asid, satp.proc)
    BY DEF NoStaleTranslation
  <1>2. CASE max_asid = 0
    BY <1>1, <1>2 DEF IInv, TypeOK, Asids, CacheOfOne
  <1>3. CASE max_asid # 0
    <2>1. e.proc = satp.proc
      BY <1>1, <1>3 DEF IInv, CacheOfOwners, LowestAsids, ServedProcesses
    <2>2. QED
      BY <1>1, <1>3, <2>1 DEF IInv, CacheOfOwners
  <1>4. QED
    BY <1>2, <1>3

\* However many processes share the hart, and on harts without identifiers, the hart
\* never uses a translation of other tables or of older ones, as long as the
\* identifiers are enough for the processes (virtual_memory.c:316, 440-470).
THEOREM TranslationsAreFresh == EnoughAsids => (Spec => []NoStaleTranslation)
  <1>1. SUFFICES ASSUME EnoughAsids PROVE Spec => []NoStaleTranslation
    OBVIOUS
  <1>2. Spec => []IInv
    BY <1>1, SpecIInv
  <1>3. QED
    BY <1>2, IInvImpliesFresh, PTL
=============================================================================
