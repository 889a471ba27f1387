-------------------------------- MODULE Asid --------------------------------
(***************************************************************************)
(* Address space identifiers (arch_vma/virtual_memory.c): vma_swap gives a *)
(* process an identifier the first time it runs and writes it to satp; the *)
(* hart tags what it caches of the page tables with it.  A change of the   *)
(* tables is followed by sfence.vma for the identifier of the process.     *)
(*                                                                         *)
(* The tables of a process are a version number: vma_replace_section makes *)
(* a new version, and the cache may hold translations of older ones.       *)
(***************************************************************************)
EXTENDS Integers, FiniteSets

CONSTANTS
    Procs,
    Boot,           \* the tables of arch_boot.S
    MaxAsids,       \* the largest identifiers harts may have; 0 without identifiers
    VersionBound    \* bound: changes of one process's tables

ASSUME AsidAssumption ==
    /\ MaxAsids \subseteq Nat
    /\ VersionBound \in Nat
    /\ Boot \notin Procs

Unset == -1         \* U64_MAX

VARIABLES
    max_asid,               \* what vma_init finds in satp
    asid,                   \* proc->vma_addr_space_id
    current_highest_asid,
    last_hart,              \* the processes process_update_context_switch has served
    satp,                   \* the identifier and the tables in satp
    version,
    tlb                     \* the cached translations: identifier, tables, version

Asids == 0..max_asid

vars == <<max_asid, asid, current_highest_asid, last_hart, satp, version, tlb>>

\* After vma_init: arch_boot.S has put the largest identifier into satp.
Init ==
    /\ max_asid \in MaxAsids
    /\ asid = [p \in Procs |-> Unset]
    /\ current_highest_asid = max_asid
    /\ last_hart = {}
    /\ satp = [asid |-> max_asid, proc |-> Boot]
    /\ version = [p \in Procs \cup {Boot} |-> 0]
    /\ tlb = {}

Cached(a, p) == [asid |-> a, proc |-> p, version |-> version[p]]

\* The hart caches a translation of the tables in satp.
Translate ==
    /\ tlb' = tlb \cup {Cached(satp.asid, satp.proc)}
    /\ UNCHANGED <<max_asid, asid, current_highest_asid, last_hart, satp, version>>

\* A mutant: no fence.
FenceNone(a, cache) == cache

\* sfence.vma for one identifier; U64_MAX has the bits of the largest one.
Fence(a, cache) ==
    {e \in cache : e.asid # (IF max_asid = 0 THEN 0 ELSE IF a = Unset THEN max_asid ELSE a)}

\* A change of the tables of p, and the fence at its end.  The callers change the
\* tables of the process that runs, or of one that is being made.
vma_replace_section(p) ==
    /\ p = satp.proc \/ asid[p] = Unset
    /\ version[p] < VersionBound
    /\ version' = [version EXCEPT ![p] = @ + 1]
    /\ tlb' = Fence(asid[p], tlb)
    /\ UNCHANGED <<max_asid, asid, current_highest_asid, last_hart, satp>>

\* The identifier vma_fetch_asid returns, which is also current_highest_asid then.
vma_fetch_asid ==
    IF max_asid = 0 \/ current_highest_asid >= max_asid THEN 0 ELSE current_highest_asid + 1

\* vma_reset_asid runs when it starts again from 0.  Its loop takes a slot of the
\* list of processes for a process, writes there, and moves to the next list
\* instead of the next slot: no process loses its identifier.
Resets == max_asid = 0 \/ current_highest_asid >= max_asid

\* The fence at the end of vma_swap.
SwapFence(fetched, a, cache) ==
    IF max_asid = 0 THEN {}
    ELSE IF fetched THEN Fence(a, cache) ELSE cache

\* change_context: process_update_context_switch maps the stack of the hart the first
\* time, then vma_swap.
change_context(p) ==
    LET first == p \notin last_hart
        fetched == asid[p] = Unset \/ max_asid = 0
        a == IF fetched THEN vma_fetch_asid ELSE asid[p]
        afterMap == IF first THEN Fence(asid[p], tlb) ELSE tlb
        afterReset == IF fetched /\ Resets THEN {} ELSE afterMap
    IN  /\ p # satp.proc
        /\ last_hart' = last_hart \cup {p}
        /\ version' = [version EXCEPT ![p] = IF first THEN @ + 1 ELSE @]
        /\ asid' = [asid EXCEPT ![p] = a]
        /\ current_highest_asid' = IF fetched THEN a ELSE current_highest_asid
        /\ satp' = [asid |-> a, proc |-> p]
        /\ tlb' = SwapFence(fetched, a, afterReset)
        /\ UNCHANGED max_asid

Next ==
    \/ Translate
    \/ \E p \in Procs : vma_replace_section(p) \/ change_context(p)

Spec == Init /\ [][Next]_vars

-----------------------------------------------------------------------------
\* Identifiers fit satp: vma_fetch_asid never passes the largest one.
TypeOK ==
    /\ max_asid \in MaxAsids
    /\ asid \in [Procs -> Asids \cup {Unset}]
    /\ current_highest_asid \in Asids
    /\ last_hart \subseteq Procs
    /\ satp.asid \in Asids /\ satp.proc \in Procs \cup {Boot}
    /\ version \in [Procs \cup {Boot} -> 0..VersionBound+1]
    /\ \A e \in tlb : e.asid \in Asids /\ e.proc \in Procs \cup {Boot}

\* The hart never translates with an entry of another process's tables, nor with one
\* older than the last vma_replace_section: what is cached under the identifier in
\* satp comes from the tables in satp as they are now.
NoStaleTranslation ==
    \A e \in tlb : e.asid = satp.asid => e = Cached(satp.asid, satp.proc)

\* "loop over all processes, set asid to -1 meaning not set" (vma_reset_asid): once the
\* identifiers start again from 0, a process has its own or none.
ResetForgetsAsids ==
    \A p, q \in Procs : (p # q /\ asid[p] # Unset) => asid[p] # asid[q]

\* "ASID needs to be highest num as this will be reserved for kernel process"
\* (arch_boot.S): no process gets the largest identifier.
HighestAsidReserved == \A p \in Procs : asid[p] # max_asid
=============================================================================
