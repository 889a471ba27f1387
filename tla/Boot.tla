-------------------------------- MODULE Boot --------------------------------
(***************************************************************************)
(* The first part of kernel_main: device_tree_init parses the device tree  *)
(* (DeviceTree), find_memory_regions of kernel/memory/pager.c looks the    *)
(* memory up in it, and the rest of pager_init cuts the pages out of what  *)
(* it found (MemoryRegions).                                               *)
(***************************************************************************)
EXTENDS DeviceTree, MemoryRegions

CONSTANTS
    KERNEL_VMA_START    \* where physical memory is mapped

VARIABLE found          \* find_memory_regions has returned

vars == <<tree_vars, region_vars, found>>

Init ==
    /\ TreeInit
    /\ RegionsInit
    /\ found = FALSE

ParseStep ==
    /\ TreeNext
    /\ UNCHANGED <<region_vars, found>>

\* The region of a "reg" property.
Mapped(reg) == [reg EXCEPT !.start = (@ + KERNEL_VMA_START) % ADDRESSES]

\* A mutant: the first child that matches is left out.
RegionsUnderSkipFirst(n, prefix) ==
    LET reg(iter) == device_tree_prefix_get_child(
                         device_tree_prefix_get_child(n, prefix, iter), <<"reg">>, 0)
        cnt == CHOOSE c \in 0..Len(Matching(n, prefix)) :
                  /\ \A k \in 0..c-1 : reg(k) # NULL
                  /\ c < Len(Matching(n, prefix)) => reg(c) = NULL
    IN  [k \in 1..cnt-1 |-> Mapped(node[reg(k)].value)]

\* The loops of find_memory_regions: the children of a record whose names start with
\* a prefix, up to the first one that has no "reg".
RegionsUnder(n, prefix) ==
    LET reg(iter) == device_tree_prefix_get_child(
                         device_tree_prefix_get_child(n, prefix, iter), <<"reg">>, 0)
        cnt == CHOOSE c \in 0..Len(Matching(n, prefix)) :
                  /\ \A k \in 0..c-1 : reg(k) # NULL
                  /\ c < Len(Matching(n, prefix)) => reg(c) = NULL
    IN  [k \in 1..cnt |-> Mapped(node[reg(k - 1)].value)]

\* find_memory_regions, and the kernel's own region.
FindMemoryRegions ==
    LET root_reserved_memory == device_tree_prefix_get_child(root, <<"reserved-memory">>, 0)
    IN  /\ tree_panic = "NONE" /\ root # NULL /\ ~found
        /\ found' = TRUE
        /\ IF root_reserved_memory = NULL
             THEN /\ panic' = "NO_RESERVED_MEMORY"
                  /\ UNCHANGED <<memory, reserved, free, i, j, pages, done>>
             ELSE RegionsFound(RegionsUnder(root, <<"memory">>),
                               RegionsUnder(root_reserved_memory, <<>>))
        /\ UNCHANGED tree_vars

CutPages ==
    /\ found
    /\ RegionsNext
    /\ UNCHANGED <<tree_vars, found>>

Stopped == done \/ "NONE" \notin {panic} \cap {tree_panic}

freeze_system ==
    /\ Stopped
    /\ UNCHANGED vars

Next == ParseStep \/ FindMemoryRegions \/ CutPages \/ freeze_system

Spec == Init /\ [][Next]_vars /\ WF_vars(Next)

-----------------------------------------------------------------------------
(* Properties *)

\* Every variable stays in its range.
TypeOK ==
    /\ TreeTypeOK
    /\ RegionsTypeOK
    /\ found \in BOOLEAN

\* The boot comes to an end: the parser reads every blob to its end, and the loop over
\* the regions ends although it examines some of them again and adds others
\* (dtb.c:66-141, pager.c:92-140).
BootEnds == <>Stopped

\* The records of the document that have a "reg", under a node at depth d with a given
\* first word in its name.
RegAt(k) == {m \in Items : IsParent(k, m) /\ doc[m].name = <<"reg">>}
NodesNamed(word) == {k \in Items : /\ doc[k].code = "node" /\ Depth(k) = 1
                                   /\ doc[k].name[1] = word}

\* The pager is given the memory of the device tree: the "reg" of the memory nodes of
\* the document, all of them up to the first that has none, in their order and
\* nothing else (pager.c:36-59).
MemoryNodesFound ==
    found /\ panic # "NO_RESERVED_MEMORY" =>
        LET nodes == InOrder(NodesNamed("memory"))
            value(n) == doc[CHOOSE m \in RegAt(nodes[n]) : TRUE].value
            without == {n \in DOMAIN nodes : RegAt(nodes[n]) = {}}
        IN  memory = [n \in {n \in DOMAIN nodes : \A m \in without : n < m} |->
                          Mapped(value(n))]

-----------------------------------------------------------------------------
(* What comments of the repository say, and the code does not do *)

\* "remove reserved areas if they fit inside of a region, if outside trim"
\* (pager.c:162): every area under reserved-memory is known to pager_init.
ReservedNodesFound ==
    found /\ panic = "NONE" =>
        \A r \in NodesNamed("reserved-memory") :
            \A k \in {k \in Items : IsParent(r, k) /\ doc[k].code = "node"} :
                \A m \in RegAt(k) : \E n \in DOMAIN reserved : reserved[n] = Mapped(doc[m].value)
=============================================================================
