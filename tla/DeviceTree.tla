----------------------------- MODULE DeviceTree -----------------------------
(***************************************************************************)
(* dtb_dump of arch_device_tree/dtb.c and device_tree_init: the device     *)
(* tree blob, a token of its structure block at a time, becomes a tree of  *)
(* device_info records linked by first_child and next_sibling, and callers *)
(* look children up by a prefix of their name.  A name is a sequence of    *)
(* words, and a record is named by its place in memory, 0 being NULL.      *)
(***************************************************************************)
EXTENDS Integers, Sequences, SequencesExt, FiniteSets

CONSTANTS
    Documents,      \* the structure blocks the boot loader may hand over
    STACK           \* entries of node_stack, 16 in the code

ASSUME DeviceTreeAssumption == STACK \in Nat /\ STACK >= 4

NULL == 0
GARBAGE == -1       \* an entry of node_stack that was never written

VARIABLES
    doc,            \* the blob that was handed over
    at,             \* byte_location, in tokens
    node,           \* the device_info records written so far
    node_stack,     \* the last record at every depth
    node_depth,
    root,           \* root_device_node
    tree_panic

tree_vars == <<doc, at, node, node_stack, node_depth, root, tree_panic>>

\* node_stack lives on the stack and its first three entries are set.
BlankStack == {s \in [0..STACK-1 -> {NULL, GARBAGE}] : \A d \in 0..2 : s[d] = NULL}

TreeInit ==
    /\ doc \in Documents
    /\ at = 1
    /\ node = <<>>
    /\ node_stack \in BlankStack
    /\ node_depth = 0
    /\ root = NULL
    /\ tree_panic = "NONE"

Reading(codes) == tree_panic = "NONE" /\ at <= Len(doc) /\ doc[at].code \in codes

Blank(token) == [name |-> token.name, value |-> token.value,
                 first_child |-> NULL, next_sibling |-> NULL]

\* The records once the one of a token is written and linked: behind the last record
\* of its depth, and under the open node if it is the first one there.
Linked(token) ==
    LET new     == Len(node) + 1
        sibling == node_stack[node_depth]
    IN  [n \in 1..new |->
           IF n = new THEN Blank(token)
           ELSE [node[n] EXCEPT !.next_sibling = IF n = sibling THEN new ELSE @,
                                !.first_child  = IF /\ node_depth > 0
                                                    /\ n = node_stack[node_depth - 1]
                                                    /\ @ = NULL
                                                   THEN new ELSE @]]

\* The magic number and the version of the blob.
Header ==
    /\ Reading({"header"})
    /\ tree_panic' = IF doc[at].value = "ok" THEN "NONE" ELSE doc[at].value
    /\ at' = at + 1
    /\ UNCHANGED <<doc, node, node_stack, node_depth, root>>

\* next_sibling is written through an entry that was never set.
WildWrite ==
    /\ Reading({"node", "property"})
    /\ node_stack[node_depth] = GARBAGE
    /\ tree_panic' = "WILD_POINTER"
    /\ UNCHANGED <<doc, at, node, node_stack, node_depth, root>>

NodeStart ==
    /\ Reading({"node"})
    /\ node_stack[node_depth] # GARBAGE
    /\ node' = Linked(doc[at])
    /\ node_stack' = [node_stack EXCEPT ![node_depth] = Len(node')]
    /\ node_depth' = node_depth + 1
    /\ tree_panic' = IF node_depth' >= STACK - 2 THEN "DTB_STACK_DEPTH_TO_HIGH" ELSE "NONE"
    /\ at' = at + 1
    /\ UNCHANGED <<doc, root>>

\* Mutant of NodeEnd: the children stay on the stack.
NodeEndKeepSibling ==
    /\ Reading({"end"})
    /\ node_depth' = node_depth - 1
    /\ tree_panic' = IF node_depth' < 0 THEN "DTB_STACK_DEPTH_LESS_ZERO" ELSE "NONE"
    /\ at' = at + 1
    /\ UNCHANGED <<doc, node, node_stack, root>>

NodeEnd ==
    /\ Reading({"end"})
    /\ node_stack' = [node_stack EXCEPT ![node_depth] = NULL]
    /\ node_depth' = node_depth - 1
    /\ tree_panic' = IF node_depth' < 0 THEN "DTB_STACK_DEPTH_LESS_ZERO" ELSE "NONE"
    /\ at' = at + 1
    /\ UNCHANGED <<doc, node, root>>

Property ==
    /\ Reading({"property"})
    /\ node_stack[node_depth] # GARBAGE
    /\ node' = Linked(doc[at])
    /\ node_stack' = [node_stack EXCEPT ![node_depth] = Len(node')]
    /\ at' = at + 1
    /\ UNCHANGED <<doc, node_depth, root, tree_panic>>

\* "no operation", and the code that ends the structure block.
NoOperation ==
    /\ Reading({"nop", "done"})
    /\ at' = at + 1
    /\ UNCHANGED <<doc, node, node_stack, node_depth, root, tree_panic>>

UnexpectedCode ==
    /\ Reading({"unknown"})
    /\ tree_panic' = "DTB_UNEXPECTED_CODE"
    /\ UNCHANGED <<doc, at, node, node_stack, node_depth, root>>

-----------------------------------------------------------------------------
\* The records that hang under a record, first to last.
Children(n) ==
    LET from[k \in 0..Len(node)] ==
          IF k = NULL THEN <<>> ELSE <<k>> \o from[node[k].next_sibling]
    IN  from[node[n].first_child]

Matching(n, prefix) == SelectSeq(Children(n), LAMBDA c : IsPrefix(prefix, node[c].name))

device_tree_prefix_get_child(n, prefix, iter_num) ==
    LET found == Matching(n, prefix)
    IN  IF iter_num < Len(found) THEN found[iter_num + 1] ELSE NULL

\* The cell sizes device_tree_init asks for.
CellSize(top, name) ==
    LET c == device_tree_prefix_get_child(top, name, 0) IN IF c = NULL THEN NULL ELSE node[c].value

\* The end of dtb_dump, and the checks of device_tree_init.
TreeDone ==
    /\ tree_panic = "NONE" /\ root = NULL
    /\ at > Len(doc)
    /\ root' = node_stack[0]
    /\ LET address_cells == CellSize(root', <<"#address-cells">>)
           cell_size     == CellSize(root', <<"#size-cells">>)
       IN  tree_panic' = IF NULL \in {address_cells, cell_size}
                           THEN "FAILED_TO_GET_ADDRESS_CELL_SIZE_INFO"
                         ELSE IF address_cells # 2 THEN "THE_ADDRESS_CELL_NOT_TWO"
                         ELSE IF cell_size # 2 THEN "THE_CELL_SIZE_NOT_TWO" ELSE "NONE"
    /\ UNCHANGED <<doc, at, node, node_stack, node_depth>>

TreeNext ==
    \/ Header
    \/ WildWrite
    \/ NodeStart
    \/ NodeEnd
    \/ Property
    \/ NoOperation
    \/ UnexpectedCode
    \/ TreeDone

-----------------------------------------------------------------------------
(* Properties *)

TreeTypeOK ==
    /\ \A n \in DOMAIN node : {node[n].first_child, node[n].next_sibling} \subseteq 0..Len(node)
    /\ node_stack \in [0..STACK-1 -> GARBAGE..Len(node)]
    /\ node_depth \in -1..STACK-2

\* The reference: the tree a structure block stands for.  Depth(k) counts the nodes
\* that are open at token k; the parent of a token is the last one of them.
Depth(k) == Cardinality({m \in 1..k-1 : doc[m].code = "node"})
              - Cardinality({m \in 1..k-1 : doc[m].code = "end"})
InOrder(S) == SelectSeq([k \in 1..Len(doc) |-> k], LAMBDA k : k \in S)
Items == {k \in 1..at-1 : doc[k].code \in {"node", "property"}}
IsParent(j, k) == /\ j < k /\ doc[j].code = "node"
                  /\ Depth(k) = Depth(j) + 1
                  /\ \A m \in j+1..k : Depth(m) > Depth(j)

\* At every token the linked records are the tree of the part that was read: every
\* record has the children its node has, once and in order, with their names and
\* values (dtb.c:79-86, 98-101, 123-131).
TreeIsDocument ==
    tree_panic \in {"NONE", "DTB_UNEXPECTED_CODE"} =>
        LET token == InOrder(Items)
        IN  /\ Len(node) = Len(token)
            /\ \A n \in DOMAIN node :
                 /\ node[n].name = doc[token[n]].name /\ node[n].value = doc[token[n]].value
                 /\ [c \in DOMAIN Children(n) |-> token[Children(n)[c]]]
                      = InOrder({k \in Items : IsParent(token[n], k)})
=============================================================================
