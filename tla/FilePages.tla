----------------------------- MODULE FilePages ------------------------------
(***************************************************************************)
(* The pages of a file: the radix trees of kernel/memory/radix.c and the   *)
(* use kernel/file_system makes of them.  An inode keeps a root for every  *)
(* depth; entry 0 of each root is the root below, so that they all lead to *)
(* the same pages and a small page number is found in few steps.           *)
(***************************************************************************)
EXTENDS Integers, Sequences, FiniteSets, TLC, SequencesExt

CONSTANTS
    DEPTH_SIZE,     \* INODE_FILE_RADIX_LEVEL_DEPTH, 4 in the code
    MAX_DEPTH,      \* INODE_FILE_RADIX_MAX_DEPTH, 16 in the code
    Nodes,          \* what mem_alloc hands out for tree nodes
    Pages,          \* what pg_alloc hands out for file pages
    PageNums,       \* the page numbers callers name
    PAGE            \* bytes of a page, 4096 in the code

ASSUME FilePagesAssumption ==
    /\ {DEPTH_SIZE, MAX_DEPTH} \subseteq Nat \ {0}
    /\ Nodes \subseteq Nat \ {0}
    /\ Pages \subseteq Nat \ {0}
    /\ Pages \cap Nodes = {}
    /\ 1..MAX_DEPTH \subseteq Nodes
    /\ PageNums \subseteq 0..(2^(DEPTH_SIZE * (MAX_DEPTH - 1)) - 2)
    /\ PAGE \in Nat \ {0}

Size == 2^DEPTH_SIZE                    \* entries of a node
Idx == 0..Size-1
WIDTH == DEPTH_SIZE * MAX_DEPTH         \* 64 in the code: the bits of a u64
Null == 0
Levels == 0..MAX_DEPTH-1
Zeros == [i \in 0..PAGE-1 |-> 0]

VARIABLES
    node,       \* node[n][i]: the entries of a tree node
    used,       \* the nodes mem_alloc has handed out
    pages,      \* the pages the file owns: page number to page
    byte,       \* byte[g][i]: what is in the pages
    size,       \* file_data.size
    panic

file_vars == <<node, used, pages, byte, size, panic>>

Tree == [node |-> node, used |-> used, panic |-> panic]
Stop(t, what) == [t EXCEPT !.panic = what]

\* Root l of the inode: the nodes are numbered as create_blank_inode_file makes them.
Root(l) == l + 1

\* A mutant: the roots are not chained.
BlankNodeAlone(n) == [i \in Idx |-> Null]

\* create_blank_inode_file: entry 0 of a root is the root before it.
BlankNode(n) == [i \in Idx |-> IF i = 0 /\ n \in 2..MAX_DEPTH THEN n - 1 ELSE Null]

FileInit ==
    /\ node = [n \in Nodes |-> BlankNode(n)]
    /\ used = 1..MAX_DEPTH
    /\ pages = <<>>
    /\ byte = [g \in Pages |-> Zeros]
    /\ size = 0
    /\ panic = "NONE"

-----------------------------------------------------------------------------
\* Step i of a walk of depth levels, and the steps of a walk.
level_postion(key, depth, i) == (key \div Size^(depth - i)) % Size
Steps(n) == [i \in 1..n |-> i]

radix_get(t, root, key, depth) ==
    FoldLeft(LAMBDA at, i : IF at = Null THEN Null ELSE t.node[at][level_postion(key, depth, i)],
             root, Steps(depth))

\* The limit radix_insert compares the key with: a shift by the width of the word is
\* a shift by 0 on this machine.
Limit(depth) == 2^((DEPTH_SIZE * depth) % WIDTH)

\* A mutant: a node is made also where there is one.
DescendAnew(t, at, i) ==
    LET new == CHOOSE n \in Nodes \ t.used : \A m \in Nodes \ t.used : n <= m
    IN  [t |-> [t EXCEPT !.used = @ \cup {new},
                         !.node = [@ EXCEPT ![at][i] = new, ![new] = [k \in Idx |-> Null]]],
         at |-> new]

\* One step down, making the node if there is none.
Descend(t, at, i) ==
    LET new == CHOOSE n \in Nodes \ t.used : \A m \in Nodes \ t.used : n <= m
    IN  IF t.node[at][i] # Null THEN [t |-> t, at |-> t.node[at][i]]
        ELSE [t |-> [t EXCEPT !.used = @ \cup {new},
                              !.node = [@ EXCEPT ![at][i] = new, ![new] = [k \in Idx |-> Null]]],
              at |-> new]

radix_insert(t, root, key, child, depth) ==
    LET leaf == FoldLeft(LAMBDA acc, i : Descend(acc.t, acc.at, level_postion(key, depth, i)),
                         [t |-> t, at |-> root], Steps(depth - 1))
    IN  IF t.panic # "NONE" THEN t
        ELSE IF key >= Limit(depth) THEN Stop(t, "addr_KEY_LARGER_THEN_RADIX")
        ELSE [leaf.t EXCEPT !.node[leaf.at][key % Size] = child]

\* The nodes below a node at a given depth, the root of the walk excluded.
Below(t, root, depth) ==
    LET kids(s) == {t.node[n][i] : n \in s, i \in Idx} \ {Null}
        layer == FoldLeft(LAMBDA acc, i : Append(acc, kids(acc[i])), <<{root}>>, Steps(depth - 1))
    IN  UNION {layer[i] : i \in 2..depth}

-----------------------------------------------------------------------------
\* furthest_one of page_num + 1, over the bits of a level.
PageLevel(page) ==
    (CHOOSE b \in 0..page+1 : 2^b <= page + 1 /\ page + 1 < 2^(b + 1)) \div DEPTH_SIZE

\* The pages as pg_alloc hands them out: first fit.
FreePages(f) == Pages \ {f.pages[k] : k \in DOMAIN f.pages}
pg_alloc(f) == CHOOSE g \in FreePages(f) : \A h \in FreePages(f) : g <= h

\* find_page_start on a file f, the tree, the pages and their bytes: a page is made,
\* blank, for an offset past the end, and a page of the file that is missing is a PANIC.
find_page_start(f, offset) ==
    LET page == offset \div PAGE
        l    == PageLevel(page)
        g    == pg_alloc(f)
        t    == radix_insert(f.tree, Root(l), page, g, l + 1)
    IN  IF f.tree.panic # "NONE" \/ radix_get(f.tree, Root(l), page, l + 1) # Null THEN f
        ELSE IF offset < size
        THEN [f EXCEPT !.tree = Stop(@, "READ/WRITE_OUT_OF_BOUNDS_FILE_DESC_UNIMPLENTED")]
        ELSE IF t.panic # "NONE" THEN [f EXCEPT !.tree = t]
        ELSE [tree |-> t, pages |-> (page :> g) @@ f.pages, byte |-> [f.byte EXCEPT ![g] = Zeros]]

File == [tree |-> Tree, pages |-> pages, byte |-> byte]

Become(f) ==
    /\ node' = f.tree.node
    /\ used' = f.tree.used
    /\ panic' = f.tree.panic
    /\ pages' = f.pages
    /\ byte' = f.byte

Alive == panic = "NONE"

\* inode_file_debug_inject_data on a blank file: the pages go in by the deepest root,
\* and the last one gets the bytes that are over a multiple of the page size.  It is
\* called before the system starts.
inode_file_debug_inject_data(bytes, tag) ==
    LET cnt     == (bytes + PAGE - 1) \div PAGE
        left(i) == IF i # cnt - 1 THEN PAGE ELSE bytes % PAGE
        put(f, i) ==
            LET g == pg_alloc(f)
                t == radix_insert(f.tree, Root(MAX_DEPTH - 1), i, g, MAX_DEPTH)
            IN  IF t.panic # "NONE" THEN [f EXCEPT !.tree = t]
                ELSE [tree |-> t, pages |-> (i :> g) @@ f.pages,
                      byte |-> [f.byte EXCEPT ![g] = [b \in 0..PAGE-1 |-> IF b < left(i) THEN tag ELSE 0]]]
    IN  /\ Alive
        /\ pages = <<>> /\ size = 0
        /\ Become(FoldLeft(LAMBDA f, i : put(f, i - 1), File, Steps(cnt)))
        /\ size' = IF panic' = "NONE" THEN bytes ELSE size

-----------------------------------------------------------------------------
FileTypeOK ==
    /\ node \in [Nodes -> [Idx -> Nodes \cup Pages \cup {Null}]]
    /\ used \subseteq Nodes
    /\ DOMAIN pages \subseteq Nat
    /\ DOMAIN byte = Pages
    /\ size \in Nat
    /\ panic \in {"NONE", "READ/WRITE_OUT_OF_BOUNDS_FILE_DESC_UNIMPLENTED", "addr_KEY_LARGER_THEN_RADIX"}

\* All roots of an inode show the same file: a page put in by one root is found by
\* every root deep enough for its number, and no root shows a page the file does not have
\* (inode.c:38-46, file_descriptor.c:59-70).
RootsAgree ==
    \A l \in Levels : \A page \in 0..Size^(l + 1)-1 :
        radix_get(Tree, Root(l), page, l + 1) =
            IF page \in DOMAIN pages THEN pages[page] ELSE Null

\* mem_alloc's nodes are exactly the nodes of the tree, each with one parent: no insert,
\* by whatever root, drops a node that was there or makes a second one (radix.c:30-42).
NodesMatchAllocator ==
    /\ used = {Root(MAX_DEPTH - 1)} \cup Below(Tree, Root(MAX_DEPTH - 1), MAX_DEPTH)
    /\ \A n, m \in used, i, k \in Idx :
          (node[n][i] \in Nodes /\ node[n][i] = node[m][k]) => <<n, i>> = <<m, k>>

\* "allows injecting file data before system starts" (inode.h): loading a file that
\* the tree has room for does not stop the kernel.
InjectedFileIsLoaded == panic # "addr_KEY_LARGER_THEN_RADIX"

\* The same line: a file that was loaded and not written to has no byte left blank.
InjectedBytesAreThere(tag) ==
    \A o \in 0..size-1 : o \div PAGE \in DOMAIN pages /\ byte[pages[o \div PAGE]][o % PAGE] = tag
=============================================================================
