------------------------------ MODULE HashMap -------------------------------
(***************************************************************************)
(* The hash map of kernel/memory/hashmap.c with numbers as keys: a bucket  *)
(* is the head of a chain of leaves that come from mem_alloc, and a leaf   *)
(* that is freed keeps its contents until mem_alloc hands it out again.  A *)
(* map is a record of its buckets, of the memory of the leaves and of the  *)
(* leaves in use.                                                          *)
(***************************************************************************)
EXTENDS Integers, FiniteSets, FiniteSetsExt

CONSTANTS
    LEN,        \* buckets, 512 in the code
    Leaves      \* the 64-byte objects of mem_alloc

ASSUME HashMapAssumption ==
    /\ LEN \in Nat /\ 512 % LEN = 0
    /\ Leaves \subseteq Nat \ {0} /\ IsFiniteSet(Leaves)

NONE == 0       \* a null pointer, and what hashmap_get returns for a missing key
HANG == -1      \* hashmap_get goes round in a chain and does not return

Buckets == 0..LEN-1
EmptyMap == [start |-> [b \in Buckets |-> NONE],
             leaf  |-> [l \in Leaves |-> [next |-> NONE, key |-> NONE, data |-> NONE]],
             used  |-> {}]

\* Mutant of Bucket: the multiplier is even, so half of the buckets are never used.
BucketEven(key) == (key * 434) % LEN

\* builtin_num_hash, key * 0x100000001b3, modulo a length that divides 512.
Bucket(key) == (key * 435) % LEN

\* The leaf after k steps from the head of a chain.
Walk(h, b) ==
    LET at[k \in 0..Cardinality(Leaves)] ==
          IF k = 0 THEN h.start[b]
          ELSE LET l == at[k-1] IN IF l = NONE THEN NONE ELSE h.leaf[l].next
    IN  at

\* The leaf the loops of hashmap_get and hashmap_remove stop at.
Lookup(h, key) ==
    LET at   == Walk(h, Bucket(key))
        hits == {k \in DOMAIN at : at[k] # NONE /\ h.leaf[at[k]].key = key}
    IN  IF hits # {} THEN at[Min(hits)]
        ELSE IF \E k \in DOMAIN at : at[k] = NONE THEN NONE ELSE HANG

hashmap_get(h, key) ==
    LET l == Lookup(h, key) IN IF l \in {NONE, HANG} THEN l ELSE h.leaf[l].data

\* The lowest free leaf, as mem_alloc finds it.
NewLeaf(h) == Min(Leaves \ h.used)

\* Mutant of hashmap_insert: the leaf is not marked as used.
InsertUnmarked(h, key, data) ==
    LET l == NewLeaf(h)
    IN  [h EXCEPT !.start[Bucket(key)] = l,
                  !.leaf[l] = [next |-> h.start[Bucket(key)], key |-> key, data |-> data]]

hashmap_insert(h, key, data) ==
    LET l == NewLeaf(h)
    IN  [h EXCEPT !.start[Bucket(key)] = l,
                  !.leaf[l] = [next |-> h.start[Bucket(key)], key |-> key, data |-> data],
                  !.used = @ \cup {l}]

\* hashmap_remove where the key has a leaf: what it stores through
\* current_leaf_parent_ptr is the next_leaf of the leaf itself, its old value, so the
\* leaf is freed and stays in its chain.
hashmap_remove(h, key) == [h EXCEPT !.used = @ \ {Lookup(h, key)}]
=============================================================================
