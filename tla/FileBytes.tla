----------------------------- MODULE FileBytes ------------------------------
(***************************************************************************)
(* Open files: kernel/file_system/file_descriptor.c on the pages of        *)
(* FilePages, byte by byte.  Several descriptors of one inode, each with   *)
(* its own position, read, write and seek.  An operation runs with the     *)
(* interrupts off, so it is one step.                                      *)
(***************************************************************************)
EXTENDS FilePages

CONSTANTS
    Descs,          \* the open descriptors of the inode
    Positions,      \* what callers seek to
    Counts,         \* how many bytes callers read and write
    InjectSizes,    \* the sizes of the files loaded before the start
    WriteBound      \* bound: number of writes

VARIABLES
    seek_pos,       \* seek_pos[d]
    dest,           \* the bytes the last step copied to its reader
    writes          \* number of writes so far; write k writes bytes k

vars == <<node, used, pages, byte, size, panic, seek_pos, dest, writes>>

Offsets == 0..PAGE * (Max(PageNums) + 1) - 1     \* bound: the bytes of the largest file
Injected == WriteBound + 1

Init ==
    /\ FileInit
    /\ seek_pos = [d \in Descs |-> 0]
    /\ dest = <<>>
    /\ writes = 0

Load(bytes) ==
    /\ writes = 0 /\ seek_pos = [d \in Descs |-> 0]
    /\ inode_file_debug_inject_data(bytes, Injected)
    /\ UNCHANGED <<seek_pos, dest, writes>>

\* The parts of n bytes at offset that lie in one page each, as <<offset, bytes>>.
Chunks(offset, n) ==
    LET first == offset \div PAGE
        last  == (offset + n - 1) \div PAGE
        from(p) == IF p = first THEN offset ELSE p * PAGE
        upto(p) == IF p = last THEN offset + n ELSE (p + 1) * PAGE
    IN  IF n = 0 THEN <<>>
        ELSE [i \in 1..last-first+1 |-> <<from(first + i - 1), upto(first + i - 1) - from(first + i - 1)>>]

\* A mutant: the bytes of every page go to its start.
PutBytesAtStart(f, offset, n, tag) ==
    LET g == radix_get(f.tree, Root(MAX_DEPTH - 1), offset \div PAGE, MAX_DEPTH)
    IN  IF f.tree.panic # "NONE" THEN f
        ELSE [f EXCEPT !.byte[g] = [b \in 0..PAGE-1 |-> IF b < n THEN tag ELSE @[b]]]

\* The inner loop of file_descriptor_write, on a page that find_page_start found.
PutBytes(f, offset, n, tag) ==
    LET l == PageLevel(offset \div PAGE)
        g == radix_get(f.tree, Root(l), offset \div PAGE, l + 1)
        at == offset % PAGE
    IN  IF f.tree.panic # "NONE" THEN f
        ELSE [f EXCEPT !.byte[g] = [b \in 0..PAGE-1 |-> IF at <= b /\ b < at + n THEN tag ELSE @[b]]]

\* MAX(size, bytes written + new position): seek_pos is past the bytes by then, so the
\* size may exceed the end of the bytes.
SizeAfter(n, end) == IF size > n + end THEN size ELSE n + end

file_descriptor_write(d, n) ==
    LET offset == seek_pos[d]
        f == FoldLeft(LAMBDA a, c : PutBytes(find_page_start(a, c[1]), c[1], c[2], writes + 1),
                      File, Chunks(offset, n))
    IN  /\ Alive
        /\ writes < WriteBound
        /\ offset + n <= Max(Offsets) + 1
        /\ Become(f)
        /\ writes' = writes + 1
        /\ seek_pos' = IF panic' = "NONE" THEN [seek_pos EXCEPT ![d] = offset + n] ELSE seek_pos
        /\ size' = IF panic' = "NONE" THEN SizeAfter(n, offset + n) ELSE size
        /\ dest' = <<>>

\* What is read: up to the size, and nothing from a position past it.
ReadSize(offset, n) ==
    IF offset > size THEN 0 ELSE IF n < size - offset THEN n ELSE size - offset

\* The inner loop of file_descriptor_read, on a page that find_page_start found.
GetBytes(f, offset, n) ==
    LET l == PageLevel(offset \div PAGE)
        g == radix_get(f.tree, Root(l), offset \div PAGE, l + 1)
    IN  IF f.tree.panic # "NONE" THEN <<>>
        ELSE [i \in 1..n |-> f.byte[g][(offset % PAGE) + i - 1]]

file_descriptor_read(d, n) ==
    LET offset == seek_pos[d]
        read_size == ReadSize(offset, n)
        copy(a, c) == LET f == find_page_start(a.file, c[1])
                      IN  [file |-> f, dest |-> a.dest \o GetBytes(f, c[1], c[2])]
        read == FoldLeft(copy, [file |-> File, dest |-> <<>>], Chunks(offset, read_size))
    IN  /\ Alive
        /\ Become(read.file)
        /\ dest' = read.dest
        /\ seek_pos' = IF panic' = "NONE" THEN [seek_pos EXCEPT ![d] = offset + read_size] ELSE seek_pos
        /\ UNCHANGED <<size, writes>>

file_descriptor_seek(d, pos) ==
    /\ Alive
    /\ seek_pos' = [seek_pos EXCEPT ![d] = pos]
    /\ dest' = <<>>
    /\ UNCHANGED <<node, used, pages, byte, size, panic, writes>>

freeze_system == ~Alive /\ UNCHANGED vars

Next ==
    \/ \E bytes \in InjectSizes : Load(bytes)
    \/ \E d \in Descs :
        \/ \E n \in Counts : file_descriptor_write(d, n) \/ file_descriptor_read(d, n)
        \/ \E pos \in Positions : file_descriptor_seek(d, pos)
    \/ freeze_system

Spec == Init /\ [][Next]_vars

-----------------------------------------------------------------------------
\* The pages, positions and sizes stay in range, and the panics are the one of a page that
\* find_page_start does not find below the size and that of the second page of a load.
TypeOK ==
    /\ FileTypeOK
    /\ seek_pos \in [Descs -> Nat]
    /\ \A i \in DOMAIN dest : dest[i] \in 0..Injected
    /\ writes \in 0..WriteBound

\* The byte of the file at an offset; RootsAgree says that the roots find that page.
Content(o) ==
    LET page == o \div PAGE IN IF page \in DOMAIN pages THEN byte[pages[page]][o % PAGE] ELSE 0

\* file_descriptor_read, _write and _seek and the trees under them implement the file
\* ByteFile describes: whatever descriptors write, in whatever order and across pages,
\* a reader is given for each offset what was written there last and nothing else;
\* positions move by what was read and written, every written byte lies below the size,
\* the size runs ahead of them by no more than a write, and the kernel stops only at a
\* page that was never made, with the bytes before it written (file_descriptor.c:81-173).
Bytes == INSTANCE ByteFile WITH
    Sizes <- InjectSizes,
    Tags <- 1..Injected,
    pos <- seek_pos,
    content <- [o \in Offsets |-> Content(o)],
    there <- DOMAIN pages,
    halted <- panic # "NONE"
ImplementsByteFile == Bytes!Spec

\* "allows injecting file data before system starts" (inode.h): the bytes are in the file.
LoadedBytesAreThere == writes = 0 => InjectedBytesAreThere(Injected)
=============================================================================
