------------------------------ MODULE ByteFile ------------------------------
(***************************************************************************)
(* What an open file does for the programs that use it: an array of bytes, *)
(* 0 where nothing was written, and a position for each descriptor.  A     *)
(* write puts its bytes at the position, changes no other byte, and moves  *)
(* the position past them; the size never shrinks and every written byte   *)
(* lies below it.  A read gives its reader the bytes at the position, up   *)
(* to the size.  A page that was never made below the size stops the       *)
(* kernel, with the bytes before that page written.  A file is loaded as   *)
(* far as its first page goes, and only if it does not fill that page.     *)
(***************************************************************************)
EXTENDS Integers, FiniteSetsExt

CONSTANTS
    Descs,          \* the open descriptors
    Positions,      \* what callers seek to
    Counts,         \* how many bytes callers read and write
    Sizes,          \* the sizes of files loaded before the start
    Tags,           \* what is written, 0 excluded
    Offsets,        \* the bytes of the largest file
    PAGE            \* bytes of a page

VARIABLES
    content,        \* the bytes of the file
    there,          \* the pages that were made
    size,
    pos,
    dest,           \* the bytes the last step gave to its reader
    halted

vars == <<content, there, size, pos, dest, halted>>

Init ==
    /\ content = [o \in Offsets |-> 0]
    /\ there = {}
    /\ size = 0
    /\ pos = [d \in Descs |-> 0]
    /\ dest = <<>>
    /\ halted = FALSE

PagesOf(from, to) == {o \div PAGE : o \in from..to-1}
Start(from, page) == Max({from, page * PAGE})

\* The pages an access to from..to-1 asks for and does not find.
Missing(from, to) == {page \in PagesOf(from, to) \ there : Start(from, page) < size}

\* The bytes from..to-1 are overwritten, and no others.
Overwritten(from, to, tag) ==
    /\ content' = [o \in Offsets |-> IF from <= o /\ o < to THEN tag ELSE content[o]]
    /\ there' = there \cup PagesOf(from, to)

Load(n, tag) ==
    /\ size = 0 /\ there = {}
    /\ there' = PagesOf(0, Min({n, PAGE}))
    /\ content' = [o \in Offsets |-> IF o < n /\ o < PAGE /\ n # PAGE THEN tag ELSE 0]
    /\ halted' = (n > PAGE)
    /\ size' = IF n > PAGE THEN size ELSE n
    /\ UNCHANGED <<pos, dest>>

Write(d, n, tag) ==
    /\ Missing(pos[d], pos[d] + n) = {}
    /\ Overwritten(pos[d], pos[d] + n, tag)
    /\ pos' = [pos EXCEPT ![d] = @ + n]
    /\ size' >= size /\ size' \in pos'[d]..Max({size, pos'[d] + n})
    /\ dest' = <<>>
    /\ UNCHANGED halted

WriteHalts(d, n, tag) ==
    LET missing == Missing(pos[d], pos[d] + n)
    IN  /\ missing # {}
        /\ Overwritten(pos[d], Start(pos[d], Min(missing)), tag)
        /\ dest' = <<>>
        /\ halted'
        /\ UNCHANGED <<size, pos>>

Readable(d, n) == IF pos[d] > size THEN 0 ELSE Min({n, size - pos[d]})

Read(d, n) ==
    /\ Missing(pos[d], pos[d] + Readable(d, n)) = {}
    /\ dest' = [i \in 1..Readable(d, n) |-> content[pos[d] + i - 1]]
    /\ pos' = [pos EXCEPT ![d] = @ + Readable(d, n)]
    /\ UNCHANGED <<content, there, size, halted>>

ReadHalts(d, n) ==
    /\ Missing(pos[d], pos[d] + Readable(d, n)) # {}
    /\ halted'
    /\ UNCHANGED <<content, there, size, pos>>

Seek(d, to) ==
    /\ pos' = [pos EXCEPT ![d] = to]
    /\ dest' = <<>>
    /\ UNCHANGED <<content, there, size, halted>>

Next ==
    /\ ~halted
    /\ \/ \E n \in Sizes, tag \in Tags : Load(n, tag)
       \/ \E d \in Descs, n \in Counts, tag \in Tags : Write(d, n, tag) \/ WriteHalts(d, n, tag)
       \/ \E d \in Descs, n \in Counts : Read(d, n) \/ ReadHalts(d, n)
       \/ \E d \in Descs, to \in Positions : Seek(d, to)

Spec == Init /\ [][Next]_vars
=============================================================================
