----------------------------- MODULE Descriptors ----------------------------
(***************************************************************************)
(* The file system calls of kernel/syscall/file_system/handler.c: the      *)
(* table of descriptors of every process, open, read, write and seek, with *)
(* a step for every stretch that runs with interrupts off and for every    *)
(* copy, so that the calls of several processes interleave.  A read or a   *)
(* write of the file comes back with interrupts off, but a fault of the    *)
(* copy that follows turns them on, so other processes run between chunks  *)
(* too.  Copies may fail.  The file is the one init_dentry makes; of its   *)
(* data there are the size, the pages that exist and the position of every *)
(* descriptor (FileBytes has the bytes).                                   *)
(***************************************************************************)
EXTENDS Integers, FiniteSets, FiniteSetsExt, Dentry

CONSTANTS
    Procs,
    MAX_OPEN,       \* MAX_OPEN_FILE_DESCRIPTORS, 1024 in the code
    page_cnt,       \* descriptors of a table page, 511 in the code
    PAGE,           \* bytes of a page, 4096 in the code
    Loaded,         \* bytes of the file at the start, in its first page
    Sizes,          \* what callers read and write
    Positions,      \* what callers seek to
    OpenBound,      \* bound: descriptors that are opened
    OffsetBound     \* bound: the end of the file that callers write to

ASSUME DescriptorsAssumption ==
    /\ {MAX_OPEN, page_cnt, PAGE, Loaded, OpenBound, OffsetBound} \subseteq Nat
    /\ page_cnt > 0 /\ PAGE > 0 /\ Loaded <= PAGE
    /\ Sizes \cup Positions \subseteq Nat

VARIABLES
    table,      \* table[p]: the pages of file_desc_pg, 0 for an empty entry
    cnt,        \* file_desc_cnt
    call,       \* call[p]: the call p is in, its locals, and the bytes given to the user
    pos,        \* seek_pos of the descriptors, first opened first
    size,       \* file_data.size
    filled,     \* the pages of the file
    link_refs,  \* of the inode: its dentry and its open descriptors
    taken,      \* pages that pg_alloc has handed out and not got back
    panic

vars == <<table, cnt, call, pos, size, filled, link_refs, taken, panic>>

Blank == [i \in 1..page_cnt |-> 0]
UNSENT == -2    \* the return register of the user stays what it was
InUser == [at |-> "user", fd |-> 0, path |-> <<>>, chunks |-> 0, left |-> 0, done |-> 0,
           start |-> 0, copied |-> 0, response |-> UNSENT]

\* interruptable_trap_syscall asks for no response, so what a call leaves in
\* trap->return_reg goes away with its trap_data.
send_response == FALSE
Returns(p, return_reg) ==
    call' = [call EXCEPT ![p] = [InUser EXCEPT
               !.response = IF send_response THEN return_reg ELSE UNSENT]]

Init ==
    /\ table = [p \in Procs |-> <<Blank>>]
    /\ cnt = [p \in Procs |-> 0]
    /\ call = [p \in Procs |-> InUser]
    /\ pos = <<>>
    /\ size = Loaded
    /\ filled = {0}
    /\ link_refs = 1
    /\ taken = Cardinality(Procs) + 1
    /\ panic = "NONE"

Calls(p) == panic = "NONE" /\ call[p].at = "user"
In(p, at) == panic = "NONE" /\ call[p].at = at
Enter(p, c) == call' = [call EXCEPT ![p] = c]

-----------------------------------------------------------------------------
(* The table of descriptors, and open *)

\* The first empty entry, as <<page, entry>>, on a table that has one.
FirstEmpty(t) ==
    LET n == Min({n \in DOMAIN t : \E i \in 1..page_cnt : t[n][i] = 0})
    IN  <<n, Min({i \in 1..page_cnt : t[n][i] = 0})>>

IsFull(t) == \A n \in DOMAIN t : \A i \in 1..page_cnt : t[n][i] # 0
LocalId(t) == LET at == FirstEmpty(t) IN (at[1] - 1) * page_cnt + at[2] - 1

WILD == -1      \* what lies behind a page of the table
\* fd_get_local reads the entry after the one fd_insert_local wrote.
fd_get_local(t, local_id) ==
    LET n == (local_id \div page_cnt) + 1
        i == (local_id % page_cnt) + 2
    IN  IF n \notin DOMAIN t THEN {0} ELSE IF i <= page_cnt THEN {t[n][i]} ELSE {0, WILD}

LocalIds == 0..MAX_OPEN

\* Mutant of MayOpen: one more than the limit.
MayOpenOneMore(p) == cnt[p] <= MAX_OPEN

MayOpen(p) == cnt[p] < MAX_OPEN

syscall_fs_open(p) ==
    /\ Calls(p)
    /\ Len(pos) + Cardinality({q \in Procs : call[q].at \in {"open", "open_path"}}) < OpenBound
    /\ IF MayOpen(p) THEN Enter(p, [InUser EXCEPT !.at = "open"]) ELSE Returns(p, -1)
    /\ UNCHANGED <<table, cnt, pos, size, filled, link_refs, taken, panic>>

\* kernel_read_user copied the path, or as much of it as could be read.
CopyPath(p, buffer) ==
    /\ In(p, "open")
    /\ IF buffer = <<>> THEN Returns(p, -1)
       ELSE Enter(p, [call[p] EXCEPT !.at = "open_path", !.path = buffer])
    /\ UNCHANGED <<table, cnt, pos, size, filled, link_refs, taken, panic>>

\* A descriptor for the file, which is in no table yet.
file_open_path(p) ==
    /\ In(p, "open_path")
    /\ IF dentry_get_path(ROOT, call[p].path) = FILE
         THEN /\ pos' = Append(pos, 0)
              /\ link_refs' = link_refs + 1
              /\ Enter(p, [InUser EXCEPT !.at = "open_insert", !.fd = Len(pos')])
         ELSE Returns(p, -1) /\ UNCHANGED <<pos, link_refs>>
    /\ UNCHANGED <<table, cnt, size, filled, taken, panic>>

\* fd_insert_local makes a page when all are full, and then takes the first empty entry.
GrowTable(p) ==
    /\ In(p, "open_insert") /\ IsFull(table[p])
    /\ table' = [table EXCEPT ![p] = Append(@, Blank)]
    /\ taken' = taken + 1
    /\ UNCHANGED <<cnt, call, pos, size, filled, link_refs, panic>>

fd_insert_local(p) ==
    LET at == FirstEmpty(table[p])
    IN  /\ In(p, "open_insert") /\ ~IsFull(table[p])
        /\ table' = [table EXCEPT ![p][at[1]][at[2]] = call[p].fd]
        /\ cnt' = [cnt EXCEPT ![p] = @ + 1]
        /\ Returns(p, LocalId(table[p]))
        /\ UNCHANGED <<pos, size, filled, link_refs, taken, panic>>

-----------------------------------------------------------------------------
\* Entering a call with a descriptor: no descriptor, a wild one, or the buffer is made.
WithDescriptor(p, local_id, at, n) ==
    /\ Calls(p)
    /\ \E fd \in fd_get_local(table[p], local_id) :
         CASE fd = 0    -> Returns(p, -1) /\ UNCHANGED <<taken, panic>>
           [] fd = WILD -> panic' = "WILD_POINTER" /\ UNCHANGED <<call, taken>>
           [] OTHER     -> /\ Enter(p, [InUser EXCEPT !.at = at, !.fd = fd,
                                          !.chunks = n \div PAGE, !.left = n % PAGE,
                                          !.start = pos[fd]])
                           /\ taken' = taken + 1
                           /\ UNCHANGED panic
    /\ UNCHANGED <<table, cnt, pos, size, filled, link_refs>>

syscall_fs_read(p, local_id, n) == WithDescriptor(p, local_id, "read", n)
syscall_fs_write(p, local_id, n) ==
    /\ \A fd \in fd_get_local(table[p], local_id) \cap DOMAIN pos : pos[fd] + n <= OffsetBound
    /\ WithDescriptor(p, local_id, "write_copy", n)

\* fd->seek_pos = seek_pos; return_reg stays as it was.
syscall_fs_seek(p, local_id, to) ==
    /\ Calls(p)
    /\ \E fd \in fd_get_local(table[p], local_id) :
         CASE fd = 0    -> Returns(p, -1) /\ UNCHANGED <<pos, panic>>
           [] fd = WILD -> panic' = "WILD_POINTER" /\ UNCHANGED <<call, pos>>
           [] OTHER     -> pos' = [pos EXCEPT ![fd] = to] /\ Returns(p, UNSENT) /\ UNCHANGED panic
    /\ UNCHANGED <<table, cnt, size, filled, link_refs, taken>>

\* What the next file operation of a call asks for.
Chunk(c) == IF c.chunks > 0 THEN PAGE ELSE c.left

\* Mutant of After: the rest is taken for a page.
AfterPage(c) == [c EXCEPT !.chunks = @ - 1]

\* What is left to do after it.
After(c) == IF c.chunks > 0 THEN [c EXCEPT !.chunks = @ - 1] ELSE [c EXCEPT !.left = 0]

\* Mutant of Ended: the loop goes on.
EndedNot(c) == c

\* The loop is left, with nothing for the rest.
Ended(c) == [c EXCEPT !.chunks = 0, !.left = 0]

More(c) == c.chunks > 0 \/ c.left > 0

PagesOf(from, n) == {o \div PAGE : o \in from..from+n-1}
Available(at, n) == IF at > size THEN 0 ELSE IF n < size - at THEN n ELSE size - at

\* Mutant of CountRead: a chunk the file did not fill is not counted.
CountReadFull(c, n) == IF n < Chunk(c) THEN c ELSE [c EXCEPT !.done = @ + n]

CountRead(c, n) == [c EXCEPT !.done = @ + n]

\* file_descriptor_read into the buffer, and the copy to the user, whose result is not
\* looked at.  A full chunk that comes back short ends the call and is not copied.
ReadChunk(p) ==
    LET c     == call[p]
        n     == Available(pos[c.fd], Chunk(c))
        short == c.chunks > 0 /\ n < PAGE
    IN  /\ In(p, "read") /\ More(c)
        /\ IF PagesOf(pos[c.fd], n) \subseteq filled
             THEN /\ pos' = [pos EXCEPT ![c.fd] = @ + n]
                  /\ Enter(p, IF short THEN Ended(CountRead(c, n))
                              ELSE [After(CountRead(c, n)) EXCEPT !.copied = @ + n])
                  /\ UNCHANGED panic
             ELSE /\ panic' = "READ/WRITE_OUT_OF_BOUNDS_FILE_DESC_UNIMPLENTED"
                  /\ UNCHANGED <<pos, call>>
        /\ UNCHANGED <<table, cnt, size, filled, link_refs, taken>>

\* kernel_read_user into the buffer.  Where it fails for a whole page the call ends;
\* where it fails for the rest, nothing is left to write and the file is still asked to
\* write it.
WriteCopy(p) ==
    LET c == call[p]
    IN  /\ In(p, "write_copy") /\ More(c)
        /\ \E ok \in BOOLEAN :
             Enter(p, IF ok THEN [c EXCEPT !.at = "write"]
                      ELSE IF c.chunks > 0 THEN Ended(c)
                      ELSE [c EXCEPT !.at = "write", !.left = 0])
        /\ UNCHANGED <<table, cnt, pos, size, filled, link_refs, taken, panic>>

\* The pages file_descriptor_write finds missing below the size.
Missing(from, n) ==
    {g \in PagesOf(from, n) \ filled : Max({from, g * PAGE}) < size}

WriteChunk(p) ==
    LET c == call[p]
        n == Chunk(c)
        from == pos[c.fd]
    IN  /\ In(p, "write")
        /\ IF Missing(from, n) = {}
             THEN /\ pos' = [pos EXCEPT ![c.fd] = from + n]
                  /\ filled' = filled \cup PagesOf(from, n)
                  /\ taken' = taken + Cardinality(PagesOf(from, n) \ filled)
                  /\ size' = Max({size, from + n + n})
                  /\ Enter(p, [After(c) EXCEPT !.at = "write_copy", !.done = @ + n])
                  /\ UNCHANGED panic
             ELSE /\ panic' = "READ/WRITE_OUT_OF_BOUNDS_FILE_DESC_UNIMPLENTED"
                  /\ UNCHANGED <<pos, filled, taken, size, call>>
        /\ UNCHANGED <<table, cnt, link_refs>>

\* Mutant of Finish: a call that did nothing keeps its buffer.
FinishKeepsBuffer(p) ==
    /\ panic = "NONE" /\ call[p].at \in {"read", "write_copy"} /\ ~More(call[p])
    /\ taken' = IF call[p].done = 0 THEN taken ELSE taken - 1
    /\ Returns(p, call[p].done)
    /\ UNCHANGED <<table, cnt, pos, size, filled, link_refs, panic>>

\* The end of a read or a write: the buffer goes back.
Finish(p) ==
    /\ panic = "NONE" /\ call[p].at \in {"read", "write_copy"} /\ ~More(call[p])
    /\ taken' = taken - 1
    /\ Returns(p, call[p].done)
    /\ UNCHANGED <<table, cnt, pos, size, filled, link_refs, panic>>

freeze_system == panic # "NONE" /\ UNCHANGED vars

KernelStep(p) ==
    \/ \E buffer \in Buffers : CopyPath(p, buffer)
    \/ file_open_path(p)
    \/ GrowTable(p)
    \/ fd_insert_local(p)
    \/ ReadChunk(p)
    \/ WriteCopy(p)
    \/ WriteChunk(p)
    \/ Finish(p)

Next ==
    \/ \E p \in Procs :
        \/ syscall_fs_open(p)
        \/ \E id \in LocalIds :
            \/ \E n \in Sizes : syscall_fs_read(p, id, n) \/ syscall_fs_write(p, id, n)
            \/ \E to \in Positions : syscall_fs_seek(p, id, to)
        \/ KernelStep(p)
    \/ freeze_system

\* A process inside a call gets the hart again and again (Kernel, EveryProcessRuns).
Spec == Init /\ [][Next]_vars /\ \A p \in Procs : WF_vars(KernelStep(p))
-----------------------------------------------------------------------------
(* Properties *)

\* Tables, positions and calls stay in range; the kernel stops only for a page that
\* is missing below the size, or for a descriptor read from behind the table.
TypeOK ==
    /\ \A p \in Procs : \A n \in DOMAIN table[p] : table[p][n] \in [1..page_cnt -> 0..Len(pos)]
    /\ call \in [Procs -> [at : {"user", "open", "open_path", "open_insert", "read", "write_copy", "write"},
                          fd : 0..Len(pos), path : Buffers \cup {<<>>}, chunks : Nat,
                          left : 0..PAGE-1, done : Nat, start : Nat, copied : Nat,
                          response : Nat \cup {-1, UNSENT}]]
    /\ size \in 0..OffsetBound + PAGE
    /\ panic \in {"NONE", "WILD_POINTER", "READ/WRITE_OUT_OF_BOUNDS_FILE_DESC_UNIMPLENTED"}

\* What a read or a write has counted is what the position of its descriptor has moved,
\* whatever chunks came back short, copies failed and other processes did to the file
\* between two chunks.  While a read has more to do all it counted went to the copy, and
\* at its end less than a page of it did not (handler.c:126-150, 171-204).
Moving == {p \in Procs : call[p].at \in {"read", "write_copy", "write"}}
CountsWhatMoved ==
    panic = "NONE" => \A p \in Moving :
        LET c == call[p]
        IN  /\ c.done = pos[c.fd] - c.start
            /\ c.at = "read" => IF More(c) THEN c.copied = c.done ELSE c.done - c.copied \in 0..PAGE-1

\* Every descriptor that was opened is in one entry of one table, or still on its way
\* there, and holds one count of the inode; file_desc_cnt counts the entries of a table,
\* and stays within its limit as the table grows by pages (handler.c:29-48, 75-104).
Entries(p) == {<<n, i>> \in (DOMAIN table[p]) \X (1..page_cnt) : table[p][n][i] # 0}
Inserting == {p \in Procs : call[p].at = "open_insert"}
DescriptorsOwnedOnce ==
    /\ \A fd \in DOMAIN pos :
         Cardinality({<<p, e>> \in UNION {{p} \X Entries(p) : p \in Procs} : table[p][e[1]][e[2]] = fd})
           + Cardinality({p \in Inserting : call[p].fd = fd}) = 1
    /\ link_refs = 1 + Len(pos)
    /\ \A p \in Procs : cnt[p] = Cardinality(Entries(p)) /\ cnt[p] <= MAX_OPEN

\* Nothing leaks: the pages taken from the pager are the tables, the pages of the file
\* and one buffer for every read and write that is under way, also when calls end early
\* (handler.c:122-124, 146-148, 167-169, 200-202).
PagesAccountedFor ==
    panic = "NONE" =>
        taken = Cardinality(filled) + Cardinality(Moving)
                  + MapThenSumSet(LAMBDA p : Len(table[p]), Procs)

\* Every call comes back, or the kernel stops.
CallsReturn == \A p \in Procs : call[p].at # "user" ~> (call[p].at = "user" \/ panic # "NONE")

-----------------------------------------------------------------------------
(* What the documentation says, and the code does not do *)

\* "open path and get file descriptor", "uses open file descriptor to read data"
\* (docs/Syscall.md): the id that open returned leads to its descriptor.
OpenedIdWorks ==
    \A p \in Procs : \A e \in Entries(p) :
        fd_get_local(table[p], (e[1] - 1) * page_cnt + e[2] - 1) = {table[p][e[1]][e[2]]}

\* "uses open file descriptor to read data" (docs/Syscall.md): the bytes a read counts
\* were given to the copy to the user.
ReadDelivers ==
    \A p \in Procs : call[p].at = "read" /\ ~More(call[p]) => call[p].copied = call[p].done

\* "open path and get file descriptor" (docs/Syscall.md): a call that ends gives its
\* result to the user.
ResultsReachUser ==
    [][\A p \in Procs : call[p].at # "user" /\ call'[p].at = "user" => call'[p].response # UNSENT]_vars
=============================================================================
