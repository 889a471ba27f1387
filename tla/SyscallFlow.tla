---------------------------- MODULE SyscallFlow -----------------------------
(***************************************************************************)
(* The interruptible half of a trap as a flow graph: the points of         *)
(* syscall/file_system/handler.c (and of what it calls) between which the  *)
(* interrupt enable bit changes.  An edge is <<from, to, irq>>: "off" for  *)
(* irq_disable, "on" for irq_enable, "keep" where the code touches neither.*)
(* Which edge is taken depends on descriptors, paths and sizes, which are  *)
(* left open.                                                              *)
(***************************************************************************)
EXTENDS Naturals

\* Where handle_async_trap starts, by what trapped.
Syscalls == {"open", "read", "write", "seek", "idle_hang", "bad"}

\* syscall_fs_open, with kernel_read_user, file_open_path, fd_insert_local.
OpenFlow == {
    <<"open", "exit", "keep">>,             \* too many descriptors; address refused
    <<"open", "open_copy", "off">>,         \* kernel_read_user
    <<"open_copy", "open_path", "on">>,
    <<"open_path", "exit", "keep">>,        \* nothing was read
    <<"open_path", "open_lookup", "off">>,  \* file_open_path
    <<"open_lookup", "exit", "keep">>,      \* it returns NULL before irq_enable
    <<"open_lookup", "open_insert", "on">>,
    <<"open_insert", "open_grow", "off">>,  \* the descriptor page is full
    <<"open_grow", "open_insert", "on">>,
    <<"open_insert", "exit", "keep">> }

\* Mutant of ReadFlow: pg_free is called with interrupts enabled.
ReadFlowFreeEnabled == {
    <<"read", "exit", "keep">>,
    <<"read", "read_alloc", "off">>,
    <<"read_alloc", "read_next", "on">>,
    <<"read_next", "read_file", "off">>,
    <<"read_file", "read_out", "keep">>,
    <<"read_out", "read_free", "off">>,
    <<"read_out", "read_next", "keep">>,
    <<"read_out", "read_copy", "off">>,
    <<"read_copy", "read_next", "on">>,
    <<"read_next", "read_free", "keep">>,
    <<"read_free", "exit", "on">> }

\* syscall_fs_read, with file_descriptor_read and kernel_write_user.
ReadFlow == {
    <<"read", "exit", "keep">>,             \* no such descriptor
    <<"read", "read_alloc", "off">>,
    <<"read_alloc", "read_next", "on">>,
    <<"read_next", "read_file", "off">>,
    <<"read_file", "read_out", "keep">>,    \* it returns before irq_enable
    <<"read_out", "read_free", "off">>,     \* a short read ends the loop
    <<"read_out", "read_next", "keep">>,    \* kernel_write_user refuses the address
    <<"read_out", "read_copy", "off">>,
    <<"read_copy", "read_next", "on">>,
    <<"read_next", "read_free", "off">>,
    <<"read_free", "exit", "on">> }

\* syscall_fs_write, with kernel_read_user and file_descriptor_write.
WriteFlow == {
    <<"write", "exit", "keep">>,            \* no such descriptor
    <<"write", "write_alloc", "off">>,
    <<"write_alloc", "write_next", "on">>,
    <<"write_next", "write_copy", "off">>,
    <<"write_next", "write_file", "off">>,  \* last part refused: zero bytes written
    <<"write_next", "write_free", "off">>,
    <<"write_copy", "write_in", "on">>,
    <<"write_in", "write_file", "off">>,
    <<"write_in", "write_free", "off">>,    \* the copy failed
    <<"write_file", "write_next", "keep">>, \* it returns before irq_enable
    <<"write_free", "exit", "on">> }

\* syscall_fs_seek.
SeekFlow == { <<"seek", "exit", "keep">> }

Flow == OpenFlow \union ReadFlow \union WriteFlow \union SeekFlow

\* Edges that leave a loop: over the pages of a buffer, over descriptor pages.
LoopExits == { <<"open_insert", "exit", "keep">>,
               <<"read_next", "read_free", "off">>,
               <<"write_next", "write_free", "off">> }

\* arch_copy_user runs: reading_userspace is TRUE.
CopyPoints == {"open_copy", "read_copy", "write_copy"}

\* The pager, the allocator, the dentries or an inode are being changed.
SharedPoints == {"open_lookup", "open_grow", "read_alloc", "read_file", "read_free",
                 "write_alloc", "write_file", "write_free"}

Points == Syscalls \union {"page_fault", "nested_fault", "exit"}
            \union {e[1] : e \in Flow} \union {e[2] : e \in Flow}
=============================================================================
