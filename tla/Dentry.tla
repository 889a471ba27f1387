------------------------------- MODULE Dentry -------------------------------
(***************************************************************************)
(* Path lookup of kernel/file_system/dentry.c in the tree init_dentry      *)
(* makes: the root folder and one file in it.  The buffer that             *)
(* syscall_fs_open copies from the user is a sequence of strings, each     *)
(* ended by a null byte, up to the first empty one: dentry_get_path steps  *)
(* over the null byte of a name and goes on with what follows it.          *)
(***************************************************************************)
EXTENDS Sequences, SequencesExt

CONSTANT Names      \* the strings of a buffer; "nested/name" stands for those with a slash

ROOT == "root"
FILE == "file"
NO_DENTRY == "null"

\* get_child: the parent of a dentry is never set, the name that is compared is the
\* whole rest of the path, and list_iter_next shows the first child only, which is
\* the one there is.
get_child(item, name) ==
    IF item = NO_DENTRY THEN NO_DENTRY
    ELSE IF name = "." THEN item
    ELSE IF name = "example.txt" /\ item = ROOT THEN FILE ELSE NO_DENTRY

dentry_get_path(cwd, buffer) == FoldLeft(get_child, cwd, buffer)

Buffers == UNION {[1..n -> Names] : n \in 0..2}     \* bound: strings of a buffer
=============================================================================
