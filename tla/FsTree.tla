------------------------------- MODULE FsTree -------------------------------
(***************************************************************************)
(* What sqlfs.h promises of the namespace, without tables: a tree of files *)
(* and directories, each linked at one place of one directory, and the     *)
(* removed ones that wait to be purged. There are no link counts, no ".."  *)
(* rows and no row types here: a client can derive them from the tree.     *)
(***************************************************************************)
EXTENDS Integers, FiniteSets

CONSTANTS
    Names,          \* entry names
    Ino, Root       \* inode numbers, and that of the root directory

VARIABLES
    kind,   \* the existing inodes, with their type
    at,     \* the linked inodes other than the root: <<directory, name>>
    res     \* what the last call returned

vars == <<kind, at, res>>

NoIno == 0

Exists(i) == i \in DOMAIN kind
IsDir(i) == Exists(i) /\ kind[i] = "dir"
Linked(i) == i = Root \/ i \in DOMAIN at
Child(d, n) == {i \in DOMAIN at : at[i] = <<d, n>>}
Children(d) == {i \in DOMAIN at : at[i][1] = d}

Without(f, S) == [i \in DOMAIN f \ S |-> f[i]]
With(f, i, v) == [j \in DOMAIN f \cup {i} |-> IF j = i THEN v ELSE f[j]]

Init ==
    /\ kind = [i \in {Root} |-> "dir"]
    /\ at = [i \in {} |-> <<Root, "">>]
    /\ res = [err |-> "OK", ino |-> NoIno]

\* A call fails for one of the reasons in E, or for a database error. It
\* changes nothing.
FailsFor(E) ==
    /\ \E e \in E \cup {"EIO"} : \E i \in Ino \cup {NoIno} :
         /\ e # "EIO" => i = NoIno
         /\ res' = [err |-> e, ino |-> i]
    /\ UNCHANGED <<kind, at>>

Returns(i) == res' = [err |-> "OK", ino |-> i]

\* d cannot be used as a directory
DirReasons(d) ==
    {e \in {"ENOENT", "ENOTDIR"} :
        \/ e = "ENOENT" /\ ~Exists(d)
        \/ e = "ENOTDIR" /\ Exists(d) /\ kind[d] # "dir"}

NameReasons(n) == IF n \in Names THEN {} ELSE {"EINVAL"}

CreateReasons(d, n) ==
    DirReasons(d) \cup NameReasons(n)
        \cup (IF Child(d, n) # {} THEN {"EEXIST"} ELSE {})

\* A new file or directory with an unused inode number, in a linked directory.
Create(d, n, k) ==
    \/ FailsFor(CreateReasons(d, n))
    \/ /\ CreateReasons(d, n) = {}
       /\ Linked(d)
       /\ \E i \in Ino \ DOMAIN kind :
            /\ kind' = With(kind, i, k)
            /\ at' = With(at, i, <<d, n>>)
            /\ Returns(i)

\* Why the child i of d cannot be removed by rmdir (k = "dir") or unlink.
RemoveReasons(i, k) ==
    {e \in {"ENOTDIR", "EISDIR", "ENOTEMPTY"} :
        \/ e = "ENOTDIR" /\ k = "dir" /\ kind[i] # "dir"
        \/ e = "EISDIR" /\ k = "file" /\ kind[i] # "file"
        \/ e = "ENOTEMPTY" /\ k = "dir" /\ Children(i) # {}}

\* "", "." and ".." are never removed, nor is anything that is not there.
Remove(d, n, k) ==
    \/ Child(d, n) = {} /\ FailsFor({"ENOENT"})
    \/ n \notin Names
       /\ FailsFor({"EINVAL", "EBUSY", "ENOTEMPTY", "EISDIR", "ENOTDIR"})
    \/ \E i \in Child(d, n) :
        \/ FailsFor(RemoveReasons(i, k))
        \/ /\ RemoveReasons(i, k) = {}
           /\ at' = Without(at, {i})
           /\ Returns(i)
           /\ UNCHANGED kind

RenameReasons(d, n, e, m) ==
    DirReasons(d) \cup DirReasons(e) \cup NameReasons(n) \cup NameReasons(m)
        \cup (IF Child(d, n) = {} THEN {"ENOENT"} ELSE {})

\* i moves to <<e, m>>. What was there is removed, as unlink or rmdir would.
Rename(d, n, e, m) ==
    \/ FailsFor(RenameReasons(d, n, e, m))
    \/ /\ RenameReasons(d, n, e, m) = {}
       /\ UNCHANGED kind
       /\ \E i \in Child(d, n) :
            \/ /\ Child(e, m) \subseteq {i}
               /\ at' = [at EXCEPT ![i] = <<e, m>>]
               /\ Returns(NoIno)
            \/ \E j \in Child(e, m) \ {i} :
                 \/ FailsFor(RemoveReasons(j, kind[i]))
                 \/ /\ RemoveReasons(j, kind[i]) = {}
                    /\ at' = Without([at EXCEPT ![i] = <<e, m>>], {j})
                    /\ Returns(j)

\* Only what is not linked disappears.
Purge(I) ==
    /\ I \cap (DOMAIN at \cup {Root}) = {}
    /\ kind' = Without(kind, I)
    /\ Returns(NoIno)
    /\ UNCHANGED at

Next ==
    \/ \E d \in Ino, n \in Names \cup {"", ".", ".."}, k \in {"dir", "file"} :
         Create(d, n, k) \/ Remove(d, n, k)
    \/ \E d, e \in Ino, n, m \in Names \cup {""} : Rename(d, n, e, m)
    \/ \E I \in SUBSET Ino : Purge(I)
    \/ FailsFor({"ENOENT", "EISDIR"})   \* a call on an inode

Spec == Init /\ [][Next]_vars
=============================================================================
