---------------------------- MODULE OFSTree ----------------------------
(* What clients of the file system are promised: a tree of named files   *)
(* and directories, addressed by the path from the root.  No slots, no    *)
(* blocks, no bitmap, no index.  OFSCoreTree shows that core/ofs_core.cpp  *)
(* implements it for clients that stay inside the limits of the code.     *)
EXTENDS Naturals, Sequences

CONSTANTS Name, Size

VARIABLE tree   \* from token sequences to nodes; <<>> is the root

Node   == [dir : BOOLEAN, size : Nat]
Folder == [dir |-> TRUE, size |-> 0]
File(size) == [dir |-> FALSE, size |-> size]

Parent(p)   == SubSeq(p, 1, Len(p) - 1)
Children(p) == {q \in DOMAIN tree : q # <<>> /\ Parent(q) = p}
\* A place where a new node may appear: unused, below a directory.
Vacant(p)   == /\ p # <<>> /\ p \notin DOMAIN tree
               /\ Parent(p) \in DOMAIN tree /\ tree[Parent(p)].dir

Without(p)   == [q \in DOMAIN tree \ {p} |-> tree[q]]
With(p, n)   == [q \in DOMAIN tree \cup {p} |-> IF q = p THEN n ELSE tree[q]]

Init == tree = [p \in {<<>>} |-> Folder]

MakeFile(p, size) == Vacant(p) /\ tree' = With(p, File(size))
MakeFolder(p)     == Vacant(p) /\ tree' = With(p, Folder)

\* A file, or a directory with nothing in it; never the root.
Remove(p) == /\ p \in DOMAIN tree /\ p # <<>> /\ Children(p) = {}
             /\ tree' = Without(p)

Resize(p, size) == /\ p \in DOMAIN tree /\ ~tree[p].dir
                   /\ tree' = [tree EXCEPT ![p].size = size]

\* A file gets another place in the tree and keeps all else.
Move(p, q) == /\ p \in DOMAIN tree /\ ~tree[p].dir /\ Vacant(q)
              /\ tree' = [t \in (DOMAIN tree \ {p}) \cup {q} |->
                            IF t = q THEN tree[p] ELSE tree[t]]

\* The places a step may add: one below an existing node.
Places == {Append(p, n) : p \in DOMAIN tree, n \in Name}

Next == \/ \E p \in Places, size \in Size : MakeFile(p, size)
        \/ \E p \in Places : MakeFolder(p)
        \/ \E p \in DOMAIN tree : Remove(p)
        \/ \E p \in DOMAIN tree, size \in Size : Resize(p, size)
        \/ \E p \in DOMAIN tree, q \in Places : Move(p, q)

Spec == Init /\ [][Next]_tree
==========================================================================
