---------------------------- MODULE OFSBytes ----------------------------
(* What clients are promised of the bytes of files: each file is one      *)
(* sequence of bytes of its own, of which the first size ones are shown.  *)
(* No blocks, no bitmap.  OFSFileData shows that core/ofs_core.cpp        *)
(* implements it.                                                         *)
EXTENDS Naturals, Sequences

CONSTANTS
    File,
    Request,  \* the byte sequences clients send
    Size      \* the sizes and positions they ask for

VARIABLES
    files,   \* the files there are
    shown,   \* what a read of a file returns
    kept     \* the bytes the file has, the shown ones first

Init == /\ files = {}
        /\ shown = [f \in File |-> <<>>]
        /\ kept = [f \in File |-> <<>>]

\* Only f changes.
Only(f) == \A g \in File \ {f} : shown'[g] = shown[g] /\ kept'[g] = kept[g]

\* new has the bytes of old, and zeros where old ends.
Extends(old, new) ==
    \A k \in DOMAIN new : new[k] = IF k \in DOMAIN old THEN old[k] ELSE 0

Shows(f, n) == n <= Len(kept'[f]) /\ shown'[f] = SubSeq(kept'[f], 1, n)

Create(f, data) == /\ f \notin files /\ files' = files \cup {f}
                   /\ Extends(data, kept'[f]) /\ Shows(f, Len(data))
                   /\ Only(f)

Delete(f) == /\ f \in files /\ files' = files \ {f}
             /\ shown'[f] = <<>> /\ kept'[f] = <<>>
             /\ Only(f)

\* A prefix of the data replaces bytes of the file, one of them at least.
Edit(f, data, index) ==
    /\ f \in files /\ UNCHANGED files
    /\ index <= Len(shown[f])
    /\ \E n \in 0 .. Len(data) :
         /\ data # <<>> => n > 0
         /\ kept'[f] = [k \in DOMAIN kept[f] |->
                          IF k \in index + 1 .. index + n THEN data[k - index] ELSE kept[f][k]]
    /\ Shows(f, Len(shown[f]))
    /\ Only(f)

\* What was cut off may be shown again; what was never the file's may not.
Resize(f, n) == /\ f \in files /\ UNCHANGED files
                /\ Extends(kept[f], kept'[f]) /\ Shows(f, n)
                /\ Only(f)

Next == \E f \in File :
          \/ \E data \in Request : Create(f, data)
          \/ Delete(f)
          \/ \E data \in Request, index \in Size : Edit(f, data, index)
          \/ \E n \in Size : Resize(f, n)

Spec == Init /\ [][Next]_<<files, shown, kept>>
==========================================================================
