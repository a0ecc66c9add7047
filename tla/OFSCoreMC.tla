--------------------------- MODULE OFSCoreMC ---------------------------
(* OFSCore on small instances, with clients that send any path: spelled   *)
(* with an extra slash, below a file, with a name set_name cuts to a.     *)
EXTENDS OFSCore

CONSTANTS a, b, long

MCName  == {a, b, long}
MCTrunc == [n \in MCName |-> IF n = long THEN a ELSE n]

At(toks) == [dbl |-> FALSE, toks |-> toks]
FewPaths  == {At(<<a>>), At(<<b>>), [dbl |-> TRUE, toks |-> <<b>>], At(<<a, b>>)}
ManyPaths == FewPaths \cup {RootPath, At(<<a, long>>)}

TwoSizes   == {0, 5}
ThreeSizes == {0, 3, 7}

OneWord == {<<77>>}
==========================================================================
