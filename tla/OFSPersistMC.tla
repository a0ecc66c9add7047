-------------------------- MODULE OFSPersistMC --------------------------
(* OFSPersist with files in the root and in one directory.                *)
EXTENDS OFSPersist

CONSTANTS a, b

MCName  == {a, b}
MCTrunc == [n \in MCName |-> n]

At(toks) == [dbl |-> FALSE, toks |-> toks]
MCPaths  == {At(<<a>>), At(<<b>>), At(<<a, b>>)}
MCSizes  == {5, 12}

OneWord == {<<77>>}
==========================================================================
