------------------------- MODULE OFSCoreTreeMC -------------------------
(* OFSCoreTree and OFSQueries with directories on two levels.            *)
EXTENDS OFSQueries

CONSTANTS a, b

MCName  == {a, b}
MCTrunc == [n \in MCName |-> n]

At(toks) == [dbl |-> FALSE, toks |-> toks]
MCPaths  == {At(<<a>>), At(<<b>>), At(<<a, a>>), At(<<a, b>>)}
MCSizes  == {5, 12}

OneWord == {<<77>>}
==========================================================================
