---------------------------- MODULE OFSUsersMC ----------------------------
(* Small instances of OFSUsers for TLC. *)
EXTENDS OFSUsers, TLC

\* Two names that fit, one that is cut, and what it is cut to.
MixedNames  == {"admin", "alice", "long-1", "long-"}
MixedStored == [n \in MixedNames |-> IF n = "long-1" THEN "long-" ELSE n]

\* Passwords and their hashes.
Passwords == {"admin123", "x"}
HashOf    == [p \in Passwords |-> IF p = "x" THEN "h1" ELSE "h2"]
\* No property names a session.
AnySession == Permutations(Session)
===========================================================================
