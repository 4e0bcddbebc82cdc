---------------------------- MODULE MCKeyManager ----------------------------
(* Two nodes with one directory, and a domain that the system's DNS knows. *)
EXTENDS KeyManager, TLC

\* A key that no node has made.
MCDNSKeys == {0}

NodeSymmetry == Permutations(Nodes)

=============================================================================
