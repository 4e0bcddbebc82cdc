------------------------------- MODULE MCRPC --------------------------------
(* Two nodes that call each other.                                      *)
EXTENDS RPC

CONSTANTS n1, n2

BothWays == {<<n1, n2>>, <<n2, n1>>}

OneWay == {<<n1, n2>>}

=============================================================================
