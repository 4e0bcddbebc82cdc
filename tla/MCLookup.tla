------------------------------ MODULE MCLookup ------------------------------
(* A lookup among a few peers, whose distances to the target differ in     *)
(* every bit.                                                              *)
EXTENDS Lookup, TLC

ID(a, b, c) == 0 :> a @@ 1 :> b @@ 2 :> c

MCMe == ID(0, 0, 0)

MCTarget == ID(1, 0, 1)

MCPeers == {ID(1, 0, 1), ID(1, 1, 0), ID(0, 0, 1), ID(0, 1, 1), ID(1, 1, 1)}

=============================================================================
