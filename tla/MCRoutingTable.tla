--------------------------- MODULE MCRoutingTable ---------------------------
(* Small instances of RoutingTable: identifiers of three bits, written as  *)
(* the numbers they are.                                                   *)
EXTENDS RoutingTable

\* The identifier whose bits are a, b and c.
ID(a, b, c) == 0 :> a @@ 1 :> b @@ 2 :> c

MCMe == ID(0, 0, 0)

\* Contacts of one bucket, one more than it can hold.
CrowdedContacts == {ID(1, 0, 0), ID(1, 0, 1), ID(1, 1, 0)}

\* Every other identifier, for the queries.
AllContacts == KademliaIDs \ {MCMe}

=============================================================================
