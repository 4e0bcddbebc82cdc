---------------------------- MODULE MCDataStore -----------------------------
(* A small package with the history r1 <- r2 <- r3, one record longer than *)
(* a walk may be, so r3 is accepted only by a store that has caught up; b  *)
(* is not a record of the package.                                         *)
EXTENDS DataStore

CONSTANTS r1, r2, r3, b

MCVersion == [r \in Records |-> CASE r = b -> 1 [] r = r1 -> 2 [] r = r2 -> 3 [] r = r3 -> 4]

MCPrev == [r \in Records |-> CASE r = r3 -> r2 [] r = r2 -> r1 [] OTHER -> ZeroHash]

\* The pointers that the owner publishes with its records, and one to
\* something else than a record.
Offered == {[head |-> r, version |-> MCVersion[r], authentic |-> TRUE] : r \in {r2, r3, b}}

AuthenticRecords == Records \ {b}

=============================================================================
