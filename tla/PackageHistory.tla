--------------------------- MODULE PackageHistory ---------------------------
(***************************************************************************)
(* What the registry promises of a package with one publisher: there is    *)
(* one history of releases, to which only the owner adds and only in       *)
(* increasing versions, and every node has a view of it.  A view may lag   *)
(* behind by any number of releases, catches up along the history, and may *)
(* be lost altogether; it never shows anything else and never goes back.   *)
(* Registry is shown to implement this specification.                      *)
(***************************************************************************)
EXTENDS SemanticVersion, SequencesExt

CONSTANTS
    Nodes,
    Owner,
    Versions

VARIABLES
    published,      \* the history that the owner has published, oldest first
    view            \* the part of it that each node has

vars == <<published, view>>

Init ==
    /\ published = <<>>
    /\ view = [n \in Nodes |-> <<>>]

\* The owner adds a release, and is the first to have it.
Release(v) ==
    /\ published # <<>> => GreaterThan(v, Last(published).version)
    /\ published' = Append(published, [version |-> v, author |-> Owner])
    /\ view' = [view EXCEPT ![Owner] = published']

\* A node catches up, not necessarily to the end.
CatchUp(n) ==
    /\ \E i \in Len(view[n]) + 1..Len(published) :
         view' = [view EXCEPT ![n] = SubSeq(published, 1, i)]
    /\ UNCHANGED published

\* A node loses what it has.
Forget(n) ==
    /\ n # Owner
    /\ view' = [view EXCEPT ![n] = <<>>]
    /\ UNCHANGED published

Next ==
    \/ \E v \in Versions : Release(v)
    \/ \E n \in Nodes : CatchUp(n) \/ Forget(n)

Spec == Init /\ [][Next]_vars

=============================================================================
