----------------------------- MODULE MCRegistry -----------------------------
(* Three nodes: p publishes, q and r keep replicas.                        *)
EXTENDS Registry

CONSTANTS p, q, r

\* The first node publishes; the second forges releases; the third restarts.
OnePublishes == [keyHolders |-> {p}, forcers |-> {q}, restarters |-> {r}, forgetters |-> {}]

\* The first node publishes; the third forgets what it holds.
OneForgets == [keyHolders |-> {p}, forcers |-> {}, restarters |-> {}, forgetters |-> {r}]

TwoPublish == [keyHolders |-> {p, q}, forcers |-> {}, restarters |-> {}, forgetters |-> {}]

AllRoles == {OnePublishes, OneForgets, TwoPublish}

OnlyTwo == {TwoPublish}

\* Two versions, one of them written in two ways.
TwoVersions == {<<1, 9>>, <<1, 9, 0>>, <<1, 10>>}

ThreeVersions == TwoVersions \cup {<<2>>}

=============================================================================
