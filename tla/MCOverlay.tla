----------------------------- MODULE MCOverlay ------------------------------
EXTENDS Overlay

\* The identifier whose bits are a, b and c.
ID(a, b, c) == 0 :> a @@ 1 :> b @@ 2 :> c

MCBootstrap == ID(1, 0, 0)

FourNodes == {MCBootstrap, ID(1, 0, 1), ID(1, 1, 1), ID(0, 0, 1)}

MCNodes == FourNodes \cup {ID(1, 1, 0)}

\* A node that is not among those closest to the key.
MCWriters == {ID(1, 1, 1)}

MCKey == ID(0, 0, 0)

Four == [members |-> FourNodes, alpha |-> 2, joins |-> 1, others |-> 1, left |-> 0, losses |-> 0]

\* Two joins at once; or one node leaves; or one message is lost; or one of
\* five nodes leaves, which ask one another one by one.
MCSettings == {
    [Four EXCEPT !.joins = 2],
    [Four EXCEPT !.left = 1],
    [Four EXCEPT !.losses = 1],
    [Four EXCEPT !.members = MCNodes, !.alpha = 1, !.left = 1]}

=============================================================================
