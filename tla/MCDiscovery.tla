---------------------------- MODULE MCDiscovery ----------------------------
(* A chain of four directories, 1 > 2 > 3 > 4, each with at most one more entry: a   *)
(* link to any of them, or one that is no directory.                                 *)
EXTENDS Discovery

MCDirectory == 1..4

Real(c, hidden) == [to |-> c, link |-> FALSE, hidden |-> hidden]
Link(c) == [to |-> c, link |-> TRUE, hidden |-> FALSE]
Others == {Link(c) : c \in MCDirectory} \cup {Real(NoDirectory, FALSE)}

Holding(real) == {<<real>>} \cup {<<real, o>> : o \in Others} \cup {<<o, real>> : o \in Others}
Last == {<<>>} \cup {<<o>> : o \in Others}

MCLayouts ==
    {<<a, b, c, d>> :
        a \in Holding(Real(2, FALSE)),
        b \in Holding(Real(3, FALSE)) \cup Holding(Real(3, TRUE)),
        c \in Holding(Real(4, FALSE)),
        d \in Last}

MCSkillFiles ==
    {<<"none", "loaded", "malformed", "loaded">>,
     <<"loaded", "special", "loaded", "incomplete">>}
=============================================================================
