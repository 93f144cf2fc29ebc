----------------------------- MODULE MCSessions -----------------------------
(* Lock layouts the model checker explores Sessions under. Key 1 is a      *)
(* shared discovery root, the others are destinations.                     *)
EXTENDS Sessions

\* The first two end up with the same destinations; the second first asks for a
\* later key only, and so must release and reacquire, up to once in every pass. The
\* third observes what they mutate and has to promote a key to recover it, or
\* claims what they recorded by taking a later one.
ContendedFirst == << <<1, 2, 0>>, <<0, 0, 1>>, <<0, 1, 0>>, <<1, 0, 0>> >>
ContendedLayouts == << {<<1, 2, 2>>},
                       {<<0, 2, 1>>, <<0, 1, 2>>},
                       {<<2, 1, 0>>},
                       {<<1, 0, 2>>} >>
\* Three sessions; a session and an operator who meet two journals of the dead, the
\* second of which costs the operator the locks on the first; and a session that
\* refuses to recover beside one that does.
ContendedCasts ==
    {<<"session", "session", "session", "finished">>,
     <<"dead", "session", "dead", "operator">>,
     <<"session", "no_recover", "dead", "finished">>}

\* A journal of the dead over two destinations, each of which a session now uses.
StandoffFirst == << <<2, 2>>, <<2, 0>>, <<0, 2>> >>
StandoffLayouts == << {<<2, 2>>}, {<<2, 0>>}, {<<0, 2>>} >>
StandoffCasts == {<<"dead", "session", "session">>}
=============================================================================
