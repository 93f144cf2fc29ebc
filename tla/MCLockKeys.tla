----------------------------- MODULE MCLockKeys -----------------------------
(* Two projects, the home of a user and the state directory, which is reached through *)
(* a link; and links between the roots of these projects.                             *)
EXTENDS LockKeys

Path(root, agent) == <<root, agent, "skills">>
MCSessionBase == <<"state", "sessions">>

Profile(adapter, root, outside, worktree) ==
    [adapter |-> adapter, root |-> <<root>>, outside |-> outside, worktree |-> worktree]

HomeAgents == Path("home", ".agents")
HomeClaude == Path("home", ".claude")

Candidates ==
    <<Profile("codex", "p", <<HomeAgents>>, FALSE),
      Profile("codex", "q", <<HomeAgents>>, FALSE),
      Profile("codex", "home", <<>>, FALSE),
      Profile("claude", "p", <<HomeClaude>>, FALSE),
      Profile("claude", "q", <<HomeClaude>>, TRUE),
      Profile("staging", "q", <<HomeClaude>>, FALSE),
      Profile("omp", "p", <<HomeAgents>>, FALSE)>>

\* Every pair, two of a kind included.
MCSession == {"one", "two"}
MCCasts ==
    {[s \in MCSession |-> Candidates[IF s = "one" THEN i ELSE j]] :
        <<i, j>> \in {p \in (1..7) \X (1..7) : p[1] <= p[2]}}

Base == {<<>>, <<"p">>, <<"q">>, <<"home">>, <<"var">>}
InPlace ==
    {{}, {<<"p", ".agents">>},
     {<<"p", ".agents">>, Path("p", ".agents"), Path("p", ".agents") \o <<"x">>},
     {<<"p", ".claude">>, Path("p", ".claude")}}

\* The links of a layout, each with the directory that holds it.
Links ==
    {[from |-> {}, to |-> <<>>],
     [from |-> {Path("q", ".agents"), HomeAgents}, to |-> Path("p", ".agents")],
     [from |-> {<<"q", ".agents">>, <<"home", ".agents">>}, to |-> <<"p", ".agents">>],
     [from |-> {Path("q", ".claude"), HomeClaude}, to |-> Path("p", ".claude")],
     [from |-> {Path("q", ".claude"), <<"home", ".agents">>}, to |-> Path("p", ".agents")]}

Holding(path) == {SubSeq(path, 1, n) : n \in 1..(Len(path) - 1)}

MCLayouts ==
    {[dirs |-> Base \cup d \cup UNION {Holding(q) : q \in l.from},
      links |-> [q \in l.from \cup {<<"state">>} |->
                    IF q = <<"state">> THEN <<"var">> ELSE l.to]] :
        d \in InPlace, l \in Links}
=============================================================================
