---------------------------- MODULE MCMountPlan ----------------------------
(* Two names and two directories, one with up to two entries. Three roots of the      *)
(* Codex or the Claude adapter lead to either of them or nowhere, the mount root     *)
(* first or last.                                                                    *)
EXTENDS MountPlan

CONSTANTS n, m, t, u, src, other, third

MCSelected == [x \in {n, m} |-> IF x = n THEN src ELSE third]

\* A Skill entry resolves if it is usable.
Shapes ==
    {[kind |-> k, source |-> s] : k \in {"Directory", "DirectoryLink"}, s \in {src, other}}
        \cup {[kind |-> "Unusable", source |-> NoSource]}

EntryOf(declares, occupies, shape) ==
    [declares |-> declares, occupies |-> occupies, kind |-> shape.kind, source |-> shape.source]

\* Only a directory with metadata declares a name.
OfN == {e \in {EntryOf(d, o, s) : d \in {n, NoName}, o \in {n, NoName}, s \in Shapes} :
            /\ e.declares = NoName => e.occupies = n
            /\ e.declares = n => e.source # NoSource}
OfM == {EntryOf(m, NoName, [kind |-> "Directory", source |-> other]),
        EntryOf(NoName, m, [kind |-> "DirectoryLink", source |-> third])}
Universe == OfN \cup OfM

OneOf == {{}} \cup {{a} : a \in Universe}
TwoOf == {{a, b} : a \in Universe, b \in Universe}
MCListings == {[x \in {t, u} |-> IF x = t THEN a ELSE b] : a \in OneOf \cup TwoOf, b \in OneOf}

RootOf(kind, entry, terminal) == [kind |-> kind, entry |-> entry, terminal |-> terminal]
Targets == {t, u, NoTerminal}

Lists(special) ==
    {<<RootOf("mounted", "store", a), RootOf("ordinary", "legacy", b), RootOf(special, "special", c)>> :
        a \in Targets, b \in Targets, c \in Targets}
    \cup
    {<<RootOf("ordinary", "legacy", b), RootOf(special, "special", c), RootOf("mounted", "store", a)>> :
        a \in Targets, b \in {t}, c \in {t, u}}

\* Three roots of one authority that reach one directory.
AllOne ==
    {<<RootOf("ordinary", "legacy", t), RootOf("ordinary", "ancestor", t), RootOf("mounted", "store", t)>>,
     <<RootOf("ordinary", "legacy", t), RootOf("mounted", "store", t), RootOf("ordinary", "ancestor", t)>>}

AdapterLists == Lists("CodexSystem") \cup Lists("ClaudeManaged") \cup AllOne
=============================================================================
