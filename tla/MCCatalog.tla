----------------------------- MODULE MCCatalog -----------------------------
(* Three sources over the names a, A and b, of which the first two have one key, and  *)
(* two directories, resolved with little validation; and one source of one Skill, with*)
(* every content of its directory, under the policy of each adapter that resolves a    *)
(* catalog and at every level.                                                        *)
EXTENDS Catalog, FiniteSets

CONSTANTS x, y

MCKeyOf == [r \in {"a", "A", "b"} |-> IF r = "b" THEN 2 ELSE 1]

CatalogUniverse == [name : {"a", "A", "b"}, canonical : {x, y, NoCanonical}]
One == {{}} \cup {{c} : c \in CatalogUniverse}
Two == One \cup {{c, d} : c \in CatalogUniverse, d \in {d \in CatalogUniverse : d.name # "a"}}
Named(held) == Cardinality({c.name : c \in held}) = Cardinality(held)

From(held) ==
    {[accessible |-> TRUE, candidates |-> h] : h \in {h \in held : Named(h)}}
        \cup {[accessible |-> FALSE, candidates |-> {}]}

SourceLists ==
    {<<a, b, c>> : a \in From(One), b \in From(Two), c \in From(Two)}
        \cup {<<a>> : a \in From(Two)}

Declaring(name) ==
    [exact |-> TRUE, own |-> TRUE, opens |-> TRUE, parses |-> TRUE,
     name |-> name, description |-> "present"]

Folds ==
    [sources : SourceLists,
     skills : {[c \in {x, y} |-> Declaring(IF c = x THEN "a" ELSE "b")],
               [c \in {x, y} |-> [Declaring("a") EXCEPT !.opens = (c = x)]]},
     policy : {Codex, Claude},
     level : {"None"}]

Single == <<[accessible |-> TRUE, candidates |-> {[name |-> "a", canonical |-> x]}]>>

Validations ==
    [sources : {Single},
     skills : {[c \in {x, y} |-> s] : s \in {s \in Skills : s.parses => s.opens}},
     policy : {Codex, Claude},
     level : Levels]

MCCommands == Folds \cup Validations
=============================================================================
