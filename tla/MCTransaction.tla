--------------------------- MODULE MCTransaction ---------------------------
(* Plans and bounds the model checker explores Transaction under.          *)
EXTENDS TransactionRefinesOwnership

\* A staged session: a directory, a configuration file and a link of mode
\* `auto` inside it.
StagedOp == <<"mkdir", "config", "link">>
StagedInside == {<<1, 2>>, <<1, 3>>}
\* A helper directory with a configuration file and a link of mode `auto` in it,
\* beside a reused link.
KeptOp == <<"mkdir", "reuse", "config", "link">>
KeptInside == {<<1, 3>>, <<1, 4>>}
LastOfFour == {4}
LastOfThree == {3}
=============================================================================
