--------------------------- MODULE MCEventLedger ---------------------------
(* Threads and signal kinds for the model checker.                         *)
EXTENDS EventLedgerRefinesQueue, TLC

CONSTANTS o1, o2, h1, h2
MCOwners == {o1, o2}
MCHandlers == {h1, h2}
MCKinds == {"interrupt", "terminate"}
Threads == Permutations({h1, h2}) \cup Permutations({o1, o2})
=============================================================================
