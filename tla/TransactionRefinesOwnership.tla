-------------------- MODULE TransactionRefinesOwnership --------------------
(* The transaction keeps the promises of Ownership on a platform that      *)
(* mutates through a held handle.                                          *)
EXTENDS Transaction

Claimed ==
    IF onDisk /\ disk.status # "completed"
      THEN {a \in Required : disk.st[a] \in MayHaveCreatedSomething} ELSE {}

Fate(place) ==
    CASE place = "none"      -> "absent"
      [] place \in Existing  -> "present"
      [] place = "unlinked"  -> "removed"
      [] place = "destroyed" -> "lost"

Becoming == [a \in Required |-> Fate(loc[a])]

Promise == INSTANCE Ownership WITH
    Entries <- Required, claims <- Claimed, entry <- Becoming,
    running <- child = "alive", asserted <- operator

\* Every behaviour of the transaction is one the ownership contract allows:
\* whatever crashes, fails or is moved, no entry is created before its claim is
\* durable and no claim is dropped without a removal or the operator's word.
\* (Where mutation goes by pathname this holds up to the races Transaction marks.)
KeepsOwnershipPromise == Promise!Spec
=============================================================================
