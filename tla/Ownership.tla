----------------------------- MODULE Ownership -----------------------------
(***************************************************************************)
(* What a transaction promises about the entries it mounts, without saying *)
(* how: an entry is created only under a durable claim, only a claimed     *)
(* entry is ever removed, a claim is dropped only for an entry that was    *)
(* removed or after the operator asserted responsibility, and while a      *)
(* child lives nothing is removed unless the operator asserted that none   *)
(* does (docs/architecture.md, cross-module invariants 5 to 7).            *)
(***************************************************************************)
CONSTANT Entries

VARIABLES
    claims,    \* the entries a durable record holds as pending
    entry,     \* what became of each entry
    running,   \* a child may be using the entries
    asserted   \* the operator asserted that no child uses them

vars == <<claims, entry, running, asserted>>

States == {"absent", "present", "removed", "lost"}

TypeOK ==
    /\ claims \subseteq Entries
    /\ entry \in [Entries -> States]
    /\ running \in BOOLEAN
    /\ asserted \in BOOLEAN

Init ==
    /\ claims = {}
    /\ entry = [e \in Entries |-> "absent"]
    /\ running = FALSE /\ asserted = FALSE

Becomes(e, from, to) ==
    /\ entry[e] = from
    /\ entry' = [entry EXCEPT ![e] = to]
    /\ UNCHANGED <<claims, running, asserted>>

\* The record is rewritten as a whole.
MayDrop(e) == entry[e] = "removed" \/ asserted
Record ==
    /\ claims' \in SUBSET Entries
    /\ \A e \in claims \ claims' : MayDrop(e)
    /\ UNCHANGED <<entry, running, asserted>>

Create(e) == e \in claims /\ Becomes(e, "absent", "present")

Remove(e) ==
    /\ e \in claims /\ (running => asserted)
    /\ Becomes(e, "present", "removed")

\* Another program destroys an entry, wherever it is.
Lose(e) == Becomes(e, "present", "lost")

Launch ==
    /\ running' = TRUE /\ UNCHANGED <<claims, entry, asserted>>
    /\ \A e \in Entries : entry[e] # "absent" => e \in claims
Reap == running' = FALSE /\ UNCHANGED <<claims, entry, asserted>>
Assert == asserted' = TRUE /\ UNCHANGED <<claims, entry, running>>

Next ==
    \/ Record \/ Launch \/ Reap \/ Assert
    \/ \E e \in Entries : Create(e) \/ Remove(e) \/ Lose(e)

Spec == Init /\ [][Next]_vars

\* Nothing that was created and is still there has been forgotten, unless the
\* operator took responsibility (journal/mod.rs, may_have_created_something).
NothingForgotten ==
    ~asserted =>
        \A e \in Entries : entry[e] \in {"present", "lost"} => e \in claims
=============================================================================
