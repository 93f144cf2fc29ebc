--------------------------- MODULE AtomicJournal ----------------------------
(***************************************************************************)
(* What the rest of SkillMount is promised of a journal by                 *)
(* journal/store.rs: a name that shows one whole document, or nothing.     *)
(* A request to replace or remove it may take effect, may not, and may be  *)
(* undone by a loss of power, until the store acknowledges what it shows:  *)
(* from then on only a later request changes it.                           *)
(***************************************************************************)
CONSTANTS Documents, Missing

VARIABLES
    content,        \* what a reader finds now
    acknowledged,   \* what the store last answered for
    asked           \* what was asked for since

Contents == Documents \cup {Missing}

Init ==
    /\ content \in Contents
    /\ acknowledged = content
    /\ asked = {}

Ask ==
    /\ \E c \in Contents : asked' = asked \cup {c}
    /\ UNCHANGED <<content, acknowledged>>

\* A request takes effect, or the power fails and an earlier one does again.
Settle ==
    /\ content' \in asked \cup {acknowledged}
    /\ UNCHANGED <<acknowledged, asked>>

Acknowledge ==
    /\ acknowledged' = content
    /\ asked' = {}
    /\ UNCHANGED content

Next == Ask \/ Settle \/ Acknowledge

Spec == Init /\ [][Next]_<<content, acknowledged, asked>>
=============================================================================
