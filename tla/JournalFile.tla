---------------------------- MODULE JournalFile -----------------------------
(***************************************************************************)
(* One journal file and the steps that replace and remove it, of           *)
(* journal/store.rs.  A document is written to a temporary file beside the *)
(* journal, made durable there, and renamed over the journal's name; the   *)
(* directory is then flushed (Unix) or the rename itself was written       *)
(* through (Windows).  Every call can fail, the process can be killed      *)
(* between two of them, and the power can be lost.                         *)
(*                                                                         *)
(* What a document says does not matter here: it is opaque.                *)
(***************************************************************************)
CONSTANTS
    Documents,
    Missing,    \* nothing has the name
    Torn        \* a file without all of its content

ASSUME NotADocument == Missing \notin Documents /\ Torn \notin Documents /\ Missing # Torn

VARIABLES
    platform,
    pc,         \* the next call of the store
    new,        \* the document it is asked to store
    temporary,  \* the temporary file, as a process reads it
    synced,     \* its content is on the disk
    final,      \* the journal's name, as a process finds it
    survives,   \* what may have that name after the power is lost
    stable,     \* what the store last answered for
    tried       \* what it was asked for since

file == <<platform, pc, new, temporary, synced, final, survives, stable, tried>>

Files == Documents \cup {Missing, Torn}
StoreSteps == {"idle", "prepare", "create", "write", "sync", "restrict", "replace", "flush",
          "unlink", "flush_removal"}

FileTypeOK ==
    /\ platform \in {"unix", "windows"}
    /\ pc \in StoreSteps
    /\ new \in Documents \cup {Missing}
    /\ temporary \in Files
    /\ synced \in BOOLEAN
    /\ final \in Files
    /\ survives \in SUBSET Files
    /\ stable \in Documents \cup {Missing}
    /\ tried \in SUBSET (Documents \cup {Missing})

FileInit ==
    /\ platform \in {"unix", "windows"}
    /\ pc = "idle"
    /\ new = Missing
    /\ temporary = Missing
    /\ synced = FALSE
    /\ final \in Documents \cup {Missing}
    /\ survives = {final}
    /\ stable = final
    /\ tried = {}

----------------------------------------------------------------------------

Persist(document) ==
    /\ pc = "idle"
    /\ pc' = "prepare"
    /\ new' = document
    /\ tried' = tried \cup {document}
    /\ UNCHANGED <<platform, temporary, synced, final, survives, stable>>

Reports == pc' = "idle"

\* ensure_private_directory: the directory is there and is the owner's.
Prepare ==
    /\ pc = "prepare"
    /\ pc' = "create" \/ Reports
    /\ UNCHANGED <<platform, new, temporary, synced, final, survives, stable, tried>>

\* What is left of the temporary file is removed, if that works.
Discard == temporary' \in {Missing, temporary}

\* (Mutant of Create: the journal itself is opened and truncated.)
CreateInPlace ==
    /\ pc = "create"
    /\ final' = Torn /\ survives' = survives \cup {Torn}
    /\ temporary' = Torn /\ pc' = "write"
    /\ synced' = FALSE
    /\ UNCHANGED <<platform, new, stable, tried>>

Create ==
    /\ pc = "create"
    /\ \/ temporary' = Torn /\ pc' = "write"
       \/ Discard /\ Reports
    /\ synced' = FALSE
    /\ UNCHANGED <<platform, new, final, survives, stable, tried>>

Write ==
    /\ pc = "write"
    /\ \/ temporary' = new /\ pc' = "sync"
       \/ Discard /\ Reports
    /\ UNCHANGED <<platform, new, synced, final, survives, stable, tried>>

\* sync_all.  (Mutant: only the process's own buffer is flushed.)
FlushOnly ==
    /\ pc = "sync"
    /\ pc' = "restrict"
    /\ UNCHANGED <<platform, new, temporary, synced, final, survives, stable, tried>>

Sync ==
    /\ pc = "sync"
    /\ \/ synced' = TRUE /\ pc' = "restrict" /\ UNCHANGED temporary
       \/ Discard /\ Reports /\ UNCHANGED synced
    /\ UNCHANGED <<platform, new, final, survives, stable, tried>>

\* A failure leaves the temporary file where it is.
RestrictToOwner ==
    /\ pc = "restrict"
    /\ pc' = "replace" \/ (platform = "unix" /\ Reports)
    /\ UNCHANGED <<platform, new, temporary, synced, final, survives, stable, tried>>

\* The contents a power loss may leave of the temporary file.
OnDisk == IF synced THEN {temporary} ELSE {temporary, Torn}

\* A rename is on the disk at once on Windows and after the flush on Unix.
Renamed(contents) ==
    survives' = IF platform = "windows" THEN contents ELSE survives \cup contents

Replace ==
    /\ pc = "replace"
    /\ \/ /\ final' = temporary
          /\ Renamed(OnDisk)
          /\ temporary' = Missing
          /\ pc' = "flush"
       \/ Discard /\ Reports /\ UNCHANGED <<final, survives>>
    /\ UNCHANGED <<platform, new, synced, stable, tried>>

\* The directory is on the disk, and the store answers.  (Mutant: it answers
\* for a rename that is not.)
AnswersUnflushed ==
    /\ stable' = final
    /\ tried' = {}
    /\ UNCHANGED survives

Flushed ==
    /\ survives' = {final}
    /\ stable' = final
    /\ tried' = {}

\* No second operation exists on Windows, and none fails.
FlushDirectory(step) ==
    /\ pc = step
    /\ Reports
    /\ \/ Flushed
       \/ platform = "unix" /\ UNCHANGED <<survives, stable, tried>>
    /\ UNCHANGED <<platform, new, temporary, synced, final>>

RemoveJournal ==
    /\ pc = "idle"
    /\ pc' = "unlink"
    /\ new' = Missing
    /\ tried' = tried \cup {Missing}
    /\ UNCHANGED <<platform, temporary, synced, final, survives, stable>>

\* A journal that is gone already is no failure, and nothing is flushed for it.
\* On Windows the name is retired by a rename that is written through.
Unlink ==
    /\ pc = "unlink"
    /\ \/ /\ final # Missing
          /\ final' = Missing
          /\ Renamed({Missing})
          /\ pc' = "flush_removal"
       \/ Reports /\ UNCHANGED <<final, survives>>
    /\ UNCHANGED <<platform, new, temporary, synced, stable, tried>>

StoreStep ==
    \/ Prepare \/ Create \/ Write \/ Sync \/ RestrictToOwner \/ Replace \/ Unlink
    \/ \E step \in {"flush", "flush_removal"} : FlushDirectory(step)

----------------------------------------------------------------------------

\* The process is killed; the file system goes on.
Killed ==
    /\ Reports
    /\ UNCHANGED <<platform, new, temporary, synced, final, survives, stable, tried>>

PowerLoss ==
    /\ Reports
    /\ final' \in survives
    /\ survives' = {final'}
    /\ temporary' \in {temporary, Torn, Missing}
    /\ UNCHANGED <<platform, new, synced, stable, tried>>

FileNext ==
    \/ \E document \in Documents : Persist(document)
    \/ RemoveJournal
    \/ StoreStep
    \/ Killed
    \/ PowerLoss

FileSpec == FileInit /\ [][FileNext]_file

----------------------------------------------------------------------------

\* Whatever the power loss, it leaves a whole version: the last the store
\* answered for or one it was asked for since.
CrashKeepsAVersion == survives \subseteq {stable} \cup tried

Atomic == INSTANCE AtomicJournal WITH content <- final, acknowledged <- stable, asked <- tried

ImplementsAtomicJournal == Atomic!Spec
=============================================================================
