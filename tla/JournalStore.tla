---------------------------- MODULE JournalStore ----------------------------
(***************************************************************************)
(* A transaction's journal on the disk: the process that owns it writes    *)
(* ever later versions of it, may be killed at any call, and is followed   *)
(* by one that adopts what it can read.  Meanwhile any process may scan    *)
(* the directory, without a lock.  What is stored are documents            *)
(* (module Document), by the steps of module JournalFile, which knows them *)
(* by their number.                                                        *)
(***************************************************************************)
EXTENDS JournalFile, Document

CONSTANTS
    Opened,     \* journals a transaction may open with, as Transaction::open_with builds them
    Stored,     \* documents that are there before, of this build or of another
    Statuses,   \* of those it may advance to
    Marks,      \* of those an action of it may advance to
    Causes,     \* errors it may record
    MaxSaves    \* bound on the journals written

VARIABLES
    memory,     \* the journal the owner holds, if there is an owner
    scan,       \* what a scan of the directory does next
    written     \* every document there was to store, the one found first

vars == <<file, memory, scan, written>>

ASSUME DocumentsAreNumbered == MaxSaves \in Nat /\ Documents = 1 .. MaxSaves + 1

\* A transaction opens with a journal that can be acted on: every entry it owns is
\* covered by its locks (module LockKeys) and staged where its identifier says.
ASSUME OpenedAreSound ==
    \A journal \in Opened :
        IsJournal(journal) /\ LegalId(journal.transaction.id) /\ Validates(journal, SchemaVersion)

\* A document is lines of fields, whoever wrote it; only what is written under a
\* label or as a number is no sequence of bytes.
ASSUME StoredAreDocuments ==
    \A document \in Stored :
        /\ document.body \in Seq(ToSet(document.body))
        /\ \A i \in DOMAIN document.body :
              LET line == document.body[i] IN
              \A key \in DOMAIN line.fields :
                  \/ HasLabel(line.record, key) \/ IsNumber(line.record, key)
                  \/ line.fields[key] \in Seq(Byte)

\* Only a plan decides that an entry is reused, and an error is text.
ASSUME ProgressIsRecordable ==
    /\ Statuses \subseteq TransactionLabels
    /\ Marks \subseteq ActionLabels \ {"reused"}
    /\ \A cause \in Causes : cause \in Seq(Byte) /\ Utf8(cause)

TypeOK ==
    /\ FileTypeOK
    /\ Cardinality(memory) <= 1
    /\ scan \in {"list", "load", "done"}
    /\ Len(written) \in Documents

Init ==
    /\ FileInit
    /\ final \in {1, Missing}
    /\ memory = {}
    /\ scan = "list"
    /\ written \in [{1} -> Stored]

----------------------------------------------------------------------------

LoadOf(contents) == IF contents \in Documents THEN Loaded(written[contents], platform) ELSE {}

(***************************************************************************)
(* The owner.                                                              *)
(***************************************************************************)

Saves(journal) ==
    /\ Len(written) \in 1 .. MaxSaves
    /\ written' = Append(written, Rendered(journal, platform))
    /\ memory' = {journal}
    /\ Persist(Len(written) + 1)
    /\ UNCHANGED scan

\* Identifiers are unique, so there is no such journal yet.
Open(journal) ==
    /\ memory = {} /\ final = Missing /\ tried = {}
    /\ Saves(journal)

\* What a later version differs in: the transaction's or an action's
\* progress, a request to keep that is dropped, and errors.
Advanced(journal, status) == [journal EXCEPT !.transaction.status = status]
Unkept(journal) == [journal EXCEPT !.transaction.keep_mounts = "false"]
Marked(journal, i, status) == [journal EXCEPT !.action[i].status = status]
Identified(journal, i) ==
    [journal EXCEPT !.action[i] =
        [key \in DOMAIN @ \cup {"identity"} |->
            CASE key = "identity" -> <<49>> [] key = "status" -> "staged" [] OTHER -> @[key]]]
Failing(journal, cause) ==
    [journal EXCEPT !.transaction.status = "failed", !.error = Append(@, [text |-> cause])]

Later(journal) ==
    {Advanced(journal, status) : status \in Statuses}
    \cup {Advanced(Unkept(journal), "cleaning")}
    \cup {Failing(journal, cause) : cause \in Causes}
    \cup UNION {{Identified(journal, i)} \cup {Marked(journal, i, mark) : mark \in Marks} :
                    i \in {k \in DOMAIN journal.action : journal.action[k].op \in Created}}

Save == \E journal \in memory : \E later \in Later(journal) : Saves(later)

\* A transaction that is over has its journal removed and is done with it.
Retire ==
    /\ \E journal \in memory : journal.transaction.status = "completed"
    /\ RemoveJournal
    /\ memory' = {}
    /\ UNCHANGED <<scan, written>>

Adopt ==
    /\ pc = "idle" /\ memory = {}
    /\ LoadOf(final) # {}
    /\ memory' = LoadOf(final)
    /\ UNCHANGED <<file, scan, written>>

Owner ==
    \/ \E journal \in Opened : Open(journal)
    \/ Save
    \/ Retire
    \/ Adopt
    \/ StoreStep /\ UNCHANGED <<memory, scan, written>>

----------------------------------------------------------------------------
(* A scan: the names are listed, then each is opened and read.  An open    *)
(* file keeps its content when its name is given to another.               *)

Lists ==
    /\ scan = "list"
    /\ scan' = IF final = Missing THEN "done" ELSE "load"
    /\ UNCHANGED <<file, memory, written>>

Loads ==
    /\ scan = "load"
    /\ scan' = "done"
    /\ UNCHANGED <<file, memory, written>>

----------------------------------------------------------------------------

Crash ==
    /\ Killed \/ PowerLoss
    /\ memory' = {}
    /\ UNCHANGED <<scan, written>>

Next == Owner \/ Lists \/ Loads \/ Crash

Spec == Init /\ [][Next]_vars

----------------------------------------------------------------------------
(* Properties.                                                             *)

\* Only the reader of a journal has a bound on it.
Fits(lines) == Len(lines) <= MaxLines

\* What a transaction comes to hold is exactly what a later process would read of
\* it, whatever bytes its paths are of - unless it has outgrown that
\* bound (MAX_JOURNAL_LINES).
WhatIsSavedLoads ==
    [][\A journal \in memory' \ memory :
          Fits(ToLines(journal)) => Loaded(Rendered(journal, platform), platform) = {journal}]_vars

\* The damage a file can take: a header of something else, lines lost from
\* its end or its middle, repeated, or taken from elsewhere.
Damaged(document) ==
    {[document EXCEPT !.version = v] : v \in 1 .. 3}
    \cup {[document EXCEPT !.magic = "other"],
          [document EXCEPT !.platform = IF @ = "unix" THEN "windows" ELSE "unix"]}
    \cup {[document EXCEPT !.body = SubSeq(@, 1, n)] : n \in 0 .. Len(document.body)}
    \cup {[document EXCEPT !.body = RemoveAt(@, i)] : i \in DOMAIN document.body}
    \cup {[document EXCEPT !.body = InsertAt(@, i, @[i])] : i \in DOMAIN document.body}

OnlyLocksStrengthened(read, journal) ==
    /\ [read EXCEPT !.lock = <<>>] = [journal EXCEPT !.lock = <<>>]
    /\ DOMAIN read.lock = DOMAIN journal.lock
    /\ \A i \in DOMAIN read.lock :
           read.lock[i] \in {journal.lock[i], [journal.lock[i] EXCEPT !.access = "mutate"]}

\* A damaged journal is refused.  The one change the checksum does not cover
\* is the header's version, and reading a journal under the older schema
\* can only claim stronger locks, never other entries.
DamageIsNeverActedOn ==
    [][written' # written =>
          \A damaged \in Damaged(Last(written')) : \A read \in Loaded(damaged, platform) :
              \A journal \in memory' : OnlyLocksStrengthened(read, journal)]_vars

\* A scan that runs while the journal is replaced reads a whole version of
\* it; it refuses one that this build wrote only when that had gone between
\* the listing and the reading.
ScansReadVersions ==
    [][Loads /\ final \notin {Missing, 1} =>
          final \in Documents /\ (Fits(written[final].body) => LoadOf(final) # {})]_vars

\* docs/adr/0039: "Schema version 1 remains readable by mapping every legacy
\* record to `Mutate`".  A journal of the older schema that could be read is
\* still one a process can read after its transaction was taken up.
LegacyStaysReadable ==
    written[1].version = LegacySchemaVersion /\ Loaded(written[1], platform) # {} /\ final \in Documents
        => LoadOf(final) # {}
=============================================================================
