------------------------------ MODULE Document ------------------------------
(***************************************************************************)
(* The document a journal is written as: journal/codec.rs and the records  *)
(* of journal/mod.rs.  A document is a header and lines of tokens; a token *)
(* spells the bytes of a path or a text, which may be any.                 *)
(*                                                                         *)
(* A label (a status, an operation, a number) is a string: every one is    *)
(* spelled in bytes that stand for themselves.  A path or a text is the    *)
(* sequence of its bytes.  A checksum is the body it was taken of.         *)
(***************************************************************************)
EXTENDS Naturals, Sequences, FiniteSets, SequencesExt

CONSTANTS
    MaxLines,   \* MAX_JOURNAL_LINES, and with it the bound on the file's length
    MaxConfig   \* MAX_CONFIG_BYTES

Slash == 47
Percent == 37
Dot == 46
Hyphen == 45
Digit == 48 .. 57
LowerHex == 97 .. 102
HexDigits == Digit \cup LowerHex \cup 65 .. 70

----------------------------------------------------------------------------
(* Tokens.  What can fail is the set of its results: empty on a failure.   *)

\* (Mutant: the escape itself is one of the bytes that stand for themselves.)
IsPrintable(byte) == byte \in 33 .. 126

IsVerbatim(byte) == byte \in 65 .. 90 \cup 97 .. 122 \cup 48 .. 57 \cup {46, 95, 45, 47, 92, 58, 64, 43, 44}

AllVerbatim(bytes) == \A i \in DOMAIN bytes : IsVerbatim(bytes[i])

Nibble(v) == IF v < 10 THEN 48 + v ELSE 87 + v

NibbleValue(byte) == IF byte \in Digit THEN byte - 48 ELSE byte - 87

EncodeBytes(bytes) ==
    IF bytes # <<>> /\ AllVerbatim(bytes) THEN bytes
    ELSE <<Percent>> \o [i \in 1 .. 2 * Len(bytes) |->
             Nibble(IF i % 2 = 1 THEN bytes[(i + 1) \div 2] \div 16 ELSE bytes[i \div 2] % 16)]

HexPairs(hex) ==
    IF Len(hex) % 2 = 0 /\ \A i \in DOMAIN hex : hex[i] \in Digit \cup LowerHex
    THEN {[i \in 1 .. Len(hex) \div 2 |-> 16 * NibbleValue(hex[2 * i - 1]) + NibbleValue(hex[2 * i])]}
    ELSE {}

DecodeBytes(token) ==
    IF token # <<>> /\ token[1] = Percent THEN HexPairs(Tail(token))
    ELSE IF AllVerbatim(token) THEN {token} ELSE {}

\* A line is split at spaces, so a token with white space is not one field.
OneField(token) == \A i \in DOMAIN token : token[i] \notin {10, 32}

----------------------------------------------------------------------------
(* Records: the fields each must and may have, and what a field may say.   *)

Singles == {"transaction", "paths"}
Repeated == {"source", "lock", "action", "error"}
Records == Singles \cup Repeated

Required == [
    transaction |-> {"id", "agent", "status", "pid", "keep_mounts"},
    paths |-> {"project_root", "launch_cwd", "discovery_entry", "backing_store"},
    source |-> {"name", "ordinal", "entry", "canonical"},
    lock |-> {"kind", "access", "path", "anchor", "suffix"},
    action |-> {"id", "op", "precondition", "kind", "status", "final"},
    error |-> {"text"}]

Optional == [r \in Records |->
    CASE r = "lock" -> {"physical"}
      [] r = "action" -> {"contents", "temp", "source", "target", "identity"}
      [] OTHER -> {}]

Agents == {"claude", "codex", "omp"}
TransactionLabels == {"planned", "applying", "active", "supervising", "cleaning", "completed", "kept", "failed"}
ActionLabels == {"planned", "intent", "staged", "applied", "reused", "rolled_back"}
Created == {"mkdir", "config", "link"}
LockKinds == {"discovery-entry", "backing-store"}

\* The labels a field may hold.
Labels == [
    transaction |-> [agent |-> Agents, status |-> TransactionLabels, keep_mounts |-> {"true", "false"}],
    lock |-> [kind |-> LockKinds, access |-> {"observe", "mutate"}],
    action |-> [op |-> Created \cup {"reuse"}, status |-> ActionLabels,
                precondition |-> {"missing", "existing_link_to_source"},
                kind |-> {"directory", "file", "symlink", "junction", "undecided"}]]

HasLabel(record, key) == record \in DOMAIN Labels /\ key \in DOMAIN Labels[record]

IsNumber(record, key) == key \in {"pid", "ordinal"} \/ (record = "action" /\ key = "id")

IsText(record, key) ==
    \/ key \in {"name", "physical", "contents", "identity", "text"}
    \/ record = "transaction" /\ key = "id"

\* Texts are UTF-8 and paths any bytes; here a text is of one-byte characters.
Utf8(bytes) == \A i \in DOMAIN bytes : bytes[i] < 128

\* TransactionId::parse: the identifier becomes a component of staged names.
LegalId(bytes) ==
    /\ Len(bytes) \in 1 .. 128
    /\ \A i \in DOMAIN bytes : bytes[i] \in HexDigits \cup {Hyphen}

\* What TransactionJournal and its records may hold.
Byte == 0 .. 255

IsValue(record, key, value) ==
    IF HasLabel(record, key) THEN value \in Labels[record][key]
    ELSE IF IsNumber(record, key) THEN value \in Nat
    ELSE value \in Seq(Byte) /\ (IsText(record, key) => Utf8(value))

IsRecord(record, fields) ==
    /\ fields = [key \in DOMAIN fields |-> fields[key]]
    /\ Required[record] \subseteq DOMAIN fields
    /\ DOMAIN fields \subseteq Required[record] \cup Optional[record]
    /\ \A key \in DOMAIN fields : IsValue(record, key, fields[key])

IsJournal(journal) ==
    /\ journal = [record \in Records |-> journal[record]]
    /\ \A record \in Singles : IsRecord(record, journal[record])
    /\ \A record \in Repeated :
           /\ journal[record] \in Seq(ToSet(journal[record]))
           /\ \A i \in DOMAIN journal[record] : IsRecord(record, journal[record][i])

----------------------------------------------------------------------------
(* Lines.  A journal has the fields of each record under the record's name,*)
(* in sequences where it may repeat.                                       *)

Token(record, key, value) ==
    IF HasLabel(record, key) \/ IsNumber(record, key) THEN value ELSE EncodeBytes(value)

Line(record, fields) ==
    [record |-> record, fields |-> [key \in DOMAIN fields |-> Token(record, key, fields[key])]]

LinesOf(record, journal) == [i \in DOMAIN journal[record] |-> Line(record, journal[record][i])]

ToLines(journal) ==
    <<Line("transaction", journal.transaction), Line("paths", journal.paths)>>
        \o LinesOf("source", journal) \o LinesOf("lock", journal)
        \o LinesOf("action", journal) \o LinesOf("error", journal)

\* The values a token can be read as.
Values(record, key, token) ==
    IF HasLabel(record, key) THEN {token} \cap Labels[record][key]
    ELSE IF IsNumber(record, key) THEN {token} \cap Nat
    ELSE {v \in DecodeBytes(token) : IsText(record, key) => Utf8(v)}

SchemaVersion == 2
LegacySchemaVersion == 1

\* The fields read of a line; a legacy line is not asked for its access.
Read(record, version) ==
    IF record = "lock" /\ version = LegacySchemaVersion THEN Required[record] \ {"access"}
    ELSE Required[record]

ReadsWhole(line, version) ==
    /\ line.record \in Records
    /\ Read(line.record, version) \subseteq DOMAIN line.fields
    /\ \A key \in DOMAIN line.fields \cap (Read(line.record, version) \cup Optional[line.record]) :
           Values(line.record, key, line.fields[key]) # {}

FieldsOf(line, version) ==
    LET read == DOMAIN line.fields \cap (Read(line.record, version) \cup Optional[line.record])
        assumed == IF line.record = "lock" /\ version = LegacySchemaVersion THEN {"access"} ELSE {}
    IN  [key \in read \cup assumed |->
            IF key \in assumed THEN "mutate"
            ELSE CHOOSE v \in Values(line.record, key, line.fields[key]) : TRUE]

----------------------------------------------------------------------------
(* What a journal must say to be acted on: TransactionJournal::validate.   *)

IsWithin(path, directory) ==
    path = directory \/ IsPrefix(IF directory = <<Slash>> THEN directory ELSE Append(directory, Slash), path)

LogicalPath(lock) ==
    IF lock.anchor = <<Slash>> THEN lock.anchor \o lock.suffix
    ELSE lock.anchor \o <<Slash>> \o lock.suffix

AuthorizesMutationOf(lock, path) == lock.access = "mutate" /\ IsWithin(path, LogicalPath(lock))

\* The key another observer of the path derives, from the volume's root.
AuthorizesExactMutationOf(lock, path) ==
    /\ AuthorizesMutationOf(lock, path)
    /\ lock.anchor = <<Slash>>
    /\ LogicalPath(lock) = path

LastSlash(path) == CHOOSE i \in DOMAIN path : path[i] = Slash /\ \A k \in i + 1 .. Len(path) : path[k] # Slash

\* `.skillmount-<id>-<action>.tmp` beside the entry, its fixed parts shortened.
StagedSibling(id, action, path) ==
    SubSeq(path, 1, LastSlash(path)) \o <<Dot>> \o id \o <<Hyphen, 48 + action>>

KindFits(action) ==
    CASE action.op = "mkdir" -> action.kind = "directory"
      [] action.op = "config" -> action.kind = "file"
      [] action.op = "link" -> action.kind \in {"undecided", "symlink", "junction"}
      [] action.op = "reuse" -> action.kind = "undecided"

ConfigEvidenceFits(action) ==
    IF action.op = "config"
    THEN /\ "contents" \in DOMAIN action
         /\ Len(action.contents) <= MaxConfig
         /\ DOMAIN action \cap {"source", "target"} = {}
    ELSE "contents" \notin DOMAIN action

ActionFits(journal, action) ==
    /\ KindFits(action)
    /\ ConfigEvidenceFits(action)
    /\ action.op = "reuse" <=> action.status = "reused"
    /\ action.op = "link" => "source" \in DOMAIN action
    /\ IF action.op \in Created
       THEN /\ "temp" \in DOMAIN action
            /\ action.temp = StagedSibling(journal.transaction.id, action.id, action.final)
       ELSE "temp" \notin DOMAIN action

Locks(journal) == ToSet(journal.lock)

HasAuthority(journal, path, kinds) ==
    \E lock \in Locks(journal) : lock.kind \in kinds /\ AuthorizesMutationOf(lock, path)

HasExactAuthority(journal, path) ==
    \E lock \in Locks(journal) :
        lock.kind = "discovery-entry" /\ AuthorizesExactMutationOf(lock, path)

\* Legacy journals did not record the locks of staged entries.
EntriesAreCovered(journal, version) ==
    \A action \in {a \in ToSet(journal.action) : a.op \in Created} :
        /\ version = SchemaVersion => HasExactAuthority(journal, action.temp)
        /\ HasAuthority(journal, action.final, LockKinds)

Validates(journal, version) ==
    /\ \E lock \in Locks(journal) : lock.access = "mutate"
    /\ \A i \in DOMAIN journal.action :
           /\ journal.action[i].id > IF i = 1 THEN 0 ELSE journal.action[i - 1].id
           /\ version = LegacySchemaVersion => journal.action[i].op # "config"
           /\ ActionFits(journal, journal.action[i])
    /\ HasAuthority(journal, journal.paths.discovery_entry, {"discovery-entry"})
    /\ HasAuthority(journal, journal.paths.backing_store, {"backing-store"})
    /\ EntriesAreCovered(journal, version)

\* The lines of a record, in their order.
Gathered(lines, record) ==
    LET upTo[n \in 0 .. Len(lines)] ==
          IF n = 0 THEN <<>>
          ELSE IF lines[n].record = record THEN Append(upTo[n - 1], lines[n]) ELSE upTo[n - 1]
    IN  upTo[Len(lines)]

ReadAll(lines, version) == [i \in DOMAIN lines |-> FieldsOf(lines[i], version)]

\* The journal as the lines say it; nothing is skipped or guessed.
JournalOf(lines, version) ==
    LET gathered == [record \in Records |-> Gathered(lines, record)]
    IN  [record \in Records |->
            IF record \in Singles THEN FieldsOf(gathered[record][1], version)
            ELSE ReadAll(gathered[record], version)]

FromLines(lines, version) ==
    LET journal == JournalOf(lines, version) IN
    IF /\ \A record \in Singles : Len(Gathered(lines, record)) = 1
       /\ \A i \in DOMAIN lines : ReadsWhole(lines[i], version)
       /\ LegalId(journal.transaction.id)
       /\ Validates(journal, version)
    THEN {journal}
    ELSE {}

----------------------------------------------------------------------------
(* Documents.                                                              *)

Magic == "skillmount-journal"

DocumentOf(lines, version, platform) ==
    [magic |-> Magic, version |-> version, platform |-> platform, checksum |-> lines, body |-> lines]

\* A journal is always written under the current schema.
Rendered(journal, platform) == DocumentOf(ToLines(journal), SchemaVersion, platform)

\* (Mutant: that there is a checksum is enough.)
HasChecksum(document) == "checksum" \in DOMAIN document

ChecksumMatches(document) == document.checksum = document.body

ParsedLines(document, platform) ==
    IF /\ document.magic = Magic
       /\ document.version \in {SchemaVersion, LegacySchemaVersion}
       /\ document.platform = platform
       /\ ChecksumMatches(document)
       /\ Len(document.body) <= MaxLines
       /\ \A i \in DOMAIN document.body : \A key \in DOMAIN document.body[i].fields :
              HasLabel(document.body[i].record, key) \/ IsNumber(document.body[i].record, key)
                  \/ OneField(document.body[i].fields[key])
    THEN {document.body}
    ELSE {}

\* store::load, of a file that has all its content.
Loaded(document, platform) ==
    UNION {FromLines(lines, document.version) : lines \in ParsedLines(document, platform)}
=============================================================================
