--------------------------- MODULE MCJournalStore ---------------------------
(***************************************************************************)
(* Small instances of JournalStore.  The project's path holds the bytes the*)
(* codec treats differently: a space and an equals sign, the escape itself,*)
(* a line feed, and a byte that is no text.                                *)
(***************************************************************************)
EXTENDS JournalStore

Plain == <<47, 112>>
Odd == <<47, 32, 61, 10, 255>>
Escaping == <<47, 37, 54>>

Id == <<48, 45, 102>>
Below(path, name) == path \o <<47, name>>

Shared(path, access) ==
    [kind |-> "discovery-entry", access |-> access, path |-> path, anchor |-> <<47>>, suffix |-> Tail(path)]

Anchored(project, name) ==
    [kind |-> "backing-store", access |-> "mutate", path |-> Below(project, name), anchor |-> project,
     suffix |-> <<name>>, physical |-> <<49>>]

Mkdir(path) ==
    [id |-> 1, op |-> "mkdir", precondition |-> "missing", kind |-> "directory", status |-> "planned",
     final |-> path, temp |-> StagedSibling(Id, 1, path)]

Link(path, source) ==
    [id |-> 2, op |-> "link", precondition |-> "missing", kind |-> "undecided", status |-> "planned",
     final |-> path, temp |-> StagedSibling(Id, 2, path), source |-> source]

Config(path) ==
    [id |-> 2, op |-> "config", precondition |-> "missing", kind |-> "file", status |-> "planned",
     final |-> path, temp |-> StagedSibling(Id, 2, path), contents |-> <<>>]

Reuse(path, source) ==
    [id |-> 3, op |-> "reuse", precondition |-> "existing_link_to_source", kind |-> "undecided",
     status |-> "reused", final |-> path, source |-> source]

Journal(project, actions) ==
    [transaction |-> [id |-> Id, agent |-> "codex", status |-> "planned", pid |-> 7, keep_mounts |-> "true"],
     paths |-> [project_root |-> project, launch_cwd |-> project,
                discovery_entry |-> Below(project, 100), backing_store |-> Below(project, 115)],
     source |-> <<[name |-> <<97>>, ordinal |-> 0, entry |-> Below(project, 97), canonical |-> Below(project, 97)]>>,
     lock |-> <<Shared(Below(project, 100), "mutate"), Anchored(project, 115), Shared(Below(project, 97), "observe")>>
                \o [i \in 1 .. 2 |-> Shared(actions[i].temp, "mutate")],
     action |-> actions,
     error |-> <<>>]

Store(project) == Below(project, 115)

LinkPlan(project) ==
    Journal(project, <<Mkdir(Store(project)), Link(Below(Store(project), 97), Below(project, 97))>>)

ConfigPlan(project) ==
    Journal(project, <<Mkdir(Store(project)), Config(Below(Store(project), 99)),
                       Reuse(Below(Store(project), 98), Below(project, 98))>>)

MCOpened == {LinkPlan(Odd), ConfigPlan(Escaping)}

Current == Rendered(LinkPlan(Plain), "unix")

MCStored == {Current, [Current EXCEPT !.version = 3]}

\* A journal of an older build: no access, and no locks of staged entries.
LegacyJournal ==
    LET journal == LinkPlan(Plain)
        lines == ToLines([journal EXCEPT !.lock = SubSeq(@, 1, 2)])
    IN  DocumentOf([i \in DOMAIN lines |->
            IF lines[i].record # "lock" THEN lines[i]
            ELSE [lines[i] EXCEPT !.fields = [key \in DOMAIN @ \ {"access"} |-> @[key]]]],
            LegacySchemaVersion, "unix")

MCLegacy == {LegacyJournal}

MCCauses == {<<32>>}

MCDocuments == 1 .. MaxSaves + 1
=============================================================================
