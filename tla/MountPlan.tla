----------------------------- MODULE MountPlan -----------------------------
(***************************************************************************)
(* How a session decides what to mount: the discovery scopes that reach one*)
(* terminal directory are folded into one (`dedupe_scopes_by_terminal`),   *)
(* the rest are merged into an index by logical name and an index of the   *)
(* mount destination (`discovery_indexes`), and the conflict table is      *)
(* applied to each selected Skill in turn (`apply_conflict_policy`).       *)
(*                                                                         *)
(* Several roots often name one directory, and a directory may hold several*)
(* entries of one name; an entry's filesystem name, which occupies a mount *)
(* destination, need not be the name its metadata declares.  Which of      *)
(* several equal entries a message names is left out.                      *)
(***************************************************************************)
EXTENDS Naturals, Sequences, Functions

CONSTANTS
    Terminal,           \* the directories that roots resolve to
    NoTerminal,         \* of a root that is missing, broken or no directory
    Name,               \* comparison keys of the selected Skills
    NoName,
    Source,             \* canonical Skill directories
    NoSource,           \* of an entry that does not resolve
    Selected,           \* the source selected for each name
    Listings,           \* the possible contents of the terminals
    ScopeLists,         \* the possible roots of an adapter, in preflight order
    BackingStore,       \* the root that mounts are written through
    Reserved            \* SYSTEM_SKILL_NAMES

ScopeKinds == {"mounted", "ordinary", "CodexSystem", "ClaudeManaged"}
PathKinds == {"Directory", "DirectoryLink", "Unusable"}
Policies == {"error", "skip"}
Verdicts == {"undecided", "create", "reuse", "preserve", "conflict"}

\* An entry of a directory: the name a child would give its Skill and the
\* destination it occupies, either of which it may lack.
Entries == [declares : Name \cup {NoName}, occupies : Name \cup {NoName},
            kind : PathKinds, source : Source \cup {NoSource}]

Scopes == [kind : ScopeKinds, entry : STRING, terminal : Terminal \cup {NoTerminal}]

ASSUME NoTerminalIsNone == NoTerminal \notin Terminal
ASSUME NoNameIsNone == NoName \notin Name
ASSUME SelectedIsTyped == Selected \in [Name -> Source]
ASSUME ListingsAreTyped == Listings \subseteq [Terminal -> SUBSET Entries]
ASSUME RootsAreTyped == ScopeLists \subseteq Seq(Scopes)
ASSUME ReservedAreNames == Reserved \subseteq Name

VARIABLES
    listing,        \* the contents of the terminals
    roots,          \* every root the adapter inspected
    policy,         \* --conflict
    folding,        \* the roots still to be folded
    kept,           \* the scopes kept, each with the entries folded into it
    verdict         \* the action planned for each name

vars == <<listing, roots, policy, folding, kept, verdict>>
inputs == <<listing, roots, policy>>

Init ==
    /\ listing \in Listings
    /\ roots \in ScopeLists
    /\ policy \in Policies
    /\ folding = roots
    /\ kept = <<>>
    /\ verdict = [n \in Name |-> "undecided"]

----------------------------------------------------------------------------
(* Folding *)

\* Two roots that are guaranteed to give one inventory, with one authority.
CompatibleAlways(left, right) == TRUE
CompatibleTraversal(left, right) ==
    \A special \in {"CodexSystem", "ClaudeManaged"} : (left = special) <=> (right = special)

Shares(scope, i) ==
    /\ scope.terminal # NoTerminal
    /\ kept[i].scope.terminal = scope.terminal
    /\ CompatibleTraversal(kept[i].scope.kind, scope.kind)

\* The scope that survives of two: the one the plan writes through.
FirstSurvives(old, new) == old
Survivor(old, new) == IF new.entry = BackingStore /\ old.entry # BackingStore THEN new ELSE old

Folded(k, new) ==
    LET survivor == Survivor(k.scope, new)
        folded == IF survivor = new THEN k.scope ELSE new
    IN [scope |-> survivor, aliases |-> k.aliases \cup {folded.entry}]

Fold ==
    /\ folding # <<>>
    /\ folding' = Tail(folding)
    /\ LET scope == Head(folding)
           same == {i \in DOMAIN kept : Shares(scope, i)}
       IN \/ /\ same = {}
             /\ kept' = Append(kept, [scope |-> scope, aliases |-> {}])
          \/ \E i \in same : kept' = [kept EXCEPT ![i] = Folded(@, scope)]
    /\ UNCHANGED <<inputs, verdict>>

----------------------------------------------------------------------------
(* What a scope shows *)

Contents(scope) == IF scope.terminal = NoTerminal THEN {} ELSE listing[scope.terminal]

\* The bundled cache is read without following links and always has its own names.
Observed(scope) ==
    {e \in Contents(scope) : scope.kind = "CodexSystem" => e.kind # "DirectoryLink"}

ReservedEntry(n) == [declares |-> n, occupies |-> n, kind |-> "Directory", source |-> NoSource]

ExistingSkills(scope, n) ==
    LET declared == {e \in Observed(scope) : e.declares = n} IN
    IF scope.kind = "CodexSystem" /\ n \in Reserved /\ declared = {}
    THEN {ReservedEntry(n)}
    ELSE declared

DirectEntries(scope, n) == {e \in Contents(scope) : e.occupies = n}

----------------------------------------------------------------------------
(* The conflict table *)

Occupancy(e, source) ==
    CASE e.kind # "Unusable" /\ e.source = source -> "SameSource"
      [] e.kind = "DirectoryLink" /\ e.source # source -> "DifferentSource"
      [] e.kind = "Directory" /\ e.source # source -> "ProjectDirectory"
      [] OTHER -> "Unsupported"

Skippable == {"DifferentSource", "ProjectDirectory"}

\* The bundled cache may change before the child reads it, and a managed Skill
\* outranks whatever is mounted.
VisibleOccupancy(kind, e, source) ==
    LET plain == Occupancy(e, source) IN
    CASE kind = "CodexSystem" -> "Unsupported"
      [] kind = "ClaudeManaged" /\ plain # "SameSource" -> "Unsupported"
      [] OTHER -> plain

MostRestrictive(occupancies) ==
    IF "Unsupported" \in occupancies THEN "Unsupported"
    ELSE IF occupancies \cap Skippable # {} THEN "Skippable"
    ELSE IF "SameSource" \in occupancies THEN "SameSource"
    ELSE "None"

VisibleOccupant(n) ==
    MostRestrictive(UNION {
        {VisibleOccupancy(k.scope.kind, e, Selected[n]) : e \in ExistingSkills(k.scope, n)} :
            k \in Range(kept)})

MountScope == {k.scope : k \in {k \in Range(kept) : k.scope.entry = BackingStore}}

DirectOccupant(n) ==
    MostRestrictive(UNION {
        {Occupancy(e, Selected[n]) : e \in DirectEntries(s, n)} : s \in MountScope})

\* The first occupant that is not the selected source decides, what the child sees
\* before what lies at the destination.
Verdict(n) ==
    LET visible == VisibleOccupant(n)
        direct == DirectOccupant(n)
        foreign == {"Unsupported", "Skippable"}
        deciding == IF visible \in foreign THEN visible ELSE direct
    IN IF deciding \in foreign
       THEN IF deciding = "Skippable" /\ policy = "skip" THEN "preserve" ELSE "conflict"
       ELSE IF "SameSource" \in {visible, direct} THEN "reuse" ELSE "create"

\* The first conflict ends the planning.
Decide(n) ==
    /\ folding = <<>>
    /\ verdict[n] = "undecided"
    /\ "conflict" \notin Range(verdict)
    /\ verdict' = [verdict EXCEPT ![n] = Verdict(n)]
    /\ UNCHANGED <<inputs, folding, kept>>

Next == Fold \/ \E n \in Name : Decide(n)

Spec == Init /\ [][Next]_vars

----------------------------------------------------------------------------
(* Properties *)

TypeOK ==
    /\ folding \in Seq(Scopes)
    /\ \A k \in Range(kept) : k.scope \in Range(roots) /\ k.aliases \subseteq STRING
    /\ verdict \in [Name -> Verdicts]

\* Every Skill of a name, in every root the child reads, before anything is folded.
Declared(n) == UNION {{[kind |-> r.kind, skill |-> e] : e \in ExistingSkills(r, n)} : r \in Range(roots)}

Lies(n) == UNION {DirectEntries(r, n) : r \in {r \in Range(roots) : r.entry = BackingStore}}

\* A name is mounted or reused only if the selected source is all the child can see
\* of that name in any root, and none of it lies in the bundled cache: folding and
\* merging hide no foreign Skill.
\* (dedupe_scopes_by_terminal, agent/mod.rs:434-478; visible_occupant, plan.rs:137-175)
NothingForeignIsOverlooked ==
    \A n \in Name : verdict[n] \in {"create", "reuse"} =>
        \A d \in Declared(n) :
            /\ d.kind # "CodexSystem"
            /\ d.skill.kind # "Unusable"
            /\ d.skill.source = Selected[n]

\* A link is planned only where nothing of that filesystem name lies, whatever the
\* entries declare. The transaction relies on it: its precondition is a missing path.
\* (apply_conflict_policy, plan.rs:68-107)
MountsLandOnNothing ==
    \A n \in Name : verdict[n] = "create" => Lies(n) = {} /\ Declared(n) = {}

\* Skipping keeps a Skill the child will really have: never one of the bundled cache or
\* below a managed one, and never a name that nothing foreign holds.
\* (visible_occupant, plan.rs:147-161)
SkippedIsUsable ==
    \A n \in Name : verdict[n] = "preserve" =>
        /\ policy = "skip"
        /\ \A d \in Declared(n) :
               /\ d.kind # "CodexSystem"
               /\ d.kind = "ClaudeManaged" => d.skill.source = Selected[n]
               /\ d.skill.kind # "Unusable"
        /\ \E e \in {d.skill : d \in Declared(n)} \cup Lies(n) :
               e.kind # "Unusable" /\ e.source # Selected[n]

=============================================================================
