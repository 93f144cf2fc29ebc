----------------------------- MODULE Discovery -----------------------------
(***************************************************************************)
(* The recursive inventory of one Codex discovery root,                    *)
(* `inspect_codex_scope` in agent/codex.rs: a walk with a stack that visits*)
(* every physical directory once, descends at most MaxDiscoveryDepth levels*)
(* and fails closed at its other bounds.  What it finds decides whether the*)
(* child can already see a Skill of a selected name.                       *)
(*                                                                         *)
(* A directory stands for its canonical terminal.  An entry is the         *)
(* directory itself or a link to one; an entry that leads to NoDirectory   *)
(* is a file, or a link that leads nowhere.  The layout does not change    *)
(* during the walk.  The byte bound of the response refuses as the entry   *)
(* bound does and is left out.                                             *)
(***************************************************************************)
EXTENDS Naturals, Sequences, FiniteSets

CONSTANTS
    Directory,
    Root,               \* the canonical directory of the discovery root
    NoDirectory,
    Layouts,            \* the possible sequences of entries of each directory, by path
    SkillFiles,         \* the possible SKILL.md entries of each directory
    MaxDiscoveryDepth,          \* 6 in the code
    MaxDiscoveryDirectories,    \* 2000 in the code
    MaxDiscoveryEntries         \* 20000 in the code

\* A SKILL.md the child loads, one it rejects as well, one that cannot be read
\* completely, and one that is no regular file.
SkillKinds == {"none", "loaded", "malformed", "incomplete", "special"}

DirectoryEntry == [to : Directory \cup {NoDirectory}, link : BOOLEAN, hidden : BOOLEAN]

ASSUME RootIsADirectory == Root \in Directory
ASSUME NoDirectoryIsNone == NoDirectory \notin Directory
ASSUME LayoutsAreTyped == Layouts \subseteq [Directory -> Seq(DirectoryEntry)]
ASSUME SkillFilesAreTyped == SkillFiles \subseteq [Directory -> SkillKinds]
ASSUME BoundsAreNatural ==
    /\ MaxDiscoveryDepth \in Nat
    /\ MaxDiscoveryDirectories \in Nat
    /\ MaxDiscoveryEntries \in Nat

VARIABLES
    entries,        \* the layout
    skill,          \* the SKILL.md of each directory
    followsLinks,   \* every scope kind but CodexSystem
    pending,        \* the stack, its top first: a directory and its depth
    observed,       \* the terminals visited, also the scope's observed_directories
    found,          \* the directories whose Skill entered the inventory
    inspected,      \* inspected_entries
    expanded,       \* history: the directories visited above the depth bound
    progress        \* "walking", "complete" or "refused"

inventoryVars == <<entries, skill, followsLinks, pending, observed, found, inspected, expanded, progress>>
tree == <<entries, skill, followsLinks>>

InventoryInit ==
    /\ entries \in Layouts
    /\ skill \in SkillFiles
    /\ followsLinks \in BOOLEAN
    /\ pending = <<[dir |-> Root, depth |-> 0]>>
    /\ observed = {}
    /\ found = {}
    /\ inspected = 0
    /\ expanded = {}
    /\ progress = "walking"

----------------------------------------------------------------------------
(* What a directory leads to *)

Traversable(e) ==
    /\ e.to # NoDirectory
    /\ ~e.hidden
    /\ e.link => followsLinks

\* Which entries of a directory are descended into, in path order.
Traversed(d) == {i \in DOMAIN entries[d] : Traversable(entries[d][i])}

Enumerates(f, I) ==
    /\ \A i, j \in DOMAIN f : i < j => f[i] < f[j]
    /\ \A k \in I : \E i \in DOMAIN f : f[i] = k
InOrder(I) == CHOOSE f \in [1..Cardinality(I) -> I] : Enumerates(f, I)

\* The children the stack receives.
Children(d, depth) ==
    LET at == InOrder(Traversed(d))
    IN [i \in DOMAIN at |-> [dir |-> entries[d][at[i]].to, depth |-> depth + 1]]

Descends(depth) == depth < MaxDiscoveryDepth

Top == Head(pending)

----------------------------------------------------------------------------
(* One iteration of the walk *)

\* A directory that another path has led to before.
Repeat ==
    /\ progress = "walking"
    /\ pending # <<>>
    /\ Top.dir \in observed
    /\ pending' = Tail(pending)
    /\ UNCHANGED <<tree, observed, found, inspected, expanded, progress>>

Visits ==
    /\ progress = "walking"
    /\ pending # <<>>
    /\ Top.dir \notin observed

\* The bounds under which the visit of a directory completes.
Bounded(d) ==
    /\ Cardinality(observed \cup {d}) <= MaxDiscoveryDirectories
    /\ inspected + Len(entries[d]) <= MaxDiscoveryEntries
    /\ skill[d] # "incomplete"

PushNothing(d, depth) == <<>>
Push(d, depth) == IF Descends(depth) THEN Children(d, depth) ELSE <<>>

Visit ==
    LET d == Top.dir IN
    /\ Visits
    /\ Bounded(d)
    /\ observed' = observed \cup {d}
    /\ found' = IF skill[d] = "loaded" THEN found \cup {d} ELSE found
    /\ inspected' = inspected + Len(entries[d])
    /\ pending' = Push(d, Top.depth) \o Tail(pending)
    /\ expanded' = IF Top.depth < MaxDiscoveryDepth THEN expanded \cup {d} ELSE expanded
    /\ UNCHANGED <<tree, progress>>

\* A bound is crossed, or a SKILL.md cannot be read completely: no inventory at all.
Refuse ==
    /\ Visits
    /\ ~Bounded(Top.dir)
    /\ progress' = "refused"
    /\ UNCHANGED <<tree, pending, observed, found, inspected, expanded>>

FinishInventory ==
    /\ progress = "walking"
    /\ pending = <<>>
    /\ progress' = "complete"
    /\ UNCHANGED <<tree, pending, observed, found, inspected, expanded>>

InventoryNext == Repeat \/ Visit \/ Refuse \/ FinishInventory

InventorySpec == InventoryInit /\ [][InventoryNext]_inventoryVars

----------------------------------------------------------------------------
(* What an entry leads to *)

Below(d) ==
    {c \in Directory : \E i \in DOMAIN entries[d] :
        LET e == entries[d][i] IN e.to = c /\ ~e.hidden /\ (e.link => followsLinks)}

----------------------------------------------------------------------------
(* Properties *)

\* Nothing an expanded directory leads to is lost: it was visited or is on the stack,
\* and at the end of a walk that was not refused it has been visited and its Skill is
\* in the inventory. (inspect_codex_scope, codex.rs:354-383)
NothingDropped ==
    /\ \A d \in expanded :
           Below(d) \subseteq observed \cup {pending[i].dir : i \in DOMAIN pending}
    /\ progress = "complete" =>
           \A d \in expanded : \A c \in Below(d) : skill[c] = "loaded" => c \in found

\* The directories that some way of at most n levels leads to.
WithinDepth[n \in 0..MaxDiscoveryDepth] ==
    IF n = 0 THEN {Root}
    ELSE WithinDepth[n - 1] \cup UNION {Below(d) : d \in WithinDepth[n - 1]}

\* An inventory that is not refused holds every Skill within the depth bound: the adapter
\* "SHALL ... use the pinned traversal bounds ... and fail closed when its bounded inventory
\* cannot be completed" (docs/adr/0021:86-89). The walk marks a directory as visited at the
\* depth it is first met at, which need not be the smallest (codex.rs:366, 531).
InventoryIsComplete ==
    progress = "complete" =>
        \A c \in WithinDepth[MaxDiscoveryDepth] : skill[c] = "loaded" => c \in found
=============================================================================
