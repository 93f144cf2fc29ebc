------------------------------ MODULE Catalog ------------------------------
(***************************************************************************)
(* From the ordered sources of a command line to one Skill for each logical*)
(* name: `resolve_catalog` in catalog/mod.rs.  Every source is prepared    *)
(* before any is scanned, the sources are folded with the last one         *)
(* winning, selected Skills that are one directory under two names are     *)
(* rejected, and each selected Skill is validated.  Any failure ends the   *)
(* resolution; a shadowed candidate is never tried instead.                *)
(*                                                                         *)
(* Keys are compared without case, so one source can hold a key twice.     *)
(* What makes a candidate a valid Skill is in Metadata.  Codex and Claude  *)
(* Code resolve a catalog; OMP hands whole directories over and resolves   *)
(* none (agent/omp/mod.rs:134-140).                                        *)
(***************************************************************************)
EXTENDS Naturals, Sequences, Metadata

CONSTANTS
    Key,                \* comparison keys, a set of naturals in their order
    KeyOf,              \* the key of each name
    Canonical,          \* canonical directories
    NoCanonical,        \* of a candidate that cannot be canonicalized
    Commands            \* what may be asked for, and what is on disk

Candidates == [name : RawName, canonical : Canonical \cup {NoCanonical}]
Sources == [accessible : BOOLEAN, candidates : SUBSET Candidates]

ASSUME KeysAreOrdered == Key \subseteq Nat /\ KeyOf \in [RawName -> Key]
ASSUME NoCanonicalIsNone == NoCanonical \notin Canonical
ASSUME CommandsAreTyped ==
    Commands \subseteq [sources : Seq(Sources), skills : [Canonical -> Skills],
                        policy : CatalogPolicies, level : Levels]
\* The command line demands at least one --skills-dir (cli.rs).
ASSUME SomethingIsAskedFor == \A command \in Commands : command.sources # <<>>

VARIABLES
    sources,        \* the occurrences, in command-line order
    skills,         \* what each canonical directory holds
    catalogPolicy,  \* of the adapter
    level,          \* of validation
    phase,          \* "prepare", "scan", "fold", "alias", "validate", or a final one
    next,           \* the occurrence, or the key, that the phase handles next
    selected,       \* the candidate selected for each key, and where it came from
    shadowed,       \* what each selection overrode, in order
    validated       \* the keys whose selection passed

catalogVars == <<sources, skills, catalogPolicy, level, phase, next, selected, shadowed, validated>>
given == <<sources, skills, catalogPolicy, level>>
folded == <<selected, shadowed>>

Failures == {"MissingInput", "EmptyCatalog", "DuplicateLogicalName", "CanonicalAlias", "InvalidSkill"}

CatalogInit ==
    /\ \E command \in Commands :
           /\ sources = command.sources
           /\ skills = command.skills
           /\ catalogPolicy = command.policy
           /\ level = command.level
    /\ phase = "prepare"
    /\ next = 1
    /\ selected = <<>>
    /\ shadowed = [k \in Key |-> <<>>]
    /\ validated = {}

----------------------------------------------------------------------------
(* Preparing and scanning *)

\* Goes on with the next occurrence, or with the next phase after the last.
Continue(after) ==
    IF next < Len(sources) THEN phase' = phase /\ next' = next + 1 ELSE phase' = after /\ next' = 1

Fail(failure) == phase' = failure /\ UNCHANGED next

PrepareSource ==
    /\ phase = "prepare"
    /\ IF sources[next].accessible THEN Continue("scan") ELSE Fail("MissingInput")
    /\ UNCHANGED <<given, folded, validated>>

\* An accessible source is a Skill, or a directory of Skills.
ScanSource ==
    /\ phase = "scan"
    /\ IF sources[next].candidates # {} THEN Continue("fold") ELSE Fail("EmptyCatalog")
    /\ UNCHANGED <<given, folded, validated>>

----------------------------------------------------------------------------
(* Folding *)

Holds(source, k) == {c \in source.candidates : KeyOf[c.name] = k}

\* (Mutant: names that differ in case are told apart.)
RepeatsName(source) == \E c, d \in source.candidates : c # d /\ c.name = d.name
HoldsTwice(source) == \E c, d \in source.candidates : c # d /\ KeyOf[c.name] = KeyOf[d.name]

KeysIn(source) == {KeyOf[c.name] : c \in source.candidates}

ShadowReason(previous, replacement) ==
    IF previous.canonical \in Canonical /\ previous.canonical = replacement.canonical
    THEN "RepeatedCanonicalSource"
    ELSE "DifferentSourceOverride"

Shadow(ordinal, previous, replacement) ==
    [ordinal |-> ordinal, reason |-> ShadowReason(previous, replacement)]

FirstWins(ordinal) ==
    [k \in KeysIn(sources[ordinal]) \cup DOMAIN selected |->
        IF k \in DOMAIN selected
        THEN selected[k]
        ELSE [ordinal |-> ordinal, candidate |-> CHOOSE c \in Holds(sources[ordinal], k) : TRUE]]

\* The only candidate of a source for a key replaces the selection.
LastWins(ordinal) ==
    [k \in KeysIn(sources[ordinal]) \cup DOMAIN selected |->
        IF k \in KeysIn(sources[ordinal])
        THEN [ordinal |-> ordinal, candidate |-> CHOOSE c \in Holds(sources[ordinal], k) : TRUE]
        ELSE selected[k]]

Overridden(k, chosen) ==
    Append(shadowed[k], Shadow(selected[k].ordinal, selected[k].candidate, chosen[k].candidate))

FoldSource ==
    /\ phase = "fold"
    /\ IF HoldsTwice(sources[next])
       THEN Fail("DuplicateLogicalName") /\ UNCHANGED folded
       ELSE LET chosen == LastWins(next) IN
            /\ Continue("alias")
            /\ selected' = chosen
            /\ shadowed' = [k \in Key |->
                   IF k \in KeysIn(sources[next]) \cap DOMAIN selected
                   THEN Overridden(k, chosen)
                   ELSE shadowed[k]]
    /\ UNCHANGED <<given, validated>>

----------------------------------------------------------------------------
(* Aliases and validation *)

\* (Mutant: an override is trusted, only directories of one source are compared.)
AliasedInOneSource ==
    \E k, l \in DOMAIN selected :
        /\ k # l
        /\ selected[k].ordinal = selected[l].ordinal
        /\ selected[k].candidate.canonical \in Canonical
        /\ selected[k].candidate.canonical = selected[l].candidate.canonical

Aliased ==
    \E k, l \in DOMAIN selected :
        /\ k # l
        /\ selected[k].candidate.canonical \in Canonical
        /\ selected[k].candidate.canonical = selected[l].candidate.canonical

RejectCanonicalAliases ==
    /\ phase = "alias"
    /\ next' = next
    /\ phase' = IF Aliased THEN "CanonicalAlias" ELSE "validate"
    /\ UNCHANGED <<given, folded, validated>>

\* In the order of the keys. A candidate that could not be canonicalized fails here.
FirstOf(keys) == CHOOSE k \in keys : \A l \in keys : k <= l

Passes(candidate, p, l) ==
    /\ candidate.canonical \in Canonical
    /\ Accepts(skills[candidate.canonical], candidate.name, p, l)

Valid(k) == Passes(selected[k].candidate, catalogPolicy, level)

ValidateSelected ==
    /\ phase = "validate"
    /\ DOMAIN selected # validated
    /\ LET k == FirstOf(DOMAIN selected \ validated) IN
       IF Valid(k)
       THEN validated' = validated \cup {k} /\ UNCHANGED phase
       ELSE phase' = "InvalidSkill" /\ UNCHANGED validated
    /\ UNCHANGED <<given, folded, next>>

Resolve ==
    /\ phase = "validate"
    /\ DOMAIN selected = validated
    /\ phase' = "resolved"
    /\ UNCHANGED <<given, folded, next, validated>>

CatalogNext ==
    \/ PrepareSource
    \/ ScanSource
    \/ FoldSource
    \/ RejectCanonicalAliases
    \/ ValidateSelected
    \/ Resolve

CatalogSpec == CatalogInit /\ [][CatalogNext]_catalogVars

----------------------------------------------------------------------------
(* Properties *)

\* The occurrences that hold a key, and the last of them on the command line.
Holders(k) == {i \in DOMAIN sources : Holds(sources[i], k) # {}}
Rightmost(k) == CHOOSE i \in Holders(k) : \A j \in Holders(k) : j <= i

CandidateAt(i, k) == CHOOSE c \in Holds(sources[i], k) : TRUE

\* A resolved catalog has the rightmost candidate of every key that any source holds,
\* and it is a valid one: an invalid winner fails the resolution instead of revealing
\* what it shadows.  No other could have been meant: no source, overridden or not, has
\* two names of that key, and no other key leads to the winner's directory, whichever
\* sources the two came from. (fold_sources, resolve.rs:17-60; validate_resolutions,
\* 61-85; reject_canonical_aliases, 98-119)
RightmostOrNothing ==
    phase = "resolved" => \A k \in Key : Holders(k) # {} =>
        LET winner == CandidateAt(Rightmost(k), k) IN
        /\ k \in DOMAIN selected
        /\ selected[k] = [ordinal |-> Rightmost(k), candidate |-> winner]
        /\ Passes(winner, catalogPolicy, level)
        /\ \A i \in Holders(k) : \A c \in Holds(sources[i], k) : c = CandidateAt(i, k)
        /\ \A l \in DOMAIN selected \ {k} : selected[l].candidate.canonical # winner.canonical

\* The record of a selection names every source it overrode, in order, each against the
\* one that directly replaced it. (fold_sources, resolve.rs:41-53; shadow_reason, 87-97)
ShadowsAreTheHistory ==
    phase \in {"alias", "validate", "resolved"} => \A k \in Key :
        LET holders == SelectSeq([i \in DOMAIN sources |-> i], LAMBDA i : i \in Holders(k)) IN
        shadowed[k] = [i \in 1..(IF holders = <<>> THEN 0 ELSE Len(holders) - 1) |->
            Shadow(holders[i], CandidateAt(holders[i], k), CandidateAt(holders[i + 1], k))]

WeakerThan(p) == {w \in CatalogPolicies : \A r \in DOMAIN p : w[r] => p[r]}

\* "A policy may only strengthen an Agent's compatibility requirements" (domain.rs:416):
\* a catalog that resolves for an agent resolves for every agent that demands less.
PolicyOnlyStrengthens ==
    phase = "resolved" => \A w \in WeakerThan(catalogPolicy), k \in DOMAIN selected :
        Passes(selected[k].candidate, w, level)

=============================================================================
