------------------------------ MODULE Metadata ------------------------------
(***************************************************************************)
(* Whether a selected directory is a Skill: `validate_candidate` in        *)
(* catalog/validate.rs under the policy of the adapter and the level of the*)
(* command line.  A directory is known by what the checks tell apart about *)
(* its SKILL.md; where that entry leads is modelled in SkillFile and is one*)
(* fact here.                                                              *)
(***************************************************************************)
CONSTANTS
    RawName,    \* names as stored, of entries and in frontmatter
    Portable    \* those that SkillName::parse accepts

ASSUME PortableAreNames == Portable \subseteq RawName
ASSUME AbsenceIsNoName == {"absent", "blank"} \cap RawName = {}

DeclaredNames == RawName \cup {"absent", "blank"}
Descriptions == {"absent", "blank", "present"}
Levels == {"None", "Basic", "Strict"}

Skills == [
    exact : BOOLEAN,        \* the entry is spelled SKILL.md and is itself a regular file
    own : BOOLEAN,          \* it leads to a regular file below the directory, no mount does
    opens : BOOLEAN,
    parses : BOOLEAN,
    name : DeclaredNames,
    description : Descriptions]

CatalogPolicies == [
    requires_exact_skill_md_entry : BOOLEAN,
    always_parses_metadata : BOOLEAN,
    requires_name : BOOLEAN,
    requires_description : BOOLEAN,
    requires_matching_name : BOOLEAN]

\* OMP demands nothing, and selects no Skill by it.
Omp == [p \in {"requires_exact_skill_md_entry", "always_parses_metadata", "requires_name",
               "requires_description", "requires_matching_name"} |-> FALSE]
Codex == [p \in DOMAIN Omp |-> TRUE]
Claude == [Omp EXCEPT !.requires_description = TRUE, !.requires_matching_name = TRUE]

----------------------------------------------------------------------------

\* No metadata is read.
OnlyOpens(p, l) == l = "None" /\ ~p.always_parses_metadata

NeedsName(p, l) == l = "Strict" \/ p.requires_name

MetadataAccepted(skill, mount_name, p, l) ==
    /\ NeedsName(p, l) => skill.name \in RawName
    /\ p.requires_description => skill.description = "present"
    /\ p.requires_matching_name => skill.name \in {"absent", mount_name}
    /\ l = "Strict" => skill.name \in Portable \cup {"absent"}

Accepts(skill, mount_name, p, l) ==
    /\ mount_name \in Portable
    /\ p.requires_exact_skill_md_entry => skill.exact
    /\ skill.own
    /\ skill.opens
    /\ ~OnlyOpens(p, l) => skill.parses /\ MetadataAccepted(skill, mount_name, p, l)
=============================================================================
