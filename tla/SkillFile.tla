----------------------------- MODULE SkillFile -----------------------------
(***************************************************************************)
(* The second walk of the program, `resolve_terminal` in                   *)
(* catalog/validate.rs: where the SKILL.md entry of a selected Skill leads,*)
(* and whether that is a regular file inside the Skill's own directory.    *)
(* It shares the layout of LinkWalk and none of its loop: entries are      *)
(* remembered by path only, and an absent entry is an error.               *)
(***************************************************************************)
EXTENDS LinkWalk

VARIABLES
    inside,     \* the entries below the canonical Skill directory
    where,      \* current
    seen,       \* the paths inspected so far
    links,      \* the targets followed, in order
    outcome     \* what validate_candidate makes of it, or "walking"

skillVars == <<inside, where, seen, links, outcome>>

Outcomes == {"accepted", "not_a_file", "outside", "broken", "cycle", "too_deep", "unreadable"}

SkillInit ==
    /\ inside \in SUBSET Entry
    /\ where = Start
    /\ seen = {}
    /\ links = <<>>
    /\ outcome = "walking"

Validated(verdict) ==
    /\ outcome' = verdict
    /\ UNCHANGED <<inside, where, seen, links>>

\* The loop runs MaxLinkDepth times, and each link takes an iteration of its own.
Iterates == outcome = "walking" /\ Len(links) < MaxLinkDepth

Remembered == seen \cup {where}

ReachCycle ==
    /\ Iterates
    /\ where \in seen
    /\ Validated("cycle")

ReachNothing ==
    /\ Iterates
    /\ where \notin seen
    /\ names[where] = NoEntry
    /\ Validated("broken")

FollowSkillLink ==
    /\ Iterates
    /\ where \notin seen
    /\ IsLink(where)
    /\ where' = Target(where)
    /\ links' = Append(links, Target(where))
    /\ seen' = Remembered
    /\ UNCHANGED <<inside, outcome>>

ExceedDepth ==
    /\ outcome = "walking"
    /\ ~Iterates
    /\ Validated("too_deep")

ReachTerminalAnywhere ==
    /\ Iterates
    /\ where \notin seen
    /\ Is(where, "other") \/ Is(where, "directory")
    /\ Validated(IF Is(where, "directory") THEN "not_a_file" ELSE "accepted")

\* The first entry that is no link is the terminal; it must be a regular file, and
\* below the Skill's directory.
ReachTerminal ==
    /\ Iterates
    /\ where \notin seen
    /\ Is(where, "other") \/ Is(where, "directory")
    /\ Validated(IF Is(where, "directory") THEN "not_a_file"
                ELSE IF names[where] \in inside THEN "accepted" ELSE "outside")

\* An entry that cannot be inspected, read as a link, or canonicalized.
Unreadable ==
    /\ Iterates
    /\ where \notin seen
    /\ Validated("unreadable")

SkillNext ==
    \/ ReachCycle
    \/ ReachNothing
    \/ FollowSkillLink
    \/ ExceedDepth
    \/ ReachTerminal
    \/ Unreadable

----------------------------------------------------------------------------
(* Either walk over one layout *)

ChainIsIdle == state = "walking" /\ hops = <<>>
SkillIsIdle == outcome = "walking" /\ links = <<>>

WalksNext ==
    \/ SkillIsIdle /\ WalkNext /\ UNCHANGED skillVars
    \/ ChainIsIdle /\ SkillNext /\ UNCHANGED walkVars

WalksInit == WalkInit /\ SkillInit

WalksSpec == WalksInit /\ [][WalksNext]_<<walkVars, skillVars>>

----------------------------------------------------------------------------
(* Properties *)

\* The path inspected at step i of the walk.
SkillStep(i) == IF i = 0 THEN Start ELSE links[i]

\* The file whose text decides the Skill's name is the one the chain on disk ends at,
\* a regular file below the Skill's directory, and every rejection names what is
\* there; in particular a cycle is one. (validate.rs:71-99, 146-173)
AcceptedIsOwn ==
    LET end == SkillStep(Len(links)) IN
    /\ \A i \in 1..Len(links) : IsLink(SkillStep(i - 1)) /\ links[i] = Target(SkillStep(i - 1))
    /\ outcome = "accepted" => Is(end, "other") /\ names[end] \in inside
    /\ outcome = "outside" => Is(end, "other") /\ names[end] \notin inside
    /\ outcome = "broken" => names[end] = NoEntry
    /\ outcome = "cycle" => \E i \in 0..(Len(links) - 1) : SkillStep(i) = end
=============================================================================
