------------------------------ MODULE LinkWalk ------------------------------
(***************************************************************************)
(* The bounded walk along a chain of directory links, `resolve_chain` in   *)
(* link/resolve.rs, that every planning decision starts from: whether an   *)
(* entry is absent, a directory, a link to one, or something planning must *)
(* not step over.  The walk inspects one entry at a time without following *)
(* it; the operating system never resolves the chain for it.               *)
(*                                                                         *)
(* A path names at most one entry, and two paths may name the same one     *)
(* (through a link in an ancestor).  The layout is chosen at the start and *)
(* stays: a walk is evidence for a plan, which is rebuilt under the locks. *)
(***************************************************************************)
EXTENDS Naturals, Sequences

CONSTANTS
    Path,           \* normalized paths
    Entry,          \* entries of the file system
    Identified,     \* the entries whose platform identity the host reports
    Start,          \* the path that is classified
    MaxLinkDepth,   \* MAX_LINK_DEPTH, 40 in the code
    NoEntry         \* what a path names that names nothing

Bodies == {"directory", "other", "opaque"}

ASSUME StartIsAPath == Start \in Path
ASSUME SomeAreIdentified == Identified \subseteq Entry
ASSUME DepthIsNatural == MaxLinkDepth \in Nat
ASSUME NothingIsNoEntry == NoEntry \notin Entry
ASSUME BodiesAreNoPaths == Bodies \cap Path = {}

VARIABLES
    names,      \* the entry each path names
    body,       \* what an entry is; for a link, the path it resolves to
    path,       \* current_path
    visited,    \* the keys of the entries inspected so far
    hops,       \* the targets followed, in order
    state       \* the verdict, "refused" for an error, or "walking"

walkVars == <<names, body, path, visited, hops, state>>
layout == <<names, body>>

ChainState == {"missing", "directory", "link_to_directory", "broken", "cyclic",
               "depth_exceeded", "unsupported"}

IsLink(p) == names[p] # NoEntry /\ body[names[p]] \in Path
Target(p) == body[names[p]]
Is(p, b) == names[p] # NoEntry /\ body[names[p]] = b

\* What an inspected entry is remembered as: its identity where there is one.
VisitKey(p) ==
    IF names[p] \in Identified THEN <<"identity", names[p]>> ELSE <<"path", p>>

WalkInit ==
    /\ names \in [Path -> Entry \cup {NoEntry}]
    /\ body \in [Entry -> Path \cup Bodies]
    /\ path = Start
    /\ visited = {}
    /\ hops = <<>>
    /\ state = "walking"

----------------------------------------------------------------------------
(* One iteration of the loop: an inspected entry, and what follows from it *)

InBudgetExclusive == Len(hops) < MaxLinkDepth
InBudget == Len(hops) <= MaxLinkDepth

\* An entry that was not inspected before.
Fresh ==
    /\ state = "walking"
    /\ InBudget
    /\ VisitKey(path) \notin visited

Ends(verdict) ==
    /\ state' = verdict
    /\ visited' = visited \cup {VisitKey(path)}
    /\ UNCHANGED <<layout, path, hops>>

Revisit ==
    /\ state = "walking"
    /\ InBudget
    /\ VisitKey(path) \in visited
    /\ Ends("cyclic")

NothingThere ==
    /\ Fresh
    /\ names[path] = NoEntry
    /\ Ends(IF hops = <<>> THEN "missing" ELSE "broken")

Arrive ==
    /\ Fresh
    /\ Is(path, "directory")
    /\ Ends(IF hops = <<>> THEN "directory" ELSE "link_to_directory")

\* A file, anything else, or a link whose target cannot be read.
NotADirectory ==
    /\ Fresh
    /\ Is(path, "other") \/ Is(path, "opaque")
    /\ Ends("unsupported")

Follow ==
    /\ Fresh
    /\ IsLink(path)
    /\ path' = Target(path)
    /\ hops' = Append(hops, Target(path))
    /\ visited' = visited \cup {VisitKey(path)}
    /\ UNCHANGED <<layout, state>>

\* The loop ran out: one link more than the bound was followed.
RunOut ==
    /\ state = "walking"
    /\ ~InBudget
    /\ state' = "depth_exceeded"
    /\ UNCHANGED <<layout, path, visited, hops>>

\* The host refuses to describe an entry, or the directory's canonical path.
InspectFails ==
    /\ state = "walking"
    /\ state' = "refused"
    /\ UNCHANGED <<layout, path, visited, hops>>

WalkNext ==
    \/ Revisit
    \/ NothingThere
    \/ Arrive
    \/ NotADirectory
    \/ Follow
    \/ RunOut
    \/ InspectFails

WalkSpec == WalkInit /\ [][WalkNext]_walkVars

----------------------------------------------------------------------------
(* Properties *)

WalkTypeOK ==
    /\ names \in [Path -> Entry \cup {NoEntry}]
    /\ body \in [Entry -> Path \cup Bodies]
    /\ path \in Path
    /\ hops \in Seq(Path)
    /\ state \in ChainState \cup {"walking", "refused"}

\* The path inspected at step i of the walk.
Step(i) == IF i = 0 THEN Start ELSE hops[i]
Steps == 0..Len(hops)

\* The same entry was inspected twice: it leads to itself, whatever the path.
Loops == \E i \in Steps : i < Len(hops) /\ VisitKey(Step(i)) = VisitKey(Step(Len(hops)))

\* The hops are the chain that is on disk: each was read from the link before it.
HopsAreOnDisk ==
    \A i \in 1..Len(hops) : IsLink(Step(i - 1)) /\ hops[i] = Target(Step(i - 1))

\* The verdict is what the chain on disk is, for every layout: a cycle only where
\* the chain returns to an inspected entry, a directory only at the end of at most
\* MaxLinkDepth links, and "too deep" only for a chain of more links than that, none
\* of which was met before. (resolve_chain, link/resolve.rs:143-201)
VerdictIsTrue ==
    LET end == Step(Len(hops)) IN
    /\ HopsAreOnDisk
    /\ state = "missing" => names[Start] = NoEntry /\ hops = <<>>
    /\ state = "directory" => Is(Start, "directory") /\ hops = <<>>
    /\ state = "link_to_directory" => Is(end, "directory") /\ Len(hops) \in 1..MaxLinkDepth
    /\ state = "broken" => names[end] = NoEntry /\ Len(hops) \in 1..MaxLinkDepth
    /\ state = "unsupported" =>
           names[end] # NoEntry /\ body[names[end]] \in {"other", "opaque"} /\ Len(hops) <= MaxLinkDepth
    /\ state = "cyclic" => Loops
    /\ state = "depth_exceeded" =>
           Len(hops) = MaxLinkDepth + 1 /\ \A i, j \in 0..MaxLinkDepth :
               VisitKey(Step(i)) = VisitKey(Step(j)) => i = j
=============================================================================
