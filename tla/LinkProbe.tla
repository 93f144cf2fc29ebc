----------------------------- MODULE LinkProbe -----------------------------
(***************************************************************************)
(* The link probe of `asm doctor` (operator/doctor.rs): a directory in the *)
(* temporary directory, a source with a sentinel file in it and a link to  *)
(* the source, each created, verified and removed again, and the finding   *)
(* that comes of it. Any call may fail, and before as well as after it had *)
(* its effect; other programs delete, replace and add entries meanwhile.   *)
(***************************************************************************)
EXTENDS Naturals

CONSTANTS
    MaxFailures,    \* bounds the calls that fail
    MaxMeddling     \* bounds what other programs do

ASSUME ProbeBounds == MaxFailures \in Nat /\ MaxMeddling \in Nat

VARIABLES
    mode,       \* LinkMode and host: "symlink", or "windows_symlink" or "junction" there
    stage,      \* where probe_link_capability is
    there,      \* of each entry: "none", "ours" or somebody else's, "foreign"
    contents,   \* of the sentinel: "partial", "whole" or "edited"
    others,     \* the directories that hold an entry of another program
    known,      \* what cleanup_probe is given beside the root
    refused,    \* ProbeFailureKind::SymlinkPrivilegeUnavailable
    errors,     \* the entries cleanup_probe complains of
    finding,    \* "none", "aborted", or a FindingSeverity
    mishaps     \* [failures, meddling]

probeVars == <<mode, stage, there, contents, others, known, refused, errors, finding, mishaps>>

Directories == {"root", "source"}
ProbeEntries == Directories \cup {"sentinel", "link"}
Holder(e) == IF e = "sentinel" THEN "source" ELSE "root"

Within(d) == {e \in ProbeEntries \ {"root"} : Holder(e) = d /\ there[e] # "none"}
IsEmpty(d) == Within(d) = {} /\ d \notin others

\* Our directory is still the one that was created.
Reachable(e) == e = "root" \/ there[Holder(e)] # "none"

ProbeTypeOK ==
    /\ mode \in {"symlink", "windows_symlink", "junction"}
    /\ there \in [ProbeEntries -> {"none", "ours", "foreign"}]
    /\ contents \in {"none", "partial", "whole", "edited"}
    /\ others \subseteq Directories /\ errors \subseteq ProbeEntries
    /\ known \subseteq {"source", "sentinel", "link"}
    /\ refused \in BOOLEAN
    /\ finding \in {"none", "aborted", "PASS", "WARN", "FAIL"}
    /\ mishaps.failures \in 0 .. MaxFailures /\ mishaps.meddling \in 0 .. MaxMeddling

ProbeAt(start) ==
    /\ mode \in {"symlink", "windows_symlink", "junction"}
    /\ stage = start
    /\ there = [e \in ProbeEntries |-> "none"]
    /\ contents = "none" /\ others = {} /\ known = {} /\ refused = FALSE
    /\ errors = {} /\ finding = "none"
    /\ mishaps = [failures |-> 0, meddling |-> 0]

ProbeInit == ProbeAt("root")

CanFail == mishaps.failures < MaxFailures
Failure == mishaps' = [mishaps EXCEPT !.failures = @ + 1]

Appears(e) == there' = [there EXCEPT ![e] = "ours"]
Vanishes(e) == there' = [there EXCEPT ![e] = "none"]

\* Every failure of a later step cleans up with what it knows.
Abandon == stage' = "unlink" /\ finding' = "aborted"
Proceed(next) == stage' = next /\ UNCHANGED finding

-----------------------------------------------------------------------------
(* create_probe_directories and create_probe_sentinel.                       *)

Exclusive(e) == Reachable(e) /\ there[e] = "none"

\* A directory may exist although its creation fails: what inspects it afterwards failed.
CreateRoot ==
    /\ stage = "root"
    /\ \/ Appears("root") /\ Proceed("restrict_root") /\ UNCHANGED mishaps
       \/ /\ CanFail /\ Failure
          /\ (Appears("root") \/ UNCHANGED there)
          /\ stage' = "over" /\ finding' = "FAIL"
    /\ UNCHANGED <<mode, contents, others, known, refused, errors>>

\* restrict_to_owner; it does nothing on Windows.
RestrictToOwner(here, e, next) ==
    LET works == mode # "symlink" \/ there[e] # "none" IN
    /\ stage = here
    /\ \/ works /\ Proceed(next) /\ UNCHANGED mishaps
       \/ ~works /\ Abandon /\ UNCHANGED mishaps
       \/ mode = "symlink" /\ CanFail /\ Failure /\ Abandon
    /\ UNCHANGED <<mode, there, contents, others, known, refused, errors>>

CreateSource ==
    /\ stage = "source"
    /\ \/ /\ Exclusive("source")
          /\ Appears("source") /\ known' = {"source"} /\ Proceed("sentinel") /\ UNCHANGED mishaps
       \/ /\ ~Exclusive("source")
          /\ Abandon /\ UNCHANGED <<there, known, mishaps>>
       \/ /\ CanFail /\ Failure /\ Abandon /\ UNCHANGED known
          /\ \/ Exclusive("source") /\ Appears("source")
             \/ UNCHANGED there
    /\ UNCHANGED <<mode, contents, others, refused, errors>>

CreateSentinel ==
    /\ stage = "sentinel"
    /\ \/ /\ Exclusive("sentinel")
          /\ Appears("sentinel") /\ contents' = "partial" /\ known' = known \cup {"sentinel"}
          /\ Proceed("write") /\ UNCHANGED mishaps
       \/ /\ ~Exclusive("sentinel")
          /\ Abandon /\ UNCHANGED <<there, contents, known, mishaps>>
       \/ CanFail /\ Failure /\ Abandon /\ UNCHANGED <<there, contents, known>>
    /\ UNCHANGED <<mode, others, refused, errors>>

\* The open file is written wherever its name leads by now.
WriteSentinel ==
    /\ stage = "write"
    /\ \/ /\ contents' = IF there["sentinel"] = "ours" /\ contents = "partial" THEN "whole" ELSE contents
          /\ Proceed("restrict_sentinel") /\ UNCHANGED mishaps
       \/ CanFail /\ Failure /\ Abandon /\ UNCHANGED contents
    /\ UNCHANGED <<mode, there, others, known, refused, errors>>

\* backend.canonical_directory.
Identify ==
    /\ stage = "identify"
    /\ \/ there["source"] # "none" /\ Proceed("link") /\ UNCHANGED mishaps
       \/ there["source"] = "none" /\ Abandon /\ UNCHANGED mishaps
       \/ CanFail /\ Failure /\ Abandon
    /\ UNCHANGED <<mode, there, contents, others, known, refused, errors>>

\* A link that was created and could not be verified stays where it is.
CreateLink ==
    /\ stage = "link"
    /\ \/ /\ Exclusive("link") /\ there["source"] # "none"
          /\ Appears("link") /\ known' = known \cup {"link"} /\ Proceed("unlink")
          /\ UNCHANGED <<mishaps, refused>>
       \/ /\ ~(Exclusive("link") /\ there["source"] # "none")
          /\ Abandon /\ UNCHANGED <<there, known, refused, mishaps>>
       \/ /\ CanFail /\ Failure /\ Abandon /\ UNCHANGED known
          /\ \/ Exclusive("link") /\ Appears("link") /\ UNCHANGED refused
             \/ UNCHANGED there /\ refused' = (mode = "windows_symlink")
             \/ UNCHANGED <<there, refused>>
    /\ UNCHANGED <<mode, contents, others, errors>>

-----------------------------------------------------------------------------
(* cleanup_probe: link, sentinel, source and root, in this order.            *)

Complain(e) == errors' = errors \cup {e} /\ UNCHANGED there
Forgives == UNCHANGED <<there, errors>>

\* Ownership is verified, and only what is ours is removed; what is absent needs no removal.
RemovesLink ==
    CASE there["link"] = "none" -> Forgives
      [] there["link"] = "ours" -> Vanishes("link") /\ UNCHANGED errors
      [] OTHER -> Complain("link")

\* The sentinel proves that removing the link spared its target: it must be there, a file
\* of its own, and say what was written.
RemovesSentinel ==
    IF there["sentinel"] # "none" /\ contents = "whole"
    THEN Vanishes("sentinel") /\ UNCHANGED errors
    ELSE Complain("sentinel")

RemovesDirectory(d) ==
    CASE there[d] = "none" -> Forgives
      [] there[d] = "ours" /\ IsEmpty(d) -> Vanishes(d) /\ UNCHANGED errors
      [] OTHER -> Complain(d)

CleanupStep(here, next, e, removes) ==
    /\ stage = here
    /\ \/ e \notin known \cup {"root"} /\ Forgives /\ UNCHANGED mishaps
       \/ /\ e \in known \cup {"root"}
          /\ \/ removes /\ UNCHANGED mishaps
             \/ CanFail /\ Failure /\ Complain(e)
    /\ stage' = next
    /\ UNCHANGED <<mode, contents, others, known, refused, finding>>

\* (Mutant: a refused privilege is a warning whatever was retained.)
SeverityOfRefusal == IF refused THEN "WARN" ELSE "FAIL"

Severity == IF refused /\ errors = {} THEN "WARN" ELSE "FAIL"

Conclude ==
    /\ stage = "conclude"
    /\ finding' = IF finding = "none" /\ errors = {} THEN "PASS" ELSE Severity
    /\ stage' = "over"
    /\ UNCHANGED <<mode, there, contents, others, known, refused, errors, mishaps>>

-----------------------------------------------------------------------------
(* Other programs.                                                           *)

Meddles ==
    /\ stage # "over"
    /\ mishaps.meddling < MaxMeddling
    /\ mishaps' = [mishaps EXCEPT !.meddling = @ + 1]
    /\ UNCHANGED <<mode, stage, known, refused, errors, finding>>

Deletes(e) ==
    /\ there[e] # "none"
    /\ e \in Directories => IsEmpty(e)
    /\ Vanishes(e)
    /\ UNCHANGED <<contents, others>>
    /\ Meddles

Occupies(e) ==
    /\ Exclusive(e)
    /\ there' = [there EXCEPT ![e] = "foreign"]
    /\ contents' = IF e = "sentinel" THEN "edited" ELSE contents
    /\ UNCHANGED others
    /\ Meddles

EditsSentinel ==
    /\ there["sentinel"] # "none"
    /\ contents' = "edited"
    /\ UNCHANGED <<there, others>>
    /\ Meddles

Litters(d) ==
    /\ there[d] # "none"
    /\ d \notin others
    /\ others' = others \cup {d}
    /\ UNCHANGED <<there, contents>>
    /\ Meddles

ProbeNext ==
    \/ CreateRoot
    \/ RestrictToOwner("restrict_root", "root", "source")
    \/ CreateSource
    \/ CreateSentinel
    \/ WriteSentinel
    \/ RestrictToOwner("restrict_sentinel", "sentinel", "identify")
    \/ Identify
    \/ CreateLink
    \/ CleanupStep("unlink", "unsentinel", "link", RemovesLink)
    \/ CleanupStep("unsentinel", "unsource", "sentinel", RemovesSentinel)
    \/ CleanupStep("unsource", "unroot", "source", RemovesDirectory("source"))
    \/ CleanupStep("unroot", "conclude", "root", RemovesDirectory("root"))
    \/ Conclude
    \/ \E e \in ProbeEntries : Deletes(e)
    \/ \E e \in ProbeEntries \ {"root"} : Occupies(e)
    \/ EditsSentinel
    \/ \E d \in Directories : Litters(d)

ProbeSpec == ProbeInit /\ [][ProbeNext]_probeVars

-----------------------------------------------------------------------------
\* Whichever call fails and whoever meddles, a probe that does not report a failure left
\* nothing of its own behind: a pass or a warning is never over a retained entry
\* (operator/doctor.rs, cleanup_probe and probe_failure_severity).
LeftoversAreReported ==
    finding \in {"PASS", "WARN"} /\ stage = "over" => \A e \in ProbeEntries : there[e] # "ours"
=============================================================================
