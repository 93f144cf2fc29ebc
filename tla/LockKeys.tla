------------------------------ MODULE LockKeys ------------------------------
(***************************************************************************)
(* Which lock keys a session asks for: the resources every adapter         *)
(* describes, the logical and physical keys they hash to (lock/mod.rs,     *)
(* lock/key.rs), the passes that repeat until the held keys cover the      *)
(* plan, and the authority check between the plan and the journal.  The    *)
(* keys depend on the directories that exist, and sessions create and      *)
(* remove directories.  Sessions models how keys are waited for, how many  *)
(* passes there are and how the dead are recovered, Transaction one        *)
(* journal.  Here the keys of a request are taken at once, an inspection   *)
(* and its plan are one step, and nobody crashes.                          *)
(*                                                                         *)
(* A path is the sequence of its components below the volume root.  A      *)
(* directory is its canonical path, which stands for its platform          *)
(* identity.  Links are fixed, lead to directories or nowhere, and are not *)
(* chained: LinkWalk has the chains.  Every session selects one Skill of   *)
(* its own name: MountPlan has the conflicts over names.                   *)
(***************************************************************************)
EXTENDS Naturals, Sequences, FiniteSets, SequencesExt

CONSTANTS
    Session,        \* session identifiers, which are also path components
    Casts,          \* what each session may be
    Layouts,        \* the directories and links there may be
    SessionBase     \* session_root_base()

Adapters == {"codex", "claude", "staging", "omp"}

\* A profile has the project root, and under `outside` the scopes beyond the project's
\* own in the order they are inspected: of ancestors of the launch directory, the user
\* and administrators, and of --add-dir; for OMP the configuration and sources it reads.
ASSUME CastsHaveAdapters ==
    \A c \in Casts : \A s \in Session :
        /\ c[s].adapter \in Adapters
        /\ c[s].worktree \in BOOLEAN
        /\ c[s].root \in Seq(STRING)
        /\ c[s].outside \in Seq(Seq(STRING))

ASSUME PathsAreTyped ==
    /\ Session \subseteq STRING
    /\ SessionBase \in Seq(STRING)
    /\ \A l \in Layouts : \A d \in DOMAIN l.links : l.links[d] \in Seq(STRING)

\* Directories hang together, and links are entries of directories.
ASSUME LayoutsHangTogether ==
    \A l \in Layouts :
        /\ <<>> \in l.dirs
        /\ \A d \in (l.dirs \cup DOMAIN l.links) \ {<<>>} : Front(d) \in l.dirs
        /\ \A d \in DOMAIN l.links : d \notin l.dirs
        /\ \A d \in DOMAIN l.links : \A n \in 0..Len(l.links[d]) :
               SubSeq(l.links[d], 1, n) \notin DOMAIN l.links

VARIABLES
    cast,       \* the profile of each session
    links,      \* from the canonical path of each link to its canonical target
    dirs,       \* the canonical directories
    mounts,     \* the canonical paths of mounted links and configuration files
    own,        \* the directories each session created
    pc,
    wanted,     \* required_resources, as requests
    held,       \* HeldLocks, as requests
    plan        \* the rebuilt plan and snapshot, which the journal records

vars == <<cast, links, dirs, mounts, own, pc, wanted, held, plan>>
files == <<cast, links, dirs, mounts, own>>

----------------------------------------------------------------------------
(* The file system *)

Prefix(q, n) == SubSeq(q, 1, n)

Follow(entries, at, name) ==
    LET next == Append(at, name) IN IF next \in DOMAIN entries THEN entries[next] ELSE next
Followed(entries, q) ==
    LET at[n \in 0..Len(q)] == IF n = 0 THEN <<>> ELSE Follow(entries, at[n - 1], q[n])
    IN at
CanonBy(entries, q) == Followed(entries, q)[Len(q)]

Canon(q) == CanonBy(links, q)

\* A session's directory is new, and links that the state directory is reached through
\* lead to directories: ensuring that it exists fails otherwise.
ASSUME PrivateIsFresh ==
    \A l \in Layouts : \A s \in Session, d \in DOMAIN l.links :
        ~IsPrefix(Append(CanonBy(l.links, SessionBase), s), d)
ASSUME StateIsInPlace ==
    \A l \in Layouts : \A n \in 1..Len(SessionBase) :
        LET d == Append(CanonBy(l.links, Prefix(SessionBase, n - 1)), SessionBase[n])
        IN d \in DOMAIN l.links => l.links[d] \in l.dirs

Exists(q) == Canon(q) \in dirs

\* The entry itself, its last component not followed.
Place(q) == Append(Canon(Front(q)), Last(q))

Kind(q) ==
    CASE Place(q) \in DOMAIN links -> IF Exists(q) THEN "link" ELSE "broken"
      [] Place(q) \in dirs -> "directory"
      [] OTHER -> "missing"

\* split_existing_anchor: the deepest existing ancestor, canonical, and the rest.
Deepest(q) ==
    CHOOSE n \in 0..Len(q) :
        /\ Exists(Prefix(q, n))
        /\ \A m \in (n + 1)..Len(q) : ~Exists(Prefix(q, m))
AnchorOf(q) == Canon(Prefix(q, Deepest(q)))
SuffixOf(q) == SubSeq(q, Deepest(q) + 1, Len(q))

----------------------------------------------------------------------------
(* Resources and keys *)

Physical(q) == IF Exists(q) THEN {Canon(q)} ELSE {}

Describe(kind, access, anchor, q) ==
    [kind |-> kind, access |-> access, anchor |-> anchor,
     suffix |-> SubSeq(q, Len(anchor) + 1, Len(q)), physical |-> Physical(q)]

Shared(kind, access, q) == Describe(kind, access, <<>>, q)

Unanchored(kind, access, q) ==
    [kind |-> kind, access |-> access, anchor |-> AnchorOf(q),
     suffix |-> SuffixOf(q), physical |-> Physical(q)]

\* As releases before the shared description used to describe an entry: under the
\* project, or under the deepest directory that exists.
Legacy(access, root, q) ==
    IF IsPrefix(root, q) THEN Describe("entry", access, root, q)
                         ELSE Unanchored("entry", access, q)

LegacyOnly(access, root, q) == {Legacy(access, root, q)}
SharedAndLegacy(access, root, q) == {Shared("entry", access, q), Legacy(access, root, q)}

Logical(r) == [kind |-> r.kind, anchor |-> r.anchor, suffix |-> r.suffix]
Keys(r) ==
    {Logical(r)} \cup {[kind |-> "physical", anchor |-> d, suffix |-> <<>>] : d \in r.physical}

\* One request for each key, with the strongest access any resource needs.
Requests(resources) ==
    [k \in UNION {Keys(r) : r \in resources} |->
        IF \E r \in resources : k \in Keys(r) /\ r.access = "mutate"
        THEN "mutate" ELSE "observe"]

Satisfies(have, need) == have = "mutate" \/ need = "observe"

HoldsAll(h, requests) ==
    \A k \in DOMAIN requests : k \in DOMAIN h /\ Satisfies(h[k], requests[k])

Extend(p, q) ==
    [k \in DOMAIN p \cup DOMAIN q |->
        IF \/ k \in DOMAIN p /\ p[k] = "mutate"
           \/ k \in DOMAIN q /\ q[k] = "mutate"
        THEN "mutate" ELSE "observe"]

NoRequests == [k \in {} |-> "observe"]

Conflict(h, g) == \E k \in DOMAIN h \cap DOMAIN g : "mutate" \in {h[k], g[k]}

----------------------------------------------------------------------------
(* What the adapters plan *)

Root(s) == cast[s].root
Private(s) == Append(SessionBase, s)

CodexEntry(s) == Root(s) \o <<".agents", "skills">>
ClaudeEntry(s) == Root(s) \o <<".claude", "skills">>

Store(s) ==
    CASE cast[s].adapter = "codex" -> CodexEntry(s)
      [] cast[s].adapter = "claude" -> ClaudeEntry(s)
      [] cast[s].adapter = "staging" -> Private(s) \o <<"root", ".claude", "skills">>
      [] cast[s].adapter = "omp" -> Private(s)

Entry(s) ==
    CASE cast[s].adapter = "codex" -> CodexEntry(s)
      [] cast[s].adapter = "claude" -> Root(s)
      [] cast[s].adapter = "staging" -> Append(Private(s), "root")
      [] cast[s].adapter = "omp" -> Private(s)

\* Of the scopes with one terminal the first is kept, and the store is the first.
OnePerTerminal(scopes) ==
    {scopes[i] : i \in {j \in DOMAIN scopes :
        \A k \in 1..(j - 1) : Physical(scopes[k]) \cap Physical(scopes[j]) = {}}}

CodexScopes(s) ==
    {CodexEntry(s), Root(s) \o <<".codex", "skills">>} \cup Range(cast[s].outside)

\* A staging session reads the project's own scope after its private one.
ClaudeScopes(s) ==
    LET project == IF ClaudeEntry(s) = Store(s) THEN <<>> ELSE <<ClaudeEntry(s)>>
    IN OnePerTerminal(<<Store(s)>> \o (project \o cast[s].outside))

\* What a session derives its locks from: scopes, or for OMP the paths it reads.
Scopes(s) ==
    CASE cast[s].adapter = "codex" -> CodexScopes(s)
      [] cast[s].adapter \in {"claude", "staging"} -> ClaudeScopes(s)
      [] cast[s].adapter = "omp" -> Range(cast[s].outside)

ScopeResources(s) ==
    UNION {SharedAndLegacy(IF q = Store(s) THEN "mutate" ELSE "observe", Root(s), q) :
        q \in Scopes(s)}

\* The directories the walk of a Codex scope finds below it.
Nested(q) == {d \in dirs : Exists(q) /\ IsStrictPrefix(Canon(q), d)}
NestedResources(s) ==
    UNION {UNION {{Shared("entry", "observe", d), Unanchored("entry", "observe", d)} :
        d \in Nested(q)} : q \in Scopes(s)}

ParentResources(s) ==
    LET agents == Front(CodexEntry(s))
    IN {Shared("entry", "mutate", agents)} \cup
       IF Kind(agents) \in {"directory", "link"}
       THEN {Describe("entry", "mutate", Root(s), agents)} ELSE {}

CodexResources(s) ==
    ScopeResources(s) \cup NestedResources(s) \cup ParentResources(s)
        \cup {Describe("store", "mutate", Root(s), Store(s))}

ClaudeResources(s) ==
    ScopeResources(s) \cup
        {Shared("entry", "mutate", Entry(s)),
         Describe("entry", "mutate", Root(s), Entry(s)),
         Describe("store", "mutate", Root(s), Store(s))}

StagingResources(s) ==
    ScopeResources(s) \cup
        {Unanchored("entry", "mutate", Private(s)),
         Unanchored("entry", "mutate", Entry(s)),
         Unanchored("store", "mutate", Store(s))}

OmpResources(s) ==
    {Shared("entry", "mutate", Private(s)), Shared("store", "mutate", Private(s))}
        \cup {Shared("entry", "observe", q) : q \in Scopes(s)}

Resources(s) ==
    CASE cast[s].adapter = "codex" -> CodexResources(s)
      [] cast[s].adapter = "claude" -> ClaudeResources(s)
      [] cast[s].adapter = "staging" -> StagingResources(s)
      [] cast[s].adapter = "omp" -> OmpResources(s)

\* A preferred entry, or the parent to create it in, that leads nowhere.
CodexRefuses(s) ==
    \/ Kind(Store(s)) = "broken"
    \/ Kind(Store(s)) = "missing" /\ Kind(Front(Store(s))) = "broken"

\* A linked worktree whose Skills the child would look for in the main checkout.
ClaudeRefuses(s) == cast[s].worktree /\ Kind(ClaudeEntry(s)) = "missing"

Refuses(s) ==
    \/ cast[s].adapter = "codex" /\ CodexRefuses(s)
    \/ cast[s].adapter \in {"claude", "staging"} /\ ClaudeRefuses(s)

CodexCreates(s) ==
    LET agents == Front(Store(s))
    IN IF Kind(Store(s)) # "missing" THEN <<>>
       ELSE IF Kind(agents) = "missing" THEN <<agents, Store(s)>> ELSE <<Store(s)>>

\* The ancestors of `leaf` below `boundary` that do not exist, parents first.
MissingChain(leaf, boundary) ==
    LET n == IF Deepest(leaf) > Len(boundary) THEN Deepest(leaf) ELSE Len(boundary)
    IN [i \in 1..(Len(leaf) - n) |-> Prefix(leaf, n + i)]

Creates(s) ==
    CASE cast[s].adapter = "codex" -> CodexCreates(s)
      [] cast[s].adapter = "claude" -> MissingChain(Store(s), Root(s))
      [] cast[s].adapter = "staging" -> MissingChain(Store(s), SessionBase)
      [] cast[s].adapter = "omp" -> <<Private(s)>>

\* The link, or the configuration file of OMP, that goes into the store.
Mounted(s) == Append(Store(s), s)

\* staged_sibling: in the directory of the final path, under a name of the session.
Temporary(s, q) == Append(Front(q), "." \o s)

PlanOf(s) ==
    LET finals == Append(Creates(s), Mounted(s))
    IN [entry |-> Entry(s), store |-> Store(s), finals |-> finals,
        scopes |-> Scopes(s),
        found |-> {Canon(q) : q \in {p \in Scopes(s) : Exists(p)}},
        resources |-> Resources(s) \cup
            {Shared("entry", "mutate", Temporary(s, q)) : q \in Range(finals)}]

NoPlan ==
    [entry |-> <<>>, store |-> <<>>, finals |-> <<>>, scopes |-> {}, found |-> {},
     resources |-> {}]

----------------------------------------------------------------------------
(* Mutation authority *)

\* The canonical spelling of the chain of parents; the entry itself is not followed.
SpelledAsGiven(q) == q
NoFollowSpelling(q) == AnchorOf(Front(q)) \o SuffixOf(Front(q)) \o <<Last(q)>>

\* The resources that grant the mutation of `q`, by its spelling or its canonical one.
Authorities(p, q) ==
    LET spelling == NoFollowSpelling(q)
    IN {r \in p.resources :
            /\ r.access = "mutate"
            /\ IsPrefix(r.anchor \o r.suffix, q) \/ IsPrefix(r.anchor \o r.suffix, spelling)}

\* Those under the very key that an observer of `q` asks for.
ExactAuthorities(p, q) ==
    {r \in Authorities(p, q) : Logical(r) = Logical(Shared(r.kind, "mutate", q))}

\* Every path the transaction may own lies under a resource it may mutate. The
\* resources found here are among those of the plan, whose keys are all held.
Authorized(s, p) ==
    /\ \E r \in Authorities(p, p.entry) : r.kind = "entry"
    /\ \E r \in Authorities(p, p.store) : r.kind = "store"
    /\ \A q \in Range(p.finals) :
           /\ Authorities(p, q) # {}
           /\ \E r \in ExactAuthorities(p, Temporary(s, q)) : r.kind = "entry"

\* What decoding asks of the locks a journal records.
Decodes(s, p) ==
    /\ \E r \in p.resources : r.access = "mutate"
    /\ Authorized(s, p)

----------------------------------------------------------------------------
(* The steps of a session *)

Init ==
    /\ cast \in Casts
    /\ \E l \in Layouts : links = l.links /\ dirs = l.dirs
    /\ mounts = {}
    /\ own = [s \in Session |-> {}]
    /\ pc = [s \in Session |-> "new"]
    /\ wanted = [s \in Session |-> NoRequests]
    /\ held = [s \in Session |-> NoRequests]
    /\ plan = [s \in Session |-> NoPlan]

At(s, from, to) == pc[s] = from /\ pc' = [pc EXCEPT ![s] = to]

\* Shared storage is created outside the transaction, and only for staging sessions.
Prepare(s) ==
    /\ At(s, "new", "prepared")
    /\ dirs' = IF cast[s].adapter \in {"staging", "omp"}
               THEN dirs \cup {Canon(Prefix(SessionBase, n)) : n \in 1..Len(SessionBase)}
               ELSE dirs
    /\ UNCHANGED <<cast, links, mounts, own, wanted, held, plan>>

\* The preliminary inspection, without any lock.
Inspect(s) ==
    /\ ~Refuses(s)
    /\ At(s, "prepared", "waiting")
    /\ wanted' = [wanted EXCEPT ![s] = Requests(Resources(s))]
    /\ UNCHANGED <<files, held, plan>>

Acquire(s) ==
    /\ At(s, "waiting", "inspecting")
    /\ \A v \in Session \ {s} : ~Conflict(wanted[s], held[v])
    /\ held' = [held EXCEPT ![s] = wanted[s]]
    /\ UNCHANGED <<files, wanted, plan>>

\* A pass whose plan needs keys that are not held: they are added, after everything was
\* dropped if a held one must be strengthened or a new one sorts before those held. The
\* order of the keys is left open: that it rules out a cycle of waiters is for Sessions.
Expand(s) ==
    LET needs == Requests(PlanOf(s).resources) IN
    /\ ~Refuses(s)
    /\ At(s, "inspecting", "waiting")
    /\ ~HoldsAll(held[s], needs)
    /\ wanted' = [wanted EXCEPT ![s] = Extend(@, needs)]
    /\ \/ held' = [held EXCEPT ![s] = NoRequests]
       \/ /\ \A k \in DOMAIN needs \cap DOMAIN held[s] : Satisfies(held[s][k], needs[k])
          /\ UNCHANGED held
    /\ UNCHANGED <<files, plan>>

Stabilize(s) ==
    /\ ~Refuses(s)
    /\ At(s, "inspecting", "planned")
    /\ HoldsAll(held[s], Requests(PlanOf(s).resources))
    /\ plan' = [plan EXCEPT ![s] = PlanOf(s)]
    /\ UNCHANGED <<files, wanted, held>>

Refuse(s) ==
    /\ Refuses(s)
    /\ At(s, "prepared", "ended") \/ At(s, "inspecting", "ended")
    /\ held' = [held EXCEPT ![s] = NoRequests]
    /\ UNCHANGED <<files, wanted, plan>>

\* open_with: the first journal is written, or nothing is and the error is internal.
Open(s) ==
    /\ At(s, "planned", IF Authorized(s, plan[s]) THEN "applying" ELSE "internal error")
    /\ UNCHANGED <<files, wanted, held, plan>>

\* The first action that is not applied yet.
NextFinal(s) ==
    plan[s].finals[Cardinality(own[s]) + 1]

Occupied(place) == place \in dirs \cup mounts \cup DOMAIN links
Applicable(q) == Front(Place(q)) \in dirs /\ ~Occupied(Place(q))

CreateDirectory(s) ==
    LET q == NextFinal(s) IN
    /\ pc[s] = "applying"
    /\ q # Mounted(s)
    /\ Applicable(q)
    /\ dirs' = dirs \cup {Place(q)}
    /\ own' = [own EXCEPT ![s] = @ \cup {Place(q)}]
    /\ UNCHANGED <<cast, links, mounts, pc, wanted, held, plan>>

Mount(s) ==
    LET q == NextFinal(s) IN
    /\ At(s, "applying", "running")
    /\ q = Mounted(s)
    /\ Applicable(q)
    /\ mounts' = mounts \cup {Place(q)}
    /\ UNCHANGED <<cast, links, dirs, own, wanted, held, plan>>

\* The destination is no longer what the plan expects.
Roll(s) ==
    /\ At(s, "applying", "removing")
    /\ ~Applicable(NextFinal(s))
    /\ UNCHANGED <<files, wanted, held, plan>>

\* The child has ended.
Unmount(s) ==
    /\ At(s, "running", "removing")
    /\ mounts' = mounts \ {Place(Mounted(s))}
    /\ UNCHANGED <<cast, links, dirs, own, wanted, held, plan>>

\* Created directories go deepest first; one that is not empty stays.
RemoveDirectory(s) ==
    /\ pc[s] = "removing"
    /\ \E d \in own[s] :
        /\ \A e \in own[s] : Len(e) <= Len(d)
        /\ own' = [own EXCEPT ![s] = @ \ {d}]
        /\ dirs' = IF \E e \in dirs \cup mounts \cup DOMAIN links : IsStrictPrefix(d, e)
                   THEN dirs ELSE dirs \ {d}
    /\ UNCHANGED <<cast, links, mounts, pc, wanted, held, plan>>

Release(s) ==
    /\ own[s] = {}
    /\ At(s, "removing", "ended")
    /\ held' = [held EXCEPT ![s] = NoRequests]
    /\ UNCHANGED <<files, wanted, plan>>

Next ==
    \E s \in Session :
        \/ Prepare(s) \/ Inspect(s) \/ Acquire(s) \/ Expand(s) \/ Stabilize(s) \/ Refuse(s)
        \/ Open(s) \/ CreateDirectory(s) \/ Mount(s) \/ Roll(s)
        \/ Unmount(s) \/ RemoveDirectory(s) \/ Release(s)

Spec == Init /\ [][Next]_vars

----------------------------------------------------------------------------
(* Properties *)

Using(s) == pc[s] \in {"applying", "running", "removing"}

\* open_with never ends in its internal error, and a journal that was written decodes
\* whatever directories have appeared or gone since: the authority it records is compared
\* with spellings that depend on them. (required_mutation_resources, transaction/mod.rs:325;
\* validate, journal/mod.rs:755)
EveryOwnedPathIsCovered ==
    \A s \in Session :
        /\ pc[s] # "internal error"
        /\ Using(s) => Decodes(s, plan[s])

\* A session never works on a store that is a scope of another session at work, unless it
\* has another name there and was not in place when both planned: who creates a store and
\* who names it contend although it does not exist yet, and who finds it contends by any
\* name. (lock_keys, lock/mod.rs:356; describe_shared_and_legacy_entry, lock/mod.rs:222)
UsersOfAStoreContend ==
    \A v, w \in Session : (v # w /\ Using(v) /\ Using(w)) =>
        \A q \in plan[v].scopes : Canon(q) = Canon(plan[w].store) =>
            /\ q # plan[w].store
            /\ Canon(q) \notin plan[v].found \cap plan[w].found
=============================================================================
