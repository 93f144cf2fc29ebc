-------------------------- MODULE Planning_proofs --------------------------
(***************************************************************************)
(* The decisions of a session about names and arguments, for any sources,  *)
(* roots, contents, names and lists of arguments.                          *)
(*                                                                         *)
(* MountPlan: that folding and merging hide no foreign Skill, that a link  *)
(* is planned where nothing lies and that skipping keeps a usable Skill.   *)
(* The reason is an invariant of the folding: every root that has been     *)
(* folded is represented by a kept scope of its terminal and its           *)
(* authority, the one that mounts are written through by itself, so the    *)
(* kept scopes show together what the roots showed.                        *)
(*                                                                         *)
(* Catalog: that the last source to hold a name decides it, alone.         *)
(*                                                                         *)
(* Arguments: that the scan of an adapter and the agent's own reading of   *)
(* the child's list agree, for lists of any length: what was accepted      *)
(* leaves the child the session that was planned, and what was refused of  *)
(* OMP and Claude Code would not have, or adds no directory.  The reason is*)
(* an invariant of the scan: no option before the place it has come to     *)
(* claims a word from there on, the words passed hold no control and no    *)
(* subcommand, and the directories collected are those the agent will read.*)
(* The scan for controls in a Codex list stops at the first `--`; where the*)
(* agent would take that word for an option's value, it calls the list a   *)
(* usage error and starts nothing.                                         *)
(***************************************************************************)
EXTENDS MountPlan, Catalog, Arguments, WellFoundedInduction, TLAPS

\* A set of numbers has a least one.
LEMMA LeastNatural ==
  ASSUME NEW T, T \subseteq Nat, T # {}
  PROVE  \E m \in T : \A n \in T : m <= n
<1>. DEFINE less == OpToRel(<, Nat)
<1>1. IsWellFoundedOn(less, Nat)
  BY NatLessThanWellFounded
<1>2. \A i, j \in Nat : i < j => <<i, j>> \in less
  BY DEF OpToRel
<1>. HIDE DEF less
<1>3. PICK i \in T : \A j \in T : ~(<<j, i>> \in less)
  BY <1>1, WFMin
<1>4. ASSUME NEW j \in T PROVE i <= j
  <2>1. i \in Nat /\ j \in Nat /\ ~(j < i)
    BY <1>2, <1>3
  <2>. QED  BY <2>1
<1>. QED  BY <1>4

-----------------------------------------------------------------------------
\* What stands for the root that mounts are written through is that root's own scope.
Represents(scope, r) ==
    /\ scope.terminal = r.terminal /\ CompatibleTraversal(scope.kind, r.kind)
    /\ r.entry = BackingStore => scope.entry = BackingStore

\* Every root waits or is represented.
Represented ==
    \A r \in Range(roots) :
        r \in Range(folding) \/ \E i \in DOMAIN kept : Represents(kept[i].scope, r)

Shapes ==
    /\ folding \in Seq(Scopes)
    /\ kept \in Seq([scope : Scopes, aliases : SUBSET STRING])

\* No scope is invented.
FromRoots ==
    /\ \A i \in DOMAIN folding : folding[i] \in Range(roots)
    /\ \A i \in DOMAIN kept : kept[i].scope \in Range(roots)

\* Nothing is decided before the folding ends.
Undecided == folding # <<>> => \A n \in Name : verdict[n] = "undecided"

IInv ==
    /\ listing \in [Terminal -> SUBSET Entries]
    /\ roots \in Seq(Scopes)
    /\ verdict \in [Name -> Verdicts]
    /\ Shapes
    /\ Represented
    /\ FromRoots
    /\ Undecided
    /\ NothingForeignIsOverlooked
    /\ MountsLandOnNothing
    /\ SkippedIsUsable

-----------------------------------------------------------------------------
(* One scope for another.                                                  *)

\* A representative shows the same Skills of a name as the root it stands for.
LEMMA RepresentativeShowsTheSame ==
    ASSUME NEW scope, NEW r, NEW n \in Name, Represents(scope, r)
    PROVE  /\ ExistingSkills(scope, n) = ExistingSkills(r, n)
           /\ scope.kind = "CodexSystem" <=> r.kind = "CodexSystem"
           /\ scope.kind = "ClaudeManaged" <=> r.kind = "ClaudeManaged"
<1>1. /\ scope.kind = "CodexSystem" <=> r.kind = "CodexSystem"
      /\ scope.kind = "ClaudeManaged" <=> r.kind = "ClaudeManaged"
  BY DEF Represents, CompatibleTraversal
<1>2. Contents(scope) = Contents(r)
  BY DEF Represents, Contents
<1>3. Observed(scope) = Observed(r)
  BY <1>1, <1>2 DEF Observed
<1> QED
  BY <1>1, <1>3 DEF ExistingSkills

\* An occupancy that does not stop the planning is that of the selected source.
LEMMA PermittedIsSelected ==
    ASSUME NEW kind, NEW e, NEW source,
           VisibleOccupancy(kind, e, source) \notin Skippable \cup {"Unsupported"}
    PROVE  kind # "CodexSystem" /\ e.kind # "Unusable" /\ e.source = source
<1>1. kind # "CodexSystem"
  BY DEF VisibleOccupancy
<1>2. VisibleOccupancy(kind, e, source) \in {Occupancy(e, source), "Unsupported"}
  BY <1>1 DEF VisibleOccupancy
<1>3. Occupancy(e, source) \notin Skippable \cup {"Unsupported"}
  BY <1>2
<1> QED
  BY <1>1, <1>3 DEF Occupancy, Skippable

\* A name that is mounted or reused sees no occupancy that would stop the planning.
LEMMA NothingStops ==
    ASSUME NEW n \in Name, Verdict(n) \in {"create", "reuse"},
           NEW i \in DOMAIN kept, NEW e \in ExistingSkills(kept[i].scope, n)
    PROVE  VisibleOccupancy(kept[i].scope.kind, e, Selected[n])
               \notin Skippable \cup {"Unsupported"}
<1> DEFINE Seen == UNION {
        {VisibleOccupancy(k.scope.kind, f, Selected[n]) : f \in ExistingSkills(k.scope, n)} :
            k \in Range(kept)}
<1>1. VisibleOccupancy(kept[i].scope.kind, e, Selected[n]) \in Seen
  BY DEF Range
<1>2. VisibleOccupant(n) \notin {"Unsupported", "Skippable"}
  BY DEF Verdict
<1>3. VisibleOccupant(n) = MostRestrictive(Seen)
  BY DEF VisibleOccupant
<1> HIDE DEF Seen
<1>4. "Unsupported" \notin Seen
  BY <1>2, <1>3 DEF MostRestrictive
<1>5. Seen \cap Skippable = {}
  BY <1>2, <1>3, <1>4 DEF MostRestrictive
<1> QED
  BY <1>1, <1>4, <1>5

\* What the most restrictive of some occupancies says of the others.
LEMMA MostRestrictiveFacts ==
    ASSUME NEW occupancies
    PROVE  /\ MostRestrictive(occupancies) # "Unsupported" <=> "Unsupported" \notin occupancies
           /\ MostRestrictive(occupancies) = "Skippable" => occupancies \cap Skippable # {}
           /\ MostRestrictive(occupancies) = "None" =>
                  occupancies \cap (Skippable \cup {"Unsupported", "SameSource"}) = {}
           /\ MostRestrictive(occupancies) \in {"Unsupported", "Skippable", "SameSource", "None"}
BY DEF MostRestrictive

Seen(n) == UNION {
    {VisibleOccupancy(k.scope.kind, e, Selected[n]) : e \in ExistingSkills(k.scope, n)} :
        k \in Range(kept)}
Beside(n) == UNION {
    {Occupancy(e, Selected[n]) : e \in DirectEntries(s, n)} : s \in MountScope}

LEMMA Occupants ==
    ASSUME NEW n
    PROVE  /\ VisibleOccupant(n) = MostRestrictive(Seen(n))
           /\ DirectOccupant(n) = MostRestrictive(Beside(n))
BY DEF VisibleOccupant, DirectOccupant, Seen, Beside

LEMMA OccupancyKinds ==
    ASSUME NEW kind, NEW e, NEW source
    PROVE  /\ Occupancy(e, source) \in Skippable \cup {"Unsupported", "SameSource"}
           /\ VisibleOccupancy(kind, e, source) \in Skippable \cup {"Unsupported", "SameSource"}
BY DEF Occupancy, VisibleOccupancy, Skippable

\* What a represented root shows of a name is seen.
LEMMA RootIsSeen ==
    ASSUME Represented, folding = <<>>, NEW n \in Name, NEW r \in Range(roots),
           NEW e \in ExistingSkills(r, n)
    PROVE  \E i \in DOMAIN kept :
               /\ Represents(kept[i].scope, r) /\ e \in ExistingSkills(kept[i].scope, n)
               /\ VisibleOccupancy(kept[i].scope.kind, e, Selected[n]) \in Seen(n)
<1>1. PICK i \in DOMAIN kept : Represents(kept[i].scope, r)
  BY DEF Represented, Range
<1>2. e \in ExistingSkills(kept[i].scope, n)
  BY <1>1, RepresentativeShowsTheSame
<1>3. kept[i] \in Range(kept)
  BY DEF Range
<1> QED
  BY <1>1, <1>2, <1>3 DEF Seen

\* What lies in the root that mounts are written through is looked at.
LEMMA RootIsLookedAt ==
    ASSUME Represented, folding = <<>>, NEW n \in Name, NEW e \in Lies(n)
    PROVE  Occupancy(e, Selected[n]) \in Beside(n)
<1>1. PICK r \in Range(roots) : r.entry = BackingStore /\ e \in DirectEntries(r, n)
  BY DEF Lies
<1>2. PICK i \in DOMAIN kept : Represents(kept[i].scope, r)
  BY DEF Represented, Range
<1>3. kept[i].scope \in MountScope
  BY <1>1, <1>2 DEF Represents, MountScope, Range
<1>4. e \in DirectEntries(kept[i].scope, n)
  BY <1>1, <1>2 DEF Represents, DirectEntries, Contents
<1> QED
  BY <1>3, <1>4 DEF Beside

\* A link is planned where nothing of the name is visible or lies.
LEMMA CreateLandsOnNothing ==
    ASSUME Represented, folding = <<>>, NEW n \in Name, Verdict(n) = "create"
    PROVE  Lies(n) = {} /\ Declared(n) = {}
<1>1. VisibleOccupant(n) = "None" /\ DirectOccupant(n) = "None"
  BY Occupants, MostRestrictiveFacts DEF Verdict
<1>2. Seen(n) \cap (Skippable \cup {"Unsupported", "SameSource"}) = {}
  BY <1>1, Occupants, MostRestrictiveFacts
<1>3. Beside(n) \cap (Skippable \cup {"Unsupported", "SameSource"}) = {}
  BY <1>1, Occupants, MostRestrictiveFacts
<1>4. ASSUME NEW e \in Lies(n) PROVE FALSE
  BY <1>3, RootIsLookedAt, OccupancyKinds
<1>5. ASSUME NEW d \in Declared(n) PROVE FALSE
  <2>1. PICK r \in Range(roots) :
            \E e \in ExistingSkills(r, n) : d = [kind |-> r.kind, skill |-> e]
    BY DEF Declared
  <2>2. PICK e \in ExistingSkills(r, n) : d = [kind |-> r.kind, skill |-> e]
    BY <2>1
  <2>3. PICK i \in DOMAIN kept : VisibleOccupancy(kept[i].scope.kind, e, Selected[n]) \in Seen(n)
    BY RootIsSeen
  <2> QED
    BY <1>2, <2>3, OccupancyKinds
<1> QED
  BY <1>4, <1>5

\* What is preserved is usable, and somebody else's.
LEMMA PreserveIsUsable ==
    ASSUME Represented, FromRoots, folding = <<>>, NEW n \in Name, Verdict(n) = "preserve"
    PROVE  /\ policy = "skip"
           /\ \A d \in Declared(n) :
                  /\ d.kind # "CodexSystem"
                  /\ d.kind = "ClaudeManaged" => d.skill.source = Selected[n]
                  /\ d.skill.kind # "Unusable"
           /\ \E e \in {d.skill : d \in Declared(n)} \cup Lies(n) :
                  e.kind # "Unusable" /\ e.source # Selected[n]
<1>1. /\ policy = "skip" /\ VisibleOccupant(n) # "Unsupported"
      /\ VisibleOccupant(n) = "Skippable" \/ DirectOccupant(n) = "Skippable"
  BY DEF Verdict
<1>2. "Unsupported" \notin Seen(n)
  BY <1>1, Occupants, MostRestrictiveFacts
<1>3. ASSUME NEW d \in Declared(n)
      PROVE  /\ d.kind # "CodexSystem"
             /\ d.kind = "ClaudeManaged" => d.skill.source = Selected[n]
             /\ d.skill.kind # "Unusable"
  <2>1. PICK r \in Range(roots) :
            \E e \in ExistingSkills(r, n) : d = [kind |-> r.kind, skill |-> e]
    BY DEF Declared
  <2>2. PICK e \in ExistingSkills(r, n) : d = [kind |-> r.kind, skill |-> e]
    BY <2>1
  <2>3. PICK i \in DOMAIN kept :
            /\ Represents(kept[i].scope, r)
            /\ VisibleOccupancy(kept[i].scope.kind, e, Selected[n]) \in Seen(n)
    BY RootIsSeen
  <2>4. /\ kept[i].scope.kind # "CodexSystem"
        /\ kept[i].scope.kind = "ClaudeManaged" => e.source = Selected[n]
        /\ e.kind # "Unusable"
    BY <1>2, <2>3 DEF VisibleOccupancy, Occupancy
  <2> QED
    BY <2>2, <2>3, <2>4 DEF Represents, CompatibleTraversal
<1>4. CASE VisibleOccupant(n) = "Skippable"
  <2>1. PICK o \in Seen(n) : o \in Skippable
    BY <1>4, Occupants, MostRestrictiveFacts
  <2>2. PICK k \in Range(kept) :
            o \in {VisibleOccupancy(k.scope.kind, e, Selected[n]) : e \in ExistingSkills(k.scope, n)}
    BY DEF Seen
  <2>3. PICK e \in ExistingSkills(k.scope, n) : o = VisibleOccupancy(k.scope.kind, e, Selected[n])
    BY <2>2
  <2>4. k.scope \in Range(roots)
    BY DEF FromRoots, Range
  <2>5. [kind |-> k.scope.kind, skill |-> e] \in Declared(n)
    BY <2>4 DEF Declared
  <2>6. e \in {d.skill : d \in Declared(n)}
    BY <2>5
  <2>7. e.kind # "Unusable" /\ e.source # Selected[n]
    BY <2>1, <2>3 DEF VisibleOccupancy, Occupancy, Skippable
  <2> QED
    BY <1>1, <1>3, <2>6, <2>7
<1>5. CASE DirectOccupant(n) = "Skippable"
  <2>1. PICK o \in Beside(n) : o \in Skippable
    BY <1>5, Occupants, MostRestrictiveFacts
  <2>2. PICK s \in MountScope : o \in {Occupancy(e, Selected[n]) : e \in DirectEntries(s, n)}
    BY DEF Beside
  <2>3. PICK e \in DirectEntries(s, n) : o = Occupancy(e, Selected[n])
    BY <2>2
  <2>4. s \in Range(roots) /\ s.entry = BackingStore
    BY DEF FromRoots, MountScope, Range
  <2>5. e \in Lies(n)
    BY <2>3, <2>4 DEF Lies
  <2>6. e.kind # "Unusable" /\ e.source # Selected[n]
    BY <2>1, <2>3 DEF Occupancy, Skippable
  <2> QED
    BY <1>1, <1>3, <2>5, <2>6
<1> QED
  BY <1>1, <1>4, <1>5

-----------------------------------------------------------------------------
(* The invariant.                                                          *)

LEMMA InitRepresented == Init => IInv
<1> SUFFICES ASSUME Init PROVE IInv
  OBVIOUS
<1>1. roots \in Seq(Scopes) /\ listing \in [Terminal -> SUBSET Entries]
  BY RootsAreTyped, ListingsAreTyped DEF Init
<1>2. verdict \in [Name -> Verdicts] /\ Shapes
  BY <1>1 DEF Init, Verdicts, Shapes
<1>3. Represented /\ Undecided /\ NothingForeignIsOverlooked
  BY DEF Init, Represented, Undecided, NothingForeignIsOverlooked
<1>4. FromRoots
  BY DEF Init, FromRoots, Range
<1>5. MountsLandOnNothing /\ SkippedIsUsable
  BY DEF Init, MountsLandOnNothing, SkippedIsUsable
<1> QED
  BY <1>1, <1>2, <1>3, <1>4, <1>5 DEF IInv

\* Whatever folding does with a scope, the kept scopes stay representatives of what
\* they represented, and the folded scope gets one.
LEMMA FoldedIsRepresented ==
    ASSUME Shapes, folding # <<>>, Fold
    PROVE  /\ Shapes'
           /\ \A i \in DOMAIN kept : i \in DOMAIN kept' /\ Represents(kept'[i].scope, kept[i].scope)
           /\ \E i \in DOMAIN kept' : Represents(kept'[i].scope, Head(folding))
<1> DEFINE scope == Head(folding)
           Kept == [scope : Scopes, aliases : SUBSET STRING]
<1>1. scope \in Scopes /\ folding' \in Seq(Scopes)
  BY DEF Shapes, Fold
<1>2. scope.entry \in STRING
  BY <1>1 DEF Scopes
<1>3. CASE kept' = Append(kept, [scope |-> scope, aliases |-> {}])
  <2>1. kept \in Seq(Kept) /\ [scope |-> scope, aliases |-> {}] \in Kept
    BY <1>1 DEF Shapes
  <2>2. /\ kept' \in Seq(Kept)
        /\ Len(kept') = Len(kept) + 1
        /\ \A i \in DOMAIN kept : i \in DOMAIN kept' /\ kept'[i] = kept[i]
        /\ Len(kept') \in DOMAIN kept' /\ kept'[Len(kept')].scope = scope
    BY <1>3, <2>1
  <2> QED
    BY <1>1, <2>2 DEF Shapes, Represents, CompatibleTraversal
<1>4. ASSUME NEW i \in DOMAIN kept, Shares(scope, i), kept' = [kept EXCEPT ![i] = Folded(@, scope)]
      PROVE  /\ Shapes'
             /\ \A j \in DOMAIN kept : j \in DOMAIN kept' /\ Represents(kept'[j].scope, kept[j].scope)
             /\ \E j \in DOMAIN kept' : Represents(kept'[j].scope, scope)
  <2>1. kept \in Seq(Kept) /\ kept[i] \in Kept /\ kept[i].scope \in Scopes
    <3>1. kept \in Seq(Kept)
      BY DEF Shapes
    <3>2. \A k \in Kept : k.scope \in Scopes
      OBVIOUS
    <3> HIDE DEF Kept
    <3>3. kept[i] \in Kept
      BY <1>4, <3>1
    <3> QED
      BY <3>1, <3>2, <3>3
  <2>2. Survivor(kept[i].scope, scope) \in {kept[i].scope, scope}
    BY DEF Survivor
  <2>3. Folded(kept[i], scope).scope = Survivor(kept[i].scope, scope)
    BY DEF Folded
  <2>4. Folded(kept[i], scope) \in Kept
    <3>1. kept[i].scope.entry \in STRING /\ kept[i].aliases \subseteq STRING
      BY <2>1 DEF Scopes
    <3> DEFINE loser == IF Survivor(kept[i].scope, scope) = scope THEN kept[i].scope ELSE scope
    <3>2. loser.entry \in STRING
      BY <1>2, <3>1
    <3>3. Folded(kept[i], scope) =
              [scope |-> Survivor(kept[i].scope, scope), aliases |-> kept[i].aliases \cup {loser.entry}]
      BY DEF Folded
    <3>4. Survivor(kept[i].scope, scope) \in Scopes
      BY <1>1, <2>1, <2>2
    <3> HIDE DEF loser
    <3> QED
      BY <3>1, <3>2, <3>3, <3>4
  <2>5. kept' \in Seq(Kept) /\ DOMAIN kept' = DOMAIN kept
    BY <1>4, <2>1, <2>4
  <2>6. kept'[i].scope \in {kept[i].scope, scope}
    BY <1>4, <2>1, <2>2, <2>3
  <2>7. kept[i].scope.terminal = scope.terminal /\ CompatibleTraversal(kept[i].scope.kind, scope.kind)
    BY <1>4 DEF Shares
  <2>8. Represents(kept'[i].scope, scope) /\ Represents(kept'[i].scope, kept[i].scope)
    <3>1. kept'[i].scope = Survivor(kept[i].scope, scope)
      BY <1>4, <2>1, <2>3
    <3>2. \/ scope.entry = BackingStore => kept'[i].scope.entry = BackingStore
          \/ kept[i].scope.entry = BackingStore
      BY <3>1 DEF Survivor
    <3>3. kept[i].scope.entry = BackingStore => kept'[i].scope = kept[i].scope
      BY <3>1 DEF Survivor
    <3> QED
      BY <2>6, <2>7, <3>2, <3>3 DEF Represents, CompatibleTraversal
  <2>9. \A j \in DOMAIN kept : j # i => kept'[j] = kept[j]
    BY <1>4, <2>1
  <2>10. \A j \in DOMAIN kept : Represents(kept'[j].scope, kept[j].scope)
    BY <2>8, <2>9 DEF Represents, CompatibleTraversal
  <2> QED
    BY <1>1, <1>4, <2>5, <2>8, <2>10 DEF Shapes
<1> QED
  BY <1>3, <1>4 DEF Fold

\* Folding keeps scopes it was given.
LEMMA FoldedIsOld ==
    ASSUME Shapes, folding # <<>>, Fold
    PROVE  \A i \in DOMAIN kept' :
               \/ kept'[i].scope = Head(folding)
               \/ \E j \in DOMAIN kept : kept'[i].scope = kept[j].scope
<1> DEFINE scope == Head(folding)
           Kept == [scope : Scopes, aliases : SUBSET STRING]
<1>1. kept \in Seq(Kept)
  BY DEF Shapes
<1>2. CASE kept' = Append(kept, [scope |-> scope, aliases |-> {}])
  <2> DEFINE new == [scope |-> scope, aliases |-> {}]
  <2> SUFFICES ASSUME NEW i \in DOMAIN kept'
               PROVE  kept'[i] = new \/ (i \in DOMAIN kept /\ kept'[i] = kept[i])
    OBVIOUS
  <2>1. scope \in Scopes
    BY DEF Shapes
  <2>2. new \in Kept
    BY <2>1
  <2> HIDE DEF new
  <2> QED
    BY <1>1, <1>2, <2>2 DEF new
<1>3. ASSUME NEW i \in DOMAIN kept, kept' = [kept EXCEPT ![i] = Folded(@, scope)]
      PROVE  \A j \in DOMAIN kept' :
                 \/ kept'[j].scope = scope
                 \/ j \in DOMAIN kept /\ kept'[j].scope = kept[j].scope
  <2>1. \A j \in DOMAIN kept : j # i => kept'[j] = kept[j]
    BY <1>3
  <2>2. kept'[i] = Folded(kept[i], scope) /\ DOMAIN kept' = DOMAIN kept
    BY <1>3
  <2>3. kept'[i].scope \in {kept[i].scope, scope}
    BY <2>2 DEF Folded, Survivor
  <2> QED
    BY <2>1, <2>2, <2>3
<1> QED
  BY <1>2, <1>3 DEF Fold

LEMMA FoldPreserves == IInv /\ Fold => IInv'
<1> SUFFICES ASSUME IInv, Fold PROVE IInv'
  OBVIOUS
<1> USE DEF IInv
<1>1. folding # <<>> /\ folding' = Tail(folding) /\ UNCHANGED <<listing, roots, policy, verdict>>
  BY DEF Fold, inputs
<1>2. /\ Shapes'
      /\ \A i \in DOMAIN kept : i \in DOMAIN kept' /\ Represents(kept'[i].scope, kept[i].scope)
      /\ \E i \in DOMAIN kept' : Represents(kept'[i].scope, Head(folding))
  BY <1>1, FoldedIsRepresented
<1>3. Range(folding) \subseteq {Head(folding)} \cup Range(folding')
  <2> SUFFICES ASSUME NEW i \in DOMAIN folding
               PROVE  folding[i] = Head(folding) \/ \E j \in DOMAIN folding' : folding'[j] = folding[i]
    BY DEF Range
  <2>1. folding \in Seq(Scopes) /\ i \in 1..Len(folding)
    BY DEF Shapes
  <2>2. CASE i = 1
    BY <2>1, <2>2
  <2>3. CASE i # 1
    <3>1. i - 1 \in 1..Len(Tail(folding)) /\ Tail(folding)[i - 1] = folding[i]
      BY <1>1, <2>1, <2>3
    <3>2. Tail(folding) \in Seq(Scopes)
      BY <1>1, <2>1
    <3> QED
      BY <1>1, <3>1, <3>2
  <2> QED
    BY <2>2, <2>3
<1>4. Represented'
  <2> SUFFICES ASSUME NEW r \in Range(roots), r \notin Range(folding')
               PROVE  \E i \in DOMAIN kept' : Represents(kept'[i].scope, r)
    BY <1>1 DEF Represented
  <2>1. CASE r = Head(folding)
    BY <1>2, <2>1
  <2>2. CASE r # Head(folding)
    <3>1. PICK i \in DOMAIN kept : Represents(kept[i].scope, r)
      BY <1>3, <2>2 DEF Represented
    <3> QED
      BY <1>2, <3>1 DEF Represents, CompatibleTraversal
  <2> QED
    BY <2>1, <2>2
<1>5. Undecided' /\ NothingForeignIsOverlooked'
  BY <1>1 DEF Undecided, NothingForeignIsOverlooked
<1>6. MountsLandOnNothing' /\ SkippedIsUsable'
  <2>1. \A n \in Name : verdict'[n] = "undecided"
    BY <1>1 DEF Undecided
  <2> QED
    BY <2>1 DEF MountsLandOnNothing, SkippedIsUsable
<1>7. FromRoots'
  <2>1. \A i \in DOMAIN folding' : folding'[i] \in Range(roots)
    <3>1. folding \in Seq(Scopes)
      BY DEF Shapes
    <3> SUFFICES ASSUME NEW i \in 1..Len(Tail(folding)) PROVE Tail(folding)[i] \in Range(roots)
      BY <1>1, <3>1
    <3>2. i + 1 \in 1..Len(folding) /\ Tail(folding)[i] = folding[i + 1]
      BY <1>1, <3>1
    <3> QED
      BY <3>1, <3>2 DEF FromRoots
  <2>2. Head(folding) \in Range(roots)
    <3>1. folding \in Seq(Scopes) /\ 1 \in DOMAIN folding
      BY <1>1 DEF Shapes
    <3> QED
      BY <3>1 DEF FromRoots
  <2>3. \A i \in DOMAIN kept' : kept'[i].scope \in Range(roots)
    BY <1>1, <2>2, FoldedIsOld DEF FromRoots
  <2> QED
    BY <1>1, <2>1, <2>3 DEF FromRoots
<1> QED
  BY <1>1, <1>2, <1>4, <1>5, <1>6, <1>7

\* Deciding one name: if it is mounted or reused, every root is represented, so no
\* Skill of that name in any root stops it.
LEMMA DecidePreserves == IInv /\ (\E n \in Name : Decide(n)) => IInv'
<1> SUFFICES ASSUME IInv, NEW m \in Name, Decide(m) PROVE IInv'
  OBVIOUS
<1> USE DEF IInv
<1>1. /\ folding = <<>> /\ verdict' = [verdict EXCEPT ![m] = Verdict(m)]
      /\ UNCHANGED <<listing, roots, policy, folding, kept>>
  BY DEF Decide, inputs
<1>2. Verdict(m) \in Verdicts
  BY DEF Verdict, Verdicts
<1>3. Shapes' /\ Represented' /\ Undecided'
  BY <1>1 DEF Shapes, Represented, Undecided, Represents
<1>4. ASSUME NEW d \in Declared(m), Verdict(m) \in {"create", "reuse"}
      PROVE  d.kind # "CodexSystem" /\ d.skill.kind # "Unusable" /\ d.skill.source = Selected[m]
  <2>1. PICK r \in Range(roots) :
            \E e \in ExistingSkills(r, m) : d = [kind |-> r.kind, skill |-> e]
    BY DEF Declared
  <2>2. PICK e \in ExistingSkills(r, m) : d = [kind |-> r.kind, skill |-> e]
    BY <2>1
  <2>3. r \notin Range(folding)
    BY <1>1 DEF Range
  <2>4. PICK i \in DOMAIN kept : Represents(kept[i].scope, r)
    BY <2>3 DEF Represented
  <2>5. /\ ExistingSkills(kept[i].scope, m) = ExistingSkills(r, m)
        /\ kept[i].scope.kind = "CodexSystem" <=> r.kind = "CodexSystem"
    BY <2>4, RepresentativeShowsTheSame
  <2>6. VisibleOccupancy(kept[i].scope.kind, e, Selected[m]) \notin Skippable \cup {"Unsupported"}
    BY <1>4, <2>2, <2>5, NothingStops
  <2>7. kept[i].scope.kind # "CodexSystem" /\ e.kind # "Unusable" /\ e.source = Selected[m]
    BY <2>6, PermittedIsSelected
  <2> QED
    BY <2>2, <2>5, <2>7
<1>5. \A n \in Name : Declared(n)' = Declared(n)
  BY <1>1 DEF Declared, ExistingSkills, Observed, Contents
<1>6. \A n \in Name : verdict'[n] = IF n = m THEN Verdict(m) ELSE verdict[n]
  BY <1>1
<1>7. NothingForeignIsOverlooked'
  BY <1>4, <1>5, <1>6 DEF NothingForeignIsOverlooked
<1>8. \A n \in Name : Lies(n)' = Lies(n)
  BY <1>1 DEF Lies, DirectEntries, Contents
<1>9. MountsLandOnNothing'
  <2>1. Verdict(m) = "create" => Lies(m) = {} /\ Declared(m) = {}
    BY <1>1, CreateLandsOnNothing
  <2> QED
    BY <1>5, <1>6, <1>8, <2>1 DEF MountsLandOnNothing
<1>10. SkippedIsUsable'
  <2> SUFFICES ASSUME NEW n \in Name, verdict'[n] = "preserve"
               PROVE  /\ policy = "skip"
                      /\ \A d \in Declared(n) :
                             /\ d.kind # "CodexSystem"
                             /\ d.kind = "ClaudeManaged" => d.skill.source = Selected[n]
                             /\ d.skill.kind # "Unusable"
                      /\ \E e \in {d.skill : d \in Declared(n)} \cup Lies(n) :
                             e.kind # "Unusable" /\ e.source # Selected[n]
    BY <1>1, <1>5, <1>8 DEF SkippedIsUsable
  <2>1. CASE n = m
    BY <1>1, <1>6, <2>1, PreserveIsUsable
  <2>2. CASE n # m
    BY <1>6, <2>2 DEF SkippedIsUsable
  <2> QED
    BY <2>1, <2>2
<1>11. FromRoots'
  BY <1>1 DEF FromRoots
<1> QED
  BY <1>1, <1>2, <1>3, <1>7, <1>9, <1>10, <1>11

LEMMA NextPreserves == IInv /\ [Next]_vars => IInv'
<1> SUFFICES ASSUME IInv, [Next]_vars PROVE IInv'
  OBVIOUS
<1>1. CASE Fold
  BY <1>1, FoldPreserves
<1>2. CASE \E n \in Name : Decide(n)
  BY <1>2, DecidePreserves
<1>3. CASE UNCHANGED vars
  <2> USE <1>3 DEF vars, IInv
  <2>1. Shapes' /\ Represented' /\ Undecided' /\ FromRoots'
    BY DEF Shapes, Represented, Undecided, FromRoots
  <2>2. \A n \in Name : Declared(n)' = Declared(n) /\ Lies(n)' = Lies(n)
    BY DEF Declared, Lies, ExistingSkills, Observed, DirectEntries, Contents
  <2>3. NothingForeignIsOverlooked' /\ MountsLandOnNothing' /\ SkippedIsUsable'
    BY <2>2 DEF NothingForeignIsOverlooked, MountsLandOnNothing, SkippedIsUsable
  <2> QED
    BY <2>1, <2>3
<1> QED
  BY <1>1, <1>2, <1>3 DEF Next

\* A name is mounted or reused only if the selected source is all that any discovery
\* root shows of it, whatever the roots, what they contain and how they overlap.
\* (dedupe_scopes_by_terminal, agent/mod.rs:434-478; apply_conflict_policy, plan.rs:43-113)
THEOREM ForeignSkillsStopTheMount == Spec => []NothingForeignIsOverlooked
<1>1. IInv => NothingForeignIsOverlooked
  BY DEF IInv
<1> QED
  BY <1>1, InitRepresented, NextPreserves, PTL DEF Spec

\* A link is planned only where nothing of that name lies or is declared, so the
\* transaction's precondition of a missing path is what the planning promised.
\* (apply_conflict_policy, plan.rs:68-107)
THEOREM LinksLandOnNothing == Spec => []MountsLandOnNothing
<1>1. IInv => MountsLandOnNothing
  BY DEF IInv
<1> QED
  BY <1>1, InitRepresented, NextPreserves, PTL DEF Spec

\* A name is skipped only for a foreign Skill the child can really use.
\* (visible_occupant, plan.rs:147-161)
THEOREM SkippingKeepsAUsableSkill == Spec => []SkippedIsUsable
<1>1. IInv => SkippedIsUsable
  BY DEF IInv
<1> QED
  BY <1>1, InitRepresented, NextPreserves, PTL DEF Spec

-----------------------------------------------------------------------------
(* The catalog.                                                            *)

\* What the first `n` sources select: for each key that one of them holds, the candidate
\* of the last that does; none of them has two names of one key.
FoldedUpTo(n) ==
    /\ DOMAIN selected \subseteq Key
    /\ \A i \in 1..n : ~HoldsTwice(sources[i])
    /\ \A k \in Key : (k \in DOMAIN selected) <=> \E i \in 1..n : Holds(sources[i], k) # {}
    /\ \A k \in DOMAIN selected : \E i \in 1..n :
           /\ Holds(sources[i], k) # {}
           /\ \A j \in 1..n : Holds(sources[j], k) # {} => j <= i
           /\ selected[k] = [ordinal |-> i, candidate |-> CandidateAt(i, k)]

CatalogInv ==
    /\ sources \in Seq(Sources) /\ sources # <<>>
    /\ next \in Nat
    /\ phase \in {"prepare", "scan"} =>
           next \in 1..Len(sources) /\ selected = <<>> /\ validated = {}
    /\ phase = "fold" =>
           next \in 1..Len(sources) /\ FoldedUpTo(next - 1) /\ validated = {}
    /\ phase \in {"alias", "validate", "resolved"} => FoldedUpTo(Len(sources))
    /\ phase = "alias" => validated = {}
    /\ phase \in {"validate", "resolved"} => ~Aliased
    /\ phase \in {"validate", "resolved"} =>
           validated \subseteq DOMAIN selected /\ \A k \in validated : Valid(k)
    /\ phase = "resolved" => validated = DOMAIN selected

LEMMA FirstOfIsLeast ==
  ASSUME NEW T, T \subseteq Nat, T # {}
  PROVE  FirstOf(T) \in T
BY LeastNatural DEF FirstOf

LEMMA InitCatalog == CatalogInit => CatalogInv
<1>. SUFFICES ASSUME CatalogInit PROVE CatalogInv
  OBVIOUS
<1>1. PICK command \in Commands : sources = command.sources
  BY DEF CatalogInit
<1>2. sources \in Seq(Sources) /\ sources # <<>>
  BY <1>1, CommandsAreTyped, SomethingIsAskedFor
<1>. QED  BY <1>2 DEF CatalogInit, CatalogInv

\* A step from one occurrence to the next, or to the next phase.
LEMMA ContinueSteps ==
  ASSUME sources \in Seq(Sources), next \in 1..Len(sources), NEW after, Continue(after)
  PROVE  \/ next < Len(sources) /\ phase' = phase /\ next' = next + 1
         \/ next = Len(sources) /\ phase' = after /\ next' = 1
  BY DEF Continue

\* Nothing is selected before the first source is folded.
LEMMA NothingIsFolded == selected = <<>> => FoldedUpTo(0)
  BY DEF FoldedUpTo

\* One more source: its candidates replace what they shadow.
LEMMA FoldsOneMore ==
  ASSUME CatalogInv, NEW n \in Nat, n + 1 \in 1..Len(sources), FoldedUpTo(n), ~HoldsTwice(sources[n + 1]),
         sources' = sources, selected' = LastWins(n + 1)
  PROVE  FoldedUpTo(n + 1)'
<1>. DEFINE keys == KeysIn(sources[n + 1])
<1>1. \A k : k \in keys <=> Holds(sources[n + 1], k) # {}
  BY DEF KeysIn, Holds
<1>2. keys \subseteq Key
  <2>1. sources[n + 1] \in Sources
    BY DEF CatalogInv
  <2>2. \A c \in sources[n + 1].candidates : c.name \in RawName
    BY <2>1 DEF Sources, Candidates
  <2>. QED  BY <2>2, KeysAreOrdered DEF KeysIn
<1>3. /\ DOMAIN selected' = keys \cup DOMAIN selected
      /\ \A k \in keys : selected'[k] = [ordinal |-> n + 1, candidate |-> CandidateAt(n + 1, k)]
      /\ \A k \in DOMAIN selected \ keys : selected'[k] = selected[k]
  BY DEF LastWins, CandidateAt
<1>4. \A i, k : Holds(sources[i], k)' = Holds(sources[i], k) /\ CandidateAt(i, k)' = CandidateAt(i, k)
  BY DEF Holds, CandidateAt
<1>5. 1..(n + 1) = 1..n \cup {n + 1}
  OBVIOUS
<1>. HIDE DEF keys
<1>6. \A k \in Key : (k \in DOMAIN selected') <=> \E i \in 1..(n + 1) : Holds(sources[i], k) # {}
  BY <1>1, <1>3, <1>5 DEF FoldedUpTo
<1>7. ASSUME NEW k \in DOMAIN selected'
      PROVE  \E i \in 1..(n + 1) :
               /\ Holds(sources[i], k) # {}
               /\ \A j \in 1..(n + 1) : Holds(sources[j], k) # {} => j <= i
               /\ selected'[k] = [ordinal |-> i, candidate |-> CandidateAt(i, k)]
  <2>1. CASE k \in keys
    <3>1. Holds(sources[n + 1], k) # {}
      BY <1>1, <2>1
    <3>2. n + 1 \in 1..(n + 1) /\ \A j \in 1..(n + 1) : j <= n + 1
      OBVIOUS
    <3>. QED  BY <1>3, <2>1, <3>1, <3>2
  <2>2. CASE k \notin keys
    <3>1. k \in DOMAIN selected
      BY <1>3, <2>2
    <3>2. PICK i \in 1..n :
               /\ Holds(sources[i], k) # {}
               /\ \A j \in 1..n : Holds(sources[j], k) # {} => j <= i
               /\ selected[k] = [ordinal |-> i, candidate |-> CandidateAt(i, k)]
      BY <3>1 DEF FoldedUpTo
    <3>3. Holds(sources[n + 1], k) = {}
      BY <1>1, <2>2
    <3>. QED  BY <3>1, <3>2, <3>3, <2>2, <1>3, <1>5
  <2>. QED  BY <2>1, <2>2
<1>8. DOMAIN selected' \subseteq Key
  BY <1>2, <1>3 DEF FoldedUpTo
<1>9. \A i \in 1..(n + 1) : ~HoldsTwice(sources[i])
  BY <1>5 DEF FoldedUpTo
<1>. QED  BY <1>4, <1>6, <1>7, <1>8, <1>9 DEF FoldedUpTo

\* What was folded stays folded while sources and selection stay.
LEMMA StaysFolded ==
  ASSUME NEW n, FoldedUpTo(n), sources' = sources, selected' = selected
  PROVE  FoldedUpTo(n)'
  BY DEF FoldedUpTo, Holds, CandidateAt

LEMMA CatalogNextPreserves == CatalogInv /\ [CatalogNext]_catalogVars => CatalogInv'
<1>. SUFFICES ASSUME CatalogInv, [CatalogNext]_catalogVars PROVE CatalogInv'
  OBVIOUS
<1>1. CASE UNCHANGED catalogVars
  <2>1. \A n : FoldedUpTo(n) => FoldedUpTo(n)'
    BY <1>1, StaysFolded DEF catalogVars
  <2>2. (\A k : Valid(k)' = Valid(k)) /\ (Aliased' <=> Aliased)
    BY <1>1 DEF Valid, Passes, Aliased, catalogVars
  <2>. QED  BY <1>1, <2>1, <2>2 DEF CatalogInv, catalogVars
<1>2. CASE PrepareSource
  <2>1. Continue("scan") \/ Fail("MissingInput")
    BY <1>2 DEF PrepareSource
  <2>. QED
    BY <1>2, <2>1, ContinueSteps DEF CatalogInv, PrepareSource, Fail, given, folded
<1>3. CASE ScanSource
  <2>1. Continue("fold") \/ Fail("EmptyCatalog")
    BY <1>3 DEF ScanSource
  <2>2. selected' = <<>> /\ sources' = sources
    BY <1>3 DEF ScanSource, CatalogInv, given, folded
  <2>3. FoldedUpTo(0)'
    <3>1. selected = <<>> /\ selected' = selected
      BY <1>3 DEF ScanSource, CatalogInv, folded
    <3>. QED  BY <2>2, <3>1, NothingIsFolded, StaysFolded
  <2>. QED
    BY <1>3, <2>1, <2>2, <2>3, ContinueSteps DEF CatalogInv, ScanSource, Fail, given, folded
<1>4. CASE FoldSource
  <2>0. next \in 1..Len(sources) /\ FoldedUpTo(next - 1) /\ next - 1 \in Nat /\ validated = {}
    BY <1>4 DEF FoldSource, CatalogInv
  <2>1. CASE HoldsTwice(sources[next])
    BY <1>4, <2>1 DEF CatalogInv, FoldSource, Fail, given
  <2>2. CASE ~HoldsTwice(sources[next])
    <3>1. selected' = LastWins(next) /\ Continue("alias") /\ sources' = sources
      BY <1>4, <2>0, <2>2 DEF FoldSource, given
    <3>2. PICK n \in Nat : n = next - 1 /\ next = n + 1
      BY <2>0
    <3>3. FoldedUpTo(n + 1)'
      BY <2>0, <2>2, <3>1, <3>2, FoldsOneMore
    <3>4. \/ phase' = "fold" /\ next' = next + 1 /\ next < Len(sources)
          \/ phase' = "alias" /\ next' = 1 /\ next = Len(sources)
      BY <1>4, <2>0, <3>1, ContinueSteps DEF CatalogInv, FoldSource
    <3>5. validated' = validated /\ Len(sources) \in Nat
      BY <1>4 DEF FoldSource, CatalogInv
    <3>6. CASE phase' = "fold"
      <4>1. next' - 1 = n + 1 /\ next' \in 1..Len(sources)
        BY <2>0, <3>2, <3>4, <3>5, <3>6
      <4>2. FoldedUpTo(next - 1)'
        BY <3>3, <4>1
      <4>. QED  BY <2>0, <3>1, <3>5, <3>6, <4>1, <4>2 DEF CatalogInv
    <3>7. CASE phase' = "alias"
      <4>1. FoldedUpTo(Len(sources))'
        BY <3>1, <3>2, <3>3, <3>4, <3>7
      <4>. QED  BY <2>0, <3>1, <3>4, <3>5, <3>7, <4>1 DEF CatalogInv
    <3>. QED  BY <3>4, <3>6, <3>7
  <2>. QED  BY <2>1, <2>2
<1>5. CASE RejectCanonicalAliases
  <2>1. FoldedUpTo(Len(sources))'
    BY <1>5, StaysFolded DEF RejectCanonicalAliases, CatalogInv, given, folded
  <2>2. phase' = "validate" => ~Aliased'
    BY <1>5 DEF RejectCanonicalAliases, Aliased, folded
  <2>. QED
    BY <1>5, <2>1, <2>2 DEF CatalogInv, RejectCanonicalAliases, given, folded
<1>6. CASE ValidateSelected
  <2>. DEFINE k == FirstOf(DOMAIN selected \ validated)
  <2>1. FoldedUpTo(Len(sources))'
    BY <1>6, StaysFolded DEF ValidateSelected, CatalogInv, given, folded
  <2>2. k \in DOMAIN selected \ validated
    <3>1. DOMAIN selected \ validated \subseteq Nat /\ DOMAIN selected \ validated # {}
      BY <1>6, KeysAreOrdered DEF ValidateSelected, CatalogInv, FoldedUpTo
    <3>. QED  BY <3>1, FirstOfIsLeast
  <2>. HIDE DEF k
  <2>3. /\ phase = "validate" /\ given' = given /\ folded' = folded /\ next' = next
        /\ \/ Valid(k) /\ validated' = validated \cup {k} /\ phase' = "validate"
           \/ phase' = "InvalidSkill"
    BY <1>6 DEF ValidateSelected, k
  <2>4. (\A l : Valid(l)' = Valid(l)) /\ (Aliased' <=> Aliased)
    BY <2>3 DEF Valid, Passes, Aliased, given, folded
  <2>. QED
    BY <2>1, <2>2, <2>3, <2>4 DEF CatalogInv, given, folded
<1>7. CASE Resolve
  <2>1. FoldedUpTo(Len(sources))'
    BY <1>7, StaysFolded DEF Resolve, CatalogInv, given, folded
  <2>2. (\A l : Valid(l)' = Valid(l)) /\ (Aliased' <=> Aliased)
    BY <1>7 DEF Resolve, Valid, Passes, Aliased, given, folded
  <2>. QED
    BY <1>7, <2>1, <2>2 DEF CatalogInv, Resolve, given, folded
<1>. QED
  BY <1>1, <1>2, <1>3, <1>4, <1>5, <1>6, <1>7 DEF CatalogNext

LEMMA CatalogInvariant == CatalogSpec => []CatalogInv
  BY InitCatalog, CatalogNextPreserves, PTL DEF CatalogSpec

\* For any sources in any order: what a catalog resolves to is, for each name, the valid
\* candidate of the last source that has one of that name, the only one of that source,
\* and no two names lead to one directory. (fold_sources, catalog/resolve.rs:17-60;
\* validate_resolutions, 61-85; reject_canonical_aliases, 98-119)
THEOREM RightmostWins == CatalogSpec => []RightmostOrNothing
<1>1. CatalogInv => RightmostOrNothing
  <2>. SUFFICES ASSUME CatalogInv, phase = "resolved", NEW k \in Key, Holders(k) # {}
                PROVE  LET winner == CandidateAt(Rightmost(k), k) IN
                       /\ k \in DOMAIN selected
                       /\ selected[k] = [ordinal |-> Rightmost(k), candidate |-> winner]
                       /\ Passes(winner, catalogPolicy, level)
                       /\ \A i \in Holders(k) : \A c \in Holds(sources[i], k) : c = CandidateAt(i, k)
                       /\ \A l \in DOMAIN selected \ {k} :
                              selected[l].candidate.canonical # winner.canonical
    BY DEF RightmostOrNothing
  <2>1. DOMAIN sources = 1..Len(sources)
    BY DEF CatalogInv
  <2>2. k \in DOMAIN selected
    BY <2>1 DEF CatalogInv, FoldedUpTo, Holders
  <2>3. PICK i \in 1..Len(sources) :
             /\ Holds(sources[i], k) # {}
             /\ \A j \in 1..Len(sources) : Holds(sources[j], k) # {} => j <= i
             /\ selected[k] = [ordinal |-> i, candidate |-> CandidateAt(i, k)]
    BY <2>2 DEF CatalogInv, FoldedUpTo
  <2>4. Rightmost(k) = i
    <3>1. Holders(k) \subseteq Int /\ i \in Holders(k) /\ \A j \in Holders(k) : j <= i
      BY <2>1, <2>3 DEF Holders
    <3>2. \A j \in Holders(k) : (\A l \in Holders(k) : l <= j) => j = i
      BY <3>1
    <3>. QED  BY <3>1, <3>2 DEF Rightmost
  <2>5. Valid(k)
    BY <2>2 DEF CatalogInv
  <2>6. ASSUME NEW j \in Holders(k), NEW c \in Holds(sources[j], k) PROVE c = CandidateAt(j, k)
    <3>1. ~HoldsTwice(sources[j])
      BY <2>1 DEF CatalogInv, FoldedUpTo, Holders
    <3>2. CandidateAt(j, k) \in Holds(sources[j], k)
      BY <2>6 DEF CandidateAt
    <3>. QED  BY <2>6, <3>1, <3>2 DEF HoldsTwice, Holds
  <2>7. ASSUME NEW l \in DOMAIN selected, l # k
        PROVE  selected[l].candidate.canonical # selected[k].candidate.canonical
    BY <2>2, <2>5, <2>7 DEF CatalogInv, Aliased, Valid, Passes
  <2>. QED  BY <2>2, <2>3, <2>4, <2>5, <2>6, <2>7 DEF Valid
<1>. QED  BY <1>1, CatalogInvariant, PTL

-----------------------------------------------------------------------------
(* Arguments: how a list is read.                                          *)

\* The roles of the first words of a list, as Reading gathers them.
ReadsUpTo(f, table, s, m) ==
    f = [n \in 0..m |-> IF n = 0 THEN <<>> ELSE Append(f[n - 1], Role(table, s, f[n - 1], n))]
RolesUpTo(table, s) == CHOOSE f : ReadsUpTo(f, table, s, Len(s))

LEMMA ReadingExists ==
  ASSUME NEW table, NEW s, Len(s) \in Nat
  PROVE  \E f : ReadsUpTo(f, table, s, Len(s))
<1>. DEFINE Has(m) == \E f : ReadsUpTo(f, table, s, m)
            bad == {m \in Nat : ~Has(m)}
<1>. HIDE DEF Has
<1>. SUFFICES ASSUME bad # {} PROVE FALSE
  BY DEF Has
<1>1. PICK m \in bad : \A n \in bad : m <= n
  BY LeastNatural
<1>2. m # 0
  <2>1. ReadsUpTo([n \in 0..0 |-> <<>>], table, s, 0)
    BY DEF ReadsUpTo
  <2>. QED  BY <2>1 DEF Has
<1>3. m - 1 \in Nat /\ m - 1 \notin bad
  BY <1>1, <1>2
<1>4. PICK f : ReadsUpTo(f, table, s, m - 1)
  BY <1>3 DEF Has
<1>. DEFINE Longer(r, n) == Append(r, Role(table, s, r, n))
            g == [n \in 0..m |-> IF n = m THEN Longer(f[m - 1], m) ELSE f[n]]
<1>5. ReadsUpTo(g, table, s, m)
  <2>1. f = [n \in 0..(m - 1) |-> IF n = 0 THEN <<>> ELSE Longer(f[n - 1], n)]
    BY <1>4 DEF ReadsUpTo
  <2>. HIDE DEF Longer
  <2>2. \A n \in 0..m : g[n] = IF n = 0 THEN <<>> ELSE Longer(g[n - 1], n)
    <3>1. ASSUME NEW n \in 0..m, n # m, n # 0 PROVE g[n] = Longer(g[n - 1], n)
      <4>1. n \in 0..(m - 1) /\ n - 1 \in 0..m /\ n - 1 # m
        BY <3>1, <1>3
      <4>. QED  BY <2>1, <4>1, <3>1
    <3>2. m - 1 \in 0..m /\ m - 1 # m /\ 0 \in 0..(m - 1) /\ 0 \in 0..m
      BY <1>3
    <3>3. g[m] = Longer(g[m - 1], m)
      BY <3>2, <1>3
    <3>4. g[0] = <<>>
      BY <2>1, <3>2, <1>2
    <3>. QED  BY <3>1, <3>3, <3>4, <1>2
  <2>3. g = [n \in 0..m |-> IF n = 0 THEN <<>> ELSE Longer(g[n - 1], n)]
    BY <2>2
  <2>. QED  BY <2>3 DEF ReadsUpTo, Longer
<1>. QED  BY <1>5 DEF Has

\* What a reading says of every word: its role, given the roles of the words before it.
IsReading(table, s, r) ==
    /\ DOMAIN r = 1..Len(s)
    /\ \A i \in 1..Len(s) : r[i] = Role(table, s, r, i)

\* The role of a word depends on the words before it alone.
LEMMA RoleLooksBack ==
  ASSUME NEW table, NEW s, NEW q, NEW r, NEW i, \A j \in 1..i - 1 : q[j] = r[j]
  PROVE  Role(table, s, q, i) = Role(table, s, r, i)
BY DEF Role

LEMMA ReadingIsReading ==
  ASSUME NEW table, NEW s, Len(s) \in Nat
  PROVE  IsReading(table, s, Reading(table, s))
<1>. DEFINE f == RolesUpTo(table, s)
            len == Len(s)
            Longer(q, n) == Append(q, Role(table, s, q, n))
            IsUpTo(n) == /\ f[n] \in Seq({Role(table, s, f[k - 1], k) : k \in 1..len})
                         /\ Len(f[n]) = n
                         /\ \A k \in 1..n : f[n][k] = Role(table, s, f[n], k)
            bad == {n \in 0..len : ~IsUpTo(n)}
<1>1. ReadsUpTo(f, table, s, len)
  BY ReadingExists DEF RolesUpTo
<1>2. Reading(table, s) = f[len]
  BY DEF Reading, RolesUpTo, ReadsUpTo
<1>. HIDE DEF f
<1>3. f[0] = <<>> /\ \A n \in 1..len : f[n] = Longer(f[n - 1], n)
  <2>1. f = [n \in 0..len |-> IF n = 0 THEN <<>> ELSE Longer(f[n - 1], n)]
    BY <1>1 DEF ReadsUpTo
  <2>2. len \in Nat
    OBVIOUS
  <2>. HIDE DEF Longer, len
  <2>3. 0 \in 0..len /\ \A n \in 1..len : n \in 0..len /\ n # 0
    BY <2>2
  <2>. QED  BY <2>1, <2>3
<1>4. bad = {}
  <2>. SUFFICES ASSUME bad # {} PROVE FALSE
    OBVIOUS
  <2>1. PICK m \in bad : \A n \in bad : m <= n
    <3>1. bad \subseteq Nat
      OBVIOUS
    <3>. HIDE DEF bad
    <3>. QED  BY <3>1, LeastNatural
  <2>2. m # 0
    <3>1. IsUpTo(0)
      BY <1>3
    <3>. QED  BY <2>1, <3>1
  <2>3. m \in 1..len /\ m - 1 \in 0..len /\ m - 1 \notin bad
    BY <2>1, <2>2
  <2>4. IsUpTo(m - 1)
    BY <2>3
  <2>. DEFINE R == {Role(table, s, f[k - 1], k) : k \in 1..len}
              x == Role(table, s, f[m - 1], m)
  <2>5. x \in R /\ f[m] = Append(f[m - 1], x)
    BY <1>3, <2>3
  <2>6. f[m - 1] \in Seq(R) /\ Len(f[m - 1]) = m - 1
    BY <2>4
  <2>7. /\ f[m] \in Seq(R) /\ Len(f[m]) = m
        /\ \A k \in 1..m - 1 : f[m][k] = f[m - 1][k]
        /\ f[m][m] = x
    <3>. HIDE DEF x, R
    <3>. QED  BY <2>3, <2>5, <2>6
  <2>8. \A k \in 1..m : f[m][k] = Role(table, s, f[m], k)
    <3>1. ASSUME NEW k \in 1..m, k # m PROVE f[m][k] = Role(table, s, f[m], k)
      <4>1. k \in 1..m - 1
        BY <2>3, <3>1
      <4>2. f[m][k] = Role(table, s, f[m - 1], k)
        BY <2>4, <2>7, <4>1
      <4>3. \A j \in 1..k - 1 : f[m - 1][j] = f[m][j]
        BY <2>3, <2>7, <4>1
      <4>4. Role(table, s, f[m - 1], k) = Role(table, s, f[m], k)
        BY <4>3, RoleLooksBack
      <4>. QED  BY <4>2, <4>4
    <3>2. f[m][m] = Role(table, s, f[m], m)
      <4>1. \A j \in 1..m - 1 : f[m - 1][j] = f[m][j]
        BY <2>7
      <4>2. Role(table, s, f[m - 1], m) = Role(table, s, f[m], m)
        BY <4>1, RoleLooksBack
      <4>. QED  BY <4>2, <2>7
    <3>. QED  BY <3>1, <3>2
  <2>9. IsUpTo(m)
    BY <2>7, <2>8
  <2>. QED  BY <2>1, <2>9
<1>5. IsUpTo(len)
  <2>1. len \in 0..len
    OBVIOUS
  <2>. QED  BY <1>4, <2>1
<1>6. DOMAIN f[len] = 1..len
  BY <1>5
<1>. QED  BY <1>2, <1>5, <1>6 DEF IsReading

\* The reading has come to a word when no option before it claims what begins there.
Reached(table, s, r, p) ==
    /\ \A j \in 1..p - 1 : r[j] # "terminator"
    /\ \A j \in 1..p - 1 : \A i \in p..Len(s) :
          r[j] = "option" => ~Claims(Arity(table, s[j]), s, j, i)

\* The role of a word that nothing claims.
OwnRole(table, w) ==
    IF w = "--" THEN "terminator"
    ELSE IF OptionShaped(table, w) THEN "option" ELSE "positional"

LEMMA Standing ==
  ASSUME NEW table, NEW s, NEW r, NEW p, IsReading(table, s, r), Len(s) \in Nat,
         p \in 1..Len(s), Reached(table, s, r, p)
  PROVE  r[p] = OwnRole(table, s[p])
BY DEF IsReading, Reached, Role, OwnRole

\* What an option claims at once behind it are values.
LEMMA ClaimedAreValues ==
  ASSUME NEW table, NEW s, NEW r, NEW p, NEW n, IsReading(table, s, r), Len(s) \in Nat,
         p \in 1..Len(s), Reached(table, s, r, p), r[p] = "option", n \in Nat, p + n <= Len(s),
         \A i \in p + 1..p + n : Claims(Arity(table, s[p]), s, p, i)
  PROVE  \A i \in p + 1..p + n : r[i] = "value"
<1>. DEFINE bad == {i \in p + 1..p + n : r[i] # "value"}
<1>. SUFFICES ASSUME bad # {} PROVE FALSE
  OBVIOUS
<1>1. PICK m \in bad : \A i \in bad : m <= i
  <2>1. bad \subseteq Nat
    OBVIOUS
  <2>. HIDE DEF bad
  <2>. QED  BY <2>1, LeastNatural
<1>2. m \in 1..Len(s) /\ p \in 1..m - 1
  BY <1>1
<1>3. \A j \in 1..m - 1 : r[j] # "terminator"
  <2>. SUFFICES ASSUME NEW j \in 1..m - 1 PROVE r[j] # "terminator"
    OBVIOUS
  <2>1. CASE j < p
    BY <2>1 DEF Reached
  <2>2. CASE j = p
    BY <2>2
  <2>3. CASE p < j
    <3>1. j \in p + 1..p + n /\ j \notin bad
      BY <1>1, <2>3
    <3>. QED  BY <3>1
  <2>. QED  BY <2>1, <2>2, <2>3
<1>4. r[m] = Role(table, s, r, m)
  BY <1>2 DEF IsReading
<1>5. r[m] = "value"
  BY <1>1, <1>2, <1>3, <1>4 DEF Role
<1>. QED  BY <1>1, <1>5

\* Past a word and what it claims the reading comes to the next.
LEMMA ReachedNext ==
  ASSUME NEW table, NEW s, NEW r, NEW p, NEW n, IsReading(table, s, r), Len(s) \in Nat,
         p \in 1..Len(s), Reached(table, s, r, p), n \in Nat, p + n <= Len(s),
         r[p] # "terminator", n = 0 \/ r[p] = "option",
         r[p] = "option" =>
            \A i \in p + 1..Len(s) : Claims(Arity(table, s[p]), s, p, i) <=> i <= p + n
  PROVE  /\ Reached(table, s, r, p + n + 1)
         /\ \A i \in p + 1..p + n : r[i] = "value"
<1>1. \A i \in p + 1..p + n : r[i] = "value"
  <2>1. CASE n = 0
    BY <2>1
  <2>2. CASE r[p] = "option"
    <3>1. \A i \in p + 1..p + n : i \in p + 1..Len(s) /\ i <= p + n
      OBVIOUS
    <3>2. \A i \in p + 1..p + n : Claims(Arity(table, s[p]), s, p, i)
      BY <2>2, <3>1
    <3>. QED  BY <2>2, <3>2, ClaimedAreValues
  <2>. QED  BY <2>1, <2>2
<1>2. \A j \in 1..p + n : j < p \/ j = p \/ j \in p + 1..p + n
  OBVIOUS
<1>3. \A j \in 1..p + n : r[j] # "terminator"
  BY <1>1, <1>2 DEF Reached
<1>4. ASSUME NEW j \in 1..p + n, NEW i \in p + n + 1..Len(s), r[j] = "option"
      PROVE  ~Claims(Arity(table, s[j]), s, j, i)
  <2>1. CASE j < p
    BY <1>4, <2>1 DEF Reached
  <2>2. CASE j = p
    BY <1>4, <2>2
  <2>3. CASE j \in p + 1..p + n
    BY <1>1, <1>4, <2>3
  <2>. QED  BY <1>2, <2>1, <2>2, <2>3
<1>5. (p + n + 1) - 1 = p + n
  OBVIOUS
<1>. QED  BY <1>1, <1>3, <1>4, <1>5 DEF Reached

\* Behind the terminator everything is text.
LEMMA TextFollows ==
  ASSUME NEW table, NEW s, NEW r, NEW p, IsReading(table, s, r), Len(s) \in Nat,
         p \in 1..Len(s), r[p] = "terminator"
  PROVE  \A i \in p + 1..Len(s) : r[i] = "text"
<1>. SUFFICES ASSUME NEW i \in p + 1..Len(s) PROVE r[i] = "text"
  OBVIOUS
<1>1. i \in 1..Len(s) /\ p \in 1..i - 1
  OBVIOUS
<1>. QED  BY <1>1 DEF IsReading, Role

\* The first word of its kind is the command.
LEMMA FirstIsCommand ==
  ASSUME NEW T, NEW c \in T, T \subseteq Nat, \A j \in T : c <= j
  PROVE  FirstAt(T) = {c}
<1>1. c \in FirstAt(T)
  BY DEF FirstAt
<1>2. \A i \in FirstAt(T) : i = c
  <2>1. \A i \in FirstAt(T) : i \in Nat /\ c \in Nat /\ i <= c /\ c <= i
    BY DEF FirstAt
  <2>. QED  BY <2>1
<1>. QED  BY <1>1, <1>2

\* The words up to a place hold the first positional one, and it is no command of these.
FirstWord(s, r, p, still, commands) ==
    /\ still => \A i \in 1..p - 1 : r[i] # "positional"
    /\ ~still => \E c \in 1..p - 1 : /\ r[c] = "positional" /\ s[c] \notin commands
                                     /\ \A j \in 1..c - 1 : r[j] # "positional"

LEMMA FirstWordNext ==
  ASSUME NEW s, NEW r, NEW p, NEW n, NEW still, NEW commands, p \in Nat \ {0}, n \in Nat,
         FirstWord(s, r, p, still, commands), \A i \in p + 1..p + n : r[i] = "value",
         r[p] = "positional" => ~(still /\ s[p] \in commands)
  PROVE  FirstWord(s, r, p + n + 1, still /\ r[p] # "positional", commands)
<1>1. \A j \in 1..(p + n + 1) - 1 : j \in 1..p - 1 \/ j = p \/ j \in p + 1..p + n
  OBVIOUS
<1>2. p \in 1..(p + n + 1) - 1 /\ 1..p - 1 \subseteq 1..(p + n + 1) - 1
  OBVIOUS
<1>3. CASE ~still
  <2>1. PICK c \in 1..p - 1 : /\ r[c] = "positional" /\ s[c] \notin commands
                              /\ \A j \in 1..c - 1 : r[j] # "positional"
    BY <1>3 DEF FirstWord
  <2>2. c \in 1..(p + n + 1) - 1
    BY <1>2
  <2>. QED  BY <1>3, <2>1, <2>2 DEF FirstWord
<1>4. CASE still /\ r[p] = "positional"
  BY <1>2, <1>4 DEF FirstWord
<1>5. CASE still /\ r[p] # "positional"
  BY <1>1, <1>5 DEF FirstWord
<1>. QED  BY <1>3, <1>4, <1>5

\* What the tables let an option claim.
LEMMA OmpArity ==
  ASSUME NEW w
  PROVE  /\ w \in OmpRequired => Arity("omp", w) = "one"
         /\ w \in OmpShadowable => Arity("omp", w) = "value_like"
         /\ w \in OmpOptional => Arity("omp", w) = "optional"
         /\ w \notin OmpRequired \cup OmpShadowable \cup OmpOptional => Arity("omp", w) = "none"
BY DEF Arity, OmpRequired, OmpShadowable, OmpOptional

LEMMA ClaudeArity ==
  ASSUME NEW w
  PROVE  /\ w \in ClaudeSingle => Arity("claude", w) = "one"
         /\ w \in ClaudeOptional => Arity("claude", w) = "value_like"
         /\ w \in ClaudeVariadic => Arity("claude", w) = "many"
         /\ w \notin ClaudeSingle \cup ClaudeOptional \cup ClaudeVariadic => Arity("claude", w) = "none"
BY DEF Arity, ClaudeSingle, ClaudeOptional, ClaudeVariadic

LEMMA CodexArity ==
  ASSUME NEW w
  PROVE  /\ w \in CodexRootValue => Arity("codex", w) = "one"
         /\ w \in CodexExecValue => Arity("exec", w) = "one"
         /\ w = "-i" => Arity("codex", w) = "many" /\ Arity("exec", w) = "many"
         /\ w \notin CodexRootValue \cup {"-i"} => Arity("codex", w) = "none"
         /\ w \notin CodexExecValue \cup {"-i"} => Arity("exec", w) = "none"
BY DEF Arity, CodexRootValue, CodexExecValue

\* An option with a value of its own takes the next word, whatever it looks like.
LEMMA ReachedPair ==
  ASSUME NEW table, NEW s, NEW r, NEW p, IsReading(table, s, r), Len(s) \in Nat,
         p \in 1..Len(s), Reached(table, s, r, p), p + 1 <= Len(s),
         s[p] # "--", OptionShaped(table, s[p]), Arity(table, s[p]) = "one"
  PROVE  Reached(table, s, r, p + 2) /\ r[p] = "option" /\ r[p + 1] = "value"
<1>1. r[p] = "option"
  BY Standing DEF OwnRole
<1>2. \A i \in p + 1..Len(s) : Claims(Arity(table, s[p]), s, p, i) <=> i <= p + 1
  <2>1. \A i \in p + 1..Len(s) : Claims("one", s, p, i) <=> i <= p + 1
    BY DEF Claims
  <2>. QED  BY Zenon, <2>1
<1>. DEFINE n == 1
<1>3. n \in Nat /\ p + n <= Len(s) /\ p + n = p + 1 /\ p + n + 1 = p + 2
  OBVIOUS
<1>. HIDE DEF n
<1>4. Reached(table, s, r, p + n + 1) /\ \A i \in p + 1..p + n : r[i] = "value"
  BY <1>1, <1>2, <1>3, ReachedNext
<1>. QED  BY <1>1, <1>3, <1>4

LEMMA FirstWordStands ==
  ASSUME NEW s, NEW r, NEW p, NEW still, NEW commands, NEW T, p \in Nat \ {0}, Len(s) \in Nat,
         p <= Len(s) + 1, FirstWord(s, r, p, still, commands), ~still, T \subseteq 1..Len(s),
         \A i \in 1..Len(s) : r[i] = "positional" => i \in T,
         \A i \in T : r[i] = "positional" \/ i >= p
  PROVE  \A i \in FirstAt(T) : s[i] \notin commands
<1>1. PICK c \in 1..p - 1 : /\ r[c] = "positional" /\ s[c] \notin commands
                            /\ \A j \in 1..c - 1 : r[j] # "positional"
  BY DEF FirstWord
<1>2. c \in T
  BY <1>1
<1>3. \A j \in T : c <= j
  <2>. SUFFICES ASSUME NEW j \in T, j < c PROVE FALSE
    OBVIOUS
  <2>1. j \in 1..c - 1 /\ ~(j >= p)
    OBVIOUS
  <2>. QED  BY <1>1, <2>1
<1>4. T \subseteq Nat
  OBVIOUS
<1>5. FirstAt(T) = {c}
  BY <1>2, <1>3, <1>4, FirstIsCommand
<1>. QED  BY <1>1, <1>5

\* Only the scan moves; the list stays what the operator gave.
IsList == agent \in Agents /\ args \in Seq(Words(agent))

\* The child's list: the adapter's own options, then the operator's words.
BehindInjected(k) ==
    /\ Len(Injected) = k /\ DOMAIN Injected = 1..k
    /\ Len(args) \in Nat /\ Len(Argv) = Len(args) + k /\ DOMAIN Argv = 1..Len(Argv)
    /\ \A i \in 1..k : Argv[i] = Injected[i]
    /\ \A i \in 1..Len(args) : Argv[i + k] = args[i]

LEMMA OperatorsWordsFollow ==
  ASSUME IsList, NEW k \in Nat, NEW S, Injected \in Seq(S), Len(Injected) = k
  PROVE  BehindInjected(k)
<1>1. args \in Seq(S \cup Words(agent)) /\ Injected \in Seq(S \cup Words(agent))
  BY DEF IsList
<1>. QED  BY <1>1 DEF Argv, BehindInjected

LEMMA ListFromInit == ArgumentsInit => IsList
<1>. SUFFICES ASSUME ArgumentsInit PROVE IsList
  OBVIOUS
<1>1. agent \in Agents
  BY DEF ArgumentsInit
<1>3. PICK n \in 0..MaxArgs : args \in [1..n -> Words(agent)]
  BY DEF ArgumentsInit
<1>4. n \in Nat
  BY <1>3, ArgsAssumption
<1>. QED  BY <1>1, <1>3, <1>4 DEF IsList

-----------------------------------------------------------------------------
(* Arguments: what OMP reads.                                              *)

OmpMoves(i) ==
    \/ Argv[i] \in OmpControls \cup {"--mode=acp"}
    \/ Argv[i] = "--mode" /\ i < Len(Argv) /\ Argv[i + 1] \in RejectedModes

\* As far as the scan has come it has read the list as the agent does.
OmpScanned ==
    LET r == Reading("omp", Argv) IN
    /\ at \in Nat \ {0} /\ at <= Len(args) + 1
    /\ Reached("omp", Argv, r, at + 2)
    /\ FirstWord(Argv, r, at + 2, open, OmpCommands)
    /\ \A i \in 3..at + 1 : r[i] = "option" => ~OmpMoves(i)

OmpInv ==
    agent = "omp" =>
        /\ ruling = "scanning" => OmpScanned
        /\ ruling = "accepted" => ~OmpLeaves(Reading("omp", Argv))

LEMMA OmpList ==
  ASSUME IsList, agent = "omp"
  PROVE  BehindInjected(2) /\ Argv[1] = "--config" /\ Argv[2] = "word"
<1>1. Injected = <<"--config", "word">>
  BY DEF Injected
<1>2. Injected \in Seq({"--config", "word"}) /\ Len(Injected) = 2
  BY <1>1
<1>3. BehindInjected(2)
  BY <1>2, OperatorsWordsFollow
<1>. QED  BY <1>1, <1>3 DEF BehindInjected

LEMMA OmpStarts ==
  ASSUME IsList, agent = "omp", at = 1, open
  PROVE  OmpScanned
<1>. DEFINE r == Reading("omp", Argv)
<1>1. /\ Len(Argv) \in Nat /\ 2 <= Len(Argv) /\ Len(Argv) = Len(args) + 2 /\ Len(args) \in Nat
      /\ Argv[1] = "--config" /\ Argv[2] = "word"
  BY OmpList DEF BehindInjected, IsList
<1>2. IsReading("omp", Argv, r)
  BY <1>1, ReadingIsReading
<1>. HIDE DEF r
<1>3. Reached("omp", Argv, r, 1)
  BY DEF Reached
<1>4. Reached("omp", Argv, r, 1 + 2) /\ r[1] = "option" /\ r[1 + 1] = "value"
  <2>1. 1 \in 1..Len(Argv) /\ 1 + 1 <= Len(Argv)
    BY <1>1
  <2>2. Argv[1] # "--" /\ OptionShaped("omp", Argv[1])
    BY <1>1 DEF OptionShaped, Dashed, Plain
  <2>3. Arity("omp", Argv[1]) = "one"
    BY <1>1, OmpArity DEF OmpRequired
  <2>. QED  BY <1>1, <1>2, <1>3, <2>1, <2>2, <2>3, ReachedPair
<1>7. Reached("omp", Argv, r, 3) /\ r[2] = "value"
  BY <1>4
<1>8. FirstWord(Argv, r, 3, open, OmpCommands)
  BY <1>4, <1>7 DEF FirstWord
<1>9. at + 2 = 3 /\ at + 1 = 2 /\ at \in Nat \ {0} /\ at <= Len(args) + 1 /\ 3..2 = {}
  BY <1>1
<1>. QED  BY <1>7, <1>8, <1>9 DEF OmpScanned, r

LEMMA OmpPassScans ==
  ASSUME IsList, agent = "omp", OmpScanned, OmpPass
  PROVE  /\ OmpScanned'
         /\ OmpTakes(Word) => Reading("omp", Argv)[at + 3] = "value"
<1>. DEFINE r == Reading("omp", Argv)
            p == at + 2
            n == IF OmpTakes(Word) THEN 1 ELSE 0
<1>1. /\ Len(Argv) \in Nat /\ Len(Argv) = Len(args) + 2 /\ Len(args) \in Nat
      /\ \A i \in 1..Len(args) : Argv[i + 2] = args[i]
  BY OmpList DEF BehindInjected, IsList
<1>2. IsReading("omp", Argv, r)
  BY <1>1, ReadingIsReading
<1>3. /\ at \in Nat \ {0} /\ at <= Len(args) /\ Word # "--" /\ ~OmpRejects(Word)
      /\ at' = at + 1 + n /\ open' = (open /\ Dashed(Word))
      /\ args' = args /\ agent' = agent /\ mountMode' = mountMode
  BY DEF OmpPass, OmpScanned, Advances
<1>4. Argv' = Argv
  BY <1>3 DEF Argv, Injected
<1>. HIDE DEF r
<1>5. /\ Reached("omp", Argv, r, p) /\ FirstWord(Argv, r, p, open, OmpCommands)
      /\ \A i \in 3..at + 1 : r[i] = "option" => ~OmpMoves(i)
  BY DEF OmpScanned, r
<1>6. p \in 1..Len(Argv) /\ Argv[p] = Word /\ (at < Len(args) => Argv[p + 1] = args[at + 1])
  BY <1>1, <1>3 DEF Word
<1>7. r[p] = IF Dashed(Word) THEN "option" ELSE "positional"
  BY <1>1, <1>2, <1>3, <1>5, <1>6, Standing DEF OwnRole, OptionShaped
<1>8. n = 1 => at < Len(args) /\ Dashed(Word)
  <2>1. Next1 # {} => at < Len(args)
    BY DEF Next1
  <2>2. OmpTakes(Word) => Next1 # {} /\ Word \in OmpRequired \cup OmpShadowable \cup OmpOptional
    BY DEF OmpTakes
  <2>3. Word \in OmpRequired \cup OmpShadowable \cup OmpOptional => Dashed(Word)
    BY DEF OmpRequired, OmpShadowable, OmpOptional, Dashed, Plain
  <2>. QED  BY <2>1, <2>2, <2>3
<1>9. \A i \in p + 1..Len(Argv) : Claims(Arity("omp", Word), Argv, p, i) <=> i <= p + n
  <2>. SUFFICES ASSUME NEW i \in p + 1..Len(Argv)
                PROVE  Claims(Arity("omp", Word), Argv, p, i) <=> i <= p + n
    OBVIOUS
  <2>1. at < Len(args) /\ Next1 = {Argv[p + 1]}
    BY <1>1, <1>3, <1>6 DEF Next1
  <2>2. CASE Word \in OmpRequired
    <3>1. Arity("omp", Word) = "one"
      BY <2>2, OmpArity
    <3>2. OmpTakes(Word)
      BY <2>1, <2>2 DEF OmpTakes
    <3>3. Claims("one", Argv, p, i) <=> i <= p + n
      BY <1>3, <3>2 DEF Claims
    <3>. QED  BY Zenon, <3>1, <3>3
  <2>3. CASE Word \in OmpShadowable
    <3>1. Arity("omp", Word) = "value_like"
      BY <2>3, OmpArity
    <3>2. OmpTakes(Word) <=> ~Dashed(Argv[p + 1])
      BY <2>1, <2>3 DEF OmpTakes, OmpRequired, OmpShadowable, OmpOptional
    <3>3. Claims("value_like", Argv, p, i) <=> i <= p + n
      BY <1>3, <3>2 DEF Claims
    <3>. QED  BY Zenon, <3>1, <3>3
  <2>4. CASE Word \in OmpOptional
    <3>. DEFINE fits(x) == ~Dashed(x) /\ x # ""
    <3>1. Arity("omp", Word) = "optional"
      BY <2>4, OmpArity
    <3>2. OmpTakes(Word) <=> fits(Argv[p + 1])
      BY <2>1, <2>4 DEF OmpTakes, OmpRequired, OmpShadowable, OmpOptional
    <3>3. Claims("optional", Argv, p, i) <=> i = p + 1 /\ fits(Argv[i])
      BY DEF Claims
    <3>. HIDE DEF fits
    <3>4. Claims("optional", Argv, p, i) <=> i <= p + n
      BY <1>3, <3>2, <3>3
    <3>. QED  BY Zenon, <3>1, <3>4
  <2>5. CASE Word \notin OmpRequired \cup OmpShadowable \cup OmpOptional
    <3>1. Arity("omp", Word) = "none"
      BY <2>5, OmpArity
    <3>2. ~OmpTakes(Word)
      BY <2>5 DEF OmpTakes
    <3>3. Claims("none", Argv, p, i) <=> i <= p + n
      BY <1>3, <3>2 DEF Claims
    <3>. QED  BY Zenon, <3>1, <3>3
  <2>. QED  BY <2>2, <2>3, <2>4, <2>5
<1>10. n \in Nat /\ p + n <= Len(Argv)
  BY <1>1, <1>3, <1>8
<1>11. Reached("omp", Argv, r, p + n + 1) /\ \A i \in p + 1..p + n : r[i] = "value"
  <2>. HIDE DEF n, p
  <2>1. n = 0 \/ r[p] = "option"
    BY <1>7, <1>8 DEF n
  <2>. QED  BY <1>1, <1>2, <1>5, <1>6, <1>7, <1>9, <1>10, <2>1, ReachedNext
<1>12. FirstWord(Argv, r, p + n + 1, open', OmpCommands)
  <2>1. r[p] = "positional" => ~(open /\ Argv[p] \in OmpCommands)
    BY <1>3, <1>6, <1>7 DEF OmpRejects
  <2>2. open' = (open /\ r[p] # "positional")
    BY <1>3, <1>7
  <2>3. p \in Nat \ {0}
    BY <1>3
  <2>. HIDE DEF n, p
  <2>. QED  BY <1>5, <1>10, <1>11, <2>1, <2>2, <2>3, FirstWordNext
<1>13. r[p] = "option" => ~OmpMoves(p)
  BY <1>1, <1>3, <1>6 DEF OmpMoves, OmpRejects, Next1
<1>14. \A i \in 3..p + n : r[i] = "option" => ~OmpMoves(i)
  <2>1. \A i \in 3..p + n : i \in 3..at + 1 \/ i = p \/ i \in p + 1..p + n
    BY <1>3
  <2>. QED  BY <1>5, <1>11, <1>13, <2>1
<1>15. at' + 2 = p + n + 1 /\ at' + 1 = p + n /\ at' \in Nat \ {0} /\ at' <= Len(args) + 1
  BY <1>3, <1>10, <1>1
<1>16. \A i : OmpMoves(i)' <=> OmpMoves(i)
  BY <1>4 DEF OmpMoves
<1>17. Reading("omp", Argv)' = r
  BY <1>4 DEF r
<1>18. OmpTakes(Word) => r[at + 3] = "value"
  <2>1. OmpTakes(Word) => at + 3 \in p + 1..p + n
    BY <1>3
  <2>. QED  BY <1>11, <2>1
<1>19. OmpScanned'
  BY <1>3, <1>4, <1>11, <1>12, <1>14, <1>15, <1>16, <1>17 DEF OmpScanned
<1>. QED  BY <1>18, <1>19 DEF r

\* Where the scan ends nothing is left that could be an option or a command.
LEMMA OmpTail ==
  ASSUME IsList, agent = "omp", OmpScanned,
         at > Len(args) \/ (at <= Len(args) /\ Word = "--")
  PROVE  \A i \in at + 2..Len(Argv) : Reading("omp", Argv)[i] \in {"terminator", "text"}
<1>. DEFINE r == Reading("omp", Argv)
            p == at + 2
<1>1. /\ Len(Argv) \in Nat /\ Len(Argv) = Len(args) + 2 /\ Len(args) \in Nat
      /\ \A i \in 1..Len(args) : Argv[i + 2] = args[i]
  BY OmpList DEF BehindInjected
<1>2. IsReading("omp", Argv, r)
  BY <1>1, ReadingIsReading
<1>3. at \in Nat \ {0} /\ at <= Len(args) + 1 /\ Reached("omp", Argv, r, p)
  BY DEF OmpScanned
<1>. HIDE DEF r
<1>4. CASE at > Len(args)
  BY <1>1, <1>3, <1>4
<1>5. CASE at <= Len(args) /\ Word = "--"
  <2>1. p \in 1..Len(Argv) /\ Argv[p] = "--"
    BY <1>1, <1>3, <1>5 DEF Word
  <2>2. r[p] = "terminator"
    BY <1>1, <1>2, <1>3, <2>1, Standing DEF OwnRole
  <2>3. \A i \in p + 1..Len(Argv) : r[i] = "text"
    <3>. HIDE DEF p
    <3>. QED  BY <1>1, <1>2, <2>1, <2>2, TextFollows
  <2>. QED  BY <1>1, <1>3, <2>2, <2>3 DEF r
<1>. QED  BY <1>4, <1>5

\* When the scan accepts, nothing of the list was overlooked.
LEMMA OmpAccepts ==
  ASSUME IsList, agent = "omp", OmpScanned,
         at > Len(args) \/ (at <= Len(args) /\ Word = "--")
  PROVE  ~OmpLeaves(Reading("omp", Argv))
<1>. DEFINE r == Reading("omp", Argv)
            p == at + 2
<1>1. /\ Len(Argv) \in Nat /\ Len(Argv) = Len(args) + 2 /\ Len(args) \in Nat
      /\ \A i \in 1..Len(args) : Argv[i + 2] = args[i]
      /\ DOMAIN Injected = 1..2
  BY OmpList DEF BehindInjected, IsList
<1>2. IsReading("omp", Argv, r)
  BY <1>1, ReadingIsReading
<1>3. /\ at \in Nat \ {0} /\ at <= Len(args) + 1
      /\ Reached("omp", Argv, r, p) /\ FirstWord(Argv, r, p, open, OmpCommands)
      /\ \A i \in 3..at + 1 : r[i] = "option" => ~OmpMoves(i)
  BY DEF OmpScanned
<1>. HIDE DEF r
<1>4. \A i \in p..Len(Argv) : r[i] \in {"terminator", "text"}
  BY OmpTail DEF r
<1>5. DOMAIN r = 1..Len(Argv)
  BY <1>2 DEF IsReading
<1>6. \A i \in OptionsAt(r) : ~OmpMoves(i)
  <2>. SUFFICES ASSUME NEW i \in OptionsAt(r) PROVE ~OmpMoves(i)
    OBVIOUS
  <2>1. i \in 1..Len(Argv) /\ i \notin 1..2 /\ r[i] = "option"
    BY <1>1, <1>5 DEF OptionsAt, At
  <2>2. i \notin p..Len(Argv)
    BY <1>4, <2>1
  <2>3. i \in 3..at + 1
    BY <1>1, <1>3, <2>1, <2>2
  <2>. QED  BY <1>3, <2>1, <2>3
<1>7. Command(r) \cap OmpCommands = {}
  <2>. DEFINE T == At(r, "positional")
  <2>1. CommandAt("omp", r) = FirstAt(T)
    BY DEF CommandAt
  <2>2. T = {i \in 1..Len(Argv) : r[i] = "positional"}
    BY <1>5 DEF At
  <2>. HIDE DEF T
  <2>3. \A i \in FirstAt(T) : Argv[i] \notin OmpCommands
    <3>1. CASE open
      <4>1. \A i \in 1..Len(Argv) : i \in 1..p - 1 \/ i \in p..Len(Argv)
        BY <1>1, <1>3
      <4>2. T = {}
        BY <1>3, <1>4, <2>2, <3>1, <4>1 DEF FirstWord
      <4>. QED  BY <4>2 DEF FirstAt
    <3>2. CASE ~open
      <4>1. p \in Nat \ {0} /\ p <= Len(Argv) + 1 /\ Len(Argv) \in Nat
        BY <1>1, <1>3
      <4>. HIDE DEF p
      <4>. QED  BY <1>3, <2>2, <3>2, <4>1, FirstWordStands
    <3>. QED  BY <3>1, <3>2
  <2>. QED  BY <2>1, <2>3 DEF Command
<1>. QED  BY <1>6, <1>7 DEF OmpLeaves, OmpMoves, r

-----------------------------------------------------------------------------
(* Arguments: what Claude Code reads.                                      *)

\* An option of a single value may stand last: the scan then steps over the end.
Here == IF at <= Len(args) THEN at ELSE Len(args) + 1

\* How many words the adapter puts in front, four for a staged mount and two else.
Lead == Len(Injected)

ClaudeScanned ==
    LET r == Reading("claude", Argv) IN
    /\ at \in Nat \ {0}
    /\ Reached("claude", Argv, r, Here + Lead)
    /\ FirstWord(Argv, r, Here + Lead, open, ClaudeCommands)
    /\ \A i \in Lead + 1..Here + Lead - 1 : r[i] = "option" => Argv[i] \notin ClaudeControls
    /\ dirs = {k \in 1..Here - 1 : k + Lead \in AddedAt(r)}

ClaudeInv ==
    agent = "claude" =>
        /\ ruling = "scanning" => ClaudeScanned
        /\ ruling = "accepted" =>
             /\ ~ClaudeLeaves(Reading("claude", Argv))
             /\ {i - Len(Injected) : i \in AddedAt(Reading("claude", Argv))} = dirs

LEMMA ClaudeList ==
  ASSUME IsList, agent = "claude"
  PROVE  /\ Lead \in Nat /\ BehindInjected(Lead)
         /\ \/ /\ Lead = 4 /\ Argv[1] = "--add-dir" /\ Argv[2] = "word"
               /\ Argv[3] = "--settings" /\ Argv[4] = "word"
            \/ Lead = 2 /\ Argv[1] = "--settings" /\ Argv[2] = "word"
<1>1. CASE mountMode = "staging"
  <2>1. Injected = <<"--add-dir", "word", "--settings", "word">>
    BY <1>1 DEF Injected
  <2>2. Injected \in Seq({"--add-dir", "--settings", "word"}) /\ Lead = 4
    BY <2>1 DEF Lead
  <2>3. BehindInjected(Lead)
    BY <2>2, OperatorsWordsFollow DEF Lead
  <2>4. 1 \in 1..Lead /\ 2 \in 1..Lead /\ 3 \in 1..Lead /\ 4 \in 1..Lead
    BY <2>2
  <2>. QED  BY <2>1, <2>2, <2>3, <2>4 DEF BehindInjected
<1>2. CASE mountMode # "staging"
  <2>1. Injected = <<"--settings", "word">>
    BY <1>2 DEF Injected
  <2>2. Injected \in Seq({"--settings", "word"}) /\ Lead = 2
    BY <2>1 DEF Lead
  <2>3. BehindInjected(Lead)
    BY <2>2, OperatorsWordsFollow DEF Lead
  <2>4. 1 \in 1..Lead /\ 2 \in 1..Lead
    BY <2>2
  <2>. QED  BY <2>1, <2>2, <2>3, <2>4 DEF BehindInjected
<1>. QED  BY <1>1, <1>2

\* Where no terminator stands nothing is text.
LEMMA NoTextBefore ==
  ASSUME NEW table, NEW s, NEW r, NEW p, IsReading(table, s, r), Len(s) \in Nat,
         p \in Nat, p <= Len(s) + 1, Reached(table, s, r, p)
  PROVE  \A i \in 1..Len(s) : i <= p => r[i] # "text"
<1>. SUFFICES ASSUME NEW i \in 1..Len(s), i <= p, r[i] = "text" PROVE FALSE
  OBVIOUS
<1>1. \A j \in 1..i - 1 : j \in 1..p - 1
  OBVIOUS
<1>2. ~ \E j \in 1..i - 1 : r[j] = "terminator"
  BY <1>1 DEF Reached
<1>. QED  BY <1>2 DEF IsReading, Role

\* The adapter's settings end the list of added directories a staged mount begins with.
LEMMA StagedDirectoryEnds ==
  ASSUME NEW r, IsReading("claude", Argv, r), Len(Argv) \in Nat, 4 <= Len(Argv),
         Argv[1] = "--add-dir", Argv[2] = "word", Argv[3] = "--settings"
  PROVE  Reached("claude", Argv, r, 3) /\ r[1] = "option" /\ r[2] = "value"
<1>1. /\ Len(Argv) \in Nat /\ 4 <= Len(Argv)
      /\ Argv[1] = "--add-dir" /\ Argv[2] = "word" /\ Argv[3] = "--settings"
  OBVIOUS
<1>2. IsReading("claude", Argv, r)
  OBVIOUS
<1>3. Reached("claude", Argv, r, 1) /\ 1 \in 1..Len(Argv)
  BY <1>1 DEF Reached
<1>4. Dashed("--add-dir") /\ Dashed("--settings") /\ ~Dashed("word")
  BY DEF Dashed, Plain
<1>5. r[1] = "option"
  <2>1. r[1] = OwnRole("claude", Argv[1])
    BY <1>1, <1>2, <1>3, Standing
  <2>. QED  BY <1>1, <1>4, <2>1 DEF OwnRole, OptionShaped
<1>6. \A i \in 1 + 1..Len(Argv) : Claims(Arity("claude", Argv[1]), Argv, 1, i) <=> i <= 1 + 1
  <2>1. Arity("claude", Argv[1]) = "many"
    BY <1>1, ClaudeArity DEF ClaudeVariadic
  <2>2. \A i \in 1 + 1..Len(Argv) : Claims("many", Argv, 1, i) <=> \A k \in 1 + 1..i : ~Dashed(Argv[k])
    BY DEF Claims
  <2>3. ASSUME NEW i \in 1 + 1..Len(Argv)
        PROVE  (\A k \in 1 + 1..i : ~Dashed(Argv[k])) <=> i <= 1 + 1
    <3>1. CASE i = 2
      <4>1. \A k \in 1 + 1..i : k = 2
        BY <3>1
      <4>. QED  BY <1>1, <1>4, <3>1, <4>1
    <3>2. CASE i # 2
      <4>1. 3 \in 1 + 1..i /\ ~(i <= 1 + 1)
        BY <3>2
      <4>. QED  BY <1>1, <1>4, <4>1
    <3>. QED  BY <3>1, <3>2
  <2>4. \A i \in 1 + 1..Len(Argv) : Claims("many", Argv, 1, i) <=> i <= 1 + 1
    BY <2>2, <2>3
  <2>. QED  BY Zenon, <2>1, <2>4
<1>7. Reached("claude", Argv, r, 3) /\ r[2] = "value"
  <2>. DEFINE p == 1
              n == 1
  <2>1. p \in 1..Len(Argv)
    BY <1>1
  <2>2. n \in Nat
    OBVIOUS
  <2>3. p + n <= Len(Argv)
    BY <1>1
  <2>4. Reached("claude", Argv, r, p)
    BY <1>3
  <2>5. r[p] = "option"
    BY <1>5
  <2>6. \A i \in p + 1..Len(Argv) : Claims(Arity("claude", Argv[p]), Argv, p, i) <=> i <= p + n
    BY <1>6
  <2>7. p + n + 1 = 3 /\ 2 \in p + 1..p + n
    OBVIOUS
  <2>. HIDE DEF p, n
  <2>8. r[p] # "terminator"
    BY <2>5
  <2>9. Reached("claude", Argv, r, p + n + 1) /\ \A i \in p + 1..p + n : r[i] = "value"
    BY <1>1, <1>2, <2>1, <2>2, <2>3, <2>4, <2>5, <2>6, <2>8, ReachedNext
  <2>. QED  BY <2>7, <2>9
<1>. QED  BY <1>5, <1>7

LEMMA ClaudeStarts ==
  ASSUME IsList, agent = "claude", at = 1, open, dirs = {}
  PROVE  ClaudeScanned
<1>. DEFINE r == Reading("claude", Argv)
<1>1. /\ Len(Argv) \in Nat /\ Len(Argv) = Len(args) + Lead /\ Len(args) \in Nat /\ Lead \in Nat
  BY ClaudeList DEF BehindInjected
<1>2. IsReading("claude", Argv, r)
  BY <1>1, ReadingIsReading
<1>. HIDE DEF r
<1>3. \A q \in Nat : /\ q >= 1 /\ q + 1 <= Len(Argv) /\ Argv[q] = "--settings" /\ Argv[q + 1] = "word"
                     /\ Reached("claude", Argv, r, q)
        => Reached("claude", Argv, r, q + 2) /\ r[q] = "option" /\ r[q + 1] = "value"
  <2>. SUFFICES ASSUME NEW q \in Nat, q >= 1, q + 1 <= Len(Argv), Argv[q] = "--settings",
                       Argv[q + 1] = "word", Reached("claude", Argv, r, q)
                PROVE  Reached("claude", Argv, r, q + 2) /\ r[q] = "option" /\ r[q + 1] = "value"
    OBVIOUS
  <2>1. q \in 1..Len(Argv) /\ q + 1 <= Len(Argv)
    BY <1>1
  <2>2. Argv[q] # "--" /\ OptionShaped("claude", Argv[q]) /\ ~Dashed(Argv[q + 1])
    BY DEF OptionShaped, Dashed, Plain
  <2>3. Arity("claude", Argv[q]) = "one"
    BY ClaudeArity DEF ClaudeSingle
  <2>. QED  BY <1>1, <1>2, <2>1, <2>2, <2>3, ReachedPair
<1>4. Reached("claude", Argv, r, Lead + 1) /\ \A i \in 1..Lead : r[i] # "positional"
  <2>1. CASE /\ Lead = 4 /\ Argv[1] = "--add-dir" /\ Argv[2] = "word"
             /\ Argv[3] = "--settings" /\ Argv[4] = "word"
    <3>1. 4 <= Len(Argv)
      BY <1>1, <2>1
    <3>2. Reached("claude", Argv, r, 3) /\ r[1] = "option" /\ r[2] = "value"
      BY <1>1, <1>2, <2>1, <3>1, StagedDirectoryEnds
    <3>3. 3 \in Nat /\ 3 >= 1 /\ 3 + 1 = 4 /\ 3 + 2 = Lead + 1
      BY <2>1
    <3>4. Reached("claude", Argv, r, Lead + 1) /\ r[3] = "option" /\ r[4] = "value"
      BY <1>3, <2>1, <3>1, <3>2, <3>3
    <3>5. \A i \in 1..Lead : i = 1 \/ i = 2 \/ i = 3 \/ i = 4
      BY <2>1
    <3>. QED  BY <3>2, <3>4, <3>5
  <2>2. CASE Lead = 2 /\ Argv[1] = "--settings" /\ Argv[2] = "word"
    <3>1. Reached("claude", Argv, r, 1)
      BY <1>1 DEF Reached
    <3>2. 1 \in Nat /\ 1 >= 1 /\ 1 + 1 = 2 /\ 1 + 2 = Lead + 1 /\ 2 <= Len(Argv)
      BY <1>1, <2>2
    <3>3. Reached("claude", Argv, r, Lead + 1) /\ r[1] = "option" /\ r[2] = "value"
      BY <1>3, <2>2, <3>1, <3>2
    <3>4. \A i \in 1..Lead : i = 1 \/ i = 2
      BY <2>2
    <3>. QED  BY <3>3, <3>4
  <2>. QED  BY <2>1, <2>2, ClaudeList
<1>5. /\ Here = 1 /\ Here + Lead = Lead + 1 /\ Lead + 1..Here + Lead - 1 = {} /\ 1..Here - 1 = {}
      /\ at \in Nat \ {0}
  BY <1>1 DEF Here
<1>6. FirstWord(Argv, r, Lead + 1, open, ClaudeCommands)
  <2>1. (Lead + 1) - 1 = Lead
    BY <1>1
  <2>. QED  BY <1>4, <2>1 DEF FirstWord
<1>. QED  BY <1>4, <1>5, <1>6 DEF ClaudeScanned, r

\* The values of a variadic option reach to the first dash.
LEMMA ValuesEndIsFirstDash ==
  ASSUME IsList, at \in Nat \ {0}, at <= Len(args)
  PROVE  /\ ValuesEnd \in at + 1..Len(args) + 1
         /\ \A k \in at + 1..ValuesEnd - 1 : ~Dashed(args[k])
         /\ ValuesEnd <= Len(args) => Dashed(args[ValuesEnd])
<1>. DEFINE stops == {j \in at + 1..Len(args) : Dashed(args[j])} \cup {Len(args) + 1}
<1>1. Len(args) \in Nat
  BY DEF IsList
<1>2. stops \subseteq at + 1..Len(args) + 1 /\ stops \subseteq Nat /\ stops # {}
  BY <1>1
<1>3. ValuesEnd \in stops /\ \A k \in stops : ValuesEnd <= k
  <2>1. ValuesEnd = CHOOSE j \in stops : \A k \in stops : j <= k
    BY DEF ValuesEnd
  <2>. HIDE DEF stops
  <2>2. \E j \in stops : \A k \in stops : j <= k
    BY <1>2, LeastNatural
  <2>. QED  BY <2>1, <2>2
<1>4. ASSUME NEW k \in at + 1..ValuesEnd - 1 PROVE ~Dashed(args[k])
  <2>1. ValuesEnd \in at + 1..Len(args) + 1
    BY <1>2, <1>3
  <2>2. k \in at + 1..Len(args) /\ ~(ValuesEnd <= k)
    BY <1>1, <2>1
  <2>. QED  BY <1>3, <2>2
<1>5. ValuesEnd <= Len(args) => Dashed(args[ValuesEnd])
  BY <1>1, <1>3
<1>. QED  BY <1>2, <1>3, <1>4, <1>5

\* How many words of the list an option takes; the end stops a single value.
ClaudeTaken == IF Word \in ClaudeSingle /\ at = Len(args) THEN 0 ELSE ClaudeTakes(Word)

LEMMA ClaudeTakesAsClaimed ==
  ASSUME IsList, agent = "claude", at \in Nat \ {0}, at <= Len(args)
  PROVE  /\ ClaudeTaken \in Nat /\ at + ClaudeTaken <= Len(args)
         /\ ClaudeTaken = 0 \/ Dashed(Word)
         /\ \A i \in at + Lead + 1..Len(Argv) :
               Claims(Arity("claude", Word), Argv, at + Lead, i) <=> i <= at + Lead + ClaudeTaken
         /\ Word = "--add-dir" => ClaudeTakes(Word) = ClaudeTaken
         /\ IF at + 1 + ClaudeTakes(Word) <= Len(args) THEN at + 1 + ClaudeTakes(Word) = at + ClaudeTaken + 1
            ELSE Len(args) + 1 = at + ClaudeTaken + 1
<1>1. /\ Len(Argv) \in Nat /\ Len(Argv) = Len(args) + Lead /\ Len(args) \in Nat /\ Lead \in Nat
      /\ \A i \in 1..Len(args) : Argv[i + Lead] = args[i]
  BY ClaudeList DEF BehindInjected
<1>2. CASE Word \in ClaudeSingle
  <2>1. ClaudeTakes(Word) = 1 /\ Arity("claude", Word) = "one" /\ Dashed(Word) /\ Word # "--add-dir"
    BY <1>2, ClaudeArity DEF ClaudeTakes, ClaudeSingle, Dashed, Plain
  <2>2. ClaudeTaken = IF at = Len(args) THEN 0 ELSE 1
    BY <1>2, <2>1 DEF ClaudeTaken
  <2>3. \A i \in at + Lead + 1..Len(Argv) : Claims("one", Argv, at + Lead, i) <=> i <= at + Lead + ClaudeTaken
    BY <1>1, <2>2 DEF Claims
  <2>4. \A i \in at + Lead + 1..Len(Argv) :
           Claims(Arity("claude", Word), Argv, at + Lead, i) <=> i <= at + Lead + ClaudeTaken
    BY Zenon, <2>1, <2>3
  <2>. QED  BY <1>1, <2>1, <2>2, <2>4
<1>3. CASE Word \in ClaudeOptional
  <2>1. /\ ClaudeTakes(Word) = IF \E n \in Next1 : ~Dashed(n) THEN 1 ELSE 0
        /\ ClaudeTaken = ClaudeTakes(Word)
        /\ Arity("claude", Word) = "value_like" /\ Dashed(Word) /\ Word # "--add-dir"
    BY <1>3, ClaudeArity
       DEF ClaudeTakes, ClaudeTaken, ClaudeSingle, ClaudeOptional, ClaudeVariadic, Dashed, Plain
  <2>2. /\ at = Len(args) => ClaudeTaken = 0
        /\ at < Len(args) => ClaudeTaken = IF Dashed(Argv[at + Lead + 1]) THEN 0 ELSE 1
    <3>1. CASE at = Len(args)
      BY <1>1, <2>1, <3>1 DEF Next1
    <3>2. CASE at < Len(args)
      <4>1. at + 1 \in 1..Len(args) /\ (at + 1) + Lead = at + Lead + 1
        BY <1>1, <3>2
      <4>2. Next1 = {Argv[at + Lead + 1]}
        BY <1>1, <3>2, <4>1 DEF Next1
      <4>. QED  BY <1>1, <2>1, <3>2, <4>2
    <3>. QED  BY <1>1, <3>1, <3>2
  <2>3. \A i \in at + Lead + 1..Len(Argv) : Claims("value_like", Argv, at + Lead, i) <=> i <= at + Lead + ClaudeTaken
    <3>. SUFFICES ASSUME NEW i \in at + Lead + 1..Len(Argv)
                  PROVE  Claims("value_like", Argv, at + Lead, i) <=> i <= at + Lead + ClaudeTaken
      OBVIOUS
    <3>1. at < Len(args) /\ (i = (at + Lead) + 1 <=> i = at + Lead + 1)
      BY <1>1
    <3>2. Claims("value_like", Argv, at + Lead, i) <=> i = at + Lead + 1 /\ ~Dashed(Argv[i])
      BY DEF Claims
    <3>. QED  BY <1>1, <2>2, <3>1, <3>2
  <2>4. \A i \in at + Lead + 1..Len(Argv) :
           Claims(Arity("claude", Word), Argv, at + Lead, i) <=> i <= at + Lead + ClaudeTaken
    BY Zenon, <2>1, <2>3
  <2>. QED  BY <1>1, <2>1, <2>2, <2>4
<1>4. CASE Word \in ClaudeVariadic
  <2>1. /\ ClaudeTakes(Word) = ValuesEnd - at - 1 /\ ClaudeTaken = ClaudeTakes(Word)
        /\ Arity("claude", Word) = "many" /\ Dashed(Word)
    BY <1>4, ClaudeArity
       DEF ClaudeTakes, ClaudeTaken, ClaudeSingle, ClaudeOptional, ClaudeVariadic, Dashed, Plain
  <2>2. /\ ValuesEnd \in at + 1..Len(args) + 1
        /\ \A k \in at + 1..ValuesEnd - 1 : ~Dashed(args[k])
        /\ ValuesEnd <= Len(args) => Dashed(args[ValuesEnd])
    BY ValuesEndIsFirstDash
  <2>3. \A i \in at + Lead + 1..Len(Argv) : Claims("many", Argv, at + Lead, i) <=> i <= at + Lead + ClaudeTaken
    <3>. SUFFICES ASSUME NEW i \in at + Lead + 1..Len(Argv)
                  PROVE  Claims("many", Argv, at + Lead, i) <=> i <= at + Lead + ClaudeTaken
      OBVIOUS
    <3>1. Claims("many", Argv, at + Lead, i) <=> \A k \in at + Lead + 1..i : ~Dashed(Argv[k])
      BY DEF Claims
    <3>2. CASE i <= at + Lead + ClaudeTaken
      <4>1. ASSUME NEW k \in at + Lead + 1..i PROVE ~Dashed(Argv[k])
        <5>1. k - Lead \in at + 1..ValuesEnd - 1 /\ k - Lead \in 1..Len(args) /\ (k - Lead) + Lead = k
          BY <1>1, <2>1, <2>2, <3>2
        <5>2. Argv[k] = args[k - Lead]
          BY <1>1, <5>1
        <5>. QED  BY <2>2, <5>1, <5>2
      <4>. QED  BY <3>1, <3>2, <4>1
    <3>3. CASE ~(i <= at + Lead + ClaudeTaken)
      <4>1. /\ ValuesEnd + Lead \in at + Lead + 1..i /\ ValuesEnd <= Len(args)
            /\ ValuesEnd \in 1..Len(args)
        BY <1>1, <2>1, <2>2, <3>3
      <4>2. Dashed(Argv[ValuesEnd + Lead])
        BY <1>1, <2>2, <4>1
      <4>. QED  BY <3>1, <3>3, <4>1, <4>2
    <3>. QED  BY <3>2, <3>3
  <2>4. \A i \in at + Lead + 1..Len(Argv) :
           Claims(Arity("claude", Word), Argv, at + Lead, i) <=> i <= at + Lead + ClaudeTaken
    BY Zenon, <2>1, <2>3
  <2>5. ClaudeTaken \in Nat /\ at + ClaudeTaken <= Len(args)
    BY <1>1, <2>1, <2>2
  <2>6. IF at + 1 + ClaudeTakes(Word) <= Len(args) THEN at + 1 + ClaudeTakes(Word) = at + ClaudeTaken + 1
        ELSE Len(args) + 1 = at + ClaudeTaken + 1
    <3>. DEFINE len == Len(args)
                took == ClaudeTaken
    <3>1. len \in Nat /\ took \in Nat /\ at + took <= len /\ ClaudeTakes(Word) = took
      BY <1>1, <2>1, <2>5
    <3>. HIDE DEF len, took
    <3>2. IF at + 1 + took <= len THEN at + 1 + took = at + took + 1 ELSE len + 1 = at + took + 1
      BY <3>1
    <3>. QED  BY <3>1, <3>2 DEF len, took
  <2>. QED  BY <2>1, <2>4, <2>5, <2>6
<1>5. CASE Word \notin ClaudeSingle \cup ClaudeOptional \cup ClaudeVariadic
  <2>1. ClaudeTakes(Word) = 0 /\ ClaudeTaken = 0 /\ Arity("claude", Word) = "none"
    BY <1>5, ClaudeArity DEF ClaudeTakes, ClaudeTaken
  <2>2. \A i \in at + Lead + 1..Len(Argv) : Claims("none", Argv, at + Lead, i) <=> i <= at + Lead + ClaudeTaken
    BY <1>1, <2>1 DEF Claims
  <2>3. \A i \in at + Lead + 1..Len(Argv) :
           Claims(Arity("claude", Word), Argv, at + Lead, i) <=> i <= at + Lead + ClaudeTaken
    BY Zenon, <2>1, <2>2
  <2>. QED  BY <1>1, <2>1, <2>3
<1>. QED  BY <1>2, <1>3, <1>4, <1>5

LEMMA ClaudePassScans ==
  ASSUME IsList, agent = "claude", ClaudeScanned, ClaudePass
  PROVE  ClaudeScanned'
<1>. DEFINE r == Reading("claude", Argv)
            p == at + Lead
            n == ClaudeTaken
<1>1. /\ Len(Argv) \in Nat /\ Len(Argv) = Len(args) + Lead /\ Len(args) \in Nat /\ Lead \in Nat
      /\ \A i \in 1..Len(args) : Argv[i + Lead] = args[i]
      /\ DOMAIN Injected = 1..Lead /\ DOMAIN Argv = 1..Len(Argv)
  BY ClaudeList DEF BehindInjected
<1>2. IsReading("claude", Argv, r)
  BY <1>1, ReadingIsReading
<1>3. /\ at \in Nat \ {0} /\ at <= Len(args) /\ Word # "--" /\ ~ClaudeRejects(Word)
      /\ at' = at + (1 + ClaudeTakes(Word)) /\ open' = (open /\ Dashed(Word))
      /\ dirs' = dirs \cup (IF Word = "--add-dir=word" THEN {at}
                            ELSE IF Word = "--add-dir" THEN at + 1..at + ClaudeTakes(Word) ELSE {})
      /\ args' = args /\ agent' = agent /\ mountMode' = mountMode
  BY DEF ClaudePass, ClaudeScanned, Advances
<1>4. Argv' = Argv /\ Injected' = Injected
  BY <1>3 DEF Argv, Injected
<1>. HIDE DEF r
<1>5. /\ Reached("claude", Argv, r, p) /\ FirstWord(Argv, r, p, open, ClaudeCommands)
      /\ \A i \in Lead + 1..at + Lead - 1 : r[i] = "option" => Argv[i] \notin ClaudeControls
      /\ dirs = {k \in 1..at - 1 : k + Lead \in AddedAt(r)}
  <2>1. Here = at
    BY <1>3 DEF Here
  <2>. QED  BY <2>1 DEF ClaudeScanned, r
<1>6. p \in 1..Len(Argv) /\ Argv[p] = Word /\ p + 1 = at + Lead + 1
  BY <1>1, <1>3 DEF Word
<1>7. r[p] = IF Dashed(Word) THEN "option" ELSE "positional"
  BY <1>1, <1>2, <1>3, <1>5, <1>6, Standing DEF OwnRole, OptionShaped
<1>8. /\ n \in Nat /\ at + n <= Len(args)
      /\ n = 0 \/ Dashed(Word)
      /\ \A i \in p + 1..Len(Argv) : Claims(Arity("claude", Argv[p]), Argv, p, i) <=> i <= p + n
      /\ Word = "--add-dir" => ClaudeTakes(Word) = n
      /\ IF at + 1 + ClaudeTakes(Word) <= Len(args) THEN at + 1 + ClaudeTakes(Word) = at + n + 1
         ELSE Len(args) + 1 = at + n + 1
  BY <1>3, <1>6, ClaudeTakesAsClaimed
<1>9. p + n <= Len(Argv)
  BY <1>1, <1>3, <1>8
<1>10. /\ at' \in Nat \ {0} /\ Here' = at + n + 1
       /\ Here' + Lead = p + n + 1 /\ Here' + Lead - 1 = p + n /\ Here' - 1 = at + n
  <2>1. Word \in ClaudeVariadic => ValuesEnd \in at + 1..Len(args) + 1
    BY <1>3, ValuesEndIsFirstDash
  <2>2. ClaudeTakes(Word) \in Nat
    BY <1>1, <1>3, <2>1 DEF ClaudeTakes
  <2>3. at' \in Nat \ {0} /\ at' = at + 1 + ClaudeTakes(Word)
    BY <1>3, <2>2
  <2>4. Here' = at + n + 1
    BY <1>3, <1>8, <2>3 DEF Here
  <2>5. at \in Nat /\ Lead \in Nat /\ n \in Nat /\ p = at + Lead
    BY <1>1, <1>3, <1>8
  <2>. HIDE DEF n, p
  <2>6. Here' + Lead = p + n + 1 /\ Here' + Lead - 1 = p + n /\ Here' - 1 = at + n
    BY <2>4, <2>5
  <2>. QED  BY <2>3, <2>4, <2>6
<1>. HIDE DEF n
<1>11. Reached("claude", Argv, r, p + n + 1) /\ \A i \in p + 1..p + n : r[i] = "value"
  <2>. HIDE DEF p
  <2>1. n = 0 \/ r[p] = "option"
    BY <1>7, <1>8
  <2>2. r[p] # "terminator"
    BY <1>7
  <2>3. p \in 1..Len(Argv) /\ Len(Argv) \in Nat /\ n \in Nat
    BY <1>1, <1>6, <1>8
  <2>4. \A i \in p + 1..Len(Argv) : Claims(Arity("claude", Argv[p]), Argv, p, i) <=> i <= p + n
    BY <1>8
  <2>. QED  BY <1>2, <1>5, <1>9, <2>1, <2>2, <2>3, <2>4, ReachedNext
<1>12. FirstWord(Argv, r, p + n + 1, open', ClaudeCommands)
  <2>1. r[p] = "positional" => ~(open /\ Argv[p] \in ClaudeCommands)
    BY <1>3, <1>6, <1>7 DEF ClaudeRejects
  <2>2. open' = (open /\ r[p] # "positional")
    BY <1>3, <1>7
  <2>3. p \in Nat \ {0}
    BY <1>1, <1>3
  <2>. HIDE DEF p
  <2>. QED  BY <1>5, <1>8, <1>11, <2>1, <2>2, <2>3, FirstWordNext
<1>13. \A i \in Lead + 1..p + n : i \in Lead + 1..at + Lead - 1 \/ i = p \/ i \in p + 1..p + n
  BY <1>1, <1>3, <1>8
<1>14. \A i \in Lead + 1..p + n : r[i] = "option" => Argv[i] \notin ClaudeControls
  <2>1. Argv[p] \notin ClaudeControls
    BY <1>3, <1>6 DEF ClaudeRejects
  <2>. QED  BY <1>5, <1>11, <1>13, <2>1
<1>15. p \in AddedAt(r) <=> Word = "--add-dir=word"
  <2>1. Word = "--add-dir=word" => Dashed(Word)
    BY DEF Dashed, Plain
  <2>2. p \in DOMAIN Argv \ DOMAIN Injected /\ r[p] # "value"
    BY <1>1, <1>3, <1>6, <1>7
  <2>. QED  BY <1>6, <1>7, <2>1, <2>2 DEF AddedAt
<1>16. ASSUME NEW i \in p + 1..p + n PROVE i \in AddedAt(r) <=> Word = "--add-dir"
  <2>0. i \in p + 1..Len(Argv) /\ p \in 1..i - 1 /\ i \in 1..Len(Argv) /\ i \notin 1..Lead
    <3>1. at \in Nat \ {0} /\ n \in Nat /\ at + Lead + n <= Len(Argv) /\ Len(Argv) \in Nat
      BY <1>1, <1>3, <1>8, <1>9
    <3>. QED  BY <1>1, <3>1
  <2>1. i \in DOMAIN Argv \ DOMAIN Injected /\ r[i] = "value" /\ i \in p + 1..Len(Argv) /\ p \in 1..i - 1
    BY <1>1, <1>11, <2>0
  <2>2. Arity("claude", "--add-dir") = "many"
    BY ClaudeArity DEF ClaudeVariadic
  <2>3. ASSUME NEW j \in 1..i - 1, Argv[j] = "--add-dir", r[j] = "option", Claims("many", Argv, j, i)
        PROVE  Word = "--add-dir"
    <3>1. CASE j < p
      <4>1. j \in 1..p - 1 /\ i \in p..Len(Argv)
        BY <2>1, <3>1
      <4>2. ~Claims(Arity("claude", Argv[j]), Argv, j, i)
        BY <1>5, <2>3, <4>1 DEF Reached
      <4>3. ~Claims("many", Argv, j, i)
        BY Zenon, <2>2, <2>3, <4>2
      <4>. QED  BY <2>3, <4>3
    <3>2. CASE j = p
      BY <1>6, <2>3, <3>2
    <3>3. CASE p < j
      <4>1. j \in p + 1..p + n
        BY <1>3, <1>8, <2>0, <3>3
      <4>. QED  BY <1>11, <2>3, <4>1
    <3>4. j < p \/ j = p \/ p < j
      BY <2>0
    <3>. QED  BY <3>1, <3>2, <3>3, <3>4
  <2>4. ASSUME Word = "--add-dir" PROVE i \in AddedAt(r)
    <3>1. Claims(Arity("claude", Argv[p]), Argv, p, i) /\ r[p] = "option"
      <4>1. Dashed(Word)
        BY <2>4 DEF Dashed, Plain
      <4>2. i <= p + n
        OBVIOUS
      <4>. QED  BY <1>7, <1>8, <2>1, <4>1, <4>2
    <3>2. Claims("many", Argv, p, i) /\ Argv[p] = "--add-dir"
      BY Zenon, <1>6, <2>2, <2>4, <3>1
    <3>. QED  BY <2>1, <3>1, <3>2 DEF AddedAt
  <2>5. i \in AddedAt(r) => Word = "--add-dir"
    BY <2>1, <2>3 DEF AddedAt
  <2>. QED  BY <2>4, <2>5
<1>17. dirs' = {k \in 1..at + n : k + Lead \in AddedAt(r)}
  <2>. DEFINE A == AddedAt(r)
  <2>1. \A k \in 1..at + n : k \in 1..at - 1 \/ k = at \/ k \in at + 1..at + n
    BY <1>3, <1>8
  <2>2. at \in 1..at + n /\ 1..at - 1 \subseteq 1..at + n /\ at + 1..at + n \subseteq 1..at + n
    BY <1>3, <1>8
  <2>3. \A k \in at + 1..at + n : k + Lead \in p + 1..p + n
    BY <1>1, <1>3, <1>8
  <2>. HIDE DEF A
  <2>4. \A k \in at + 1..at + n : k + Lead \in A <=> Word = "--add-dir"
    BY <1>16, <2>3 DEF A
  <2>5. at + Lead \in A <=> Word = "--add-dir=word"
    BY <1>15 DEF A
  <2>6. dirs = {k \in 1..at - 1 : k + Lead \in A}
    BY <1>5 DEF A
  <2>7. dirs' = dirs \cup (IF Word = "--add-dir=word" THEN {at}
                           ELSE IF Word = "--add-dir" THEN at + 1..at + n ELSE {})
    BY <1>3, <1>8
  <2>8. dirs' = {k \in 1..at + n : k + Lead \in A}
    <3>1. CASE Word = "--add-dir=word"
      BY <2>1, <2>2, <2>4, <2>5, <2>6, <2>7, <3>1
    <3>2. CASE Word = "--add-dir"
      BY <2>1, <2>2, <2>4, <2>5, <2>6, <2>7, <3>2
    <3>3. CASE Word # "--add-dir=word" /\ Word # "--add-dir"
      BY <2>1, <2>2, <2>4, <2>5, <2>6, <2>7, <3>3
    <3>. QED  BY <3>1, <3>2, <3>3
  <2>. QED  BY <2>8 DEF A
<1>18. Reading("claude", Argv)' = r /\ AddedAt(r)' = AddedAt(r) /\ Lead' = Lead
  BY <1>4 DEF r, AddedAt, Lead
<1>. QED  BY <1>4, <1>10, <1>11, <1>12, <1>14, <1>17, <1>18 DEF ClaudeScanned, r

LEMMA ClaudeAccepts ==
  ASSUME IsList, agent = "claude", ClaudeScanned,
         \/ at > Len(args)
         \/ at <= Len(args) /\ Word = "--" /\ ~(open /\ Next1 \cap ClaudeCommands # {})
  PROVE  /\ ~ClaudeLeaves(Reading("claude", Argv))
         /\ {i - Len(Injected) : i \in AddedAt(Reading("claude", Argv))} = dirs
<1>. DEFINE r == Reading("claude", Argv)
            p == Here + Lead
            len == Len(Argv)
            T == At(r, "positional") \cup At(r, "text")
<1>1. /\ len \in Nat /\ len = Len(args) + Lead /\ Len(args) \in Nat /\ Lead \in Nat
      /\ \A i \in 1..Len(args) : Argv[i + Lead] = args[i]
      /\ DOMAIN Injected = 1..Lead /\ Len(Injected) = Lead /\ DOMAIN Argv = 1..len
  BY ClaudeList DEF BehindInjected
<1>2. IsReading("claude", Argv, r)
  BY <1>1, ReadingIsReading
<1>. HIDE DEF r
<1>3. /\ at \in Nat \ {0}
      /\ Reached("claude", Argv, r, p) /\ FirstWord(Argv, r, p, open, ClaudeCommands)
      /\ \A i \in Lead + 1..Here + Lead - 1 : r[i] = "option" => Argv[i] \notin ClaudeControls
      /\ dirs = {k \in 1..Here - 1 : k + Lead \in AddedAt(r)}
  BY DEF ClaudeScanned, r
<1>4. /\ Here \in Nat \ {0} /\ Here <= Len(args) + 1
      /\ at > Len(args) => Here = Len(args) + 1
      /\ at <= Len(args) => Here = at
  BY <1>1, <1>3 DEF Here
<1>5. DOMAIN r = 1..len
  BY <1>2 DEF IsReading
<1>6. p \in Nat \ {0} /\ p <= len + 1 /\ \A i \in 1..len : i \in 1..p - 1 \/ i \in p..len
  BY <1>1, <1>4
<1>7. \A i \in p..len : \/ i = p /\ r[i] = "terminator" /\ at <= Len(args)
                        \/ i > p /\ r[i] = "text" /\ at <= Len(args)
  <2>1. CASE at > Len(args)
    BY <1>1, <1>4, <2>1
  <2>2. CASE at <= Len(args) /\ Word = "--"
    <3>1. p \in 1..len /\ Argv[p] = "--"
      BY <1>1, <1>3, <1>4, <2>2 DEF Word
    <3>2. r[p] = "terminator"
      BY <1>1, <1>2, <1>3, <3>1, Standing DEF OwnRole
    <3>3. \A i \in p + 1..len : r[i] = "text"
      <4>1. len \in Nat
        BY <1>1
      <4>2. p \in 1..len
        BY <3>1
      <4>. HIDE DEF p
      <4>. QED  BY <1>2, <3>2, <4>1, <4>2, TextFollows
    <3>4. \A i \in p..len : i = p \/ (i > p /\ i \in p + 1..len)
      BY <1>1, <1>4
    <3>. QED  BY <2>2, <3>2, <3>3, <3>4
  <2>. QED  BY <2>1, <2>2
<1>8. \A i \in 1..p - 1 : i \in 1..len => r[i] # "text"
  <2>1. \A i \in 1..len : i <= p => r[i] # "text"
    <3>1. len \in Nat
      BY <1>1
    <3>2. Reached("claude", Argv, r, p)
      BY <1>3
    <3>3. p \in Nat /\ p <= len + 1
      BY <1>6
    <3>. HIDE DEF p
    <3>. QED  BY <1>2, <3>1, <3>2, <3>3, NoTextBefore
  <2>. QED  BY <1>6, <2>1
<1>9. \A i \in OptionsAt(r) : Argv[i] \notin ClaudeControls
  <2>. SUFFICES ASSUME NEW i \in OptionsAt(r) PROVE Argv[i] \notin ClaudeControls
    OBVIOUS
  <2>1. i \in 1..len /\ i \notin 1..Lead /\ r[i] = "option"
    BY <1>1, <1>5 DEF OptionsAt, At
  <2>2. i \notin p..len
    BY <1>7, <2>1
  <2>3. i \in Lead + 1..Here + Lead - 1
    BY <1>1, <1>4, <2>1, <2>2
  <2>. QED  BY <1>3, <2>1, <2>3
<1>10. Command(r) \cap ClaudeCommands = {}
  <2>1. CommandAt("claude", r) = FirstAt(T)
    BY DEF CommandAt
  <2>2. T = {i \in 1..len : r[i] = "positional" \/ r[i] = "text"}
    BY <1>5 DEF At
  <2>. HIDE DEF T
  <2>3. \A i \in FirstAt(T) : Argv[i] \notin ClaudeCommands
    <3>1. CASE ~open
      <4>1. T \subseteq 1..Len(Argv) /\ \A i \in 1..Len(Argv) : r[i] = "positional" => i \in T
        BY <2>2
      <4>2. \A i \in T : r[i] = "positional" \/ i >= p
        BY <1>6, <1>8, <2>2
      <4>3. PICK c \in 1..p - 1 : /\ r[c] = "positional" /\ Argv[c] \notin ClaudeCommands
                                  /\ \A j \in 1..c - 1 : r[j] # "positional"
        BY <1>3, <3>1 DEF FirstWord
      <4>4. c \in T
        BY <1>1, <1>6, <4>1, <4>3
      <4>5. \A j \in T : c <= j
        <5>. SUFFICES ASSUME NEW j \in T, j < c PROVE FALSE
          BY <1>1, <1>6, <4>1
        <5>1. j \in 1..c - 1 /\ ~(j >= p)
          BY <1>1, <1>6, <4>1
        <5>. QED  BY <4>2, <4>3, <5>1
      <4>6. T \subseteq Nat
        BY <4>1
      <4>7. FirstAt(T) = {c}
        BY <4>4, <4>5, <4>6, FirstIsCommand
      <4>. QED  BY <4>3, <4>7
    <3>2. CASE open
      <4>1. \A i \in T : i \in p + 1..len /\ at <= Len(args)
        <5>. SUFFICES ASSUME NEW i \in T PROVE i \in p + 1..len /\ at <= Len(args)
          OBVIOUS
        <5>1. i \in 1..len /\ r[i] \in {"positional", "text"}
          BY <2>2
        <5>2. i \notin 1..p - 1
          BY <1>3, <1>8, <3>2, <5>1 DEF FirstWord
        <5>3. i \in p..len
          BY <1>6, <5>1, <5>2
        <5>. QED  BY <1>6, <1>7, <5>1, <5>3
      <4>. SUFFICES ASSUME NEW i \in FirstAt(T) PROVE Argv[i] \notin ClaudeCommands
        OBVIOUS
      <4>2. i \in T /\ \A j \in T : i <= j
        BY DEF FirstAt
      <4>3. i \in p + 1..len /\ at <= Len(args) /\ Here = at
        BY <1>4, <4>1, <4>2
      <4>4. p + 1 \in T
        <5>1. p + 1 \in p..len /\ p + 1 \in 1..len
          BY <1>6, <4>3
        <5>. QED  BY <1>6, <1>7, <2>2, <5>1
      <4>5. i = p + 1
        BY <1>6, <4>2, <4>3, <4>4
      <4>6. at + 1 \in 1..Len(args) /\ (at + 1) + Lead = p + 1
        BY <1>1, <1>3, <4>3
      <4>7. Argv[p + 1] = args[at + 1] /\ at < Len(args)
        BY <1>1, <1>3, <4>6
      <4>8. Next1 \cap ClaudeCommands = {}
        BY <1>1, <1>3, <3>2, <4>3
      <4>. QED  BY <4>5, <4>7, <4>8 DEF Next1
    <3>. QED  BY <3>1, <3>2
  <2>. QED  BY <2>1, <2>3 DEF Command
<1>11. {i - Lead : i \in AddedAt(r)} = dirs
  <2>. DEFINE A == AddedAt(r)
  <2>1. \A i \in A : i \in 1..len /\ i \notin 1..Lead /\ r[i] \in {"option", "value"}
    BY <1>1 DEF AddedAt
  <2>2. \A i \in A : i \notin p..len
    BY <1>7, <2>1
  <2>. HIDE DEF A
  <2>3. \A i \in A : i - Lead \in 1..Here - 1 /\ (i - Lead) + Lead = i
    BY <1>1, <1>4, <2>1, <2>2
  <2>4. \A k \in 1..Here - 1 : (k + Lead) - Lead = k
    BY <1>1, <1>4
  <2>5. dirs = {k \in 1..Here - 1 : k + Lead \in A}
    BY <1>3 DEF A
  <2>. QED  BY <2>3, <2>4, <2>5 DEF A
<1>. QED  BY <1>1, <1>9, <1>10, <1>11 DEF ClaudeLeaves, r

-----------------------------------------------------------------------------
(* Arguments: what Codex reads.                                            *)

CodexTables == {"codex", "exec"}
ValuesOf(table) == IF table = "exec" THEN CodexExecValue ELSE CodexRootValue

\* A terminator that ends nothing was taken for a value, and that is a usage error.
LEMMA TerminatorEnds ==
  ASSUME NEW table \in CodexTables, NEW s, NEW r, IsReading(table, s, r), Len(s) \in Nat,
         DOMAIN s = 1..Len(s), NEW i \in 1..Len(s), r[i] # "text", NEW q \in 1..i - 1, s[q] = "--"
  PROVE  Incomplete(table, s, r)
<1>. DEFINE T == {k \in 1..i - 1 : s[k] = "--"}
<1>1. PICK m \in T : \A k \in T : m <= k
  <2>1. T \subseteq Nat /\ T # {}
    OBVIOUS
  <2>. HIDE DEF T
  <2>. QED  BY <2>1, LeastNatural
<1>2. m \in 1..Len(s) /\ m \in 1..i - 1 /\ s[m] = "--" /\ \A j \in 1..m - 1 : s[j] # "--"
  BY <1>1
<1>3. \A j \in 1..m - 1 : r[j] # "terminator"
  <2>. SUFFICES ASSUME NEW j \in 1..m - 1 PROVE r[j] # "terminator"
    OBVIOUS
  <2>1. s[j] # "--" /\ r[j] = Role(table, s, r, j)
    BY <1>2 DEF IsReading
  <2>. QED  BY <2>1 DEF Role
<1>4. r[m] # "terminator"
  <2>1. r[i] = Role(table, s, r, i)
    BY DEF IsReading
  <2>. QED  BY <1>2, <2>1 DEF Role
<1>5. PICK j \in 1..m - 1 : r[j] = "option" /\ Claims(Arity(table, s[j]), s, j, m)
  <2>1. r[m] = Role(table, s, r, m)
    BY <1>2 DEF IsReading
  <2>. QED  BY <1>2, <1>3, <1>4, <2>1 DEF Role
<1>6. Arity(table, s[j]) = "one" \/ Arity(table, s[j]) = "many" \/ Arity(table, s[j]) = "none"
  BY CodexArity DEF CodexTables
<1>7. Arity(table, s[j]) = "one" /\ m = j + 1
  <2>1. CASE Arity(table, s[j]) = "one"
    <3>1. Claims("one", s, j, m)
      BY Zenon, <1>5, <2>1
    <3>. QED  BY <2>1, <3>1 DEF Claims
  <2>2. CASE Arity(table, s[j]) = "many"
    <3>1. Claims("many", s, j, m)
      BY Zenon, <1>5, <2>2
    <3>2. m \in j + 1..m /\ Dashed("--")
      BY <1>2 DEF Dashed, Plain
    <3>. QED  BY <1>2, <3>1, <3>2 DEF Claims
  <2>3. CASE Arity(table, s[j]) = "none"
    <3>1. Claims("none", s, j, m)
      BY Zenon, <1>5, <2>3
    <3>. QED  BY <3>1 DEF Claims
  <2>. QED  BY <1>6, <2>1, <2>2, <2>3
<1>8. j \in DOMAIN s /\ s[j + 1] = "--"
  BY <1>2, <1>7
<1>. QED  BY <1>5, <1>7, <1>8 DEF Incomplete

\* Past an option and its value no positional word was met.
Before(r, p) == \A i \in 1..p - 1 : r[i] # "positional"

LEMMA CodexSkips ==
  ASSUME NEW table \in CodexTables, NEW s, NEW r, NEW p, IsReading(table, s, r), Len(s) \in Nat,
         p \in 1..Len(s), Reached(table, s, r, p), Before(r, p),
         s[p] \notin {"--", "-i", DashAlone}, Dashed(s[p]), NEW n,
         n = IF s[p] \in ValuesOf(table) /\ p < Len(s) THEN 1 ELSE 0
  PROVE  Reached(table, s, r, p + n + 1) /\ Before(r, p + n + 1)
<1>1. r[p] = "option"
  <2>1. r[p] = OwnRole(table, s[p])
    BY Standing
  <2>. QED  BY <2>1 DEF OwnRole, OptionShaped
<1>2. n \in Nat /\ p + n <= Len(s)
  OBVIOUS
<1>3. \A i \in p + 1..Len(s) : Claims(Arity(table, s[p]), s, p, i) <=> i <= p + n
  <2>1. CASE s[p] \in ValuesOf(table)
    <3>1. Arity(table, s[p]) = "one"
      BY <2>1, CodexArity DEF CodexTables, ValuesOf
    <3>2. \A i \in p + 1..Len(s) : Claims("one", s, p, i) <=> i <= p + n
      BY <2>1 DEF Claims
    <3>. QED  BY Zenon, <3>1, <3>2
  <2>2. CASE s[p] \notin ValuesOf(table)
    <3>1. Arity(table, s[p]) = "none"
      BY <2>2, CodexArity DEF CodexTables, ValuesOf
    <3>2. \A i \in p + 1..Len(s) : Claims("none", s, p, i) <=> i <= p + n
      BY <2>2 DEF Claims
    <3>. QED  BY Zenon, <3>1, <3>2
  <2>. QED  BY <2>1, <2>2
<1>4. r[p] # "terminator" /\ r[p] # "positional"
  BY <1>1
<1>5. Reached(table, s, r, p + n + 1) /\ \A i \in p + 1..p + n : r[i] = "value"
  BY <1>1, <1>2, <1>3, <1>4, ReachedNext
<1>6. \A i \in 1..(p + n + 1) - 1 : i \in 1..p - 1 \/ i = p \/ i \in p + 1..p + n
  BY <1>2
<1>. QED  BY <1>4, <1>5, <1>6 DEF Before

\* The words that end or cut short a list of Codex's have no effect behind the terminator.
LEMMA CodexList ==
  ASSUME IsList, agent = "codex"
  PROVE  /\ BehindInjected(4)
         /\ Argv[1] = "-C" /\ Argv[2] = "word" /\ Argv[3] = "-c" /\ Argv[4] = "word"
         /\ Argv \in Seq(Words(agent) \cup {"-C", "-c", "word"})
<1>1. Injected = <<"-C", "word", "-c", "word">>
  BY DEF Injected
<1>2. Injected \in Seq({"-C", "-c", "word"}) /\ Len(Injected) = 4
  BY <1>1
<1>3. BehindInjected(4)
  BY <1>2, OperatorsWordsFollow
<1>4. 1 \in 1..4 /\ 2 \in 1..4 /\ 3 \in 1..4 /\ 4 \in 1..4
  OBVIOUS
<1>5. Argv \in Seq(Words(agent) \cup {"-C", "-c", "word"})
  <2>1. args \in Seq(Words(agent) \cup {"-C", "-c", "word"}) /\ Injected \in Seq(Words(agent) \cup {"-C", "-c", "word"})
    BY <1>2 DEF IsList
  <2>. QED  BY <2>1 DEF Argv
<1>. QED  BY <1>1, <1>3, <1>4, <1>5 DEF BehindInjected

\* As far as the root's walk has come, only options and their values were met.
RootScanned ==
    LET r == Reading("codex", Argv) IN
    /\ at \in Nat \ {0}
    /\ Reached("codex", Argv, r, Here + 4)
    /\ Before(r, Here + 4)

\* The words behind exec are a list of their own.
Behind(e) == SubSeq(Argv, e + 1, Len(Argv))
IsCommandAt(e) ==
    LET r == Reading("codex", Argv) IN
    /\ e \in 5..Len(Argv) /\ r[e] = "positional" /\ Argv[e] = "exec" /\ Before(r, e)
ExecScanned ==
    /\ at \in Nat \ {0}
    /\ \E e \in 5..Here + 3 :
         LET x == Reading("exec", Behind(e)) IN
         /\ IsCommandAt(e)
         /\ Reached("exec", Behind(e), x, Here + 4 - e)
         /\ Before(x, Here + 4 - e)

CodexInv ==
    agent = "codex" =>
        /\ stage \in {"controls", "root", "exec"}
        /\ stage # "controls" => ~HoldsControl
        /\ ruling = "scanning" =>
             /\ stage = "controls" => at = 1
             /\ stage = "root" => RootScanned
             /\ stage = "exec" => ExecScanned
        /\ ruling = "accepted" => ~CodexLeaves(Reading("codex", Argv))

LEMMA RootStarts ==
  ASSUME IsList, agent = "codex", at = 1
  PROVE  RootScanned
<1>. DEFINE r == Reading("codex", Argv)
<1>1. /\ Len(Argv) \in Nat /\ 4 <= Len(Argv) /\ Len(Argv) = Len(args) + 4 /\ Len(args) \in Nat
      /\ Argv[1] = "-C" /\ Argv[2] = "word" /\ Argv[3] = "-c" /\ Argv[4] = "word"
  BY CodexList DEF BehindInjected
<1>2. IsReading("codex", Argv, r)
  BY <1>1, ReadingIsReading
<1>. HIDE DEF r
<1>3. Reached("codex", Argv, r, 1) /\ 1 \in 1..Len(Argv) /\ 1 + 1 <= Len(Argv) /\ 3 \in 1..Len(Argv) /\ 3 + 1 <= Len(Argv)
  BY <1>1 DEF Reached
<1>4. \A w \in {"-C", "-c"} : w # "--" /\ OptionShaped("codex", w) /\ Arity("codex", w) = "one"
  BY CodexArity DEF OptionShaped, Dashed, Plain, DashAlone, CodexRootValue
<1>5. Reached("codex", Argv, r, 1 + 2) /\ r[1] = "option" /\ r[1 + 1] = "value"
  <2>1. Argv[1] # "--" /\ OptionShaped("codex", Argv[1]) /\ Arity("codex", Argv[1]) = "one"
    BY <1>1, <1>4
  <2>. QED  BY <1>1, <1>2, <1>3, <2>1, ReachedPair
<1>6. Reached("codex", Argv, r, 3)
  BY <1>5
<1>7. Reached("codex", Argv, r, 3 + 2) /\ r[3] = "option" /\ r[3 + 1] = "value"
  <2>1. Argv[3] # "--" /\ OptionShaped("codex", Argv[3]) /\ Arity("codex", Argv[3]) = "one"
    BY <1>1, <1>4
  <2>. QED  BY <1>1, <1>2, <1>3, <1>6, <2>1, ReachedPair
<1>8. Here + 4 = 5 /\ at \in Nat \ {0}
  BY <1>1 DEF Here
<1>9. Before(r, 5)
  <2>1. \A i \in 1..5 - 1 : i = 1 \/ i = 2 \/ i = 3 \/ i = 4
    OBVIOUS
  <2>2. r[1] # "positional" /\ r[2] # "positional" /\ r[3] # "positional" /\ r[4] # "positional"
    BY <1>5, <1>7
  <2>. QED  BY <2>1, <2>2 DEF Before
<1>10. Reached("codex", Argv, r, 5)
  BY <1>7
<1>. QED  BY <1>8, <1>9, <1>10 DEF RootScanned, r

LEMMA WordsBehind ==
  ASSUME IsList, agent = "codex", NEW e \in 1..Len(Argv)
  PROVE  /\ Len(Behind(e)) = Len(Argv) - e /\ Len(Behind(e)) \in Nat
         /\ DOMAIN Behind(e) = 1..Len(Behind(e))
         /\ \A i \in 1..Len(Behind(e)) : Behind(e)[i] = Argv[e + i]
<1>. DEFINE W == Words(agent) \cup {"-C", "-c", "word"}
<1>1. Argv \in Seq(W)
  BY CodexList
<1>. HIDE DEF W
<1>. QED  BY <1>1 DEF Behind

\* Where the walk stands after the step over an option.
LEMMA SkipsTo ==
  ASSUME IsList, at \in Nat \ {0}, at <= Len(args), NEW takes \in BOOLEAN,
         at' = at + (IF takes THEN 2 ELSE 1), args' = args
  PROVE  /\ at' \in Nat \ {0} /\ Here = at
         /\ Here' = at + (IF takes /\ at < Len(args) THEN 1 ELSE 0) + 1
<1>1. Len(args) \in Nat
  BY DEF IsList
<1>. QED  BY <1>1 DEF Here

LEMMA RootSkips ==
  ASSUME IsList, agent = "codex", stage = "root", RootScanned, CodexSkip
  PROVE  RootScanned'
<1>. DEFINE r == Reading("codex", Argv)
            p == at + 4
            takes == Word \in CodexRootValue
            n == IF takes /\ at < Len(args) THEN 1 ELSE 0
<1>1. /\ Len(Argv) \in Nat /\ Len(Argv) = Len(args) + 4 /\ Len(args) \in Nat
      /\ \A i \in 1..Len(args) : Argv[i + 4] = args[i]
  BY CodexList DEF BehindInjected
<1>2. IsReading("codex", Argv, r)
  BY <1>1, ReadingIsReading
<1>3. /\ at \in Nat \ {0} /\ at <= Len(args)
      /\ Word \notin {"--", "-i", DashAlone} /\ Dashed(Word)
      /\ at' = at + (IF takes THEN 2 ELSE 1) /\ args' = args /\ agent' = agent /\ mountMode' = mountMode
  BY DEF CodexSkip, RootScanned, Advances, CodexTakes
<1>4. Here = at /\ at' \in Nat \ {0} /\ Here' = at + n + 1
  <2>1. takes \in BOOLEAN
    OBVIOUS
  <2>. HIDE DEF takes
  <2>. QED  BY <1>3, <2>1, SkipsTo
<1>5. Argv' = Argv
  BY <1>3 DEF Argv, Injected
<1>. HIDE DEF r
<1>6. Reached("codex", Argv, r, p) /\ Before(r, p)
  BY <1>4 DEF RootScanned, r
<1>7. p \in 1..Len(Argv) /\ Argv[p] = Word /\ (p < Len(Argv) <=> at < Len(args))
  BY <1>1, <1>3 DEF Word
<1>8. n = IF Argv[p] \in ValuesOf("codex") /\ p < Len(Argv) THEN 1 ELSE 0
  BY <1>7 DEF ValuesOf
<1>9. Argv[p] \notin {"--", "-i", DashAlone} /\ Dashed(Argv[p]) /\ "codex" \in CodexTables
  BY <1>3, <1>7 DEF CodexTables
<1>10. Here' + 4 = p + n + 1
  BY <1>1, <1>3, <1>4
<1>11. Reached("codex", Argv, r, p + n + 1) /\ Before(r, p + n + 1)
  <2>. HIDE DEF p, n
  <2>. QED  BY <1>1, <1>2, <1>6, <1>7, <1>8, <1>9, CodexSkips
<1>12. Reading("codex", Argv)' = r
  BY <1>5 DEF r
<1>. QED  BY <1>4, <1>5, <1>10, <1>11, <1>12 DEF RootScanned

\* The command stays the command; only the walk moves.
LEMMA CommandStays ==
  ASSUME agent' = agent, mountMode' = mountMode, args' = args
  PROVE  ExecScanned' <=>
            /\ at' \in Nat \ {0}
            /\ \E f \in 5..Here' + 3 :
                  LET y == Reading("exec", Behind(f)) IN
                  /\ IsCommandAt(f)
                  /\ Reached("exec", Behind(f), y, Here' + 4 - f)
                  /\ Before(y, Here' + 4 - f)
BY DEF ExecScanned, IsCommandAt, Behind, Argv, Injected, Reached, Before

LEMMA ExecStarts ==
  ASSUME IsList, agent = "codex", stage = "root", RootScanned, at <= Len(args), Word = "exec",
         at' = at + 1, args' = args, agent' = agent, mountMode' = mountMode
  PROVE  ExecScanned'
<1>. DEFINE r == Reading("codex", Argv)
            e == at + 4
            x == Reading("exec", Behind(e))
<1>1. /\ Len(Argv) \in Nat /\ Len(Argv) = Len(args) + 4 /\ Len(args) \in Nat
      /\ \A i \in 1..Len(args) : Argv[i + 4] = args[i]
  BY CodexList DEF BehindInjected
<1>2. IsReading("codex", Argv, r)
  BY <1>1, ReadingIsReading
<1>3. at \in Nat \ {0} /\ Here = at /\ Here' = at + 1
  BY <1>1 DEF RootScanned, Here
<1>4. Argv' = Argv
  BY DEF Argv, Injected
<1>. HIDE DEF r, x
<1>5. Reached("codex", Argv, r, e) /\ Before(r, e)
  BY <1>3 DEF RootScanned, r
<1>6. e \in 5..Len(Argv) /\ e \in 1..Len(Argv) /\ Argv[e] = "exec"
  BY <1>1, <1>3 DEF Word
<1>7. r[e] = "positional"
  <2>1. r[e] = OwnRole("codex", Argv[e])
    BY <1>1, <1>2, <1>5, <1>6, Standing
  <2>. QED  BY <1>6, <2>1 DEF OwnRole, OptionShaped, Dashed, Plain
<1>8. IsCommandAt(e)
  BY <1>5, <1>6, <1>7 DEF IsCommandAt, r
<1>9. Here' + 4 - e = 1 /\ e \in 5..Here' + 3 /\ at' \in Nat \ {0}
  BY <1>1, <1>3
<1>10. Reached("exec", Behind(e), x, 1) /\ Before(x, 1)
  BY DEF Reached, Before
<1>. HIDE DEF e
<1>11. \E f \in 5..Here' + 3 :
          LET y == Reading("exec", Behind(f)) IN
          /\ IsCommandAt(f)
          /\ Reached("exec", Behind(f), y, Here' + 4 - f)
          /\ Before(y, Here' + 4 - f)
  <2>1. /\ Reached("exec", Behind(e), Reading("exec", Behind(e)), Here' + 4 - e)
        /\ Before(Reading("exec", Behind(e)), Here' + 4 - e)
    BY <1>9, <1>10 DEF x
  <2>. QED  BY <1>8, <1>9, <2>1
<1>. QED  BY <1>9, <1>11, CommandStays

LEMMA ExecSkips ==
  ASSUME IsList, agent = "codex", stage = "exec", ExecScanned, CodexSkip
  PROVE  ExecScanned'
<1>. DEFINE takes == Word \in CodexExecValue
            n == IF takes /\ at < Len(args) THEN 1 ELSE 0
<1>1. /\ Len(Argv) \in Nat /\ Len(Argv) = Len(args) + 4 /\ Len(args) \in Nat
      /\ \A i \in 1..Len(args) : Argv[i + 4] = args[i]
  BY CodexList DEF BehindInjected
<1>2. /\ at \in Nat \ {0} /\ at <= Len(args)
      /\ Word \notin {"--", "-i", DashAlone} /\ Dashed(Word)
      /\ at' = at + (IF takes THEN 2 ELSE 1) /\ args' = args /\ agent' = agent /\ mountMode' = mountMode
  BY DEF CodexSkip, ExecScanned, Advances, CodexTakes
<1>3. Here = at /\ at' \in Nat \ {0} /\ Here' = at + n + 1
  <2>1. takes \in BOOLEAN
    OBVIOUS
  <2>. HIDE DEF takes
  <2>. QED  BY <1>2, <2>1, SkipsTo
<1>4. PICK e \in 5..Here + 3 :
          /\ IsCommandAt(e)
          /\ Reached("exec", Behind(e), Reading("exec", Behind(e)), Here + 4 - e)
          /\ Before(Reading("exec", Behind(e)), Here + 4 - e)
  BY DEF ExecScanned
<1>. DEFINE s == Behind(e)
            x == Reading("exec", s)
            p == at + 4 - e
<1>5. e \in 1..Len(Argv) /\ e < at + 4
  BY <1>3, <1>4, <1>2 DEF IsCommandAt
<1>6. Len(s) \in Nat /\ Len(s) = Len(Argv) - e /\ \A i \in 1..Len(s) : s[i] = Argv[e + i]
  BY <1>5, WordsBehind
<1>7. IsReading("exec", s, x)
  <2>. HIDE DEF s
  <2>. QED  BY <1>6, ReadingIsReading
<1>8. Reached("exec", s, x, p) /\ Before(x, p)
  BY <1>3, <1>4
<1>. HIDE DEF s, x
<1>9. p \in 1..Len(s) /\ s[p] = Word /\ (p < Len(s) <=> at < Len(args))
  <2>1. p \in 1..Len(s) /\ e + p = at + 4 /\ at \in 1..Len(args) /\ (p < Len(s) <=> at < Len(args))
    BY <1>1, <1>2, <1>5, <1>6
  <2>2. s[p] = Argv[e + p]
    BY <1>6, <2>1
  <2>3. Argv[e + p] = args[at]
    BY <1>1, <2>1
  <2>. QED  BY <2>1, <2>2, <2>3 DEF Word
<1>10. n = IF s[p] \in ValuesOf("exec") /\ p < Len(s) THEN 1 ELSE 0
  BY <1>9 DEF ValuesOf
<1>11. s[p] \notin {"--", "-i", DashAlone} /\ Dashed(s[p]) /\ "exec" \in CodexTables
  BY <1>2, <1>9 DEF CodexTables
<1>12. Here' + 4 - e = p + n + 1 /\ e \in 5..Here' + 3
  BY <1>2, <1>3, <1>4, <1>5
<1>13. Reached("exec", s, x, p + n + 1) /\ Before(x, p + n + 1)
  <2>. HIDE DEF p, n
  <2>. QED  BY <1>6, <1>7, <1>8, <1>9, <1>10, <1>11, CodexSkips
<1>14. \E f \in 5..Here' + 3 :
          LET y == Reading("exec", Behind(f)) IN
          /\ IsCommandAt(f)
          /\ Reached("exec", Behind(f), y, Here' + 4 - f)
          /\ Before(y, Here' + 4 - f)
  <2>1. /\ Reached("exec", Behind(e), Reading("exec", Behind(e)), Here' + 4 - e)
        /\ Before(Reading("exec", Behind(e)), Here' + 4 - e)
    BY <1>12, <1>13 DEF x, s
  <2>. QED  BY <1>4, <1>12, <2>1
<1>. QED  BY <1>2, <1>3, <1>14, CommandStays

LEMMA NoControlStands ==
  ASSUME IsList, ~HoldsControl, NEW k \in 1..Len(args), \A l \in 1..k : args[l] # "--"
  PROVE  args[k] \notin CodexControls \cup {"-i"}
<1>1. k \in DOMAIN args
  BY DEF IsList
<1>2. args[k] \in BeforeTerminator
  BY <1>1 DEF BeforeTerminator
<1>. QED  BY <1>2 DEF HoldsControl

\* An option in the reading of the whole list is none of the controls.
LEMMA RootOptionsAreFree ==
  ASSUME IsList, agent = "codex", ~HoldsControl, NEW r, IsReading("codex", Argv, r),
         ~Incomplete("codex", Argv, r), NEW i \in 5..Len(Argv), r[i] = "option"
  PROVE  Argv[i] \notin CodexControls \cup {"-i"}
<1>1. /\ Len(Argv) \in Nat /\ Len(Argv) = Len(args) + 4 /\ Len(args) \in Nat
      /\ DOMAIN Argv = 1..Len(Argv) /\ \A l \in 1..Len(args) : Argv[l + 4] = args[l]
  BY CodexList DEF BehindInjected
<1>2. ASSUME NEW l \in 1..i - 4 PROVE args[l] # "--"
  <2>. SUFFICES ASSUME args[l] = "--" PROVE FALSE
    OBVIOUS
  <2>1. l \in 1..Len(args) /\ l + 4 \in 1..i /\ i \in 1..Len(Argv)
    BY <1>1
  <2>2. Argv[l + 4] = "--"
    BY <1>1, <2>1
  <2>3. CASE l + 4 = i
    <3>1. r[i] = Role("codex", Argv, r, i) /\ Argv[i] = "--"
      BY <2>1, <2>2, <2>3 DEF IsReading
    <3>. QED  BY <3>1 DEF Role
  <2>4. CASE l + 4 # i
    <3>1. l + 4 \in 1..i - 1 /\ r[i] # "text" /\ "codex" \in CodexTables
      BY <2>1, <2>4 DEF CodexTables
    <3>. DEFINE q == l + 4
    <3>2. q \in 1..i - 1 /\ Argv[q] = "--"
      BY <2>2, <3>1
    <3>. HIDE DEF q
    <3>. QED  BY <1>1, <2>1, <3>1, <3>2, TerminatorEnds
  <2>. QED  BY <2>3, <2>4
<1>3. i - 4 \in 1..Len(args) /\ (i - 4) + 4 = i
  BY <1>1
<1>4. args[i - 4] \notin CodexControls \cup {"-i"}
  BY <1>2, <1>3, NoControlStands
<1>. QED  BY <1>1, <1>3, <1>4

\* Nor is one in the reading of what stands behind exec.
LEMMA ExecOptionsAreFree ==
  ASSUME IsList, agent = "codex", ~HoldsControl, NEW r, IsReading("codex", Argv, r),
         ~Incomplete("codex", Argv, r), NEW e \in 5..Len(Argv), r[e] = "positional",
         Argv[e] = "exec",
         NEW x, IsReading("exec", Behind(e), x), ~Incomplete("exec", Behind(e), x),
         NEW i \in 1..Len(Behind(e)), x[i] = "option"
  PROVE  Behind(e)[i] \notin CodexControls \cup {"-i"}
<1>. DEFINE s == Behind(e)
<1>1. /\ Len(Argv) \in Nat /\ Len(Argv) = Len(args) + 4 /\ Len(args) \in Nat
      /\ DOMAIN Argv = 1..Len(Argv) /\ \A l \in 1..Len(args) : Argv[l + 4] = args[l]
  BY CodexList DEF BehindInjected
<1>2. /\ Len(s) \in Nat /\ Len(s) = Len(Argv) - e /\ DOMAIN s = 1..Len(s)
      /\ \A l \in 1..Len(s) : s[l] = Argv[e + l]
  <2>1. e \in 1..Len(Argv)
    BY <1>1
  <2>. QED  BY <2>1, WordsBehind
<1>. HIDE DEF s
<1>3. i \in 1..Len(s) /\ IsReading("exec", s, x) /\ ~Incomplete("exec", s, x)
  BY DEF s
<1>4. ASSUME NEW l \in 1..e + i - 4 PROVE args[l] # "--"
  <2>. SUFFICES ASSUME args[l] = "--" PROVE FALSE
    OBVIOUS
  <2>1. l \in 1..Len(args) /\ l + 4 \in 1..e + i
    BY <1>1, <1>2, <1>3
  <2>2. Argv[l + 4] = "--"
    BY <1>1, <2>1
  <2>3. CASE l + 4 = e
    BY <2>2, <2>3
  <2>4. CASE l + 4 < e
    <3>. DEFINE q == l + 4
    <3>1. q \in 1..e - 1 /\ Argv[q] = "--" /\ "codex" \in CodexTables /\ e \in 1..Len(Argv) /\ r[e] # "text"
      BY <1>1, <2>1, <2>2, <2>4 DEF CodexTables
    <3>. HIDE DEF q
    <3>. QED  BY <1>1, <3>1, TerminatorEnds
  <2>5. CASE e < l + 4
    <3>. DEFINE q == l + 4 - e
    <3>1. q \in 1..i /\ e + q = l + 4 /\ q \in 1..Len(s)
      BY <1>1, <1>2, <1>3, <2>1, <2>5
    <3>. HIDE DEF q
    <3>2. s[q] = "--"
      BY <1>2, <2>2, <3>1
    <3>3. CASE q = i
      <4>1. x[i] = Role("exec", s, x, i) /\ s[i] = "--"
        BY <1>3, <3>2, <3>3 DEF IsReading
      <4>. QED  BY <4>1 DEF Role
    <3>4. CASE q # i
      <4>1. q \in 1..i - 1 /\ "exec" \in CodexTables /\ x[i] # "text"
        BY <1>3, <3>1, <3>4 DEF CodexTables
      <4>. QED  BY <1>2, <1>3, <3>2, <4>1, TerminatorEnds
    <3>. QED  BY <3>3, <3>4
  <2>. QED  BY <2>1, <2>3, <2>4, <2>5
<1>5. e + i - 4 \in 1..Len(args) /\ (e + i - 4) + 4 = e + i
  BY <1>1, <1>2, <1>3
<1>. DEFINE k == e + i - 4
<1>6. k \in 1..Len(args) /\ k + 4 = e + i /\ \A l \in 1..k : args[l] # "--"
  BY <1>4, <1>5
<1>. HIDE DEF k
<1>7. args[k] \notin CodexControls \cup {"-i"}
  BY <1>6, NoControlStands
<1>8. s[i] = args[k]
  BY <1>1, <1>2, <1>3, <1>6
<1>. QED  BY <1>7, <1>8 DEF s

\* With one first positional word the command is that word.
LEMMA CommandIs ==
  ASSUME NEW s, NEW r, NEW c, DOMAIN r = 1..Len(s), Len(s) \in Nat, c \in 1..Len(s),
         r[c] = "positional", Before(r, c)
  PROVE  CommandAt("codex", r) = {c} /\ CommandAt("exec", r) = {c}
<1>. DEFINE T == At(r, "positional")
<1>1. T = {i \in 1..Len(s) : r[i] = "positional"}
  BY DEF At
<1>2. c \in T /\ T \subseteq Nat /\ \A j \in T : c <= j
  <2>1. ASSUME NEW j \in T, j < c PROVE FALSE
    <3>1. j \in 1..c - 1 /\ r[j] = "positional"
      BY <1>1, <2>1
    <3>. QED  BY <3>1 DEF Before
  <2>. QED  BY <1>1, <2>1
<1>3. CommandAt("codex", r) = FirstAt(T) /\ CommandAt("exec", r) = FirstAt(T)
  BY DEF CommandAt
<1>. HIDE DEF T
<1>4. FirstAt(T) = {c}
  BY <1>2, FirstIsCommand
<1>. QED  BY <1>3, <1>4

LEMMA RootStays ==
  ASSUME IsList, agent = "codex", ~HoldsControl, NEW r, IsReading("codex", Argv, r),
         ~Incomplete("codex", Argv, r), NEW i \in OptionsAt(r)
  PROVE  Argv[i] \notin CodexControls
<1>1. Len(Argv) \in Nat /\ DOMAIN Injected = 1..4
  BY CodexList DEF BehindInjected
<1>2. i \in 5..Len(Argv) /\ r[i] = "option"
  BY <1>1 DEF OptionsAt, At, IsReading
<1>. QED  BY <1>2, RootOptionsAreFree

LEMMA ReviewStays ==
  ASSUME IsList, agent = "codex", ~HoldsControl, RootScanned, at <= Len(args), Word = "review"
  PROVE  ~CodexLeaves(Reading("codex", Argv))
<1>. DEFINE r == Reading("codex", Argv)
            p == at + 4
<1>1. /\ Len(Argv) \in Nat /\ Len(Argv) = Len(args) + 4 /\ Len(args) \in Nat
      /\ \A i \in 1..Len(args) : Argv[i + 4] = args[i]
  BY CodexList DEF BehindInjected
<1>2. IsReading("codex", Argv, r)
  BY <1>1, ReadingIsReading
<1>. HIDE DEF r
<1>3. at \in Nat \ {0} /\ Reached("codex", Argv, r, p) /\ Before(r, p)
  BY <1>1 DEF RootScanned, Here, r
<1>4. p \in 1..Len(Argv) /\ Argv[p] = "review"
  BY <1>1, <1>3 DEF Word
<1>5. r[p] = "positional"
  <2>1. r[p] = OwnRole("codex", Argv[p])
    BY <1>1, <1>2, <1>3, <1>4, Standing
  <2>. QED  BY <1>4, <2>1 DEF OwnRole, OptionShaped, Dashed, Plain
<1>6. CommandAt("codex", r) = {p}
  <2>. HIDE DEF p
  <2>1. DOMAIN r = 1..Len(Argv)
    BY <1>2 DEF IsReading
  <2>. QED  BY <1>1, <1>3, <1>4, <1>5, <2>1, CommandIs
<1>7. Command(r) \cap CodexSessions # {}
  <2>1. Command(r) = {Argv[i] : i \in {p}}
    BY <1>6 DEF Command
  <2>. QED  BY <1>4, <2>1 DEF CodexSessions
<1>8. ~Incomplete("codex", Argv, r) => \A i \in OptionsAt(r) : Argv[i] \notin CodexControls
  BY <1>2, RootStays
<1>. QED  BY <1>4, <1>6, <1>7, <1>8 DEF CodexLeaves, r

LEMMA ExecStays ==
  ASSUME IsList, agent = "codex", ~HoldsControl, ExecScanned,
         \/ ~(at <= Len(args) /\ Word \notin {"--", "-i"})
         \/ at <= Len(args) /\ (~Dashed(Word) \/ Word = DashAlone) /\ Word \notin CodexNested
  PROVE  ~CodexLeaves(Reading("codex", Argv))
<1>. DEFINE r == Reading("codex", Argv)
<1>1. /\ Len(Argv) \in Nat /\ Len(Argv) = Len(args) + 4 /\ Len(args) \in Nat
      /\ \A i \in 1..Len(args) : Argv[i + 4] = args[i]
  BY CodexList DEF BehindInjected
<1>2. IsReading("codex", Argv, r)
  BY <1>1, ReadingIsReading
<1>3. at \in Nat \ {0} /\ Here \in Nat \ {0} /\ Here <= Len(args) + 1
      /\ (at <= Len(args) => Here = at) /\ (at > Len(args) => Here = Len(args) + 1)
  BY <1>1 DEF ExecScanned, Here
<1>4. PICK e \in 5..Here + 3 :
          /\ IsCommandAt(e)
          /\ Reached("exec", Behind(e), Reading("exec", Behind(e)), Here + 4 - e)
          /\ Before(Reading("exec", Behind(e)), Here + 4 - e)
  BY DEF ExecScanned
<1>. DEFINE s == Behind(e)
            x == Reading("exec", s)
            p == Here + 4 - e
<1>5. e \in 5..Len(Argv) /\ e \in 1..Len(Argv) /\ r[e] = "positional" /\ Argv[e] = "exec" /\ Before(r, e)
  BY <1>1, <1>4 DEF IsCommandAt
<1>6. /\ Len(s) \in Nat /\ Len(s) = Len(Argv) - e /\ DOMAIN s = 1..Len(s)
      /\ \A i \in 1..Len(s) : s[i] = Argv[e + i]
  BY <1>5, WordsBehind
<1>7. IsReading("exec", s, x)
  <2>. HIDE DEF s
  <2>. QED  BY <1>6, ReadingIsReading
<1>8. Reached("exec", s, x, p) /\ Before(x, p)
  BY <1>4
<1>9. p \in Nat \ {0} /\ p <= Len(s) + 1 /\ (at > Len(args) => p = Len(s) + 1)
      /\ (at <= Len(args) => p \in 1..Len(s) /\ e + p = at + 4)
  BY <1>1, <1>3, <1>4, <1>5, <1>6
<1>. HIDE DEF r, x
<1>10. CommandAt("codex", r) = {e}
  <2>1. DOMAIN r = 1..Len(Argv)
    BY <1>2 DEF IsReading
  <2>. QED  BY <1>1, <1>5, <2>1, CommandIs
<1>11. Command(r) \cap CodexSessions # {}
  <2>1. Command(r) = {Argv[i] : i \in {e}}
    BY <1>10 DEF Command
  <2>. QED  BY <1>5, <2>1 DEF CodexSessions
<1>. SUFFICES ASSUME ~Incomplete("codex", Argv, r), ExecLeaves(s) PROVE FALSE
  <2>1. ~Incomplete("codex", Argv, r) => \A i \in OptionsAt(r) : Argv[i] \notin CodexControls
    BY <1>2, RootStays
  <2>2. ~Incomplete("codex", Argv, r) => ~ExecLeaves(s)
    OBVIOUS
  <2>. QED  BY <1>10, <1>11, <2>1, <2>2 DEF CodexLeaves, r, Behind
<1>12. /\ ~Incomplete("exec", s, x)
       /\ \/ \E i \in At(x, "option") : s[i] \in CodexControls
          \/ \E i \in CommandAt("exec", x) : s[i] \in CodexNested
  BY DEF ExecLeaves, x
<1>13. DOMAIN x = 1..Len(s)
  BY <1>7 DEF IsReading
<1>14. \A i \in 1..Len(s) : x[i] = "option" => s[i] \notin CodexControls \cup {"-i"}
  BY <1>2, <1>5, <1>7, <1>12, ExecOptionsAreFree
<1>15. PICK c \in CommandAt("exec", x) : s[c] \in CodexNested
  BY <1>12, <1>13, <1>14 DEF At
<1>. HIDE DEF s, p
<1>16. c \in 1..Len(s) /\ x[c] = "positional" /\ \A j \in 1..Len(s) : x[j] = "positional" => c <= j
  BY <1>13, <1>15 DEF CommandAt, FirstAt, At
<1>17. ~(c \in 1..p - 1)
  BY <1>8, <1>16 DEF Before
<1>18. at <= Len(args) /\ p \in 1..Len(s) /\ p <= c
  BY <1>1, <1>3, <1>6, <1>9, <1>16, <1>17
<1>19. s[p] = Word
  <2>1. s[p] = Argv[e + p] /\ e + p = at + 4
    BY <1>6, <1>9, <1>18
  <2>2. at \in 1..Len(args)
    BY <1>1, <1>3, <1>18
  <2>. QED  BY <1>1, <2>1, <2>2 DEF Word
<1>20. x[p] = OwnRole("exec", Word)
  BY <1>6, <1>7, <1>8, <1>18, <1>19, Standing
<1>21. CASE Word = "--"
  <2>1. x[p] = "terminator"
    BY <1>20, <1>21 DEF OwnRole
  <2>2. \A i \in p + 1..Len(s) : x[i] = "text"
    BY <1>6, <1>7, <1>18, <2>1, TextFollows
  <2>. QED  BY <1>6, <1>16, <1>18, <2>1, <2>2
<1>22. CASE Word = "-i"
  <2>1. x[p] = "option"
    BY <1>20, <1>22 DEF OwnRole, OptionShaped, Dashed, Plain, DashAlone
  <2>. QED  BY <1>14, <1>18, <1>19, <1>22, <2>1
<1>23. CASE (~Dashed(Word) \/ Word = DashAlone) /\ Word \notin CodexNested
  <2>1. x[p] = "positional"
    BY <1>20, <1>23 DEF OwnRole, OptionShaped, Dashed, Plain, DashAlone
  <2>2. c = p
    BY <1>6, <1>16, <1>18, <2>1
  <2>. QED  BY <1>15, <1>19, <1>23, <2>2
<1>. QED  BY <1>18, <1>21, <1>22, <1>23

\* The scan and the agent agree, adapter by adapter.
ArgumentsInv ==
    /\ IsList
    /\ ruling \in Rulings
    /\ OmpInv
    /\ ClaudeInv
    /\ CodexInv

LEMMA InitArguments == ArgumentsInit => ArgumentsInv
<1>. SUFFICES ASSUME ArgumentsInit PROVE ArgumentsInv
  OBVIOUS
<1>1. IsList
  BY ListFromInit
<1>2. /\ at = 1 /\ open /\ dirs = {} /\ ruling = "scanning"
      /\ agent = "codex" => stage = "controls"
  BY DEF ArgumentsInit
<1>3. OmpInv
  BY <1>1, <1>2, OmpStarts DEF OmpInv
<1>4. ClaudeInv
  BY <1>1, <1>2, ClaudeStarts DEF ClaudeInv
<1>5. CodexInv
  BY <1>2 DEF CodexInv
<1>. QED  BY <1>1, <1>2, <1>3, <1>4, <1>5 DEF ArgumentsInv, Rulings

\* A step of one adapter is none of the others'.
LEMMA OmpNextPreserves ==
  ASSUME ArgumentsInv, ruling = "scanning", agent = "omp",
         AtEnd \/ OmpTerminator \/ OmpReject \/ OmpPass
  PROVE  OmpInv' /\ agent' = "omp"
<1>1. IsList /\ OmpScanned
  BY DEF ArgumentsInv, OmpInv
<1>2. CASE OmpReject
  BY <1>2 DEF OmpReject, Concludes, OmpInv
<1>3. CASE OmpPass
  <2>1. OmpScanned' /\ ruling' = "scanning" /\ agent' = "omp"
    BY <1>1, <1>3, OmpPassScans DEF OmpPass, Advances
  <2>. QED  BY <2>1 DEF OmpInv
<1>4. CASE AtEnd \/ OmpTerminator
  <2>0. at > Len(args) \/ (at <= Len(args) /\ Word = "--")
    BY <1>4 DEF AtEnd, OmpTerminator
  <2>1. ~OmpLeaves(Reading("omp", Argv))
    BY <1>1, <2>0, OmpAccepts
  <2>2. UNCHANGED <<agent, mountMode, args>> /\ ruling' = "accepted"
    BY <1>4 DEF AtEnd, OmpTerminator, Concludes
  <2>3. OmpLeaves(Reading("omp", Argv))' <=> OmpLeaves(Reading("omp", Argv))
    BY <2>2 DEF OmpLeaves, OptionsAt, Command, CommandAt, Argv, Injected
  <2>. QED  BY <2>1, <2>2, <2>3 DEF OmpInv
<1>. QED  BY <1>2, <1>3, <1>4

LEMMA ClaudeNextPreserves ==
  ASSUME ArgumentsInv, ruling = "scanning", agent = "claude",
         AtEnd \/ ClaudeTerminator \/ ClaudeReject \/ ClaudePass
  PROVE  ClaudeInv' /\ agent' = "claude"
<1>1. IsList /\ ClaudeScanned
  BY DEF ArgumentsInv, ClaudeInv
<1>2. CASE ClaudeReject
  BY <1>2 DEF ClaudeReject, Concludes, ClaudeInv
<1>3. CASE ClaudePass
  <2>1. ClaudeScanned' /\ ruling' = "scanning" /\ agent' = "claude"
    BY <1>1, <1>3, ClaudePassScans DEF ClaudePass, Advances
  <2>. QED  BY <2>1 DEF ClaudeInv
<1>4. CASE AtEnd \/ ClaudeTerminator
  <2>1. UNCHANGED <<agent, mountMode, args, dirs>> /\ ruling' \in {"accepted", "rejected"}
    BY <1>4 DEF AtEnd, ClaudeTerminator, Concludes
  <2>2. ASSUME ruling' = "accepted"
        PROVE  \/ at > Len(args)
               \/ at <= Len(args) /\ Word = "--" /\ ~(open /\ Next1 \cap ClaudeCommands # {})
    BY <1>4, <2>2 DEF AtEnd, ClaudeTerminator, Concludes
  <2>3. ruling' = "accepted" =>
          /\ ~ClaudeLeaves(Reading("claude", Argv))
          /\ {i - Len(Injected) : i \in AddedAt(Reading("claude", Argv))} = dirs
    BY <1>1, <2>2, ClaudeAccepts
  <2>4. /\ ClaudeLeaves(Reading("claude", Argv))' <=> ClaudeLeaves(Reading("claude", Argv))
        /\ {i - Len(Injected) : i \in AddedAt(Reading("claude", Argv))}'
             = {i - Len(Injected) : i \in AddedAt(Reading("claude", Argv))}
    BY <2>1 DEF ClaudeLeaves, OptionsAt, Command, CommandAt, AddedAt, Argv, Injected
  <2>. QED  BY <2>1, <2>3, <2>4 DEF ClaudeInv
<1>. QED  BY <1>2, <1>3, <1>4

LEMMA CodexNextPreserves ==
  ASSUME ArgumentsInv, ruling = "scanning", agent = "codex",
         CodexControlsWalk \/ CodexSkip \/ CodexNone \/ CodexCommand \/ CodexNestedCommand
  PROVE  CodexInv' /\ agent' = "codex"
<1>1. /\ IsList /\ CodexInv
      /\ stage \in {"controls", "root", "exec"}
      /\ stage # "controls" => ~HoldsControl
      /\ stage = "controls" => at = 1
      /\ stage = "root" => RootScanned
      /\ stage = "exec" => ExecScanned
  BY DEF ArgumentsInv, CodexInv
<1>2. agent' = agent /\ mountMode' = mountMode /\ args' = args
  BY DEF CodexControlsWalk, CodexSkip, CodexNone, CodexCommand, CodexNestedCommand, Concludes, Advances
<1>3. /\ HoldsControl' <=> HoldsControl
      /\ CodexLeaves(Reading("codex", Argv))' <=> CodexLeaves(Reading("codex", Argv))
  <2>1. HoldsControl' <=> HoldsControl
    BY <1>2 DEF HoldsControl, BeforeTerminator
  <2>2. Argv' = Argv /\ Injected' = Injected
    BY <1>2 DEF Argv, Injected
  <2>3. CodexLeaves(Reading("codex", Argv))' <=> CodexLeaves(Reading("codex", Argv))
    BY <1>2, <2>2 DEF CodexLeaves, OptionsAt, Command, CommandAt
  <2>. QED  BY <2>1, <2>3
<1>4. CASE CodexControlsWalk
  <2>1. CASE HoldsControl
    BY <1>1, <1>2, <1>4, <2>1 DEF CodexControlsWalk, Concludes, CodexInv
  <2>2. CASE ~HoldsControl
    <3>1. stage' = "root" /\ ruling' = "scanning" /\ at' = at /\ at = 1
      BY <1>1, <1>4, <2>2 DEF CodexControlsWalk
    <3>2. RootScanned
      BY <1>1, <3>1, RootStarts
    <3>3. RootScanned'
      BY <1>2, <3>1, <3>2 DEF RootScanned, Reached, Before, Here, Argv, Injected
    <3>. QED  BY <1>2, <1>3, <2>2, <3>1, <3>3 DEF CodexInv
  <2>. QED  BY <2>1, <2>2
<1>5. CASE CodexSkip
  <2>1. stage' = stage /\ ruling' = "scanning" /\ stage \in {"root", "exec"}
    BY <1>5 DEF CodexSkip, Advances, Scanning
  <2>2. stage = "root" => RootScanned'
    BY <1>1, <1>5, RootSkips
  <2>3. stage = "exec" => ExecScanned'
    BY <1>1, <1>5, ExecSkips
  <2>. QED  BY <1>1, <1>2, <1>3, <2>1, <2>2, <2>3 DEF CodexInv
<1>6. CASE CodexNone
  <2>1. stage' = stage /\ stage \in {"root", "exec"}
        /\ ruling' = (IF stage = "root" THEN "rejected" ELSE "accepted")
        /\ ~(at <= Len(args) /\ Word \notin {"--", "-i"})
    BY <1>6 DEF CodexNone, Concludes
  <2>2. stage = "exec" => ~CodexLeaves(Reading("codex", Argv))
    BY <1>1, <2>1, ExecStays
  <2>. QED  BY <1>1, <1>2, <1>3, <2>1, <2>2 DEF CodexInv
<1>7. CASE CodexCommand
  <2>1. stage = "root" /\ at <= Len(args) /\ RootScanned /\ ~HoldsControl
    BY <1>1, <1>7 DEF CodexCommand
  <2>2. CASE Word = "exec" /\ stage' = "exec" /\ at' = at + 1 /\ ruling' = ruling
    <3>1. ExecScanned'
      BY <1>1, <1>2, <2>1, <2>2, ExecStarts
    <3>. QED  BY <1>2, <1>3, <2>1, <2>2, <3>1 DEF CodexInv
  <2>3. CASE Word = "review" /\ ruling' = "accepted" /\ stage' = stage
    <3>1. ~CodexLeaves(Reading("codex", Argv))
      BY <1>1, <2>1, <2>3, ReviewStays
    <3>. QED  BY <1>2, <1>3, <2>1, <2>3, <3>1 DEF CodexInv
  <2>4. CASE ruling' = "rejected" /\ stage' = stage
    BY <1>2, <1>3, <2>1, <2>4 DEF CodexInv
  <2>. QED  BY <1>7, <2>2, <2>3, <2>4 DEF CodexCommand, Concludes
<1>8. CASE CodexNestedCommand
  <2>1. /\ stage = "exec" /\ stage' = stage /\ at <= Len(args) /\ (~Dashed(Word) \/ Word = DashAlone)
        /\ ruling' = (IF Word \in CodexNested THEN "rejected" ELSE "accepted")
    BY <1>8 DEF CodexNestedCommand, Concludes
  <2>2. Word \notin CodexNested => ~CodexLeaves(Reading("codex", Argv))
    BY <1>1, <1>8, <2>1, ExecStays DEF CodexNestedCommand
  <2>. QED  BY <1>1, <1>2, <1>3, <2>1, <2>2 DEF CodexInv
<1>. QED  BY <1>2, <1>4, <1>5, <1>6, <1>7, <1>8

LEMMA ArgumentsNextPreserves == ArgumentsInv /\ [ArgumentsNext]_argumentVars => ArgumentsInv'
<1>. SUFFICES ASSUME ArgumentsInv, [ArgumentsNext]_argumentVars PROVE ArgumentsInv'
  OBVIOUS
<1>1. CASE UNCHANGED argumentVars
  <2>1. UNCHANGED <<agent, mountMode, args, at, open, dirs, stage, ruling>>
    BY <1>1 DEF argumentVars
  <2>2. Argv' = Argv /\ Injected' = Injected /\ Here' = Here
    BY <2>1 DEF Argv, Injected, Here
  <2>3. OmpInv'
    <3>1. OmpScanned' <=> OmpScanned
      BY <2>1, <2>2 DEF OmpScanned, OmpMoves
    <3>2. OmpLeaves(Reading("omp", Argv))' <=> OmpLeaves(Reading("omp", Argv))
      BY <2>1, <2>2 DEF OmpLeaves, OptionsAt, Command, CommandAt
    <3>. QED  BY <2>1, <3>1, <3>2 DEF ArgumentsInv, OmpInv
  <2>4. ClaudeInv'
    <3>1. ClaudeScanned' <=> ClaudeScanned
      BY <2>1, <2>2 DEF ClaudeScanned, AddedAt, Lead
    <3>2. /\ ClaudeLeaves(Reading("claude", Argv))' <=> ClaudeLeaves(Reading("claude", Argv))
          /\ {i - Len(Injected) : i \in AddedAt(Reading("claude", Argv))}'
               = {i - Len(Injected) : i \in AddedAt(Reading("claude", Argv))}
      BY <2>1, <2>2 DEF ClaudeLeaves, OptionsAt, Command, CommandAt, AddedAt
    <3>. QED  BY <2>1, <3>1, <3>2 DEF ArgumentsInv, ClaudeInv
  <2>5. CodexInv'
    <3>1. HoldsControl' <=> HoldsControl
      BY <2>1 DEF HoldsControl, BeforeTerminator
    <3>2. CodexLeaves(Reading("codex", Argv))' <=> CodexLeaves(Reading("codex", Argv))
      BY <2>1, <2>2 DEF CodexLeaves, OptionsAt, Command, CommandAt
    <3>3. RootScanned' <=> RootScanned
      BY <2>1, <2>2 DEF RootScanned
    <3>4. ExecScanned' <=> ExecScanned
      BY <2>1, <2>2 DEF ExecScanned, IsCommandAt, Behind
    <3>. QED  BY <2>1, <3>1, <3>2, <3>3, <3>4 DEF ArgumentsInv, CodexInv
  <2>. QED  BY <2>1, <2>3, <2>4, <2>5 DEF ArgumentsInv, IsList, Rulings
<1>2. CASE ArgumentsNext
  <2>1. ruling = "scanning" /\ agent \in Agents
    BY <1>2 DEF ArgumentsNext, AtEnd, Scanning, OmpTerminator, OmpReject, OmpPass, ClaudeTerminator,
          ClaudeReject, ClaudePass, CodexControlsWalk, CodexSkip, CodexNone, CodexCommand,
          CodexNestedCommand, ArgumentsInv, IsList
  <2>2. agent' = agent /\ mountMode' = mountMode /\ args' = args /\ ruling' \in Rulings
    BY <1>2 DEF ArgumentsNext, AtEnd, Scanning, OmpTerminator, OmpReject, OmpPass, ClaudeTerminator,
          ClaudeReject, ClaudePass, CodexControlsWalk, CodexSkip, CodexNone, CodexCommand,
          CodexNestedCommand, Concludes, Advances, Rulings
  <2>3. IsList'
    BY <2>2 DEF ArgumentsInv, IsList
  <2>4. CASE agent = "omp"
    <3>1. AtEnd \/ OmpTerminator \/ OmpReject \/ OmpPass
      BY <1>2, <2>4 DEF ArgumentsNext, Scanning, ClaudeTerminator, ClaudeReject, ClaudePass,
            CodexControlsWalk, CodexSkip, CodexNone, CodexCommand, CodexNestedCommand
    <3>2. OmpInv' /\ agent' = "omp"
      BY <2>1, <2>4, <3>1, OmpNextPreserves
    <3>. QED  BY <2>2, <2>3, <3>2 DEF ArgumentsInv, ClaudeInv, CodexInv
  <2>5. CASE agent = "claude"
    <3>1. AtEnd \/ ClaudeTerminator \/ ClaudeReject \/ ClaudePass
      BY <1>2, <2>5 DEF ArgumentsNext, Scanning, OmpTerminator, OmpReject, OmpPass,
            CodexControlsWalk, CodexSkip, CodexNone, CodexCommand, CodexNestedCommand
    <3>2. ClaudeInv' /\ agent' = "claude"
      BY <2>1, <2>5, <3>1, ClaudeNextPreserves
    <3>. QED  BY <2>2, <2>3, <3>2 DEF ArgumentsInv, OmpInv, CodexInv
  <2>6. CASE agent = "codex"
    <3>0. ~AtEnd
      BY <2>1, <2>6 DEF AtEnd, ArgumentsInv, CodexInv
    <3>1. CodexControlsWalk \/ CodexSkip \/ CodexNone \/ CodexCommand \/ CodexNestedCommand
      BY <1>2, <2>6, <3>0 DEF ArgumentsNext, Scanning, OmpTerminator, OmpReject, OmpPass,
            ClaudeTerminator, ClaudeReject, ClaudePass
    <3>2. CodexInv' /\ agent' = "codex"
      BY <2>1, <2>6, <3>1, CodexNextPreserves
    <3>. QED  BY <2>2, <2>3, <3>2 DEF ArgumentsInv, OmpInv, ClaudeInv
  <2>. QED  BY <2>1, <2>4, <2>5, <2>6 DEF Agents
<1>. QED  BY <1>1, <1>2

LEMMA AgreementKeepsTheChild == ArgumentsInv => NothingEscapes
<1>. SUFFICES ASSUME ArgumentsInv, ruling = "accepted"
              PROVE  /\ ~Leaves(Reading(agent, Argv))
                     /\ agent = "claude" => {i - Len(Injected) : i \in AddedAt(Reading(agent, Argv))} = dirs
  BY DEF NothingEscapes
<1>1. agent \in {"omp", "claude", "codex"} /\ OmpInv /\ ClaudeInv /\ CodexInv
  BY DEF ArgumentsInv, IsList, Agents
<1>2. CASE agent = "omp"
  BY <1>1, <1>2 DEF OmpInv, Leaves
<1>3. CASE agent = "claude"
  BY <1>1, <1>3 DEF ClaudeInv, Leaves
<1>4. CASE agent = "codex"
  BY <1>1, <1>4 DEF CodexInv, Leaves
<1>. QED  BY <1>1, <1>2, <1>3, <1>4

\* Of an accepted list of any length no word moves the child out of the planned session, as
\* the agent reads the list behind the adapter's own options, and the directories Claude
\* Code is given are those that were inspected. (args.rs validate, claude.rs
\* scan_passthrough, codex.rs validate_codex_command)
THEOREM AcceptedArgumentsStay == ArgumentsSpec => []NothingEscapes
<1>1. ArgumentsInit => ArgumentsInv
  BY InitArguments
<1>2. ArgumentsInv /\ [ArgumentsNext]_argumentVars => ArgumentsInv'
  BY ArgumentsNextPreserves
<1>3. ArgumentsInv => NothingEscapes
  BY AgreementKeepsTheChild
<1>. QED  BY <1>1, <1>2, <1>3, PTL DEF ArgumentsSpec

-----------------------------------------------------------------------------
(* Arguments: what is refused.                                             *)

\* Permission to use the home directory is what the options read so far say.
HomeRead(r) == home <=> \E i \in 3..at + 1 : r[i] = "option" /\ Argv[i] = "--allow-home"

HomeInv ==
    /\ agent = "omp" =>
         /\ ruling = "scanning" => HomeRead(Reading("omp", Argv))
         /\ ruling = "accepted" =>
              (home <=> \E i \in OptionsAt(Reading("omp", Argv)) : Argv[i] = "--allow-home")
    /\ agent = "claude" => ~home

\* What is refused would leave, or gives an empty list of directories.
RefusedInv ==
    agent # "codex" /\ ruling = "rejected" =>
        LET r == Reading(agent, Argv) IN
        Leaves(r) \/ \E i \in OptionsAt(r) : Argv[i] \in {"--add-dir", "--add-dir="}

\* The word an OMP scan stands at, in the agent's reading.
LEMMA OmpWordAt ==
  ASSUME IsList, agent = "omp", OmpScanned, at <= Len(args), NEW r, r = Reading("omp", Argv)
  PROVE  /\ at + 2 \in 1..Len(Argv) /\ at + 2 \notin DOMAIN Injected /\ Argv[at + 2] = Word
         /\ r[at + 2] = OwnRole("omp", Word)
         /\ DOMAIN r = 1..Len(Argv) /\ Len(Argv) \in Nat /\ Len(Argv) = Len(args) + 2
         /\ at < Len(args) => Argv[(at + 2) + 1] = args[at + 1]
<1>1. /\ Len(Argv) \in Nat /\ Len(Argv) = Len(args) + 2 /\ Len(args) \in Nat
      /\ \A i \in 1..Len(args) : Argv[i + 2] = args[i]
      /\ DOMAIN Injected = 1..2
  BY OmpList DEF BehindInjected
<1>2. IsReading("omp", Argv, r)
  BY <1>1, ReadingIsReading
<1>3. at \in Nat \ {0} /\ Reached("omp", Argv, r, at + 2)
  BY DEF OmpScanned
<1>4. at + 2 \in 1..Len(Argv) /\ at + 2 \notin DOMAIN Injected /\ Argv[at + 2] = Word
  BY <1>1, <1>3 DEF Word
<1>5. r[at + 2] = OwnRole("omp", Word)
  <2>. DEFINE p == at + 2
  <2>1. p \in 1..Len(Argv) /\ Argv[p] = Word /\ Reached("omp", Argv, r, p)
    BY <1>3, <1>4
  <2>. HIDE DEF p
  <2>2. r[p] = OwnRole("omp", Argv[p])
    BY <1>1, <1>2, <2>1, Standing
  <2>. QED  BY <2>1, <2>2 DEF p
<1>6. at < Len(args) => Argv[(at + 2) + 1] = args[at + 1]
  <2>1. at < Len(args) => at + 1 \in 1..Len(args) /\ (at + 1) + 2 = (at + 2) + 1
    BY <1>1, <1>3
  <2>. QED  BY <1>1, <2>1
<1>7. DOMAIN r = 1..Len(Argv)
  BY <1>2 DEF IsReading
<1>. QED  BY <1>1, <1>4, <1>5, <1>6, <1>7

LEMMA OmpRefuses ==
  ASSUME IsList, agent = "omp", OmpScanned, OmpReject
  PROVE  OmpLeaves(Reading("omp", Argv))
<1>. DEFINE r == Reading("omp", Argv)
            p == at + 2
<1>. HIDE DEF r
<1>1. at <= Len(args) /\ Word # "--" /\ OmpRejects(Word)
  BY DEF OmpReject
<1>2. /\ p \in 1..Len(Argv) /\ p \notin DOMAIN Injected /\ Argv[p] = Word
      /\ r[p] = OwnRole("omp", Word)
      /\ DOMAIN r = 1..Len(Argv) /\ Len(Argv) \in Nat /\ Len(Argv) = Len(args) + 2
      /\ at < Len(args) => Argv[p + 1] = args[at + 1]
  BY <1>1, OmpWordAt DEF r
<1>3. CASE Word \in OmpControls \cup {"--mode=acp"}
  <2>1. r[p] = "option"
    BY <1>2, <1>3 DEF OwnRole, OptionShaped, OmpControls, Dashed, Plain
  <2>2. p \in OptionsAt(r)
    BY <1>2, <2>1 DEF OptionsAt, At
  <2>. QED  BY <1>2, <1>3, <2>2 DEF OmpLeaves, r
<1>4. CASE Word = "--mode" /\ Next1 \cap RejectedModes # {}
  <2>1. r[p] = "option"
    BY <1>2, <1>4 DEF OwnRole, OptionShaped, Dashed, Plain
  <2>2. p \in OptionsAt(r)
    BY <1>2, <2>1 DEF OptionsAt, At
  <2>3. at < Len(args) /\ args[at + 1] \in RejectedModes
    BY <1>4 DEF Next1
  <2>4. p < Len(Argv)
    BY <1>2, <2>3 DEF OmpScanned, IsList
  <2>. QED  BY <1>2, <1>4, <2>2, <2>3, <2>4 DEF OmpLeaves, r
<1>5. CASE open /\ Word \in OmpCommands
  <2>1. r[p] = "positional"
    BY <1>2, <1>5 DEF OwnRole, OptionShaped, OmpCommands, Dashed, Plain
  <2>2. Before(r, p)
    BY <1>5 DEF OmpScanned, FirstWord, Before, r
  <2>3. CommandAt("codex", r) = {p}
    <3>. HIDE DEF p
    <3>. QED  BY <1>2, <2>1, <2>2, CommandIs
  <2>4. CommandAt("omp", r) = CommandAt("codex", r)
    BY DEF CommandAt
  <2>5. Word \in Command(r)
    BY <1>2, <2>3, <2>4 DEF Command
  <2>. QED  BY <1>5, <2>5 DEF OmpLeaves, r
<1>. QED  BY <1>1, <1>3, <1>4, <1>5 DEF OmpRejects

\* The permission is read with the option and never otherwise.
LEMMA HomeIsRead ==
  ASSUME IsList, agent = "omp", OmpScanned, OmpPass, HomeRead(Reading("omp", Argv))
  PROVE  HomeRead(Reading("omp", Argv))'
<1>. DEFINE r == Reading("omp", Argv)
            p == at + 2
            grants(i) == r[i] = "option" /\ Argv[i] = "--allow-home"
<1>1. /\ at <= Len(args) /\ Word # "--" /\ args' = args /\ agent' = agent /\ mountMode' = mountMode
      /\ home' = (home \/ Word = "--allow-home")
      /\ at' = at + (IF OmpTakes(Word) THEN 2 ELSE 1)
  BY DEF OmpPass, Advances
<1>2. Argv' = Argv
  BY <1>1 DEF Argv, Injected
<1>. HIDE DEF r
<1>3. Argv[p] = Word /\ r[p] = OwnRole("omp", Word)
  BY <1>1, OmpWordAt DEF r
<1>4. grants(p) <=> Word = "--allow-home"
  BY <1>1, <1>3 DEF OwnRole, OptionShaped, Dashed, Plain
<1>5. at \in Nat \ {0} /\ (home <=> \E i \in 3..at + 1 : grants(i))
  BY DEF OmpScanned, HomeRead, r
<1>6. CASE OmpTakes(Word)
  <2>0. r[at + 3] = "value" /\ at + 3 = p + 1
    BY <1>5, <1>6, OmpPassScans DEF r
  <2>1. r[p + 1] = "value"
    BY <2>0
  <2>2. ~grants(p + 1) /\ at' = at + 2 /\ at' + 1 = p + 1
    BY <1>1, <1>5, <1>6, <2>1
  <2>. HIDE DEF grants
  <2>3. \A i \in 3..p + 1 : i \in 3..at + 1 \/ i = p \/ i = p + 1
    BY <1>5
  <2>4. 3..at + 1 \subseteq 3..p + 1 /\ p \in 3..p + 1
    BY <1>5
  <2>5. home' <=> \E i \in 3..p + 1 : grants(i)
    BY <1>1, <1>4, <1>5, <2>2, <2>3, <2>4
  <2>. QED  BY <1>2, <2>2, <2>5 DEF HomeRead, grants, r
<1>7. CASE ~OmpTakes(Word)
  <2>1. at' = at + 1 /\ at' + 1 = p
    BY <1>1, <1>5, <1>7
  <2>. HIDE DEF grants
  <2>2. \A i \in 3..p : i \in 3..at + 1 \/ i = p
    BY <1>5
  <2>3. 3..at + 1 \subseteq 3..p /\ p \in 3..p
    BY <1>5
  <2>4. home' <=> \E i \in 3..p : grants(i)
    BY <1>1, <1>4, <1>5, <2>2, <2>3
  <2>. QED  BY <1>2, <2>1, <2>4 DEF HomeRead, grants, r
<1>. QED  BY <1>6, <1>7

LEMMA HomeIsGranted ==
  ASSUME IsList, agent = "omp", OmpScanned, HomeRead(Reading("omp", Argv)),
         at > Len(args) \/ (at <= Len(args) /\ Word = "--")
  PROVE  home <=> \E i \in OptionsAt(Reading("omp", Argv)) : Argv[i] = "--allow-home"
<1>. DEFINE r == Reading("omp", Argv)
<1>1. at \in Nat \ {0} /\ (home <=> \E i \in 3..at + 1 : r[i] = "option" /\ Argv[i] = "--allow-home")
      /\ at <= Len(args) + 1
  BY DEF OmpScanned, HomeRead
<1>2. DOMAIN Injected = 1..2 /\ Len(Argv) = Len(args) + 2 /\ Len(args) \in Nat
  BY OmpList DEF BehindInjected
<1>3. IsReading("omp", Argv, r)
  BY <1>2, ReadingIsReading
<1>4. \A i \in at + 2..Len(Argv) : r[i] # "option"
  BY OmpTail
<1>. HIDE DEF r
<1>5. OptionsAt(r) = {i \in 3..at + 1 : r[i] = "option"}
  <2>1. OptionsAt(r) = {i \in 1..Len(Argv) : r[i] = "option" /\ i \notin 1..2}
    BY <1>2, <1>3 DEF OptionsAt, At, IsReading
  <2>. QED  BY <1>1, <1>2, <1>4, <2>1
<1>. QED  BY <1>1, <1>5 DEF r

\* The word a Claude Code scan stands at, in the agent's reading.
LEMMA ClaudeWordAt ==
  ASSUME IsList, agent = "claude", ClaudeScanned, at <= Len(args), NEW r, r = Reading("claude", Argv)
  PROVE  /\ at + Lead \in 1..Len(Argv) /\ at + Lead \notin DOMAIN Injected /\ Argv[at + Lead] = Word
         /\ r[at + Lead] = OwnRole("claude", Word)
         /\ DOMAIN r = 1..Len(Argv) /\ Len(Argv) \in Nat /\ Len(Argv) = Len(args) + Lead
         /\ at < Len(args) => Argv[at + Lead + 1] = args[at + 1]
         /\ at \in Nat \ {0} /\ Lead \in Nat /\ IsReading("claude", Argv, r)
         /\ open => Before(r, at + Lead)
         /\ \A i \in 1..at + Lead : r[i] # "text"
<1>1. /\ Len(Argv) \in Nat /\ Len(Argv) = Len(args) + Lead /\ Len(args) \in Nat /\ Lead \in Nat
      /\ \A i \in 1..Len(args) : Argv[i + Lead] = args[i]
      /\ DOMAIN Injected = 1..Lead
  BY ClaudeList DEF BehindInjected
<1>2. IsReading("claude", Argv, r)
  BY <1>1, ReadingIsReading
<1>3. at \in Nat \ {0} /\ Reached("claude", Argv, r, at + Lead) /\ (open => Before(r, at + Lead))
  BY DEF ClaudeScanned, Here, FirstWord, Before
<1>4. at + Lead \in 1..Len(Argv) /\ at + Lead \notin DOMAIN Injected /\ Argv[at + Lead] = Word
  BY <1>1, <1>3 DEF Word
<1>5. r[at + Lead] = OwnRole("claude", Word) /\ \A i \in 1..at + Lead : r[i] # "text"
  <2>. DEFINE p == at + Lead
  <2>1. p \in 1..Len(Argv) /\ Argv[p] = Word /\ Reached("claude", Argv, r, p)
    BY <1>3, <1>4
  <2>. HIDE DEF p
  <2>2. r[p] = OwnRole("claude", Argv[p])
    BY <1>1, <1>2, <2>1, Standing
  <2>3. \A i \in 1..Len(Argv) : i <= p => r[i] # "text"
    <3>1. p \in Nat /\ p <= Len(Argv) + 1 /\ Len(Argv) \in Nat
      BY <1>1, <2>1
    <3>. QED  BY <1>2, <2>1, <3>1, NoTextBefore
  <2>4. \A i \in 1..p : i \in 1..Len(Argv) /\ i <= p
    BY <1>1, <2>1
  <2>. QED  BY <2>1, <2>2, <2>3, <2>4 DEF p
<1>6. at < Len(args) => Argv[at + Lead + 1] = args[at + 1]
  <2>1. at < Len(args) => at + 1 \in 1..Len(args) /\ (at + 1) + Lead = at + Lead + 1
    BY <1>1, <1>3
  <2>. QED  BY <1>1, <2>1
<1>7. DOMAIN r = 1..Len(Argv)
  BY <1>2 DEF IsReading
<1>. QED  BY <1>1, <1>2, <1>3, <1>4, <1>5, <1>6, <1>7

\* The first word of any kind is a command wherever it stands.
LEMMA ClaudeCommandIs ==
  ASSUME NEW r, NEW len \in Nat, DOMAIN r = 1..len, NEW c \in 1..len,
         r[c] \in {"positional", "text"},
         \A i \in 1..c - 1 : r[i] \notin {"positional", "text"}
  PROVE  CommandAt("claude", r) = {c}
<1>. DEFINE T == At(r, "positional") \cup At(r, "text")
<1>1. T = {i \in 1..len : r[i] \in {"positional", "text"}}
  BY DEF At
<1>2. CommandAt("claude", r) = FirstAt(T)
  BY DEF CommandAt
<1>. HIDE DEF T
<1>3. \A j \in T : c <= j
  <2>. SUFFICES ASSUME NEW j \in T, j < c PROVE FALSE
    BY <1>1
  <2>1. j \in 1..c - 1
    BY <1>1
  <2>. QED  BY <1>1, <2>1
<1>4. c \in T /\ T \subseteq Nat
  BY <1>1
<1>. QED  BY <1>2, <1>3, <1>4, FirstIsCommand

LEMMA ClaudeRefuses ==
  ASSUME IsList, agent = "claude", ClaudeScanned,
         ClaudeReject \/ (ClaudeTerminator /\ open /\ Next1 \cap ClaudeCommands # {})
  PROVE  \/ ClaudeLeaves(Reading("claude", Argv))
         \/ \E i \in OptionsAt(Reading("claude", Argv)) : Argv[i] \in {"--add-dir", "--add-dir="}
<1>. DEFINE r == Reading("claude", Argv)
            p == at + Lead
<1>. HIDE DEF r
<1>1. at <= Len(args)
  BY DEF ClaudeReject, ClaudeTerminator
<1>2. /\ p \in 1..Len(Argv) /\ p \notin DOMAIN Injected /\ Argv[p] = Word
      /\ r[p] = OwnRole("claude", Word)
      /\ DOMAIN r = 1..Len(Argv) /\ Len(Argv) \in Nat /\ Len(Argv) = Len(args) + Lead
      /\ at < Len(args) => Argv[at + Lead + 1] = args[at + 1]
      /\ at \in Nat \ {0} /\ Lead \in Nat /\ IsReading("claude", Argv, r)
      /\ open => Before(r, p)
      /\ \A i \in 1..p : r[i] # "text"
  BY <1>1, ClaudeWordAt DEF r
<1>3. CASE ClaudeReject
  <2>1. Word # "--" /\ ClaudeRejects(Word)
    BY <1>3 DEF ClaudeReject
  <2>2. CASE Word \in ClaudeControls \cup {"--add-dir=", "--add-dir"}
    <3>1. r[p] = "option"
      BY <1>2, <2>2 DEF OwnRole, OptionShaped, ClaudeControls, Dashed, Plain
    <3>2. p \in OptionsAt(r)
      BY <1>2, <3>1 DEF OptionsAt, At
    <3>. QED  BY <1>2, <2>2, <3>2 DEF ClaudeLeaves, r
  <2>3. CASE open /\ Word \in ClaudeCommands
    <3>1. r[p] = "positional"
      BY <1>2, <2>3 DEF OwnRole, OptionShaped, ClaudeCommands, Dashed, Plain
    <3>2. \A i \in 1..p - 1 : r[i] \notin {"positional", "text"}
      BY <1>2, <2>3 DEF Before
    <3>3. CommandAt("claude", r) = {p}
      <4>. HIDE DEF p
      <4>. QED  BY <1>2, <3>1, <3>2, ClaudeCommandIs
    <3>4. Word \in Command(r)
      BY <1>2, <3>3 DEF Command
    <3>. QED  BY <2>3, <3>4 DEF ClaudeLeaves, r
  <2>. QED  BY <2>1, <2>2, <2>3 DEF ClaudeRejects
<1>4. CASE ClaudeTerminator /\ open /\ Next1 \cap ClaudeCommands # {}
  <2>1. Word = "--" /\ at < Len(args) /\ args[at + 1] \in ClaudeCommands
    BY <1>4 DEF ClaudeTerminator, Next1
  <2>2. r[p] = "terminator"
    BY <1>2, <2>1 DEF OwnRole
  <2>3. \A i \in p + 1..Len(Argv) : r[i] = "text"
    <3>. HIDE DEF p
    <3>. QED  BY <1>2, <2>2, TextFollows
  <2>. DEFINE c == p + 1
  <2>4. c \in 1..Len(Argv) /\ r[c] = "text" /\ Argv[c] \in ClaudeCommands
    <3>1. c \in p + 1..Len(Argv) /\ c = at + Lead + 1
      BY <1>2, <2>1 DEF IsList
    <3>. QED  BY <1>2, <2>1, <2>3, <3>1
  <2>5. \A i \in 1..c - 1 : r[i] \notin {"positional", "text"}
    <3>1. \A i \in 1..c - 1 : i \in 1..p - 1 \/ i = p
      BY <1>2
    <3>2. \A i \in 1..p - 1 : r[i] # "positional"
      BY <1>2, <1>4 DEF Before
    <3>3. \A i \in 1..c - 1 : r[i] # "text" /\ r[i] # "positional"
      BY <1>2, <2>2, <3>1, <3>2
    <3>. QED  BY <3>3
  <2>6. CommandAt("claude", r) = {c}
    <3>. HIDE DEF c
    <3>. QED  BY <1>2, <2>4, <2>5, ClaudeCommandIs
  <2>7. Argv[c] \in Command(r)
    BY <2>6 DEF Command
  <2>. QED  BY <2>4, <2>7 DEF ClaudeLeaves, r
<1>. QED  BY <1>3, <1>4

LEMMA ClaudeGrantsNoHome ==
  ASSUME IsList, agent = "claude"
  PROVE  \A i \in OptionsAt(Reading("claude", Argv)) : Argv[i] # "--allow-home"
<1>. DEFINE r == Reading("claude", Argv)
<1>1. /\ Len(Argv) \in Nat /\ Len(Argv) = Len(args) + Lead /\ Len(args) \in Nat /\ Lead \in Nat
      /\ \A i \in 1..Len(args) : Argv[i + Lead] = args[i]
      /\ DOMAIN Injected = 1..Lead
  BY ClaudeList DEF BehindInjected
<1>2. DOMAIN r = 1..Len(Argv)
  BY <1>1, ReadingIsReading DEF IsReading
<1>. HIDE DEF r
<1>3. Words("claude") = {"--", "word"} \cup
        (ClaudeControls \cup ClaudeSingle \cup ClaudeOptional \cup ClaudeVariadic
           \cup {"--add-dir=", "--add-dir=word", "--verbose", "agents"})
  BY Zenon DEF Words
<1>4. "--allow-home" \notin Words("claude")
  BY <1>3 DEF ClaudeControls, ClaudeSingle, ClaudeOptional, ClaudeVariadic
<1>5. \A k \in 1..Len(args) : args[k] \in Words("claude")
  BY DEF IsList
<1>. SUFFICES ASSUME NEW i \in OptionsAt(r) PROVE Argv[i] # "--allow-home"
  BY DEF r
<1>6. i \in Lead + 1..Len(Argv)
  BY <1>1, <1>2 DEF OptionsAt, At
<1>7. i - Lead \in 1..Len(args) /\ (i - Lead) + Lead = i
  BY <1>1, <1>6
<1>. QED  BY <1>1, <1>4, <1>5, <1>7

LEMMA InitOpaque == ArgumentsInit => HomeInv /\ RefusedInv
<1>. SUFFICES ASSUME ArgumentsInit PROVE HomeInv /\ RefusedInv
  OBVIOUS
<1>1. at = 1 /\ home = FALSE /\ ruling = "scanning"
  BY DEF ArgumentsInit
<1>2. 3..at + 1 = {}
  BY <1>1
<1>. QED  BY <1>1, <1>2 DEF HomeInv, RefusedInv, HomeRead

\* The readings stay as they are while the list does.
LEMMA ReadingsStay ==
  ASSUME agent' = agent, mountMode' = mountMode, args' = args
  PROVE  /\ Argv' = Argv /\ Injected' = Injected
         /\ \A r : Leaves(r)' <=> Leaves(r)
         /\ \A r : OptionsAt(r)' = OptionsAt(r)
<1>1. Argv' = Argv /\ Injected' = Injected
  BY DEF Argv, Injected
<1>. QED  BY <1>1 DEF Leaves, OmpLeaves, ClaudeLeaves, CodexLeaves, OptionsAt, Command, CommandAt

LEMMA OmpOpaque ==
  ASSUME ArgumentsInv, HomeInv, ruling = "scanning", agent = "omp",
         AtEnd \/ OmpTerminator \/ OmpReject \/ OmpPass
  PROVE  HomeInv' /\ RefusedInv'
<1>. DEFINE r == Reading("omp", Argv)
<1>1. IsList /\ OmpScanned /\ HomeRead(r)
  BY DEF ArgumentsInv, OmpInv, HomeInv
<1>2. agent' = agent /\ mountMode' = mountMode /\ args' = args
  BY DEF AtEnd, OmpTerminator, OmpReject, OmpPass, Concludes, Advances
<1>3. /\ Reading("omp", Argv)' = r /\ Argv' = Argv
      /\ \A q : Leaves(q)' <=> Leaves(q)
      /\ \A q : OptionsAt(q)' = OptionsAt(q)
  BY <1>2, ReadingsStay
<1>4. CASE OmpReject
  <2>1. ruling' = "rejected"
    BY <1>4 DEF OmpReject, Concludes
  <2>2. Leaves(r)
    BY <1>1, <1>4, OmpRefuses DEF Leaves
  <2>. HIDE DEF r
  <2>3. RefusedInv'
    BY <1>2, <1>3, <2>2 DEF RefusedInv
  <2>. QED  BY <1>2, <2>1, <2>3 DEF HomeInv
<1>5. CASE OmpPass
  <2>1. HomeRead(Reading("omp", Argv))' /\ ruling' = "scanning"
    BY <1>1, <1>5, HomeIsRead DEF OmpPass, Advances
  <2>. QED  BY <1>2, <2>1 DEF HomeInv, RefusedInv
<1>6. CASE AtEnd \/ OmpTerminator
  <2>1. at > Len(args) \/ (at <= Len(args) /\ Word = "--")
    BY <1>6 DEF AtEnd, OmpTerminator
  <2>2. ruling' = "accepted" /\ home' = home
    BY <1>6 DEF AtEnd, OmpTerminator, Concludes
  <2>3. home <=> \E i \in OptionsAt(r) : Argv[i] = "--allow-home"
    BY <1>1, <2>1, HomeIsGranted
  <2>4. (\E i \in OptionsAt(Reading("omp", Argv)) : Argv[i] = "--allow-home")'
          <=> \E i \in OptionsAt(Reading("omp", Argv)) : Argv[i] = "--allow-home"
    <3>1. OptionsAt(Reading("omp", Argv))' = OptionsAt(Reading("omp", Argv))
      BY <1>2 DEF OptionsAt, Argv, Injected
    <3>. QED  BY <1>3, <3>1
  <2>5. HomeInv'
    BY <1>2, <2>2, <2>3, <2>4 DEF HomeInv
  <2>. QED  BY <2>2, <2>5 DEF RefusedInv
<1>. QED  BY <1>4, <1>5, <1>6

LEMMA ClaudeOpaque ==
  ASSUME ArgumentsInv, HomeInv, ruling = "scanning", agent = "claude",
         AtEnd \/ ClaudeTerminator \/ ClaudeReject \/ ClaudePass
  PROVE  HomeInv' /\ RefusedInv'
<1>. DEFINE r == Reading("claude", Argv)
            empties(i) == Argv[i] \in {"--add-dir", "--add-dir="}
<1>1. IsList /\ ClaudeScanned /\ ~home
  BY DEF ArgumentsInv, ClaudeInv, HomeInv
<1>2. agent' = agent /\ mountMode' = mountMode /\ args' = args /\ home' = home
  BY DEF AtEnd, ClaudeTerminator, ClaudeReject, ClaudePass, Concludes, Advances
<1>3. /\ Reading("claude", Argv)' = r /\ Argv' = Argv
      /\ \A q : Leaves(q)' <=> Leaves(q)
      /\ \A q : OptionsAt(q)' = OptionsAt(q)
  BY <1>2, ReadingsStay
<1>4. HomeInv'
  BY <1>1, <1>2 DEF HomeInv
<1>5. ASSUME ruling' = "rejected" PROVE RefusedInv'
  <2>1. ClaudeReject \/ (ClaudeTerminator /\ open /\ Next1 \cap ClaudeCommands # {})
    BY <1>5 DEF AtEnd, ClaudeTerminator, ClaudePass, Concludes, Advances
  <2>2. Leaves(r) \/ \E i \in OptionsAt(r) : empties(i)
    BY <1>1, <2>1, ClaudeRefuses DEF Leaves
  <2>. HIDE DEF r
  <2>. QED  BY <1>2, <1>3, <2>2 DEF RefusedInv
<1>6. ruling' # "rejected" => RefusedInv'
  BY DEF RefusedInv
<1>. QED  BY <1>4, <1>5, <1>6

LEMMA OpaqueNextPreserves ==
  ArgumentsInv /\ HomeInv /\ RefusedInv /\ [ArgumentsNext]_argumentVars => HomeInv' /\ RefusedInv'
<1>. SUFFICES ASSUME ArgumentsInv, HomeInv, RefusedInv, [ArgumentsNext]_argumentVars
              PROVE  HomeInv' /\ RefusedInv'
  OBVIOUS
<1>1. CASE UNCHANGED argumentVars
  <2>1. UNCHANGED <<agent, mountMode, args, at, home, ruling>>
    BY <1>1 DEF argumentVars
  <2>2. /\ Argv' = Argv
        /\ \A q : Leaves(q)' <=> Leaves(q)
        /\ \A q : OptionsAt(q)' = OptionsAt(q)
    BY <2>1, ReadingsStay
  <2>3. HomeInv'
    BY <2>1, <2>2 DEF HomeInv, HomeRead
  <2>4. RefusedInv'
    BY <2>1, <2>2 DEF RefusedInv
  <2>. QED  BY <2>3, <2>4
<1>2. CASE ArgumentsNext
  <2>1. ruling = "scanning" /\ agent \in Agents
    BY <1>2 DEF ArgumentsNext, AtEnd, Scanning, OmpTerminator, OmpReject, OmpPass, ClaudeTerminator,
          ClaudeReject, ClaudePass, CodexControlsWalk, CodexSkip, CodexNone, CodexCommand,
          CodexNestedCommand, ArgumentsInv, IsList
  <2>2. CASE agent = "omp"
    <3>1. AtEnd \/ OmpTerminator \/ OmpReject \/ OmpPass
      BY <1>2, <2>2 DEF ArgumentsNext, Scanning, ClaudeTerminator, ClaudeReject, ClaudePass,
            CodexControlsWalk, CodexSkip, CodexNone, CodexCommand, CodexNestedCommand
    <3>. QED  BY <2>1, <2>2, <3>1, OmpOpaque
  <2>3. CASE agent = "claude"
    <3>1. AtEnd \/ ClaudeTerminator \/ ClaudeReject \/ ClaudePass
      BY <1>2, <2>3 DEF ArgumentsNext, Scanning, OmpTerminator, OmpReject, OmpPass,
            CodexControlsWalk, CodexSkip, CodexNone, CodexCommand, CodexNestedCommand
    <3>. QED  BY <2>1, <2>3, <3>1, ClaudeOpaque
  <2>4. CASE agent = "codex"
    <3>1. agent' = agent
      BY <1>2 DEF ArgumentsNext, AtEnd, OmpTerminator, OmpReject, OmpPass, ClaudeTerminator,
            ClaudeReject, ClaudePass, CodexControlsWalk, CodexSkip, CodexNone, CodexCommand,
            CodexNestedCommand, Concludes, Advances
    <3>. QED  BY <2>4, <3>1 DEF HomeInv, RefusedInv
  <2>. QED  BY <2>1, <2>2, <2>3, <2>4 DEF Agents
<1>. QED  BY <1>1, <1>2

LEMMA RefusalsAreNeeded == ArgumentsInv /\ HomeInv /\ RefusedInv => ValuesAreOpaque
<1>. SUFFICES ASSUME ArgumentsInv, HomeInv, RefusedInv, agent # "codex", ruling # "scanning"
              PROVE  /\ ruling = "rejected" =>
                          \/ Leaves(Reading(agent, Argv))
                          \/ \E i \in OptionsAt(Reading(agent, Argv)) : Argv[i] \in {"--add-dir", "--add-dir="}
                     /\ ruling = "accepted" =>
                          (home <=> \E i \in OptionsAt(Reading(agent, Argv)) : Argv[i] = "--allow-home")
  BY DEF ValuesAreOpaque
<1>1. agent \in {"omp", "claude"} /\ IsList
  BY DEF ArgumentsInv, IsList, Agents
<1>2. ruling = "accepted" => (home <=> \E i \in OptionsAt(Reading(agent, Argv)) : Argv[i] = "--allow-home")
  <2>1. CASE agent = "omp"
    BY <2>1 DEF HomeInv
  <2>2. CASE agent = "claude"
    BY <1>1, <2>2, ClaudeGrantsNoHome DEF HomeInv
  <2>. QED  BY <1>1, <2>1, <2>2
<1>. QED  BY <1>2 DEF RefusedInv

\* The scan of OMP's and Claude Code's lists refuses nothing but what would have moved the
\* child, or an added directory that is missing: a value that looks like a control passes,
\* and permission to use the home directory is read from the option alone.
\* (args.rs:14-16, claude.rs:97-101)
THEOREM RefusedArgumentsLeave == ArgumentsSpec => []ValuesAreOpaque
<1>1. ArgumentsInit => ArgumentsInv /\ HomeInv /\ RefusedInv
  BY InitArguments, InitOpaque
<1>2. /\ ArgumentsInv /\ HomeInv /\ RefusedInv
      /\ [ArgumentsNext]_argumentVars
      => (ArgumentsInv /\ HomeInv /\ RefusedInv)'
  BY ArgumentsNextPreserves, OpaqueNextPreserves
<1>3. ArgumentsInv /\ HomeInv /\ RefusedInv => ValuesAreOpaque
  BY RefusalsAreNeeded
<1>. QED  BY <1>1, <1>2, <1>3, PTL DEF ArgumentsSpec
=============================================================================
