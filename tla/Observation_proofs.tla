------------------------- MODULE Observation_proofs -------------------------
(***************************************************************************)
(* What the program observes of a machine is so.                           *)
(*                                                                         *)
(* The verdicts of LinkWalk and of SkillFile are right for every layout,   *)
(* every number of paths and entries, every choice of identified entries   *)
(* and every depth bound.  The inventory of Discovery loses nothing below  *)
(* the directories it expands, for every layout and every bound.           *)
(*                                                                         *)
(* The two checks of `asm doctor` that do more than look are those of      *)
(* Capture and LinkProbe.  For any bound on the output, what the version   *)
(* observation answers is what the agent said and did, and the observer    *)
(* never signals a group that is not its own.  However often other         *)
(* programs meddle, a link probe that does not fail leaves nothing of its  *)
(* own.                                                                    *)
(***************************************************************************)
EXTENDS SkillFile, Discovery, Capture, LinkProbe, SequenceTheorems, FiniteSetTheorems,
        WellFoundedInduction, TLAPS

-----------------------------------------------------------------------------
(* The chain of a directory.                                               *)

\* The keys of the inspected entries are remembered and pairwise distinct, and the
\* walk stands at the end of its hops.
Inspected ==
    /\ path = Step(Len(hops))
    /\ Len(hops) <= MaxLinkDepth + 1
    /\ state = "walking" =>
           /\ visited = {VisitKey(Step(i)) : i \in 0..(Len(hops) - 1)}
           /\ \A i, j \in 0..(Len(hops) - 1) : VisitKey(Step(i)) = VisitKey(Step(j)) => i = j

IInv == WalkTypeOK /\ Inspected /\ VerdictIsTrue

\* The walk starts at an entry it has not inspected.
LEMMA InitInspected == WalkInit => IInv
<1> SUFFICES ASSUME WalkInit PROVE IInv
    OBVIOUS
<1>1. WalkTypeOK
    BY StartIsAPath DEF WalkInit, WalkTypeOK
<1>2. Len(hops) = 0
    BY DEF WalkInit
<1>3. Inspected
    BY <1>2, DepthIsNatural DEF WalkInit, Inspected, Step
<1>4. VerdictIsTrue
    BY <1>2 DEF WalkInit, VerdictIsTrue, HopsAreOnDisk
<1> QED
    BY <1>1, <1>3, <1>4 DEF IInv

\* A step that gives a verdict leaves the hops and the layout alone.
LEMMA VerdictPreserves ==
    ASSUME IInv, state = "walking",
           NEW verdict \in ChainState \cup {"refused"}, state' = verdict,
           UNCHANGED <<names, body, path, hops>>,
           verdict = "missing" => names[Start] = NoEntry /\ hops = <<>>,
           verdict = "directory" => Is(Start, "directory") /\ hops = <<>>,
           verdict = "link_to_directory" =>
               Is(path, "directory") /\ Len(hops) \in 1..MaxLinkDepth,
           verdict = "broken" => names[path] = NoEntry /\ Len(hops) \in 1..MaxLinkDepth,
           verdict = "unsupported" =>
               /\ names[path] # NoEntry
               /\ body[names[path]] \in {"other", "opaque"}
               /\ Len(hops) <= MaxLinkDepth,
           verdict = "cyclic" => VisitKey(path) \in visited,
           verdict = "depth_exceeded" => Len(hops) > MaxLinkDepth
    PROVE  IInv'
<1> USE DEF IInv
<1>1. WalkTypeOK'
    BY DEF WalkTypeOK, ChainState
<1>2. \A i : Step(i)' = Step(i)
    BY DEF Step
<1>3. \A p : VisitKey(p)' = VisitKey(p) /\ IsLink(p)' = IsLink(p) /\ Target(p)' = Target(p)
    BY DEF VisitKey, IsLink, Target
<1>4. Inspected'
    BY <1>2 DEF Inspected, ChainState
<1>5. Len(hops) \in Nat
    BY DEF WalkTypeOK
<1>6. HopsAreOnDisk'
    BY <1>2, <1>3, <1>5 DEF VerdictIsTrue, HopsAreOnDisk
<1>7. verdict = "cyclic" => Loops'
    <2> SUFFICES ASSUME verdict = "cyclic" PROVE Loops
        BY <1>2, <1>3 DEF Loops, Steps
    <2>1. PICK i \in 0..(Len(hops) - 1) : VisitKey(Step(i)) = VisitKey(path)
        BY DEF Inspected
    <2> QED
        BY <2>1, <1>5 DEF Loops, Steps, Inspected
<1>8. verdict = "depth_exceeded" =>
          Len(hops) = MaxLinkDepth + 1 /\ \A i, j \in 0..MaxLinkDepth :
              VisitKey(Step(i)) = VisitKey(Step(j)) => i = j
    BY <1>5, DepthIsNatural DEF Inspected
<1>9. VerdictIsTrue'
    BY <1>2, <1>3, <1>6, <1>7, <1>8 DEF VerdictIsTrue, Inspected, Is, ChainState
<1> QED
    BY <1>1, <1>4, <1>9

\* Following a link extends the chain by its target, which is not inspected yet.
LEMMA FollowPreserves == ASSUME IInv, Follow PROVE IInv'
<1> USE DEF IInv
<1>1. /\ hops \in Seq(Path) /\ Len(hops) \in Nat /\ Target(path) \in Path
      /\ Len(hops) <= MaxLinkDepth /\ MaxLinkDepth \in Nat
      /\ UNCHANGED <<names, body>> /\ state = "walking" /\ state' = "walking"
    BY DepthIsNatural DEF Follow, Fresh, InBudget, WalkTypeOK, IsLink, Target, layout
<1>2. /\ hops' = Append(hops, Target(path)) /\ path' = Target(path)
      /\ visited' = visited \cup {VisitKey(path)} /\ VisitKey(path) \notin visited
    BY DEF Follow, Fresh
<1>3. /\ Len(hops') = Len(hops) + 1 /\ hops' \in Seq(Path)
      /\ hops'[Len(hops) + 1] = Target(path)
      /\ \A i \in 1..Len(hops) : hops'[i] = hops[i]
    BY <1>1, <1>2
<1>4. \A p : VisitKey(p)' = VisitKey(p) /\ IsLink(p)' = IsLink(p) /\ Target(p)' = Target(p)
    BY <1>1 DEF VisitKey, IsLink, Target
<1> PICK n \in Nat : n = Len(hops)
    BY <1>1
<1>5. /\ \A i \in 0..n : Step(i)' = Step(i)
      /\ Step(n + 1)' = Target(path)
      /\ Step(n) = path
    <2>1. ASSUME NEW i \in 0..n PROVE Step(i)' = Step(i)
        BY <1>1, <1>3 DEF Step
    <2>2. Step(n + 1)' = Target(path)
        BY <1>1, <1>3 DEF Step
    <2> QED
        BY <2>1, <2>2 DEF Inspected
<1>6. WalkTypeOK'
    BY <1>1, <1>2, <1>3 DEF WalkTypeOK
<1>7. HopsAreOnDisk'
    <2> SUFFICES ASSUME NEW i \in 1..(Len(hops) + 1)
                 PROVE  IsLink(Step(i - 1)') /\ hops'[i] = Target(Step(i - 1)')
        BY <1>3, <1>4 DEF HopsAreOnDisk
    <2>1. CASE i = Len(hops) + 1
        BY <2>1, <1>1, <1>3, <1>5 DEF Follow
    <2>2. CASE i \in 1..Len(hops)
        BY <2>2, <1>1, <1>3, <1>5 DEF VerdictIsTrue, HopsAreOnDisk
    <2> QED
        BY <2>1, <2>2, <1>1
<1>8. VerdictIsTrue'
    BY <1>1, <1>7 DEF VerdictIsTrue
<1>9. visited' = {VisitKey(Step(i)) : i \in 0..n}
    BY <1>1, <1>2, <1>5 DEF Inspected
<1>10. ASSUME NEW i \in 0..n, NEW j \in 0..n, VisitKey(Step(i)) = VisitKey(Step(j))
       PROVE  i = j
    <2>1. \A k \in 0..(n - 1) : VisitKey(Step(k)) # VisitKey(path)
        BY <1>1, <1>2 DEF Inspected
    <2> QED
        BY <2>1, <1>1, <1>5, <1>10 DEF Inspected
<1>11. Inspected'
    <2>1. Len(hops') - 1 = n
        BY <1>1, <1>3
    <2>2. path' = Step(Len(hops))'
        BY <1>1, <1>2, <1>3, <1>5
    <2>3. \A i \in 0..n : VisitKey(Step(i))' = VisitKey(Step(i))
        BY <1>4, <1>5
    <2> QED
        BY <1>1, <1>3, <1>9, <1>10, <2>1, <2>2, <2>3 DEF Inspected
<1> QED
    BY <1>6, <1>8, <1>11

\* Each iteration of the loop keeps the walk and its verdict true.
LEMMA WalkPreserves == ASSUME IInv, [WalkNext]_walkVars PROVE IInv'
<1>0. /\ Len(hops) \in Nat /\ path = Step(Len(hops)) /\ hops \in Seq(Path)
      /\ MaxLinkDepth \in Nat /\ (hops = <<>> => path = Start) /\ (hops # <<>> => Len(hops) > 0)
    BY DepthIsNatural DEF IInv, WalkTypeOK, Inspected, Step
<1>1. CASE Revisit
    BY <1>1, VerdictPreserves DEF Revisit, Ends, layout, ChainState
<1>2. CASE NothingThere
    BY <1>0, <1>2, VerdictPreserves DEF NothingThere, Fresh, InBudget, Ends, layout, ChainState
<1>3. CASE Arrive
    BY <1>0, <1>3, VerdictPreserves DEF Arrive, Fresh, InBudget, Ends, layout, ChainState
<1>4. CASE NotADirectory
    BY <1>0, <1>4, VerdictPreserves
       DEF NotADirectory, Fresh, InBudget, Ends, layout, ChainState, Is
<1>5. CASE Follow
    BY <1>5, FollowPreserves
<1>6. CASE RunOut
    BY <1>0, <1>6, VerdictPreserves DEF RunOut, InBudget, layout, ChainState
<1>7. CASE InspectFails
    BY <1>7, VerdictPreserves DEF InspectFails, layout
<1>8. CASE UNCHANGED walkVars
    <2> USE <1>8 DEF walkVars, IInv
    <2>1. \A i : Step(i)' = Step(i)
        BY DEF Step
    <2>2. \A p : VisitKey(p)' = VisitKey(p) /\ IsLink(p)' = IsLink(p) /\ Target(p)' = Target(p)
        BY DEF VisitKey, IsLink, Target
    <2>3. WalkTypeOK'
        BY DEF WalkTypeOK
    <2>4. Inspected'
        BY <2>1, <2>2 DEF Inspected
    <2>5. VerdictIsTrue'
        BY <2>1, <2>2 DEF VerdictIsTrue, HopsAreOnDisk, Loops, Steps, Is
    <2> QED
        BY <2>3, <2>4, <2>5
<1> QED
    BY <1>1, <1>2, <1>3, <1>4, <1>5, <1>6, <1>7, <1>8 DEF WalkNext

\* resolve_chain (link/resolve.rs:143-201): what it says of a chain is what is on disk,
\* for every layout and every bound.
THEOREM WalkIsTrue == WalkSpec => []VerdictIsTrue
<1>1. IInv => VerdictIsTrue
    BY DEF IInv
<1> QED
    BY <1>1, InitInspected, WalkPreserves, PTL DEF WalkSpec

-----------------------------------------------------------------------------
(* The SKILL.md of a Skill.                                                *)

\* The paths inspected so far are the ones behind the walk, which stands at the end
\* of its links.
Looked ==
    /\ links \in Seq(Path)
    /\ where = SkillStep(Len(links))
    /\ seen = {SkillStep(i) : i \in 0..(Len(links) - 1)}

SkillInv ==
    /\ body \in [Entry -> Path \cup Bodies]
    /\ names \in [Path -> Entry \cup {NoEntry}]
    /\ where \in Path
    /\ Looked
    /\ AcceptedIsOwn

\* The walk starts at the entry of the Skill, with nothing inspected.
LEMMA InitLooked == WalksInit => SkillInv
<1> SUFFICES ASSUME WalksInit PROVE SkillInv
    OBVIOUS
<1>1. /\ links = <<>> /\ Len(links) = 0 /\ where = Start /\ seen = {} /\ outcome = "walking"
    BY DEF WalksInit, SkillInit
<1>2. Looked
    BY <1>1, StartIsAPath DEF Looked, SkillStep
<1>3. AcceptedIsOwn
    BY <1>1 DEF AcceptedIsOwn
<1> QED
    BY <1>1, <1>2, <1>3, StartIsAPath DEF SkillInv, WalksInit, WalkInit

\* A conclusion, or a step of the other walk, leaves links and layout alone.
LEMMA ConclusionPreserves ==
    ASSUME SkillInv, UNCHANGED <<names, body, inside, where, seen, links>>,
           outcome' = "accepted" => Is(where, "other") /\ names[where] \in inside,
           outcome' = "outside" => Is(where, "other") /\ names[where] \notin inside,
           outcome' = "broken" => names[where] = NoEntry,
           outcome' = "cycle" => where \in seen
    PROVE  SkillInv'
<1> USE DEF SkillInv
<1>1. \A i : SkillStep(i)' = SkillStep(i)
    BY DEF SkillStep
<1>2. Looked'
    BY <1>1 DEF Looked
<1>3. AcceptedIsOwn'
    BY <1>1 DEF AcceptedIsOwn, Looked, Is, IsLink, Target
<1> QED
    BY <1>2, <1>3

\* Following a link puts its target at the end and the path left behind among the
\* inspected ones.
LEMMA FollowSkillPreserves ==
    ASSUME SkillInv, FollowSkillLink, UNCHANGED <<names, body>> PROVE SkillInv'
<1> USE DEF SkillInv
<1>1. /\ links \in Seq(Path) /\ Len(links) \in Nat /\ Target(where) \in Path
      /\ outcome = "walking" /\ outcome' = "walking"
    BY DEF FollowSkillLink, Iterates, Looked, IsLink, Target
<1>2. /\ links' = Append(links, Target(where)) /\ where' = Target(where) /\ seen' = seen \cup {where}
    BY DEF FollowSkillLink, Remembered
<1>3. /\ Len(links') = Len(links) + 1 /\ links' \in Seq(Path)
      /\ links'[Len(links) + 1] = Target(where)
      /\ \A i \in 1..Len(links) : links'[i] = links[i]
    BY <1>1, <1>2
<1> PICK n \in Nat : n = Len(links)
    BY <1>1
<1>4. /\ \A i \in 0..n : SkillStep(i)' = SkillStep(i)
      /\ SkillStep(n + 1)' = Target(where)
      /\ SkillStep(n) = where
    <2>1. ASSUME NEW i \in 0..n PROVE SkillStep(i)' = SkillStep(i)
        BY <1>1, <1>3 DEF SkillStep
    <2>2. SkillStep(n + 1)' = Target(where)
        BY <1>1, <1>3 DEF SkillStep
    <2> QED
        BY <2>1, <2>2 DEF Looked
<1>5. seen' = {SkillStep(i)' : i \in 0..n}
    BY <1>1, <1>2, <1>4 DEF Looked
<1>6. Looked'
    <2>1. Len(links') - 1 = n
        BY <1>1, <1>3
    <2>2. where' = SkillStep(Len(links))'
        BY <1>1, <1>2, <1>3, <1>4
    <2> QED
        BY <1>3, <1>5, <2>1, <2>2 DEF Looked
<1>7. AcceptedIsOwn'
    <2> SUFFICES ASSUME NEW i \in 1..(Len(links) + 1)
                 PROVE  IsLink(SkillStep(i - 1)') /\ links'[i] = Target(SkillStep(i - 1)')
        BY <1>1, <1>3 DEF AcceptedIsOwn, IsLink, Target
    <2>1. CASE i = Len(links) + 1
        BY <2>1, <1>1, <1>3, <1>4 DEF FollowSkillLink
    <2>2. CASE i \in 1..Len(links)
        BY <2>2, <1>1, <1>3, <1>4 DEF AcceptedIsOwn
    <2> QED
        BY <2>1, <2>2, <1>1
<1> QED
    BY <1>1, <1>2, <1>6, <1>7

\* Each iteration of either loop keeps the walk to SKILL.md true.
LEMMA SkillNextPreserves == ASSUME SkillInv, [WalksNext]_<<walkVars, skillVars>> PROVE SkillInv'
<1>1. CASE SkillIsIdle /\ WalkNext /\ UNCHANGED skillVars
    <2>1. UNCHANGED <<names, body>>
        BY <1>1 DEF WalkNext, Revisit, NothingThere, Arrive, NotADirectory, Follow, RunOut,
                    InspectFails, Ends, layout
    <2> QED
        BY <1>1, <2>1, ConclusionPreserves DEF skillVars, SkillIsIdle
<1>2. CASE SkillNext /\ UNCHANGED walkVars
    <2> USE <1>2 DEF walkVars
    <2>1. CASE ReachCycle
        BY <2>1, ConclusionPreserves DEF ReachCycle, Validated
    <2>2. CASE ReachNothing
        BY <2>2, ConclusionPreserves DEF ReachNothing, Validated
    <2>3. CASE FollowSkillLink
        BY <2>3, FollowSkillPreserves
    <2>4. CASE ExceedDepth
        BY <2>4, ConclusionPreserves DEF ExceedDepth, Validated
    <2>5. CASE ReachTerminal
        <3>1. Is(where, "other") \/ Is(where, "directory")
            BY <2>5 DEF ReachTerminal
        <3>2. UNCHANGED <<names, body, inside, where, seen, links>>
            BY <2>5 DEF ReachTerminal, Validated
        <3>3. outcome' = IF Is(where, "directory") THEN "not_a_file"
                         ELSE IF names[where] \in inside THEN "accepted" ELSE "outside"
            BY <2>5 DEF ReachTerminal, Validated
        <3> QED
            BY <3>1, <3>2, <3>3, ConclusionPreserves
    <2>6. CASE Unreadable
        BY <2>6, ConclusionPreserves DEF Unreadable, Validated
    <2> QED
        BY <2>1, <2>2, <2>3, <2>4, <2>5, <2>6 DEF SkillNext
<1>3. CASE UNCHANGED <<walkVars, skillVars>>
    <2>1. UNCHANGED <<names, body, inside, where, seen, links, outcome>>
        BY <1>3 DEF walkVars, skillVars
    <2>2. \A i : SkillStep(i)' = SkillStep(i)
        BY <2>1 DEF SkillStep
    <2>3. \A p : IsLink(p)' = IsLink(p) /\ Target(p)' = Target(p) /\ Is(p, "other")' = Is(p, "other")
        BY <2>1 DEF IsLink, Target, Is
    <2> QED
        BY <2>1, <2>2, <2>3 DEF SkillInv, Looked, AcceptedIsOwn
<1> QED
    BY <1>1, <1>2, <1>3 DEF WalksNext

\* resolve_terminal and validate_candidate (catalog/validate.rs:71-99, 146-173): an
\* accepted SKILL.md is the regular file the chain on disk ends at, below the Skill's
\* own directory, and every rejection names what is there, for every layout and bound.
THEOREM SkillFileIsOwn == WalksSpec => []AcceptedIsOwn
<1>1. SkillInv => AcceptedIsOwn
    BY DEF SkillInv
<1> QED
    BY <1>1, InitLooked, SkillNextPreserves, PTL DEF WalksSpec

-----------------------------------------------------------------------------
(* The inventory of a discovery root.                                      *)

\* Every set of positions can be listed in order.
LEMMA IntervalsAreListed ==
  ASSUME NEW n \in Nat, NEW I \in SUBSET (1..n)
  PROVE  \E f \in [1..Cardinality(I) -> I] : Enumerates(f, I)
<1>. DEFINE less == OpToRel(<, Nat)
            Listed(J) == \E f \in [1..Cardinality(J) -> J] : Enumerates(f, J)
            bad == {m \in Nat : \E J \in SUBSET (1..m) : ~Listed(J)}
<1>1. IsWellFoundedOn(less, Nat)
  BY NatLessThanWellFounded
<1>2. \A i, j \in Nat : i < j => <<i, j>> \in less
  BY DEF OpToRel
<1>. HIDE DEF less, Listed
<1>3. SUFFICES ASSUME bad # {} PROVE FALSE
  BY DEF Listed
<1>4. PICK m \in bad : \A j \in bad : ~(<<j, m>> \in less)
  BY <1>1, <1>3, WFMin
<1>5. m \in Nat /\ \A j \in bad : ~(j < m)
  BY <1>2, <1>4
<1>6. PICK J \in SUBSET (1..m) : ~Listed(J)
  BY <1>4
<1>7. m # 0
  <2>. SUFFICES ASSUME m = 0 PROVE FALSE
    OBVIOUS
  <2>0. J = {}
    BY <1>6
  <2>1. J = {} /\ Cardinality(J) = 0
    BY <2>0, FS_EmptySet
  <2>2. <<>> \in [1..Cardinality(J) -> J] /\ Enumerates(<<>>, J)
    BY <2>1 DEF Enumerates
  <2>. QED  BY <2>2, <1>6 DEF Listed
<1>8. m - 1 \in Nat /\ m - 1 \notin bad /\ 1..m = 1..(m - 1) \cup {m}
  <2>1. m - 1 \in Nat /\ m - 1 < m /\ 1..m = 1..(m - 1) \cup {m}
    BY <1>5, <1>7
  <2>. QED  BY <1>5, <2>1
<1>9. \A K \in SUBSET (1..(m - 1)) : Listed(K)
  BY <1>8
<1>. DEFINE K == J \ {m}
<1>10. K \in SUBSET (1..(m - 1))
  BY <1>8
<1>11. m \in J
  BY <1>6, <1>9, <1>10
<1>12. IsFiniteSet(K) /\ Cardinality(K) \in Nat /\ Cardinality(J) = Cardinality(K) + 1
  <2>1. IsFiniteSet(1..(m - 1))
    BY <1>8, FS_Interval
  <2>2. IsFiniteSet(K)
    BY <2>1, <1>10, FS_Subset
  <2>3. J = K \cup {m} /\ m \notin K
    BY <1>11
  <2>. QED  BY <2>2, <2>3, FS_AddElement, FS_CardinalityType
<1>13. PICK f \in [1..Cardinality(K) -> K] : Enumerates(f, K)
  BY <1>9, <1>10 DEF Listed
<1>. DEFINE c == Cardinality(K)
            g == [i \in 1..(c + 1) |-> IF i = c + 1 THEN m ELSE f[i]]
<1>14. g \in [1..Cardinality(J) -> J]
  <2>1. \A i \in 1..(c + 1) : i # c + 1 => i \in 1..c
    BY <1>12
  <2>2. \A i \in 1..c : f[i] \in J
    BY <1>13
  <2>3. \A i \in 1..(c + 1) : g[i] \in J
    BY <1>11, <2>1, <2>2
  <2>. QED  BY <2>3, <1>12
<1>15. Enumerates(g, J)
  <2>1. ASSUME NEW i \in 1..(c + 1), NEW j \in 1..(c + 1), i < j PROVE g[i] < g[j]
    <3>0. i \in 1..c /\ i # c + 1
      BY <2>1, <1>12
    <3>1. i \in 1..c /\ g[i] = f[i] /\ f[i] \in K /\ f[i] \in 1..(m - 1)
      BY <3>0, <1>10, <1>13
    <3>2. CASE j = c + 1
      BY <3>1, <3>2, <1>8
    <3>3. CASE j # c + 1
      <4>1. j \in 1..c /\ g[j] = f[j]
        BY <3>3, <1>12
      <4>. QED  BY <2>1, <3>1, <4>1, <1>13 DEF Enumerates
    <3>. QED  BY <3>2, <3>3
  <2>2. ASSUME NEW k \in J PROVE \E i \in 1..(c + 1) : g[i] = k
    <3>1. CASE k = m
      BY <3>1, <1>12
    <3>2. CASE k # m
      <4>1. PICK i \in 1..c : f[i] = k
        BY <3>2, <1>13 DEF Enumerates
      <4>2. i \in 1..(c + 1) /\ i # c + 1
        BY <1>12
      <4>. QED  BY <4>1, <4>2
    <3>. QED  BY <3>1, <3>2
  <2>. QED  BY <2>1, <2>2 DEF Enumerates
<1>. QED  BY <1>6, <1>14, <1>15 DEF Listed

LEMMA InOrderLists ==
  ASSUME NEW n \in Nat, NEW I \in SUBSET (1..n)
  PROVE  InOrder(I) \in [1..Cardinality(I) -> I] /\ Enumerates(InOrder(I), I)
         /\ Cardinality(I) \in Nat
<1>1. \E f \in [1..Cardinality(I) -> I] : Enumerates(f, I)
  BY IntervalsAreListed
<1>2. Cardinality(I) \in Nat
  <2>1. IsFiniteSet(1..n)
    BY FS_Interval
  <2>2. IsFiniteSet(I)
    BY <2>1, FS_Subset
  <2>. QED  BY <2>2, FS_CardinalityType
<1>. QED  BY <1>1, <1>2 DEF InOrder

Branches == [dir : Directory, depth : Nat]
Waiting == {pending[i].dir : i \in DOMAIN pending}

InventoryInv ==
    /\ entries \in [Directory -> Seq(DirectoryEntry)]
    /\ pending \in Seq(Branches)
    /\ found = {d \in observed : skill[d] = "loaded"}
    /\ expanded \subseteq observed /\ observed \subseteq Directory
    /\ \A d \in expanded : Below(d) \subseteq observed \cup Waiting
    /\ progress = "complete" => pending = <<>>

\* The stack receives each directory that an expanded one leads to, and nothing else.
LEMMA ChildrenAreBelow ==
  ASSUME InventoryInv, NEW d \in Directory, NEW depth \in Nat
  PROVE  /\ Children(d, depth) \in Seq(Branches)
         /\ Below(d) = {Children(d, depth)[i].dir : i \in DOMAIN Children(d, depth)}
<1>. DEFINE I == Traversed(d)
            listed == InOrder(I)
            kids == [i \in DOMAIN listed |-> [dir |-> entries[d][listed[i]].to, depth |-> depth + 1]]
<1>1. entries[d] \in Seq(DirectoryEntry) /\ DOMAIN entries[d] = 1..Len(entries[d])
      /\ Len(entries[d]) \in Nat
  BY DEF InventoryInv
<1>2. I \in SUBSET (1..Len(entries[d]))
  BY <1>1 DEF Traversed
<1>3. listed \in [1..Cardinality(I) -> I] /\ Enumerates(listed, I) /\ Cardinality(I) \in Nat
  BY <1>1, <1>2, InOrderLists
<1>. HIDE DEF listed
<1>4. ASSUME NEW k \in I
      PROVE  Traversable(entries[d][k]) /\ entries[d][k].to \in Directory
  <2>1. k \in 1..Len(entries[d]) /\ Traversable(entries[d][k])
    BY <1>1 DEF Traversed
  <2>2. entries[d][k] \in DirectoryEntry
    BY <2>1, <1>1
  <2>. QED  BY <2>1, <2>2 DEF Traversable, DirectoryEntry
<1>5. Children(d, depth) = kids
  BY DEF Children, listed
<1>6. kids \in Seq(Branches)
  <2>1. \A i \in 1..Cardinality(I) : kids[i] \in Branches
    BY <1>3, <1>4 DEF Branches
  <2>. QED  BY <2>1, <1>3
<1>7. ASSUME NEW c \in Below(d) PROVE \E i \in DOMAIN kids : kids[i].dir = c
  <2>1. PICK k \in DOMAIN entries[d] : /\ entries[d][k].to = c /\ ~entries[d][k].hidden
                                       /\ entries[d][k].link => followsLinks
    BY DEF Below
  <2>2. k \in I
    BY <2>1, NoDirectoryIsNone DEF Traversed, Traversable, Below
  <2>3. PICK i \in DOMAIN listed : listed[i] = k
    BY <2>2, <1>3 DEF Enumerates
  <2>. QED  BY <2>1, <2>3
<1>8. ASSUME NEW i \in DOMAIN kids PROVE kids[i].dir \in Below(d)
  <2>1. listed[i] \in I
    BY <1>3
  <2>. QED  BY <1>4, <2>1 DEF Below, Traversable, Traversed
<1>. HIDE DEF kids
<1>9. Below(d) = {kids[i].dir : i \in DOMAIN kids}
  BY <1>7, <1>8
<1>. QED  BY <1>5, <1>6, <1>9

LEMMA InitInventory == InventoryInit => InventoryInv
<1>. SUFFICES ASSUME InventoryInit PROVE InventoryInv
  OBVIOUS
<1>1. [dir |-> Root, depth |-> 0] \in Branches
  BY RootIsADirectory DEF Branches
<1>2. pending \in Seq(Branches)
  BY <1>1 DEF InventoryInit
<1>. QED  BY <1>2, LayoutsAreTyped DEF InventoryInit, InventoryInv

\* Without its top the stack still holds every directory but that one.
LEMMA PoppedStack ==
  ASSUME pending \in Seq(Branches), pending # <<>>
  PROVE  /\ Top \in Branches /\ Tail(pending) \in Seq(Branches)
         /\ Waiting = {Top.dir} \cup {Tail(pending)[i].dir : i \in DOMAIN Tail(pending)}
<1>1. /\ Top = pending[1] /\ Top \in Branches /\ Tail(pending) \in Seq(Branches)
      /\ Len(Tail(pending)) = Len(pending) - 1 /\ Len(pending) \in Nat \ {0}
      /\ \A i \in 1..Len(Tail(pending)) : Tail(pending)[i] = pending[i + 1]
  BY HeadTailProperties, EmptySeq DEF Top
<1>2. DOMAIN pending = 1..Len(pending) /\ DOMAIN Tail(pending) = 1..Len(Tail(pending))
  BY <1>1
<1>3. ASSUME NEW i \in DOMAIN pending, i # 1
      PROVE  \E j \in DOMAIN Tail(pending) : Tail(pending)[j] = pending[i]
  <2>1. i - 1 \in DOMAIN Tail(pending) /\ Tail(pending)[i - 1] = pending[(i - 1) + 1]
        /\ (i - 1) + 1 = i
    BY <1>1, <1>2, <1>3
  <2>. QED  BY <2>1
<1>4. ASSUME NEW j \in DOMAIN Tail(pending)
      PROVE  \E i \in DOMAIN pending : Tail(pending)[j] = pending[i]
  <2>1. j + 1 \in DOMAIN pending
    BY <1>1, <1>2
  <2>. QED  BY <2>1, <1>1, <1>2
<1>5. 1 \in DOMAIN pending
  BY <1>1, <1>2
<1>. QED  BY <1>1, <1>3, <1>4, <1>5 DEF Waiting

LEMMA InventoryNextPreserves == InventoryInv /\ [InventoryNext]_inventoryVars => InventoryInv'
<1>. SUFFICES ASSUME InventoryInv, [InventoryNext]_inventoryVars PROVE InventoryInv'
  OBVIOUS
<1>0. ASSUME tree' = tree PROVE \A d : Below(d)' = Below(d)
  BY <1>0 DEF Below, tree
<1>1. CASE UNCHANGED inventoryVars
  BY <1>0, <1>1 DEF InventoryInv, inventoryVars, tree, Waiting
<1>2. CASE Repeat
  <2>1. Waiting \subseteq Waiting' \cup observed /\ pending' \in Seq(Branches)
    BY <1>2, PoppedStack DEF Repeat, InventoryInv, Waiting
  <2>. QED  BY <1>0, <1>2, <2>1 DEF InventoryInv, Repeat, tree
<1>3. CASE Visit
  <2>. DEFINE d == Top.dir
              kids == Push(d, Top.depth)
  <2>1. /\ Top \in Branches /\ Tail(pending) \in Seq(Branches)
        /\ Waiting = {d} \cup {Tail(pending)[i].dir : i \in DOMAIN Tail(pending)}
    BY <1>3, PoppedStack DEF Visit, Visits, InventoryInv
  <2>2. d \in Directory /\ Top.depth \in Nat
    BY <2>1 DEF Branches
  <2>3. /\ observed' = observed \cup {d} /\ tree' = tree /\ progress' = "walking"
        /\ found' = IF skill[d] = "loaded" THEN found \cup {d} ELSE found
        /\ expanded' = IF Top.depth < MaxDiscoveryDepth THEN expanded \cup {d} ELSE expanded
        /\ pending' = kids \o Tail(pending)
    BY <1>3 DEF Visit, Visits
  <2>4. /\ kids \in Seq(Branches)
        /\ Top.depth < MaxDiscoveryDepth =>
               Below(d) = {kids[i].dir : i \in DOMAIN kids}
    <3>1. CASE Top.depth < MaxDiscoveryDepth
      <4>1. kids = Children(d, Top.depth)
        BY <3>1 DEF Push, Descends
      <4>2. /\ Children(d, Top.depth) \in Seq(Branches)
            /\ Below(d) = {Children(d, Top.depth)[i].dir : i \in DOMAIN Children(d, Top.depth)}
        BY <2>2, ChildrenAreBelow
      <4>. QED  BY <4>1, <4>2
    <3>2. CASE ~(Top.depth < MaxDiscoveryDepth)
      BY <3>2 DEF Push, Descends
    <3>. QED  BY <3>1, <3>2
  <2>. HIDE DEF kids, d
  <2>5. /\ pending' \in Seq(Branches)
        /\ \A i \in DOMAIN kids : \E j \in DOMAIN pending' : pending'[j] = kids[i]
        /\ \A i \in DOMAIN Tail(pending) : \E j \in DOMAIN pending' : pending'[j] = Tail(pending)[i]
    <3>1. /\ pending' \in Seq(Branches) /\ Len(pending') = Len(kids) + Len(Tail(pending))
          /\ \A i \in 1..Len(pending') : pending'[i] =
                 IF i <= Len(kids) THEN kids[i] ELSE Tail(pending)[i - Len(kids)]
      BY <2>1, <2>3, <2>4, ConcatProperties
    <3>2. /\ DOMAIN pending' = 1..Len(pending') /\ DOMAIN kids = 1..Len(kids)
          /\ DOMAIN Tail(pending) = 1..Len(Tail(pending))
          /\ Len(kids) \in Nat /\ Len(Tail(pending)) \in Nat
      BY <2>1, <2>4, <3>1
    <3>3. \A i \in DOMAIN kids : i \in DOMAIN pending' /\ pending'[i] = kids[i]
      BY <3>1, <3>2
    <3>4. ASSUME NEW i \in DOMAIN Tail(pending)
          PROVE  \E j \in DOMAIN pending' : pending'[j] = Tail(pending)[i]
      <4>1. /\ i + Len(kids) \in 1..Len(pending') /\ ~(i + Len(kids) <= Len(kids))
            /\ (i + Len(kids)) - Len(kids) = i
        BY <3>1, <3>2
      <4>. QED  BY <3>1, <3>2, <4>1
    <3>. QED  BY <3>1, <3>3, <3>4
  <2>6. /\ Waiting \subseteq Waiting' \cup {d}
        /\ {kids[i].dir : i \in DOMAIN kids} \subseteq Waiting'
    <3>1. {Tail(pending)[i].dir : i \in DOMAIN Tail(pending)} \subseteq Waiting'
      BY <2>5 DEF Waiting
    <3>2. {kids[i].dir : i \in DOMAIN kids} \subseteq Waiting'
      BY <2>5 DEF Waiting
    <3>. QED  BY <2>1, <3>1, <3>2
  <2>7. \A c \in expanded' : Below(c) \subseteq observed' \cup Waiting'
    BY <2>3, <2>4, <2>6 DEF InventoryInv
  <2>8. found' = {c \in observed' : skill'[c] = "loaded"}
    BY <2>3 DEF InventoryInv, tree
  <2>9. expanded' \subseteq observed' /\ observed' \subseteq Directory
    BY <2>2, <2>3 DEF InventoryInv
  <2>. QED  BY <1>0, <2>3, <2>5, <2>7, <2>8, <2>9 DEF InventoryInv, tree
<1>4. CASE Refuse
  BY <1>0, <1>4 DEF InventoryInv, Refuse, tree, Waiting
<1>5. CASE FinishInventory
  BY <1>0, <1>5 DEF InventoryInv, FinishInventory, tree, Waiting
<1>. QED
  BY <1>1, <1>2, <1>3, <1>4, <1>5 DEF InventoryNext

LEMMA InventoryInvariant == InventorySpec => []InventoryInv
  BY InitInventory, InventoryNextPreserves, PTL DEF InventorySpec

\* For any layout, with cycles and aliases, and any bounds: what an expanded directory
\* leads to is visited or about to be, and the inventory of a walk that ends is whole
\* as far as the walk descends. (inspect_codex_scope, codex.rs:354-383)
THEOREM NoSkillIsDropped == InventorySpec => []NothingDropped
<1>1. InventoryInv => NothingDropped
  <2>. SUFFICES ASSUME InventoryInv PROVE NothingDropped
    OBVIOUS
  <2>1. \A d \in expanded : Below(d) \subseteq observed \cup Waiting
    BY DEF InventoryInv
  <2>2. progress = "complete" => Waiting = {}
    BY DEF InventoryInv, Waiting
  <2>3. found = {d \in observed : skill[d] = "loaded"}
    BY DEF InventoryInv
  <2>. QED  BY <2>1, <2>2, <2>3 DEF NothingDropped, Waiting
<1>. QED  BY <1>1, InventoryInvariant, PTL

-----------------------------------------------------------------------------
(* The observation of an agent's version.                                  *)

\* The steps at which the root cannot have been reaped yet, and those that are
\* reached only with a domain that knows its root.
Unreaped == {"spawn", "attach", "readers", "await", "grace", "terminate", "stop"}
WithDomain == {"readers", "await", "grace", "terminate", "poll", "reap", "probe", "last"}

\* A number is reused only after the reaping, and the group is killed only before.
ReapInv ==
    /\ root = "reaped" => pc \notin Unreaped
    /\ stranger # "none" => root = "reaped" /\ platform = "unix"
    /\ stranger # "killed"
    /\ pc \in WithDomain => attached
    /\ answer # "none" => pc \in {"drop", "done"}
    /\ root \in {"exited", "reaped"} => exit # "none"
    /\ empty => root = "reaped" /\ kin # "inside"

\* What a reader may have said of a stream.
Says(s, said) ==
    /\ said = "whole" => holders[s] = {} /\ written[s] <= Limit
    /\ said = "exceeded" => written[s] > Limit

\* A reader speaks once, when it is done, and the truth.
StreamInv ==
    /\ \A s \in Streams : result[s] # "none" => reader[s] = "done"
    /\ \A s \in Streams : Says(s, result[s])
    /\ \A i \in 1..Len(inbox) :
        /\ reader[inbox[i][1]] = "done"
        /\ result[inbox[i][1]] = "none"
        /\ Says(inbox[i][1], inbox[i][2])
    /\ \A i, j \in 1..Len(inbox) : inbox[i][1] = inbox[j][1] => i = j

\* Force cuts a writer off only after the deadline, or after a stream that is
\* refused anyway.
Excused == late \/ MustStop
AllWhole == \A s \in Streams : result[s] = "whole"

CutInv ==
    /\ pc \in {"spawn", "attach", "readers", "await", "grace", "terminate"} => cut = {}
    /\ pc \in {"spawn", "attach", "readers"} =>
        (\A s \in Streams : result[s] = "none" /\ reader[s] = "idle") /\ Len(inbox) = 0
    /\ pc = "grace" => AllWhole
    /\ pc = "terminate" => Excused \/ AllWhole
    /\ pc \in {"poll", "reap", "probe", "last"} => cut = {} \/ Excused

CaptureInv == CaptureTypeOK /\ ReapInv /\ StreamInv /\ CutInv /\ AnswerIsTrue

Message == Streams \X {"whole", "exceeded", "error"}

LEMMA InitEstablishes == CaptureInit => CaptureInv
<1> SUFFICES ASSUME CaptureInit PROVE CaptureInv
  OBVIOUS
<1> USE DEF CaptureInit, CaptureAt
<1>1. CaptureTypeOK
  <2>1. 0 \in 0 .. Limit + 1 /\ 0 \in 0 .. MaxFaults
    BY LimitIsNatural, FaultsAreNatural
  <2>2. written \in [Streams -> 0 .. Limit + 1]
    BY <2>1
  <2>3. inbox \in Seq(Streams \X {"whole", "exceeded", "error"})
    OBVIOUS
  <2>. QED
    BY <2>1, <2>2, <2>3 DEF CaptureTypeOK
<1>2. ReapInv /\ AnswerIsTrue
  BY DEF ReapInv, AnswerIsTrue, Banners, Contained, Unreaped, WithDomain
<1>3. StreamInv /\ CutInv
  BY DEF StreamInv, Says, CutInv
<1>. QED
  BY <1>1, <1>2, <1>3 DEF CaptureInv

-----------------------------------------------------------------------------
(* The agent and its surroundings.                                         *)

LEMMA AgentTyped ==
  ASSUME CaptureTypeOK, AgentNext
  PROVE  CaptureTypeOK'
<1> USE LimitIsNatural DEF CaptureTypeOK, AgentOnly, agentVars, verdictVars, Banners, Answers
<1>1. ASSUME NEW s \in Streams, Writes(s) PROVE CaptureTypeOK'
  BY <1>1 DEF Writes
<1>2. ASSUME NEW p \in {"root", "kin"}, NEW s \in Streams, Closes(p, s) PROVE CaptureTypeOK'
  BY <1>2 DEF Closes
<1>3. ASSUME NEW status \in {"zero", "nonzero"}, RootExits(status) PROVE CaptureTypeOK'
  BY <1>3 DEF RootExits, Without
<1>4. CASE Forks
  BY <1>4 DEF Forks
<1>5. CASE Detaches
  BY <1>5 DEF Detaches
<1>6. CASE KinExits
  BY <1>6 DEF KinExits, Without
<1>7. CASE NumberReused
  BY <1>7 DEF NumberReused
<1>. QED
  BY <1>1, <1>2, <1>3, <1>4, <1>5, <1>6, <1>7 DEF AgentNext

\* What an agent can do to what the observer knows: a writer that is gone stays
\* gone, what was written stays, and a reaped root does nothing any more.
LEMMA AgentIsBounded ==
  ASSUME CaptureTypeOK, AgentNext
  PROVE  /\ \A s \in Streams : holders[s] = {} => holders'[s] = {} /\ written'[s] = written[s]
         /\ \A s \in Streams : written'[s] >= written[s]
         /\ \A s \in Streams : reader[s] = "done" => written'[s] = written[s]
         /\ root = "reaped" => root' = root /\ exit' = exit
         /\ root' = root => exit' = exit
         /\ root = "reaped" /\ kin # "inside" => kin' # "inside"
         /\ root' # root => root = "running" /\ root' = "exited" /\ exit' # "none"
         /\ stranger' # stranger => stranger' = "alive" /\ root = "reaped" /\ platform = "unix"
         /\ cut' = cut /\ pc # "done"
<1> USE LimitIsNatural DEF CaptureTypeOK, AgentOnly, agentVars, verdictVars
<1>1. ASSUME NEW s \in Streams, Writes(s)
      PROVE  /\ \A t \in Streams : holders[t] = {} => holders'[t] = {} /\ written'[t] = written[t]
             /\ \A t \in Streams : written'[t] >= written[t]
             /\ \A t \in Streams : reader[t] = "done" => written'[t] = written[t]
             /\ root' = root /\ exit' = exit /\ kin' = kin /\ cut' = cut /\ stranger' = stranger
             /\ pc # "done"
  BY <1>1 DEF Writes
<1>2. ASSUME NEW p \in {"root", "kin"}, NEW s \in Streams, Closes(p, s)
      PROVE  /\ \A t \in Streams : holders[t] = {} => holders'[t] = {}
             /\ written' = written /\ pc # "done"
             /\ root' = root /\ exit' = exit /\ kin' = kin /\ cut' = cut /\ stranger' = stranger
  BY <1>2 DEF Closes
<1>3. ASSUME NEW status \in {"zero", "nonzero"}, RootExits(status)
      PROVE  /\ \A t \in Streams : holders[t] = {} => holders'[t] = {}
             /\ written' = written /\ pc # "done"
             /\ root = "running" /\ root' = "exited" /\ exit' # "none"
             /\ cut' = cut /\ stranger' = stranger
  BY <1>3 DEF RootExits, Without
<1>4. CASE Forks
  BY <1>4 DEF Forks
<1>5. CASE Detaches
  BY <1>5 DEF Detaches
<1>6. CASE KinExits
  BY <1>6 DEF KinExits, Without, Alive
<1>7. CASE NumberReused
  BY <1>7 DEF NumberReused
<1>8. \A s \in Streams : written[s] >= written[s]
  OBVIOUS
<1>. QED
  BY <1>1, <1>2, <1>3, <1>4, <1>5, <1>6, <1>7, <1>8 DEF AgentNext

LEMMA AgentPreserves == CaptureInv /\ AgentNext => CaptureInv'
<1> SUFFICES ASSUME CaptureInv, AgentNext PROVE CaptureInv'
  OBVIOUS
<1>1. CaptureTypeOK' /\ CaptureTypeOK
  BY AgentTyped DEF CaptureInv
<1>2. UNCHANGED <<platform, pc, attached, reader, inbox, result, timer, verdictVars, answer, faults>>
  BY DEF AgentNext, AgentOnly, Writes, Closes, RootExits, Forks, Detaches, KinExits, NumberReused
<1>3. /\ \A s \in Streams : holders[s] = {} => holders'[s] = {} /\ written'[s] = written[s]
      /\ \A s \in Streams : written'[s] >= written[s]
      /\ \A s \in Streams : reader[s] = "done" => written'[s] = written[s]
      /\ root = "reaped" => root' = root /\ exit' = exit
      /\ root' = root => exit' = exit
      /\ root = "reaped" /\ kin # "inside" => kin' # "inside"
      /\ root' # root => root = "running" /\ root' = "exited" /\ exit' # "none"
      /\ stranger' # stranger => stranger' = "alive" /\ root = "reaped" /\ platform = "unix"
      /\ cut' = cut /\ pc # "done"
  BY <1>1, AgentIsBounded
<1>4. ReapInv'
  BY <1>2, <1>3 DEF CaptureInv, ReapInv, verdictVars, CaptureTypeOK
<1>5. ASSUME NEW s \in Streams, NEW o, reader[s] = "done", Says(s, o)
      PROVE  Says(s, o)'
  BY <1>3, <1>5 DEF Says
<1>6. StreamInv'
  <2>1. ASSUME NEW s \in Streams PROVE Says(s, result[s])'
    <3>1. CASE result[s] = "none"
      BY <1>2, <3>1 DEF Says
    <3>2. CASE result[s] # "none"
      BY <1>2, <1>5, <3>2 DEF CaptureInv, StreamInv, Says
    <3>. QED
      BY <3>1, <3>2
  <2>2. ASSUME NEW i \in 1..Len(inbox) PROVE Says(inbox[i][1], inbox[i][2])'
    <3>1. inbox[i] \in Streams \X {"whole", "exceeded", "error"}
      BY <1>1, ElementOfSeq DEF CaptureTypeOK
    <3>2. inbox[i][1] \in Streams
      BY <3>1
    <3>. QED
      BY <1>2, <1>5, <3>2 DEF CaptureInv, StreamInv, Says
  <2>. QED
    BY <1>2, <2>1, <2>2 DEF CaptureInv, StreamInv
<1>7. CutInv'
  BY <1>2, <1>3 DEF CaptureInv, CutInv, Excused, AllWhole, MustStop, verdictVars
<1>8. AnswerIsTrue'
  <2>1. answer \in Banners => answer \in Contained
    BY DEF Contained
  <2>2. answer = "status" => answer \in Contained
    BY DEF Contained
  <2>3. ASSUME answer = "bound" PROVE \E s \in Streams : written'[s] > Limit
    <3>1. PICK s \in Streams : written[s] > Limit
      BY <2>3 DEF CaptureInv, AnswerIsTrue
    <3>. QED
      BY <1>1, <1>3, <3>1, LimitIsNatural DEF CaptureTypeOK
  <2>. QED
    BY <1>2, <1>3, <2>1, <2>2, <2>3 DEF CaptureInv, AnswerIsTrue
<1>. QED
  BY <1>1, <1>4, <1>6, <1>7, <1>8 DEF CaptureInv

-----------------------------------------------------------------------------
(* The readers and the clock.                                              *)

LEMMA SendsPreserves ==
  ASSUME CaptureInv, NEW s \in Streams, NEW said \in {"whole", "exceeded", "error"},
         reader[s] = "reading", Says(s, said), Sends(s, said),
         faults' \in 0 .. MaxFaults
  PROVE  CaptureInv'
<1> USE DEF Sends
<1>1. /\ <<s, said>> \in Message /\ inbox \in Seq(Message)
      /\ reader \in [Streams -> {"idle", "reading", "done"}]
  BY DEF CaptureInv, CaptureTypeOK, Message
<1>2. /\ inbox' \in Seq(Message) /\ Len(inbox') = Len(inbox) + 1 /\ Len(inbox) \in Nat
      /\ \A i \in 1..Len(inbox) : inbox'[i] = inbox[i]
      /\ inbox'[Len(inbox) + 1] = <<s, said>>
  BY <1>1, AppendProperties
<1>3. CaptureTypeOK'
  BY <1>1, <1>2 DEF CaptureInv, CaptureTypeOK, Message, agentVars, verdictVars
<1>4. ReapInv' /\ CutInv' /\ AnswerIsTrue'
  <2>1. pc \notin {"spawn", "attach", "readers"}
    BY DEF CaptureInv, CutInv
  <2>. QED
    BY <2>1 DEF CaptureInv, ReapInv, CutInv, Excused, AllWhole, MustStop, AnswerIsTrue,
       agentVars, verdictVars
<1>5. StreamInv'
  \* The stream had neither a result nor a message: its reader was at work.
  <2>1. result[s] = "none" /\ \A i \in 1..Len(inbox) : inbox[i][1] # s
    BY DEF CaptureInv, StreamInv
  <2>2. \A i \in 1..Len(inbox') : i \in 1..Len(inbox) \/ i = Len(inbox) + 1
    BY <1>2
  <2>3. \A i \in 1..Len(inbox) : inbox[i][1] \in Streams
    BY <1>1, ElementOfSeq DEF Message
  <2>4. \A t \in Streams : reader[t] = "done" => reader'[t] = "done"
    BY <1>1
  <2>5. \A t \in Streams : result'[t] # "none" => reader'[t] = "done"
    BY <2>4 DEF CaptureInv, StreamInv
  <2>6. \A t \in Streams : Says(t, result[t])'
    BY DEF CaptureInv, StreamInv, Says, agentVars
  <2>7. \A i \in 1..Len(inbox') : /\ reader'[inbox'[i][1]] = "done"
                                  /\ result'[inbox'[i][1]] = "none"
                                  /\ Says(inbox[i][1], inbox[i][2])'
    BY <1>1, <1>2, <2>1, <2>2, <2>3, <2>4 DEF CaptureInv, StreamInv, Says, agentVars
  <2>8. \A i, j \in 1..Len(inbox') : inbox'[i][1] = inbox'[j][1] => i = j
    BY <1>2, <2>1, <2>2 DEF CaptureInv, StreamInv
  <2>. QED
    BY <2>5, <2>6, <2>7, <2>8 DEF StreamInv
<1>. QED
  BY <1>3, <1>4, <1>5 DEF CaptureInv

LEMMA ReaderPreserves ==
  ASSUME CaptureInv, NEW s \in Streams, Reads(s) \/ ReadFails(s)
  PROVE  CaptureInv'
<1>1. CASE Reads(s)
  <2>1. Says(s, ReadTo(s)) /\ ReadTo(s) \in {"whole", "exceeded", "error"}
    BY <1>1, LimitIsNatural DEF Reads, AtItsEnd, ReadTo, Says, CaptureInv, CaptureTypeOK
  <2>2. faults' \in 0 .. MaxFaults
    BY <1>1 DEF Reads, CaptureInv, CaptureTypeOK
  <2>. QED
    BY <1>1, <2>1, <2>2, SendsPreserves DEF Reads
<1>2. CASE ReadFails(s)
  <2>1. faults' \in 0 .. MaxFaults
    BY <1>2, FaultsAreNatural DEF ReadFails, CaptureInv, CaptureTypeOK
  <2>. QED
    BY <1>2, <2>1, SendsPreserves DEF ReadFails, Says
<1>. QED
  BY <1>1, <1>2

\* What the streams said is not touched by a step that only takes writers away.
LEMMA StreamFrame ==
  ASSUME CaptureTypeOK, StreamInv, UNCHANGED <<written, reader, inbox, result>>,
         \A s \in Streams : holders[s] = {} => holders'[s] = {}
  PROVE  StreamInv'
<1>1. \A i \in 1..Len(inbox) : inbox[i][1] \in Streams
  BY ElementOfSeq DEF CaptureTypeOK
<1>. QED
  BY <1>1 DEF StreamInv, Says

LEMMA TimerPreserves == CaptureInv /\ TimerExpires => CaptureInv'
<1> SUFFICES ASSUME CaptureInv, TimerExpires PROVE CaptureInv'
  OBVIOUS
<1> USE DEF TimerExpires, agentVars, streamVars, verdictVars
<1>1. CaptureTypeOK'
  BY DEF CaptureInv, CaptureTypeOK
<1>2. ReapInv' /\ CutInv' /\ AnswerIsTrue'
  BY DEF CaptureInv, ReapInv, CutInv, Excused, AllWhole, MustStop, AnswerIsTrue
<1>3. StreamInv'
  BY StreamFrame DEF CaptureInv
<1>. QED
  BY <1>1, <1>2, <1>3 DEF CaptureInv

-----------------------------------------------------------------------------
(* The observer: start and the wait for the output.                        *)

LEMMA SetupPreserves ==
  CaptureInv /\ (CannotStart \/ Spawn \/ Attach \/ StartReaders) => CaptureInv'
<1> SUFFICES ASSUME CaptureInv, CannotStart \/ Spawn \/ Attach \/ StartReaders
             PROVE  CaptureInv'
  OBVIOUS
<1> USE FaultsAreNatural DEF Fails, Works, Gives, agentVars, streamVars, verdictVars
<1>1. answer = "none" /\ cut = {} /\ stranger = "none" /\ empty = FALSE
  BY DEF CannotStart, Spawn, Attach, StartReaders, CaptureInv, CaptureTypeOK, CutInv, ReapInv,
         Unreaped
<1>2. CASE CannotStart
  <2>1. CaptureTypeOK'
    BY <1>2 DEF CannotStart, CaptureInv, CaptureTypeOK, Answers
  <2>2. ReapInv' /\ CutInv' /\ AnswerIsTrue'
    BY <1>1, <1>2 DEF CannotStart, CaptureInv, ReapInv, CutInv, AnswerIsTrue, Unreaped,
       WithDomain, Contained, Banners
  <2>. QED
    BY <1>2, <2>1, <2>2, StreamFrame DEF CannotStart, CaptureInv
<1>3. CASE Spawn
  <2>1. CaptureTypeOK'
    BY <1>3 DEF Spawn, CaptureInv, CaptureTypeOK
  <2>2. ReapInv' /\ CutInv' /\ AnswerIsTrue'
    BY <1>1, <1>3 DEF Spawn, CaptureInv, ReapInv, CutInv, AnswerIsTrue, Unreaped,
       WithDomain, Contained, Banners
  \* No reader has begun, so nothing was said yet.
  <2>3. StreamInv'
    <3>1. (\A s \in Streams : result[s] = "none") /\ Len(inbox) = 0
      BY <1>3 DEF Spawn, CaptureInv, CutInv
    <3>. QED
      BY <1>3, <3>1 DEF Spawn, StreamInv, Says
  <2>. QED
    BY <2>1, <2>2, <2>3 DEF CaptureInv
<1>4. CASE Attach
  <2>1. CaptureTypeOK'
    <3>1. faults' \in 0 .. MaxFaults
      BY <1>4 DEF Attach, CaptureInv, CaptureTypeOK
    <3>3. attached' \in BOOLEAN /\ pc' \in {"readers", "stop"}
      BY <1>4 DEF Attach
    <3>2. UNCHANGED <<platform, root, exit, kin, holders, cut, stranger, written, reader, inbox,
                      result, timer, late, failed, empty, answer>>
      BY <1>4 DEF Attach
    <3>. QED
      BY <3>1, <3>2, <3>3 DEF CaptureInv, CaptureTypeOK
  <2>2. ReapInv' /\ CutInv' /\ AnswerIsTrue'
    BY <1>1, <1>4 DEF Attach, CaptureInv, ReapInv, CutInv, AnswerIsTrue, Unreaped,
       WithDomain, Contained, Banners
  <2>. QED
    BY <1>4, <2>1, <2>2, StreamFrame DEF Attach, CaptureInv
<1>5. CASE StartReaders
  <2>1. CaptureTypeOK'
    <3>1. /\ reader' \in [Streams -> {"idle", "reading", "done"}] /\ pc' \in {"await", "stop"}
          /\ timer' \in {"off", "running", "expired"} /\ faults' \in 0 .. MaxFaults
      BY <1>5 DEF StartReaders, CaptureInv, CaptureTypeOK
    <3>2. UNCHANGED <<platform, attached, root, exit, kin, holders, cut, stranger, written,
                      inbox, result, late, failed, empty, answer>>
      BY <1>5 DEF StartReaders
    <3>. QED
      BY <3>1, <3>2 DEF CaptureInv, CaptureTypeOK
  <2>2. ReapInv' /\ CutInv' /\ AnswerIsTrue'
    BY <1>1, <1>5 DEF StartReaders, CaptureInv, ReapInv, CutInv, AnswerIsTrue, Unreaped,
       WithDomain, Contained, Banners
  <2>3. StreamInv'
    <3>1. (\A s \in Streams : result[s] = "none") /\ Len(inbox) = 0
      BY <1>5 DEF StartReaders, CaptureInv, CutInv
    <3>. QED
      BY <1>5, <3>1 DEF StartReaders, StreamInv, Says
  <2>. QED
    BY <2>1, <2>2, <2>3 DEF CaptureInv
<1>. QED
  BY <1>2, <1>3, <1>4, <1>5

LEMMA ReceivePreserves == CaptureInv /\ Receive => CaptureInv'
<1> SUFFICES ASSUME CaptureInv, Receive PROVE CaptureInv'
  OBVIOUS
<1> USE DEF Receive, agentVars, verdictVars
<1> DEFINE s == Head(inbox)[1]
           said == Head(inbox)[2]
<1>1. inbox \in Seq(Message) /\ inbox # << >>
  BY DEF CaptureInv, CaptureTypeOK, Message
<1>2. /\ Head(inbox) \in Message /\ Head(inbox) = inbox[1]
      /\ Tail(inbox) \in Seq(Message) /\ Len(Tail(inbox)) = Len(inbox) - 1
      /\ \A i \in 1..Len(Tail(inbox)) : Tail(inbox)[i] = inbox[i + 1]
      /\ Len(inbox) \in Nat \ {0}
  BY <1>1, HeadTailProperties, EmptySeq
<1>3. s \in Streams /\ said \in {"whole", "exceeded", "error"}
  BY <1>2 DEF Message
<1>4. /\ reader[s] = "done" /\ result[s] = "none" /\ Says(s, said)
      /\ \A i \in 1..Len(inbox) : i # 1 => inbox[i][1] # s
  BY <1>2 DEF CaptureInv, StreamInv
<1> HIDE DEF s, said
<1>5. result' = [result EXCEPT ![s] = said] /\ inbox' = Tail(inbox)
  BY DEF s, said
<1>6. CaptureTypeOK'
  BY <1>2, <1>3, <1>5 DEF CaptureInv, CaptureTypeOK, Message
<1>7. ReapInv' /\ AnswerIsTrue'
  BY DEF CaptureInv, ReapInv, AnswerIsTrue
<1>8. CutInv'
  BY DEF CaptureInv, CutInv
<1>9. StreamInv'
  <2>1. \A t \in Streams : result'[t] = IF t = s THEN said ELSE result[t]
    BY <1>5 DEF CaptureInv, CaptureTypeOK
  <2>2. \A i \in 1..Len(inbox') : /\ i + 1 \in 1..Len(inbox) /\ i + 1 # 1
                                  /\ inbox'[i] = inbox[i + 1]
    BY <1>2, <1>5
  <2>3. \A i \in 1..Len(inbox) : inbox[i][1] \in Streams
    BY <1>1, ElementOfSeq DEF Message
  <2>4. \A t \in Streams : (result'[t] # "none" => reader'[t] = "done") /\ Says(t, result[t])'
    BY <1>4, <2>1 DEF CaptureInv, StreamInv, Says
  <2>5. \A i \in 1..Len(inbox') : /\ reader'[inbox'[i][1]] = "done"
                                  /\ result'[inbox'[i][1]] = "none"
                                  /\ Says(inbox[i][1], inbox[i][2])'
    BY <1>4, <2>1, <2>2, <2>3 DEF CaptureInv, StreamInv, Says
  <2>6. \A i, j \in 1..Len(inbox') : inbox'[i][1] = inbox'[j][1] => i = j
    <3>1. ASSUME NEW i \in 1..Len(inbox'), NEW j \in 1..Len(inbox'),
                 inbox'[i][1] = inbox'[j][1]
          PROVE  i = j
      <4>1. i + 1 = j + 1
        BY <2>2, <3>1 DEF CaptureInv, StreamInv
      <4>2. i \in Int /\ j \in Int
        OBVIOUS
      <4>. QED
        BY <4>1, <4>2
    <3>. QED
      BY <3>1
  <2>. QED
    BY <2>4, <2>5, <2>6 DEF StreamInv
<1>. QED
  BY <1>6, <1>7, <1>8, <1>9 DEF CaptureInv

LEMMA WaitPreserves ==
  CaptureInv /\ (TimesOut \/ StopEarly \/ OutputEnds \/ GraceEnds) => CaptureInv'
<1> SUFFICES ASSUME CaptureInv, TimesOut \/ StopEarly \/ OutputEnds \/ GraceEnds
             PROVE  CaptureInv'
  OBVIOUS
<1> USE DEF TimesOut, StopEarly, OutputEnds, GraceEnds, Waits, Exceeds, agentVars, streamVars,
            verdictVars
<1>1. CaptureTypeOK'
  <2>1. late' \in BOOLEAN
    BY DEF CaptureInv, CaptureTypeOK
  <2>2. pc' \in {"grace", "terminate"}
    OBVIOUS
  <2>3. UNCHANGED <<platform, attached, root, exit, kin, holders, cut, stranger, written, reader,
                    inbox, result, timer, failed, empty, answer, faults>>
    OBVIOUS
  <2>. QED
    BY <2>1, <2>2, <2>3 DEF CaptureInv, CaptureTypeOK
<1>2. ReapInv' /\ AnswerIsTrue'
  BY DEF CaptureInv, ReapInv, AnswerIsTrue, Unreaped, WithDomain, Contained, Banners
<1>3. CutInv'
  <2>1. AllIn /\ ~MustStop => AllWhole
    BY DEF AllIn, MustStop, AllWhole, CaptureInv, CaptureTypeOK
  <2>. QED
    BY <2>1 DEF CaptureInv, CutInv, Excused, AllWhole, MustStop
<1>4. StreamInv'
  BY StreamFrame DEF CaptureInv
<1>. QED
  BY <1>1, <1>2, <1>3, <1>4 DEF CaptureInv

-----------------------------------------------------------------------------
(* The observer: force.                                                    *)

LEMMA KillIsBounded ==
  ASSUME CaptureTypeOK, NEW victims \in SUBSET {"root", "kin"}, Kill(victims)
  PROVE  /\ root' \in {"none", "running", "exited", "reaped"}
         /\ exit' \in {"none", "zero", "nonzero", "killed"}
         /\ kin' \in {"none", "inside", "outside", "gone"}
         /\ holders' \in [Streams -> SUBSET {"root", "kin"}] /\ cut' \subseteq Streams
         /\ \A s \in Streams : holders[s] = {} => holders'[s] = {}
         /\ (root' = root /\ exit' = exit) \/ (root = "running" /\ root' = "exited" /\ exit' = "killed")
         /\ kin' = kin \/ kin' = "gone"
         /\ (\A s \in Streams : holders[s] = {}) => cut' = cut
<1> DEFINE dead == {p \in victims : Alive(p)}
<1>1. /\ root' = IF "root" \in dead THEN "exited" ELSE root
      /\ exit' = IF "root" \in dead THEN "killed" ELSE exit
      /\ kin' = IF "kin" \in dead THEN "gone" ELSE kin
      /\ holders' = Without(dead)
      /\ cut' = cut \cup {s \in Streams : holders[s] \cap dead # {}}
  BY DEF Kill
<1>2. dead \subseteq {"root", "kin"} /\ ("root" \in dead => root = "running")
  BY DEF Alive
<1> HIDE DEF dead
<1>3. /\ holders' \in [Streams -> SUBSET {"root", "kin"}]
      /\ \A s \in Streams : holders'[s] = holders[s] \ dead
  BY <1>1, <1>2 DEF Without, CaptureTypeOK
<1>4. \A s \in Streams : holders[s] = {} => holders'[s] = {}
  BY <1>3
<1>5. (\A s \in Streams : holders[s] = {}) => cut' = cut
  BY <1>1
<1>6. cut' \subseteq Streams
  BY <1>1 DEF CaptureTypeOK
<1>7. (root' = root /\ exit' = exit) \/ (root = "running" /\ root' = "exited" /\ exit' = "killed")
  BY <1>1, <1>2
<1>8. kin' = kin \/ kin' = "gone"
  BY <1>1
<1>. QED
  BY <1>3, <1>4, <1>5, <1>6, <1>7, <1>8 DEF CaptureTypeOK

LEMMA DomainKillIsBounded ==
  ASSUME CaptureInv, KillDomain \/ KillRoot, platform = "unix" => root # "reaped"
  PROVE  /\ root' \in {"none", "running", "exited", "reaped"}
         /\ exit' \in {"none", "zero", "nonzero", "killed"}
         /\ kin' \in {"none", "inside", "outside", "gone"}
         /\ holders' \in [Streams -> SUBSET {"root", "kin"}] /\ cut' \subseteq Streams
         /\ \A s \in Streams : holders[s] = {} => holders'[s] = {}
         /\ (root' = root /\ exit' = exit) \/ (root = "running" /\ root' = "exited" /\ exit' = "killed")
         /\ kin' = kin \/ kin' = "gone"
         /\ (\A s \in Streams : holders[s] = {}) => cut' = cut
         /\ stranger' = stranger
<1>1. CaptureTypeOK /\ (platform = "unix" => stranger = "none")
  BY DEF CaptureInv, ReapInv
<1>2. PICK victims \in SUBSET {"root", "kin"} : Kill(victims)
  BY DEF KillDomain, KillRoot, KillGroup, Members
<1>3. stranger' = stranger
  BY <1>1 DEF KillDomain, KillRoot, KillGroup
<1>. QED
  BY <1>1, <1>2, <1>3, KillIsBounded

LEMMA TerminatePreserves ==
  ASSUME CaptureInv,
         Terminate("terminate", "poll") \/ Terminate("stop", "reap_stopped")
  PROVE  CaptureInv'
<1>1. /\ pc \in {"terminate", "stop"} /\ pc' \in {"poll", "reap_stopped"} /\ timer' = "running"
      /\ pc = "stop" <=> pc' = "reap_stopped"
      /\ UNCHANGED <<platform, attached, written, reader, inbox, result, late, empty, answer>>
  BY DEF Terminate, streamVars
<1>2. /\ root # "reaped" /\ stranger = "none" /\ answer = "none" /\ empty = FALSE
      /\ pc = "terminate" => attached
  BY <1>1 DEF CaptureInv, CaptureTypeOK, ReapInv, Unreaped, WithDomain
<1>3. /\ root' \in {"none", "running", "exited", "reaped"}
      /\ exit' \in {"none", "zero", "nonzero", "killed"}
      /\ kin' \in {"none", "inside", "outside", "gone"}
      /\ holders' \in [Streams -> SUBSET {"root", "kin"}] /\ cut' \subseteq Streams
      /\ \A s \in Streams : holders[s] = {} => holders'[s] = {}
      /\ (root' = root /\ exit' = exit) \/ (root = "running" /\ root' = "exited" /\ exit' = "killed")
      /\ (\A s \in Streams : holders[s] = {}) => cut' = cut
      /\ stranger' = stranger
      /\ failed' \subseteq {"terminate", "wait", "domain"} /\ faults' \in 0 .. MaxFaults
  <2>1. CASE KillDomain \/ KillRoot
    <3>1. failed' = failed \/ failed' = failed \cup {"terminate"}
      BY DEF Terminate, Terminated, Works, Fails
    <3>2. faults' = faults \/ (faults' = faults + 1 /\ faults < MaxFaults)
      BY DEF Terminate, Terminated, Works, Fails
    <3>3. failed' \subseteq {"terminate", "wait", "domain"}
      BY <3>1 DEF CaptureInv, CaptureTypeOK
    <3>4. faults' \in 0 .. MaxFaults
      BY <3>2, FaultsAreNatural DEF CaptureInv, CaptureTypeOK
    <3>. QED
      BY <1>2, <2>1, <3>3, <3>4, DomainKillIsBounded
  <2>2. CASE Fails(UNCHANGED <<agentVars, stranger>> /\ failed' = failed \cup {"terminate"})
    <3>1. /\ UNCHANGED <<root, exit, kin, holders, cut, stranger>>
          /\ failed' = failed \cup {"terminate"}
          /\ faults' = faults + 1 /\ faults < MaxFaults
      BY <2>2 DEF Fails, agentVars
    <3>. QED
      BY <3>1, FaultsAreNatural DEF CaptureInv, CaptureTypeOK
  <2>. QED
    BY <2>1, <2>2 DEF Terminate, Terminated, Works, Fails
<1>4. CaptureTypeOK'
  BY <1>1, <1>3 DEF CaptureInv, CaptureTypeOK
<1>5. ReapInv' /\ AnswerIsTrue'
  BY <1>1, <1>2, <1>3 DEF CaptureInv, ReapInv, AnswerIsTrue, Unreaped, WithDomain, Contained,
     Banners
<1>6. CutInv'
  \* With every stream whole nobody held a pipe that force could close.
  <2>1. AllWhole => \A s \in Streams : holders[s] = {}
    BY DEF CaptureInv, StreamInv, Says, AllWhole
  <2>2. pc = "terminate" => cut = {} /\ (Excused \/ AllWhole)
    BY DEF CaptureInv, CutInv
  <2>. QED
    BY <1>1, <1>3, <2>1, <2>2 DEF CutInv, Excused, MustStop
<1>7. StreamInv'
  BY <1>1, <1>3, StreamFrame DEF CaptureInv
<1>. QED
  BY <1>4, <1>5, <1>6, <1>7 DEF CaptureInv

LEMMA DropPreserves == CaptureInv /\ Drop => CaptureInv'
<1> SUFFICES ASSUME CaptureInv, Drop PROVE CaptureInv'
  OBVIOUS
<1>1. /\ pc = "drop" /\ pc' = "done"
      /\ UNCHANGED <<platform, attached, written, reader, inbox, result, timer, late, failed,
                     empty, answer, faults>>
  BY DEF Drop, streamVars, verdictVars
<1>2. /\ root' \in {"none", "running", "exited", "reaped"}
      /\ exit' \in {"none", "zero", "nonzero", "killed"}
      /\ kin' \in {"none", "inside", "outside", "gone"}
      /\ holders' \in [Streams -> SUBSET {"root", "kin"}] /\ cut' \subseteq Streams
      /\ \A s \in Streams : holders[s] = {} => holders'[s] = {}
      /\ (root' = root /\ exit' = exit) \/ (root = "running" /\ root' = "exited" /\ exit' = "killed")
      /\ kin' = kin \/ kin' = "gone"
      /\ (\A s \in Streams : holders[s] = {}) => cut' = cut
      /\ stranger' = stranger
  <2>1. CASE attached /\ (platform = "windows" \/ KillsOnDrop)
    <3>1. KillDomain /\ (platform = "unix" => root # "reaped")
      BY <2>1 DEF Drop, KillsOnDrop
    <3>. QED
      BY <3>1, DomainKillIsBounded
  <2>2. CASE ~(attached /\ (platform = "windows" \/ KillsOnDrop))
    <3>1. UNCHANGED <<root, exit, kin, holders, cut, stranger>>
      BY <2>2 DEF Drop, agentVars
    <3>. QED
      BY <3>1 DEF CaptureInv, CaptureTypeOK
  <2>. QED
    BY <2>1, <2>2
<1>3. CaptureTypeOK'
  BY <1>1, <1>2 DEF CaptureInv, CaptureTypeOK
<1>4. ReapInv' /\ CutInv'
  BY <1>1, <1>2 DEF CaptureInv, ReapInv, CutInv, Unreaped, WithDomain
<1>5. StreamInv'
  BY <1>1, <1>2, StreamFrame DEF CaptureInv
<1>6. AnswerIsTrue'
  BY <1>1, <1>2 DEF CaptureInv, AnswerIsTrue, Contained
<1>. QED
  BY <1>3, <1>4, <1>5, <1>6 DEF CaptureInv

-----------------------------------------------------------------------------
(* The observer: the proof of death and the answer.                        *)

\* What is drained from the channel was said, and replaces nothing.
LEMMA DrainedIsSaid ==
  ASSUME CaptureTypeOK, StreamInv, NEW s \in Streams
  PROVE  /\ Drained[s] \in {"none", "whole", "exceeded", "error"}
         /\ Says(s, Drained[s])
         /\ Drained[s] # "none" => reader[s] = "done"
         /\ result[s] # "none" => Drained[s] = result[s]
<1>1. inbox \in Seq(Message) /\ DOMAIN inbox = 1..Len(inbox)
  BY DEF CaptureTypeOK, Message
<1>2. \A i \in 1..Len(inbox) : inbox[i] \in Message
  BY <1>1, ElementOfSeq
<1>3. CASE \E i \in DOMAIN inbox : inbox[i][1] = s
  <2> DEFINE m == CHOOSE m \in {inbox[i] : i \in DOMAIN inbox} : m[1] = s
  <2>1. m \in {inbox[i] : i \in DOMAIN inbox} /\ m[1] = s
    BY <1>3
  <2>2. Drained[s] = m[2]
    BY <1>3 DEF Drained
  <2> HIDE DEF m
  <2>3. PICK i \in 1..Len(inbox) : inbox[i] = m
    BY <1>1, <2>1
  <2>4. m[2] \in {"whole", "exceeded", "error"}
    BY <1>2, <2>3 DEF Message
  <2>5. reader[s] = "done" /\ result[s] = "none" /\ Says(s, m[2])
    BY <2>1, <2>3 DEF StreamInv
  <2>. QED
    BY <2>2, <2>4, <2>5
<1>4. CASE ~(\E i \in DOMAIN inbox : inbox[i][1] = s)
  <2>1. Drained[s] = result[s]
    BY <1>4 DEF Drained
  <2>. QED
    BY <2>1 DEF StreamInv, CaptureTypeOK
<1>. QED
  BY <1>3, <1>4

\* What draining the channel leaves true.
LEMMA DrainsKeeps ==
  ASSUME CaptureInv, NEW next \in {"reap", "last", "drop"}, Drains(next),
         answer' \in Answers \cup {"none"}
  PROVE  /\ CaptureTypeOK' /\ StreamInv'
         /\ \A s \in Streams : result[s] # "none" => result'[s] = result[s]
<1> USE DEF Drains, agentVars, verdictVars
<1>1. \A s \in Streams : result'[s] = Drained[s]
  OBVIOUS
<1>2. \A s \in Streams :
        /\ Drained[s] \in {"none", "whole", "exceeded", "error"}
        /\ Says(s, Drained[s])
        /\ Drained[s] # "none" => reader[s] = "done"
        /\ result[s] # "none" => Drained[s] = result[s]
  BY DrainedIsSaid DEF CaptureInv
<1>3. result' \in [Streams -> {"none", "whole", "exceeded", "error"}]
  <2>1. result' = [s \in Streams |-> Drained[s]]
    BY DEF Drained
  <2>. QED
    BY <1>2, <2>1
<1>4. CaptureTypeOK'
  BY <1>3 DEF CaptureInv, CaptureTypeOK
<1>5. StreamInv'
  BY <1>1, <1>2 DEF StreamInv, Says
<1>. QED
  BY <1>1, <1>2, <1>4, <1>5

LEMMA PollPreserves == CaptureInv /\ (Poll \/ DeadlinePasses) => CaptureInv'
<1> SUFFICES ASSUME CaptureInv, Poll \/ DeadlinePasses PROVE CaptureInv'
  OBVIOUS
<1>1. PICK next \in {"reap", "last"} : Drains(next) /\ pc = "poll" /\ UNCHANGED answer
  BY DEF Poll, DeadlinePasses
<1>2. answer' \in Answers \cup {"none"}
  BY <1>1 DEF CaptureInv, CaptureTypeOK
<1>3. /\ CaptureTypeOK' /\ StreamInv'
      /\ \A s \in Streams : result[s] # "none" => result'[s] = result[s]
  BY <1>1, <1>2, DrainsKeeps
<1>4. ReapInv' /\ AnswerIsTrue'
  BY <1>1 DEF Drains, agentVars, verdictVars, CaptureInv, ReapInv, AnswerIsTrue, Unreaped,
     WithDomain, Contained, Banners
<1>5. CutInv'
  BY <1>1, <1>3 DEF Drains, agentVars, verdictVars, CaptureInv, CutInv, Excused, MustStop
<1>. QED
  BY <1>3, <1>4, <1>5 DEF CaptureInv

LEMMA ReapPreserves == CaptureInv /\ Reap => CaptureInv'
<1> SUFFICES ASSUME CaptureInv, Reap PROVE CaptureInv'
  OBVIOUS
<1>1. /\ pc = "reap" /\ pc' = "probe"
      /\ UNCHANGED <<platform, attached, exit, kin, holders, cut, stranger, written, reader, inbox,
                     result, timer, late, empty, answer>>
  BY DEF Reap, streamVars
<1>2. root' = root \/ (root = "exited" /\ root' = "reaped")
  BY DEF Reap, Works, Fails, Reaped
<1>3. failed' = failed \/ failed' = failed \cup {"wait"}
  BY DEF Reap, Works, Fails
<1>4. faults' = faults \/ (faults' = faults + 1 /\ faults < MaxFaults)
  BY DEF Reap, Works, Fails
<1>5. CaptureTypeOK'
  <2>1. failed' \subseteq {"terminate", "wait", "domain"}
    BY <1>3 DEF CaptureInv, CaptureTypeOK
  <2>2. faults' \in 0 .. MaxFaults
    BY <1>4, FaultsAreNatural DEF CaptureInv, CaptureTypeOK
  <2>3. root' \in {"none", "running", "exited", "reaped"}
    BY <1>2 DEF CaptureInv, CaptureTypeOK
  <2>. QED
    BY <1>1, <2>1, <2>2, <2>3 DEF CaptureInv, CaptureTypeOK
<1>6. ReapInv'
  BY <1>1, <1>2 DEF CaptureInv, ReapInv, Unreaped, WithDomain
<1>7. CutInv' /\ AnswerIsTrue'
  BY <1>1 DEF CaptureInv, ReapInv, CutInv, Excused, MustStop, AnswerIsTrue, Contained, Banners
<1>8. StreamInv'
  BY <1>1, StreamFrame DEF CaptureInv
<1>. QED
  BY <1>5, <1>6, <1>7, <1>8 DEF CaptureInv

LEMMA ProbePreserves == CaptureInv /\ Probe => CaptureInv'
<1> SUFFICES ASSUME CaptureInv, Probe PROVE CaptureInv'
  OBVIOUS
<1>1. /\ pc = "probe" /\ pc' \in {"last", "poll"}
      /\ UNCHANGED <<platform, attached, root, exit, kin, holders, cut, stranger, written, reader,
                     inbox, result, timer, late, answer>>
  BY DEF Probe, agentVars, streamVars
<1>2. empty' = empty \/ (root = "reaped" /\ empty' = DomainEmpty)
  BY DEF Probe, Works, Fails
<1>3. failed' = failed \/ failed' = failed \cup {"domain"}
  BY DEF Probe, Works, Fails
<1>4. faults' = faults \/ (faults' = faults + 1 /\ faults < MaxFaults)
  BY DEF Probe, Works, Fails
<1>5. DomainEmpty \in BOOLEAN /\ (DomainEmpty => kin # "inside")
  BY <1>1 DEF DomainEmpty, Members, Inside, CaptureInv, ReapInv, WithDomain
<1>6. CaptureTypeOK'
  <2>1. failed' \subseteq {"terminate", "wait", "domain"}
    BY <1>3 DEF CaptureInv, CaptureTypeOK
  <2>2. faults' \in 0 .. MaxFaults
    BY <1>4, FaultsAreNatural DEF CaptureInv, CaptureTypeOK
  <2>3. empty' \in BOOLEAN
    BY <1>2, <1>5 DEF CaptureInv, CaptureTypeOK
  <2>. QED
    BY <1>1, <2>1, <2>2, <2>3 DEF CaptureInv, CaptureTypeOK
<1>7. ReapInv'
  BY <1>1, <1>2, <1>5 DEF CaptureInv, ReapInv, Unreaped, WithDomain
<1>8. CutInv' /\ AnswerIsTrue'
  BY <1>1 DEF CaptureInv, ReapInv, CutInv, Excused, MustStop, AnswerIsTrue, Contained, Banners
<1>9. StreamInv'
  BY <1>1, StreamFrame DEF CaptureInv
<1>. QED
  BY <1>6, <1>7, <1>8, <1>9 DEF CaptureInv

LEMMA VerdictRests ==
  ASSUME NEW banner \in Banners
  PROVE  /\ Verdict(banner) \in Answers
         /\ Verdict(banner) \in Contained => root = "reaped" /\ empty
         /\ Verdict(banner) \in Banners =>
              /\ ~late /\ exit = "zero"
              /\ \A s \in Streams : Drained[s] \notin {"none", "error", "exceeded"}
         /\ Verdict(banner) = "bound" => \E s \in Streams : Drained[s] = "exceeded"
         /\ Verdict(banner) = "status" => exit # "zero"
  BY DEF Verdict, Answers, Contained, Banners

LEMMA FinishPreserves == CaptureInv /\ Finish => CaptureInv'
<1> SUFFICES ASSUME CaptureInv, Finish PROVE CaptureInv'
  OBVIOUS
<1>1. PICK banner \in Banners : answer' = Verdict(banner)
  BY DEF Finish
<1>2. /\ pc = "last" /\ pc' = "drop" /\ Drains("drop")
      /\ UNCHANGED <<platform, attached, root, exit, kin, holders, cut, stranger, written,
                     reader, timer, late, failed, empty, faults>>
      /\ \A s \in Streams : result'[s] = Drained[s]
  BY DEF Finish, Drains, agentVars, verdictVars
<1>3. /\ CaptureTypeOK' /\ StreamInv'
      /\ \A s \in Streams : result[s] # "none" => result'[s] = result[s]
  BY <1>1, <1>2, VerdictRests, DrainsKeeps
<1>4. ReapInv' /\ CutInv'
  BY <1>2 DEF CaptureInv, ReapInv, CutInv, Unreaped, WithDomain
<1>5. AnswerIsTrue'
  <2>1. ASSUME answer' \in Banners
        PROVE  /\ exit' = "zero" /\ cut' = {}
               /\ \A s \in Streams : written'[s] <= Limit /\ holders'[s] = {}
    <3>1. /\ ~late /\ exit = "zero"
          /\ \A s \in Streams : Drained[s] \notin {"none", "error", "exceeded"}
      BY <1>1, <2>1, VerdictRests
    <3>2. \A s \in Streams : result'[s] = "whole"
      BY <1>2, <1>3, <3>1 DEF CaptureTypeOK
    <3>3. \A s \in Streams : written'[s] <= Limit /\ holders'[s] = {}
      BY <1>3, <3>2 DEF StreamInv, Says
    \* A stream that had been refused when force was used would be refused still.
    <3>4. cut = {}
      BY <1>2, <1>3, <3>1, <3>2 DEF CaptureInv, CutInv, Excused, MustStop
    <3>. QED
      BY <1>2, <3>1, <3>3, <3>4
  <2>2. ASSUME answer' = "bound" PROVE \E s \in Streams : written'[s] > Limit
    BY <1>1, <1>2, <1>3, <2>2, VerdictRests DEF StreamInv, Says
  <2>3. answer' \in Contained => root' = "reaped" /\ kin' # "inside"
    BY <1>1, <1>2, VerdictRests DEF CaptureInv, ReapInv
  <2>4. ASSUME answer' = "status" PROVE exit' \in {"nonzero", "killed"}
    BY <1>1, <1>2, <1>3, <2>3, <2>4, VerdictRests
       DEF CaptureInv, ReapInv, CaptureTypeOK, Contained
  <2>. QED
    BY <2>1, <2>2, <2>3, <2>4 DEF AnswerIsTrue
<1>. QED
  BY <1>3, <1>4, <1>5 DEF CaptureInv

LEMMA StopPreserves == CaptureInv /\ (ReapStopped \/ ProbeStopped) => CaptureInv'
<1> SUFFICES ASSUME CaptureInv, ReapStopped \/ ProbeStopped PROVE CaptureInv'
  OBVIOUS
<1>1. /\ pc \in {"reap_stopped", "probe_stopped"}
      /\ UNCHANGED <<platform, attached, exit, kin, holders, cut, stranger, written, reader, inbox,
                     result, timer, late, failed, empty>>
  BY DEF ReapStopped, ProbeStopped, agentVars, streamVars, verdictVars
<1>2. root' = root \/ (root = "exited" /\ root' = "reaped")
  BY DEF ReapStopped, ProbeStopped, Works, Fails, Gives, Reaped, agentVars
<1>3. \/ answer' = answer /\ pc' \in {"reap_stopped", "probe_stopped"}
      \/ answer' = "setup" /\ pc' = "drop"
  BY DEF ReapStopped, ProbeStopped, Works, Fails, Gives
<1>4. faults' = faults \/ (faults' = faults + 1 /\ faults < MaxFaults)
  BY DEF ReapStopped, ProbeStopped, Works, Fails
<1>5. CaptureTypeOK'
  <2>1. faults' \in 0 .. MaxFaults
    BY <1>4, FaultsAreNatural DEF CaptureInv, CaptureTypeOK
  <2>2. root' \in {"none", "running", "exited", "reaped"}
    BY <1>2 DEF CaptureInv, CaptureTypeOK
  <2>3. answer' \in Answers \cup {"none"}
    BY <1>3 DEF CaptureInv, CaptureTypeOK, Answers
  <2>. QED
    BY <1>1, <1>3, <2>1, <2>2, <2>3 DEF CaptureInv, CaptureTypeOK
<1>6. ReapInv'
  BY <1>1, <1>2, <1>3 DEF CaptureInv, ReapInv, Unreaped, WithDomain
<1>7. CutInv' /\ AnswerIsTrue'
  BY <1>1, <1>3 DEF CaptureInv, ReapInv, CutInv, AnswerIsTrue, Contained, Banners
<1>8. StreamInv'
  BY <1>1, StreamFrame DEF CaptureInv
<1>. QED
  BY <1>5, <1>6, <1>7, <1>8 DEF CaptureInv

LEMMA NextPreserves == CaptureInv /\ [CaptureNext]_captureVars => CaptureInv'
<1>1. ASSUME CaptureInv, UNCHANGED captureVars PROVE CaptureInv'
  <2>1. CaptureTypeOK' /\ ReapInv' /\ CutInv' /\ AnswerIsTrue'
    BY <1>1 DEF captureVars, agentVars, streamVars, verdictVars, CaptureInv, CaptureTypeOK, ReapInv,
       CutInv, Excused, AllWhole, MustStop, AnswerIsTrue
  <2>2. StreamInv'
    BY <1>1, StreamFrame DEF captureVars, agentVars, streamVars, CaptureInv
  <2>. QED
    BY <2>1, <2>2 DEF CaptureInv
<1>2. ASSUME CaptureInv, CaptureNext PROVE CaptureInv'
  BY <1>2, AgentPreserves, ReaderPreserves, TimerPreserves, SetupPreserves, ReceivePreserves,
     WaitPreserves, TerminatePreserves, DropPreserves, PollPreserves, ReapPreserves,
     ProbePreserves, FinishPreserves, StopPreserves
     DEF CaptureNext, ObserverNext
<1>. QED
  BY <1>1, <1>2

\* In every state a reader has said the truth once, a pipe was cut only with an
\* excuse that the answer will name, and a group's number is somebody else's
\* only after the reaping: the invariant behind the theorems below.
THEOREM CaptureInvariant == CaptureSpec => []CaptureInv
  BY InitEstablishes, NextPreserves, PTL DEF CaptureSpec

\* Whatever the agent, its descendant and failing calls do, and whatever the
\* bound on the output, the observation is what the agent said
\* (agent/version.rs, finish and classify_capture).
THEOREM AnswersAreTrue == CaptureSpec => []AnswerIsTrue
<1>1. CaptureInv => AnswerIsTrue
  BY DEF CaptureInv
<1>. QED
  BY <1>1, CaptureInvariant, PTL

\* The observer never signals the new owner of its group's number, however many
\* calls fail (CaptureDomain of process/unix.rs and its Drop).
THEOREM StrangersAreSpared == CaptureSpec => []KillsOnlyItsOwn
<1>1. CaptureInv => KillsOnlyItsOwn
  BY DEF CaptureInv, ReapInv, KillsOnlyItsOwn
<1>. QED
  BY <1>1, CaptureInvariant, PTL

-----------------------------------------------------------------------------
(* The link probe.                                                         *)

Creating == {"root", "restrict_root", "source", "sentinel", "write", "restrict_sentinel",
             "identify", "link"}
CleaningUp == {"unlink", "unsentinel", "unsource", "unroot", "conclude"}

ProbeTypes ==
    /\ stage \in Creating \cup CleaningUp \cup {"over"}
    /\ there \in [ProbeEntries -> {"none", "ours", "foreign"}]
    /\ errors \subseteq ProbeEntries
    /\ known \subseteq {"source", "sentinel", "link"}
    /\ refused \in BOOLEAN
    /\ finding \in {"none", "aborted", "PASS", "WARN", "FAIL"}

\* The stages at which an entry is not created yet.
Before(e) ==
    CASE e = "root"     -> {"root"}
      [] e = "source"   -> {"root", "restrict_root", "source"}
      [] e = "sentinel" -> {"root", "restrict_root", "source", "sentinel"}
      [] e = "link"     -> Creating
NotYet == \A e \in ProbeEntries : stage \in Before(e) => there[e] # "ours"

\* An uninterrupted creation hands everything it made to the cleanup.
Known ==
    /\ stage \in Creating =>
           /\ finding = "none" /\ errors = {} /\ ~refused
           /\ \A e \in {"source", "sentinel"} : stage \notin Before(e) => e \in known
    /\ stage \in CleaningUp => finding \in {"none", "aborted"}
    /\ stage \in CleaningUp /\ finding = "none" => known = {"source", "sentinel", "link"}
    /\ stage \in CleaningUp /\ refused => {"source", "sentinel"} \subseteq known /\ there["link"] # "ours"

\* The stages at which an entry has been dealt with.
Behind(e) ==
    CASE e = "link"     -> {"unsentinel", "unsource", "unroot", "conclude"}
      [] e = "sentinel" -> {"unsource", "unroot", "conclude"}
      [] e = "source"   -> {"unroot", "conclude"}
      [] e = "root"     -> {"conclude"}
Cleared ==
    \A e \in ProbeEntries :
        stage \in Behind(e) /\ e \in known \cup {"root"} /\ errors = {} => there[e] # "ours"

ProbeInv == ProbeTypes /\ NotYet /\ Known /\ Cleared /\ LeftoversAreReported

LEMMA ProbeEntryNames == ProbeEntries = {"root", "source", "sentinel", "link"}
BY DEF ProbeEntries, Directories

LEMMA ProbeInitEstablishes == ProbeInit => ProbeInv
<1> SUFFICES ASSUME ProbeInit PROVE ProbeInv
  OBVIOUS
<1> USE DEF ProbeInit, ProbeAt
<1>1. ProbeTypes
  BY DEF ProbeTypes, Creating
<1>2. NotYet /\ Cleared /\ LeftoversAreReported
  BY DEF NotYet, Cleared, LeftoversAreReported
<1>3. Known
  BY DEF Known, Creating, CleaningUp, Before
<1>. QED
  BY <1>1, <1>2, <1>3 DEF ProbeInv

\* Creation goes on: an entry may have appeared at the stage that creates it.
LEMMA ProceedPreserves ==
  ASSUME ProbeInv, stage \in Creating, stage' \in Creating, UNCHANGED <<refused, errors, finding>>,
         there' \in [ProbeEntries -> {"none", "ours", "foreign"}],
         known' \subseteq {"source", "sentinel", "link"},
         \A e \in ProbeEntries : stage' \in Before(e) => stage \in Before(e) /\ there'[e] = there[e],
         \A e \in {"source", "sentinel"} : stage' \notin Before(e) => e \in known'
  PROVE  ProbeInv'
<1> USE DEF ProbeInv
<1>1. ProbeTypes'
  BY DEF ProbeTypes
<1>2. NotYet'
  BY DEF NotYet
<1>3. Known'
  BY DEF Known, Creating, CleaningUp
<1>4. Cleared' /\ LeftoversAreReported'
  BY ProbeEntryNames DEF Cleared, Behind, LeftoversAreReported, Creating
<1>. QED
  BY <1>1, <1>2, <1>3, <1>4

\* Creation is given up: what a refused privilege means is decided by then.
LEMMA AbandonPreserves ==
  ASSUME ProbeInv, stage \in Creating, Abandon, UNCHANGED <<known, errors>>,
         there' \in [ProbeEntries -> {"none", "ours", "foreign"}], refused' \in BOOLEAN,
         refused' => stage = "link" /\ there' = there
  PROVE  ProbeInv'
<1> USE DEF ProbeInv, Abandon
<1>1. ProbeTypes'
  BY DEF ProbeTypes, CleaningUp
<1>2. NotYet'
  BY ProbeEntryNames DEF NotYet, Before, Creating
<1>3. Known'
  <2>1. refused' => {"source", "sentinel"} \subseteq known /\ there["link"] # "ours"
    BY ProbeEntryNames DEF Known, NotYet, Before, Creating
  <2>. QED
    BY <2>1 DEF Known, Creating, CleaningUp
<1>4. Cleared' /\ LeftoversAreReported'
  BY ProbeEntryNames DEF Cleared, Behind, LeftoversAreReported
<1>. QED
  BY <1>1, <1>2, <1>3, <1>4

LEMMA CreatePreserves ==
  ASSUME ProbeInv, CreateRoot \/ CreateSource \/ CreateSentinel \/ CreateLink
  PROVE  ProbeInv'
<1> USE ProbeEntryNames DEF Proceed, Appears
<1>0. /\ there \in [ProbeEntries -> {"none", "ours", "foreign"}] /\ refused \in BOOLEAN
      /\ known \subseteq {"source", "sentinel", "link"}
  BY DEF ProbeInv, ProbeTypes
<1>1. CASE CreateRoot
  <2>1. CASE Appears("root") /\ Proceed("restrict_root")
    BY <1>0, <1>1, <2>1, ProceedPreserves DEF CreateRoot, Creating, Before
  <2>2. CASE stage' = "over" /\ finding' = "FAIL"
    <3>1. there' \in [ProbeEntries -> {"none", "ours", "foreign"}]
      BY <1>0, <1>1 DEF CreateRoot
    <3>. QED
      BY <1>1, <2>2, <3>1 DEF CreateRoot, ProbeInv, ProbeTypes, NotYet, Before, Known, Creating, CleaningUp,
           Cleared, Behind, LeftoversAreReported
  <2>. QED
    BY <1>1, <2>1, <2>2 DEF CreateRoot
<1>2. CASE CreateSource
  <2>1. stage = "source" /\ stage \in Creating /\ UNCHANGED <<refused, errors>>
    BY <1>2 DEF CreateSource, Creating
  <2>2. there' \in [ProbeEntries -> {"none", "ours", "foreign"}]
    BY <1>0, <1>2 DEF CreateSource
  <2>3. CASE Appears("source") /\ known' = {"source"} /\ Proceed("sentinel")
    BY <2>1, <2>2, <2>3, ProceedPreserves DEF Creating, Before
  <2>4. CASE Abandon /\ UNCHANGED known
    <3>1. ~refused'
      BY <2>1 DEF ProbeInv, Known
    <3>. QED
      BY <1>0, <2>1, <2>2, <2>4, <3>1, AbandonPreserves
  <2>. QED
    BY <1>2, <2>3, <2>4 DEF CreateSource
<1>3. CASE CreateSentinel
  <2>1. stage = "sentinel" /\ stage \in Creating /\ UNCHANGED <<refused, errors>>
    BY <1>3 DEF CreateSentinel, Creating
  <2>2. there' \in [ProbeEntries -> {"none", "ours", "foreign"}]
    BY <1>0, <1>3 DEF CreateSentinel
  <2>3. CASE Appears("sentinel") /\ known' = known \cup {"sentinel"} /\ Proceed("write")
    <3>1. "source" \in known
      BY <2>1 DEF ProbeInv, Known, Before, Creating
    <3>. QED
      BY <1>0, <2>1, <2>2, <2>3, <3>1, ProceedPreserves DEF Creating, Before
  <2>4. CASE Abandon /\ UNCHANGED known
    <3>1. ~refused'
      BY <2>1 DEF ProbeInv, Known
    <3>. QED
      BY <1>0, <2>1, <2>2, <2>4, <3>1, AbandonPreserves
  <2>. QED
    BY <1>3, <2>3, <2>4 DEF CreateSentinel
<1>4. CASE CreateLink
  <2>1. stage = "link" /\ stage \in Creating /\ UNCHANGED errors
    BY <1>4 DEF CreateLink, Creating
  <2>2. there' \in [ProbeEntries -> {"none", "ours", "foreign"}]
    BY <1>0, <1>4 DEF CreateLink
  <2>3. ~refused /\ finding = "none" /\ errors = {} /\ {"source", "sentinel"} \subseteq known
    BY <2>1 DEF ProbeInv, Known, Before
  <2>4. CASE known' = known \cup {"link"} /\ Proceed("unlink") /\ UNCHANGED refused
    <3>1. known' = {"source", "sentinel", "link"}
      BY <1>0, <2>3, <2>4
    <3>2. ProbeTypes'
      BY <1>0, <2>1, <2>2, <2>3, <2>4, <3>1 DEF ProbeTypes, CleaningUp
    <3>. QED
      BY <2>1, <2>3, <2>4, <3>1, <3>2 DEF ProbeInv, NotYet, Before, Known, Creating, CleaningUp,
           Cleared, Behind, LeftoversAreReported
  <2>5. CASE Abandon /\ UNCHANGED known /\ refused' \in BOOLEAN /\ (refused' => there' = there)
    BY <1>0, <2>1, <2>2, <2>5, AbandonPreserves
  <2>6. CASE Abandon /\ UNCHANGED <<known, refused>>
    BY <1>0, <2>3, <2>5, <2>6
  <2>7. CASE Abandon /\ UNCHANGED <<known, there>> /\ refused' = (mode = "windows_symlink")
    <3>1. refused' \in BOOLEAN
      BY <2>7
    <3>. QED
      BY <2>5, <2>7, <3>1
  <2>. QED
    BY <1>4, <2>4, <2>6, <2>7 DEF CreateLink
<1>. QED
  BY <1>1, <1>2, <1>3, <1>4

LEMMA PrepareGoesOn ==
  ASSUME ProbeInv, WriteSentinel \/ Identify
                   \/ RestrictToOwner("restrict_root", "root", "source")
                   \/ RestrictToOwner("restrict_sentinel", "sentinel", "identify")
  PROVE  ProbeInv'
<1> USE ProbeEntryNames DEF Proceed
<1>1. /\ there \in [ProbeEntries -> {"none", "ours", "foreign"}] /\ refused \in BOOLEAN
      /\ known \subseteq {"source", "sentinel", "link"}
  BY DEF ProbeInv, ProbeTypes
<1>2. stage \in {"write", "identify", "restrict_root", "restrict_sentinel"} /\ stage \in Creating
  BY DEF WriteSentinel, Identify, RestrictToOwner, Creating
<1>3. UNCHANGED <<there, known, refused, errors>>
  BY DEF WriteSentinel, Identify, RestrictToOwner
<1>4. ~refused
  BY <1>2 DEF ProbeInv, Known
<1>5. CASE Abandon
  BY <1>1, <1>2, <1>3, <1>4, <1>5, AbandonPreserves
<1>6. CASE ~Abandon
  <2>1. /\ UNCHANGED finding
        /\ stage' = CASE stage = "write" -> "restrict_sentinel"
                      [] stage = "identify" -> "link"
                      [] stage = "restrict_root" -> "source"
                      [] stage = "restrict_sentinel" -> "identify"
    BY <1>6 DEF WriteSentinel, Identify, RestrictToOwner
  <2>2. \A e \in {"source", "sentinel"} : stage \notin Before(e) => e \in known
    BY <1>2 DEF ProbeInv, Known
  <2>3. stage' \in Creating
    BY <1>2, <2>1 DEF Creating
  <2>4. \A e \in ProbeEntries : stage' \in Before(e) => stage \in Before(e)
    BY <1>2, <2>1 DEF Before, Creating
  <2>5. \A e \in {"source", "sentinel"} : stage' \notin Before(e) => e \in known'
    BY <1>2, <1>3, <2>1, <2>2 DEF Before, Creating
  <2>. QED
    BY <1>1, <1>2, <1>3, <2>1, <2>3, <2>4, <2>5, ProceedPreserves
<1>. QED
  BY <1>5, <1>6

\* One entry is dealt with: it is not ours any more, or the cleanup complains.
LEMMA CleanupPreserves ==
  ASSUME ProbeInv, NEW e \in ProbeEntries, stage \in CleaningUp, stage' \in CleaningUp,
         UNCHANGED <<known, refused, finding>>,
         \/ UNCHANGED <<there, errors>> /\ (e \in known \cup {"root"} => there[e] # "ours")
         \/ there' = [there EXCEPT ![e] = "none"] /\ UNCHANGED errors
         \/ UNCHANGED there /\ errors' = errors \cup {e},
         \A f \in ProbeEntries : stage' \in Behind(f) => f = e \/ stage \in Behind(f)
  PROVE  ProbeInv'
<1> USE DEF ProbeInv
<1>1. there \in [ProbeEntries -> {"none", "ours", "foreign"}]
  BY DEF ProbeTypes
<1>2. there' \in [ProbeEntries -> {"none", "ours", "foreign"}]
  BY <1>1
<1>3. ProbeTypes'
  BY <1>2 DEF ProbeTypes
<1>4. \A f \in ProbeEntries : there'[f] = "ours" => there[f] = "ours"
  BY <1>1
<1>5. NotYet' /\ LeftoversAreReported'
  BY ProbeEntryNames DEF NotYet, Before, LeftoversAreReported, CleaningUp, Creating
<1>6. Known'
  BY <1>4, ProbeEntryNames DEF Known, Creating, CleaningUp
<1>7. Cleared'
  <2> SUFFICES ASSUME NEW f \in ProbeEntries, stage' \in Behind(f), f \in known \cup {"root"}, errors' = {}
               PROVE  there'[f] # "ours"
    BY DEF Cleared
  <2>1. errors = {}
    OBVIOUS
  <2>2. CASE f = e
    BY <1>1, <2>2
  <2>3. CASE f # e
    BY <1>4, <2>1, <2>3 DEF Cleared
  <2>. QED
    BY <2>2, <2>3
<1>. QED
  BY <1>3, <1>5, <1>6, <1>7

LEMMA CleanupStepPreserves ==
  ASSUME ProbeInv,
         \/ CleanupStep("unlink", "unsentinel", "link", RemovesLink)
         \/ CleanupStep("unsentinel", "unsource", "sentinel", RemovesSentinel)
         \/ CleanupStep("unsource", "unroot", "source", RemovesDirectory("source"))
         \/ CleanupStep("unroot", "conclude", "root", RemovesDirectory("root"))
  PROVE  ProbeInv'
<1> DEFINE Deals(e) ==
      /\ UNCHANGED <<known, refused, finding>>
      /\ \/ UNCHANGED <<there, errors>> /\ (e \in known \cup {"root"} => there[e] # "ours")
         \/ there' = [there EXCEPT ![e] = "none"] /\ UNCHANGED errors
         \/ UNCHANGED there /\ errors' = errors \cup {e}
<1> USE ProbeEntryNames DEF Forgives, Complain, Vanishes
<1>1. CASE CleanupStep("unlink", "unsentinel", "link", RemovesLink)
  <2>1. Deals("link") /\ stage = "unlink" /\ stage' = "unsentinel"
    BY <1>1 DEF CleanupStep, RemovesLink
  <2>. QED
    BY <2>1, CleanupPreserves DEF CleaningUp, Behind
<1>2. CASE CleanupStep("unsentinel", "unsource", "sentinel", RemovesSentinel)
  <2>1. Deals("sentinel") /\ stage = "unsentinel" /\ stage' = "unsource"
    BY <1>2 DEF CleanupStep, RemovesSentinel
  <2>. QED
    BY <2>1, CleanupPreserves DEF CleaningUp, Behind
<1>3. CASE CleanupStep("unsource", "unroot", "source", RemovesDirectory("source"))
  <2>1. Deals("source") /\ stage = "unsource" /\ stage' = "unroot"
    BY <1>3 DEF CleanupStep, RemovesDirectory
  <2>. QED
    BY <2>1, CleanupPreserves DEF CleaningUp, Behind
<1>4. CASE CleanupStep("unroot", "conclude", "root", RemovesDirectory("root"))
  <2>1. Deals("root") /\ stage = "unroot" /\ stage' = "conclude"
    BY <1>4 DEF CleanupStep, RemovesDirectory
  <2>. QED
    BY <2>1, CleanupPreserves DEF CleaningUp, Behind
<1>. QED
  BY <1>1, <1>2, <1>3, <1>4

\* What is reported follows from what is known to be gone.
LEMMA ConcludePreserves == ProbeInv /\ Conclude => ProbeInv'
<1> SUFFICES ASSUME ProbeInv, Conclude PROVE ProbeInv'
  OBVIOUS
<1> USE DEF ProbeInv, Conclude
<1>1. finding' \in {"PASS", "WARN", "FAIL"}
  BY DEF Severity
<1>2. ProbeTypes'
  BY <1>1 DEF ProbeTypes
<1>3. NotYet' /\ Known' /\ Cleared'
  BY ProbeEntryNames DEF NotYet, Before, Known, Creating, CleaningUp, Cleared, Behind
<1>4. LeftoversAreReported'
  <2> SUFFICES ASSUME finding' \in {"PASS", "WARN"}, NEW e \in ProbeEntries PROVE there[e] # "ours"
    BY DEF LeftoversAreReported
  <2>1. errors = {} /\ (finding = "none" \/ refused)
    BY DEF Severity
  <2>2. CASE e \in known \cup {"root"}
    BY <2>1, <2>2, ProbeEntryNames DEF Cleared, Behind
  <2>3. CASE e \notin known \cup {"root"}
    BY <2>1, <2>3, ProbeEntryNames DEF Known, CleaningUp
  <2>. QED
    BY <2>2, <2>3
<1>. QED
  BY <1>2, <1>3, <1>4

\* Nothing another program does makes an entry ours.
LEMMA MeddlingPreserves ==
  ASSUME ProbeInv,
         \/ \E e \in ProbeEntries : Deletes(e)
         \/ \E e \in ProbeEntries \ {"root"} : Occupies(e)
         \/ EditsSentinel
         \/ \E d \in Directories : Litters(d)
  PROVE  ProbeInv'
<1>1. stage # "over" /\ UNCHANGED <<stage, known, refused, errors, finding>>
  BY DEF Deletes, Occupies, EditsSentinel, Litters, Meddles
<1>2. there \in [ProbeEntries -> {"none", "ours", "foreign"}]
  BY DEF ProbeInv, ProbeTypes
<1>3. /\ there' \in [ProbeEntries -> {"none", "ours", "foreign"}]
      /\ \A e \in ProbeEntries : there'[e] = "ours" => there[e] = "ours"
  <2>1. \/ \E e \in ProbeEntries : there' = [there EXCEPT ![e] = "none"]
        \/ \E e \in ProbeEntries : there' = [there EXCEPT ![e] = "foreign"]
        \/ there' = there
    BY DEF Deletes, Vanishes, Occupies, EditsSentinel, Litters
  <2>. QED
    BY <1>2, <2>1
<1>4. ProbeTypes' /\ NotYet'
  BY <1>1, <1>3 DEF ProbeInv, ProbeTypes, NotYet
<1>5. Known'
  BY <1>1, <1>3, ProbeEntryNames DEF ProbeInv, Known
<1>6. Cleared' /\ LeftoversAreReported'
  BY <1>1, <1>3 DEF ProbeInv, Cleared, LeftoversAreReported
<1>. QED
  BY <1>4, <1>5, <1>6 DEF ProbeInv

LEMMA ProbeNextPreserves == ProbeInv /\ [ProbeNext]_probeVars => ProbeInv'
<1> SUFFICES ASSUME ProbeInv, [ProbeNext]_probeVars PROVE ProbeInv'
  OBVIOUS
<1>1. CASE CreateRoot \/ CreateSource \/ CreateSentinel \/ CreateLink
  BY <1>1, CreatePreserves
<1>2. CASE \/ WriteSentinel \/ Identify
           \/ RestrictToOwner("restrict_root", "root", "source")
           \/ RestrictToOwner("restrict_sentinel", "sentinel", "identify")
  BY <1>2, PrepareGoesOn
<1>3. CASE \/ CleanupStep("unlink", "unsentinel", "link", RemovesLink)
           \/ CleanupStep("unsentinel", "unsource", "sentinel", RemovesSentinel)
           \/ CleanupStep("unsource", "unroot", "source", RemovesDirectory("source"))
           \/ CleanupStep("unroot", "conclude", "root", RemovesDirectory("root"))
  BY <1>3, CleanupStepPreserves
<1>4. CASE Conclude
  BY <1>4, ConcludePreserves
<1>5. CASE \/ \E e \in ProbeEntries : Deletes(e)
           \/ \E e \in ProbeEntries \ {"root"} : Occupies(e)
           \/ EditsSentinel
           \/ \E d \in Directories : Litters(d)
  BY <1>5, MeddlingPreserves
<1>6. CASE UNCHANGED probeVars
  BY <1>6 DEF probeVars, ProbeInv, ProbeTypes, NotYet, Known, Cleared, LeftoversAreReported
<1>. QED
  BY <1>1, <1>2, <1>3, <1>4, <1>5, <1>6 DEF ProbeNext

\* A pass or a warning is never reported over an entry of the probe's own, whichever
\* calls fail and whatever other programs do (doctor.rs, cleanup_probe).
THEOREM NothingIsLeftUnreported == ProbeSpec => []LeftoversAreReported
<1>1. ProbeInv => LeftoversAreReported
  BY DEF ProbeInv
<1>. QED
  BY <1>1, ProbeInitEstablishes, ProbeNextPreserves, PTL DEF ProbeSpec
=============================================================================
