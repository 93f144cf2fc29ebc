------------------------- MODULE Transaction_proofs -------------------------
(***************************************************************************)
(* Theorems about Transaction, for every plan, every set of bounds and     *)
(* both kinds of platform.                                                 *)
(***************************************************************************)
EXTENDS TransactionRefinesOwnership, TLAPS

-----------------------------------------------------------------------------
(* Lemmas about the journal and about what a durable write leaves.         *)

LEMMA NewJournalType == NewJournal \in Journal
BY FlagAssumption DEF NewJournal, Journal, TransactionStatus, ActionStatus

LEMMA WithStatusType ==
  ASSUME NEW j \in Journal, NEW s \in TransactionStatus
  PROVE  /\ WithStatus(j, s) \in Journal
         /\ WithStatus(j, s).status = s
         /\ WithStatus(j, s).keep = j.keep
         /\ WithStatus(j, s).st = j.st
         /\ WithStatus(j, s).ev = j.ev
BY DEF WithStatus, Journal

LEMMA WithActionType ==
  ASSUME NEW j \in Journal, NEW a \in Actions, NEW s \in ActionStatus
  PROVE  /\ WithAction(j, a, s) \in Journal
         /\ WithAction(j, a, s).status = j.status
         /\ WithAction(j, a, s).keep = j.keep
         /\ WithAction(j, a, s).st[a] = s
         /\ \A b \in Actions : b # a => WithAction(j, a, s).st[b] = j.st[b]
         /\ WithAction(j, a, s).ev = j.ev
BY DEF WithAction, Journal

LEMMA WithEvidenceType ==
  ASSUME NEW j \in Journal, NEW a \in Actions
  PROVE  /\ WithEvidence(j, a) \in Journal
         /\ WithEvidence(j, a).status = j.status
         /\ WithEvidence(j, a).keep = j.keep
         /\ WithEvidence(j, a).st = j.st
         /\ WithEvidence(j, a).ev[a]
BY DEF WithEvidence, Journal

LEMMA WithoutKeepType ==
  ASSUME NEW j \in Journal
  PROVE  /\ WithoutKeep(j) \in Journal
         /\ WithoutKeep(j).status = j.status
         /\ ~WithoutKeep(j).keep
         /\ WithoutKeep(j).st = j.st
         /\ WithoutKeep(j).ev = j.ev
BY DEF WithoutKeep, Journal

\* Nothing below looks inside the journal operators again.
LEMMA StatusTypes ==
  /\ {"planned", "applying", "active", "supervising", "cleaning", "completed",
      "kept", "failed"} \subseteq TransactionStatus
  /\ {"intent", "staged", "applied", "rolled_back"} \subseteq ActionStatus
BY DEF TransactionStatus, ActionStatus

-----------------------------------------------------------------------------
(* Type correctness.                                                       *)

\* Where `cur` names an action: everywhere but before the first action and
\* after the last candidate.
AtAction == {"check", "create", "stage", "place", "rename", "confirm",
             "scan", "unlink", "settle"}
CurInRange == pc \in AtAction => cur \in Actions
TypeInv == TypeOK /\ CurInRange

\* TypeOK in five parts: the Boolean variables, the two journals, the labels of
\* the process, the numbers, and the entries with the history kept about them.
FlagsOK ==
    /\ onDisk \in BOOLEAN /\ left \in BOOLEAN /\ gone \in BOOLEAN
    /\ operator \in BOOLEAN /\ raced \in BOOLEAN
JournalsOK == disk \in Journal /\ mem \in Journal
LabelsOK ==
    /\ pc \in {"idle", "open", "begin", "check", "create", "stage", "place",
               "rename", "confirm", "activate", "boundary", "supervise",
               "announce", "spawn", "wait", "clean", "keep", "reconcile",
               "scan", "unlink", "settle", "fail", "complete", "retire"}
    /\ mode \in {"session", "rollback", "automatic", "explicit"}
    /\ cand \in Candidates
    /\ residue \in [Actions -> {"none"} \cup Candidates]
    /\ unresolved \subseteq Actions
CountersOK ==
    /\ cur \in 0..N /\ crashes \in 0..MaxCrashes
    /\ faults \in 0..MaxFaults /\ meddling \in 0..MaxMeddling
EntriesOK ==
    /\ loc \in [Actions -> Places]
    /\ foreign \subseteq Slots /\ edited \subseteq Actions
    /\ child \in {"none", "alive", "dead"}
    /\ accepted \subseteq Actions

LEMMA TypeParts ==
  TypeOK <=> FlagsOK /\ JournalsOK /\ LabelsOK /\ CountersOK /\ EntriesOK
BY DEF TypeOK, FlagsOK, JournalsOK, LabelsOK, CountersOK, EntriesOK

LEMMA InitType == Init => TypeInv
<1>. SUFFICES ASSUME Init PROVE TypeInv
  OBVIOUS
<1>1. FlagsOK
  BY Zenon DEF Init, FlagsOK
<1>2. JournalsOK
  BY NewJournalType DEF Init, JournalsOK
<1>3. LabelsOK
  BY DEF Init, LabelsOK, NoResidue, Candidates
<1>6. CountersOK
  BY NAssumption, BoundAssumption DEF Init, CountersOK
<1>4. EntriesOK
  BY DEF Init, EntriesOK, Candidates, Places, Slots, Created
<1>5. CurInRange
  BY DEF Init, CurInRange, AtAction
<1>. QED  BY <1>1, <1>2, <1>3, <1>4, <1>5, <1>6, TypeParts DEF TypeInv

LEMMA FlagsStep == FlagsOK /\ [Next]_vars => FlagsOK'
<1>. SUFFICES ASSUME FlagsOK, [Next]_vars PROVE FlagsOK'
  OBVIOUS
<1>. USE DEF FlagsOK, vars, procVars, diskVars, fsVars, history, budget, At,
             Exit, Reconciling, RollBack, ActionDone, Persists, PersistFails,
             CleanupRequired, NextCandidate, Adopt, Meddles
<1>1. CASE Open
  BY <1>1, Zenon DEF Open
<1>2. CASE BeginApply
  BY <1>2, Zenon DEF BeginApply
<1>3. CASE ConfirmReuse
  BY <1>3, Zenon DEF ConfirmReuse
<1>4. CASE Drift
  BY <1>4, Zenon DEF Drift
<1>5. CASE Intent
  BY <1>5, Zenon DEF Intent
<1>6. CASE CreateStaged
  BY <1>6, Zenon DEF CreateStaged
<1>7. CASE CreateFails
  BY <1>7, Zenon DEF CreateFails
<1>8. CASE Stage
  BY <1>8, Zenon DEF Stage
<1>9. CASE VerifyStaged
  BY <1>9, Zenon DEF VerifyStaged
<1>10. CASE RenameNoReplace
  BY <1>10, Zenon DEF RenameNoReplace
<1>11. CASE RenameFails
  BY <1>11, Zenon DEF RenameFails
<1>12. CASE ConfirmPlaced
  BY <1>12, Zenon DEF ConfirmPlaced
<1>13. CASE PlacementFailure
  BY <1>13, Zenon DEF PlacementFailure
<1>14. CASE Activate
  BY <1>14, Zenon DEF Activate
<1>15. CASE SpawnBoundary
  BY <1>15, Zenon DEF SpawnBoundary
<1>16. CASE BeginSupervision
  BY <1>16, Zenon DEF BeginSupervision
<1>17. CASE EmitDiagnostics
  BY <1>17, Zenon DEF EmitDiagnostics
<1>18. CASE Spawn
  BY <1>18, Zenon DEF Spawn
<1>19. CASE ChildProvenDead
  BY <1>19, Zenon DEF ChildProvenDead
<1>20. CASE LivenessUncertain
  BY <1>20, Zenon DEF LivenessUncertain
<1>21. CASE BeginCleanup
  BY <1>21, Zenon DEF BeginCleanup
<1>22. CASE Keep
  BY <1>22, Zenon DEF Keep
<1>23. CASE SkipAction
  BY <1>23, Zenon DEF SkipAction
<1>24. CASE ClearAction
  BY <1>24, Zenon DEF ClearAction
<1>25. CASE ScanCandidate
  BY <1>25, Zenon DEF ScanCandidate
<1>26. CASE VerifyForRemoval
  BY <1>26, Zenon DEF VerifyForRemoval
<1>27. CASE Unlink
  BY <1>27, Zenon DEF Unlink
<1>28. CASE UnlinkFails
  BY <1>28, Zenon DEF UnlinkFails
<1>29. CASE Settle
  BY <1>29, Zenon DEF Settle
<1>30. CASE SettleAborts
  BY <1>30, Zenon DEF SettleAborts
<1>31. CASE LeaveUnresolved
  BY <1>31, Zenon DEF LeaveUnresolved
<1>32. CASE PassEnds
  BY <1>32, Zenon DEF PassEnds
<1>33. CASE RecordFailure
  BY <1>33, Zenon DEF RecordFailure
<1>34. CASE Complete
  BY <1>34, Zenon DEF Complete
<1>35. CASE Retire
  BY <1>35, Zenon DEF Retire
<1>36. CASE Recover
  BY <1>36, Zenon DEF Recover
<1>37. CASE CleanupExplicit
  BY <1>37, Zenon DEF CleanupExplicit
<1>38. CASE Crash
  BY <1>38, Zenon DEF Crash
<1>39. CASE ChildExits
  BY <1>39, Zenon DEF ChildExits
<1>40. ASSUME NEW a \in Created, NEW p \in Candidates, Occupy(a, p)
     PROVE  FlagsOK'
  BY <1>40, Zenon DEF Occupy
<1>41. ASSUME NEW a \in Created, NEW p \in Candidates, MoveBack(a, p)
     PROVE  FlagsOK'
  BY <1>41, Zenon DEF MoveBack
<1>42. ASSUME NEW a \in Created, Litter(a)
     PROVE  FlagsOK'
  BY <1>42, Zenon DEF Litter
<1>43. ASSUME NEW a \in Created, MoveAway(a)
     PROVE  FlagsOK'
  BY <1>43, Zenon DEF MoveAway
<1>44. ASSUME NEW a \in Created, Destroy(a)
     PROVE  FlagsOK'
  BY <1>44, Zenon DEF Destroy
<1>45. ASSUME NEW a \in Created, Edit(a)
     PROVE  FlagsOK'
  BY <1>45, Zenon DEF Edit
<1>46. ASSUME NEW s \in Slots, Vacate(s)
     PROVE  FlagsOK'
  BY <1>46, Zenon DEF Vacate
<1>47. CASE UNCHANGED vars
  BY <1>47, Zenon
<1>. QED
  BY <1>1, <1>2, <1>3, <1>4, <1>5, <1>6, <1>7, <1>8, <1>9, <1>10, <1>11, <1>12,
     <1>13, <1>14, <1>15, <1>16, <1>17, <1>18, <1>19, <1>20, <1>21, <1>22,
     <1>23, <1>24, <1>25, <1>26, <1>27, <1>28, <1>29, <1>30, <1>31, <1>32,
     <1>33, <1>34, <1>35, <1>36, <1>37, <1>38, <1>39, <1>40, <1>41, <1>42,
     <1>43, <1>44, <1>45, <1>46, <1>47
  DEF Next, Process, Apply, Supervise, Cleanup, OtherPrograms

LEMMA JournalStep == TypeInv /\ [Next]_vars => JournalsOK'
<1>. SUFFICES ASSUME JournalsOK, CurInRange, [Next]_vars PROVE JournalsOK'
  BY TypeParts DEF TypeInv
<1>. USE DEF JournalsOK, CurInRange, AtAction, vars, procVars, diskVars, fsVars, history,
         budget, At, Exit, Reconciling, RollBack, ActionDone, CleanupRequired,
         NextCandidate, Adopt, Meddles, Persists, PersistFails
<1>1. CASE Open
  BY <1>1, NewJournalType DEF Open
<1>2. CASE BeginApply
  <2>1. WithStatus(mem, "applying") \in Journal
    BY WithStatusType, StatusTypes DEF JournalsOK
  <2>. QED  BY <1>2, <2>1, NewJournalType DEF BeginApply
<1>3. CASE ConfirmReuse
  BY <1>3 DEF ConfirmReuse
<1>4. CASE Drift
  BY <1>4 DEF Drift
<1>5. CASE Intent
  BY <1>5, WithActionType, StatusTypes DEF Intent
<1>6. CASE CreateStaged
  BY <1>6, WithEvidenceType DEF CreateStaged
<1>7. CASE CreateFails
  BY <1>7 DEF CreateFails
<1>8. CASE Stage
  BY <1>8, WithActionType, StatusTypes DEF Stage
<1>9. CASE VerifyStaged
  BY <1>9 DEF VerifyStaged
<1>10. CASE RenameNoReplace
  BY <1>10 DEF RenameNoReplace
<1>11. CASE RenameFails
  BY <1>11 DEF RenameFails
<1>12. CASE ConfirmPlaced
  BY <1>12, WithActionType, StatusTypes DEF ConfirmPlaced
<1>13. CASE PlacementFailure
  BY <1>13 DEF PlacementFailure
<1>14. CASE Activate
  BY <1>14, WithStatusType, StatusTypes DEF Activate
<1>15. CASE SpawnBoundary
  BY <1>15, WithoutKeepType DEF SpawnBoundary
<1>16. CASE BeginSupervision
  <2>1. WithStatus(mem, "supervising") \in Journal
    BY WithStatusType, StatusTypes DEF JournalsOK
  <2>. QED  BY <1>16, <2>1, WithoutKeepType DEF BeginSupervision
<1>17. CASE EmitDiagnostics
  BY <1>17, WithoutKeepType DEF EmitDiagnostics
<1>18. CASE Spawn
  BY <1>18 DEF Spawn
<1>19. CASE ChildProvenDead
  BY <1>19 DEF ChildProvenDead
<1>20. CASE LivenessUncertain
  BY <1>20, NewJournalType DEF LivenessUncertain
<1>21. CASE BeginCleanup
  <2>1. WithStatus(mem, "cleaning") \in Journal
    BY WithStatusType, StatusTypes DEF JournalsOK
  <2>. QED  BY <1>21, <2>1, NewJournalType DEF BeginCleanup
<1>22. CASE Keep
  <2>1. WithStatus(mem, "kept") \in Journal
    BY WithStatusType, StatusTypes DEF JournalsOK
  <2>. QED  BY <1>22, <2>1, NewJournalType DEF Keep
<1>23. CASE SkipAction
  BY <1>23 DEF SkipAction
<1>24. CASE ClearAction
  BY <1>24 DEF ClearAction
<1>25. CASE ScanCandidate
  BY <1>25 DEF ScanCandidate
<1>26. CASE VerifyForRemoval
  BY <1>26 DEF VerifyForRemoval
<1>27. CASE Unlink
  BY <1>27 DEF Unlink
<1>28. CASE UnlinkFails
  BY <1>28 DEF UnlinkFails
<1>29. CASE Settle
  BY <1>29, WithActionType, StatusTypes DEF Settle
<1>30. CASE SettleAborts
  BY <1>30, NewJournalType, WithActionType, StatusTypes DEF SettleAborts
<1>31. CASE LeaveUnresolved
  BY <1>31 DEF LeaveUnresolved
<1>32. CASE PassEnds
  BY <1>32 DEF PassEnds
<1>33. CASE RecordFailure
  <2>1. WithStatus(mem, "failed") \in Journal
    BY WithStatusType, StatusTypes DEF JournalsOK
  <2>. QED  BY <1>33, <2>1, NewJournalType DEF RecordFailure
<1>34. CASE Complete
  <2>1. WithStatus(mem, "completed") \in Journal
    BY WithStatusType, StatusTypes DEF JournalsOK
  <2>. QED  BY <1>34, <2>1, NewJournalType DEF Complete
<1>35. CASE Retire
  BY <1>35, NewJournalType DEF Retire
<1>36. CASE Recover
  BY <1>36, WithoutKeepType DEF Recover
<1>37. CASE CleanupExplicit
  BY <1>37, WithoutKeepType DEF CleanupExplicit
<1>38. CASE Crash
  BY <1>38, NewJournalType DEF Crash
<1>39. CASE ChildExits
  BY <1>39 DEF ChildExits
<1>40. ASSUME NEW a \in Created, NEW p \in Candidates, Occupy(a, p)
     PROVE  JournalsOK'
  BY <1>40 DEF Occupy
<1>41. ASSUME NEW a \in Created, NEW p \in Candidates, MoveBack(a, p)
     PROVE  JournalsOK'
  BY <1>41 DEF MoveBack
<1>42. ASSUME NEW a \in Created, Litter(a)
     PROVE  JournalsOK'
  BY <1>42 DEF Litter
<1>43. ASSUME NEW a \in Created, MoveAway(a)
     PROVE  JournalsOK'
  BY <1>43 DEF MoveAway
<1>44. ASSUME NEW a \in Created, Destroy(a)
     PROVE  JournalsOK'
  BY <1>44 DEF Destroy
<1>45. ASSUME NEW a \in Created, Edit(a)
     PROVE  JournalsOK'
  BY <1>45 DEF Edit
<1>46. ASSUME NEW s \in Slots, Vacate(s)
     PROVE  JournalsOK'
  BY <1>46 DEF Vacate
<1>47. CASE UNCHANGED vars
  BY <1>47
<1>. QED
  BY <1>1, <1>2, <1>3, <1>4, <1>5, <1>6, <1>7, <1>8, <1>9, <1>10, <1>11, <1>12,
     <1>13, <1>14, <1>15, <1>16, <1>17, <1>18, <1>19, <1>20, <1>21, <1>22,
     <1>23, <1>24, <1>25, <1>26, <1>27, <1>28, <1>29, <1>30, <1>31, <1>32,
     <1>33, <1>34, <1>35, <1>36, <1>37, <1>38, <1>39, <1>40, <1>41, <1>42,
     <1>43, <1>44, <1>45, <1>46, <1>47
  DEF Next, Process, Apply, Supervise, Cleanup, OtherPrograms

LEMMA LabelsStep == TypeInv /\ [Next]_vars => LabelsOK'
<1>. SUFFICES ASSUME LabelsOK, CurInRange, [Next]_vars PROVE LabelsOK'
  BY TypeParts DEF TypeInv
<1>. USE DEF LabelsOK, CurInRange, AtAction, Candidates, NoResidue, vars, procVars,
         diskVars, fsVars, history, budget, At, Exit, Reconciling, RollBack,
         ActionDone, CleanupRequired, NextCandidate, Adopt, Meddles
<1>1. CASE Open
  BY <1>1 DEF Open
<1>2. CASE BeginApply
  BY <1>2 DEF BeginApply
<1>3. CASE ConfirmReuse
  BY <1>3 DEF ConfirmReuse
<1>4. CASE Drift
  BY <1>4 DEF Drift
<1>5. CASE Intent
  BY <1>5 DEF Intent
<1>6. CASE CreateStaged
  BY <1>6 DEF CreateStaged
<1>7. CASE CreateFails
  BY <1>7 DEF CreateFails
<1>8. CASE Stage
  BY <1>8 DEF Stage
<1>9. CASE VerifyStaged
  BY <1>9 DEF VerifyStaged
<1>10. CASE RenameNoReplace
  BY <1>10 DEF RenameNoReplace
<1>11. CASE RenameFails
  BY <1>11 DEF RenameFails
<1>12. CASE ConfirmPlaced
  BY <1>12 DEF ConfirmPlaced
<1>13. CASE PlacementFailure
  BY <1>13 DEF PlacementFailure
<1>14. CASE Activate
  BY <1>14 DEF Activate
<1>15. CASE SpawnBoundary
  BY <1>15 DEF SpawnBoundary
<1>16. CASE BeginSupervision
  BY <1>16 DEF BeginSupervision
<1>17. CASE EmitDiagnostics
  BY <1>17 DEF EmitDiagnostics
<1>18. CASE Spawn
  BY <1>18 DEF Spawn
<1>19. CASE ChildProvenDead
  BY <1>19 DEF ChildProvenDead
<1>20. CASE LivenessUncertain
  BY <1>20 DEF LivenessUncertain
<1>21. CASE BeginCleanup
  BY <1>21 DEF BeginCleanup
<1>22. CASE Keep
  BY <1>22 DEF Keep
<1>23. CASE SkipAction
  BY <1>23 DEF SkipAction
<1>24. CASE ClearAction
  BY <1>24 DEF ClearAction
<1>25. CASE ScanCandidate
  BY <1>25 DEF ScanCandidate
<1>26. CASE VerifyForRemoval
  BY <1>26 DEF VerifyForRemoval
<1>27. CASE Unlink
  BY <1>27 DEF Unlink
<1>28. CASE UnlinkFails
  BY <1>28 DEF UnlinkFails
<1>29. CASE Settle
  BY <1>29 DEF Settle
<1>30. CASE SettleAborts
  BY <1>30 DEF SettleAborts
<1>31. CASE LeaveUnresolved
  BY <1>31 DEF LeaveUnresolved
<1>32. CASE PassEnds
  BY <1>32 DEF PassEnds
<1>33. CASE RecordFailure
  BY <1>33 DEF RecordFailure
<1>34. CASE Complete
  BY <1>34 DEF Complete
<1>35. CASE Retire
  BY <1>35 DEF Retire
<1>36. CASE Recover
  BY <1>36 DEF Recover
<1>37. CASE CleanupExplicit
  BY <1>37 DEF CleanupExplicit
<1>38. CASE Crash
  BY <1>38 DEF Crash
<1>39. CASE ChildExits
  BY <1>39 DEF ChildExits
<1>40. ASSUME NEW a \in Created, NEW p \in Candidates, Occupy(a, p)
     PROVE  LabelsOK'
  BY <1>40 DEF Occupy
<1>41. ASSUME NEW a \in Created, NEW p \in Candidates, MoveBack(a, p)
     PROVE  LabelsOK'
  BY <1>41 DEF MoveBack
<1>42. ASSUME NEW a \in Created, Litter(a)
     PROVE  LabelsOK'
  BY <1>42 DEF Litter
<1>43. ASSUME NEW a \in Created, MoveAway(a)
     PROVE  LabelsOK'
  BY <1>43 DEF MoveAway
<1>44. ASSUME NEW a \in Created, Destroy(a)
     PROVE  LabelsOK'
  BY <1>44 DEF Destroy
<1>45. ASSUME NEW a \in Created, Edit(a)
     PROVE  LabelsOK'
  BY <1>45 DEF Edit
<1>46. ASSUME NEW s \in Slots, Vacate(s)
     PROVE  LabelsOK'
  BY <1>46 DEF Vacate
<1>47. CASE UNCHANGED vars
  BY <1>47
<1>. QED
  BY <1>1, <1>2, <1>3, <1>4, <1>5, <1>6, <1>7, <1>8, <1>9, <1>10, <1>11, <1>12,
     <1>13, <1>14, <1>15, <1>16, <1>17, <1>18, <1>19, <1>20, <1>21, <1>22,
     <1>23, <1>24, <1>25, <1>26, <1>27, <1>28, <1>29, <1>30, <1>31, <1>32,
     <1>33, <1>34, <1>35, <1>36, <1>37, <1>38, <1>39, <1>40, <1>41, <1>42,
     <1>43, <1>44, <1>45, <1>46, <1>47
  DEF Next, Process, Apply, Supervise, Cleanup, OtherPrograms

LEMMA CountersStep == TypeInv /\ [Next]_vars => CountersOK'
<1>. SUFFICES ASSUME CountersOK, CurInRange, [Next]_vars PROVE CountersOK'
  BY TypeParts DEF TypeInv
<1>. USE BoundAssumption, NAssumption
     DEF CountersOK, CurInRange, AtAction, Actions, vars, procVars, diskVars, fsVars,
         history, budget, At, Exit, Reconciling, RollBack, ActionDone,
         CleanupRequired, NextCandidate, Adopt, Meddles, Persists,
         PersistFails, Fails
<1>1. CASE Open
  BY <1>1 DEF Open
<1>2. CASE BeginApply
  BY <1>2 DEF BeginApply
<1>3. CASE ConfirmReuse
  BY <1>3 DEF ConfirmReuse
<1>4. CASE Drift
  BY <1>4 DEF Drift
<1>5. CASE Intent
  BY <1>5 DEF Intent
<1>6. CASE CreateStaged
  BY <1>6 DEF CreateStaged
<1>7. CASE CreateFails
  BY <1>7 DEF CreateFails
<1>8. CASE Stage
  BY <1>8 DEF Stage
<1>9. CASE VerifyStaged
  BY <1>9 DEF VerifyStaged
<1>10. CASE RenameNoReplace
  BY <1>10 DEF RenameNoReplace
<1>11. CASE RenameFails
  BY <1>11 DEF RenameFails
<1>12. CASE ConfirmPlaced
  BY <1>12 DEF ConfirmPlaced
<1>13. CASE PlacementFailure
  BY <1>13 DEF PlacementFailure
<1>14. CASE Activate
  BY <1>14 DEF Activate
<1>15. CASE SpawnBoundary
  BY <1>15 DEF SpawnBoundary
<1>16. CASE BeginSupervision
  BY <1>16 DEF BeginSupervision
<1>17. CASE EmitDiagnostics
  BY <1>17 DEF EmitDiagnostics
<1>18. CASE Spawn
  BY <1>18 DEF Spawn
<1>19. CASE ChildProvenDead
  BY <1>19 DEF ChildProvenDead
<1>20. CASE LivenessUncertain
  BY <1>20 DEF LivenessUncertain
<1>21. CASE BeginCleanup
  BY <1>21 DEF BeginCleanup
<1>22. CASE Keep
  BY <1>22 DEF Keep
<1>23. CASE SkipAction
  BY <1>23 DEF SkipAction
<1>24. CASE ClearAction
  BY <1>24 DEF ClearAction
<1>25. CASE ScanCandidate
  BY <1>25 DEF ScanCandidate
<1>26. CASE VerifyForRemoval
  BY <1>26 DEF VerifyForRemoval
<1>27. CASE Unlink
  BY <1>27 DEF Unlink
<1>28. CASE UnlinkFails
  BY <1>28 DEF UnlinkFails
<1>29. CASE Settle
  BY <1>29 DEF Settle
<1>30. CASE SettleAborts
  BY <1>30 DEF SettleAborts
<1>31. CASE LeaveUnresolved
  BY <1>31 DEF LeaveUnresolved
<1>32. CASE PassEnds
  BY <1>32 DEF PassEnds
<1>33. CASE RecordFailure
  BY <1>33 DEF RecordFailure
<1>34. CASE Complete
  BY <1>34 DEF Complete
<1>35. CASE Retire
  BY <1>35 DEF Retire
<1>36. CASE Recover
  BY <1>36 DEF Recover
<1>37. CASE CleanupExplicit
  BY <1>37 DEF CleanupExplicit
<1>38. CASE Crash
  BY <1>38 DEF Crash
<1>39. CASE ChildExits
  BY <1>39 DEF ChildExits
<1>40. ASSUME NEW a \in Created, NEW p \in Candidates, Occupy(a, p)
     PROVE  CountersOK'
  BY <1>40 DEF Occupy
<1>41. ASSUME NEW a \in Created, NEW p \in Candidates, MoveBack(a, p)
     PROVE  CountersOK'
  BY <1>41 DEF MoveBack
<1>42. ASSUME NEW a \in Created, Litter(a)
     PROVE  CountersOK'
  BY <1>42 DEF Litter
<1>43. ASSUME NEW a \in Created, MoveAway(a)
     PROVE  CountersOK'
  BY <1>43 DEF MoveAway
<1>44. ASSUME NEW a \in Created, Destroy(a)
     PROVE  CountersOK'
  BY <1>44 DEF Destroy
<1>45. ASSUME NEW a \in Created, Edit(a)
     PROVE  CountersOK'
  BY <1>45 DEF Edit
<1>46. ASSUME NEW s \in Slots, Vacate(s)
     PROVE  CountersOK'
  BY <1>46 DEF Vacate
<1>47. CASE UNCHANGED vars
  BY <1>47
<1>. QED
  BY <1>1, <1>2, <1>3, <1>4, <1>5, <1>6, <1>7, <1>8, <1>9, <1>10, <1>11, <1>12,
     <1>13, <1>14, <1>15, <1>16, <1>17, <1>18, <1>19, <1>20, <1>21, <1>22,
     <1>23, <1>24, <1>25, <1>26, <1>27, <1>28, <1>29, <1>30, <1>31, <1>32,
     <1>33, <1>34, <1>35, <1>36, <1>37, <1>38, <1>39, <1>40, <1>41, <1>42,
     <1>43, <1>44, <1>45, <1>46, <1>47
  DEF Next, Process, Apply, Supervise, Cleanup, OtherPrograms

LEMMA EntriesStep == TypeInv /\ [Next]_vars => EntriesOK'
<1>. SUFFICES ASSUME EntriesOK, CurInRange, [Next]_vars PROVE EntriesOK'
  BY TypeParts DEF TypeInv
<1>. USE DEF EntriesOK, CurInRange, AtAction, Places, Slots, Candidates, Created, vars,
         procVars, diskVars, fsVars, history, budget, At, Exit, Reconciling,
         RollBack, ActionDone, CleanupRequired, NextCandidate, Adopt, Meddles
<1>1. CASE Open
  BY <1>1 DEF Open
<1>2. CASE BeginApply
  BY <1>2 DEF BeginApply
<1>3. CASE ConfirmReuse
  BY <1>3 DEF ConfirmReuse
<1>4. CASE Drift
  BY <1>4 DEF Drift
<1>5. CASE Intent
  BY <1>5 DEF Intent
<1>6. CASE CreateStaged
  BY <1>6 DEF CreateStaged
<1>7. CASE CreateFails
  BY <1>7 DEF CreateFails
<1>8. CASE Stage
  BY <1>8 DEF Stage
<1>9. CASE VerifyStaged
  BY <1>9 DEF VerifyStaged
<1>10. CASE RenameNoReplace
  BY <1>10 DEF RenameNoReplace
<1>11. CASE RenameFails
  BY <1>11 DEF RenameFails
<1>12. CASE ConfirmPlaced
  BY <1>12 DEF ConfirmPlaced
<1>13. CASE PlacementFailure
  BY <1>13 DEF PlacementFailure
<1>14. CASE Activate
  BY <1>14 DEF Activate
<1>15. CASE SpawnBoundary
  BY <1>15 DEF SpawnBoundary
<1>16. CASE BeginSupervision
  BY <1>16 DEF BeginSupervision
<1>17. CASE EmitDiagnostics
  BY <1>17 DEF EmitDiagnostics
<1>18. CASE Spawn
  BY <1>18 DEF Spawn
<1>19. CASE ChildProvenDead
  BY <1>19 DEF ChildProvenDead
<1>20. CASE LivenessUncertain
  BY <1>20 DEF LivenessUncertain
<1>21. CASE BeginCleanup
  BY <1>21 DEF BeginCleanup
<1>22. CASE Keep
  BY <1>22 DEF Keep
<1>23. CASE SkipAction
  BY <1>23 DEF SkipAction
<1>24. CASE ClearAction
  BY <1>24 DEF ClearAction
<1>25. CASE ScanCandidate
  BY <1>25 DEF ScanCandidate
<1>26. CASE VerifyForRemoval
  BY <1>26 DEF VerifyForRemoval
<1>27. CASE Unlink
  BY <1>27 DEF Unlink
<1>28. CASE UnlinkFails
  BY <1>28 DEF UnlinkFails
<1>29. CASE Settle
  BY <1>29 DEF Settle
<1>30. CASE SettleAborts
  BY <1>30 DEF SettleAborts
<1>31. CASE LeaveUnresolved
  BY <1>31 DEF LeaveUnresolved
<1>32. CASE PassEnds
  BY <1>32 DEF PassEnds
<1>33. CASE RecordFailure
  BY <1>33 DEF RecordFailure
<1>34. CASE Complete
  BY <1>34 DEF Complete
<1>35. CASE Retire
  BY <1>35 DEF Retire
<1>36. CASE Recover
  BY <1>36 DEF Recover
<1>37. CASE CleanupExplicit
  BY <1>37 DEF CleanupExplicit
<1>38. CASE Crash
  BY <1>38 DEF Crash
<1>39. CASE ChildExits
  BY <1>39 DEF ChildExits
<1>40. ASSUME NEW a \in Created, NEW p \in Candidates, Occupy(a, p)
     PROVE  EntriesOK'
  BY <1>40 DEF Occupy
<1>41. ASSUME NEW a \in Created, NEW p \in Candidates, MoveBack(a, p)
     PROVE  EntriesOK'
  BY <1>41 DEF MoveBack
<1>42. ASSUME NEW a \in Created, Litter(a)
     PROVE  EntriesOK'
  BY <1>42 DEF Litter
<1>43. ASSUME NEW a \in Created, MoveAway(a)
     PROVE  EntriesOK'
  BY <1>43 DEF MoveAway
<1>44. ASSUME NEW a \in Created, Destroy(a)
     PROVE  EntriesOK'
  BY <1>44 DEF Destroy
<1>45. ASSUME NEW a \in Created, Edit(a)
     PROVE  EntriesOK'
  BY <1>45 DEF Edit
<1>46. ASSUME NEW s \in Slots, Vacate(s)
     PROVE  EntriesOK'
  BY <1>46 DEF Vacate
<1>47. CASE UNCHANGED vars
  BY <1>47
<1>. QED
  BY <1>1, <1>2, <1>3, <1>4, <1>5, <1>6, <1>7, <1>8, <1>9, <1>10, <1>11, <1>12,
     <1>13, <1>14, <1>15, <1>16, <1>17, <1>18, <1>19, <1>20, <1>21, <1>22,
     <1>23, <1>24, <1>25, <1>26, <1>27, <1>28, <1>29, <1>30, <1>31, <1>32,
     <1>33, <1>34, <1>35, <1>36, <1>37, <1>38, <1>39, <1>40, <1>41, <1>42,
     <1>43, <1>44, <1>45, <1>46, <1>47
  DEF Next, Process, Apply, Supervise, Cleanup, OtherPrograms

LEMMA CurInRangeStep == TypeInv /\ [Next]_vars => CurInRange'
<1>. SUFFICES ASSUME CountersOK, CurInRange, [Next]_vars PROVE CurInRange'
  BY TypeParts DEF TypeInv
<1>. USE NAssumption DEF CurInRange, CountersOK, AtAction, Actions, vars, procVars, diskVars, fsVars,
                        history, budget, At, Exit, Reconciling, RollBack,
                        ActionDone, CleanupRequired, NextCandidate, Adopt,
                        Meddles
<1>1. CASE Open
  BY <1>1 DEF Open
<1>2. CASE BeginApply
  BY <1>2 DEF BeginApply
<1>3. CASE ConfirmReuse
  BY <1>3 DEF ConfirmReuse
<1>4. CASE Drift
  BY <1>4 DEF Drift
<1>5. CASE Intent
  BY <1>5 DEF Intent
<1>6. CASE CreateStaged
  BY <1>6 DEF CreateStaged
<1>7. CASE CreateFails
  BY <1>7 DEF CreateFails
<1>8. CASE Stage
  BY <1>8 DEF Stage
<1>9. CASE VerifyStaged
  BY <1>9 DEF VerifyStaged
<1>10. CASE RenameNoReplace
  BY <1>10 DEF RenameNoReplace
<1>11. CASE RenameFails
  BY <1>11 DEF RenameFails
<1>12. CASE ConfirmPlaced
  BY <1>12 DEF ConfirmPlaced
<1>13. CASE PlacementFailure
  BY <1>13 DEF PlacementFailure
<1>14. CASE Activate
  BY <1>14 DEF Activate
<1>15. CASE SpawnBoundary
  BY <1>15 DEF SpawnBoundary
<1>16. CASE BeginSupervision
  BY <1>16 DEF BeginSupervision
<1>17. CASE EmitDiagnostics
  BY <1>17 DEF EmitDiagnostics
<1>18. CASE Spawn
  BY <1>18 DEF Spawn
<1>19. CASE ChildProvenDead
  BY <1>19 DEF ChildProvenDead
<1>20. CASE LivenessUncertain
  BY <1>20 DEF LivenessUncertain
<1>21. CASE BeginCleanup
  BY <1>21 DEF BeginCleanup
<1>22. CASE Keep
  BY <1>22 DEF Keep
<1>23. CASE SkipAction
  BY <1>23 DEF SkipAction
<1>24. CASE ClearAction
  BY <1>24 DEF ClearAction
<1>25. CASE ScanCandidate
  BY <1>25 DEF ScanCandidate
<1>26. CASE VerifyForRemoval
  BY <1>26 DEF VerifyForRemoval
<1>27. CASE Unlink
  BY <1>27 DEF Unlink
<1>28. CASE UnlinkFails
  BY <1>28 DEF UnlinkFails
<1>29. CASE Settle
  BY <1>29 DEF Settle
<1>30. CASE SettleAborts
  BY <1>30 DEF SettleAborts
<1>31. CASE LeaveUnresolved
  BY <1>31 DEF LeaveUnresolved
<1>32. CASE PassEnds
  BY <1>32 DEF PassEnds
<1>33. CASE RecordFailure
  BY <1>33 DEF RecordFailure
<1>34. CASE Complete
  BY <1>34 DEF Complete
<1>35. CASE Retire
  BY <1>35 DEF Retire
<1>36. CASE Recover
  BY <1>36 DEF Recover
<1>37. CASE CleanupExplicit
  BY <1>37 DEF CleanupExplicit
<1>38. CASE Crash
  BY <1>38 DEF Crash
<1>39. CASE ChildExits
  BY <1>39 DEF ChildExits
<1>40. ASSUME NEW a \in Created, NEW p \in Candidates, Occupy(a, p)
     PROVE  CurInRange'
  BY <1>40 DEF Occupy
<1>41. ASSUME NEW a \in Created, NEW p \in Candidates, MoveBack(a, p)
     PROVE  CurInRange'
  BY <1>41 DEF MoveBack
<1>42. ASSUME NEW a \in Created, Litter(a)
     PROVE  CurInRange'
  BY <1>42 DEF Litter
<1>43. ASSUME NEW a \in Created, MoveAway(a)
     PROVE  CurInRange'
  BY <1>43 DEF MoveAway
<1>44. ASSUME NEW a \in Created, Destroy(a)
     PROVE  CurInRange'
  BY <1>44 DEF Destroy
<1>45. ASSUME NEW a \in Created, Edit(a)
     PROVE  CurInRange'
  BY <1>45 DEF Edit
<1>46. ASSUME NEW s \in Slots, Vacate(s)
     PROVE  CurInRange'
  BY <1>46 DEF Vacate
<1>47. CASE UNCHANGED vars
  BY <1>47
<1>. QED
  BY <1>1, <1>2, <1>3, <1>4, <1>5, <1>6, <1>7, <1>8, <1>9, <1>10, <1>11, <1>12,
     <1>13, <1>14, <1>15, <1>16, <1>17, <1>18, <1>19, <1>20, <1>21, <1>22,
     <1>23, <1>24, <1>25, <1>26, <1>27, <1>28, <1>29, <1>30, <1>31, <1>32,
     <1>33, <1>34, <1>35, <1>36, <1>37, <1>38, <1>39, <1>40, <1>41, <1>42,
     <1>43, <1>44, <1>45, <1>46, <1>47
  DEF Next, Process, Apply, Supervise, Cleanup, OtherPrograms

LEMMA TypeStep == TypeInv /\ [Next]_vars => TypeInv'
<1>. SUFFICES ASSUME TypeInv, [Next]_vars PROVE TypeInv'
  OBVIOUS
<1>1. FlagsOK' /\ JournalsOK' /\ LabelsOK' /\ CountersOK' /\ EntriesOK'
  BY FlagsStep, JournalStep, LabelsStep, CountersStep, EntriesStep, TypeParts
  DEF TypeInv
<1>2. TypeOK'
  BY <1>1 DEF TypeOK, FlagsOK, JournalsOK, LabelsOK, CountersOK, EntriesOK
<1>. QED  BY <1>2, CurInRangeStep DEF TypeInv

LEMMA TypeInvariant == Spec => []TypeInv
BY InitType, TypeStep, PTL DEF Spec

\* Every variable keeps its range in every behaviour, for every plan and every
\* bound, and `cur` names an action wherever the code dereferences it
\* (apply.rs, create_and_place; cleanup.rs, reconcile_pending_actions).
THEOREM TypeCorrect == Spec => []TypeOK
<1>1. TypeInv => TypeOK
  BY DEF TypeInv
<1>. QED  BY TypeInvariant, <1>1, PTL

-----------------------------------------------------------------------------
(* The child and its quarantine.                                           *)

\* As long as no operator has asserted otherwise, a live child runs over a
\* durable `supervising` journal, and no process works on that journal: either
\* its session still waits for it or there is no session any more.
Quarantined ==
    child = "alive" /\ ~operator =>
        onDisk /\ disk.status = "supervising" /\ pc \in {"wait", "idle"}
\* The launch is durable before the process that will spawn gets there.
Announced ==
    pc \in {"announce", "spawn"} => onDisk /\ disk.status = "supervising"
QuarantineInv == Quarantined /\ Announced

LEMMA QuarantineStep ==
  TypeInv /\ QuarantineInv /\ [Next]_vars => QuarantineInv'
<1>. SUFFICES ASSUME TypeInv, QuarantineInv, [Next]_vars
              PROVE  QuarantineInv'
  OBVIOUS
<1>. USE DEF QuarantineInv, Quarantined, Announced, vars, procVars, diskVars,
             fsVars, history, budget, At, Exit, Reconciling, RollBack,
             ActionDone, CleanupRequired, NextCandidate, Adopt, Meddles
<1>1. CASE Open
  BY <1>1 DEF Open
<1>2. CASE BeginApply
  BY <1>2 DEF BeginApply
<1>3. CASE ConfirmReuse
  BY <1>3 DEF ConfirmReuse
<1>4. CASE Drift
  BY <1>4 DEF Drift
<1>5. CASE Intent
  BY <1>5 DEF Intent
<1>6. CASE CreateStaged
  BY <1>6 DEF CreateStaged
<1>7. CASE CreateFails
  BY <1>7 DEF CreateFails
<1>8. CASE Stage
  BY <1>8 DEF Stage
<1>9. CASE VerifyStaged
  BY <1>9 DEF VerifyStaged
<1>10. CASE RenameNoReplace
  BY <1>10 DEF RenameNoReplace
<1>11. CASE RenameFails
  BY <1>11 DEF RenameFails
<1>12. CASE ConfirmPlaced
  BY <1>12 DEF ConfirmPlaced
<1>13. CASE PlacementFailure
  BY <1>13 DEF PlacementFailure
<1>14. CASE Activate
  BY <1>14 DEF Activate
<1>15. CASE SpawnBoundary
  BY <1>15 DEF SpawnBoundary
<1>16. CASE BeginSupervision
  <2>1. WithStatus(mem, "supervising").status = "supervising"
    BY WithStatusType, StatusTypes DEF TypeInv, TypeOK
  <2>. QED  BY <1>16, <2>1 DEF BeginSupervision, Persists
<1>17. CASE EmitDiagnostics
  BY <1>17 DEF EmitDiagnostics
<1>18. CASE Spawn
  BY <1>18 DEF Spawn
<1>19. CASE ChildProvenDead
  BY <1>19 DEF ChildProvenDead
<1>20. CASE LivenessUncertain
  BY <1>20 DEF LivenessUncertain
<1>21. CASE BeginCleanup
  BY <1>21 DEF BeginCleanup
<1>22. CASE Keep
  BY <1>22 DEF Keep
<1>23. CASE SkipAction
  BY <1>23 DEF SkipAction
<1>24. CASE ClearAction
  BY <1>24 DEF ClearAction
<1>25. CASE ScanCandidate
  BY <1>25 DEF ScanCandidate
<1>26. CASE VerifyForRemoval
  BY <1>26 DEF VerifyForRemoval
<1>27. CASE Unlink
  BY <1>27 DEF Unlink
<1>28. CASE UnlinkFails
  BY <1>28 DEF UnlinkFails
<1>29. CASE Settle
  BY <1>29 DEF Settle
<1>30. CASE SettleAborts
  BY <1>30 DEF SettleAborts
<1>31. CASE LeaveUnresolved
  BY <1>31 DEF LeaveUnresolved
<1>32. CASE PassEnds
  BY <1>32 DEF PassEnds
<1>33. CASE RecordFailure
  BY <1>33 DEF RecordFailure
<1>34. CASE Complete
  BY <1>34 DEF Complete
<1>35. CASE Retire
  BY <1>35 DEF Retire
<1>36. CASE Recover
  BY <1>36 DEF Recover, AutomaticallyRecoverable
<1>37. CASE CleanupExplicit
  BY <1>37 DEF CleanupExplicit
<1>38. CASE Crash
  BY <1>38 DEF Crash
<1>39. CASE ChildExits
  BY <1>39 DEF ChildExits
<1>40. ASSUME NEW a \in Created, NEW p \in Candidates, Occupy(a, p)
     PROVE  QuarantineInv'
  BY <1>40 DEF Occupy
<1>41. ASSUME NEW a \in Created, NEW p \in Candidates, MoveBack(a, p)
     PROVE  QuarantineInv'
  BY <1>41 DEF MoveBack
<1>42. ASSUME NEW a \in Created, Litter(a)
     PROVE  QuarantineInv'
  BY <1>42 DEF Litter
<1>43. ASSUME NEW a \in Created, MoveAway(a)
     PROVE  QuarantineInv'
  BY <1>43 DEF MoveAway
<1>44. ASSUME NEW a \in Created, Destroy(a)
     PROVE  QuarantineInv'
  BY <1>44 DEF Destroy
<1>45. ASSUME NEW a \in Created, Edit(a)
     PROVE  QuarantineInv'
  BY <1>45 DEF Edit
<1>46. ASSUME NEW s \in Slots, Vacate(s)
     PROVE  QuarantineInv'
  BY <1>46 DEF Vacate
<1>47. CASE UNCHANGED vars
  BY <1>47
<1>. QED
  BY <1>1, <1>2, <1>3, <1>4, <1>5, <1>6, <1>7, <1>8, <1>9, <1>10, <1>11, <1>12,
     <1>13, <1>14, <1>15, <1>16, <1>17, <1>18, <1>19, <1>20, <1>21, <1>22,
     <1>23, <1>24, <1>25, <1>26, <1>27, <1>28, <1>29, <1>30, <1>31, <1>32,
     <1>33, <1>34, <1>35, <1>36, <1>37, <1>38, <1>39, <1>40, <1>41, <1>42,
     <1>43, <1>44, <1>45, <1>46, <1>47
  DEF Next, Process, Apply, Supervise, Cleanup, OtherPrograms

LEMMA QuarantineInvariant == Spec => []QuarantineInv
<1>1. Init => QuarantineInv
  BY DEF Init, QuarantineInv, Quarantined, Announced
<1>. QED  BY <1>1, QuarantineStep, TypeInvariant, PTL DEF Spec

\* The child is never left without its quarantine: whatever crashes or fails,
\* it runs over a journal that automatic recovery leaves alone (app.rs,
\* verify_spawn_boundary; recover.rs, recover_stale_after_reacquire).
THEOREM ChildIsQuarantined == Spec => []ChildRunsUnderSupervision
<1>1. QuarantineInv => ChildRunsUnderSupervision
  BY DEF QuarantineInv, Quarantined, ChildRunsUnderSupervision
<1>. QED  BY QuarantineInvariant, <1>1, PTL

UnderLiveChild(a) ==
    child = "alive" /\ loc[a] # "unlinked" /\ loc'[a] = "unlinked"

LEMMA RemovalStep ==
  ASSUME TypeInv, QuarantineInv, [Next]_vars, NEW x \in Actions,
         UnderLiveChild(x)
  PROVE  operator
<1>. USE DEF TypeInv, TypeOK, UnderLiveChild, vars, procVars, diskVars, fsVars,
             history, budget, At, Exit, Reconciling, RollBack, ActionDone,
             CleanupRequired, NextCandidate, Adopt, Meddles
<1>1. CASE Open
  BY <1>1 DEF Open
<1>2. CASE BeginApply
  BY <1>2 DEF BeginApply
<1>3. CASE ConfirmReuse
  BY <1>3 DEF ConfirmReuse
<1>4. CASE Drift
  BY <1>4 DEF Drift
<1>5. CASE Intent
  BY <1>5 DEF Intent
<1>6. CASE CreateStaged
  BY <1>6 DEF CreateStaged
<1>7. CASE CreateFails
  BY <1>7 DEF CreateFails
<1>8. CASE Stage
  BY <1>8 DEF Stage
<1>9. CASE VerifyStaged
  BY <1>9 DEF VerifyStaged
<1>10. CASE RenameNoReplace
  BY <1>10 DEF RenameNoReplace
<1>11. CASE RenameFails
  BY <1>11 DEF RenameFails
<1>12. CASE ConfirmPlaced
  BY <1>12 DEF ConfirmPlaced
<1>13. CASE PlacementFailure
  BY <1>13 DEF PlacementFailure
<1>14. CASE Activate
  BY <1>14 DEF Activate
<1>15. CASE SpawnBoundary
  BY <1>15 DEF SpawnBoundary
<1>16. CASE BeginSupervision
  BY <1>16 DEF BeginSupervision
<1>17. CASE EmitDiagnostics
  BY <1>17 DEF EmitDiagnostics
<1>18. CASE Spawn
  BY <1>18 DEF Spawn
<1>19. CASE ChildProvenDead
  BY <1>19 DEF ChildProvenDead
<1>20. CASE LivenessUncertain
  BY <1>20 DEF LivenessUncertain
<1>21. CASE BeginCleanup
  BY <1>21 DEF BeginCleanup
<1>22. CASE Keep
  BY <1>22 DEF Keep
<1>23. CASE SkipAction
  BY <1>23 DEF SkipAction
<1>24. CASE ClearAction
  BY <1>24 DEF ClearAction
<1>25. CASE ScanCandidate
  BY <1>25 DEF ScanCandidate
<1>26. CASE VerifyForRemoval
  BY <1>26 DEF VerifyForRemoval
<1>27. CASE Unlink
  BY <1>27 DEF Unlink, QuarantineInv, Quarantined
<1>28. CASE UnlinkFails
  BY <1>28 DEF UnlinkFails
<1>29. CASE Settle
  BY <1>29 DEF Settle
<1>30. CASE SettleAborts
  BY <1>30 DEF SettleAborts
<1>31. CASE LeaveUnresolved
  BY <1>31 DEF LeaveUnresolved
<1>32. CASE PassEnds
  BY <1>32 DEF PassEnds
<1>33. CASE RecordFailure
  BY <1>33 DEF RecordFailure
<1>34. CASE Complete
  BY <1>34 DEF Complete
<1>35. CASE Retire
  BY <1>35 DEF Retire
<1>36. CASE Recover
  BY <1>36 DEF Recover
<1>37. CASE CleanupExplicit
  BY <1>37 DEF CleanupExplicit
<1>38. CASE Crash
  BY <1>38 DEF Crash
<1>39. CASE ChildExits
  BY <1>39 DEF ChildExits
<1>40. ASSUME NEW a \in Created, NEW p \in Candidates, Occupy(a, p)
     PROVE  operator
  BY <1>40 DEF Occupy
<1>41. ASSUME NEW a \in Created, NEW p \in Candidates, MoveBack(a, p)
     PROVE  operator
  BY <1>41 DEF MoveBack, Candidates
<1>42. ASSUME NEW a \in Created, Litter(a)
     PROVE  operator
  BY <1>42 DEF Litter
<1>43. ASSUME NEW a \in Created, MoveAway(a)
     PROVE  operator
  BY <1>43 DEF MoveAway
<1>44. ASSUME NEW a \in Created, Destroy(a)
     PROVE  operator
  BY <1>44 DEF Destroy
<1>45. ASSUME NEW a \in Created, Edit(a)
     PROVE  operator
  BY <1>45 DEF Edit
<1>46. ASSUME NEW s \in Slots, Vacate(s)
     PROVE  operator
  BY <1>46 DEF Vacate
<1>47. CASE UNCHANGED vars
  BY <1>47
<1>. QED
  BY <1>1, <1>2, <1>3, <1>4, <1>5, <1>6, <1>7, <1>8, <1>9, <1>10, <1>11, <1>12,
     <1>13, <1>14, <1>15, <1>16, <1>17, <1>18, <1>19, <1>20, <1>21, <1>22,
     <1>23, <1>24, <1>25, <1>26, <1>27, <1>28, <1>29, <1>30, <1>31, <1>32,
     <1>33, <1>34, <1>35, <1>36, <1>37, <1>38, <1>39, <1>40, <1>41, <1>42,
     <1>43, <1>44, <1>45, <1>46, <1>47
  DEF Next, Process, Apply, Supervise, Cleanup, OtherPrograms

\* Nothing is removed under a live child but by a pass the operator asked for:
\* the one step that unlinks belongs to a process, and no process works on the
\* journal of a live child (app.rs, cleanup_for_supervisor).
THEOREM NothingRemovedUnderLiveChild == Spec => NoRemovalUnderLiveChild
<1>1. TypeInv /\ QuarantineInv /\ [Next]_vars =>
        \A a \in Actions : UnderLiveChild(a) => operator
  BY RemovalStep
<1>. QED  BY <1>1, TypeInvariant, QuarantineInvariant, PTL
          DEF Spec, NoRemovalUnderLiveChild, UnderLiveChild

-----------------------------------------------------------------------------
(* Which pass is running where.                                            *)

SessionLabels == {"open", "begin", "check", "create", "stage", "place",
                  "rename", "confirm", "activate", "boundary", "supervise",
                  "announce", "spawn", "wait", "keep"}
RollbackLabels == {"reconcile", "scan", "unlink", "settle", "fail"}

\* A plan is applied by its own session only, and only once.
ModeOfPass ==
    /\ pc \in SessionLabels => mode = "session"
    /\ mode = "rollback" => pc \in RollbackLabels
    /\ pc = "open" => ~onDisk
\* A session has a child of its own while it waits for it and at no other time.
ChildOfSession ==
    mode = "session" /\ pc \notin {"wait", "idle"} => child # "alive"
\* An adopted journal has lost its request to be kept.
RequestOfPass ==
    pc = "clean" /\ mode # "session" => ~mem.keep
ModeInv == ModeOfPass /\ ChildOfSession /\ RequestOfPass

LEMMA ModeStep == TypeInv /\ ModeInv /\ [Next]_vars => ModeInv'
<1>. SUFFICES ASSUME TypeInv, ModeInv, [Next]_vars PROVE ModeInv'
  OBVIOUS
<1>. USE DEF ModeInv, ModeOfPass, ChildOfSession, RequestOfPass, SessionLabels,
             RollbackLabels, vars, procVars, diskVars, fsVars, history, budget,
             At, Exit, Reconciling, RollBack, ActionDone, CleanupRequired,
             NextCandidate, Adopt, Meddles
<1>1. CASE Open
  BY <1>1 DEF Open
<1>2. CASE BeginApply
  BY <1>2 DEF BeginApply
<1>3. CASE ConfirmReuse
  BY <1>3 DEF ConfirmReuse
<1>4. CASE Drift
  BY <1>4 DEF Drift
<1>5. CASE Intent
  BY <1>5 DEF Intent
<1>6. CASE CreateStaged
  BY <1>6 DEF CreateStaged
<1>7. CASE CreateFails
  BY <1>7 DEF CreateFails
<1>8. CASE Stage
  BY <1>8 DEF Stage
<1>9. CASE VerifyStaged
  BY <1>9 DEF VerifyStaged
<1>10. CASE RenameNoReplace
  BY <1>10 DEF RenameNoReplace
<1>11. CASE RenameFails
  BY <1>11 DEF RenameFails
<1>12. CASE ConfirmPlaced
  BY <1>12 DEF ConfirmPlaced
<1>13. CASE PlacementFailure
  BY <1>13 DEF PlacementFailure
<1>14. CASE Activate
  BY <1>14 DEF Activate
<1>15. CASE SpawnBoundary
  BY <1>15 DEF SpawnBoundary, Persists
<1>16. CASE BeginSupervision
  BY <1>16 DEF BeginSupervision, Persists
<1>17. CASE EmitDiagnostics
  BY <1>17 DEF EmitDiagnostics, Persists
<1>18. CASE Spawn
  BY <1>18 DEF Spawn
<1>19. CASE ChildProvenDead
  BY <1>19 DEF ChildProvenDead
<1>20. CASE LivenessUncertain
  BY <1>20 DEF LivenessUncertain
<1>21. CASE BeginCleanup
  BY <1>21 DEF BeginCleanup, TypeInv, TypeOK
<1>22. CASE Keep
  BY <1>22 DEF Keep, TypeInv, TypeOK
<1>23. CASE SkipAction
  BY <1>23 DEF SkipAction
<1>24. CASE ClearAction
  BY <1>24 DEF ClearAction
<1>25. CASE ScanCandidate
  BY <1>25 DEF ScanCandidate
<1>26. CASE VerifyForRemoval
  BY <1>26 DEF VerifyForRemoval
<1>27. CASE Unlink
  BY <1>27 DEF Unlink
<1>28. CASE UnlinkFails
  BY <1>28 DEF UnlinkFails
<1>29. CASE Settle
  BY <1>29 DEF Settle
<1>30. CASE SettleAborts
  BY <1>30 DEF SettleAborts
<1>31. CASE LeaveUnresolved
  BY <1>31 DEF LeaveUnresolved
<1>32. CASE PassEnds
  BY <1>32 DEF PassEnds
<1>33. CASE RecordFailure
  BY <1>33 DEF RecordFailure
<1>34. CASE Complete
  BY <1>34 DEF Complete
<1>35. CASE Retire
  BY <1>35 DEF Retire
<1>36. CASE Recover
  BY <1>36, WithoutKeepType DEF Recover, TypeInv, TypeOK
<1>37. CASE CleanupExplicit
  BY <1>37, WithoutKeepType DEF CleanupExplicit, TypeInv, TypeOK
<1>38. CASE Crash
  BY <1>38 DEF Crash
<1>39. CASE ChildExits
  BY <1>39 DEF ChildExits
<1>40. ASSUME NEW a \in Created, NEW p \in Candidates, Occupy(a, p)
     PROVE  ModeInv'
  BY <1>40 DEF Occupy
<1>41. ASSUME NEW a \in Created, NEW p \in Candidates, MoveBack(a, p)
     PROVE  ModeInv'
  BY <1>41 DEF MoveBack
<1>42. ASSUME NEW a \in Created, Litter(a)
     PROVE  ModeInv'
  BY <1>42 DEF Litter
<1>43. ASSUME NEW a \in Created, MoveAway(a)
     PROVE  ModeInv'
  BY <1>43 DEF MoveAway
<1>44. ASSUME NEW a \in Created, Destroy(a)
     PROVE  ModeInv'
  BY <1>44 DEF Destroy
<1>45. ASSUME NEW a \in Created, Edit(a)
     PROVE  ModeInv'
  BY <1>45 DEF Edit
<1>46. ASSUME NEW s \in Slots, Vacate(s)
     PROVE  ModeInv'
  BY <1>46 DEF Vacate
<1>47. CASE UNCHANGED vars
  BY <1>47
<1>. QED
  BY <1>1, <1>2, <1>3, <1>4, <1>5, <1>6, <1>7, <1>8, <1>9, <1>10, <1>11, <1>12,
     <1>13, <1>14, <1>15, <1>16, <1>17, <1>18, <1>19, <1>20, <1>21, <1>22,
     <1>23, <1>24, <1>25, <1>26, <1>27, <1>28, <1>29, <1>30, <1>31, <1>32,
     <1>33, <1>34, <1>35, <1>36, <1>37, <1>38, <1>39, <1>40, <1>41, <1>42,
     <1>43, <1>44, <1>45, <1>46, <1>47
  DEF Next, Process, Apply, Supervise, Cleanup, OtherPrograms

LEMMA ModeInvariant == Spec => []ModeInv
<1>1. Init => ModeInv
  BY DEF Init, ModeInv, ModeOfPass, ChildOfSession, RequestOfPass,
         SessionLabels, RollbackLabels
<1>. QED  BY <1>1, ModeStep, TypeInvariant, PTL DEF Spec

-----------------------------------------------------------------------------
(* What the operators do to the journal in memory, in one place.           *)

LEMMA StatusWrites ==
  ASSUME TypeInv
  PROVE  /\ \A s \in TransactionStatus :
              /\ WithStatus(mem, s).status = s
              /\ WithStatus(mem, s).keep = mem.keep
              /\ WithStatus(mem, s).st = mem.st
              /\ WithStatus(mem, s).ev = mem.ev
         /\ {"planned", "applying", "active", "supervising", "cleaning",
             "completed", "kept", "failed"} \subseteq TransactionStatus
BY WithStatusType, StatusTypes DEF TypeInv, TypeOK

LEMMA ActionWrites ==
  ASSUME TypeInv, pc \in AtAction
  PROVE  /\ cur \in Actions
         /\ \A s \in ActionStatus :
              /\ WithAction(mem, cur, s).status = mem.status
              /\ WithAction(mem, cur, s).keep = mem.keep
              /\ WithAction(mem, cur, s).st[cur] = s
              /\ \A a \in Actions \ {cur} :
                    WithAction(mem, cur, s).st[a] = mem.st[a]
              /\ WithAction(mem, cur, s).ev = mem.ev
         /\ {"intent", "staged", "applied", "rolled_back"} \subseteq ActionStatus
BY WithActionType, StatusTypes DEF TypeInv, TypeOK, CurInRange

LEMMA EvidenceWrites ==
  ASSUME TypeInv, pc \in AtAction
  PROVE  /\ WithEvidence(mem, cur).status = mem.status
         /\ WithEvidence(mem, cur).keep = mem.keep
         /\ WithEvidence(mem, cur).st = mem.st
         /\ WithEvidence(mem, cur).ev[cur]
BY WithEvidenceType DEF TypeInv, TypeOK, CurInRange

\* A request to be kept is withdrawn, and nothing else changes.
Withdrawn(j) ==
    /\ WithoutKeep(j).status = j.status /\ ~WithoutKeep(j).keep
    /\ WithoutKeep(j).st = j.st /\ WithoutKeep(j).ev = j.ev
LEMMA Withdrawals ==
  ASSUME TypeInv
  PROVE  /\ Withdrawn(mem) /\ Withdrawn(disk)
         /\ \A s \in TransactionStatus : Withdrawn(WithStatus(mem, s))
BY WithoutKeepType, WithStatusType DEF TypeInv, TypeOK, Withdrawn

-----------------------------------------------------------------------------
(* Retention.                                                              *)

\* A kept journal is at rest or in the hands of an operator's cleanup, which
\* holds its status in memory until its first write.
KeptAtRest ==
    disk.status = "kept" =>
        child # "alive" /\ (pc = "idle" \/ (pc = "clean" /\ mode = "explicit"))
KeptAdopted == mem.status = "kept" => pc = "clean" /\ mode = "explicit"
KeptInv == KeptAtRest /\ KeptAdopted

LEMMA KeptStep ==
  TypeInv /\ ModeInv /\ KeptInv /\ [Next]_vars => KeptInv'
<1>. SUFFICES ASSUME TypeInv, ModeInv, KeptInv, [Next]_vars PROVE KeptInv'
  OBVIOUS
<1>1. NewJournal.status = "planned"
  BY DEF NewJournal
<1>. USE DEF KeptInv, KeptAtRest, KeptAdopted, AtAction, vars, procVars,
             diskVars, fsVars, history, budget, At, Exit, Reconciling,
             RollBack, ActionDone, CleanupRequired, NextCandidate, Adopt,
             Meddles
<1>2. CASE Open
  BY <1>2, <1>1 DEF Open, Persists, PersistFails
<1>3. CASE BeginApply
  BY <1>3, <1>1, StatusWrites, Withdrawals DEF BeginApply, Persists, PersistFails, Withdrawn
<1>4. CASE ConfirmReuse
  BY <1>4 DEF ConfirmReuse
<1>5. CASE Drift
  BY <1>5 DEF Drift
<1>6. CASE Intent
  BY <1>6, <1>1, ActionWrites DEF Intent, Persists, PersistFails
<1>7. CASE CreateStaged
  BY <1>7, EvidenceWrites DEF CreateStaged
<1>8. CASE CreateFails
  BY <1>8 DEF CreateFails
<1>9. CASE Stage
  BY <1>9, <1>1, ActionWrites DEF Stage, Persists, PersistFails
<1>10. CASE VerifyStaged
  BY <1>10 DEF VerifyStaged
<1>11. CASE RenameNoReplace
  BY <1>11 DEF RenameNoReplace
<1>12. CASE RenameFails
  BY <1>12 DEF RenameFails
<1>13. CASE ConfirmPlaced
  BY <1>13, <1>1, ActionWrites DEF ConfirmPlaced, Persists, PersistFails
<1>14. CASE PlacementFailure
  BY <1>14 DEF PlacementFailure
<1>15. CASE Activate
  BY <1>15, <1>1, StatusWrites, Withdrawals DEF Activate, Persists, PersistFails, Withdrawn
<1>16. CASE SpawnBoundary
  BY <1>16, Withdrawals DEF SpawnBoundary, Withdrawn
<1>17. CASE BeginSupervision
  BY <1>17, <1>1, StatusWrites, Withdrawals DEF BeginSupervision, Persists, PersistFails, Withdrawn
<1>18. CASE EmitDiagnostics
  BY <1>18, Withdrawals DEF EmitDiagnostics, Withdrawn
<1>19. CASE Spawn
  BY <1>19 DEF Spawn
<1>20. CASE ChildProvenDead
  BY <1>20 DEF ChildProvenDead
<1>21. CASE LivenessUncertain
  BY <1>21, <1>1 DEF LivenessUncertain, Persists, PersistFails
<1>22. CASE BeginCleanup
  BY <1>22, <1>1, StatusWrites, Withdrawals DEF BeginCleanup, Persists, PersistFails, Withdrawn
<1>23. CASE Keep
  BY <1>23, <1>1, StatusWrites
  DEF Keep, Persists, PersistFails, ModeInv, ModeOfPass, ChildOfSession,
      SessionLabels
<1>24. CASE SkipAction
  BY <1>24 DEF SkipAction
<1>25. CASE ClearAction
  BY <1>25 DEF ClearAction
<1>26. CASE ScanCandidate
  BY <1>26 DEF ScanCandidate
<1>27. CASE VerifyForRemoval
  BY <1>27 DEF VerifyForRemoval
<1>28. CASE Unlink
  BY <1>28 DEF Unlink
<1>29. CASE UnlinkFails
  BY <1>29 DEF UnlinkFails
<1>30. CASE Settle
  BY <1>30, <1>1, ActionWrites DEF Settle, Persists, PersistFails
<1>31. CASE SettleAborts
  BY <1>31, <1>1, ActionWrites DEF SettleAborts, Persists, PersistFails
<1>32. CASE LeaveUnresolved
  BY <1>32 DEF LeaveUnresolved
<1>33. CASE PassEnds
  BY <1>33 DEF PassEnds
<1>34. CASE RecordFailure
  BY <1>34, <1>1, StatusWrites, Withdrawals DEF RecordFailure, Persists, PersistFails, Withdrawn
<1>35. CASE Complete
  BY <1>35, <1>1, StatusWrites, Withdrawals DEF Complete, Persists, PersistFails, Withdrawn
<1>36. CASE Retire
  BY <1>36, <1>1 DEF Retire, Persists, PersistFails
<1>37. CASE Recover
  BY <1>37, Withdrawals DEF Recover, Withdrawn, AutomaticallyRecoverable, Terminal
<1>38. CASE CleanupExplicit
  BY <1>38, Withdrawals DEF CleanupExplicit, Withdrawn, AutomaticallyRecoverable, Terminal
<1>39. CASE Crash
  BY <1>39, <1>1 DEF Crash, Persists, PersistFails
<1>40. CASE ChildExits
  BY <1>40 DEF ChildExits
<1>41. ASSUME NEW a \in Created, NEW p \in Candidates, Occupy(a, p)
     PROVE  KeptInv'
  BY <1>41 DEF Occupy
<1>42. ASSUME NEW a \in Created, NEW p \in Candidates, MoveBack(a, p)
     PROVE  KeptInv'
  BY <1>42 DEF MoveBack
<1>43. ASSUME NEW a \in Created, Litter(a)
     PROVE  KeptInv'
  BY <1>43 DEF Litter
<1>44. ASSUME NEW a \in Created, MoveAway(a)
     PROVE  KeptInv'
  BY <1>44 DEF MoveAway
<1>45. ASSUME NEW a \in Created, Destroy(a)
     PROVE  KeptInv'
  BY <1>45 DEF Destroy
<1>46. ASSUME NEW a \in Created, Edit(a)
     PROVE  KeptInv'
  BY <1>46 DEF Edit
<1>47. ASSUME NEW s \in Slots, Vacate(s)
     PROVE  KeptInv'
  BY <1>47 DEF Vacate
<1>48. CASE UNCHANGED vars
  BY <1>48
<1>. QED
  BY <1>2, <1>3, <1>4, <1>5, <1>6, <1>7, <1>8, <1>9, <1>10, <1>11, <1>12,
     <1>13, <1>14, <1>15, <1>16, <1>17, <1>18, <1>19, <1>20, <1>21, <1>22,
     <1>23, <1>24, <1>25, <1>26, <1>27, <1>28, <1>29, <1>30, <1>31, <1>32,
     <1>33, <1>34, <1>35, <1>36, <1>37, <1>38, <1>39, <1>40, <1>41, <1>42,
     <1>43, <1>44, <1>45, <1>46, <1>47, <1>48
  DEF Next, Process, Apply, Supervise, Cleanup, OtherPrograms

LEMMA KeptInvariant == Spec => []KeptInv
<1>1. Init => KeptInv
  BY DEF Init, KeptInv, KeptAtRest, KeptAdopted, NewJournal
<1>. QED  BY <1>1, KeptStep, TypeInvariant, ModeInvariant, PTL DEF Spec

LEMMA KeptChangeStep ==
  ASSUME TypeInv, KeptInv, [Next]_vars,
         disk.status = "kept", <<onDisk, disk>>' # <<onDisk, disk>>
  PROVE  mode = "explicit"
<1>. USE DEF KeptInv, KeptAtRest, vars, procVars, diskVars, fsVars, history,
             budget, At, Exit, Reconciling, RollBack, ActionDone,
             CleanupRequired, NextCandidate, Adopt, Meddles
<1>1. CASE Open
  BY <1>1 DEF Open
<1>2. CASE BeginApply
  BY <1>2 DEF BeginApply
<1>3. CASE ConfirmReuse
  BY <1>3 DEF ConfirmReuse
<1>4. CASE Drift
  BY <1>4 DEF Drift
<1>5. CASE Intent
  BY <1>5 DEF Intent
<1>6. CASE CreateStaged
  BY <1>6 DEF CreateStaged
<1>7. CASE CreateFails
  BY <1>7 DEF CreateFails
<1>8. CASE Stage
  BY <1>8 DEF Stage
<1>9. CASE VerifyStaged
  BY <1>9 DEF VerifyStaged
<1>10. CASE RenameNoReplace
  BY <1>10 DEF RenameNoReplace
<1>11. CASE RenameFails
  BY <1>11 DEF RenameFails
<1>12. CASE ConfirmPlaced
  BY <1>12 DEF ConfirmPlaced
<1>13. CASE PlacementFailure
  BY <1>13 DEF PlacementFailure
<1>14. CASE Activate
  BY <1>14 DEF Activate
<1>15. CASE SpawnBoundary
  BY <1>15 DEF SpawnBoundary
<1>16. CASE BeginSupervision
  BY <1>16 DEF BeginSupervision
<1>17. CASE EmitDiagnostics
  BY <1>17 DEF EmitDiagnostics
<1>18. CASE Spawn
  BY <1>18 DEF Spawn
<1>19. CASE ChildProvenDead
  BY <1>19 DEF ChildProvenDead
<1>20. CASE LivenessUncertain
  BY <1>20 DEF LivenessUncertain
<1>21. CASE BeginCleanup
  BY <1>21 DEF BeginCleanup
<1>22. CASE Keep
  BY <1>22 DEF Keep
<1>23. CASE SkipAction
  BY <1>23 DEF SkipAction
<1>24. CASE ClearAction
  BY <1>24 DEF ClearAction
<1>25. CASE ScanCandidate
  BY <1>25 DEF ScanCandidate
<1>26. CASE VerifyForRemoval
  BY <1>26 DEF VerifyForRemoval
<1>27. CASE Unlink
  BY <1>27 DEF Unlink
<1>28. CASE UnlinkFails
  BY <1>28 DEF UnlinkFails
<1>29. CASE Settle
  BY <1>29 DEF Settle
<1>30. CASE SettleAborts
  BY <1>30 DEF SettleAborts
<1>31. CASE LeaveUnresolved
  BY <1>31 DEF LeaveUnresolved
<1>32. CASE PassEnds
  BY <1>32 DEF PassEnds
<1>33. CASE RecordFailure
  BY <1>33 DEF RecordFailure
<1>34. CASE Complete
  BY <1>34 DEF Complete
<1>35. CASE Retire
  BY <1>35 DEF Retire
<1>36. CASE Recover
  BY <1>36 DEF Recover
<1>37. CASE CleanupExplicit
  BY <1>37 DEF CleanupExplicit
<1>38. CASE Crash
  BY <1>38 DEF Crash
<1>39. CASE ChildExits
  BY <1>39 DEF ChildExits
<1>40. ASSUME NEW a \in Created, NEW p \in Candidates, Occupy(a, p)
     PROVE  mode = "explicit"
  BY <1>40 DEF Occupy
<1>41. ASSUME NEW a \in Created, NEW p \in Candidates, MoveBack(a, p)
     PROVE  mode = "explicit"
  BY <1>41 DEF MoveBack
<1>42. ASSUME NEW a \in Created, Litter(a)
     PROVE  mode = "explicit"
  BY <1>42 DEF Litter
<1>43. ASSUME NEW a \in Created, MoveAway(a)
     PROVE  mode = "explicit"
  BY <1>43 DEF MoveAway
<1>44. ASSUME NEW a \in Created, Destroy(a)
     PROVE  mode = "explicit"
  BY <1>44 DEF Destroy
<1>45. ASSUME NEW a \in Created, Edit(a)
     PROVE  mode = "explicit"
  BY <1>45 DEF Edit
<1>46. ASSUME NEW s \in Slots, Vacate(s)
     PROVE  mode = "explicit"
  BY <1>46 DEF Vacate
<1>47. CASE UNCHANGED vars
  BY <1>47
<1>. QED
  BY <1>1, <1>2, <1>3, <1>4, <1>5, <1>6, <1>7, <1>8, <1>9, <1>10, <1>11, <1>12,
     <1>13, <1>14, <1>15, <1>16, <1>17, <1>18, <1>19, <1>20, <1>21, <1>22,
     <1>23, <1>24, <1>25, <1>26, <1>27, <1>28, <1>29, <1>30, <1>31, <1>32,
     <1>33, <1>34, <1>35, <1>36, <1>37, <1>38, <1>39, <1>40, <1>41, <1>42,
     <1>43, <1>44, <1>45, <1>46, <1>47
  DEF Next, Process, Apply, Supervise, Cleanup, OtherPrograms

\* A kept journal is changed by an operator's cleanup only: every other pass
\* that could write it would have had to adopt it first (recover.rs,
\* recover_stale_after_reacquire; journal/mod.rs, is_terminal).
THEOREM KeptStaysKept == Spec => KeptIsLeftAlone
<1>1. TypeInv /\ KeptInv /\ [Next]_vars =>
        (onDisk /\ disk.status = "kept" /\ <<onDisk, disk>>' # <<onDisk, disk>>
           => mode = "explicit")
  BY KeptChangeStep
<1>. QED  BY <1>1, TypeInvariant, KeptInvariant, PTL DEF Spec, KeptIsLeftAlone

-----------------------------------------------------------------------------
(* Write-ahead application.                                                *)

\* Between two actions, and once an intent is recorded, memory and disk agree;
\* the entry is created in between and its evidence is written before it moves.
WriteAhead ==
    /\ pc \in {"open", "idle"} => mem = NewJournal
    /\ pc \in {"begin", "check", "create", "place", "rename", "confirm",
               "activate"} => onDisk /\ disk = mem
    /\ pc = "create" => mem.st[cur] = "intent"
    /\ pc = "stage" =>
         /\ onDisk /\ disk.status = mem.status /\ disk.st = mem.st
         /\ mem.st[cur] = "intent" /\ mem.ev[cur]
    /\ pc \in {"place", "rename", "confirm"} =>
         mem.st[cur] = "staged" /\ mem.ev[cur]
    /\ pc \in {"check", "create", "stage", "place", "rename", "confirm",
               "activate"} => mem.status = "applying"

LEMMA WriteAheadStep == TypeInv /\ WriteAhead /\ [Next]_vars => WriteAhead'
<1>. SUFFICES ASSUME TypeInv, WriteAhead, [Next]_vars PROVE WriteAhead'
  OBVIOUS
<1>. USE DEF WriteAhead, AtAction, vars, procVars, diskVars, fsVars, history,
             budget, At, Exit, Reconciling, RollBack, ActionDone,
             CleanupRequired, NextCandidate, Adopt, Meddles
<1>1. CASE Open
  BY <1>1 DEF Open, Persists
<1>2. CASE BeginApply
  BY <1>2, StatusWrites DEF BeginApply, Persists
<1>3. CASE ConfirmReuse
  BY <1>3 DEF ConfirmReuse
<1>4. CASE Drift
  BY <1>4 DEF Drift
<1>5. CASE Intent
  BY <1>5, ActionWrites DEF Intent, Persists
<1>6. CASE CreateStaged
  BY <1>6, EvidenceWrites DEF CreateStaged
<1>7. CASE CreateFails
  BY <1>7 DEF CreateFails
<1>8. CASE Stage
  BY <1>8, ActionWrites DEF Stage, Persists
<1>9. CASE VerifyStaged
  BY <1>9 DEF VerifyStaged
<1>10. CASE RenameNoReplace
  BY <1>10 DEF RenameNoReplace
<1>11. CASE RenameFails
  BY <1>11 DEF RenameFails
<1>12. CASE ConfirmPlaced
  BY <1>12, ActionWrites DEF ConfirmPlaced, Persists
<1>13. CASE PlacementFailure
  BY <1>13 DEF PlacementFailure
<1>14. CASE Activate
  BY <1>14 DEF Activate
<1>15. CASE SpawnBoundary
  BY <1>15 DEF SpawnBoundary
<1>16. CASE BeginSupervision
  BY <1>16 DEF BeginSupervision
<1>17. CASE EmitDiagnostics
  BY <1>17 DEF EmitDiagnostics
<1>18. CASE Spawn
  BY <1>18 DEF Spawn
<1>19. CASE ChildProvenDead
  BY <1>19 DEF ChildProvenDead
<1>20. CASE LivenessUncertain
  BY <1>20 DEF LivenessUncertain
<1>21. CASE BeginCleanup
  BY <1>21 DEF BeginCleanup, Persists
<1>22. CASE Keep
  BY <1>22 DEF Keep
<1>23. CASE SkipAction
  BY <1>23 DEF SkipAction
<1>24. CASE ClearAction
  BY <1>24 DEF ClearAction
<1>25. CASE ScanCandidate
  BY <1>25 DEF ScanCandidate
<1>26. CASE VerifyForRemoval
  BY <1>26 DEF VerifyForRemoval
<1>27. CASE Unlink
  BY <1>27 DEF Unlink
<1>28. CASE UnlinkFails
  BY <1>28 DEF UnlinkFails
<1>29. CASE Settle
  BY <1>29 DEF Settle
<1>30. CASE SettleAborts
  BY <1>30 DEF SettleAborts
<1>31. CASE LeaveUnresolved
  BY <1>31 DEF LeaveUnresolved
<1>32. CASE PassEnds
  BY <1>32 DEF PassEnds
<1>33. CASE RecordFailure
  BY <1>33 DEF RecordFailure
<1>34. CASE Complete
  BY <1>34 DEF Complete
<1>35. CASE Retire
  BY <1>35 DEF Retire
<1>36. CASE Recover
  BY <1>36 DEF Recover
<1>37. CASE CleanupExplicit
  BY <1>37 DEF CleanupExplicit
<1>38. CASE Crash
  BY <1>38 DEF Crash
<1>39. CASE ChildExits
  BY <1>39 DEF ChildExits
<1>40. ASSUME NEW a \in Created, NEW p \in Candidates, Occupy(a, p)
     PROVE  WriteAhead'
  BY <1>40 DEF Occupy
<1>41. ASSUME NEW a \in Created, NEW p \in Candidates, MoveBack(a, p)
     PROVE  WriteAhead'
  BY <1>41 DEF MoveBack
<1>42. ASSUME NEW a \in Created, Litter(a)
     PROVE  WriteAhead'
  BY <1>42 DEF Litter
<1>43. ASSUME NEW a \in Created, MoveAway(a)
     PROVE  WriteAhead'
  BY <1>43 DEF MoveAway
<1>44. ASSUME NEW a \in Created, Destroy(a)
     PROVE  WriteAhead'
  BY <1>44 DEF Destroy
<1>45. ASSUME NEW a \in Created, Edit(a)
     PROVE  WriteAhead'
  BY <1>45 DEF Edit
<1>46. ASSUME NEW s \in Slots, Vacate(s)
     PROVE  WriteAhead'
  BY <1>46 DEF Vacate
<1>47. CASE UNCHANGED vars
  BY <1>47
<1>. QED
  BY <1>1, <1>2, <1>3, <1>4, <1>5, <1>6, <1>7, <1>8, <1>9, <1>10, <1>11, <1>12,
     <1>13, <1>14, <1>15, <1>16, <1>17, <1>18, <1>19, <1>20, <1>21, <1>22,
     <1>23, <1>24, <1>25, <1>26, <1>27, <1>28, <1>29, <1>30, <1>31, <1>32,
     <1>33, <1>34, <1>35, <1>36, <1>37, <1>38, <1>39, <1>40, <1>41, <1>42,
     <1>43, <1>44, <1>45, <1>46, <1>47
  DEF Next, Process, Apply, Supervise, Cleanup, OtherPrograms

LEMMA WriteAheadInvariant == Spec => []WriteAhead
<1>1. Init => WriteAhead
  BY DEF Init, WriteAhead
<1>. QED  BY <1>1, WriteAheadStep, TypeInvariant, PTL DEF Spec

Placed(a) == pc = "rename" /\ loc[a] = "temp" /\ loc'[a] = "final"

LEMMA PlacedStep ==
  ASSUME TypeInv, WriteAhead, [Next]_vars, NEW x \in Actions, Placed(x)
  PROVE  onDisk /\ disk.ev[x] /\ disk.st[x] = "staged"
<1>. USE DEF TypeInv, TypeOK, Placed, vars, procVars, diskVars, fsVars,
             history, budget, At, Exit, Reconciling, RollBack, ActionDone,
             CleanupRequired, NextCandidate, Adopt, Meddles
<1>1. CASE Open
  BY <1>1 DEF Open
<1>2. CASE BeginApply
  BY <1>2 DEF BeginApply
<1>3. CASE ConfirmReuse
  BY <1>3 DEF ConfirmReuse
<1>4. CASE Drift
  BY <1>4 DEF Drift
<1>5. CASE Intent
  BY <1>5 DEF Intent
<1>6. CASE CreateStaged
  BY <1>6 DEF CreateStaged
<1>7. CASE CreateFails
  BY <1>7 DEF CreateFails
<1>8. CASE Stage
  BY <1>8 DEF Stage
<1>9. CASE VerifyStaged
  BY <1>9 DEF VerifyStaged
<1>10. CASE RenameNoReplace
  BY <1>10 DEF RenameNoReplace, WriteAhead
<1>11. CASE RenameFails
  BY <1>11 DEF RenameFails
<1>12. CASE ConfirmPlaced
  BY <1>12 DEF ConfirmPlaced
<1>13. CASE PlacementFailure
  BY <1>13 DEF PlacementFailure
<1>14. CASE Activate
  BY <1>14 DEF Activate
<1>15. CASE SpawnBoundary
  BY <1>15 DEF SpawnBoundary
<1>16. CASE BeginSupervision
  BY <1>16 DEF BeginSupervision
<1>17. CASE EmitDiagnostics
  BY <1>17 DEF EmitDiagnostics
<1>18. CASE Spawn
  BY <1>18 DEF Spawn
<1>19. CASE ChildProvenDead
  BY <1>19 DEF ChildProvenDead
<1>20. CASE LivenessUncertain
  BY <1>20 DEF LivenessUncertain
<1>21. CASE BeginCleanup
  BY <1>21 DEF BeginCleanup
<1>22. CASE Keep
  BY <1>22 DEF Keep
<1>23. CASE SkipAction
  BY <1>23 DEF SkipAction
<1>24. CASE ClearAction
  BY <1>24 DEF ClearAction
<1>25. CASE ScanCandidate
  BY <1>25 DEF ScanCandidate
<1>26. CASE VerifyForRemoval
  BY <1>26 DEF VerifyForRemoval
<1>27. CASE Unlink
  BY <1>27 DEF Unlink
<1>28. CASE UnlinkFails
  BY <1>28 DEF UnlinkFails
<1>29. CASE Settle
  BY <1>29 DEF Settle
<1>30. CASE SettleAborts
  BY <1>30 DEF SettleAborts
<1>31. CASE LeaveUnresolved
  BY <1>31 DEF LeaveUnresolved
<1>32. CASE PassEnds
  BY <1>32 DEF PassEnds
<1>33. CASE RecordFailure
  BY <1>33 DEF RecordFailure
<1>34. CASE Complete
  BY <1>34 DEF Complete
<1>35. CASE Retire
  BY <1>35 DEF Retire
<1>36. CASE Recover
  BY <1>36 DEF Recover
<1>37. CASE CleanupExplicit
  BY <1>37 DEF CleanupExplicit
<1>38. CASE Crash
  BY <1>38 DEF Crash
<1>39. CASE ChildExits
  BY <1>39 DEF ChildExits
<1>40. ASSUME NEW a \in Created, NEW p \in Candidates, Occupy(a, p)
     PROVE  onDisk /\ disk.ev[x] /\ disk.st[x] = "staged"
  BY <1>40 DEF Occupy
<1>41. ASSUME NEW a \in Created, NEW p \in Candidates, MoveBack(a, p)
     PROVE  onDisk /\ disk.ev[x] /\ disk.st[x] = "staged"
  BY <1>41 DEF MoveBack
<1>42. ASSUME NEW a \in Created, Litter(a)
     PROVE  onDisk /\ disk.ev[x] /\ disk.st[x] = "staged"
  BY <1>42 DEF Litter
<1>43. ASSUME NEW a \in Created, MoveAway(a)
     PROVE  onDisk /\ disk.ev[x] /\ disk.st[x] = "staged"
  BY <1>43 DEF MoveAway
<1>44. ASSUME NEW a \in Created, Destroy(a)
     PROVE  onDisk /\ disk.ev[x] /\ disk.st[x] = "staged"
  BY <1>44 DEF Destroy
<1>45. ASSUME NEW a \in Created, Edit(a)
     PROVE  onDisk /\ disk.ev[x] /\ disk.st[x] = "staged"
  BY <1>45 DEF Edit
<1>46. ASSUME NEW s \in Slots, Vacate(s)
     PROVE  onDisk /\ disk.ev[x] /\ disk.st[x] = "staged"
  BY <1>46 DEF Vacate
<1>47. CASE UNCHANGED vars
  BY <1>47
<1>. QED
  BY <1>1, <1>2, <1>3, <1>4, <1>5, <1>6, <1>7, <1>8, <1>9, <1>10, <1>11, <1>12,
     <1>13, <1>14, <1>15, <1>16, <1>17, <1>18, <1>19, <1>20, <1>21, <1>22,
     <1>23, <1>24, <1>25, <1>26, <1>27, <1>28, <1>29, <1>30, <1>31, <1>32,
     <1>33, <1>34, <1>35, <1>36, <1>37, <1>38, <1>39, <1>40, <1>41, <1>42,
     <1>43, <1>44, <1>45, <1>46, <1>47
  DEF Next, Process, Apply, Supervise, Cleanup, OtherPrograms

\* An entry reaches its destination over durable evidence only: the staged
\* write is between its creation and its rename, and a failure of that write
\* never gets to the rename (apply.rs, create_and_place).
THEOREM EvidenceBeforePlacement == Spec => PlacedWithEvidence
<1>1. TypeInv /\ WriteAhead /\ [Next]_vars =>
        \A a \in Actions :
            Placed(a) => onDisk /\ disk.ev[a] /\ disk.st[a] = "staged"
  BY PlacedStep
<1>. QED  BY <1>1, TypeInvariant, WriteAheadInvariant, PTL
          DEF Spec, PlacedWithEvidence, Placed

-----------------------------------------------------------------------------
(* What is kept is complete.                                               *)

InPlace == {"applied", "reused"}
Whole(j) == \A a \in Actions : j.st[a] \in InPlace
ApplyLabels == {"check", "create", "stage", "place", "rename", "confirm"}

\* Everything before the current action is in place; reuse needs no work.
AppliedSoFar ==
    pc \in ApplyLabels => \A a \in Actions : a < cur => mem.st[a] \in InPlace
ReuseRecorded ==
    /\ pc \in ApplyLabels \cup {"open", "begin"} =>
         \A a \in Actions : Op[a] = "reuse" => mem.st[a] = "reused"
    /\ pc \in ApplyLabels \ {"check"} => Op[cur] # "reuse"
WholeInv ==
    /\ AppliedSoFar /\ ReuseRecorded
    /\ pc \in {"activate", "boundary", "supervise", "announce", "spawn",
               "wait", "keep"} => Whole(mem)
    /\ pc = "clean" /\ mode = "session" => Whole(mem)
    /\ disk.status = "kept" => Whole(disk)

LEMMA ActionDoneWhole ==
  ASSUME TypeInv, WholeInv, pc \in ApplyLabels, ActionDone,
         mem'.st[cur] \in InPlace, mem'.status = mem.status,
         \A a \in Actions \ {cur} : mem'.st[a] = mem.st[a],
         Op[cur] = "reuse" => mem'.st[cur] = "reused",
         disk' = mem' \/ disk' = disk, mem.status # "kept"
  PROVE  WholeInv'
<1>. USE DEF WholeInv, AppliedSoFar, ReuseRecorded, Whole, ApplyLabels, InPlace
<1>1. /\ cur \in Actions /\ N \in Nat
      /\ \A a \in Actions : mem.st[a] \in InPlace \/ a >= cur
  BY NAssumption DEF TypeInv, TypeOK, CurInRange, AtAction, Actions
<1>2. CASE cur = N
  BY <1>1, <1>2 DEF ActionDone, Actions
<1>3. CASE cur # N
  BY <1>1, <1>3 DEF ActionDone, Actions
<1>. QED  BY <1>2, <1>3

LEMMA WholeStep ==
  TypeInv /\ ModeInv /\ KeptInv /\ WriteAhead /\ WholeInv /\ [Next]_vars
    => WholeInv'
<1>. SUFFICES ASSUME TypeInv, ModeInv, KeptInv, WriteAhead, WholeInv,
                     [Next]_vars
              PROVE  WholeInv'
  OBVIOUS
<1>1. \A a \in Actions : Op[a] = "reuse" => NewJournal.st[a] = "reused"
  BY DEF NewJournal
<1>2. NewJournal.status = "planned"
  BY DEF NewJournal
<1>. USE DEF WholeInv, AppliedSoFar, ReuseRecorded, Whole, ApplyLabels,
             InPlace, AtAction, vars, procVars, diskVars, fsVars, history,
             budget, At, Exit, Reconciling, RollBack, ActionDone,
             CleanupRequired, NextCandidate, Adopt, Meddles
<1>3. CASE Open
  BY <1>3, <1>1, <1>2 DEF Open, Persists, PersistFails
<1>4. CASE BeginApply
  BY <1>4, <1>1, <1>2, StatusWrites
  DEF BeginApply, Persists, PersistFails, Actions
<1>5. CASE ConfirmReuse
  <2>1. CASE ActionDone
    <3>1. mem' = mem /\ disk' = disk /\ pc = "check" /\ Op[cur] = "reuse"
      BY <1>5 DEF ConfirmReuse
    <3>2. mem.st[cur] = "reused" /\ mem.status # "kept"
      BY <3>1 DEF TypeInv, CurInRange, KeptInv, KeptAdopted
    <3>. QED  BY <2>1, <3>1, <3>2, ActionDoneWhole
  <2>2. CASE RollBack
    BY <1>5, <2>2 DEF ConfirmReuse
  <2>. QED  BY <1>5, <2>1, <2>2 DEF ConfirmReuse
<1>6. CASE Drift
  BY <1>6 DEF Drift
<1>7. CASE Intent
  <2>1. /\ pc \in {"check", "stage"} /\ Op[cur] # "reuse"
        /\ disk' = mem' \/ disk' = disk
    BY <1>7 DEF Intent, Persists, PersistFails
  <2>2. /\ mem'.status = mem.status /\ mem.status # "kept"
        /\ \A a \in Actions \ {cur} : mem'.st[a] = mem.st[a]
    BY <1>7, ActionWrites DEF Intent, KeptInv, KeptAdopted
  <2>3. pc' = "reconcile" \/ (pc' \in ApplyLabels \ {"check"} /\ cur' = cur)
    BY <1>7 DEF Intent
  <2>4. cur \in Nat /\ \A a \in Actions : a \in Nat /\ (a < cur => a # cur)
    BY NAssumption DEF TypeInv, TypeOK, Actions
  <2>. QED  BY <2>1, <2>2, <2>3, <2>4
<1>8. CASE CreateStaged
  BY <1>8, EvidenceWrites DEF CreateStaged
<1>9. CASE CreateFails
  BY <1>9 DEF CreateFails
<1>10. CASE Stage
  <2>1. /\ pc \in {"check", "stage"} /\ Op[cur] # "reuse"
        /\ disk' = mem' \/ disk' = disk
    BY <1>10 DEF Stage, Persists, PersistFails
  <2>2. /\ mem'.status = mem.status /\ mem.status # "kept"
        /\ \A a \in Actions \ {cur} : mem'.st[a] = mem.st[a]
    BY <1>10, ActionWrites DEF Stage, KeptInv, KeptAdopted
  <2>3. pc' = "reconcile" \/ (pc' \in ApplyLabels \ {"check"} /\ cur' = cur)
    BY <1>10 DEF Stage
  <2>4. cur \in Nat /\ \A a \in Actions : a \in Nat /\ (a < cur => a # cur)
    BY NAssumption DEF TypeInv, TypeOK, Actions
  <2>. QED  BY <2>1, <2>2, <2>3, <2>4
<1>11. CASE VerifyStaged
  BY <1>11 DEF VerifyStaged
<1>12. CASE RenameNoReplace
  BY <1>12 DEF RenameNoReplace
<1>13. CASE RenameFails
  BY <1>13 DEF RenameFails
<1>14. CASE ConfirmPlaced
  <2>1. /\ mem' = WithAction(mem, cur, "applied") /\ pc = "confirm"
        /\ disk' = mem' \/ disk' = disk
    BY <1>14 DEF ConfirmPlaced, Persists, PersistFails
  <2>2. /\ mem'.status = mem.status /\ mem.status # "kept"
        /\ mem'.st[cur] = "applied" /\ Op[cur] # "reuse"
        /\ \A a \in Actions \ {cur} : mem'.st[a] = mem.st[a]
    BY <2>1, ActionWrites DEF KeptInv, KeptAdopted
  <2>3. CASE ActionDone
    BY <2>1, <2>2, <2>3, ActionDoneWhole
  <2>4. CASE RollBack
    BY <2>1, <2>2, <2>4
  <2>. QED  BY <1>14, <2>3, <2>4 DEF ConfirmPlaced
<1>15. CASE PlacementFailure
  BY <1>15 DEF PlacementFailure
<1>16. CASE Activate
  BY <1>16, <1>1, <1>2, StatusWrites, Withdrawals
  DEF Activate, Persists, PersistFails, Withdrawn
<1>17. CASE SpawnBoundary
  BY <1>17, Withdrawals DEF SpawnBoundary, Withdrawn
<1>18. CASE BeginSupervision
  BY <1>18, <1>1, <1>2, StatusWrites, Withdrawals
  DEF BeginSupervision, Persists, PersistFails, Withdrawn
<1>19. CASE EmitDiagnostics
  BY <1>19, Withdrawals DEF EmitDiagnostics, Withdrawn
<1>20. CASE Spawn
  BY <1>20 DEF Spawn
<1>21. CASE ChildProvenDead
  BY <1>21 DEF ChildProvenDead
<1>22. CASE LivenessUncertain
  BY <1>22, <1>1, <1>2 DEF LivenessUncertain, Persists, PersistFails
<1>23. CASE BeginCleanup
  BY <1>23, <1>1, <1>2, StatusWrites
  DEF BeginCleanup, Persists, PersistFails, ModeInv, RequestOfPass
<1>24. CASE Keep
  BY <1>24, <1>1, <1>2, StatusWrites DEF Keep, Persists, PersistFails
<1>25. CASE SkipAction
  BY <1>25 DEF SkipAction
<1>26. CASE ClearAction
  BY <1>26 DEF ClearAction
<1>27. CASE ScanCandidate
  BY <1>27 DEF ScanCandidate
<1>28. CASE VerifyForRemoval
  BY <1>28 DEF VerifyForRemoval
<1>29. CASE Unlink
  BY <1>29 DEF Unlink
<1>30. CASE UnlinkFails
  BY <1>30 DEF UnlinkFails
<1>31. CASE Settle
  BY <1>31, <1>1, <1>2, ActionWrites
  DEF Settle, Persists, PersistFails, KeptInv, KeptAdopted
<1>32. CASE SettleAborts
  BY <1>32, <1>1, <1>2, ActionWrites
  DEF SettleAborts, Persists, PersistFails, KeptInv, KeptAdopted
<1>33. CASE LeaveUnresolved
  BY <1>33 DEF LeaveUnresolved
<1>34. CASE PassEnds
  BY <1>34 DEF PassEnds
<1>35. CASE RecordFailure
  BY <1>35, <1>1, <1>2, StatusWrites, Withdrawals
  DEF RecordFailure, Persists, PersistFails, Withdrawn
<1>36. CASE Complete
  BY <1>36, <1>1, <1>2, StatusWrites, Withdrawals
  DEF Complete, Persists, PersistFails, Withdrawn
<1>37. CASE Retire
  BY <1>37, <1>1, <1>2 DEF Retire, Persists, PersistFails
<1>38. CASE Recover
  BY <1>38, Withdrawals DEF Recover, Withdrawn
<1>39. CASE CleanupExplicit
  BY <1>39, Withdrawals DEF CleanupExplicit, Withdrawn
<1>40. CASE Crash
  BY <1>40, <1>1, <1>2 DEF Crash, Persists, PersistFails
<1>41. CASE ChildExits
  BY <1>41 DEF ChildExits
<1>42. ASSUME NEW a \in Created, NEW p \in Candidates, Occupy(a, p)
     PROVE  WholeInv'
  BY <1>42 DEF Occupy
<1>43. ASSUME NEW a \in Created, NEW p \in Candidates, MoveBack(a, p)
     PROVE  WholeInv'
  BY <1>43 DEF MoveBack
<1>44. ASSUME NEW a \in Created, Litter(a)
     PROVE  WholeInv'
  BY <1>44 DEF Litter
<1>45. ASSUME NEW a \in Created, MoveAway(a)
     PROVE  WholeInv'
  BY <1>45 DEF MoveAway
<1>46. ASSUME NEW a \in Created, Destroy(a)
     PROVE  WholeInv'
  BY <1>46 DEF Destroy
<1>47. ASSUME NEW a \in Created, Edit(a)
     PROVE  WholeInv'
  BY <1>47 DEF Edit
<1>48. ASSUME NEW s \in Slots, Vacate(s)
     PROVE  WholeInv'
  BY <1>48 DEF Vacate
<1>49. CASE UNCHANGED vars
  BY <1>49
<1>. QED
  BY <1>3, <1>4, <1>5, <1>6, <1>7, <1>8, <1>9, <1>10, <1>11, <1>12, <1>13,
     <1>14, <1>15, <1>16, <1>17, <1>18, <1>19, <1>20, <1>21, <1>22, <1>23,
     <1>24, <1>25, <1>26, <1>27, <1>28, <1>29, <1>30, <1>31, <1>32, <1>33,
     <1>34, <1>35, <1>36, <1>37, <1>38, <1>39, <1>40, <1>41, <1>42, <1>43,
     <1>44, <1>45, <1>46, <1>47, <1>48, <1>49
  DEF Next, Process, Apply, Supervise, Cleanup, OtherPrograms

LEMMA WholeInvariant == Spec => []WholeInv
<1>1. Init => WholeInv
  BY DEF Init, NewJournal, WholeInv, AppliedSoFar, ReuseRecorded, Whole,
         ApplyLabels, InPlace
<1>. QED  BY <1>1, WholeStep, TypeInvariant, ModeInvariant, KeptInvariant,
             WriteAheadInvariant, PTL DEF Spec

\* A kept journal describes a mount that is entirely in place and that no child
\* uses: a request to keep survives neither a partial apply nor a recovery
\* (recover.rs, cleanup_recovered; cleanup.rs, cleanup_required).
THEOREM KeptIsWhole == Spec => []KeptMeansWhole
<1>1. KeptInv /\ WholeInv => KeptMeansWhole
  BY DEF KeptInv, KeptAtRest, WholeInv, Whole, InPlace, KeptMeansWhole
<1>. QED  BY <1>1, KeptInvariant, WholeInvariant, PTL

-----------------------------------------------------------------------------
(* The course of a reconciliation pass.                                    *)

Pending(j, a) == j.st[a] \in MayHaveCreatedSomething
PassLabels == {"reconcile", "scan", "unlink", "settle"}

\* What the pass has left behind it is no longer pending, or is unresolved; so
\* a pass that completes has no required action pending.
BehindThePass ==
    /\ pc \in PassLabels =>
         \A a \in Required : cur < a /\ Pending(mem, a) => a \in unresolved
    /\ pc = "complete" => \A a \in Required : ~Pending(mem, a)
RemovedNow == pc \in {"scan", "unlink"} => ~gone
CompletedLast ==
    /\ mem.status = "completed" => pc = "retire"
    /\ pc = "retire" => disk.status = "completed"
PassInv == BehindThePass /\ RemovedNow /\ CompletedLast

LEMMA RequiredActions ==
  /\ Required \subseteq Created /\ Created \subseteq Actions
  /\ \A a \in Required : Op[a] # "mkdir" /\ a \in Nat /\ 0 < a /\ a <= N
BY NAssumption DEF Required, Created, Actions

LEMMA PassStep == TypeInv /\ PassInv /\ [Next]_vars => PassInv'
<1>. SUFFICES ASSUME TypeInv, PassInv, [Next]_vars PROVE PassInv'
  OBVIOUS
<1>1. NewJournal.status = "planned"
  BY DEF NewJournal
<1>2. cur \in Nat /\ N \in Nat /\ (pc \in AtAction => cur \in Actions)
  BY NAssumption DEF TypeInv, TypeOK, CurInRange
<1>. USE DEF PassInv, BehindThePass, RemovedNow, CompletedLast, PassLabels,
             Pending, vars, procVars, diskVars, fsVars, history, budget, At,
             Exit, Reconciling, RollBack, ActionDone, CleanupRequired,
             NextCandidate, Adopt, Meddles
<1>3. CASE Open
  BY <1>3, <1>1 DEF Open
<1>4. CASE BeginApply
  BY <1>4, <1>1, <1>2, StatusWrites, Withdrawals, RequiredActions
  DEF BeginApply, Persists, Withdrawn
<1>5. CASE ConfirmReuse
  BY <1>5, <1>2, RequiredActions DEF ConfirmReuse
<1>6. CASE Drift
  BY <1>6, <1>2, RequiredActions DEF Drift
<1>7. CASE Intent
  BY <1>7, <1>2, ActionWrites, RequiredActions DEF Intent, AtAction
<1>8. CASE CreateStaged
  BY <1>8, EvidenceWrites DEF CreateStaged, AtAction
<1>9. CASE CreateFails
  BY <1>9, <1>2, RequiredActions DEF CreateFails
<1>10. CASE Stage
  BY <1>10, <1>2, ActionWrites, RequiredActions DEF Stage, AtAction
<1>11. CASE VerifyStaged
  BY <1>11, <1>2, RequiredActions DEF VerifyStaged
<1>12. CASE RenameNoReplace
  BY <1>12, <1>2, RequiredActions DEF RenameNoReplace
<1>13. CASE RenameFails
  BY <1>13, <1>2, RequiredActions DEF RenameFails
<1>14. CASE ConfirmPlaced
  BY <1>14, <1>2, ActionWrites, RequiredActions DEF ConfirmPlaced, AtAction
<1>15. CASE PlacementFailure
  BY <1>15, <1>2, RequiredActions DEF PlacementFailure
<1>16. CASE Activate
  BY <1>16, <1>1, <1>2, StatusWrites, Withdrawals, RequiredActions
  DEF Activate, Persists, Withdrawn
<1>17. CASE SpawnBoundary
  BY <1>17, Withdrawals DEF SpawnBoundary, Withdrawn
<1>18. CASE BeginSupervision
  BY <1>18, <1>1, <1>2, StatusWrites, Withdrawals, RequiredActions
  DEF BeginSupervision, Persists, Withdrawn
<1>19. CASE EmitDiagnostics
  BY <1>19, Withdrawals DEF EmitDiagnostics, Withdrawn
<1>20. CASE Spawn
  BY <1>20, <1>2, RequiredActions DEF Spawn
<1>21. CASE ChildProvenDead
  BY <1>21, <1>2, RequiredActions DEF ChildProvenDead
<1>22. CASE LivenessUncertain
  BY <1>22, <1>1 DEF LivenessUncertain
<1>23. CASE BeginCleanup
  BY <1>23, <1>1, <1>2, StatusWrites, Withdrawals, RequiredActions
  DEF BeginCleanup, Persists, Withdrawn
<1>24. CASE Keep
  BY <1>24, <1>1, <1>2, StatusWrites, Withdrawals, RequiredActions
  DEF Keep, Persists, Withdrawn
<1>25. CASE SkipAction
  BY <1>25, <1>2, RequiredActions DEF SkipAction, Candidate
<1>26. CASE ClearAction
  BY <1>26, <1>2, RequiredActions DEF ClearAction
<1>27. CASE ScanCandidate
  BY <1>27, <1>2, RequiredActions DEF ScanCandidate
<1>28. CASE VerifyForRemoval
  BY <1>28, <1>2, RequiredActions DEF VerifyForRemoval
<1>29. CASE Unlink
  BY <1>29, <1>2, RequiredActions DEF Unlink
<1>30. CASE UnlinkFails
  BY <1>30, <1>2, RequiredActions DEF UnlinkFails
<1>31. CASE Settle
  BY <1>31, <1>1, <1>2, ActionWrites, RequiredActions
  DEF Settle, AtAction, MayHaveCreatedSomething
<1>32. CASE SettleAborts
  BY <1>32, <1>1, <1>2, ActionWrites, RequiredActions
  DEF SettleAborts, AtAction, MayHaveCreatedSomething
<1>33. CASE LeaveUnresolved
  BY <1>33, <1>2, RequiredActions DEF LeaveUnresolved
<1>34. CASE PassEnds
  BY <1>34, <1>2, RequiredActions DEF PassEnds
<1>35. CASE RecordFailure
  BY <1>35, <1>1, <1>2, StatusWrites, Withdrawals, RequiredActions
  DEF RecordFailure, Persists, Withdrawn
<1>36. CASE Complete
  BY <1>36, <1>1, <1>2, StatusWrites, Withdrawals, RequiredActions
  DEF Complete, Persists, Withdrawn
<1>37. CASE Retire
  BY <1>37, <1>1 DEF Retire
<1>38. CASE Recover
  BY <1>38, Withdrawals DEF Recover, Withdrawn, AutomaticallyRecoverable, Terminal
<1>39. CASE CleanupExplicit
  BY <1>39, Withdrawals DEF CleanupExplicit, Withdrawn, AutomaticallyRecoverable, Terminal
<1>40. CASE Crash
  BY <1>40, <1>1 DEF Crash
<1>41. CASE ChildExits
  BY <1>41, <1>2, RequiredActions DEF ChildExits
<1>42. ASSUME NEW a \in Created, NEW p \in Candidates, Occupy(a, p)
     PROVE  PassInv'
  BY <1>42, <1>2, RequiredActions DEF Occupy
<1>43. ASSUME NEW a \in Created, NEW p \in Candidates, MoveBack(a, p)
     PROVE  PassInv'
  BY <1>43, <1>2, RequiredActions DEF MoveBack
<1>44. ASSUME NEW a \in Created, Litter(a)
     PROVE  PassInv'
  BY <1>44, <1>2, RequiredActions DEF Litter
<1>45. ASSUME NEW a \in Created, MoveAway(a)
     PROVE  PassInv'
  BY <1>45, <1>2, RequiredActions DEF MoveAway
<1>46. ASSUME NEW a \in Created, Destroy(a)
     PROVE  PassInv'
  BY <1>46, <1>2, RequiredActions DEF Destroy
<1>47. ASSUME NEW a \in Created, Edit(a)
     PROVE  PassInv'
  BY <1>47, <1>2, RequiredActions DEF Edit
<1>48. ASSUME NEW s \in Slots, Vacate(s)
     PROVE  PassInv'
  BY <1>48, <1>2, RequiredActions DEF Vacate
<1>49. CASE UNCHANGED vars
  BY <1>49
<1>. QED
  BY <1>3, <1>4, <1>5, <1>6, <1>7, <1>8, <1>9, <1>10, <1>11, <1>12, <1>13,
     <1>14, <1>15, <1>16, <1>17, <1>18, <1>19, <1>20, <1>21, <1>22, <1>23,
     <1>24, <1>25, <1>26, <1>27, <1>28, <1>29, <1>30, <1>31, <1>32, <1>33,
     <1>34, <1>35, <1>36, <1>37, <1>38, <1>39, <1>40, <1>41, <1>42, <1>43,
     <1>44, <1>45, <1>46, <1>47, <1>48, <1>49
  DEF Next, Process, Apply, Supervise, Cleanup, OtherPrograms

LEMMA PassInvariant == Spec => []PassInv
<1>1. Init => PassInv
  BY DEF Init, NewJournal, PassInv, BehindThePass, RemovedNow, CompletedLast,
         PassLabels
<1>. QED  BY <1>1, PassStep, TypeInvariant, PTL DEF Spec

-----------------------------------------------------------------------------
(* Ownership.                                                              *)

\* What other programs cannot do: bring back what was removed, make an entry
\* this transaction never created, or come between a last check and its use
\* without being noticed.
LEMMA OthersKeep ==
  ASSUME TypeInv, OtherPrograms
  PROVE  /\ \A a \in Actions :
              /\ loc'[a] \in Existing => loc[a] \in Existing
              /\ loc[a] = "unlinked" => loc'[a] = "unlinked"
              /\ loc[a] = "none" => loc'[a] = "none"
         /\ ~raced' /\ pc = "unlink" => loc'[cur] = loc[cur]
         /\ ~raced' => ~raced
         /\ UNCHANGED <<procVars, diskVars, accepted>>
<1>. USE DEF TypeInv, TypeOK, Meddles, Races, Existing, Candidates
<1>1. ASSUME NEW a \in Created, NEW p \in Candidates, Occupy(a, p)
      PROVE  UNCHANGED loc /\ Meddles
  BY <1>1 DEF Occupy
<1>2. ASSUME NEW a \in Created, NEW p \in Candidates, MoveBack(a, p)
      PROVE  /\ Meddles /\ loc[a] = "away"
             /\ loc' = [loc EXCEPT ![a] = p]
  BY <1>2 DEF MoveBack
<1>3. ASSUME NEW a \in Created, Litter(a) PROVE UNCHANGED loc /\ Meddles
  BY <1>3 DEF Litter
<1>4. ASSUME NEW a \in Created, MoveAway(a)
      PROVE  /\ Meddles
             /\ \A b \in Actions :
                  loc'[b] = loc[b] \/ (loc[b] \in Candidates /\ loc'[b] = "away")
  BY <1>4 DEF MoveAway
<1>5. ASSUME NEW a \in Created, Destroy(a)
      PROVE  /\ Meddles /\ loc[a] \in Existing
             /\ loc' = [loc EXCEPT ![a] = "destroyed"]
  BY <1>5 DEF Destroy
<1>6. ASSUME NEW a \in Created, Edit(a) PROVE UNCHANGED loc /\ Meddles
  BY <1>6 DEF Edit
<1>7. ASSUME NEW s \in Slots, Vacate(s) PROVE UNCHANGED loc /\ Meddles
  BY <1>7 DEF Vacate
<1>8. Meddles
  BY <1>1, <1>2, <1>3, <1>4, <1>5, <1>6, <1>7 DEF OtherPrograms
<1>9. \A a \in Actions :
        /\ loc'[a] \in Existing => loc[a] \in Existing
        /\ loc[a] = "unlinked" => loc'[a] = "unlinked"
        /\ loc[a] = "none" => loc'[a] = "none"
  BY <1>1, <1>2, <1>3, <1>4, <1>5, <1>6, <1>7 DEF OtherPrograms
<1>. QED  BY <1>8, <1>9 DEF Meddles, Races

\* The entry a check verified is still the one under the hand of the process,
\* and `gone` says that it has been unlinked.
UnderHand ==
    /\ pc = "unlink" => loc[cur] = cand
    /\ pc = "settle" /\ gone => loc[cur] = "unlinked"
\* Neither journal calls a required entry rolled back unless it was unlinked.
ProvedGone(a) ==
    a \notin accepted =>
        /\ disk.st[a] = "rolled_back" => loc[a] = "unlinked"
        /\ mem.st[a] = "rolled_back" => loc[a] = "unlinked"
\* Neither journal has forgotten a required entry that exists.
Known(a) ==
    a \notin accepted /\ loc[a] \in Existing =>
        /\ onDisk /\ disk.status # "completed" /\ Pending(disk, a)
        /\ pc # "open" /\ (pc = "idle" \/ Pending(mem, a))
OwnedInv ==
    ~raced => UnderHand /\ \A a \in Required : ProvedGone(a) /\ Known(a)

LEMMA UnderHandStep ==
  ASSUME TypeInv, PassInv, UnderHand, [Next]_vars, ~raced'
  PROVE  UnderHand'
<1>1. pc \in AtAction => cur \in Actions
  BY DEF TypeInv, CurInRange
<1>. USE DEF UnderHand, vars, procVars, diskVars, fsVars, history, budget, At,
             Exit, Reconciling, RollBack, ActionDone, CleanupRequired,
             NextCandidate, Adopt, Meddles
<1>2. CASE Open
  BY <1>2 DEF Open
<1>3. CASE BeginApply
  BY <1>3 DEF BeginApply
<1>4. CASE ConfirmReuse
  BY <1>4 DEF ConfirmReuse
<1>5. CASE Drift
  BY <1>5 DEF Drift
<1>6. CASE Intent
  BY <1>6 DEF Intent
<1>7. CASE CreateStaged
  BY <1>7 DEF CreateStaged
<1>8. CASE CreateFails
  BY <1>8 DEF CreateFails
<1>9. CASE Stage
  BY <1>9 DEF Stage
<1>10. CASE VerifyStaged
  BY <1>10 DEF VerifyStaged
<1>11. CASE RenameNoReplace
  BY <1>11 DEF RenameNoReplace
<1>12. CASE RenameFails
  BY <1>12 DEF RenameFails
<1>13. CASE ConfirmPlaced
  BY <1>13 DEF ConfirmPlaced
<1>14. CASE PlacementFailure
  BY <1>14 DEF PlacementFailure
<1>15. CASE Activate
  BY <1>15 DEF Activate
<1>16. CASE SpawnBoundary
  BY <1>16 DEF SpawnBoundary
<1>17. CASE BeginSupervision
  BY <1>17 DEF BeginSupervision
<1>18. CASE EmitDiagnostics
  BY <1>18 DEF EmitDiagnostics
<1>19. CASE Spawn
  BY <1>19 DEF Spawn
<1>20. CASE ChildProvenDead
  BY <1>20 DEF ChildProvenDead
<1>21. CASE LivenessUncertain
  BY <1>21 DEF LivenessUncertain
<1>22. CASE BeginCleanup
  BY <1>22 DEF BeginCleanup
<1>23. CASE Keep
  BY <1>23 DEF Keep
<1>24. CASE SkipAction
  BY <1>24 DEF SkipAction
<1>25. CASE ClearAction
  BY <1>25 DEF ClearAction
<1>26. CASE ScanCandidate
  BY <1>26 DEF ScanCandidate, PassInv, RemovedNow
<1>27. CASE VerifyForRemoval
  BY <1>27 DEF VerifyForRemoval, MayRemove, Verified
<1>28. CASE Unlink
  BY <1>28, <1>1 DEF Unlink, AtAction, TypeInv, TypeOK
<1>29. CASE UnlinkFails
  BY <1>29 DEF UnlinkFails, PassInv, RemovedNow
<1>30. CASE Settle
  BY <1>30 DEF Settle
<1>31. CASE SettleAborts
  BY <1>31 DEF SettleAborts
<1>32. CASE LeaveUnresolved
  BY <1>32 DEF LeaveUnresolved
<1>33. CASE PassEnds
  BY <1>33 DEF PassEnds
<1>34. CASE RecordFailure
  BY <1>34 DEF RecordFailure
<1>35. CASE Complete
  BY <1>35 DEF Complete
<1>36. CASE Retire
  BY <1>36 DEF Retire
<1>37. CASE Recover
  BY <1>37 DEF Recover
<1>38. CASE CleanupExplicit
  BY <1>38 DEF CleanupExplicit
<1>39. CASE Crash
  BY <1>39 DEF Crash
<1>40. CASE ChildExits
  BY <1>40 DEF ChildExits
<1>41. ASSUME NEW a \in Created, NEW p \in Candidates, Occupy(a, p)
     PROVE  UnderHand'
  BY <1>41, <1>1, OthersKeep DEF OtherPrograms, AtAction
<1>42. ASSUME NEW a \in Created, NEW p \in Candidates, MoveBack(a, p)
     PROVE  UnderHand'
  BY <1>42, <1>1, OthersKeep DEF OtherPrograms, AtAction
<1>43. ASSUME NEW a \in Created, Litter(a)
     PROVE  UnderHand'
  BY <1>43, <1>1, OthersKeep DEF OtherPrograms, AtAction
<1>44. ASSUME NEW a \in Created, MoveAway(a)
     PROVE  UnderHand'
  BY <1>44, <1>1, OthersKeep DEF OtherPrograms, AtAction
<1>45. ASSUME NEW a \in Created, Destroy(a)
     PROVE  UnderHand'
  BY <1>45, <1>1, OthersKeep DEF OtherPrograms, AtAction
<1>46. ASSUME NEW a \in Created, Edit(a)
     PROVE  UnderHand'
  BY <1>46, <1>1, OthersKeep DEF OtherPrograms, AtAction
<1>47. ASSUME NEW s \in Slots, Vacate(s)
     PROVE  UnderHand'
  BY <1>47, <1>1, OthersKeep DEF OtherPrograms, AtAction
<1>48. CASE UNCHANGED vars
  BY <1>48
<1>. QED
  BY <1>2, <1>3, <1>4, <1>5, <1>6, <1>7, <1>8, <1>9, <1>10, <1>11, <1>12,
     <1>13, <1>14, <1>15, <1>16, <1>17, <1>18, <1>19, <1>20, <1>21, <1>22,
     <1>23, <1>24, <1>25, <1>26, <1>27, <1>28, <1>29, <1>30, <1>31, <1>32,
     <1>33, <1>34, <1>35, <1>36, <1>37, <1>38, <1>39, <1>40, <1>41, <1>42,
     <1>43, <1>44, <1>45, <1>46, <1>47, <1>48
  DEF Next, Process, Apply, Supervise, Cleanup, OtherPrograms

LEMMA ProvedGoneStep ==
  ASSUME TypeInv, WriteAhead, UnderHand, [Next]_vars, ~raced',
         NEW x \in Required, ProvedGone(x)
  PROVE  ProvedGone(x)'
<1>1. NewJournal.st[x] # "rolled_back"
  BY RequiredActions DEF NewJournal
<1>2. (pc \in AtAction => cur \in Actions) /\ x \in Actions
  BY RequiredActions DEF TypeInv, CurInRange
<1>. USE DEF ProvedGone, vars, procVars, diskVars, fsVars, history, budget, At,
             Exit, Reconciling, RollBack, ActionDone, CleanupRequired,
             NextCandidate, Adopt, Meddles
<1>3. CASE Open
  BY <1>3, <1>1 DEF Open, Persists, PersistFails
<1>4. CASE BeginApply
  BY <1>4, <1>1, StatusWrites, Withdrawals
  DEF BeginApply, Persists, PersistFails, Withdrawn
<1>5. CASE ConfirmReuse
  BY <1>5, <1>2 DEF ConfirmReuse
<1>6. CASE Drift
  BY <1>6, <1>2 DEF Drift
<1>7. CASE Intent
  BY <1>7, <1>2, ActionWrites DEF Intent, AtAction, Persists, PersistFails
<1>8. CASE CreateStaged
  BY <1>8, <1>2, EvidenceWrites DEF CreateStaged, AtAction, WriteAhead, TypeInv, TypeOK
<1>9. CASE CreateFails
  BY <1>9, <1>2 DEF CreateFails, AtAction, WriteAhead, TypeInv, TypeOK
<1>10. CASE Stage
  BY <1>10, <1>2, ActionWrites DEF Stage, AtAction, Persists, PersistFails
<1>11. CASE VerifyStaged
  BY <1>11, <1>2 DEF VerifyStaged
<1>12. CASE RenameNoReplace
  BY <1>12, <1>2 DEF RenameNoReplace, AtAction, TypeInv, TypeOK
<1>13. CASE RenameFails
  BY <1>13, <1>2 DEF RenameFails
<1>14. CASE ConfirmPlaced
  BY <1>14, <1>2, ActionWrites DEF ConfirmPlaced, AtAction, Persists, PersistFails
<1>15. CASE PlacementFailure
  BY <1>15, <1>2 DEF PlacementFailure
<1>16. CASE Activate
  BY <1>16, <1>1, StatusWrites, Withdrawals
  DEF Activate, Persists, PersistFails, Withdrawn
<1>17. CASE SpawnBoundary
  BY <1>17, Withdrawals DEF SpawnBoundary, Withdrawn
<1>18. CASE BeginSupervision
  BY <1>18, <1>1, StatusWrites, Withdrawals
  DEF BeginSupervision, Persists, PersistFails, Withdrawn
<1>19. CASE EmitDiagnostics
  BY <1>19, Withdrawals DEF EmitDiagnostics, Withdrawn
<1>20. CASE Spawn
  BY <1>20, <1>2 DEF Spawn
<1>21. CASE ChildProvenDead
  BY <1>21, <1>2 DEF ChildProvenDead
<1>22. CASE LivenessUncertain
  BY <1>22, <1>1 DEF LivenessUncertain, Persists, PersistFails
<1>23. CASE BeginCleanup
  BY <1>23, <1>1, StatusWrites, Withdrawals
  DEF BeginCleanup, Persists, PersistFails, Withdrawn
<1>24. CASE Keep
  BY <1>24, <1>1, StatusWrites, Withdrawals
  DEF Keep, Persists, PersistFails, Withdrawn
<1>25. CASE SkipAction
  BY <1>25, <1>2 DEF SkipAction
<1>26. CASE ClearAction
  BY <1>26, <1>2 DEF ClearAction
<1>27. CASE ScanCandidate
  BY <1>27, <1>2 DEF ScanCandidate
<1>28. CASE VerifyForRemoval
  BY <1>28, <1>2 DEF VerifyForRemoval
<1>29. CASE Unlink
  BY <1>29, <1>2 DEF Unlink, AtAction, TypeInv, TypeOK
<1>30. CASE UnlinkFails
  BY <1>30, <1>2 DEF UnlinkFails
<1>31. CASE Settle
  BY <1>31, <1>1, <1>2, ActionWrites
  DEF Settle, AtAction, Persists, PersistFails, Discharged, UnderHand
<1>32. CASE SettleAborts
  BY <1>32, <1>1, <1>2, ActionWrites
  DEF SettleAborts, AtAction, Persists, PersistFails, Discharged, UnderHand
<1>33. CASE LeaveUnresolved
  BY <1>33, <1>2 DEF LeaveUnresolved
<1>34. CASE PassEnds
  BY <1>34, <1>2 DEF PassEnds
<1>35. CASE RecordFailure
  BY <1>35, <1>1, StatusWrites, Withdrawals
  DEF RecordFailure, Persists, PersistFails, Withdrawn
<1>36. CASE Complete
  BY <1>36, <1>1, StatusWrites, Withdrawals
  DEF Complete, Persists, PersistFails, Withdrawn
<1>37. CASE Retire
  BY <1>37, <1>1 DEF Retire, Persists, PersistFails
<1>38. CASE Recover
  BY <1>38, Withdrawals DEF Recover, Withdrawn
<1>39. CASE CleanupExplicit
  BY <1>39, Withdrawals DEF CleanupExplicit, Withdrawn
<1>40. CASE Crash
  BY <1>40, <1>1 DEF Crash, Persists, PersistFails
<1>41. CASE ChildExits
  BY <1>41, <1>2 DEF ChildExits
<1>42. ASSUME NEW a \in Created, NEW p \in Candidates, Occupy(a, p)
     PROVE  ProvedGone(x)'
  BY <1>42, <1>2, OthersKeep DEF OtherPrograms
<1>43. ASSUME NEW a \in Created, NEW p \in Candidates, MoveBack(a, p)
     PROVE  ProvedGone(x)'
  BY <1>43, <1>2, OthersKeep DEF OtherPrograms
<1>44. ASSUME NEW a \in Created, Litter(a)
     PROVE  ProvedGone(x)'
  BY <1>44, <1>2, OthersKeep DEF OtherPrograms
<1>45. ASSUME NEW a \in Created, MoveAway(a)
     PROVE  ProvedGone(x)'
  BY <1>45, <1>2, OthersKeep DEF OtherPrograms
<1>46. ASSUME NEW a \in Created, Destroy(a)
     PROVE  ProvedGone(x)'
  BY <1>46, <1>2, OthersKeep DEF OtherPrograms
<1>47. ASSUME NEW a \in Created, Edit(a)
     PROVE  ProvedGone(x)'
  BY <1>47, <1>2, OthersKeep DEF OtherPrograms
<1>48. ASSUME NEW s \in Slots, Vacate(s)
     PROVE  ProvedGone(x)'
  BY <1>48, <1>2, OthersKeep DEF OtherPrograms
<1>49. CASE UNCHANGED vars
  BY <1>49
<1>. QED
  BY <1>3, <1>4, <1>5, <1>6, <1>7, <1>8, <1>9, <1>10, <1>11, <1>12, <1>13,
     <1>14, <1>15, <1>16, <1>17, <1>18, <1>19, <1>20, <1>21, <1>22, <1>23,
     <1>24, <1>25, <1>26, <1>27, <1>28, <1>29, <1>30, <1>31, <1>32, <1>33,
     <1>34, <1>35, <1>36, <1>37, <1>38, <1>39, <1>40, <1>41, <1>42, <1>43,
     <1>44, <1>45, <1>46, <1>47, <1>48, <1>49
  DEF Next, Process, Apply, Supervise, Cleanup, OtherPrograms

LEMMA KnownStep ==
  ASSUME TypeInv, WriteAhead, PassInv, UnderHand, [Next]_vars, ~raced',
         NEW x \in Required, Known(x)
  PROVE  Known(x)'
<1>1. /\ (pc \in AtAction => cur \in Actions)
      /\ x \in Created /\ x \in Actions /\ Op[x] # "mkdir"
  BY RequiredActions DEF TypeInv, CurInRange
<1>. USE DEF Known, Pending, vars, procVars, diskVars, fsVars, history, budget,
             At, Exit, Reconciling, RollBack, ActionDone, CleanupRequired,
             NextCandidate, Adopt, Meddles
<1>2. CASE Open
  BY <1>2 DEF Open, Persists, PersistFails
<1>3. CASE BeginApply
  BY <1>3, <1>1, StatusWrites, Withdrawals
  DEF BeginApply, Persists, PersistFails, Withdrawn, PassInv, BehindThePass
<1>4. CASE ConfirmReuse
  BY <1>4, <1>1 DEF ConfirmReuse
<1>5. CASE Drift
  BY <1>5, <1>1 DEF Drift
<1>6. CASE Intent
  BY <1>6, <1>1, ActionWrites
  DEF Intent, AtAction, Persists, PersistFails, MayHaveCreatedSomething, PassInv,
      CompletedLast
<1>7. CASE CreateStaged
  BY <1>7, <1>1, EvidenceWrites
  DEF CreateStaged, AtAction, WriteAhead, TypeInv, TypeOK, MayHaveCreatedSomething
<1>8. CASE CreateFails
  BY <1>8, <1>1
  DEF CreateFails, AtAction, WriteAhead, TypeInv, TypeOK, MayHaveCreatedSomething
<1>9. CASE Stage
  BY <1>9, <1>1, ActionWrites
  DEF Stage, AtAction, Persists, PersistFails, MayHaveCreatedSomething, PassInv,
      CompletedLast
<1>10. CASE VerifyStaged
  BY <1>10, <1>1 DEF VerifyStaged
<1>11. CASE RenameNoReplace
  BY <1>11, <1>1 DEF RenameNoReplace, AtAction, TypeInv, TypeOK, Existing
<1>12. CASE RenameFails
  BY <1>12, <1>1 DEF RenameFails
<1>13. CASE ConfirmPlaced
  BY <1>13, <1>1, ActionWrites
  DEF ConfirmPlaced, AtAction, Persists, PersistFails, MayHaveCreatedSomething, PassInv,
      CompletedLast
<1>14. CASE PlacementFailure
  BY <1>14, <1>1 DEF PlacementFailure
<1>15. CASE Activate
  BY <1>15, <1>1, StatusWrites, Withdrawals
  DEF Activate, Persists, PersistFails, Withdrawn, PassInv, BehindThePass
<1>16. CASE SpawnBoundary
  BY <1>16, Withdrawals DEF SpawnBoundary, Withdrawn
<1>17. CASE BeginSupervision
  BY <1>17, <1>1, StatusWrites, Withdrawals
  DEF BeginSupervision, Persists, PersistFails, Withdrawn, PassInv, BehindThePass
<1>18. CASE EmitDiagnostics
  BY <1>18, Withdrawals DEF EmitDiagnostics, Withdrawn
<1>19. CASE Spawn
  BY <1>19, <1>1 DEF Spawn
<1>20. CASE ChildProvenDead
  BY <1>20, <1>1 DEF ChildProvenDead
<1>21. CASE LivenessUncertain
  BY <1>21 DEF LivenessUncertain, Persists, PersistFails
<1>22. CASE BeginCleanup
  BY <1>22, <1>1, StatusWrites, Withdrawals
  DEF BeginCleanup, Persists, PersistFails, Withdrawn, PassInv, BehindThePass
<1>23. CASE Keep
  BY <1>23, <1>1, StatusWrites, Withdrawals
  DEF Keep, Persists, PersistFails, Withdrawn, PassInv, BehindThePass
<1>24. CASE SkipAction
  BY <1>24, <1>1 DEF SkipAction
<1>25. CASE ClearAction
  BY <1>25, <1>1 DEF ClearAction
<1>26. CASE ScanCandidate
  BY <1>26, <1>1 DEF ScanCandidate
<1>27. CASE VerifyForRemoval
  BY <1>27, <1>1 DEF VerifyForRemoval
<1>28. CASE Unlink
  BY <1>28, <1>1 DEF Unlink, AtAction, TypeInv, TypeOK, Existing
<1>29. CASE UnlinkFails
  BY <1>29, <1>1 DEF UnlinkFails
<1>30. CASE Settle
  BY <1>30, <1>1, ActionWrites
  DEF Settle, AtAction, Persists, PersistFails, Discharged, UnderHand, Existing,
      PassInv, CompletedLast
<1>31. CASE SettleAborts
  BY <1>31, <1>1, ActionWrites
  DEF SettleAborts, AtAction, Persists, PersistFails, Discharged, UnderHand, Existing,
      PassInv, CompletedLast
<1>32. CASE LeaveUnresolved
  BY <1>32, <1>1 DEF LeaveUnresolved
<1>33. CASE PassEnds
  BY <1>33, <1>1 DEF PassEnds
<1>34. CASE RecordFailure
  BY <1>34, <1>1, StatusWrites, Withdrawals
  DEF RecordFailure, Persists, PersistFails, Withdrawn, PassInv, BehindThePass
<1>35. CASE Complete
  BY <1>35, <1>1, StatusWrites, Withdrawals
  DEF Complete, Persists, PersistFails, Withdrawn, PassInv, BehindThePass
<1>36. CASE Retire
  BY <1>36 DEF Retire, PassInv, CompletedLast
<1>37. CASE Recover
  BY <1>37, Withdrawals DEF Recover, Withdrawn
<1>38. CASE CleanupExplicit
  BY <1>38, Withdrawals DEF CleanupExplicit, Withdrawn
<1>39. CASE Crash
  BY <1>39 DEF Crash, Persists, PersistFails
<1>40. CASE ChildExits
  BY <1>40, <1>1 DEF ChildExits
<1>41. ASSUME NEW a \in Created, NEW p \in Candidates, Occupy(a, p)
     PROVE  Known(x)'
  BY <1>41, <1>1, OthersKeep DEF OtherPrograms
<1>42. ASSUME NEW a \in Created, NEW p \in Candidates, MoveBack(a, p)
     PROVE  Known(x)'
  BY <1>42, <1>1, OthersKeep DEF OtherPrograms
<1>43. ASSUME NEW a \in Created, Litter(a)
     PROVE  Known(x)'
  BY <1>43, <1>1, OthersKeep DEF OtherPrograms
<1>44. ASSUME NEW a \in Created, MoveAway(a)
     PROVE  Known(x)'
  BY <1>44, <1>1, OthersKeep DEF OtherPrograms
<1>45. ASSUME NEW a \in Created, Destroy(a)
     PROVE  Known(x)'
  BY <1>45, <1>1, OthersKeep DEF OtherPrograms
<1>46. ASSUME NEW a \in Created, Edit(a)
     PROVE  Known(x)'
  BY <1>46, <1>1, OthersKeep DEF OtherPrograms
<1>47. ASSUME NEW s \in Slots, Vacate(s)
     PROVE  Known(x)'
  BY <1>47, <1>1, OthersKeep DEF OtherPrograms
<1>48. CASE UNCHANGED vars
  BY <1>48
<1>. QED
  BY <1>2, <1>3, <1>4, <1>5, <1>6, <1>7, <1>8, <1>9, <1>10, <1>11, <1>12,
     <1>13, <1>14, <1>15, <1>16, <1>17, <1>18, <1>19, <1>20, <1>21, <1>22,
     <1>23, <1>24, <1>25, <1>26, <1>27, <1>28, <1>29, <1>30, <1>31, <1>32,
     <1>33, <1>34, <1>35, <1>36, <1>37, <1>38, <1>39, <1>40, <1>41, <1>42,
     <1>43, <1>44, <1>45, <1>46, <1>47, <1>48
  DEF Next, Process, Apply, Supervise, Cleanup, OtherPrograms

LEMMA RacedStays == TypeInv /\ [Next]_vars /\ ~raced' => ~raced
<1>. SUFFICES ASSUME TypeInv, [Next]_vars, ~raced' PROVE ~raced
  OBVIOUS
<1>. USE DEF vars, procVars, diskVars, fsVars, history, budget, At, Exit,
             Reconciling, RollBack, ActionDone, CleanupRequired, NextCandidate,
             Adopt, Meddles
<1>1. CASE Open
  BY <1>1 DEF Open
<1>2. CASE BeginApply
  BY <1>2 DEF BeginApply
<1>3. CASE ConfirmReuse
  BY <1>3 DEF ConfirmReuse
<1>4. CASE Drift
  BY <1>4 DEF Drift
<1>5. CASE Intent
  BY <1>5 DEF Intent
<1>6. CASE CreateStaged
  BY <1>6 DEF CreateStaged
<1>7. CASE CreateFails
  BY <1>7 DEF CreateFails
<1>8. CASE Stage
  BY <1>8 DEF Stage
<1>9. CASE VerifyStaged
  BY <1>9 DEF VerifyStaged
<1>10. CASE RenameNoReplace
  BY <1>10 DEF RenameNoReplace
<1>11. CASE RenameFails
  BY <1>11 DEF RenameFails
<1>12. CASE ConfirmPlaced
  BY <1>12 DEF ConfirmPlaced
<1>13. CASE PlacementFailure
  BY <1>13 DEF PlacementFailure
<1>14. CASE Activate
  BY <1>14 DEF Activate
<1>15. CASE SpawnBoundary
  BY <1>15 DEF SpawnBoundary
<1>16. CASE BeginSupervision
  BY <1>16 DEF BeginSupervision
<1>17. CASE EmitDiagnostics
  BY <1>17 DEF EmitDiagnostics
<1>18. CASE Spawn
  BY <1>18 DEF Spawn
<1>19. CASE ChildProvenDead
  BY <1>19 DEF ChildProvenDead
<1>20. CASE LivenessUncertain
  BY <1>20 DEF LivenessUncertain
<1>21. CASE BeginCleanup
  BY <1>21 DEF BeginCleanup
<1>22. CASE Keep
  BY <1>22 DEF Keep
<1>23. CASE SkipAction
  BY <1>23 DEF SkipAction
<1>24. CASE ClearAction
  BY <1>24 DEF ClearAction
<1>25. CASE ScanCandidate
  BY <1>25 DEF ScanCandidate
<1>26. CASE VerifyForRemoval
  BY <1>26 DEF VerifyForRemoval
<1>27. CASE Unlink
  BY <1>27 DEF Unlink
<1>28. CASE UnlinkFails
  BY <1>28 DEF UnlinkFails
<1>29. CASE Settle
  BY <1>29 DEF Settle
<1>30. CASE SettleAborts
  BY <1>30 DEF SettleAborts
<1>31. CASE LeaveUnresolved
  BY <1>31 DEF LeaveUnresolved
<1>32. CASE PassEnds
  BY <1>32 DEF PassEnds
<1>33. CASE RecordFailure
  BY <1>33 DEF RecordFailure
<1>34. CASE Complete
  BY <1>34 DEF Complete
<1>35. CASE Retire
  BY <1>35 DEF Retire
<1>36. CASE Recover
  BY <1>36 DEF Recover
<1>37. CASE CleanupExplicit
  BY <1>37 DEF CleanupExplicit
<1>38. CASE Crash
  BY <1>38 DEF Crash
<1>39. CASE ChildExits
  BY <1>39 DEF ChildExits
<1>40. ASSUME NEW a \in Created, NEW p \in Candidates, Occupy(a, p)
     PROVE  ~raced
  BY <1>40 DEF Occupy
<1>41. ASSUME NEW a \in Created, NEW p \in Candidates, MoveBack(a, p)
     PROVE  ~raced
  BY <1>41 DEF MoveBack
<1>42. ASSUME NEW a \in Created, Litter(a)
     PROVE  ~raced
  BY <1>42 DEF Litter
<1>43. ASSUME NEW a \in Created, MoveAway(a)
     PROVE  ~raced
  BY <1>43 DEF MoveAway
<1>44. ASSUME NEW a \in Created, Destroy(a)
     PROVE  ~raced
  BY <1>44 DEF Destroy
<1>45. ASSUME NEW a \in Created, Edit(a)
     PROVE  ~raced
  BY <1>45 DEF Edit
<1>46. ASSUME NEW s \in Slots, Vacate(s)
     PROVE  ~raced
  BY <1>46 DEF Vacate
<1>47. CASE UNCHANGED vars
  BY <1>47
<1>. QED
  BY <1>1, <1>2, <1>3, <1>4, <1>5, <1>6, <1>7, <1>8, <1>9, <1>10, <1>11, <1>12,
     <1>13, <1>14, <1>15, <1>16, <1>17, <1>18, <1>19, <1>20, <1>21, <1>22,
     <1>23, <1>24, <1>25, <1>26, <1>27, <1>28, <1>29, <1>30, <1>31, <1>32,
     <1>33, <1>34, <1>35, <1>36, <1>37, <1>38, <1>39, <1>40, <1>41, <1>42,
     <1>43, <1>44, <1>45, <1>46, <1>47
  DEF Next, Process, Apply, Supervise, Cleanup, OtherPrograms

LEMMA OwnedStep ==
  TypeInv /\ WriteAhead /\ PassInv /\ OwnedInv /\ [Next]_vars => OwnedInv'
<1>. SUFFICES ASSUME TypeInv, WriteAhead, PassInv, OwnedInv, [Next]_vars,
                     ~raced'
              PROVE  /\ UnderHand'
                     /\ \A a \in Required : ProvedGone(a)' /\ Known(a)'
  BY DEF OwnedInv
<1>1. UnderHand /\ \A a \in Required : ProvedGone(a) /\ Known(a)
  BY RacedStays DEF OwnedInv
<1>2. UnderHand'
  BY <1>1, UnderHandStep
<1>3. ASSUME NEW a \in Required PROVE ProvedGone(a)' /\ Known(a)'
  BY <1>1, <1>3, ProvedGoneStep, KnownStep
<1>. QED  BY <1>2, <1>3

LEMMA OwnedInvariant == Spec => []OwnedInv
<1>1. Init => OwnedInv
  BY RequiredActions
  DEF Init, OwnedInv, UnderHand, ProvedGone, Known, Existing, NewJournal
<1>. QED  BY <1>1, OwnedStep, TypeInvariant, WriteAheadInvariant,
             PassInvariant, PTL DEF Spec

\* Write-ahead ownership: through any number of crashes, failed writes and
\* moves by other programs, a link or configuration file that exists is pending
\* in the journal on disk, until an operator's cleanup accepts its absence
\* (apply.rs, create_and_place; cleanup.rs, outcome_for).
THEOREM OwnershipIsNeverForgotten == Spec => []OwnedStaysRecorded
<1>1. OwnedInv => OwnedStaysRecorded
  BY DEF OwnedInv, Known, OwnedStaysRecorded, Forgotten, Pending
<1>. QED  BY <1>1, OwnedInvariant, PTL

\* What the journal calls rolled back was verified and unlinked: absence alone
\* discharges no required action, in any pass of any process (cleanup.rs,
\* retain_if_no_verified_removal and outcome_for).
THEOREM AbsenceNeverDischarges == Spec => []AbsenceIsNotProof
<1>1. OwnedInv => AbsenceIsNotProof
  BY DEF OwnedInv, ProvedGone, AbsenceIsNotProof
<1>. QED  BY <1>1, OwnedInvariant, PTL

-----------------------------------------------------------------------------
(* What a step may take away.                                              *)

\* Actions the process has not come to have created nothing, and only what was
\* created can have been edited.
Untouched(a) ==
    /\ pc \in {"open", "begin"} => loc[a] = "none"
    /\ pc \in {"check", "create"} /\ cur <= a => loc[a] = "none"
    /\ pc \in ApplyLabels /\ cur < a => loc[a] = "none"
    /\ a \in edited => loc[a] # "none"

\* Until another program interferes, what was verified stays what it was.
StillVerified ==
    ~raced =>
        /\ pc = "unlink" => loc[cur] = cand /\ cur \notin edited
        /\ pc = "rename" => loc[cur] = "temp" /\ cur \notin edited

LEMMA UntouchedStep ==
  ASSUME TypeInv, [Next]_vars, NEW x \in Actions, Untouched(x)
  PROVE  Untouched(x)'
<1>1. /\ pc \in AtAction => cur \in Actions
      /\ x \in Nat /\ cur \in Nat /\ 1 <= x /\ x <= N /\ N \in Nat
      /\ loc \in [Actions -> Places]
  BY NAssumption DEF TypeInv, TypeOK, CurInRange, Actions
<1>. USE DEF Untouched, ApplyLabels, vars, procVars, diskVars, fsVars, history,
             budget, At, Exit, Reconciling, RollBack, ActionDone,
             CleanupRequired, NextCandidate, Adopt, Meddles
<1>2. CASE Open
  BY <1>2, <1>1 DEF Open
<1>3. CASE BeginApply
  BY <1>3, <1>1 DEF BeginApply
<1>4. CASE ConfirmReuse
  BY <1>4, <1>1 DEF ConfirmReuse
<1>5. CASE Drift
  BY <1>5, <1>1 DEF Drift
<1>6. CASE Intent
  BY <1>6, <1>1 DEF Intent
<1>7. CASE CreateStaged
  BY <1>7, <1>1 DEF CreateStaged, AtAction
<1>8. CASE CreateFails
  BY <1>8, <1>1 DEF CreateFails, AtAction
<1>9. CASE Stage
  BY <1>9, <1>1 DEF Stage
<1>10. CASE VerifyStaged
  BY <1>10, <1>1 DEF VerifyStaged
<1>11. CASE RenameNoReplace
  BY <1>11, <1>1 DEF RenameNoReplace, AtAction
<1>12. CASE RenameFails
  BY <1>12, <1>1 DEF RenameFails
<1>13. CASE ConfirmPlaced
  BY <1>13, <1>1 DEF ConfirmPlaced
<1>14. CASE PlacementFailure
  BY <1>14, <1>1 DEF PlacementFailure
<1>15. CASE Activate
  BY <1>15, <1>1 DEF Activate
<1>16. CASE SpawnBoundary
  BY <1>16, <1>1 DEF SpawnBoundary
<1>17. CASE BeginSupervision
  BY <1>17, <1>1 DEF BeginSupervision
<1>18. CASE EmitDiagnostics
  BY <1>18, <1>1 DEF EmitDiagnostics
<1>19. CASE Spawn
  BY <1>19, <1>1 DEF Spawn
<1>20. CASE ChildProvenDead
  BY <1>20, <1>1 DEF ChildProvenDead
<1>21. CASE LivenessUncertain
  BY <1>21, <1>1 DEF LivenessUncertain
<1>22. CASE BeginCleanup
  BY <1>22, <1>1 DEF BeginCleanup
<1>23. CASE Keep
  BY <1>23, <1>1 DEF Keep
<1>24. CASE SkipAction
  BY <1>24, <1>1 DEF SkipAction
<1>25. CASE ClearAction
  BY <1>25, <1>1 DEF ClearAction
<1>26. CASE ScanCandidate
  BY <1>26, <1>1 DEF ScanCandidate
<1>27. CASE VerifyForRemoval
  BY <1>27, <1>1 DEF VerifyForRemoval
<1>28. CASE Unlink
  BY <1>28, <1>1 DEF Unlink, AtAction
<1>29. CASE UnlinkFails
  BY <1>29, <1>1 DEF UnlinkFails
<1>30. CASE Settle
  BY <1>30, <1>1 DEF Settle
<1>31. CASE SettleAborts
  BY <1>31, <1>1 DEF SettleAborts
<1>32. CASE LeaveUnresolved
  BY <1>32, <1>1 DEF LeaveUnresolved
<1>33. CASE PassEnds
  BY <1>33, <1>1 DEF PassEnds
<1>34. CASE RecordFailure
  BY <1>34, <1>1 DEF RecordFailure
<1>35. CASE Complete
  BY <1>35, <1>1 DEF Complete
<1>36. CASE Retire
  BY <1>36, <1>1 DEF Retire
<1>37. CASE Recover
  BY <1>37, <1>1 DEF Recover
<1>38. CASE CleanupExplicit
  BY <1>38, <1>1 DEF CleanupExplicit
<1>39. CASE Crash
  BY <1>39, <1>1 DEF Crash
<1>40. CASE ChildExits
  BY <1>40, <1>1 DEF ChildExits
<1>41. ASSUME NEW a \in Created, NEW p \in Candidates, Occupy(a, p)
     PROVE  Untouched(x)'
  BY <1>41, <1>1, OthersKeep DEF Occupy, OtherPrograms
<1>42. ASSUME NEW a \in Created, NEW p \in Candidates, MoveBack(a, p)
     PROVE  Untouched(x)'
  BY <1>42, <1>1 DEF MoveBack, Candidates
<1>43. ASSUME NEW a \in Created, Litter(a)
     PROVE  Untouched(x)'
  BY <1>43, <1>1, OthersKeep DEF Litter, OtherPrograms
<1>44. ASSUME NEW a \in Created, MoveAway(a)
     PROVE  Untouched(x)'
  BY <1>44, <1>1, OthersKeep DEF MoveAway, OtherPrograms
<1>45. ASSUME NEW a \in Created, Destroy(a)
     PROVE  Untouched(x)'
  BY <1>45, <1>1, OthersKeep DEF Destroy, OtherPrograms
<1>46. ASSUME NEW a \in Created, Edit(a)
     PROVE  Untouched(x)'
  BY <1>46, <1>1, OthersKeep DEF Edit, OtherPrograms, Existing
<1>47. ASSUME NEW s \in Slots, Vacate(s)
     PROVE  Untouched(x)'
  BY <1>47, <1>1, OthersKeep DEF Vacate, OtherPrograms
<1>48. CASE UNCHANGED vars
  BY <1>48
<1>. QED
  BY <1>2, <1>3, <1>4, <1>5, <1>6, <1>7, <1>8, <1>9, <1>10, <1>11, <1>12,
     <1>13, <1>14, <1>15, <1>16, <1>17, <1>18, <1>19, <1>20, <1>21, <1>22,
     <1>23, <1>24, <1>25, <1>26, <1>27, <1>28, <1>29, <1>30, <1>31, <1>32,
     <1>33, <1>34, <1>35, <1>36, <1>37, <1>38, <1>39, <1>40, <1>41, <1>42,
     <1>43, <1>44, <1>45, <1>46, <1>47, <1>48
  DEF Next, Process, Apply, Supervise, Cleanup, OtherPrograms

LEMMA StillVerifiedStep ==
  ASSUME TypeInv, StillVerified, [Next]_vars
  PROVE  StillVerified'
<1>. USE DEF StillVerified, vars, procVars, diskVars, fsVars, history, budget,
             At, Exit, Reconciling, RollBack, ActionDone, CleanupRequired,
             NextCandidate, Adopt, Meddles
<1>1. CASE Open
  BY <1>1 DEF Open
<1>2. CASE BeginApply
  BY <1>2 DEF BeginApply
<1>3. CASE ConfirmReuse
  BY <1>3 DEF ConfirmReuse
<1>4. CASE Drift
  BY <1>4 DEF Drift
<1>5. CASE Intent
  BY <1>5 DEF Intent
<1>6. CASE CreateStaged
  BY <1>6 DEF CreateStaged
<1>7. CASE CreateFails
  BY <1>7 DEF CreateFails
<1>8. CASE Stage
  BY <1>8 DEF Stage
<1>9. CASE VerifyStaged
  BY <1>9 DEF VerifyStaged, Verified
<1>10. CASE RenameNoReplace
  BY <1>10 DEF RenameNoReplace
<1>11. CASE RenameFails
  BY <1>11 DEF RenameFails
<1>12. CASE ConfirmPlaced
  BY <1>12 DEF ConfirmPlaced
<1>13. CASE PlacementFailure
  BY <1>13 DEF PlacementFailure
<1>14. CASE Activate
  BY <1>14 DEF Activate
<1>15. CASE SpawnBoundary
  BY <1>15 DEF SpawnBoundary
<1>16. CASE BeginSupervision
  BY <1>16 DEF BeginSupervision
<1>17. CASE EmitDiagnostics
  BY <1>17 DEF EmitDiagnostics
<1>18. CASE Spawn
  BY <1>18 DEF Spawn
<1>19. CASE ChildProvenDead
  BY <1>19 DEF ChildProvenDead
<1>20. CASE LivenessUncertain
  BY <1>20 DEF LivenessUncertain
<1>21. CASE BeginCleanup
  BY <1>21 DEF BeginCleanup
<1>22. CASE Keep
  BY <1>22 DEF Keep
<1>23. CASE SkipAction
  BY <1>23 DEF SkipAction
<1>24. CASE ClearAction
  BY <1>24 DEF ClearAction
<1>25. CASE ScanCandidate
  BY <1>25 DEF ScanCandidate
<1>26. CASE VerifyForRemoval
  BY <1>26 DEF VerifyForRemoval, MayRemove, Verified
<1>27. CASE Unlink
  BY <1>27 DEF Unlink
<1>28. CASE UnlinkFails
  BY <1>28 DEF UnlinkFails
<1>29. CASE Settle
  BY <1>29 DEF Settle
<1>30. CASE SettleAborts
  BY <1>30 DEF SettleAborts
<1>31. CASE LeaveUnresolved
  BY <1>31 DEF LeaveUnresolved
<1>32. CASE PassEnds
  BY <1>32 DEF PassEnds
<1>33. CASE RecordFailure
  BY <1>33 DEF RecordFailure
<1>34. CASE Complete
  BY <1>34 DEF Complete
<1>35. CASE Retire
  BY <1>35 DEF Retire
<1>36. CASE Recover
  BY <1>36 DEF Recover
<1>37. CASE CleanupExplicit
  BY <1>37 DEF CleanupExplicit
<1>38. CASE Crash
  BY <1>38 DEF Crash
<1>39. CASE ChildExits
  BY <1>39 DEF ChildExits
<1>40. ASSUME NEW a \in Created, NEW p \in Candidates, Occupy(a, p)
     PROVE  StillVerified'
  BY <1>40 DEF Occupy, Races
<1>41. ASSUME NEW a \in Created, NEW p \in Candidates, MoveBack(a, p)
     PROVE  StillVerified'
  BY <1>41 DEF MoveBack, Races
<1>42. ASSUME NEW a \in Created, Litter(a)
     PROVE  StillVerified'
  BY <1>42 DEF Litter, Races
<1>43. ASSUME NEW a \in Created, MoveAway(a)
     PROVE  StillVerified'
  BY <1>43 DEF MoveAway, Races
<1>44. ASSUME NEW a \in Created, Destroy(a)
     PROVE  StillVerified'
  BY <1>44 DEF Destroy, Races
<1>45. ASSUME NEW a \in Created, Edit(a)
     PROVE  StillVerified'
  BY <1>45 DEF Edit, Races
<1>46. ASSUME NEW s \in Slots, Vacate(s)
     PROVE  StillVerified'
  BY <1>46 DEF Vacate, Races
<1>47. CASE UNCHANGED vars
  BY <1>47
<1>. QED
  BY <1>1, <1>2, <1>3, <1>4, <1>5, <1>6, <1>7, <1>8, <1>9, <1>10, <1>11, <1>12,
     <1>13, <1>14, <1>15, <1>16, <1>17, <1>18, <1>19, <1>20, <1>21, <1>22,
     <1>23, <1>24, <1>25, <1>26, <1>27, <1>28, <1>29, <1>30, <1>31, <1>32,
     <1>33, <1>34, <1>35, <1>36, <1>37, <1>38, <1>39, <1>40, <1>41, <1>42,
     <1>43, <1>44, <1>45, <1>46, <1>47
  DEF Next, Process, Apply, Supervise, Cleanup, OtherPrograms

Intact == StillVerified /\ \A a \in Actions : Untouched(a)

LEMMA IntactInvariant == Spec => []Intact
<1>1. Init => Intact
  BY DEF Init, Intact, StillVerified, Untouched, ApplyLabels
<1>2. TypeInv /\ Intact /\ [Next]_vars => Intact'
  BY StillVerifiedStep, UntouchedStep DEF Intact
<1>. QED  BY <1>1, <1>2, TypeInvariant, PTL DEF Spec

TakesOnlyOwn ==
    /\ foreign \subseteq foreign'
    /\ \A a \in edited : loc'[a] = loc[a]

LEMMA TakesOnlyOwnStep ==
  ASSUME TypeInv, StillVerified, \A a \in Actions : Untouched(a),
         [Next]_vars, meddling' = meddling, ~raced
  PROVE  TakesOnlyOwn
<1>1. /\ pc \in AtAction => cur \in Actions
      /\ loc \in [Actions -> Places] /\ edited \subseteq Actions
      /\ meddling \in Nat
      /\ cur <= cur
  BY BoundAssumption DEF TypeInv, TypeOK, CurInRange
<1>. USE DEF TakesOnlyOwn, vars, procVars, diskVars, fsVars, history, budget,
             At, Exit, Reconciling, RollBack, ActionDone, CleanupRequired,
             NextCandidate, Adopt, Meddles
<1>2. CASE Open
  BY <1>2 DEF Open
<1>3. CASE BeginApply
  BY <1>3 DEF BeginApply
<1>4. CASE ConfirmReuse
  BY <1>4 DEF ConfirmReuse
<1>5. CASE Drift
  BY <1>5 DEF Drift
<1>6. CASE Intent
  BY <1>6 DEF Intent
<1>7. CASE CreateStaged
  BY <1>7, <1>1 DEF CreateStaged, AtAction, Untouched
<1>8. CASE CreateFails
  BY <1>8, <1>1 DEF CreateFails, AtAction, Untouched
<1>9. CASE Stage
  BY <1>9 DEF Stage
<1>10. CASE VerifyStaged
  BY <1>10 DEF VerifyStaged
<1>11. CASE RenameNoReplace
  BY <1>11, <1>1 DEF RenameNoReplace, AtAction, StillVerified
<1>12. CASE RenameFails
  BY <1>12 DEF RenameFails
<1>13. CASE ConfirmPlaced
  BY <1>13 DEF ConfirmPlaced
<1>14. CASE PlacementFailure
  BY <1>14 DEF PlacementFailure
<1>15. CASE Activate
  BY <1>15 DEF Activate
<1>16. CASE SpawnBoundary
  BY <1>16 DEF SpawnBoundary
<1>17. CASE BeginSupervision
  BY <1>17 DEF BeginSupervision
<1>18. CASE EmitDiagnostics
  BY <1>18 DEF EmitDiagnostics
<1>19. CASE Spawn
  BY <1>19 DEF Spawn
<1>20. CASE ChildProvenDead
  BY <1>20 DEF ChildProvenDead
<1>21. CASE LivenessUncertain
  BY <1>21 DEF LivenessUncertain
<1>22. CASE BeginCleanup
  BY <1>22 DEF BeginCleanup
<1>23. CASE Keep
  BY <1>23 DEF Keep
<1>24. CASE SkipAction
  BY <1>24 DEF SkipAction
<1>25. CASE ClearAction
  BY <1>25 DEF ClearAction
<1>26. CASE ScanCandidate
  BY <1>26 DEF ScanCandidate
<1>27. CASE VerifyForRemoval
  BY <1>27 DEF VerifyForRemoval
<1>28. CASE Unlink
  BY <1>28, <1>1 DEF Unlink, AtAction, StillVerified
<1>29. CASE UnlinkFails
  BY <1>29 DEF UnlinkFails
<1>30. CASE Settle
  BY <1>30 DEF Settle
<1>31. CASE SettleAborts
  BY <1>31 DEF SettleAborts
<1>32. CASE LeaveUnresolved
  BY <1>32 DEF LeaveUnresolved
<1>33. CASE PassEnds
  BY <1>33 DEF PassEnds
<1>34. CASE RecordFailure
  BY <1>34 DEF RecordFailure
<1>35. CASE Complete
  BY <1>35 DEF Complete
<1>36. CASE Retire
  BY <1>36 DEF Retire
<1>37. CASE Recover
  BY <1>37 DEF Recover
<1>38. CASE CleanupExplicit
  BY <1>38 DEF CleanupExplicit
<1>39. CASE Crash
  BY <1>39 DEF Crash
<1>40. CASE ChildExits
  BY <1>40 DEF ChildExits
<1>41. ASSUME NEW a \in Created, NEW p \in Candidates, Occupy(a, p)
     PROVE  TakesOnlyOwn
  BY <1>41, <1>1 DEF Occupy
<1>42. ASSUME NEW a \in Created, NEW p \in Candidates, MoveBack(a, p)
     PROVE  TakesOnlyOwn
  BY <1>42, <1>1 DEF MoveBack
<1>43. ASSUME NEW a \in Created, Litter(a)
     PROVE  TakesOnlyOwn
  BY <1>43, <1>1 DEF Litter
<1>44. ASSUME NEW a \in Created, MoveAway(a)
     PROVE  TakesOnlyOwn
  BY <1>44, <1>1 DEF MoveAway
<1>45. ASSUME NEW a \in Created, Destroy(a)
     PROVE  TakesOnlyOwn
  BY <1>45, <1>1 DEF Destroy
<1>46. ASSUME NEW a \in Created, Edit(a)
     PROVE  TakesOnlyOwn
  BY <1>46, <1>1 DEF Edit
<1>47. ASSUME NEW s \in Slots, Vacate(s)
     PROVE  TakesOnlyOwn
  BY <1>47, <1>1 DEF Vacate
<1>48. CASE UNCHANGED vars
  BY <1>48
<1>. QED
  BY <1>2, <1>3, <1>4, <1>5, <1>6, <1>7, <1>8, <1>9, <1>10, <1>11, <1>12,
     <1>13, <1>14, <1>15, <1>16, <1>17, <1>18, <1>19, <1>20, <1>21, <1>22,
     <1>23, <1>24, <1>25, <1>26, <1>27, <1>28, <1>29, <1>30, <1>31, <1>32,
     <1>33, <1>34, <1>35, <1>36, <1>37, <1>38, <1>39, <1>40, <1>41, <1>42,
     <1>43, <1>44, <1>45, <1>46, <1>47, <1>48
  DEF Next, Process, Apply, Supervise, Cleanup, OtherPrograms

\* The process takes away what it created and found unchanged, and nothing
\* else, up to the races of a platform that mutates by pathname (link/mod.rs,
\* verify_ownership; cleanup.rs, remove_candidate).
THEOREM OnlyOwnIsTaken == Spec => OnlyOwnEntriesRemoved
<1>1. TypeInv /\ Intact /\ [Next]_vars
        => (meddling' = meddling /\ ~raced => TakesOnlyOwn)
  BY TakesOnlyOwnStep DEF Intact
<1>2. (meddling' = meddling /\ ~raced => TakesOnlyOwn)
        => (meddling' = meddling /\ ~raced =>
              /\ foreign \subseteq foreign'
              /\ \A a \in edited : loc'[a] = loc[a])
  BY DEF TakesOnlyOwn
<1>. QED  BY <1>1, <1>2, IntactInvariant, TypeInvariant, PTL
          DEF Spec, OnlyOwnEntriesRemoved

-----------------------------------------------------------------------------
(* The journal on disk speaks for the one in memory.                       *)

\* A running process has its journal on disk, a completed journal is never
\* taken up again, and only the operator's passes accept an absence.
Journaled ==
    /\ pc \notin {"open", "idle"} => onDisk
    /\ disk.status = "completed" => pc \in {"idle", "retire"}
    /\ mode = "explicit" \/ accepted # {} => operator
    /\ pc \in {"scan", "unlink", "settle"} => Candidate(cur)

LEMMA JournaledStep ==
  TypeInv /\ PassInv /\ Journaled /\ [Next]_vars => Journaled'
<1>. SUFFICES ASSUME TypeInv, PassInv, Journaled, [Next]_vars
              PROVE  Journaled'
  OBVIOUS
<1>1. NewJournal.status = "planned"
  BY DEF NewJournal
<1>2. mem.status = "completed" => pc = "retire"
  BY DEF PassInv, CompletedLast
<1>. USE DEF Journaled, Candidate, vars, procVars, diskVars, fsVars, history,
             budget, At, Exit, Reconciling, RollBack, ActionDone,
             CleanupRequired, NextCandidate, Adopt, Meddles, Persists,
             PersistFails
<1>3. CASE Open
  BY <1>3, <1>1, <1>2 DEF Open
<1>4. CASE BeginApply
  BY <1>4, <1>1, <1>2, StatusWrites, Withdrawals DEF BeginApply, Withdrawn
<1>5. CASE ConfirmReuse
  BY <1>5, <1>1, <1>2 DEF ConfirmReuse
<1>6. CASE Drift
  BY <1>6, <1>1, <1>2 DEF Drift
<1>7. CASE Intent
  <2>1. mem'.status = mem.status
    BY <1>7, ActionWrites DEF Intent, AtAction
  <2>2. (disk.status = "completed")' => disk.status = "completed"
    BY <1>7, <1>2, <2>1 DEF Intent
  <2>3. onDisk /\ pc \notin {"idle", "open", "retire"} /\ (onDisk' = TRUE \/ onDisk' = onDisk)
    BY <1>7 DEF Intent
  <2>4. /\ UNCHANGED <<accepted, operator>>
        /\ pc' \notin {"scan", "unlink", "settle"} /\ mode' \in {mode, "rollback"}
    BY <1>7 DEF Intent
  <2>. QED  BY <2>2, <2>3, <2>4
<1>8. CASE CreateStaged
  BY <1>8, EvidenceWrites, <1>2 DEF CreateStaged, AtAction
<1>9. CASE CreateFails
  BY <1>9, <1>1, <1>2 DEF CreateFails
<1>10. CASE Stage
  <2>1. mem'.status = mem.status
    BY <1>10, ActionWrites DEF Stage, AtAction
  <2>2. (disk.status = "completed")' => disk.status = "completed"
    BY <1>10, <1>2, <2>1 DEF Stage
  <2>3. onDisk /\ pc \notin {"idle", "open", "retire"} /\ (onDisk' = TRUE \/ onDisk' = onDisk)
    BY <1>10 DEF Stage
  <2>4. /\ UNCHANGED <<accepted, operator>>
        /\ pc' \notin {"scan", "unlink", "settle"} /\ mode' \in {mode, "rollback"}
    BY <1>10 DEF Stage
  <2>. QED  BY <2>2, <2>3, <2>4
<1>11. CASE VerifyStaged
  BY <1>11, <1>1, <1>2 DEF VerifyStaged
<1>12. CASE RenameNoReplace
  BY <1>12, <1>1, <1>2 DEF RenameNoReplace
<1>13. CASE RenameFails
  BY <1>13, <1>1, <1>2 DEF RenameFails
<1>14. CASE ConfirmPlaced
  <2>1. mem'.status = mem.status
    BY <1>14, ActionWrites DEF ConfirmPlaced, AtAction
  <2>2. (disk.status = "completed")' => disk.status = "completed"
    BY <1>14, <1>2, <2>1 DEF ConfirmPlaced
  <2>3. onDisk /\ pc \notin {"idle", "open", "retire"} /\ (onDisk' = TRUE \/ onDisk' = onDisk)
    BY <1>14 DEF ConfirmPlaced
  <2>4. /\ UNCHANGED <<accepted, operator>>
        /\ pc' \notin {"scan", "unlink", "settle"} /\ mode' \in {mode, "rollback"}
    BY <1>14 DEF ConfirmPlaced
  <2>. QED  BY <2>2, <2>3, <2>4
<1>15. CASE PlacementFailure
  BY <1>15, <1>1, <1>2 DEF PlacementFailure
<1>16. CASE Activate
  BY <1>16, <1>1, <1>2, StatusWrites, Withdrawals DEF Activate, Withdrawn
<1>17. CASE SpawnBoundary
  BY <1>17, <1>1, <1>2, StatusWrites, Withdrawals DEF SpawnBoundary, Withdrawn
<1>18. CASE BeginSupervision
  BY <1>18, <1>1, <1>2, StatusWrites, Withdrawals
  DEF BeginSupervision, Withdrawn
<1>19. CASE EmitDiagnostics
  BY <1>19, <1>1, <1>2, StatusWrites, Withdrawals
  DEF EmitDiagnostics, Withdrawn
<1>20. CASE Spawn
  BY <1>20, <1>1, <1>2 DEF Spawn
<1>21. CASE ChildProvenDead
  BY <1>21, <1>1, <1>2 DEF ChildProvenDead
<1>22. CASE LivenessUncertain
  BY <1>22, <1>1 DEF LivenessUncertain
<1>23. CASE BeginCleanup
  BY <1>23, <1>1, <1>2, StatusWrites, Withdrawals DEF BeginCleanup, Withdrawn
<1>24. CASE Keep
  BY <1>24, <1>1, <1>2, StatusWrites, Withdrawals DEF Keep, Withdrawn
<1>25. CASE SkipAction
  BY <1>25, <1>1, <1>2 DEF SkipAction
<1>26. CASE ClearAction
  BY <1>26, <1>1, <1>2 DEF ClearAction
<1>27. CASE ScanCandidate
  BY <1>27, <1>1, <1>2 DEF ScanCandidate
<1>28. CASE VerifyForRemoval
  BY <1>28, <1>1, <1>2 DEF VerifyForRemoval
<1>29. CASE Unlink
  BY <1>29, <1>1, <1>2 DEF Unlink
<1>30. CASE UnlinkFails
  BY <1>30, <1>1, <1>2 DEF UnlinkFails
<1>31. CASE Settle
  <2>1. WithAction(mem, cur, "rolled_back").status = mem.status
    BY <1>31, ActionWrites DEF Settle, AtAction
  <2>2. (disk.status = "completed")' => disk.status = "completed" \/ pc' = "idle"
    BY <1>31, <1>2, <2>1 DEF Settle
  <2>3. /\ pc = "settle" /\ onDisk /\ (onDisk' = TRUE \/ onDisk' = onDisk)
        /\ operator' = operator
        /\ pc' \notin {"scan", "unlink", "settle"} /\ mode' \in {mode, "session"}
        /\ accepted' = accepted \/ mode = "explicit"
    BY <1>31 DEF Settle, AcceptsAbsence
  <2>. QED  BY <2>2, <2>3
<1>32. CASE SettleAborts
  <2>1. WithAction(mem, cur, "rolled_back").status = mem.status
    BY <1>32, ActionWrites DEF SettleAborts, AtAction
  <2>2. (disk.status = "completed")' => disk.status = "completed" \/ pc' = "idle"
    BY <1>32, <1>2, <2>1 DEF SettleAborts
  <2>3. /\ pc = "settle" /\ onDisk /\ (onDisk' = TRUE \/ onDisk' = onDisk)
        /\ operator' = operator
        /\ pc' \notin {"scan", "unlink", "settle"} /\ mode' \in {mode, "session"}
        /\ accepted' = accepted \/ mode = "explicit"
    BY <1>32 DEF SettleAborts, AcceptsAbsence
  <2>. QED  BY <2>2, <2>3
<1>33. CASE LeaveUnresolved
  BY <1>33, <1>1, <1>2 DEF LeaveUnresolved
<1>34. CASE PassEnds
  BY <1>34, <1>1, <1>2 DEF PassEnds
<1>35. CASE RecordFailure
  BY <1>35, <1>1, <1>2, StatusWrites, Withdrawals DEF RecordFailure, Withdrawn
<1>36. CASE Complete
  BY <1>36, <1>1, <1>2, StatusWrites, Withdrawals DEF Complete, Withdrawn
<1>37. CASE Retire
  BY <1>37, <1>1 DEF Retire, PassInv, CompletedLast
<1>38. CASE Recover
  BY <1>38, <1>1, <1>2, Withdrawals
  DEF Recover, Withdrawn, AutomaticallyRecoverable, Terminal
<1>39. CASE CleanupExplicit
  BY <1>39, <1>1, <1>2, StatusWrites, Withdrawals
  DEF CleanupExplicit, Withdrawn
<1>40. CASE Crash
  BY <1>40, <1>1 DEF Crash
<1>41. CASE ChildExits
  BY <1>41, <1>1, <1>2 DEF ChildExits
<1>42. ASSUME NEW a \in Created, NEW p \in Candidates, Occupy(a, p)
     PROVE  Journaled'
  BY <1>42, <1>1, <1>2 DEF Occupy
<1>43. ASSUME NEW a \in Created, NEW p \in Candidates, MoveBack(a, p)
     PROVE  Journaled'
  BY <1>43, <1>1, <1>2 DEF MoveBack
<1>44. ASSUME NEW a \in Created, Litter(a)
     PROVE  Journaled'
  BY <1>44, <1>1, <1>2 DEF Litter
<1>45. ASSUME NEW a \in Created, MoveAway(a)
     PROVE  Journaled'
  BY <1>45, <1>1, <1>2 DEF MoveAway
<1>46. ASSUME NEW a \in Created, Destroy(a)
     PROVE  Journaled'
  BY <1>46, <1>1, <1>2 DEF Destroy
<1>47. ASSUME NEW a \in Created, Edit(a)
     PROVE  Journaled'
  BY <1>47, <1>1, <1>2 DEF Edit
<1>48. ASSUME NEW s \in Slots, Vacate(s)
     PROVE  Journaled'
  BY <1>48, <1>1, <1>2 DEF Vacate
<1>49. CASE UNCHANGED vars
  BY <1>49
<1>. QED
  BY <1>3, <1>4, <1>5, <1>6, <1>7, <1>8, <1>9, <1>10, <1>11, <1>12, <1>13,
     <1>14, <1>15, <1>16, <1>17, <1>18, <1>19, <1>20, <1>21, <1>22, <1>23,
     <1>24, <1>25, <1>26, <1>27, <1>28, <1>29, <1>30, <1>31, <1>32, <1>33,
     <1>34, <1>35, <1>36, <1>37, <1>38, <1>39, <1>40, <1>41, <1>42, <1>43,
     <1>44, <1>45, <1>46, <1>47, <1>48, <1>49
  DEF Next, Process, Apply, Supervise, Cleanup, OtherPrograms

\* What one of the two journals holds as pending the other does too, unless the
\* entry has been unlinked or was never created.
Agree(a) ==
    /\ mem.st[a] # "reused" /\ disk.st[a] # "reused"
    /\ pc # "idle" /\ Pending(disk, a) => Pending(mem, a) \/ mem.st[a] = "rolled_back"
    /\ pc # "idle" /\ Pending(mem, a) => Pending(disk, a) \/ loc[a] = "none"

LEMMA AgreeStep ==
  ASSUME TypeInv, WriteAhead, [Next]_vars,
         NEW x \in Required, Agree(x), \A a \in Actions : Untouched(a)
  PROVE  Agree(x)'
<1>1. /\ NewJournal.st[x] \notin MayHaveCreatedSomething \cup {"rolled_back"}
      /\ NewJournal.st[x] # "reused"
  BY RequiredActions DEF NewJournal, MayHaveCreatedSomething, Required
<1>2. (pc \in AtAction => cur \in Actions) /\ x \in Actions
  BY RequiredActions DEF TypeInv, CurInRange
<1>3. cur \in Nat /\ cur <= cur
  BY NAssumption DEF TypeInv, TypeOK
<1>. USE DEF Agree, Pending, vars, procVars, diskVars, fsVars, history,
             budget, At, Exit, Reconciling, RollBack, ActionDone,
             CleanupRequired, NextCandidate, Adopt, Meddles, Persists,
             PersistFails
<1>4. CASE Open
  BY <1>4, <1>1, <1>2 DEF Open, WriteAhead
<1>5. CASE BeginApply
  BY <1>5, <1>1, <1>2, StatusWrites, Withdrawals DEF BeginApply, Withdrawn
<1>6. CASE ConfirmReuse
  BY <1>6, <1>1, <1>2 DEF ConfirmReuse
<1>7. CASE Drift
  BY <1>7, <1>1, <1>2 DEF Drift
<1>8. CASE Intent
  <2>1. /\ mem'.st[x] = IF x = cur THEN "intent" ELSE mem.st[x]
        /\ disk' = mem' \/ disk' = disk
        /\ loc' = loc
    BY <1>8, <1>2, ActionWrites DEF Intent, AtAction
  <2>2. loc[cur] = "none"
    BY <1>8, <1>2, <1>3 DEF Intent, Untouched, AtAction
  <2>. QED  BY <2>2, <1>8, <1>1, <1>2, <2>1 DEF Intent, AtAction,
           MayHaveCreatedSomething, WriteAhead
<1>9. CASE CreateStaged
  BY <1>9, <1>2, EvidenceWrites
  DEF CreateStaged, AtAction, WriteAhead, TypeInv, TypeOK
<1>10. CASE CreateFails
  BY <1>10, <1>2 DEF CreateFails, AtAction, WriteAhead, TypeInv, TypeOK
<1>11. CASE Stage
  <2>1. /\ mem'.st[x] = IF x = cur THEN "staged" ELSE mem.st[x]
        /\ disk' = mem' \/ disk' = disk
        /\ loc' = loc
    BY <1>11, <1>2, ActionWrites DEF Stage, AtAction
  <2>. QED  BY <1>11, <1>1, <1>2, <2>1 DEF Stage, AtAction,
           MayHaveCreatedSomething, WriteAhead
<1>12. CASE VerifyStaged
  BY <1>12, <1>1, <1>2 DEF VerifyStaged
<1>13. CASE RenameNoReplace
  BY <1>13, <1>2 DEF RenameNoReplace, AtAction, TypeInv, TypeOK
<1>14. CASE RenameFails
  BY <1>14, <1>1, <1>2 DEF RenameFails
<1>15. CASE ConfirmPlaced
  <2>1. /\ mem'.st[x] = IF x = cur THEN "applied" ELSE mem.st[x]
        /\ disk' = mem' \/ disk' = disk
        /\ loc' = loc
    BY <1>15, <1>2, ActionWrites DEF ConfirmPlaced, AtAction
  <2>. QED  BY <1>15, <1>1, <1>2, <2>1 DEF ConfirmPlaced, AtAction,
           MayHaveCreatedSomething, WriteAhead
<1>16. CASE PlacementFailure
  BY <1>16, <1>1, <1>2 DEF PlacementFailure
<1>17. CASE Activate
  BY <1>17, <1>1, <1>2, StatusWrites, Withdrawals DEF Activate, Withdrawn
<1>18. CASE SpawnBoundary
  BY <1>18, <1>1, <1>2, StatusWrites, Withdrawals DEF SpawnBoundary, Withdrawn
<1>19. CASE BeginSupervision
  BY <1>19, <1>1, <1>2, StatusWrites, Withdrawals
  DEF BeginSupervision, Withdrawn
<1>20. CASE EmitDiagnostics
  BY <1>20, <1>1, <1>2, StatusWrites, Withdrawals
  DEF EmitDiagnostics, Withdrawn
<1>21. CASE Spawn
  BY <1>21, <1>1, <1>2 DEF Spawn
<1>22. CASE ChildProvenDead
  BY <1>22, <1>1, <1>2 DEF ChildProvenDead
<1>23. CASE LivenessUncertain
  BY <1>23, <1>1, <1>2 DEF LivenessUncertain
<1>24. CASE BeginCleanup
  BY <1>24, <1>1, <1>2, StatusWrites, Withdrawals DEF BeginCleanup, Withdrawn
<1>25. CASE Keep
  BY <1>25, <1>1, <1>2, StatusWrites, Withdrawals DEF Keep, Withdrawn
<1>26. CASE SkipAction
  BY <1>26, <1>1, <1>2 DEF SkipAction
<1>27. CASE ClearAction
  BY <1>27, <1>1, <1>2 DEF ClearAction
<1>28. CASE ScanCandidate
  BY <1>28, <1>1, <1>2 DEF ScanCandidate
<1>29. CASE VerifyForRemoval
  BY <1>29, <1>1, <1>2 DEF VerifyForRemoval
<1>30. CASE Unlink
  BY <1>30, <1>2 DEF Unlink, AtAction, TypeInv, TypeOK, Candidates
<1>31. CASE UnlinkFails
  BY <1>31, <1>1, <1>2 DEF UnlinkFails
<1>32. CASE Settle
  <2>1. /\ mem'.st[x] = IF x = cur THEN "rolled_back" ELSE mem.st[x]
        /\ disk' = mem' \/ disk' = disk
        /\ loc' = loc
    BY <1>32, <1>2, ActionWrites DEF Settle, AtAction
  <2>. QED  BY <1>32, <1>1, <1>2, <2>1 DEF Settle, AtAction,
           MayHaveCreatedSomething, WriteAhead
<1>33. CASE SettleAborts
  <2>1. /\ WithAction(mem, cur, "rolled_back").st[x] =
                IF x = cur THEN "rolled_back" ELSE mem.st[x]
        /\ disk' = WithAction(mem, cur, "rolled_back") \/ disk' = disk
    BY <1>33, <1>2, ActionWrites DEF SettleAborts, AtAction
  <2>. QED  BY <1>33, <1>1, <1>2, <2>1 DEF SettleAborts
<1>34. CASE LeaveUnresolved
  BY <1>34, <1>1, <1>2 DEF LeaveUnresolved
<1>35. CASE PassEnds
  BY <1>35, <1>1, <1>2 DEF PassEnds
<1>36. CASE RecordFailure
  BY <1>36, <1>1, <1>2, StatusWrites, Withdrawals DEF RecordFailure, Withdrawn
<1>37. CASE Complete
  BY <1>37, <1>1, <1>2, StatusWrites, Withdrawals DEF Complete, Withdrawn
<1>38. CASE Retire
  BY <1>38, <1>1, <1>2 DEF Retire
<1>39. CASE Recover
  BY <1>39, <1>1, <1>2, StatusWrites, Withdrawals DEF Recover, Withdrawn
<1>40. CASE CleanupExplicit
  BY <1>40, <1>1, <1>2, StatusWrites, Withdrawals
  DEF CleanupExplicit, Withdrawn
<1>41. CASE Crash
  BY <1>41, <1>1, <1>2 DEF Crash
<1>42. CASE ChildExits
  BY <1>42, <1>1, <1>2 DEF ChildExits
<1>43. ASSUME NEW a \in Created, NEW p \in Candidates, Occupy(a, p)
     PROVE  Agree(x)'
  BY <1>43, OthersKeep, <1>2 DEF OtherPrograms
<1>44. ASSUME NEW a \in Created, NEW p \in Candidates, MoveBack(a, p)
     PROVE  Agree(x)'
  BY <1>44, OthersKeep, <1>2 DEF OtherPrograms
<1>45. ASSUME NEW a \in Created, Litter(a)
     PROVE  Agree(x)'
  BY <1>45, OthersKeep, <1>2 DEF OtherPrograms
<1>46. ASSUME NEW a \in Created, MoveAway(a)
     PROVE  Agree(x)'
  BY <1>46, OthersKeep, <1>2 DEF OtherPrograms
<1>47. ASSUME NEW a \in Created, Destroy(a)
     PROVE  Agree(x)'
  BY <1>47, OthersKeep, <1>2 DEF OtherPrograms
<1>48. ASSUME NEW a \in Created, Edit(a)
     PROVE  Agree(x)'
  BY <1>48, OthersKeep, <1>2 DEF OtherPrograms
<1>49. ASSUME NEW s \in Slots, Vacate(s)
     PROVE  Agree(x)'
  BY <1>49, OthersKeep, <1>2 DEF OtherPrograms
<1>50. CASE UNCHANGED vars
  BY <1>50
<1>. QED
  BY <1>4, <1>5, <1>6, <1>7, <1>8, <1>9, <1>10, <1>11, <1>12, <1>13, <1>14,
     <1>15, <1>16, <1>17, <1>18, <1>19, <1>20, <1>21, <1>22, <1>23, <1>24,
     <1>25, <1>26, <1>27, <1>28, <1>29, <1>30, <1>31, <1>32, <1>33, <1>34,
     <1>35, <1>36, <1>37, <1>38, <1>39, <1>40, <1>41, <1>42, <1>43, <1>44,
     <1>45, <1>46, <1>47, <1>48, <1>49, <1>50
  DEF Next, Process, Apply, Supervise, Cleanup, OtherPrograms

-----------------------------------------------------------------------------
(* A platform that mutates through a held handle.                          *)

\* No recorded path holds an entry of the transaction and a foreign one, and the
\* process places its entries from their staging path.
Apart(a) == \A p \in Candidates : loc[a] = p => <<a, p>> \notin foreign
FromStaging == pc \in {"open", "begin"} \cup ApplyLabels => cand = "temp"

LEMMA ApartStep ==
  ASSUME TypeInv, [Next]_vars, NEW x \in Actions, Apart(x)
  PROVE  Apart(x)'
<1>1. /\ pc \in AtAction => cur \in Actions
      /\ cand \in Candidates /\ loc \in [Actions -> Places]
  BY DEF TypeInv, TypeOK, CurInRange
<1>. USE DEF Apart, Candidates, vars, procVars, diskVars, fsVars, history,
             budget, At, Exit, Reconciling, RollBack, ActionDone,
             CleanupRequired, NextCandidate, Adopt, Meddles, Persists,
             PersistFails
<1>2. CASE Open
  BY <1>2 DEF Open
<1>3. CASE BeginApply
  BY <1>3 DEF BeginApply
<1>4. CASE ConfirmReuse
  BY <1>4 DEF ConfirmReuse
<1>5. CASE Drift
  BY <1>5 DEF Drift
<1>6. CASE Intent
  BY <1>6 DEF Intent
<1>7. CASE CreateStaged
  BY <1>7, <1>1 DEF CreateStaged, AtAction, Creatable, Occupied
<1>8. CASE CreateFails
  BY <1>8, <1>1 DEF CreateFails, AtAction, Creatable, Occupied
<1>9. CASE Stage
  BY <1>9 DEF Stage
<1>10. CASE VerifyStaged
  BY <1>10 DEF VerifyStaged
<1>11. CASE RenameNoReplace
  BY <1>11, <1>1 DEF RenameNoReplace, AtAction, Occupied
<1>12. CASE RenameFails
  BY <1>12 DEF RenameFails
<1>13. CASE ConfirmPlaced
  BY <1>13 DEF ConfirmPlaced
<1>14. CASE PlacementFailure
  BY <1>14 DEF PlacementFailure
<1>15. CASE Activate
  BY <1>15 DEF Activate
<1>16. CASE SpawnBoundary
  BY <1>16 DEF SpawnBoundary
<1>17. CASE BeginSupervision
  BY <1>17 DEF BeginSupervision
<1>18. CASE EmitDiagnostics
  BY <1>18 DEF EmitDiagnostics
<1>19. CASE Spawn
  BY <1>19 DEF Spawn
<1>20. CASE ChildProvenDead
  BY <1>20 DEF ChildProvenDead
<1>21. CASE LivenessUncertain
  BY <1>21 DEF LivenessUncertain
<1>22. CASE BeginCleanup
  BY <1>22 DEF BeginCleanup
<1>23. CASE Keep
  BY <1>23 DEF Keep
<1>24. CASE SkipAction
  BY <1>24 DEF SkipAction
<1>25. CASE ClearAction
  BY <1>25 DEF ClearAction
<1>26. CASE ScanCandidate
  BY <1>26 DEF ScanCandidate
<1>27. CASE VerifyForRemoval
  BY <1>27 DEF VerifyForRemoval
<1>28. CASE Unlink
  BY <1>28, <1>1 DEF Unlink, AtAction, Occupied
<1>29. CASE UnlinkFails
  BY <1>29 DEF UnlinkFails
<1>30. CASE Settle
  BY <1>30 DEF Settle
<1>31. CASE SettleAborts
  BY <1>31 DEF SettleAborts
<1>32. CASE LeaveUnresolved
  BY <1>32 DEF LeaveUnresolved
<1>33. CASE PassEnds
  BY <1>33 DEF PassEnds
<1>34. CASE RecordFailure
  BY <1>34 DEF RecordFailure
<1>35. CASE Complete
  BY <1>35 DEF Complete
<1>36. CASE Retire
  BY <1>36 DEF Retire
<1>37. CASE Recover
  BY <1>37 DEF Recover
<1>38. CASE CleanupExplicit
  BY <1>38 DEF CleanupExplicit
<1>39. CASE Crash
  BY <1>39 DEF Crash
<1>40. CASE ChildExits
  BY <1>40 DEF ChildExits
<1>41. ASSUME NEW a \in Created, NEW p \in Candidates, Occupy(a, p)
     PROVE  Apart(x)'
  BY <1>41, <1>1 DEF Occupy, Occupied
<1>42. ASSUME NEW a \in Created, NEW p \in Candidates, MoveBack(a, p)
     PROVE  Apart(x)'
  BY <1>42, <1>1 DEF MoveBack, Occupied, Created
<1>43. ASSUME NEW a \in Created, Litter(a)
     PROVE  Apart(x)'
  BY <1>43, <1>1 DEF Litter
<1>44. ASSUME NEW a \in Created, MoveAway(a)
     PROVE  Apart(x)'
  BY <1>44, <1>1 DEF MoveAway
<1>45. ASSUME NEW a \in Created, Destroy(a)
     PROVE  Apart(x)'
  BY <1>45, <1>1 DEF Destroy, Created, Places
<1>46. ASSUME NEW a \in Created, Edit(a)
     PROVE  Apart(x)'
  BY <1>46 DEF Edit
<1>47. ASSUME NEW s \in Slots, Vacate(s)
     PROVE  Apart(x)'
  BY <1>47 DEF Vacate
<1>48. CASE UNCHANGED vars
  BY <1>48
<1>. QED
  BY <1>2, <1>3, <1>4, <1>5, <1>6, <1>7, <1>8, <1>9, <1>10, <1>11, <1>12,
     <1>13, <1>14, <1>15, <1>16, <1>17, <1>18, <1>19, <1>20, <1>21, <1>22,
     <1>23, <1>24, <1>25, <1>26, <1>27, <1>28, <1>29, <1>30, <1>31, <1>32,
     <1>33, <1>34, <1>35, <1>36, <1>37, <1>38, <1>39, <1>40, <1>41, <1>42,
     <1>43, <1>44, <1>45, <1>46, <1>47, <1>48
  DEF Next, Process, Apply, Supervise, Cleanup, OtherPrograms

LEMMA FromStagingStep ==
  ASSUME TypeInv, FromStaging, [Next]_vars
  PROVE  FromStaging'
<1>. USE DEF FromStaging, ApplyLabels, vars, procVars, diskVars, fsVars,
             history, budget, At, Exit, Reconciling, RollBack, ActionDone,
             CleanupRequired, NextCandidate, Adopt, Meddles, Persists,
             PersistFails
<1>1. CASE Open
  BY <1>1 DEF Open
<1>2. CASE BeginApply
  BY <1>2 DEF BeginApply
<1>3. CASE ConfirmReuse
  BY <1>3 DEF ConfirmReuse
<1>4. CASE Drift
  BY <1>4 DEF Drift
<1>5. CASE Intent
  BY <1>5 DEF Intent
<1>6. CASE CreateStaged
  BY <1>6 DEF CreateStaged
<1>7. CASE CreateFails
  BY <1>7 DEF CreateFails
<1>8. CASE Stage
  BY <1>8 DEF Stage
<1>9. CASE VerifyStaged
  BY <1>9 DEF VerifyStaged
<1>10. CASE RenameNoReplace
  BY <1>10 DEF RenameNoReplace
<1>11. CASE RenameFails
  BY <1>11 DEF RenameFails
<1>12. CASE ConfirmPlaced
  BY <1>12 DEF ConfirmPlaced
<1>13. CASE PlacementFailure
  BY <1>13 DEF PlacementFailure
<1>14. CASE Activate
  BY <1>14 DEF Activate
<1>15. CASE SpawnBoundary
  BY <1>15 DEF SpawnBoundary
<1>16. CASE BeginSupervision
  BY <1>16 DEF BeginSupervision
<1>17. CASE EmitDiagnostics
  BY <1>17 DEF EmitDiagnostics
<1>18. CASE Spawn
  BY <1>18 DEF Spawn
<1>19. CASE ChildProvenDead
  BY <1>19 DEF ChildProvenDead
<1>20. CASE LivenessUncertain
  BY <1>20 DEF LivenessUncertain
<1>21. CASE BeginCleanup
  BY <1>21 DEF BeginCleanup
<1>22. CASE Keep
  BY <1>22 DEF Keep
<1>23. CASE SkipAction
  BY <1>23 DEF SkipAction
<1>24. CASE ClearAction
  BY <1>24 DEF ClearAction
<1>25. CASE ScanCandidate
  BY <1>25 DEF ScanCandidate
<1>26. CASE VerifyForRemoval
  BY <1>26 DEF VerifyForRemoval
<1>27. CASE Unlink
  BY <1>27 DEF Unlink
<1>28. CASE UnlinkFails
  BY <1>28 DEF UnlinkFails
<1>29. CASE Settle
  BY <1>29 DEF Settle
<1>30. CASE SettleAborts
  BY <1>30 DEF SettleAborts
<1>31. CASE LeaveUnresolved
  BY <1>31 DEF LeaveUnresolved
<1>32. CASE PassEnds
  BY <1>32 DEF PassEnds
<1>33. CASE RecordFailure
  BY <1>33 DEF RecordFailure
<1>34. CASE Complete
  BY <1>34 DEF Complete
<1>35. CASE Retire
  BY <1>35 DEF Retire
<1>36. CASE Recover
  BY <1>36 DEF Recover
<1>37. CASE CleanupExplicit
  BY <1>37 DEF CleanupExplicit
<1>38. CASE Crash
  BY <1>38 DEF Crash
<1>39. CASE ChildExits
  BY <1>39 DEF ChildExits
<1>40. ASSUME NEW a \in Created, NEW p \in Candidates, Occupy(a, p)
     PROVE  FromStaging'
  BY <1>40 DEF Occupy
<1>41. ASSUME NEW a \in Created, NEW p \in Candidates, MoveBack(a, p)
     PROVE  FromStaging'
  BY <1>41 DEF MoveBack
<1>42. ASSUME NEW a \in Created, Litter(a)
     PROVE  FromStaging'
  BY <1>42 DEF Litter
<1>43. ASSUME NEW a \in Created, MoveAway(a)
     PROVE  FromStaging'
  BY <1>43 DEF MoveAway
<1>44. ASSUME NEW a \in Created, Destroy(a)
     PROVE  FromStaging'
  BY <1>44 DEF Destroy
<1>45. ASSUME NEW a \in Created, Edit(a)
     PROVE  FromStaging'
  BY <1>45 DEF Edit
<1>46. ASSUME NEW s \in Slots, Vacate(s)
     PROVE  FromStaging'
  BY <1>46 DEF Vacate
<1>47. CASE UNCHANGED vars
  BY <1>47
<1>. QED
  BY <1>1, <1>2, <1>3, <1>4, <1>5, <1>6, <1>7, <1>8, <1>9, <1>10, <1>11,
     <1>12, <1>13, <1>14, <1>15, <1>16, <1>17, <1>18, <1>19, <1>20, <1>21,
     <1>22, <1>23, <1>24, <1>25, <1>26, <1>27, <1>28, <1>29, <1>30, <1>31,
     <1>32, <1>33, <1>34, <1>35, <1>36, <1>37, <1>38, <1>39, <1>40, <1>41,
     <1>42, <1>43, <1>44, <1>45, <1>46, <1>47
  DEF Next, Process, Apply, Supervise, Cleanup, OtherPrograms

\* Only another program can come between a check and the mutation it guards.
LEMMA RaceNeedsAnother ==
  ASSUME [Next]_vars
  PROVE  raced' = raced \/ OtherPrograms
<1>. USE DEF vars, history
<1>1. CASE Open
  BY <1>1 DEF Open
<1>2. CASE BeginApply
  BY <1>2 DEF BeginApply
<1>3. CASE ConfirmReuse
  BY <1>3 DEF ConfirmReuse
<1>4. CASE Drift
  BY <1>4 DEF Drift
<1>5. CASE Intent
  BY <1>5 DEF Intent
<1>6. CASE CreateStaged
  BY <1>6 DEF CreateStaged
<1>7. CASE CreateFails
  BY <1>7 DEF CreateFails
<1>8. CASE Stage
  BY <1>8 DEF Stage
<1>9. CASE VerifyStaged
  BY <1>9 DEF VerifyStaged
<1>10. CASE RenameNoReplace
  BY <1>10 DEF RenameNoReplace
<1>11. CASE RenameFails
  BY <1>11 DEF RenameFails
<1>12. CASE ConfirmPlaced
  BY <1>12 DEF ConfirmPlaced
<1>13. CASE PlacementFailure
  BY <1>13 DEF PlacementFailure
<1>14. CASE Activate
  BY <1>14 DEF Activate
<1>15. CASE SpawnBoundary
  BY <1>15 DEF SpawnBoundary
<1>16. CASE BeginSupervision
  BY <1>16 DEF BeginSupervision
<1>17. CASE EmitDiagnostics
  BY <1>17 DEF EmitDiagnostics
<1>18. CASE Spawn
  BY <1>18 DEF Spawn
<1>19. CASE ChildProvenDead
  BY <1>19 DEF ChildProvenDead
<1>20. CASE LivenessUncertain
  BY <1>20 DEF LivenessUncertain
<1>21. CASE BeginCleanup
  BY <1>21 DEF BeginCleanup
<1>22. CASE Keep
  BY <1>22 DEF Keep
<1>23. CASE SkipAction
  BY <1>23 DEF SkipAction
<1>24. CASE ClearAction
  BY <1>24 DEF ClearAction
<1>25. CASE ScanCandidate
  BY <1>25 DEF ScanCandidate
<1>26. CASE VerifyForRemoval
  BY <1>26 DEF VerifyForRemoval
<1>27. CASE Unlink
  BY <1>27 DEF Unlink
<1>28. CASE UnlinkFails
  BY <1>28 DEF UnlinkFails
<1>29. CASE Settle
  BY <1>29 DEF Settle
<1>30. CASE SettleAborts
  BY <1>30 DEF SettleAborts
<1>31. CASE LeaveUnresolved
  BY <1>31 DEF LeaveUnresolved
<1>32. CASE PassEnds
  BY <1>32 DEF PassEnds
<1>33. CASE RecordFailure
  BY <1>33 DEF RecordFailure
<1>34. CASE Complete
  BY <1>34 DEF Complete
<1>35. CASE Retire
  BY <1>35 DEF Retire
<1>36. CASE Recover
  BY <1>36 DEF Recover
<1>37. CASE CleanupExplicit
  BY <1>37 DEF CleanupExplicit
<1>38. CASE Crash
  BY <1>38 DEF Crash
<1>39. CASE ChildExits
  BY <1>39 DEF ChildExits
<1>40. ASSUME NEW a \in Created, NEW p \in Candidates, Occupy(a, p)
     PROVE  raced' = raced \/ OtherPrograms
  BY <1>40 DEF OtherPrograms
<1>41. ASSUME NEW a \in Created, NEW p \in Candidates, MoveBack(a, p)
     PROVE  raced' = raced \/ OtherPrograms
  BY <1>41 DEF OtherPrograms
<1>42. ASSUME NEW a \in Created, Litter(a)
     PROVE  raced' = raced \/ OtherPrograms
  BY <1>42 DEF OtherPrograms
<1>43. ASSUME NEW a \in Created, MoveAway(a)
     PROVE  raced' = raced \/ OtherPrograms
  BY <1>43 DEF OtherPrograms
<1>44. ASSUME NEW a \in Created, Destroy(a)
     PROVE  raced' = raced \/ OtherPrograms
  BY <1>44 DEF OtherPrograms
<1>45. ASSUME NEW a \in Created, Edit(a)
     PROVE  raced' = raced \/ OtherPrograms
  BY <1>45 DEF OtherPrograms
<1>46. ASSUME NEW s \in Slots, Vacate(s)
     PROVE  raced' = raced \/ OtherPrograms
  BY <1>46 DEF OtherPrograms
<1>47. CASE UNCHANGED vars
  BY <1>47
<1>. QED
  BY <1>1, <1>2, <1>3, <1>4, <1>5, <1>6, <1>7, <1>8, <1>9, <1>10, <1>11,
     <1>12, <1>13, <1>14, <1>15, <1>16, <1>17, <1>18, <1>19, <1>20, <1>21,
     <1>22, <1>23, <1>24, <1>25, <1>26, <1>27, <1>28, <1>29, <1>30, <1>31,
     <1>32, <1>33, <1>34, <1>35, <1>36, <1>37, <1>38, <1>39, <1>40, <1>41,
     <1>42, <1>43, <1>44, <1>45, <1>46, <1>47
  DEF Next, Process, Apply, Supervise, Cleanup, OtherPrograms

\* What the process holds, other programs can neither take nor replace.
LEMMA HandlePreventsRaces ==
  ASSUME TypeInv, StillVerified, FromStaging, \A a \in Actions : Apart(a),
         HandleBound, ~raced, OtherPrograms
  PROVE  ~raced'
<1>1. SUFFICES ASSUME pc \in {"rename", "unlink"} PROVE ~Races
  BY DEF OtherPrograms, Occupy, MoveBack, Litter, MoveAway, Destroy, Edit, Vacate,
         Meddles, Races
<1>2. /\ loc[cur] = cand /\ cur \in Actions /\ cand \in Candidates
      /\ <<cur, cand>> \notin foreign /\ loc \in [Actions -> Places]
      /\ Held(cur, cand) /\ cur \notin edited
  BY <1>1 DEF StillVerified, FromStaging, Apart, ApplyLabels, TypeInv, TypeOK,
              CurInRange, AtAction, Held, Candidates
<1>. USE <1>2 DEF Candidates
<1>3. ASSUME NEW a \in Created, NEW p \in Candidates, Occupy(a, p) PROVE ~Races
  <2>1. <<a, p>> # <<cur, cand>> /\ UNCHANGED <<loc, edited>>
    BY <1>3 DEF Occupy
  <2>2. <<cur, cand>> \notin foreign'
    BY <1>3, <2>1 DEF Occupy
  <2>. QED  BY <2>1, <2>2 DEF Races
<1>4. ASSUME NEW a \in Created, NEW p \in Candidates, MoveBack(a, p) PROVE ~Races
  BY <1>4 DEF MoveBack, Races, Created
<1>5. ASSUME NEW a \in Created, Litter(a) PROVE ~Races
  <2>1. <<a, "child">> # <<cur, cand>> /\ UNCHANGED <<loc, edited>>
    BY <1>5 DEF Litter
  <2>2. <<cur, cand>> \notin foreign'
    BY <1>5, <2>1 DEF Litter
  <2>. QED  BY <2>1, <2>2 DEF Races
<1>6. ASSUME NEW a \in Created, MoveAway(a) PROVE ~Races
  <2>1. foreign' \subseteq foreign /\ edited' = edited
    BY <1>6 DEF MoveAway
  <2>2. loc'[cur] = loc[cur]
    BY <1>6 DEF MoveAway
  <2>. QED  BY <2>1, <2>2 DEF Races
<1>7. ASSUME NEW a \in Created, Destroy(a) PROVE ~Races
  BY <1>7 DEF Destroy, Races, Created
<1>8. ASSUME NEW a \in Created, Edit(a) PROVE ~Races
  BY <1>8 DEF Edit, Races
<1>9. ASSUME NEW s \in Slots, Vacate(s) PROVE ~Races
  BY <1>9 DEF Vacate, Races
<1>. QED  BY <1>3, <1>4, <1>5, <1>6, <1>7, <1>8, <1>9 DEF OtherPrograms

\* The invariant of the refinement.
ClaimInv ==
    /\ Journaled /\ FromStaging
    /\ \A a \in Required : Agree(a)
    /\ \A a \in Actions : Apart(a)
    /\ HandleBound => ~raced

LEMMA ClaimInvariant == Spec => []ClaimInv
<1>1. Init => ClaimInv
  <2>. SUFFICES ASSUME Init PROVE ClaimInv
    OBVIOUS
  <2>1. \A a \in Required : Agree(a)
    BY RequiredActions DEF Init, NewJournal, Agree, Pending, MayHaveCreatedSomething, Required
  <2>2. \A a \in Actions : Apart(a)
    BY DEF Init, Apart, Candidates
  <2>. QED  BY <2>1, <2>2
            DEF Init, NewJournal, ClaimInv, Journaled, FromStaging, ApplyLabels
<1>2. TypeInv /\ WriteAhead /\ PassInv /\ Intact /\ ClaimInv /\ [Next]_vars
        => ClaimInv'
  <2>. SUFFICES ASSUME TypeInv, WriteAhead, PassInv, Intact, ClaimInv,
                       [Next]_vars
                PROVE  ClaimInv'
    OBVIOUS
  <2>1. Journaled' /\ FromStaging'
    BY JournaledStep, FromStagingStep DEF ClaimInv
  <2>2. \A a \in Required : Agree(a)'
    BY AgreeStep DEF ClaimInv, Intact
  <2>3. \A a \in Actions : Apart(a)'
    BY ApartStep DEF ClaimInv
  <2>4. HandleBound => ~raced'
    BY RaceNeedsAnother, HandlePreventsRaces DEF ClaimInv, Intact
  <2>. QED  BY <2>1, <2>2, <2>3, <2>4 DEF ClaimInv
<1>. QED  BY <1>1, <1>2, TypeInvariant, WriteAheadInvariant, PassInvariant,
             IntactInvariant, PTL DEF Spec

-----------------------------------------------------------------------------
(* The ownership contract.                                                 *)

Allowed == Promise!Next \/ UNCHANGED Promise!vars

LEMMA Fates ==
  ASSUME NEW l \in Places
  PROVE  /\ Fate(l) = "absent" <=> l = "none"
         /\ Fate(l) = "present" <=> l \in Existing
         /\ Fate(l) = "removed" <=> l = "unlinked"
         /\ Fate(l) = "lost" <=> l = "destroyed"
BY DEF Fate, Places, Existing

LEMMA EntryValues ==
  ASSUME TypeInv, NEW e \in Required
  PROVE  Becoming[e] = Fate(loc[e]) /\ loc[e] \in Places
BY RequiredActions DEF Becoming, TypeInv, TypeOK

\* What an entry is to the contract changes with its place only.
LEMMA OneEntryChanges ==
  ASSUME TypeInv, NEW e \in Required, NEW to \in Places,
         loc' = [loc EXCEPT ![e] = to]
  PROVE  Becoming' = [Becoming EXCEPT ![e] = Fate(to)]
<1>1. /\ loc'[e] = to
      /\ \A a \in Required \ {e} : loc'[a] = loc[a]
  BY RequiredActions DEF TypeInv, TypeOK
<1>2. Becoming' = [a \in Required |-> IF a = e THEN Fate(to) ELSE Fate(loc[a])]
  BY <1>1 DEF Becoming
<1>. QED  BY <1>2 DEF Becoming

LEMMA SameClaims == ASSUME UNCHANGED diskVars PROVE Claimed' = Claimed
BY DEF diskVars, Claimed

\* A step that neither writes the journal nor starts or ends anything.
LEMMA PromiseStutters ==
  ASSUME UNCHANGED <<diskVars, child, operator>>, Becoming' = Becoming
  PROVE  Allowed
BY SameClaims DEF Allowed, Promise!vars

LEMMA SamePlaces == ASSUME UNCHANGED loc PROVE Becoming' = Becoming
BY DEF Becoming

\* Entries of no required action do not count, nor does where an entry is as
\* long as it exists.
LEMMA SameBecoming ==
  ASSUME TypeInv,
         \A e \in Required : loc'[e] = loc[e] \/ {loc[e], loc'[e]} \subseteq Existing
  PROVE  Becoming' = Becoming
<1>1. ASSUME NEW e \in Required PROVE Fate(loc'[e]) = Fate(loc[e])
  BY <1>1 DEF Fate, Existing
<1>. QED  BY <1>1 DEF Becoming

PromiseInv ==
    /\ TypeInv /\ QuarantineInv /\ WriteAhead /\ WholeInv /\ PassInv
    /\ OwnedInv /\ Intact /\ ClaimInv

\* What is claimed on disk is pending in memory, was unlinked, or is the
\* operator's responsibility.
LEMMA MemoryKnows ==
  ASSUME PromiseInv, ~raced, pc # "idle", NEW e \in Required, e \in Claimed
  PROVE  Pending(mem, e) \/ loc[e] = "unlinked" \/ operator
BY DEF PromiseInv, OwnedInv, ProvedGone, ClaimInv, Journaled, Agree, Claimed, Pending

\* A write of the journal keeps every claim whose entry may still be there.
LEMMA WritesAreAllowed ==
  ASSUME PromiseInv, ~raced, pc # "idle", UNCHANGED <<loc, child, operator>>,
         \/ UNCHANGED diskVars
         \/ /\ onDisk' = TRUE
            /\ \A e \in Required : Pending(mem, e) =>
                 \/ disk'.status # "completed" /\ Pending(disk', e)
                 \/ loc[e] = "unlinked" \/ operator
  PROVE  Allowed
<1>1. Claimed' \in SUBSET Required
  BY DEF Claimed
<1>2. ASSUME NEW e \in Claimed \ Claimed' PROVE Promise!MayDrop(e)
  <2>1. e \in Required
    BY DEF Claimed
  <2>2. loc[e] = "unlinked" \/ operator
    BY <1>2, <2>1, MemoryKnows, SameClaims DEF Claimed, Pending
  <2>. QED  BY <2>1, <2>2, EntryValues, Fates DEF Promise!MayDrop, PromiseInv
<1>. QED  BY <1>1, <1>2, SamePlaces DEF Allowed, Promise!Next, Promise!Record

LEMMA StatusWritesAllowed ==
  ASSUME PromiseInv, ~raced, pc # "idle", UNCHANGED <<loc, child, operator>>,
         NEW s \in TransactionStatus, s # "completed",
         \/ UNCHANGED diskVars
         \/ disk' = WithStatus(mem, s) /\ onDisk' = TRUE
  PROVE  Allowed
<1>1. disk' = WithStatus(mem, s) =>
        disk'.status # "completed" /\ \A e \in Required : Pending(mem, e) => Pending(disk', e)
  BY StatusWrites DEF PromiseInv, Pending
<1>. QED  BY <1>1, WritesAreAllowed

LEMMA ActionWritesAllowed ==
  ASSUME PromiseInv, ~raced, pc \in AtAction, UNCHANGED <<loc, child, operator>>,
         NEW s \in ActionStatus,
         \/ s \in MayHaveCreatedSomething
         \/ cur \notin Required \/ loc[cur] = "unlinked" \/ operator,
         \/ UNCHANGED diskVars
         \/ disk' = WithAction(mem, cur, s) /\ onDisk' = TRUE
  PROVE  Allowed
<1>1. mem.status # "completed" /\ pc # "idle"
  BY DEF PromiseInv, PassInv, CompletedLast, AtAction
<1>2. ASSUME disk' = WithAction(mem, cur, s), NEW e \in Required, Pending(mem, e)
      PROVE  \/ disk'.status # "completed" /\ Pending(disk', e)
             \/ loc[e] = "unlinked" \/ operator
  <2>1. disk'.status = mem.status /\ disk'.st[e] = IF e = cur THEN s ELSE mem.st[e]
    BY <1>2, ActionWrites, RequiredActions DEF PromiseInv
  <2>. QED  BY <1>1, <1>2, <2>1 DEF Pending
<1>. QED  BY <1>1, <1>2, WritesAreAllowed

\* Every step that meets no race is one the contract allows.
LEMMA StepIsAllowed ==
  ASSUME PromiseInv, [Next]_vars, ~raced'
  PROVE  Allowed
<1>1. ~raced
  BY RacedStays DEF PromiseInv
<1>2. CASE Open
  <2>1. /\ \/ UNCHANGED diskVars
           \/ disk' = NewJournal /\ onDisk' = TRUE
        /\ UNCHANGED <<loc, child, operator>> /\ pc = "open"
    BY <1>2 DEF Open, Persists, PersistFails, fsVars, history, diskVars
  <2>2. mem = NewJournal /\ NewJournal.status # "completed"
    BY <2>1 DEF PromiseInv, WriteAhead, NewJournal
  <2>. QED  BY <1>1, <2>1, <2>2, WritesAreAllowed
<1>3. CASE BeginApply
  <2>1. /\ \/ UNCHANGED diskVars
           \/ disk' = WithStatus(mem, "applying") /\ onDisk' = TRUE
        /\ UNCHANGED <<loc, child, operator>> /\ pc # "idle"
    BY <1>3 DEF BeginApply, Persists, PersistFails, fsVars, history, diskVars
  <2>. QED  BY <1>1, <2>1, StatusWritesAllowed, StatusWrites DEF PromiseInv
<1>4. CASE ConfirmReuse
  BY <1>4, PromiseStutters, SamePlaces
  DEF ConfirmReuse, vars, diskVars, fsVars, history
<1>5. CASE Drift
  BY <1>5, PromiseStutters, SamePlaces
  DEF Drift, vars, diskVars, fsVars, history
<1>6. CASE Intent
  <2>1. /\ \/ UNCHANGED diskVars
           \/ disk' = WithAction(mem, cur, "intent") /\ onDisk' = TRUE
        /\ UNCHANGED <<loc, child, operator>> /\ pc \in AtAction
    BY <1>6 DEF Intent, Persists, PersistFails, fsVars, history, diskVars, AtAction
  <2>. QED  BY <1>1, <2>1, ActionWritesAllowed, ActionWrites
            DEF PromiseInv, MayHaveCreatedSomething
<1>7. CASE CreateStaged
  <2>1. CASE cur \in Required /\ loc' = [loc EXCEPT ![cur] = "temp"]
    <3>1. pc = "create" /\ UNCHANGED <<diskVars, child, operator>>
      BY <1>7 DEF CreateStaged, history
    <3>2. loc[cur] = "none" /\ cur \in Claimed
      <4>1. cur \in Actions /\ cur <= cur
        BY <2>1, RequiredActions
      <4>2. loc[cur] = "none"
        BY <3>1, <4>1 DEF PromiseInv, Intact, Untouched
      <4>3. /\ onDisk /\ disk.st[cur] = "intent" /\ disk.status = "applying"
        BY <3>1 DEF PromiseInv, WriteAhead
      <4>. QED  BY <2>1, <4>2, <4>3 DEF Claimed, MayHaveCreatedSomething
    <3>3. Becoming[cur] = "absent" /\ Becoming' = [Becoming EXCEPT ![cur] = "present"]
      <4>1. Becoming[cur] = "absent"
        BY <2>1, <3>2, EntryValues, Fates DEF PromiseInv
      <4>2. Becoming' = [Becoming EXCEPT ![cur] = Fate("temp")] /\ Fate("temp") = "present"
        BY <2>1, OneEntryChanges, Fates DEF PromiseInv, Places, Existing
      <4>. QED  BY <4>1, <4>2
    <3>4. Promise!Create(cur)
      BY <3>1, <3>2, <3>3, SameClaims DEF Promise!Create, Promise!Becomes
    <3>. QED  BY <2>1, <3>4 DEF Allowed, Promise!Next
  <2>2. CASE cur \notin Required \/ loc' = loc
    <3>1. UNCHANGED <<diskVars, child, operator>>
      BY <1>7 DEF CreateStaged, history
    <3>2. \A e \in Required : loc'[e] = loc[e]
      BY <1>7, <2>2, RequiredActions DEF CreateStaged, PromiseInv, TypeInv, TypeOK
    <3>. QED  BY <3>1, <3>2, PromiseStutters, SameBecoming DEF PromiseInv
  <2>. QED  BY <1>7, <2>1, <2>2 DEF CreateStaged
<1>8. CASE CreateFails
  <2>1. CASE cur \in Required /\ loc' = [loc EXCEPT ![cur] = "temp"]
    <3>1. pc = "create" /\ UNCHANGED <<diskVars, child, operator>>
      BY <1>8 DEF CreateFails, history
    <3>2. loc[cur] = "none" /\ cur \in Claimed
      <4>1. cur \in Actions /\ cur <= cur
        BY <2>1, RequiredActions
      <4>2. loc[cur] = "none"
        BY <3>1, <4>1 DEF PromiseInv, Intact, Untouched
      <4>3. /\ onDisk /\ disk.st[cur] = "intent" /\ disk.status = "applying"
        BY <3>1 DEF PromiseInv, WriteAhead
      <4>. QED  BY <2>1, <4>2, <4>3 DEF Claimed, MayHaveCreatedSomething
    <3>3. Becoming[cur] = "absent" /\ Becoming' = [Becoming EXCEPT ![cur] = "present"]
      <4>1. Becoming[cur] = "absent"
        BY <2>1, <3>2, EntryValues, Fates DEF PromiseInv
      <4>2. Becoming' = [Becoming EXCEPT ![cur] = Fate("temp")] /\ Fate("temp") = "present"
        BY <2>1, OneEntryChanges, Fates DEF PromiseInv, Places, Existing
      <4>. QED  BY <4>1, <4>2
    <3>4. Promise!Create(cur)
      BY <3>1, <3>2, <3>3, SameClaims DEF Promise!Create, Promise!Becomes
    <3>. QED  BY <2>1, <3>4 DEF Allowed, Promise!Next
  <2>2. CASE cur \notin Required \/ loc' = loc
    <3>1. UNCHANGED <<diskVars, child, operator>>
      BY <1>8 DEF CreateFails, history
    <3>2. \A e \in Required : loc'[e] = loc[e]
      BY <1>8, <2>2, RequiredActions DEF CreateFails, PromiseInv, TypeInv, TypeOK
    <3>. QED  BY <3>1, <3>2, PromiseStutters, SameBecoming DEF PromiseInv
  <2>. QED  BY <1>8, <2>1, <2>2 DEF CreateFails
<1>9. CASE Stage
  <2>1. /\ \/ UNCHANGED diskVars
           \/ disk' = WithAction(mem, cur, "staged") /\ onDisk' = TRUE
        /\ UNCHANGED <<loc, child, operator>> /\ pc \in AtAction
    BY <1>9 DEF Stage, Persists, PersistFails, fsVars, history, diskVars, AtAction
  <2>. QED  BY <1>1, <2>1, ActionWritesAllowed, ActionWrites
            DEF PromiseInv, MayHaveCreatedSomething
<1>10. CASE VerifyStaged
  BY <1>10, PromiseStutters, SamePlaces
  DEF VerifyStaged, vars, diskVars, fsVars, history
<1>11. CASE RenameNoReplace
  <2>1. UNCHANGED <<diskVars, child, operator>>
    BY <1>11 DEF RenameNoReplace, history
  <2>2. \A e \in Required : loc'[e] = loc[e] \/ {loc[e], loc'[e]} \subseteq Existing
    BY <1>11, RequiredActions
    DEF RenameNoReplace, PromiseInv, TypeInv, TypeOK, CurInRange, AtAction, Existing
  <2>. QED  BY <2>1, <2>2, PromiseStutters, SameBecoming DEF PromiseInv
<1>12. CASE RenameFails
  BY <1>12, PromiseStutters, SamePlaces
  DEF RenameFails, vars, diskVars, fsVars, history
<1>13. CASE ConfirmPlaced
  <2>1. /\ \/ UNCHANGED diskVars
           \/ disk' = WithAction(mem, cur, "applied") /\ onDisk' = TRUE
        /\ UNCHANGED <<loc, child, operator>> /\ pc \in AtAction
    BY <1>13 DEF ConfirmPlaced, Persists, PersistFails, fsVars, history, diskVars, AtAction
  <2>. QED  BY <1>1, <2>1, ActionWritesAllowed, ActionWrites
            DEF PromiseInv, MayHaveCreatedSomething
<1>14. CASE PlacementFailure
  BY <1>14, PromiseStutters, SamePlaces
  DEF PlacementFailure, vars, diskVars, fsVars, history
<1>15. CASE Activate
  <2>1. /\ \/ UNCHANGED diskVars
           \/ disk' = WithStatus(mem, "active") /\ onDisk' = TRUE
        /\ UNCHANGED <<loc, child, operator>> /\ pc # "idle"
    BY <1>15 DEF Activate, Persists, PersistFails, fsVars, history, diskVars
  <2>. QED  BY <1>1, <2>1, StatusWritesAllowed, StatusWrites DEF PromiseInv
<1>16. CASE SpawnBoundary
  BY <1>16, PromiseStutters, SamePlaces
  DEF SpawnBoundary, vars, diskVars, fsVars, history
<1>17. CASE BeginSupervision
  <2>1. /\ \/ UNCHANGED diskVars
           \/ disk' = WithStatus(mem, "supervising") /\ onDisk' = TRUE
        /\ UNCHANGED <<loc, child, operator>> /\ pc # "idle"
    BY <1>17 DEF BeginSupervision, Persists, PersistFails, fsVars, history, diskVars
  <2>. QED  BY <1>1, <2>1, StatusWritesAllowed, StatusWrites DEF PromiseInv
<1>18. CASE EmitDiagnostics
  BY <1>18, PromiseStutters, SamePlaces
  DEF EmitDiagnostics, vars, diskVars, fsVars, history
<1>19. CASE Spawn
  <2>1. UNCHANGED <<loc, diskVars, operator>> /\ pc = "spawn"
    BY <1>19 DEF Spawn, fsVars, history
  <2>2. CASE UNCHANGED child
    BY <2>1, <2>2, PromiseStutters, SamePlaces
  <2>3. CASE child' = "alive"
    <3>1. ASSUME NEW e \in Required, Becoming[e] # "absent" PROVE e \in Claimed
      <4>1. loc[e] # "none"
        BY <3>1, EntryValues, Fates DEF PromiseInv
      <4>2. mem.st[e] = "applied"
        BY <2>1, RequiredActions
        DEF PromiseInv, WholeInv, Whole, InPlace, ClaimInv, Agree
      <4>3. Pending(disk, e)
        BY <2>1, <4>1, <4>2
        DEF PromiseInv, ClaimInv, Agree, Pending, MayHaveCreatedSomething
      <4>4. onDisk /\ disk.status = "supervising"
        BY <2>1 DEF PromiseInv, QuarantineInv, Announced
      <4>. QED  BY <4>3, <4>4 DEF Claimed, Pending
    <3>2. Promise!Launch
      BY <2>1, <2>3, <3>1, SameClaims, SamePlaces DEF Promise!Launch
    <3>. QED  BY <3>2 DEF Allowed, Promise!Next
  <2>. QED  BY <1>19, <2>2, <2>3 DEF Spawn
<1>20. CASE ChildProvenDead
  BY <1>20, PromiseStutters, SamePlaces
  DEF ChildProvenDead, vars, diskVars, fsVars, history
<1>21. CASE LivenessUncertain
  BY <1>21, PromiseStutters, SamePlaces
  DEF LivenessUncertain, vars, diskVars, fsVars, history
<1>22. CASE BeginCleanup
  <2>1. /\ \/ UNCHANGED diskVars
           \/ disk' = WithStatus(mem, "cleaning") /\ onDisk' = TRUE
        /\ UNCHANGED <<loc, child, operator>> /\ pc # "idle"
    BY <1>22 DEF BeginCleanup, Persists, PersistFails, fsVars, history, diskVars
  <2>. QED  BY <1>1, <2>1, StatusWritesAllowed, StatusWrites DEF PromiseInv
<1>23. CASE Keep
  <2>1. /\ \/ UNCHANGED diskVars
           \/ disk' = WithStatus(mem, "kept") /\ onDisk' = TRUE
        /\ UNCHANGED <<loc, child, operator>> /\ pc # "idle"
    BY <1>23 DEF Keep, Persists, PersistFails, fsVars, history, diskVars
  <2>. QED  BY <1>1, <2>1, StatusWritesAllowed, StatusWrites DEF PromiseInv
<1>24. CASE SkipAction
  BY <1>24, PromiseStutters, SamePlaces
  DEF SkipAction, vars, diskVars, fsVars, history
<1>25. CASE ClearAction
  BY <1>25, PromiseStutters, SamePlaces
  DEF ClearAction, vars, diskVars, fsVars, history
<1>26. CASE ScanCandidate
  BY <1>26, PromiseStutters, SamePlaces
  DEF ScanCandidate, vars, diskVars, fsVars, history
<1>27. CASE VerifyForRemoval
  BY <1>27, PromiseStutters, SamePlaces
  DEF VerifyForRemoval, vars, diskVars, fsVars, history
<1>28. CASE Unlink
  <2>1. /\ pc = "unlink" /\ UNCHANGED <<diskVars, child, operator>> /\ cur \in Actions
        /\ loc[cur] = cand /\ cand \in Candidates
    BY <1>28, <1>1
    DEF Unlink, history, PromiseInv, OwnedInv, UnderHand, TypeInv, TypeOK, CurInRange, AtAction
  <2>2. loc' = [loc EXCEPT ![cur] = "unlinked"]
    BY <1>28, <2>1 DEF Unlink
  <2>3. CASE cur \in Required
    <3>1. cur \in Claimed
      <4>1. Pending(mem, cur)
        BY <2>1 DEF PromiseInv, ClaimInv, Journaled, Candidate, Pending
      <4>2. Pending(disk, cur)
        BY <2>1, <2>3, <4>1 DEF PromiseInv, ClaimInv, Agree, Candidates
      <4>3. onDisk /\ disk.status # "completed"
        BY <2>1 DEF PromiseInv, ClaimInv, Journaled
      <4>. QED  BY <2>3, <4>2, <4>3 DEF Claimed, Pending
    <3>2. child = "alive" => operator
      BY <2>1 DEF PromiseInv, QuarantineInv, Quarantined
    <3>3. Becoming[cur] = "present" /\ Becoming' = [Becoming EXCEPT ![cur] = "removed"]
      BY <2>1, <2>2, <2>3, EntryValues, OneEntryChanges, Fates
      DEF PromiseInv, Places, Existing, Candidates
    <3>4. Promise!Remove(cur)
      BY <2>1, <3>1, <3>2, <3>3, SameClaims DEF Promise!Remove, Promise!Becomes
    <3>. QED  BY <2>3, <3>4 DEF Allowed, Promise!Next
  <2>4. CASE cur \notin Required
    <3>1. \A e \in Required : loc'[e] = loc[e]
      BY <2>2, <2>4, RequiredActions DEF PromiseInv, TypeInv, TypeOK
    <3>. QED  BY <2>1, <3>1, PromiseStutters, SameBecoming DEF PromiseInv
  <2>. QED  BY <2>3, <2>4
<1>29. CASE UnlinkFails
  BY <1>29, PromiseStutters, SamePlaces
  DEF UnlinkFails, vars, diskVars, fsVars, history
<1>30. CASE Settle
  <2>1. /\ \/ UNCHANGED diskVars
           \/ disk' = WithAction(mem, cur, "rolled_back") /\ onDisk' = TRUE
        /\ UNCHANGED <<loc, child, operator>> /\ pc = "settle" /\ Discharged
    BY <1>30 DEF Settle, Persists, PersistFails, fsVars, diskVars
  <2>2. cur \notin Required \/ loc[cur] = "unlinked" \/ operator
    BY <2>1, <1>1
    DEF Discharged, AcceptsAbsence, PromiseInv, OwnedInv, UnderHand, ClaimInv, Journaled
  <2>. QED  BY <1>1, <2>1, <2>2, ActionWritesAllowed, ActionWrites DEF PromiseInv, AtAction
<1>31. CASE SettleAborts
  <2>1. /\ \/ UNCHANGED diskVars
           \/ disk' = WithAction(mem, cur, "rolled_back") /\ onDisk' = TRUE
        /\ UNCHANGED <<loc, child, operator>> /\ pc = "settle" /\ Discharged
    BY <1>31 DEF SettleAborts, Persists, PersistFails, fsVars, diskVars
  <2>2. cur \notin Required \/ loc[cur] = "unlinked" \/ operator
    BY <2>1, <1>1
    DEF Discharged, AcceptsAbsence, PromiseInv, OwnedInv, UnderHand, ClaimInv, Journaled
  <2>. QED  BY <1>1, <2>1, <2>2, ActionWritesAllowed, ActionWrites DEF PromiseInv, AtAction
<1>32. CASE LeaveUnresolved
  BY <1>32, PromiseStutters, SamePlaces
  DEF LeaveUnresolved, vars, diskVars, fsVars, history
<1>33. CASE PassEnds
  BY <1>33, PromiseStutters, SamePlaces
  DEF PassEnds, vars, diskVars, fsVars, history
<1>34. CASE RecordFailure
  <2>1. /\ \/ UNCHANGED diskVars
           \/ disk' = WithStatus(mem, "failed") /\ onDisk' = TRUE
        /\ UNCHANGED <<loc, child, operator>> /\ pc # "idle"
    BY <1>34 DEF RecordFailure, Persists, PersistFails, fsVars, history, diskVars
  <2>. QED  BY <1>1, <2>1, StatusWritesAllowed, StatusWrites DEF PromiseInv
<1>35. CASE Complete
  <2>1. /\ \/ UNCHANGED diskVars
           \/ disk' = WithStatus(mem, "completed") /\ onDisk' = TRUE
        /\ UNCHANGED <<loc, child, operator>> /\ pc = "complete"
    BY <1>35 DEF Complete, Persists, PersistFails, fsVars, history, diskVars
  <2>2. \A e \in Required : ~Pending(mem, e)
    BY <2>1 DEF PromiseInv, PassInv, BehindThePass
  <2>. QED  BY <1>1, <2>1, <2>2, WritesAreAllowed
<1>36. CASE Retire
  <2>1. UNCHANGED <<loc, disk, child, operator>> /\ pc = "retire"
    BY <1>36 DEF Retire, fsVars, history
  <2>2. Claimed = {} /\ Claimed' = {}
    BY <2>1 DEF PromiseInv, PassInv, CompletedLast, Claimed
  <2>. QED  BY <2>1, <2>2, SamePlaces DEF Allowed, Promise!vars
<1>37. CASE Recover
  BY <1>37, PromiseStutters, SamePlaces
  DEF Recover, vars, diskVars, fsVars, history
<1>38. CASE CleanupExplicit
  <2>1. Promise!Assert
    BY <1>38, SameClaims, SamePlaces DEF CleanupExplicit, Promise!Assert, fsVars
  <2>. QED  BY <2>1 DEF Allowed, Promise!Next
<1>39. CASE Crash
  BY <1>39, PromiseStutters, SamePlaces
  DEF Crash, vars, diskVars, fsVars, history
<1>40. CASE ChildExits
  <2>1. Promise!Reap
    BY <1>40, SameClaims, SamePlaces DEF ChildExits, Promise!Reap, fsVars, history
  <2>. QED  BY <2>1 DEF Allowed, Promise!Next
<1>41. ASSUME NEW a \in Created, NEW p \in Candidates, Occupy(a, p)
     PROVE  Allowed
  BY <1>41, PromiseStutters, SamePlaces DEF Occupy, Meddles
<1>42. ASSUME NEW a \in Created, NEW p \in Candidates, MoveBack(a, p)
     PROVE  Allowed
  <2>1. UNCHANGED <<diskVars, child, operator>>
    BY <1>42 DEF MoveBack, Meddles, history
  <2>2. \A e \in Required : loc'[e] = loc[e] \/ {loc[e], loc'[e]} \subseteq Existing
    BY <1>42, RequiredActions
    DEF MoveBack, PromiseInv, TypeInv, TypeOK, Existing, Candidates
  <2>. QED  BY <2>1, <2>2, PromiseStutters, SameBecoming DEF PromiseInv
<1>43. ASSUME NEW a \in Created, Litter(a)
     PROVE  Allowed
  BY <1>43, PromiseStutters, SamePlaces DEF Litter, Meddles
<1>44. ASSUME NEW a \in Created, MoveAway(a)
     PROVE  Allowed
  <2>1. UNCHANGED <<diskVars, child, operator>>
    BY <1>44 DEF MoveAway, Meddles, history
  <2>2. \A e \in Required : loc'[e] = loc[e] \/ {loc[e], loc'[e]} \subseteq Existing
    BY <1>44, RequiredActions
    DEF MoveAway, PromiseInv, TypeInv, TypeOK, Existing, Candidates
  <2>. QED  BY <2>1, <2>2, PromiseStutters, SameBecoming DEF PromiseInv
<1>45. ASSUME NEW a \in Created, Destroy(a)
     PROVE  Allowed
  <2>1. /\ UNCHANGED <<diskVars, child, operator>> /\ loc[a] \in Existing
        /\ loc' = [loc EXCEPT ![a] = "destroyed"]
    BY <1>45 DEF Destroy, Meddles
  <2>2. CASE a \in Required
    <3>1. Becoming[a] = "present" /\ Becoming' = [Becoming EXCEPT ![a] = "lost"]
      BY <2>1, <2>2, EntryValues, OneEntryChanges, Fates DEF PromiseInv, Places, Existing
    <3>2. Promise!Lose(a)
      BY <2>1, <3>1, SameClaims DEF Promise!Lose, Promise!Becomes
    <3>. QED  BY <2>2, <3>2 DEF Allowed, Promise!Next
  <2>3. CASE a \notin Required
    <3>1. \A e \in Required : loc'[e] = loc[e]
      BY <2>1, <2>3, RequiredActions DEF PromiseInv, TypeInv, TypeOK
    <3>. QED  BY <2>1, <3>1, PromiseStutters, SameBecoming DEF PromiseInv
  <2>. QED  BY <2>2, <2>3
<1>46. ASSUME NEW a \in Created, Edit(a)
     PROVE  Allowed
  BY <1>46, PromiseStutters, SamePlaces DEF Edit, Meddles
<1>47. ASSUME NEW s \in Slots, Vacate(s)
     PROVE  Allowed
  BY <1>47, PromiseStutters, SamePlaces DEF Vacate, Meddles
<1>48. CASE UNCHANGED vars
  BY <1>48, PromiseStutters, SamePlaces DEF vars, diskVars, fsVars, history
<1>. QED
  BY <1>2, <1>3, <1>4, <1>5, <1>6, <1>7, <1>8, <1>9, <1>10, <1>11, <1>12,
     <1>13, <1>14, <1>15, <1>16, <1>17, <1>18, <1>19, <1>20, <1>21, <1>22,
     <1>23, <1>24, <1>25, <1>26, <1>27, <1>28, <1>29, <1>30, <1>31, <1>32,
     <1>33, <1>34, <1>35, <1>36, <1>37, <1>38, <1>39, <1>40, <1>41, <1>42,
     <1>43, <1>44, <1>45, <1>46, <1>47, <1>48
  DEF Next, Process, Apply, Supervise, Cleanup, OtherPrograms

LEMMA PromiseInvariant == Spec => []PromiseInv
BY TypeInvariant, QuarantineInvariant, WriteAheadInvariant, WholeInvariant,
   PassInvariant, OwnedInvariant, IntactInvariant, ClaimInvariant, PTL DEF PromiseInv

LEMMA InitPromise == Init => Promise!Init
<1>. SUFFICES ASSUME Init PROVE Promise!Init
  OBVIOUS
<1>1. Claimed = {} /\ Becoming = [e \in Required |-> "absent"]
  BY RequiredActions, Fates DEF Init, Claimed, Becoming, Places
<1>. QED  BY <1>1 DEF Init, Promise!Init

\* The journal, the places and the locks of a transaction keep the contract of
\* module Ownership where mutation is bound to a held handle: nothing is created
\* before its claim is durable, and no claim is dropped without a removal or the
\* operator's word (apply.rs, create_and_place; cleanup.rs, outcome_for;
\* link/windows.rs).
THEOREM OwnershipIsKept == HandleBound => (Spec => KeepsOwnershipPromise)
<1>. SUFFICES ASSUME HandleBound PROVE Spec => KeepsOwnershipPromise
  OBVIOUS
<1>1. PromiseInv /\ PromiseInv' /\ [Next]_vars => [Promise!Next]_(Promise!vars)
  BY StepIsAllowed DEF PromiseInv, ClaimInv, Allowed
<1>. QED  BY <1>1, InitPromise, PromiseInvariant, PTL
          DEF Spec, KeepsOwnershipPromise, Promise!Spec

\* Where mutation goes by pathname, the contract is kept by every step up to the
\* first one that falls between a check and its use.
THEOREM OwnershipIsKeptUntilRaced ==
  Spec => [][~raced' => Promise!Next \/ UNCHANGED Promise!vars]_vars
<1>1. PromiseInv /\ [Next]_vars
        => (~raced' => Promise!Next \/ UNCHANGED Promise!vars)
  BY StepIsAllowed DEF Allowed
<1>. QED  BY <1>1, PromiseInvariant, PTL DEF Spec

-----------------------------------------------------------------------------
(* What a quiet session leaves behind.                                     *)

\* A session that met no crash and no failing call, and at most one move of
\* another program, which changed no file in place.
Quiet ==
    /\ ~KeepMounts /\ crashes = 0 /\ faults = 0
    /\ meddling <= 1 /\ edited = {}

Astray(a) == loc[a] \in {"away", "destroyed"}
Intruded(a) == \E p \in Candidates : <<a, p>> \in foreign

\* What keeps a directory from being removed although a pass did all it could:
\* it holds something foreign, directly or deeper, or something that was in it is
\* unaccounted for.
Stuck(d) ==
    \/ <<d, "child">> \in foreign
    \/ \E b \in Contents(d) :
         \/ Astray(b) \/ Intruded(b)
         \/ Op[b] = "mkdir" /\ loc[b] \in Candidates /\ <<b, "child">> \in foreign
Good(a) == loc[a] \in Candidates => Op[a] = "mkdir" /\ Stuck(a)

\* Another program has had to do with an entry or with a directory around it.
Disturbed(a) ==
    \/ Astray(a) \/ Intruded(a)
    \/ \E d \in Actions : <<d, a>> \in Inside /\ Astray(d)

\* One move only: one foreign entry, or entries that went together.
Planted == {s \in foreign : s[1] \in Created}
OneMove ==
    /\ meddling = 0 => Planted = {} /\ \A a \in Actions : ~Astray(a)
    /\ \A s, t \in Planted : s = t
    /\ (\E a \in Actions : Astray(a)) => Planted = {}
\* An entry lies in directories that are there.
Contained ==
    \A a \in Created : loc[a] \in Candidates \/ Intruded(a) => ContainerPresent(a)
\* Between two steps of the process its entry can go astray, no more.
UnderTheHand ==
    /\ pc \in {"stage", "place", "rename"} => loc[cur] = "temp" \/ Astray(cur)
    /\ pc = "confirm" => loc[cur] = "final" \/ Astray(cur)
    /\ pc = "unlink" => loc[cur] = cand \/ Astray(cur)

\* A directory holds what this transaction creates, of two directories around an
\* entry one holds the other, and what a directory holds holds more of it.
LEMMA InsideFacts ==
  /\ \A d, a : <<d, a>> \in Inside =>
       /\ d \in Actions /\ d \in Created /\ Op[d] = "mkdir"
       /\ a \in Actions /\ a \in Created /\ d < a
  /\ \A d, a, b : <<d, a>> \in Inside /\ <<a, b>> \in Inside => <<d, b>> \in Inside
  /\ \A d, e, a : <<d, a>> \in Inside /\ <<e, a>> \in Inside =>
       d = e \/ <<d, e>> \in Inside \/ <<e, d>> \in Inside
  /\ \A d, a : a \in Contents(d) <=> a \in Actions /\ <<d, a>> \in Inside
<1>1. ASSUME NEW d, NEW a, <<d, a>> \in Inside
      PROVE  /\ d \in Actions /\ d \in Created /\ Op[d] = "mkdir"
             /\ a \in Actions /\ a \in Created /\ d < a
  <2>1. d \in {x \in Actions : Op[x] = "mkdir"} /\ a \in Created
    BY <1>1, InsideAssumption
  <2>2. <<d, a>>[1] < <<d, a>>[2]
    BY <1>1, InsideAssumption
  <2>. QED  BY <2>1, <2>2 DEF Created
<1>2. ASSUME NEW d, NEW a, NEW b, <<d, a>> \in Inside, <<a, b>> \in Inside
      PROVE  <<d, b>> \in Inside
  <2>1. <<d, a>>[2] = <<a, b>>[1]
    OBVIOUS
  <2>2. <<(<<d, a>>)[1], (<<a, b>>)[2]>> \in Inside
    BY <1>2, <2>1, InsideAssumption
  <2>. QED  BY <2>2
<1>3. ASSUME NEW d, NEW e, NEW a, <<d, a>> \in Inside, <<e, a>> \in Inside
      PROVE  d = e \/ <<d, e>> \in Inside \/ <<e, d>> \in Inside
  <2>1. <<d, a>>[2] = <<e, a>>[2]
    OBVIOUS
  <2>2. \/ <<d, a>>[1] = <<e, a>>[1]
        \/ <<(<<d, a>>)[1], (<<e, a>>)[1]>> \in Inside
        \/ <<(<<e, a>>)[1], (<<d, a>>)[1]>> \in Inside
    BY <1>3, <2>1, InsideAssumption
  <2>. QED  BY <2>2
<1>. QED  BY <1>1, <1>2, <1>3 DEF Contents

\* Nothing that disturbs a session is undone.
LEMMA DisturbanceCounts ==
  ASSUME TypeInv, [Next]_vars
  PROVE  /\ crashes' >= crashes
         /\ faults' >= faults
         /\ meddling' >= meddling
         /\ edited \subseteq edited'
<1>. DEFINE Grows == /\ crashes' >= crashes
                     /\ faults' >= faults
                     /\ meddling' >= meddling
                     /\ edited \subseteq edited'
<1>. SUFFICES Grows
  OBVIOUS
<1>1. /\ crashes \in Nat
      /\ faults \in Nat
      /\ meddling \in Nat
  BY BoundAssumption DEF TypeInv, TypeOK
<1>. USE DEF vars, fsVars, budget, Persists, PersistFails, Fails, Meddles
<1>2. CASE Open
  BY <1>2, <1>1 DEF Open
<1>3. CASE BeginApply
  BY <1>3, <1>1 DEF BeginApply
<1>4. CASE ConfirmReuse
  BY <1>4, <1>1 DEF ConfirmReuse
<1>5. CASE Drift
  BY <1>5, <1>1 DEF Drift
<1>6. CASE Intent
  BY <1>6, <1>1 DEF Intent
<1>7. CASE CreateStaged
  BY <1>7, <1>1 DEF CreateStaged
<1>8. CASE CreateFails
  BY <1>8, <1>1 DEF CreateFails
<1>9. CASE Stage
  BY <1>9, <1>1 DEF Stage
<1>10. CASE VerifyStaged
  BY <1>10, <1>1 DEF VerifyStaged
<1>11. CASE RenameNoReplace
  BY <1>11, <1>1 DEF RenameNoReplace
<1>12. CASE RenameFails
  BY <1>12, <1>1 DEF RenameFails
<1>13. CASE ConfirmPlaced
  BY <1>13, <1>1 DEF ConfirmPlaced
<1>14. CASE PlacementFailure
  BY <1>14, <1>1 DEF PlacementFailure
<1>15. CASE Activate
  BY <1>15, <1>1 DEF Activate
<1>16. CASE SpawnBoundary
  BY <1>16, <1>1 DEF SpawnBoundary
<1>17. CASE BeginSupervision
  BY <1>17, <1>1 DEF BeginSupervision
<1>18. CASE EmitDiagnostics
  BY <1>18, <1>1 DEF EmitDiagnostics
<1>19. CASE Spawn
  BY <1>19, <1>1 DEF Spawn
<1>20. CASE ChildProvenDead
  BY <1>20, <1>1 DEF ChildProvenDead
<1>21. CASE LivenessUncertain
  BY <1>21, <1>1 DEF LivenessUncertain
<1>22. CASE BeginCleanup
  BY <1>22, <1>1 DEF BeginCleanup
<1>23. CASE Keep
  BY <1>23, <1>1 DEF Keep
<1>24. CASE SkipAction
  BY <1>24, <1>1 DEF SkipAction
<1>25. CASE ClearAction
  BY <1>25, <1>1 DEF ClearAction
<1>26. CASE ScanCandidate
  <2>1. faults' = faults \/ Fails
    BY <1>26 DEF ScanCandidate
  <2>2. crashes' = crashes /\ meddling' = meddling /\ edited' = edited
    BY <1>26 DEF ScanCandidate
  <2>. QED  BY <2>1, <2>2, <1>1
<1>27. CASE VerifyForRemoval
  BY <1>27, <1>1 DEF VerifyForRemoval
<1>28. CASE Unlink
  BY <1>28, <1>1 DEF Unlink
<1>29. CASE UnlinkFails
  BY <1>29, <1>1 DEF UnlinkFails
<1>30. CASE Settle
  BY <1>30, <1>1 DEF Settle
<1>31. CASE SettleAborts
  BY <1>31, <1>1 DEF SettleAborts
<1>32. CASE LeaveUnresolved
  BY <1>32, <1>1 DEF LeaveUnresolved
<1>33. CASE PassEnds
  BY <1>33, <1>1 DEF PassEnds
<1>34. CASE RecordFailure
  BY <1>34, <1>1 DEF RecordFailure
<1>35. CASE Complete
  BY <1>35, <1>1 DEF Complete
<1>36. CASE Retire
  BY <1>36, <1>1 DEF Retire
<1>37. CASE Recover
  BY <1>37, <1>1 DEF Recover
<1>38. CASE CleanupExplicit
  BY <1>38, <1>1 DEF CleanupExplicit
<1>39. CASE Crash
  BY <1>39, <1>1 DEF Crash
<1>40. CASE ChildExits
  BY <1>40, <1>1 DEF ChildExits
<1>41. ASSUME NEW a \in Created, NEW p \in Candidates, Occupy(a, p)
     PROVE  Grows
  BY <1>41, <1>1 DEF Occupy
<1>42. ASSUME NEW a \in Created, NEW p \in Candidates, MoveBack(a, p)
     PROVE  Grows
  BY <1>42, <1>1 DEF MoveBack
<1>43. ASSUME NEW a \in Created, Litter(a)
     PROVE  Grows
  BY <1>43, <1>1 DEF Litter
<1>44. ASSUME NEW a \in Created, MoveAway(a)
     PROVE  Grows
  BY <1>44, <1>1 DEF MoveAway
<1>45. ASSUME NEW a \in Created, Destroy(a)
     PROVE  Grows
  BY <1>45, <1>1 DEF Destroy
<1>46. ASSUME NEW a \in Created, Edit(a)
     PROVE  Grows
  BY <1>46, <1>1 DEF Edit
<1>47. ASSUME NEW s \in Slots, Vacate(s)
     PROVE  Grows
  BY <1>47, <1>1 DEF Vacate
<1>48. CASE UNCHANGED vars
  BY <1>48, <1>1
<1>. QED
  BY <1>2, <1>3, <1>4, <1>5, <1>6, <1>7, <1>8, <1>9, <1>10, <1>11, <1>12,
     <1>13, <1>14, <1>15, <1>16, <1>17, <1>18, <1>19, <1>20, <1>21, <1>22,
     <1>23, <1>24, <1>25, <1>26, <1>27, <1>28, <1>29, <1>30, <1>31, <1>32,
     <1>33, <1>34, <1>35, <1>36, <1>37, <1>38, <1>39, <1>40, <1>41, <1>42,
     <1>43, <1>44, <1>45, <1>46, <1>47, <1>48
  DEF Next, Process, Apply, Supervise, Cleanup, OtherPrograms

LEMMA QuietBefore ==
  ASSUME TypeInv, [Next]_vars, Quiet'
  PROVE  Quiet
<1>1. /\ crashes \in Nat
      /\ faults \in Nat
      /\ meddling \in Nat
  BY BoundAssumption DEF TypeInv, TypeOK
<1>2. /\ crashes' = 0
      /\ faults' = 0
      /\ meddling' <= 1
      /\ edited' = {}
      /\ ~KeepMounts
  BY DEF Quiet
<1>3. /\ crashes' >= crashes
      /\ faults' >= faults
      /\ meddling' >= meddling
      /\ edited \subseteq edited'
  BY DisturbanceCounts
<1>4. /\ meddling <= 1
      /\ crashes = 0
      /\ faults = 0
      /\ edited = {}
  <2>1. crashes = 0 /\ faults = 0 /\ edited = {}
    BY <1>1, <1>2, <1>3
  <2>2. meddling' <= 1 /\ meddling' >= meddling /\ meddling' \in Nat
    BY <1>2, <1>3, TypeStep, BoundAssumption DEF TypeInv, TypeOK
  <2>. QED  BY <1>1, <2>1, <2>2
<1>. QED  BY <1>2, <1>4 DEF Quiet

\* The steps that change the filesystem.
LEMMA EntriesMove ==
  ASSUME TypeInv, [Next]_vars, Quiet'
  PROVE  \/ UNCHANGED <<loc, foreign, edited, meddling>> /\ ~CreateStaged
         \/ CreateStaged \/ RenameNoReplace \/ Unlink \/ OtherPrograms
<1>. DEFINE Same == UNCHANGED <<loc, foreign, edited, meddling>> /\ ~CreateStaged
<1>. DEFINE Outcome == Same \/ CreateStaged \/ RenameNoReplace \/ Unlink \/ OtherPrograms
<1>. SUFFICES Outcome
  OBVIOUS
<1>1. faults \in Nat /\ faults' = 0
  BY BoundAssumption DEF Quiet, TypeInv, TypeOK
<1>. USE DEF vars, fsVars, budget
<1>2. CASE Open
  BY <1>2 DEF Open, CreateStaged
<1>3. CASE BeginApply
  BY <1>3 DEF BeginApply, CreateStaged
<1>4. CASE ConfirmReuse
  BY <1>4 DEF ConfirmReuse, CreateStaged
<1>5. CASE Drift
  BY <1>5 DEF Drift, CreateStaged
<1>6. CASE Intent
  BY <1>6 DEF Intent, CreateStaged
<1>7. CASE CreateStaged
  BY <1>7
<1>8. CASE CreateFails
  BY <1>8, <1>1 DEF CreateFails, Fails, CreateStaged, RollBack, Reconciling, At
<1>9. CASE Stage
  BY <1>9 DEF Stage, CreateStaged
<1>10. CASE VerifyStaged
  BY <1>10 DEF VerifyStaged, CreateStaged
<1>11. CASE RenameNoReplace
  BY <1>11
<1>12. CASE RenameFails
  BY <1>12 DEF RenameFails, CreateStaged
<1>13. CASE ConfirmPlaced
  BY <1>13 DEF ConfirmPlaced, CreateStaged
<1>14. CASE PlacementFailure
  BY <1>14 DEF PlacementFailure, CreateStaged
<1>15. CASE Activate
  BY <1>15 DEF Activate, CreateStaged
<1>16. CASE SpawnBoundary
  BY <1>16 DEF SpawnBoundary, CreateStaged
<1>17. CASE BeginSupervision
  BY <1>17 DEF BeginSupervision, CreateStaged
<1>18. CASE EmitDiagnostics
  BY <1>18 DEF EmitDiagnostics, CreateStaged
<1>19. CASE Spawn
  BY <1>19 DEF Spawn, CreateStaged
<1>20. CASE ChildProvenDead
  BY <1>20 DEF ChildProvenDead, CreateStaged
<1>21. CASE LivenessUncertain
  BY <1>21 DEF LivenessUncertain, CreateStaged
<1>22. CASE BeginCleanup
  BY <1>22 DEF BeginCleanup, CreateStaged
<1>23. CASE Keep
  BY <1>23 DEF Keep, CreateStaged
<1>24. CASE SkipAction
  BY <1>24 DEF SkipAction, CreateStaged
<1>25. CASE ClearAction
  BY <1>25 DEF ClearAction, CreateStaged
<1>26. CASE ScanCandidate
  BY <1>26 DEF ScanCandidate, CreateStaged
<1>27. CASE VerifyForRemoval
  BY <1>27 DEF VerifyForRemoval, CreateStaged
<1>28. CASE Unlink
  BY <1>28
<1>29. CASE UnlinkFails
  BY <1>29 DEF UnlinkFails, CreateStaged
<1>30. CASE Settle
  BY <1>30 DEF Settle, CreateStaged
<1>31. CASE SettleAborts
  BY <1>31 DEF SettleAborts, CreateStaged
<1>32. CASE LeaveUnresolved
  BY <1>32 DEF LeaveUnresolved, CreateStaged
<1>33. CASE PassEnds
  BY <1>33 DEF PassEnds, CreateStaged
<1>34. CASE RecordFailure
  BY <1>34 DEF RecordFailure, CreateStaged
<1>35. CASE Complete
  BY <1>35 DEF Complete, CreateStaged
<1>36. CASE Retire
  BY <1>36 DEF Retire, CreateStaged
<1>37. CASE Recover
  BY <1>37 DEF Recover, CreateStaged
<1>38. CASE CleanupExplicit
  BY <1>38 DEF CleanupExplicit, CreateStaged
<1>39. CASE Crash
  BY <1>39 DEF Crash, CreateStaged
<1>40. CASE ChildExits
  BY <1>40 DEF ChildExits, CreateStaged
<1>41. ASSUME NEW a \in Created, NEW p \in Candidates, Occupy(a, p)
     PROVE  Outcome
  BY <1>41 DEF OtherPrograms
<1>42. ASSUME NEW a \in Created, NEW p \in Candidates, MoveBack(a, p)
     PROVE  Outcome
  BY <1>42 DEF OtherPrograms
<1>43. ASSUME NEW a \in Created, Litter(a)
     PROVE  Outcome
  BY <1>43 DEF OtherPrograms
<1>44. ASSUME NEW a \in Created, MoveAway(a)
     PROVE  Outcome
  BY <1>44 DEF OtherPrograms
<1>45. ASSUME NEW a \in Created, Destroy(a)
     PROVE  Outcome
  BY <1>45 DEF OtherPrograms
<1>46. ASSUME NEW a \in Created, Edit(a)
     PROVE  Outcome
  BY <1>46 DEF OtherPrograms
<1>47. ASSUME NEW s \in Slots, Vacate(s)
     PROVE  Outcome
  BY <1>47 DEF OtherPrograms
<1>48. CASE UNCHANGED vars
  <2>1. pc' = pc
    BY <1>48 DEF procVars
  <2>2. ~CreateStaged
    BY <2>1 DEF CreateStaged, At
  <2>. QED  BY <1>48, <2>2
<1>. QED
  BY <1>2, <1>3, <1>4, <1>5, <1>6, <1>7, <1>8, <1>9, <1>10, <1>11, <1>12,
     <1>13, <1>14, <1>15, <1>16, <1>17, <1>18, <1>19, <1>20, <1>21, <1>22,
     <1>23, <1>24, <1>25, <1>26, <1>27, <1>28, <1>29, <1>30, <1>31, <1>32,
     <1>33, <1>34, <1>35, <1>36, <1>37, <1>38, <1>39, <1>40, <1>41, <1>42,
     <1>43, <1>44, <1>45, <1>46, <1>47, <1>48
  DEF Next, Process, Apply, Supervise, Cleanup, OtherPrograms

-----------------------------------------------------------------------------
(* What becomes of the entries of a quiet session.                         *)

\* The invariants proved above that the argument rests on.
Background ==
    /\ TypeInv /\ WriteAhead /\ WholeInv /\ PassInv /\ ModeInv
    /\ Intact /\ ClaimInv

LEMMA EntryTypes ==
  ASSUME TypeInv
  PROVE  /\ loc \in [Actions -> Places]
         /\ foreign \subseteq Slots
         /\ Created \subseteq Actions
         /\ meddling \in Nat
         /\ cand \in Candidates
         /\ residue \in [Actions -> {"none"} \cup Candidates]
         /\ Candidates \subseteq Existing
         /\ \A a : Astray(a) => loc[a] \notin Candidates
BY BoundAssumption DEF TypeInv, TypeOK, Created, Candidates, Existing, Astray

\* The one move of another program: an entry goes astray, or a foreign one appears
\* or goes; never does an entry come back.
EntriesStray ==
    \A a \in Actions :
        loc'[a] = loc[a] \/ (loc[a] \in Candidates /\ Astray(a)')
OthersOutcome ==
    /\ meddling = 0 /\ meddling' = 1
    /\ EntriesStray
    /\ OneMove' /\ Contained'

LEMMA OthersMove ==
  ASSUME TypeInv, Quiet', OneMove, Contained, OtherPrograms
  PROVE  OthersOutcome
<1>1. /\ loc \in [Actions -> Places]
      /\ foreign \subseteq Slots
      /\ Created \subseteq Actions
      /\ Candidates \subseteq Existing
  BY EntryTypes
<1>2. ASSUME Meddles
      PROVE  /\ meddling = 0 /\ meddling' = 1
             /\ Planted = {}
             /\ \A a \in Actions : ~Astray(a)
  <2>1. meddling = 0 /\ meddling' = 1
    BY <1>2, EntryTypes DEF Meddles, Quiet
  <2>. QED  BY <2>1 DEF OneMove
\* Where no entry moves, one foreign entry more or fewer is all there is.
<1>3. ASSUME Meddles, loc' = loc,
             \A s, t \in Planted' : s = t,
             \A a \in Created, d \in Actions :
               <<d, a>> \in Inside /\ (loc[a] \in Candidates \/ Intruded(a)')
                 => Occupied(d, "final")'
      PROVE  OthersOutcome
  <2>1. \A a \in Actions : ~Astray(a)'
    BY <1>2, <1>3 DEF Astray
  <2>2. OneMove'
    BY <1>2, <1>3, <2>1 DEF OneMove
  <2>3. Contained'
    BY <1>3 DEF Contained, ContainerPresent
  <2>. QED  BY <1>2, <1>3, <2>2, <2>3 DEF OthersOutcome, EntriesStray
\* Where entries go astray, nothing foreign is or comes about.
<1>4. ASSUME Meddles, EntriesStray, foreign' \subseteq foreign,
             \A a \in Created, d \in Created :
               <<d, a>> \in Inside /\ loc'[a] \in Candidates /\ loc[a] \in Candidates
                 /\ loc[d] = "final" => loc'[d] = "final"
      PROVE  OthersOutcome
  <2>1. Planted' = {}
    BY <1>2, <1>4 DEF Planted
  <2>2. OneMove'
    BY <1>2, <1>4, <2>1 DEF OneMove
  <2>3. ASSUME NEW a \in Created, NEW d \in Actions, <<d, a>> \in Inside,
               loc'[a] \in Candidates \/ Intruded(a)'
        PROVE  Occupied(d, "final")'
    <3>1. ~Intruded(a)'
      <4>1. ASSUME NEW p \in Candidates, <<a, p>> \in foreign'
            PROVE  FALSE
        <5>1. (<<a, p>>)[1] \in Created
          BY <2>3
        <5>2. <<a, p>> \in Planted'
          BY <4>1, <5>1 DEF Planted
        <5>. QED  BY <2>1, <5>2
      <4>. QED  BY <4>1 DEF Intruded
    <3>2. loc'[a] \in Candidates /\ loc[a] \in Candidates
      BY <1>1, <1>4, <2>3, <3>1 DEF EntriesStray, Astray, Candidates
    <3>3. d \in Created /\ <<d, "final">> \notin foreign
      BY <1>2, <1>4, <2>3, InsideFacts DEF Planted
    <3>4. loc[d] = "final"
      BY <2>3, <3>2, <3>3 DEF Contained, ContainerPresent, Occupied
    <3>5. loc'[d] = "final"
      BY <1>4, <2>3, <3>2, <3>3, <3>4
    <3>. QED  BY <3>5 DEF Occupied
  <2>4. Contained'
    BY <2>3 DEF Contained, ContainerPresent
  <2>. QED  BY <1>2, <1>4, <2>2, <2>4 DEF OthersOutcome
<1>5. ASSUME NEW b \in Created, NEW p \in Candidates, Occupy(b, p)
      PROVE  OthersOutcome
  <2>1. /\ Meddles /\ loc' = loc
        /\ foreign' = foreign \cup {<<b, p>>}
        /\ ContainerPresent(b)
    BY <1>5 DEF Occupy
  <2>2. \A s, t \in Planted' : s = t
    BY <1>2, <2>1 DEF Planted
  <2>3. ASSUME NEW a \in Created, NEW d \in Actions, <<d, a>> \in Inside,
               loc[a] \in Candidates \/ Intruded(a)'
        PROVE  Occupied(d, "final")'
    <3>1. Intruded(a)' => Intruded(a) \/ a = b
      BY <2>1 DEF Intruded
    <3>2. Occupied(d, "final")
      BY <2>1, <2>3, <3>1 DEF Contained, ContainerPresent
    <3>. QED  BY <2>1, <3>2 DEF Occupied
  <2>. QED  BY <1>3, <2>1, <2>2, <2>3
<1>6. ASSUME NEW b \in Created, NEW p \in Candidates, MoveBack(b, p)
      PROVE  OthersOutcome
  BY <1>1, <1>2, <1>6 DEF MoveBack, Astray
<1>7. ASSUME NEW b \in Created, Litter(b)
      PROVE  OthersOutcome
  <2>1. /\ Meddles /\ loc' = loc
        /\ foreign' = foreign \cup {<<b, "child">>}
    BY <1>7 DEF Litter
  <2>2. \A s, t \in Planted' : s = t
    BY <1>2, <2>1 DEF Planted
  <2>3. ASSUME NEW a \in Created, NEW d \in Actions, <<d, a>> \in Inside,
               loc[a] \in Candidates \/ Intruded(a)'
        PROVE  Occupied(d, "final")'
    <3>1. Intruded(a)' => Intruded(a)
      BY <2>1 DEF Intruded, Candidates
    <3>2. Occupied(d, "final")
      BY <2>3, <3>1 DEF Contained, ContainerPresent
    <3>. QED  BY <2>1, <3>2 DEF Occupied
  <2>. QED  BY <1>3, <2>1, <2>2, <2>3
<1>8. ASSUME NEW b \in Created, MoveAway(b)
      PROVE  OthersOutcome
  <2>. DEFINE inner == IF loc[b] = "final"
                         THEN {e \in Contents(b) : loc[e] \in Candidates} ELSE {}
              moved == {b} \cup inner
  <2>1. /\ Meddles /\ foreign' \subseteq foreign /\ loc[b] \in Candidates
        /\ loc' = [e \in Actions |-> IF e \in moved THEN "away" ELSE loc[e]]
    BY <1>8 DEF MoveAway
  <2>2. \A e \in Actions : e \in moved => loc[e] \in Candidates
    BY <2>1
  <2>3. \A e \in Actions : loc'[e] = IF e \in moved THEN "away" ELSE loc[e]
    BY <2>1
  <2>4. EntriesStray
    BY <2>2, <2>3 DEF EntriesStray, Astray
  <2>5. ASSUME NEW a \in Created, NEW d \in Created, <<d, a>> \in Inside,
               loc'[a] \in Candidates, loc[a] \in Candidates, loc[d] = "final"
        PROVE  loc'[d] = "final"
    <3>1. a \notin moved
      BY <1>1, <2>3, <2>5 DEF Candidates
    <3>2. CASE d = b
      <4>1. a \in inner
        BY <1>1, <2>5, <3>2 DEF Contents
      <4>. QED  BY <3>1, <4>1
    <3>3. CASE d \in inner
      <4>1. loc[b] = "final" /\ <<b, d>> \in Inside
        BY <3>3 DEF Contents
      <4>2. <<b, a>> \in Inside
        BY <2>5, <4>1, InsideFacts
      <4>3. a \in inner
        BY <1>1, <2>5, <4>1, <4>2 DEF Contents
      <4>. QED  BY <3>1, <4>3
    <3>4. CASE d \notin moved
      BY <1>1, <2>3, <2>5, <3>4
    <3>. QED  BY <3>2, <3>3, <3>4
  <2>6. \A a \in Created, d \in Created :
          <<d, a>> \in Inside /\ loc'[a] \in Candidates /\ loc[a] \in Candidates
            /\ loc[d] = "final" => loc'[d] = "final"
    BY <2>5
  <2>. QED  BY <1>4, <2>1, <2>4, <2>6
<1>9. ASSUME NEW b \in Created, Destroy(b)
      PROVE  OthersOutcome
  <2>1. /\ Meddles /\ foreign' = foreign /\ loc[b] \in Existing
        /\ Op[b] = "mkdir" => EmptyDirectory(b)
    BY <1>9 DEF Destroy
  <2>2. \A e \in Actions : loc'[e] = IF e = b THEN "destroyed" ELSE loc[e]
    BY <1>1, <1>9 DEF Destroy
  <2>3. loc[b] \in Candidates
    BY <1>1, <1>2, <2>1 DEF Existing, Candidates, Astray
  <2>4. EntriesStray
    BY <2>2, <2>3 DEF EntriesStray, Astray
  <2>5. ASSUME NEW a \in Created, NEW d \in Created, <<d, a>> \in Inside,
               loc'[a] \in Candidates, loc[a] \in Candidates, loc[d] = "final"
        PROVE  loc'[d] = "final"
    <3>1. CASE d = b
      <4>1. Op[d] = "mkdir" /\ a \in Contents(d)
        BY <2>5, InsideFacts
      <4>2. ~Occupied(a, loc[a])
        BY <2>1, <2>5, <3>1, <4>1 DEF EmptyDirectory
      <4>. QED  BY <4>2 DEF Occupied
    <3>. QED  BY <1>1, <2>2, <2>5, <3>1
  <2>6. \A a \in Created, d \in Created :
          <<d, a>> \in Inside /\ loc'[a] \in Candidates /\ loc[a] \in Candidates
            /\ loc[d] = "final" => loc'[d] = "final"
    BY <2>5
  <2>. QED  BY <1>4, <2>1, <2>4, <2>6
<1>10. ASSUME NEW b \in Created, Edit(b)
       PROVE  OthersOutcome
  BY <1>10 DEF Edit, Quiet
<1>11. ASSUME NEW s \in Slots, Vacate(s)
       PROVE  OthersOutcome
  <2>1. /\ Meddles /\ loc' = loc /\ s \in foreign
        /\ foreign' = foreign \ {s}
    BY <1>11 DEF Vacate
  <2>2. \A t, u \in Planted' : t = u
    BY <1>2, <2>1 DEF Planted
  <2>3. ASSUME NEW a \in Created, NEW d \in Actions, <<d, a>> \in Inside,
               loc[a] \in Candidates \/ Intruded(a)'
        PROVE  Occupied(d, "final")'
    <3>1. Intruded(a)' => Intruded(a)
      BY <2>1 DEF Intruded
    <3>2. Occupied(d, "final") /\ d \in Created
      BY <2>3, <3>1, InsideFacts DEF Contained, ContainerPresent
    <3>3. <<d, "final">> # s
      BY <1>2, <2>1, <3>2 DEF Planted
    <3>. QED  BY <2>1, <3>2, <3>3 DEF Occupied
  <2>. QED  BY <1>3, <2>1, <2>2, <2>3
<1>. QED
  BY <1>5, <1>6, <1>7, <1>8, <1>9, <1>10, <1>11 DEF OtherPrograms

\* The process creates, places and unlinks the entry under its hand, if it is
\* there still.
EntryGoes(from, to) ==
    /\ cur \in Created /\ loc[cur] = from
    /\ loc' = [loc EXCEPT ![cur] = to]
    /\ UNCHANGED <<foreign, edited, meddling>>

LEMMA EntryCreated ==
  ASSUME Background, CreateStaged
  PROVE  EntryGoes("none", "temp") /\ pc = "create" /\ ContainerPresent(cur)
<1>1. pc = "create" /\ cur \in Actions /\ cur \in Nat
  BY NAssumption
  DEF Background, TypeInv, CurInRange, AtAction, CreateStaged, Actions
<1>2. cur \in Created
  BY <1>1 DEF Background, WholeInv, ReuseRecorded, ApplyLabels, Created
<1>3. loc[cur] = "none"
  BY <1>1 DEF Background, Intact, Untouched
<1>. QED  BY <1>1, <1>2, <1>3 DEF CreateStaged, Creatable, EntryGoes, budget

LEMMA NotIntruded ==
  ASSUME OneMove, NEW a \in Created, Astray(a), NEW q
  PROVE  <<a, q>> \notin foreign
<1>1. Planted = {}
  BY DEF OneMove, Created
<1>2. (<<a, q>>)[1] \in Created
  OBVIOUS
<1>. QED  BY <1>1, <1>2 DEF Planted

LEMMA EntryPlaced ==
  ASSUME Background, OneMove, UnderTheHand, RenameNoReplace
  PROVE  EntryGoes("temp", "final") /\ pc = "rename" /\ ContainerPresent(cur)
<1>1. pc = "rename" /\ cur \in Actions
  BY DEF Background, TypeInv, CurInRange, AtAction, RenameNoReplace
<1>2. cur \in Created
  BY <1>1 DEF Background, WholeInv, ReuseRecorded, ApplyLabels, Created
<1>3. loc[cur] = "temp"
  BY <1>1, <1>2, NotIntruded DEF UnderTheHand, RenameNoReplace, Occupied
<1>. QED  BY <1>1, <1>2, <1>3 DEF RenameNoReplace, EntryGoes, budget

LEMMA EntryUnlinked ==
  ASSUME Background, OneMove, UnderTheHand, Unlink
  PROVE  /\ EntryGoes(cand, "unlinked") /\ pc = "unlink"
         /\ Op[cur] = "mkdir" => EmptyDirectory(cur)
<1>1. pc = "unlink" /\ cur \in Created
  BY DEF Background, ClaimInv, Journaled, Candidate, Unlink
<1>2. loc[cur] = cand
  BY <1>1, NotIntruded DEF UnderTheHand, Unlink, Occupied
<1>. QED  BY <1>1, <1>2 DEF Unlink, EntryGoes, budget

\* What a step of a quiet session does to the filesystem.
Still == UNCHANGED <<loc, foreign, edited, meddling>> /\ ~CreateStaged
FromTo(from, to) ==
    \/ from = "none" /\ to = "temp" /\ pc = "create" /\ CreateStaged
    \/ from = "temp" /\ to = "final" /\ pc = "rename" /\ RenameNoReplace
    \/ from = cand /\ to = "unlinked" /\ pc = "unlink" /\ Unlink
         /\ (Op[cur] = "mkdir" => EmptyDirectory(cur))
ByHand == \E from, to \in Places : FromTo(from, to) /\ EntryGoes(from, to)

LEMMA QuietMoves ==
  ASSUME Background, OneMove, Contained, UnderTheHand, [Next]_vars, Quiet'
  PROVE  Still \/ ByHand \/ (OtherPrograms /\ OthersOutcome)
<1>1. TypeInv /\ Quiet
  BY QuietBefore DEF Background
<1>2. CASE CreateStaged
  <2>1. FromTo("none", "temp") /\ EntryGoes("none", "temp")
    BY <1>2, EntryCreated DEF FromTo
  <2>2. "none" \in Places /\ "temp" \in Places
    BY DEF Places
  <2>. QED  BY <2>1, <2>2 DEF ByHand
<1>3. CASE RenameNoReplace
  <2>1. FromTo("temp", "final") /\ EntryGoes("temp", "final")
    BY <1>3, EntryPlaced DEF FromTo
  <2>2. "final" \in Places /\ "temp" \in Places
    BY DEF Places
  <2>. QED  BY <2>1, <2>2 DEF ByHand
<1>4. CASE Unlink
  <2>1. FromTo(cand, "unlinked") /\ EntryGoes(cand, "unlinked")
    BY <1>4, EntryUnlinked DEF FromTo
  <2>2. cand \in Places /\ "unlinked" \in Places
    BY <1>1, EntryTypes DEF Places, Candidates
  <2>. QED  BY <2>1, <2>2 DEF ByHand
<1>5. CASE OtherPrograms
  BY <1>1, <1>5, OthersMove
<1>. QED  BY <1>1, <1>2, <1>3, <1>4, <1>5, EntriesMove DEF Still

LEMMA OneMoveStep ==
  ASSUME Background, OneMove, Contained, UnderTheHand, [Next]_vars, Quiet'
  PROVE  OneMove' /\ Contained'
<1>1. /\ loc \in [Actions -> Places]
      /\ Created \subseteq Actions
  BY EntryTypes DEF Background
<1>2. CASE Still
  BY <1>2
  DEF Still, OneMove, Planted, Astray, Contained, Intruded, ContainerPresent,
              Occupied
<1>3. ASSUME NEW from \in Places, NEW to \in Places, FromTo(from, to),
             EntryGoes(from, to)
      PROVE  OneMove' /\ Contained'
  <2>1. /\ cur \in Created /\ loc[cur] = from /\ foreign' = foreign
        /\ meddling' = meddling
        /\ \A a \in Actions : loc'[a] = IF a = cur THEN to ELSE loc[a]
    BY <1>1, <1>3 DEF EntryGoes
  <2>2. to \notin {"away", "destroyed"}
    BY <1>3 DEF FromTo
  <2>3. \A a \in Actions : Astray(a)' => Astray(a)
    BY <2>1, <2>2 DEF Astray
  <2>4. OneMove'
    BY <2>1, <2>3 DEF OneMove, Planted
  <2>5. ASSUME NEW a \in Created, NEW d \in Actions, <<d, a>> \in Inside,
               loc'[a] \in Candidates \/ Intruded(a)'
        PROVE  Occupied(d, "final")'
    <3>1. /\ d \in Created /\ Op[d] = "mkdir" /\ a \in Contents(d)
          /\ Intruded(a)' => Intruded(a)
      BY <2>1, <2>5, InsideFacts DEF Intruded
    <3>2. Occupied(d, "final")
      <4>1. CASE loc[a] \in Candidates \/ Intruded(a)
        BY <2>5, <4>1 DEF Contained, ContainerPresent
      <4>2. CASE loc[a] \notin Candidates /\ ~Intruded(a)
        <5>1. a = cur /\ loc'[a] \in Candidates /\ to \in Candidates
          BY <1>1, <2>1, <2>5, <3>1, <4>2
        <5>2. ContainerPresent(cur)
          BY <1>3, <5>1, EntryCreated, EntryPlaced DEF FromTo, Candidates
        <5>. QED  BY <2>5, <5>1, <5>2 DEF ContainerPresent
      <4>. QED  BY <4>1, <4>2
    <3>3. CASE d # cur
      BY <1>1, <2>1, <3>1, <3>2, <3>3 DEF Occupied
    <3>4. CASE d = cur /\ <<d, "final">> \in foreign
      BY <2>1, <3>4 DEF Occupied
    <3>5. CASE d = cur /\ loc[d] = "final" /\ <<d, "final">> \notin foreign
      <4>1. from = "final" /\ Op[cur] = "mkdir"
        BY <2>1, <3>1, <3>5
      <4>2. EmptyDirectory(cur)
        BY <1>3, <4>1 DEF FromTo
      <4>3. a # cur
        BY <2>5, <3>5, InsideFacts DEF Actions
      <4>4. loc[a] \in Candidates \/ Intruded(a)
        BY <1>1, <2>1, <2>5, <3>1, <4>3
      <4>5. PICK p \in Candidates : Occupied(a, p)
        BY <4>4 DEF Occupied, Intruded
      <4>6. ~Occupied(a, p)
        BY <3>1, <3>5, <4>2 DEF EmptyDirectory
      <4>. QED  BY <4>5, <4>6
    <3>. QED  BY <3>2, <3>3, <3>4, <3>5 DEF Occupied
  <2>6. Contained'
    BY <2>5 DEF Contained, ContainerPresent
  <2>. QED  BY <2>4, <2>6
<1>. QED  BY <1>2, <1>3, QuietMoves DEF ByHand, OthersOutcome

\* Every reason to leave something behind is the doing of another program.
LEMMA ReasonsAreMoves ==
  ASSUME OneMove, NEW a \in Created, Disturbed(a) \/ Stuck(a)
  PROVE  meddling # 0
<1>. SUFFICES ASSUME meddling = 0 PROVE FALSE
  OBVIOUS
<1>1. Planted = {} /\ \A b \in Actions : ~Astray(b)
  BY DEF OneMove
<1>2. ASSUME NEW b \in Created, NEW q, <<b, q>> \in foreign
      PROVE  FALSE
  <2>1. (<<b, q>>)[1] \in Created
    BY <1>2
  <2>. QED  BY <1>1, <1>2, <2>1 DEF Planted
<1>3. Contents(a) \subseteq Created /\ Created \subseteq Actions
  BY InsideFacts DEF Created
<1>. QED  BY <1>1, <1>2, <1>3 DEF Disturbed, Stuck, Intruded

\* A pass over this session's own journal, or the apply before it.
FirstPass == mode \in {"session", "rollback"} /\ pc # "idle"
UnderWay == {"scan", "unlink", "settle"}
Finished == {"fail", "complete", "retire"}

\* What the apply has come past is in place, and what it made it has observed.
InOrder ==
    pc \in ApplyLabels =>
        \A a \in Created : a < cur => loc[a] = "final" \/ Astray(a)
Observed == FirstPass => \A a \in Created : loc[a] # "none" => mem.ev[a]
\* Placement keeps back only what another program took from under it.
Residues == \A a \in Created : residue[a] # "none" => Astray(a)
\* What was made is pending until the pass has unlinked and settled it.
StillPending ==
    FirstPass => \A a \in Created :
        /\ loc[a] # "none" /\ (pc \in PassLabels => a <= cur) /\ pc \notin Finished
             => Pending(mem, a)
        /\ loc[a] = "unlinked" =>
             \/ pc \in PassLabels /\ (a > cur \/ (a = cur /\ pc = "settle" /\ gone))
             \/ pc \in Finished
\* An entry is announced and not made only because another program was in the way.
NeverMade ==
    FirstPass => \A a \in Required :
        loc[a] = "none" /\ Pending(mem, a) /\ ~(pc = "create" /\ a = cur) =>
            Disturbed(a)
\* Behind the pass nothing is left that could be removed, and it leaves alone, or
\* unresolved, only what another program has had to do with.
PassSoFar ==
    FirstPass /\ pc \in PassLabels =>
        /\ \A a \in Created : a > cur => Good(a)
        /\ \A a \in unresolved : a \in Required /\ Disturbed(a)
        /\ pc \in UnderWay /\ cur \in Required /\ left => Disturbed(cur)
        /\ pc \in {"scan", "unlink"} /\ cand = "final" /\ loc[cur] = "temp" =>
             Good(cur)
        /\ pc = "settle" => Good(cur)
PassDone ==
    pc \in Finished \cup {"idle"} \/ mode \in {"automatic", "explicit"} =>
        \A a \in Created : Good(a)
NoKeep == mem.keep = FALSE /\ disk.keep = FALSE /\ pc # "keep"

QuietInv ==
    /\ OneMove /\ Contained /\ UnderTheHand /\ InOrder /\ Observed /\ Residues
    /\ StillPending /\ NeverMade /\ PassSoFar /\ PassDone /\ NoKeep

\* Nothing that was disturbed is put right, and nothing comes back that a pass
\* could have removed.
Lasting(a) ==
    /\ Astray(a) => Astray(a)'
    /\ Disturbed(a) => Disturbed(a)'
    /\ Good(a) => Good(a)' \/ (CreateStaged /\ pc = "create" /\ a = cur)

LEMMA DisturbancesLast ==
  ASSUME Background, OneMove, Contained, UnderTheHand, [Next]_vars, Quiet',
         NEW a \in Created
  PROVE  Lasting(a)
<1>1. /\ loc \in [Actions -> Places]
      /\ Created \subseteq Actions
      /\ cand \in Candidates
  BY EntryTypes DEF Background
<1>2. CASE Still
  BY <1>2 DEF Still, Lasting, Astray, Disturbed, Intruded, Good, Stuck
<1>3. ASSUME NEW from \in Places, NEW to \in Places, FromTo(from, to),
             EntryGoes(from, to)
      PROVE  Lasting(a)
  <2>1. /\ cur \in Created /\ loc[cur] = from /\ foreign' = foreign
        /\ \A b \in Actions : loc'[b] = IF b = cur THEN to ELSE loc[b]
    BY <1>1, <1>3 DEF EntryGoes
  <2>2. from \notin {"away", "destroyed"}
    BY <1>1, <1>3 DEF FromTo, Candidates
  <2>3. \A b \in Actions : Astray(b) => Astray(b)'
    BY <2>1, <2>2 DEF Astray
  <2>4. Disturbed(a) => Disturbed(a)'
    BY <1>1, <2>1, <2>3 DEF Disturbed, Intruded
  <2>5. ASSUME NEW b \in Contents(a), Op[b] = "mkdir", loc[b] \in Candidates,
               <<b, "child">> \in foreign
        PROVE  loc'[b] \in Candidates
    <3>1. b \in Actions
      BY DEF Contents
    <3>2. CASE b # cur
      BY <2>1, <2>5, <3>1, <3>2
    <3>3. CASE b = cur
      <4>1. ~EmptyDirectory(cur)
        BY <2>5, <3>3 DEF EmptyDirectory
      <4>2. to = "final"
        BY <1>3, <2>1, <2>5, <3>3, <4>1 DEF FromTo, Candidates
      <4>. QED  BY <2>1, <3>1, <3>3, <4>2 DEF Candidates
    <3>. QED  BY <3>2, <3>3
  <2>6. Stuck(a) => Stuck(a)'
    BY <2>1, <2>3, <2>5 DEF Stuck, Intruded, Contents
  <2>7. ASSUME Good(a), loc'[a] \in Candidates, ~(CreateStaged /\ pc = "create" /\ a = cur)
        PROVE  Op[a] = "mkdir" /\ Stuck(a)'
    <3>1. loc[a] \in Candidates
      <4>1. CASE a # cur
        BY <1>1, <2>1, <2>7, <4>1
      <4>2. CASE a = cur
        <5>1. to \in Candidates /\ ~(CreateStaged /\ pc = "create")
          BY <1>1, <2>1, <2>7, <4>2
        <5>2. from = "temp"
          BY <1>3, <5>1 DEF FromTo, Candidates
        <5>. QED  BY <2>1, <4>2, <5>2 DEF Candidates
      <4>. QED  BY <4>1, <4>2
    <3>. QED  BY <2>6, <2>7, <3>1 DEF Good
  <2>8. Good(a) => Good(a)' \/ (CreateStaged /\ pc = "create" /\ a = cur)
    BY <2>7 DEF Good
  <2>. QED  BY <1>1, <2>3, <2>4, <2>8 DEF Lasting
<1>4. CASE OthersOutcome
  <2>1. ~Disturbed(a) /\ ~Stuck(a)
    BY <1>4, ReasonsAreMoves DEF OthersOutcome
  <2>2. loc'[a] \in Candidates => loc[a] \in Candidates
    BY <1>1, <1>4, EntryTypes DEF OthersOutcome, EntriesStray, Astray, Candidates
  <2>. QED  BY <2>1, <2>2 DEF Lasting, Disturbed, Good
<1>. QED  BY <1>2, <1>3, <1>4, QuietMoves DEF ByHand

\* The counters of a quiet step, and where the process stands.
LEMMA QuietStep ==
  ASSUME Background, [Next]_vars, Quiet'
  PROVE  /\ faults = 0 /\ faults' = 0 /\ crashes = 0 /\ crashes' = 0
         /\ edited = {} /\ edited' = {} /\ ~KeepMounts
         /\ ~Fails /\ ~Crash /\ \A j : ~PersistFails(j)
         /\ pc \in AtAction => cur \in Actions
<1>1. Quiet /\ TypeInv
  BY QuietBefore DEF Background
<1>2. faults = 0 /\ faults' = 0 /\ crashes = 0 /\ crashes' = 0
  BY <1>1 DEF Quiet
<1>. QED  BY <1>1, <1>2 DEF Quiet, Fails, Crash, PersistFails, TypeInv, CurInRange

\* The steps of the process that leave the filesystem alone.
LEMMA OthersKeepProcess ==
  ASSUME OtherPrograms
  PROVE  UNCHANGED <<mem, residue, pc, mode, cur, cand, left, gone, unresolved,
                     disk>>
BY DEF OtherPrograms, Occupy, MoveBack, Litter, MoveAway, Destroy, Edit, Vacate,
       Meddles, procVars, diskVars

\* What is under the hand of the process.
LEMMA UnderTheHandStep ==
  ASSUME Background, QuietInv, [Next]_vars, Quiet'
  PROVE  UnderTheHand'
<1>1. /\ ~Fails /\ ~Crash /\ \A j : ~PersistFails(j)
      /\ edited = {}
      /\ pc \in AtAction => cur \in Actions
  BY QuietStep
<1>2. UnderTheHand /\ loc \in [Actions -> Places]
  BY EntryTypes DEF Background, QuietInv
<1>. USE DEF UnderTheHand, Astray, AtAction, At, RollBack, Reconciling, Exit,
             ActionDone, fsVars, procVars
<1>3. CASE Open
  BY <1>3, <1>1, <1>2 DEF Open
<1>4. CASE BeginApply
  BY <1>4, <1>1, <1>2 DEF BeginApply
<1>5. CASE ConfirmReuse
  BY <1>5, <1>1, <1>2 DEF ConfirmReuse
<1>6. CASE Drift
  BY <1>6, <1>1, <1>2 DEF Drift
<1>7. CASE Intent
  BY <1>7, <1>1, <1>2 DEF Intent
<1>8. CASE CreateStaged
  BY <1>8, <1>1, <1>2 DEF CreateStaged
<1>9. CASE CreateFails
  BY <1>9, <1>1, <1>2 DEF CreateFails
<1>10. CASE Stage
  BY <1>10, <1>1, <1>2 DEF Stage
<1>11. CASE VerifyStaged
  BY <1>11, <1>1, <1>2 DEF VerifyStaged
<1>12. CASE RenameNoReplace
  <2>1. EntryGoes("temp", "final")
    BY <1>12, EntryPlaced DEF QuietInv
  <2>2. pc' = "confirm" /\ cur' = cur /\ cur \in Actions
    BY <1>12, <1>1 DEF RenameNoReplace
  <2>. QED  BY <1>2, <2>1, <2>2 DEF EntryGoes
<1>13. CASE RenameFails
  BY <1>13, <1>1, <1>2 DEF RenameFails
<1>14. CASE ConfirmPlaced
  BY <1>14, <1>1, <1>2 DEF ConfirmPlaced
<1>15. CASE PlacementFailure
  BY <1>15, <1>1, <1>2 DEF PlacementFailure
<1>16. CASE Activate
  BY <1>16, <1>1, <1>2 DEF Activate
<1>17. CASE SpawnBoundary
  BY <1>17, <1>1, <1>2 DEF SpawnBoundary, CleanupRequired
<1>18. CASE BeginSupervision
  BY <1>18, <1>1, <1>2 DEF BeginSupervision, CleanupRequired
<1>19. CASE EmitDiagnostics
  BY <1>19, <1>1, <1>2 DEF EmitDiagnostics, CleanupRequired
<1>20. CASE Spawn
  BY <1>20, <1>1, <1>2 DEF Spawn
<1>21. CASE ChildProvenDead
  BY <1>21, <1>1, <1>2 DEF ChildProvenDead
<1>22. CASE LivenessUncertain
  BY <1>22, <1>1, <1>2 DEF LivenessUncertain
<1>23. CASE BeginCleanup
  BY <1>23, <1>1, <1>2 DEF BeginCleanup
<1>24. CASE Keep
  BY <1>24, <1>1, <1>2 DEF Keep
<1>25. CASE SkipAction
  BY <1>25, <1>1, <1>2 DEF SkipAction
<1>26. CASE ClearAction
  BY <1>26, <1>1, <1>2 DEF ClearAction
<1>27. CASE ScanCandidate
  BY <1>27, <1>1, <1>2 DEF ScanCandidate, NextCandidate
<1>28. CASE VerifyForRemoval
  BY <1>28, <1>1, <1>2 DEF VerifyForRemoval, MayRemove, Verified
<1>29. CASE Unlink
  BY <1>29, <1>1, <1>2 DEF Unlink
<1>30. CASE UnlinkFails
  BY <1>30, <1>1, <1>2 DEF UnlinkFails
<1>31. CASE Settle
  BY <1>31, <1>1, <1>2 DEF Settle
<1>32. CASE SettleAborts
  BY <1>32, <1>1, <1>2 DEF SettleAborts
<1>33. CASE LeaveUnresolved
  BY <1>33, <1>1, <1>2 DEF LeaveUnresolved
<1>34. CASE PassEnds
  BY <1>34, <1>1, <1>2 DEF PassEnds
<1>35. CASE RecordFailure
  BY <1>35, <1>1, <1>2 DEF RecordFailure
<1>36. CASE Complete
  BY <1>36, <1>1, <1>2 DEF Complete
<1>37. CASE Retire
  BY <1>37, <1>1, <1>2 DEF Retire
<1>38. CASE Recover
  BY <1>38, <1>1, <1>2 DEF Recover, Adopt
<1>39. CASE CleanupExplicit
  BY <1>39, <1>1, <1>2 DEF CleanupExplicit, Adopt
<1>40. CASE Crash
  BY <1>40, <1>1
<1>41. CASE ChildExits
  BY <1>41, <1>1, <1>2 DEF ChildExits
<1>42. CASE OtherPrograms
  <2>1. pc' = pc /\ cur' = cur /\ cand' = cand
    BY <1>42, OthersKeepProcess
  <2>2. OthersOutcome
    BY <1>42, QuietBefore, OthersMove DEF Background, QuietInv
  <2>. QED  BY <1>1, <1>2, <2>1, <2>2 DEF OthersOutcome, EntriesStray
<1>43. CASE UNCHANGED vars
  BY <1>43, <1>2 DEF vars
<1>. QED
  BY <1>3, <1>4, <1>5, <1>6, <1>7, <1>8, <1>9, <1>10, <1>11, <1>12, <1>13,
     <1>14, <1>15, <1>16, <1>17, <1>18, <1>19, <1>20, <1>21, <1>22, <1>23,
     <1>24, <1>25, <1>26, <1>27, <1>28, <1>29, <1>30, <1>31, <1>32, <1>33,
     <1>34, <1>35, <1>36, <1>37, <1>38, <1>39, <1>40, <1>41, <1>42, <1>43
  DEF Next, Process, Apply, Supervise, Cleanup

\* What the apply has come past stays in place.
LEMMA InOrderStep ==
  ASSUME Background, QuietInv, [Next]_vars, Quiet'
  PROVE  InOrder'
<1>1. /\ ~Fails /\ ~Crash /\ \A j : ~PersistFails(j)
      /\ edited = {}
      /\ pc \in AtAction => cur \in Actions
  BY QuietStep
<1>2. InOrder /\ loc \in [Actions -> Places] /\ Created \subseteq Actions
  BY EntryTypes DEF Background, QuietInv
<1>3. \A a \in Created : a \in Nat /\ 0 < a /\ (\A c \in Nat : a < c + 1 <=> a < c \/ a = c)
  BY NAssumption DEF Created, Actions
<1>4. cur \in Nat
  BY NAssumption DEF Background, TypeInv, TypeOK
<1>. USE DEF InOrder, ApplyLabels, Astray, AtAction, At, RollBack,
             Reconciling, Exit, ActionDone, fsVars, procVars
<1>5. CASE Open
  BY <1>5, <1>1, <1>2 DEF Open
<1>6. CASE BeginApply
  <2>1. pc' = "check" /\ cur' = 1
    BY <1>6, <1>1 DEF BeginApply
  <2>2. ~ \E a \in Created : a < cur'
    BY <1>3, <2>1
  <2>. QED  BY <2>2
<1>7. CASE ConfirmReuse
  <2>1. Op[cur] = "reuse" /\ loc' = loc /\ pc = "check"
    BY <1>7 DEF ConfirmReuse
  <2>2. cur \notin Created
    BY <2>1 DEF Created
  <2>3. pc' \in ApplyLabels => cur' = cur + 1
    BY <1>7, <1>1 DEF ConfirmReuse
  <2>. QED  BY <1>2, <1>3, <1>4, <2>1, <2>2, <2>3
<1>8. CASE Drift
  BY <1>8, <1>1, <1>2 DEF Drift
<1>9. CASE Intent
  BY <1>9, <1>1, <1>2 DEF Intent
<1>10. CASE CreateStaged
  <2>1. EntryGoes("none", "temp")
    BY <1>10, EntryCreated DEF QuietInv
  <2>2. pc = "create" /\ pc' = "stage" /\ cur' = cur
    BY <1>10, <1>1 DEF CreateStaged
  <2>3. \A a \in Actions : a # cur => loc'[a] = loc[a]
    BY <1>2, <2>1 DEF EntryGoes
  <2>. QED  BY <1>1, <1>2, <1>4, <2>1, <2>2, <2>3 DEF EntryGoes
<1>11. CASE CreateFails
  BY <1>11, <1>1, <1>2 DEF CreateFails
<1>12. CASE Stage
  BY <1>12, <1>1, <1>2 DEF Stage
<1>13. CASE VerifyStaged
  BY <1>13, <1>1, <1>2 DEF VerifyStaged
<1>14. CASE RenameNoReplace
  <2>1. EntryGoes("temp", "final")
    BY <1>14, EntryPlaced DEF QuietInv
  <2>2. pc = "rename" /\ pc' = "confirm" /\ cur' = cur
    BY <1>14, <1>1 DEF RenameNoReplace
  <2>3. \A a \in Actions : a # cur => loc'[a] = loc[a]
    BY <1>2, <2>1 DEF EntryGoes
  <2>. QED  BY <1>1, <1>2, <1>4, <2>1, <2>2, <2>3 DEF EntryGoes
<1>15. CASE RenameFails
  BY <1>15, <1>1, <1>2 DEF RenameFails
<1>16. CASE ConfirmPlaced
  <2>1. loc[cur] = "final" /\ loc' = loc /\ pc = "confirm"
    BY <1>16 DEF ConfirmPlaced, Verified
  <2>2. pc' \in ApplyLabels => cur' = cur + 1
    BY <1>16, <1>1 DEF ConfirmPlaced
  <2>. QED  BY <1>2, <1>3, <1>4, <2>1, <2>2
<1>17. CASE PlacementFailure
  BY <1>17, <1>1, <1>2 DEF PlacementFailure
<1>18. CASE Activate
  BY <1>18, <1>1, <1>2 DEF Activate
<1>19. CASE SpawnBoundary
  BY <1>19, <1>1, <1>2 DEF SpawnBoundary, CleanupRequired
<1>20. CASE BeginSupervision
  BY <1>20, <1>1, <1>2 DEF BeginSupervision, CleanupRequired
<1>21. CASE EmitDiagnostics
  BY <1>21, <1>1, <1>2 DEF EmitDiagnostics, CleanupRequired
<1>22. CASE Spawn
  BY <1>22, <1>1, <1>2 DEF Spawn
<1>23. CASE ChildProvenDead
  BY <1>23, <1>1, <1>2 DEF ChildProvenDead
<1>24. CASE LivenessUncertain
  BY <1>24, <1>1, <1>2 DEF LivenessUncertain
<1>25. CASE BeginCleanup
  BY <1>25, <1>1, <1>2 DEF BeginCleanup
<1>26. CASE Keep
  BY <1>26, <1>1, <1>2 DEF Keep
<1>27. CASE SkipAction
  BY <1>27, <1>1, <1>2 DEF SkipAction
<1>28. CASE ClearAction
  BY <1>28, <1>1, <1>2 DEF ClearAction
<1>29. CASE ScanCandidate
  BY <1>29, <1>1, <1>2 DEF ScanCandidate, NextCandidate
<1>30. CASE VerifyForRemoval
  BY <1>30, <1>1, <1>2 DEF VerifyForRemoval
<1>31. CASE Unlink
  BY <1>31, <1>1, <1>2 DEF Unlink
<1>32. CASE UnlinkFails
  BY <1>32, <1>1, <1>2 DEF UnlinkFails
<1>33. CASE Settle
  BY <1>33, <1>1, <1>2 DEF Settle
<1>34. CASE SettleAborts
  BY <1>34, <1>1, <1>2 DEF SettleAborts
<1>35. CASE LeaveUnresolved
  BY <1>35, <1>1, <1>2 DEF LeaveUnresolved
<1>36. CASE PassEnds
  BY <1>36, <1>1, <1>2 DEF PassEnds
<1>37. CASE RecordFailure
  BY <1>37, <1>1, <1>2 DEF RecordFailure
<1>38. CASE Complete
  BY <1>38, <1>1, <1>2 DEF Complete
<1>39. CASE Retire
  BY <1>39, <1>1, <1>2 DEF Retire
<1>40. CASE Recover
  BY <1>40, <1>1, <1>2 DEF Recover, Adopt
<1>41. CASE CleanupExplicit
  BY <1>41, <1>1, <1>2 DEF CleanupExplicit, Adopt
<1>42. CASE Crash
  BY <1>42, <1>1
<1>43. CASE ChildExits
  BY <1>43, <1>1, <1>2 DEF ChildExits
<1>44. CASE OtherPrograms
  <2>1. UNCHANGED <<pc, mode, cur, cand, gone, mem, residue, disk>>
    BY <1>44, OthersKeepProcess
  <2>2. OthersOutcome
    BY <1>44, QuietBefore, OthersMove DEF Background, QuietInv
  <2>. QED  BY <1>1, <1>2, <2>1, <2>2 DEF OthersOutcome, EntriesStray
<1>45. CASE UNCHANGED vars
  BY <1>45, <1>2 DEF vars
<1>. QED
  BY <1>5, <1>6, <1>7, <1>8, <1>9, <1>10, <1>11, <1>12, <1>13, <1>14, <1>15,
     <1>16, <1>17, <1>18, <1>19, <1>20, <1>21, <1>22, <1>23, <1>24, <1>25,
     <1>26, <1>27, <1>28, <1>29, <1>30, <1>31, <1>32, <1>33, <1>34, <1>35,
     <1>36, <1>37, <1>38, <1>39, <1>40, <1>41, <1>42, <1>43, <1>44, <1>45
  DEF Next, Process, Apply, Supervise, Cleanup

\* What the operators do to the journal in memory, as far as a quiet session can
\* tell.
JournalWrites ==
    /\ \A s \in {"planned", "applying", "active", "supervising", "cleaning",
                 "completed", "kept", "failed"} :
         /\ WithStatus(mem, s).keep = mem.keep
         /\ WithStatus(mem, s).st = mem.st
         /\ WithStatus(mem, s).ev = mem.ev
         /\ WithoutKeep(WithStatus(mem, s)).keep = FALSE
         /\ WithoutKeep(WithStatus(mem, s)).st = mem.st
         /\ WithoutKeep(WithStatus(mem, s)).ev = mem.ev
    /\ pc \in AtAction =>
         /\ \A s \in {"intent", "staged", "applied", "rolled_back"} :
              /\ WithAction(mem, cur, s).keep = mem.keep
              /\ WithAction(mem, cur, s).ev = mem.ev
              /\ WithAction(mem, cur, s).st[cur] = s
              /\ \A a \in Actions : a # cur =>
                    WithAction(mem, cur, s).st[a] = mem.st[a]
         /\ WithEvidence(mem, cur).keep = mem.keep
         /\ WithEvidence(mem, cur).st = mem.st
         /\ WithEvidence(mem, cur).ev[cur]
         /\ \A a \in Actions : a # cur => WithEvidence(mem, cur).ev[a] = mem.ev[a]
    /\ WithoutKeep(mem).keep = FALSE /\ WithoutKeep(disk).keep = FALSE
    /\ WithoutKeep(mem).st = mem.st
    /\ WithoutKeep(mem).ev = mem.ev
    /\ NewJournal.keep = KeepMounts

LEMMA WritesOfJournal ==
  ASSUME TypeInv
  PROVE  JournalWrites
<1>1. pc \in AtAction => cur \in Actions
  BY DEF TypeInv, CurInRange
<1>2. mem \in Journal /\ disk \in Journal
  BY DEF TypeInv, TypeOK
<1>3. ASSUME pc \in AtAction
      PROVE  /\ WithEvidence(mem, cur).ev[cur]
             /\ \A a \in Actions : a # cur => WithEvidence(mem, cur).ev[a] = mem.ev[a]
  BY <1>1, <1>2, <1>3 DEF WithEvidence, Journal
<1>4. pc \in AtAction => WithEvidence(mem, cur).keep = mem.keep
  BY EvidenceWrites
<1>5. pc \in AtAction => WithEvidence(mem, cur).st = mem.st
  BY EvidenceWrites
<1>6. ASSUME pc \in AtAction, NEW s \in {"intent", "staged", "applied", "rolled_back"}
      PROVE  /\ WithAction(mem, cur, s).keep = mem.keep
             /\ WithAction(mem, cur, s).ev = mem.ev
             /\ WithAction(mem, cur, s).st[cur] = s
             /\ \A a \in Actions : a # cur =>
                   WithAction(mem, cur, s).st[a] = mem.st[a]
  <2>1. s \in ActionStatus
    BY <1>6, ActionWrites
  <2>. QED  BY <1>6, <2>1, ActionWrites
<1>7. ASSUME NEW s \in {"planned", "applying", "active", "supervising", "cleaning",
                        "completed", "kept", "failed"}
      PROVE  /\ WithStatus(mem, s).keep = mem.keep
             /\ WithStatus(mem, s).st = mem.st
             /\ WithStatus(mem, s).ev = mem.ev
             /\ WithoutKeep(WithStatus(mem, s)).keep = FALSE
             /\ WithoutKeep(WithStatus(mem, s)).st = mem.st
             /\ WithoutKeep(WithStatus(mem, s)).ev = mem.ev
  <2>1. s \in TransactionStatus
    BY StatusWrites
  <2>2. /\ WithStatus(mem, s).keep = mem.keep
        /\ WithStatus(mem, s).st = mem.st
        /\ WithStatus(mem, s).ev = mem.ev
    BY <2>1, StatusWrites
  <2>3. Withdrawn(WithStatus(mem, s))
    BY <2>1, Withdrawals
  <2>4. WithoutKeep(WithStatus(mem, s)).keep = FALSE
    BY <1>2, <2>1, WithStatusType, WithoutKeepType
  <2>. QED  BY <2>2, <2>3, <2>4 DEF Withdrawn
<1>8. /\ WithoutKeep(mem).keep = FALSE /\ WithoutKeep(disk).keep = FALSE
      /\ WithoutKeep(mem).st = mem.st
      /\ WithoutKeep(mem).ev = mem.ev
  <2>1. WithoutKeep(mem).keep = FALSE /\ WithoutKeep(disk).keep = FALSE
    BY <1>2, WithoutKeepType
  <2>. QED  BY <2>1, Withdrawals DEF Withdrawn
<1>9. NewJournal.keep = KeepMounts
  BY DEF NewJournal
<1>. QED  BY <1>3, <1>4, <1>5, <1>6, <1>7, <1>8, <1>9 DEF JournalWrites

\* What was made has been observed.
LEMMA ObservedStep ==
  ASSUME Background, QuietInv, [Next]_vars, Quiet'
  PROVE  Observed'
<1>1. /\ ~Fails /\ ~Crash /\ \A j : ~PersistFails(j)
      /\ edited = {}
      /\ pc \in AtAction => cur \in Actions
  BY QuietStep
<1>2. Observed /\ loc \in [Actions -> Places] /\ Created \subseteq Actions
  BY EntryTypes DEF Background, QuietInv
<1>3. JournalWrites /\ (pc \in SessionLabels => mode = "session")
  BY WritesOfJournal DEF Background, ModeInv, ModeOfPass
<1>. USE DEF Observed, FirstPass, Persists, JournalWrites, SessionLabels,
             Astray, AtAction, At, RollBack, Reconciling, Exit, ActionDone,
             fsVars, procVars
<1>4. CASE Open
  BY <1>4, <1>1, <1>2, <1>3 DEF Open
<1>5. CASE BeginApply
  BY <1>5, <1>1, <1>2, <1>3 DEF BeginApply
<1>6. CASE ConfirmReuse
  BY <1>6, <1>1, <1>2, <1>3 DEF ConfirmReuse
<1>7. CASE Drift
  BY <1>7, <1>1, <1>2, <1>3 DEF Drift
<1>8. CASE Intent
  BY <1>8, <1>1, <1>2, <1>3 DEF Intent
<1>9. CASE CreateStaged
  <2>1. EntryGoes("none", "temp")
    BY <1>9, EntryCreated
  <2>2. /\ pc = "create" /\ mode' = mode
        /\ mem' = WithEvidence(mem, cur)
    BY <1>9 DEF CreateStaged
  <2>3. \A a \in Actions : a # cur => loc'[a] = loc[a]
    BY <1>2, <2>1 DEF EntryGoes
  <2>4. mem'.ev[cur] /\ \A a \in Actions : a # cur => mem'.ev[a] = mem.ev[a]
    BY <1>3, <2>2
  <2>. QED  BY <1>1, <1>2, <2>2, <2>3, <2>4, <1>3
<1>10. CASE CreateFails
  BY <1>10, <1>1, <1>2, <1>3 DEF CreateFails, Creatable
<1>11. CASE Stage
  BY <1>11, <1>1, <1>2, <1>3 DEF Stage
<1>12. CASE VerifyStaged
  BY <1>12, <1>1, <1>2, <1>3 DEF VerifyStaged
<1>13. CASE RenameNoReplace
  <2>1. EntryGoes("temp", "final")
    BY <1>13, EntryPlaced DEF QuietInv
  <2>2. pc = "rename" /\ mode' = mode /\ mem' = mem
    BY <1>13 DEF RenameNoReplace
  <2>3. \A a \in Created : loc'[a] # "none" => loc[a] # "none"
    BY <1>2, <2>1 DEF EntryGoes
  <2>. QED  BY <1>2, <2>2, <2>3
<1>14. CASE RenameFails
  BY <1>14, <1>1, <1>2, <1>3 DEF RenameFails
<1>15. CASE ConfirmPlaced
  BY <1>15, <1>1, <1>2, <1>3 DEF ConfirmPlaced
<1>16. CASE PlacementFailure
  BY <1>16, <1>1, <1>2, <1>3 DEF PlacementFailure
<1>17. CASE Activate
  BY <1>17, <1>1, <1>2, <1>3 DEF Activate
<1>18. CASE SpawnBoundary
  BY <1>18, <1>1, <1>2, <1>3 DEF SpawnBoundary, CleanupRequired
<1>19. CASE BeginSupervision
  BY <1>19, <1>1, <1>2, <1>3 DEF BeginSupervision, CleanupRequired
<1>20. CASE EmitDiagnostics
  BY <1>20, <1>1, <1>2, <1>3 DEF EmitDiagnostics, CleanupRequired
<1>21. CASE Spawn
  BY <1>21, <1>1, <1>2, <1>3 DEF Spawn
<1>22. CASE ChildProvenDead
  BY <1>22, <1>1, <1>2, <1>3 DEF ChildProvenDead
<1>23. CASE LivenessUncertain
  BY <1>23, <1>1, <1>2, <1>3 DEF LivenessUncertain
<1>24. CASE BeginCleanup
  BY <1>24, <1>1, <1>2, <1>3 DEF BeginCleanup
<1>25. CASE Keep
  BY <1>25, <1>1, <1>2, <1>3 DEF Keep
<1>26. CASE SkipAction
  BY <1>26, <1>1, <1>2, <1>3 DEF SkipAction
<1>27. CASE ClearAction
  BY <1>27, <1>1, <1>2, <1>3 DEF ClearAction
<1>28. CASE ScanCandidate
  BY <1>28, <1>1, <1>2, <1>3 DEF ScanCandidate, NextCandidate
<1>29. CASE VerifyForRemoval
  BY <1>29, <1>1, <1>2, <1>3 DEF VerifyForRemoval
<1>30. CASE Unlink
  <2>1. EntryGoes(cand, "unlinked") /\ cand # "none"
    BY <1>30, EntryUnlinked, EntryTypes DEF QuietInv, Background, Candidates
  <2>2. pc = "unlink" /\ mode' = mode /\ mem' = mem
    BY <1>30 DEF Unlink
  <2>3. \A a \in Created : loc'[a] # "none" => loc[a] # "none"
    BY <1>2, <2>1 DEF EntryGoes
  <2>. QED  BY <1>2, <2>2, <2>3
<1>31. CASE UnlinkFails
  BY <1>31, <1>1, <1>2, <1>3 DEF UnlinkFails
<1>32. CASE Settle
  BY <1>32, <1>1, <1>2, <1>3 DEF Settle
<1>33. CASE SettleAborts
  BY <1>33, <1>1, <1>2, <1>3 DEF SettleAborts
<1>34. CASE LeaveUnresolved
  BY <1>34, <1>1, <1>2, <1>3 DEF LeaveUnresolved
<1>35. CASE PassEnds
  BY <1>35, <1>1, <1>2, <1>3 DEF PassEnds
<1>36. CASE RecordFailure
  BY <1>36, <1>1, <1>2, <1>3 DEF RecordFailure
<1>37. CASE Complete
  BY <1>37, <1>1, <1>2, <1>3 DEF Complete
<1>38. CASE Retire
  BY <1>38, <1>1, <1>2, <1>3 DEF Retire
<1>39. CASE Recover
  BY <1>39, <1>1, <1>2, <1>3 DEF Recover, Adopt
<1>40. CASE CleanupExplicit
  BY <1>40, <1>1, <1>2, <1>3 DEF CleanupExplicit, Adopt
<1>41. CASE Crash
  BY <1>41, <1>1
<1>42. CASE ChildExits
  BY <1>42, <1>1, <1>2, <1>3 DEF ChildExits
<1>43. CASE OtherPrograms
  <2>1. UNCHANGED <<pc, mode, mem>>
    BY <1>43, OthersKeepProcess
  <2>2. EntriesStray /\ "none" \notin Candidates
    BY <1>43, QuietBefore, OthersMove
    DEF Background, QuietInv, OthersOutcome, Candidates
  <2>3. \A a \in Created : loc'[a] # "none" => loc[a] # "none"
    BY <1>2, <2>2 DEF EntriesStray
  <2>. QED  BY <1>2, <2>1, <2>3
<1>44. CASE UNCHANGED vars
  BY <1>44, <1>2 DEF vars
<1>. QED
  BY <1>4, <1>5, <1>6, <1>7, <1>8, <1>9, <1>10, <1>11, <1>12, <1>13, <1>14,
     <1>15, <1>16, <1>17, <1>18, <1>19, <1>20, <1>21, <1>22, <1>23, <1>24,
     <1>25, <1>26, <1>27, <1>28, <1>29, <1>30, <1>31, <1>32, <1>33, <1>34,
     <1>35, <1>36, <1>37, <1>38, <1>39, <1>40, <1>41, <1>42, <1>43, <1>44
  DEF Next, Process, Apply, Supervise, Cleanup

\* Placement keeps back only what went astray.
LEMMA ResiduesStep ==
  ASSUME Background, QuietInv, [Next]_vars, Quiet'
  PROVE  Residues'
<1>1. /\ ~Fails /\ ~Crash /\ \A j : ~PersistFails(j)
      /\ edited = {}
      /\ pc \in AtAction => cur \in Actions
  BY QuietStep
<1>2. Residues /\ Created \subseteq Actions
      /\ residue \in [Actions -> {"none"} \cup Candidates]
  BY EntryTypes DEF Background, QuietInv
<1>3. \A a \in Created : Astray(a) => Astray(a)'
  BY DisturbancesLast DEF QuietInv, Lasting
<1>4. \A a \in Created : NoResidue[a] = "none"
  BY DEF NoResidue, Created
<1>. USE DEF Residues, AtAction, At, RollBack, Reconciling, Exit, ActionDone,
             fsVars, procVars
<1>5. CASE Open
  BY <1>5, <1>1, <1>2, <1>3, <1>4 DEF Open
<1>6. CASE BeginApply
  BY <1>6, <1>1, <1>2, <1>3, <1>4 DEF BeginApply
<1>7. CASE ConfirmReuse
  BY <1>7, <1>1, <1>2, <1>3 DEF ConfirmReuse
<1>8. CASE Drift
  BY <1>8, <1>1, <1>2, <1>3 DEF Drift
<1>9. CASE Intent
  BY <1>9, <1>1, <1>2, <1>3 DEF Intent
<1>10. CASE CreateStaged
  BY <1>10, <1>1, <1>2, <1>3 DEF CreateStaged
<1>11. CASE CreateFails
  BY <1>11, <1>1, <1>2, <1>3 DEF CreateFails
<1>12. CASE Stage
  BY <1>12, <1>1, <1>2, <1>3 DEF Stage
<1>13. CASE VerifyStaged
  <2>1. ~Verified(mem, cur, "temp") => Astray(cur)
    BY <1>1, <1>13
    DEF VerifyStaged, Verified, QuietInv, UnderTheHand, Background, WriteAhead
  <2>2. \/ residue' = residue
        \/ /\ ~Verified(mem, cur, "temp")
           /\ residue' = [residue EXCEPT ![cur] = "temp"]
    BY <1>13 DEF VerifyStaged
  <2>. QED  BY <1>1, <1>2, <1>3, <2>1, <2>2
<1>14. CASE RenameNoReplace
  BY <1>14, <1>1, <1>2, <1>3 DEF RenameNoReplace
<1>15. CASE RenameFails
  BY <1>15, <1>1, <1>2, <1>3 DEF RenameFails
<1>16. CASE ConfirmPlaced
  BY <1>16, <1>1, <1>2, <1>3 DEF ConfirmPlaced
<1>17. CASE PlacementFailure
  <2>1. ~Verified(mem, cur, "final") => Astray(cur)
    BY <1>1, <1>17
    DEF PlacementFailure, Verified, QuietInv, UnderTheHand, Background, WriteAhead
  <2>2. ~Verified(mem, cur, "final") /\ residue' = [residue EXCEPT ![cur] = "final"]
    BY <1>1, <1>17 DEF PlacementFailure
  <2>. QED  BY <1>1, <1>2, <1>3, <2>1, <2>2
<1>18. CASE Activate
  BY <1>18, <1>1, <1>2, <1>3 DEF Activate
<1>19. CASE SpawnBoundary
  BY <1>19, <1>1, <1>2, <1>3 DEF SpawnBoundary, CleanupRequired
<1>20. CASE BeginSupervision
  BY <1>20, <1>1, <1>2, <1>3 DEF BeginSupervision, CleanupRequired
<1>21. CASE EmitDiagnostics
  BY <1>21, <1>1, <1>2, <1>3 DEF EmitDiagnostics, CleanupRequired
<1>22. CASE Spawn
  BY <1>22, <1>1, <1>2, <1>3 DEF Spawn
<1>23. CASE ChildProvenDead
  BY <1>23, <1>1, <1>2, <1>3 DEF ChildProvenDead
<1>24. CASE LivenessUncertain
  BY <1>24, <1>1, <1>2, <1>3, <1>4 DEF LivenessUncertain
<1>25. CASE BeginCleanup
  BY <1>25, <1>1, <1>2, <1>3, <1>4 DEF BeginCleanup
<1>26. CASE Keep
  BY <1>26, <1>1, <1>2, <1>3, <1>4 DEF Keep
<1>27. CASE SkipAction
  BY <1>27, <1>1, <1>2, <1>3 DEF SkipAction
<1>28. CASE ClearAction
  BY <1>28, <1>1, <1>2, <1>3 DEF ClearAction
<1>29. CASE ScanCandidate
  BY <1>29, <1>1, <1>2, <1>3 DEF ScanCandidate, NextCandidate
<1>30. CASE VerifyForRemoval
  BY <1>30, <1>1, <1>2, <1>3 DEF VerifyForRemoval
<1>31. CASE Unlink
  BY <1>31, <1>1, <1>2, <1>3 DEF Unlink
<1>32. CASE UnlinkFails
  BY <1>32, <1>1, <1>2, <1>3 DEF UnlinkFails
<1>33. CASE Settle
  BY <1>33, <1>1, <1>2, <1>3 DEF Settle
<1>34. CASE SettleAborts
  BY <1>34, <1>1, <1>2, <1>3, <1>4 DEF SettleAborts
<1>35. CASE LeaveUnresolved
  BY <1>35, <1>1, <1>2, <1>3 DEF LeaveUnresolved
<1>36. CASE PassEnds
  BY <1>36, <1>1, <1>2, <1>3 DEF PassEnds
<1>37. CASE RecordFailure
  BY <1>37, <1>1, <1>2, <1>3, <1>4 DEF RecordFailure
<1>38. CASE Complete
  BY <1>38, <1>1, <1>2, <1>3, <1>4 DEF Complete
<1>39. CASE Retire
  BY <1>39, <1>1, <1>2, <1>3, <1>4 DEF Retire
<1>40. CASE Recover
  BY <1>40, <1>1, <1>2, <1>3 DEF Recover, Adopt
<1>41. CASE CleanupExplicit
  BY <1>41, <1>1, <1>2, <1>3 DEF CleanupExplicit, Adopt
<1>42. CASE Crash
  BY <1>42, <1>1
<1>43. CASE ChildExits
  BY <1>43, <1>1, <1>2, <1>3 DEF ChildExits
<1>44. CASE OtherPrograms
  BY <1>2, <1>3, <1>44, OthersKeepProcess
<1>45. CASE UNCHANGED vars
  BY <1>45, <1>2, <1>3 DEF vars
<1>. QED
  BY <1>5, <1>6, <1>7, <1>8, <1>9, <1>10, <1>11, <1>12, <1>13, <1>14, <1>15,
     <1>16, <1>17, <1>18, <1>19, <1>20, <1>21, <1>22, <1>23, <1>24, <1>25,
     <1>26, <1>27, <1>28, <1>29, <1>30, <1>31, <1>32, <1>33, <1>34, <1>35,
     <1>36, <1>37, <1>38, <1>39, <1>40, <1>41, <1>42, <1>43, <1>44, <1>45
  DEF Next, Process, Apply, Supervise, Cleanup

\* A session that was not asked to keep its mounts never comes to keep them.
LEMMA NoKeepStep ==
  ASSUME Background, QuietInv, [Next]_vars, Quiet'
  PROVE  NoKeep'
<1>1. /\ ~Fails /\ ~Crash /\ \A j : ~PersistFails(j)
      /\ edited = {}
      /\ pc \in AtAction => cur \in Actions
  BY QuietStep
<1>2. NoKeep /\ ~KeepMounts
  BY QuietStep DEF QuietInv
<1>3. JournalWrites /\ (pc \in SessionLabels => mode = "session")
  BY WritesOfJournal DEF Background, ModeInv, ModeOfPass
<1>. USE DEF NoKeep, Persists, diskVars, JournalWrites, SessionLabels,
             AtAction, At, RollBack, Reconciling, Exit, ActionDone, fsVars,
             procVars
<1>4. CASE Open
  BY <1>4, <1>1, <1>2, <1>3 DEF Open
<1>5. CASE BeginApply
  BY <1>5, <1>1, <1>2, <1>3 DEF BeginApply
<1>6. CASE ConfirmReuse
  BY <1>6, <1>1, <1>2, <1>3 DEF ConfirmReuse
<1>7. CASE Drift
  BY <1>7, <1>1, <1>2, <1>3 DEF Drift
<1>8. CASE Intent
  BY <1>8, <1>1, <1>2, <1>3 DEF Intent
<1>9. CASE CreateStaged
  BY <1>9, <1>1, <1>2, <1>3 DEF CreateStaged
<1>10. CASE CreateFails
  BY <1>10, <1>1, <1>2, <1>3 DEF CreateFails
<1>11. CASE Stage
  BY <1>11, <1>1, <1>2, <1>3 DEF Stage
<1>12. CASE VerifyStaged
  BY <1>12, <1>1, <1>2, <1>3 DEF VerifyStaged
<1>13. CASE RenameNoReplace
  BY <1>13, <1>1, <1>2, <1>3 DEF RenameNoReplace
<1>14. CASE RenameFails
  BY <1>14, <1>1, <1>2, <1>3 DEF RenameFails
<1>15. CASE ConfirmPlaced
  BY <1>15, <1>1, <1>2, <1>3 DEF ConfirmPlaced
<1>16. CASE PlacementFailure
  BY <1>16, <1>1, <1>2, <1>3 DEF PlacementFailure
<1>17. CASE Activate
  BY <1>17, <1>1, <1>2, <1>3 DEF Activate
<1>18. CASE SpawnBoundary
  BY <1>18, <1>1, <1>2, <1>3 DEF SpawnBoundary, CleanupRequired
<1>19. CASE BeginSupervision
  BY <1>19, <1>1, <1>2, <1>3 DEF BeginSupervision, CleanupRequired
<1>20. CASE EmitDiagnostics
  BY <1>20, <1>1, <1>2, <1>3 DEF EmitDiagnostics, CleanupRequired
<1>21. CASE Spawn
  BY <1>21, <1>1, <1>2, <1>3 DEF Spawn
<1>22. CASE ChildProvenDead
  BY <1>22, <1>1, <1>2, <1>3 DEF ChildProvenDead
<1>23. CASE LivenessUncertain
  BY <1>23, <1>1, <1>2, <1>3 DEF LivenessUncertain
<1>24. CASE BeginCleanup
  BY <1>24, <1>1, <1>2, <1>3 DEF BeginCleanup
<1>25. CASE Keep
  BY <1>25, <1>1, <1>2, <1>3 DEF Keep
<1>26. CASE SkipAction
  BY <1>26, <1>1, <1>2, <1>3 DEF SkipAction
<1>27. CASE ClearAction
  BY <1>27, <1>1, <1>2, <1>3 DEF ClearAction
<1>28. CASE ScanCandidate
  BY <1>28, <1>1, <1>2, <1>3 DEF ScanCandidate, NextCandidate
<1>29. CASE VerifyForRemoval
  BY <1>29, <1>1, <1>2, <1>3 DEF VerifyForRemoval
<1>30. CASE Unlink
  BY <1>30, <1>1, <1>2, <1>3 DEF Unlink
<1>31. CASE UnlinkFails
  BY <1>31, <1>1, <1>2, <1>3 DEF UnlinkFails
<1>32. CASE Settle
  <2>1. /\ pc = "settle" /\ Persists(mem') /\ pc' = "reconcile"
        /\ mem' = WithAction(mem, cur, "rolled_back")
    BY <1>32, <1>1 DEF Settle
  <2>. QED  BY <1>2, <1>3, <2>1
<1>33. CASE SettleAborts
  BY <1>33, <1>1, <1>2, <1>3 DEF SettleAborts
<1>34. CASE LeaveUnresolved
  BY <1>34, <1>1, <1>2, <1>3 DEF LeaveUnresolved
<1>35. CASE PassEnds
  BY <1>35, <1>1, <1>2, <1>3 DEF PassEnds
<1>36. CASE RecordFailure
  BY <1>36, <1>1, <1>2, <1>3 DEF RecordFailure
<1>37. CASE Complete
  BY <1>37, <1>1, <1>2, <1>3 DEF Complete
<1>38. CASE Retire
  BY <1>38, <1>1, <1>2, <1>3 DEF Retire
<1>39. CASE Recover
  BY <1>39, <1>1, <1>2, <1>3 DEF Recover, Adopt
<1>40. CASE CleanupExplicit
  BY <1>40, <1>1, <1>2, <1>3 DEF CleanupExplicit, Adopt
<1>41. CASE Crash
  BY <1>41, <1>1
<1>42. CASE ChildExits
  BY <1>42, <1>1, <1>2, <1>3 DEF ChildExits
<1>43. CASE OtherPrograms
  BY <1>2, <1>43, OthersKeepProcess
<1>44. CASE UNCHANGED vars
  BY <1>44, <1>2 DEF vars
<1>. QED
  BY <1>4, <1>5, <1>6, <1>7, <1>8, <1>9, <1>10, <1>11, <1>12, <1>13, <1>14,
     <1>15, <1>16, <1>17, <1>18, <1>19, <1>20, <1>21, <1>22, <1>23, <1>24,
     <1>25, <1>26, <1>27, <1>28, <1>29, <1>30, <1>31, <1>32, <1>33, <1>34,
     <1>35, <1>36, <1>37, <1>38, <1>39, <1>40, <1>41, <1>42, <1>43, <1>44
  DEF Next, Process, Apply, Supervise, Cleanup
\* What was made stays pending until it has been unlinked.
LEMMA StillPendingStep ==
  ASSUME Background, QuietInv, [Next]_vars, Quiet'
  PROVE  StillPending'
<1>1. /\ ~Fails /\ ~Crash /\ \A j : ~PersistFails(j)
      /\ edited = {}
      /\ pc \in AtAction => cur \in Actions
  BY QuietStep
<1>2. /\ StillPending /\ mem.keep = FALSE /\ pc # "keep"
      /\ loc \in [Actions -> Places] /\ Created \subseteq Actions
      /\ cand \notin {"none", "unlinked"}
  BY EntryTypes DEF Background, QuietInv, NoKeep, Candidates
<1>3. JournalWrites /\ (pc \in SessionLabels => mode = "session")
  BY WritesOfJournal DEF Background, ModeInv, ModeOfPass
<1>4. /\ cur \in Nat
      /\ \A a \in Created : /\ a \in Nat /\ 0 < a /\ a <= N
                            /\ a <= cur - 1 => a <= cur /\ a # cur
                            /\ a > cur => a > cur - 1
                            /\ a = cur => a > cur - 1
  BY NAssumption DEF Created, Actions, Background, TypeInv, TypeOK
<1>5. pc = "create" => mem.st[cur] = "intent"
  BY DEF Background, WriteAhead
<1>. USE DEF StillPending, FirstPass, Pending, Finished, PassLabels,
             MayHaveCreatedSomething, Persists, JournalWrites, SessionLabels,
             AtAction, At, RollBack, Reconciling, Exit, ActionDone, fsVars,
             procVars
<1>6. CASE Open
  BY <1>6, <1>1, <1>2, <1>3, <1>4 DEF Open
<1>7. CASE BeginApply
  BY <1>7, <1>1, <1>2, <1>3, <1>4 DEF BeginApply
<1>8. CASE ConfirmReuse
  BY <1>8, <1>1, <1>2, <1>3, <1>4 DEF ConfirmReuse
<1>9. CASE Drift
  BY <1>9, <1>1, <1>2, <1>3, <1>4 DEF Drift
<1>10. CASE Intent
  BY <1>10, <1>1, <1>2, <1>3, <1>4 DEF Intent
<1>11. CASE CreateStaged
  <2>1. EntryGoes("none", "temp")
    BY <1>11, EntryCreated DEF QuietInv
  <2>2. /\ pc = "create" /\ pc' = "stage" /\ mode' = mode
        /\ mem' = WithEvidence(mem, cur)
    BY <1>11, <1>1 DEF CreateStaged
  <2>3. \A a \in Created : loc'[a] = IF a = cur THEN "temp" ELSE loc[a]
    BY <1>2, <2>1 DEF EntryGoes
  <2>4. loc[cur] = "none"
    BY <2>1 DEF EntryGoes
  <2>. QED  BY <1>1, <1>2, <1>3, <1>4, <2>2, <2>3, <2>4, <1>5
<1>12. CASE CreateFails
  BY <1>12, <1>1, <1>2, <1>3, <1>4 DEF CreateFails
<1>13. CASE Stage
  BY <1>13, <1>1, <1>2, <1>3, <1>4 DEF Stage
<1>14. CASE VerifyStaged
  BY <1>14, <1>1, <1>2, <1>3, <1>4 DEF VerifyStaged
<1>15. CASE RenameNoReplace
  <2>1. EntryGoes("temp", "final")
    BY <1>15, EntryPlaced DEF QuietInv
  <2>2. pc = "rename" /\ pc' = "confirm" /\ mode' = mode /\ mem' = mem
    BY <1>15, <1>1 DEF RenameNoReplace
  <2>3. \A a \in Created : loc'[a] = IF a = cur THEN "final" ELSE loc[a]
    BY <1>2, <2>1 DEF EntryGoes
  <2>4. loc[cur] = "temp"
    BY <2>1 DEF EntryGoes
  <2>. QED  BY <1>1, <1>2, <1>3, <1>4, <2>2, <2>3, <2>4
<1>16. CASE RenameFails
  BY <1>16, <1>1, <1>2, <1>3, <1>4 DEF RenameFails
<1>17. CASE ConfirmPlaced
  BY <1>17, <1>1, <1>2, <1>3, <1>4 DEF ConfirmPlaced
<1>18. CASE PlacementFailure
  BY <1>18, <1>1, <1>2, <1>3, <1>4 DEF PlacementFailure
<1>19. CASE Activate
  BY <1>19, <1>1, <1>2, <1>3, <1>4 DEF Activate
<1>20. CASE SpawnBoundary
  BY <1>20, <1>1, <1>2, <1>3, <1>4 DEF SpawnBoundary, CleanupRequired
<1>21. CASE BeginSupervision
  BY <1>21, <1>1, <1>2, <1>3, <1>4 DEF BeginSupervision, CleanupRequired
<1>22. CASE EmitDiagnostics
  BY <1>22, <1>1, <1>2, <1>3, <1>4 DEF EmitDiagnostics, CleanupRequired
<1>23. CASE Spawn
  BY <1>23, <1>1, <1>2, <1>3, <1>4 DEF Spawn
<1>24. CASE ChildProvenDead
  BY <1>24, <1>1, <1>2, <1>3, <1>4 DEF ChildProvenDead
<1>25. CASE LivenessUncertain
  BY <1>25, <1>1, <1>2, <1>3, <1>4 DEF LivenessUncertain
<1>26. CASE BeginCleanup
  BY <1>26, <1>1, <1>2, <1>3, <1>4 DEF BeginCleanup
<1>27. CASE Keep
  BY <1>27, <1>1, <1>2, <1>3, <1>4 DEF Keep
<1>28. CASE SkipAction
  BY <1>28, <1>1, <1>2, <1>3, <1>4 DEF SkipAction
<1>29. CASE ClearAction
  BY <1>29, <1>1, <1>2, <1>3, <1>4 DEF ClearAction
<1>30. CASE ScanCandidate
  BY <1>30, <1>1, <1>2, <1>3, <1>4 DEF ScanCandidate, NextCandidate
<1>31. CASE VerifyForRemoval
  BY <1>31, <1>1, <1>2, <1>3, <1>4 DEF VerifyForRemoval
<1>32. CASE Unlink
  <2>1. EntryGoes(cand, "unlinked")
    BY <1>32, EntryUnlinked DEF QuietInv
  <2>2. /\ pc = "unlink" /\ pc' = "settle" /\ gone' = TRUE /\ cur' = cur
        /\ mode' = mode /\ mem' = mem
    BY <1>32, <1>1 DEF Unlink
  <2>3. \A a \in Created : loc'[a] = IF a = cur THEN "unlinked" ELSE loc[a]
    BY <1>2, <2>1 DEF EntryGoes
  <2>4. loc[cur] = cand
    BY <2>1 DEF EntryGoes
  <2>. QED  BY <1>1, <1>2, <1>3, <1>4, <2>2, <2>3, <2>4
<1>33. CASE UnlinkFails
  <2>1. /\ pc = "unlink" /\ mem' = mem /\ pc' \in {"scan", "settle"}
        /\ cur' = cur /\ mode' = mode /\ loc' = loc
    BY <1>33, <1>1 DEF UnlinkFails
  <2>. QED  BY <1>2, <1>4, <2>1
<1>34. CASE Settle
  <2>1. /\ pc = "settle" /\ mem' = WithAction(mem, cur, "rolled_back")
        /\ pc' = "reconcile" /\ cur' = cur - 1 /\ mode' = mode /\ loc' = loc
    BY <1>34, <1>1 DEF Settle
  <2>2. \A a \in Created : a # cur => mem'.st[a] = mem.st[a]
    BY <1>2, <1>3, <2>1
  <2>. QED  BY <1>2, <1>4, <2>1, <2>2
<1>35. CASE SettleAborts
  BY <1>35, <1>1, <1>2, <1>3, <1>4 DEF SettleAborts
<1>36. CASE LeaveUnresolved
  BY <1>36, <1>1, <1>2, <1>3, <1>4 DEF LeaveUnresolved
<1>37. CASE PassEnds
  BY <1>37, <1>1, <1>2, <1>3, <1>4 DEF PassEnds
<1>38. CASE RecordFailure
  BY <1>38, <1>1, <1>2, <1>3, <1>4 DEF RecordFailure
<1>39. CASE Complete
  BY <1>39, <1>1, <1>2, <1>3, <1>4 DEF Complete
<1>40. CASE Retire
  BY <1>40, <1>1, <1>2, <1>3, <1>4 DEF Retire
<1>41. CASE Recover
  BY <1>41, <1>1, <1>2, <1>3, <1>4 DEF Recover, Adopt
<1>42. CASE CleanupExplicit
  BY <1>42, <1>1, <1>2, <1>3, <1>4 DEF CleanupExplicit, Adopt
<1>43. CASE Crash
  BY <1>43, <1>1
<1>44. CASE ChildExits
  BY <1>44, <1>1, <1>2, <1>3, <1>4 DEF ChildExits
<1>45. CASE OtherPrograms
  <2>1. UNCHANGED <<pc, mode, mem, cur, gone>>
    BY <1>45, OthersKeepProcess
  <2>2. EntriesStray /\ {"none", "unlinked"} \cap Candidates = {}
    BY <1>45, QuietBefore, OthersMove
    DEF Background, QuietInv, OthersOutcome, Candidates
  <2>3. \A a \in Created : /\ loc'[a] # "none" => loc[a] # "none"
                           /\ loc'[a] = "unlinked" => loc[a] = "unlinked"
    BY <1>2, <2>2 DEF EntriesStray, Astray
  <2>. QED  BY <1>2, <2>1, <2>3
<1>46. CASE UNCHANGED vars
  BY <1>46, <1>2 DEF vars
<1>. QED
  BY <1>6, <1>7, <1>8, <1>9, <1>10, <1>11, <1>12, <1>13, <1>14, <1>15, <1>16,
     <1>17, <1>18, <1>19, <1>20, <1>21, <1>22, <1>23, <1>24, <1>25, <1>26,
     <1>27, <1>28, <1>29, <1>30, <1>31, <1>32, <1>33, <1>34, <1>35, <1>36,
     <1>37, <1>38, <1>39, <1>40, <1>41, <1>42, <1>43, <1>44, <1>45, <1>46
  DEF Next, Process, Apply, Supervise, Cleanup

\* An announced entry that was not made was prevented.
LEMMA NeverMadeStep ==
  ASSUME Background, QuietInv, [Next]_vars, Quiet'
  PROVE  NeverMade'
<1>1. /\ ~Fails /\ ~Crash /\ \A j : ~PersistFails(j)
      /\ edited = {}
      /\ pc \in AtAction => cur \in Actions
  BY QuietStep
<1>2. /\ NeverMade /\ mem.keep = FALSE /\ pc # "keep"
      /\ loc \in [Actions -> Places] /\ Required \subseteq Actions
      /\ Created \subseteq Actions
      /\ Required \subseteq Created /\ cand # "none"
  BY EntryTypes, RequiredActions DEF Background, QuietInv, NoKeep, Candidates
<1>3. JournalWrites /\ (pc \in SessionLabels => mode = "session")
  BY WritesOfJournal DEF Background, ModeInv, ModeOfPass
<1>4. \A a \in Required : Disturbed(a) => Disturbed(a)'
  BY RequiredActions, DisturbancesLast DEF QuietInv, Lasting
<1>5. /\ pc = "stage" => mem.st[cur] = "intent"
      /\ pc = "confirm" => mem.st[cur] = "staged"
  BY DEF Background, WriteAhead
<1>. USE DEF NeverMade, FirstPass, Pending, MayHaveCreatedSomething, Persists,
             JournalWrites, SessionLabels, AtAction, At, RollBack,
             Reconciling, Exit, ActionDone, fsVars, procVars
<1>6. CASE Open
  BY <1>6, <1>1, <1>2, <1>3, <1>4 DEF Open
<1>7. CASE BeginApply
  BY <1>7, <1>1, <1>2, <1>3, <1>4 DEF BeginApply
<1>8. CASE ConfirmReuse
  BY <1>8, <1>1, <1>2, <1>3, <1>4 DEF ConfirmReuse
<1>9. CASE Drift
  BY <1>9, <1>1, <1>2, <1>3, <1>4 DEF Drift
<1>10. CASE Intent
  BY <1>10, <1>1, <1>2, <1>3, <1>4 DEF Intent
<1>11. CASE CreateStaged
  <2>1. EntryGoes("none", "temp")
    BY <1>11, EntryCreated DEF QuietInv
  <2>2. /\ pc = "create" /\ pc' = "stage" /\ mode' = mode
        /\ mem' = WithEvidence(mem, cur)
    BY <1>11, <1>1 DEF CreateStaged
  <2>3. \A a \in Created : loc'[a] = IF a = cur THEN "temp" ELSE loc[a]
    BY <1>2, <2>1 DEF EntryGoes
  <2>4. loc[cur] = "none"
    BY <2>1 DEF EntryGoes
  <2>. QED  BY <1>1, <1>2, <1>3, <1>4, <2>2, <2>3, <2>4, <1>5
<1>12. CASE CreateFails
  <2>1. /\ pc = "create" /\ ~Creatable /\ loc' = loc /\ foreign' = foreign
        /\ mem' = mem
    BY <1>12, <1>1 DEF CreateFails
  <2>2. loc[cur] = "none" /\ cur \in Actions /\ cur \in Nat
    BY <1>1, <2>1, NAssumption DEF Background, Intact, Untouched, Actions
  <2>3. ASSUME cur \in Required
        PROVE  Disturbed(cur)
    <3>1. CASE Occupied(cur, "temp")
      BY <2>2, <3>1 DEF Occupied, Disturbed, Intruded, Candidates
    <3>2. CASE ~ContainerPresent(cur)
      <4>1. PICK e \in Actions : <<e, cur>> \in Inside /\ ~Occupied(e, "final")
        BY <3>2 DEF ContainerPresent
      <4>2. e \in Created /\ e < cur
        BY <4>1, InsideFacts
      <4>3. Astray(e)
        BY <2>1, <4>1, <4>2 DEF QuietInv, InOrder, ApplyLabels, Occupied
      <4>. QED  BY <4>1, <4>3 DEF Disturbed
    <3>. QED  BY <2>1, <3>1, <3>2 DEF Creatable
  <2>4. \A a \in Required : loc[a] = "none" /\ Pending(mem, a) => Disturbed(a)
    BY <1>2, <1>3, <2>1, <2>3
  <2>. QED  BY <1>2, <1>4, <2>1, <2>4
<1>13. CASE Stage
  BY <1>13, <1>1, <1>2, <1>3, <1>4, <1>5 DEF Stage
<1>14. CASE VerifyStaged
  BY <1>14, <1>1, <1>2, <1>3, <1>4 DEF VerifyStaged
<1>15. CASE RenameNoReplace
  <2>1. EntryGoes("temp", "final")
    BY <1>15, EntryPlaced DEF QuietInv
  <2>2. pc = "rename" /\ pc' = "confirm" /\ mode' = mode /\ mem' = mem
    BY <1>15, <1>1 DEF RenameNoReplace
  <2>3. \A a \in Created : loc'[a] = IF a = cur THEN "final" ELSE loc[a]
    BY <1>2, <2>1 DEF EntryGoes
  <2>4. loc[cur] = "temp"
    BY <2>1 DEF EntryGoes
  <2>. QED  BY <1>1, <1>2, <1>3, <1>4, <2>2, <2>3, <2>4
<1>16. CASE RenameFails
  BY <1>16, <1>1, <1>2, <1>3, <1>4 DEF RenameFails
<1>17. CASE ConfirmPlaced
  BY <1>17, <1>1, <1>2, <1>3, <1>4, <1>5 DEF ConfirmPlaced
<1>18. CASE PlacementFailure
  BY <1>18, <1>1, <1>2, <1>3, <1>4 DEF PlacementFailure
<1>19. CASE Activate
  BY <1>19, <1>1, <1>2, <1>3, <1>4 DEF Activate
<1>20. CASE SpawnBoundary
  BY <1>20, <1>1, <1>2, <1>3, <1>4 DEF SpawnBoundary, CleanupRequired
<1>21. CASE BeginSupervision
  BY <1>21, <1>1, <1>2, <1>3, <1>4 DEF BeginSupervision, CleanupRequired
<1>22. CASE EmitDiagnostics
  BY <1>22, <1>1, <1>2, <1>3, <1>4 DEF EmitDiagnostics, CleanupRequired
<1>23. CASE Spawn
  BY <1>23, <1>1, <1>2, <1>3, <1>4 DEF Spawn
<1>24. CASE ChildProvenDead
  BY <1>24, <1>1, <1>2, <1>3, <1>4 DEF ChildProvenDead
<1>25. CASE LivenessUncertain
  BY <1>25, <1>1, <1>2, <1>3, <1>4 DEF LivenessUncertain
<1>26. CASE BeginCleanup
  BY <1>26, <1>1, <1>2, <1>3, <1>4 DEF BeginCleanup
<1>27. CASE Keep
  BY <1>27, <1>1, <1>2, <1>3, <1>4 DEF Keep
<1>28. CASE SkipAction
  BY <1>28, <1>1, <1>2, <1>3, <1>4 DEF SkipAction
<1>29. CASE ClearAction
  BY <1>29, <1>1, <1>2, <1>3, <1>4 DEF ClearAction
<1>30. CASE ScanCandidate
  BY <1>30, <1>1, <1>2, <1>3, <1>4 DEF ScanCandidate, NextCandidate
<1>31. CASE VerifyForRemoval
  BY <1>31, <1>1, <1>2, <1>3, <1>4 DEF VerifyForRemoval
<1>32. CASE Unlink
  <2>1. EntryGoes(cand, "unlinked")
    BY <1>32, EntryUnlinked DEF QuietInv
  <2>2. /\ pc = "unlink" /\ pc' = "settle" /\ mode' = mode /\ mem' = mem
    BY <1>32, <1>1 DEF Unlink
  <2>3. \A a \in Created : loc'[a] = IF a = cur THEN "unlinked" ELSE loc[a]
    BY <1>2, <2>1 DEF EntryGoes
  <2>4. loc[cur] = cand
    BY <2>1 DEF EntryGoes
  <2>. QED  BY <1>1, <1>2, <1>3, <1>4, <2>2, <2>3, <2>4
<1>33. CASE UnlinkFails
  BY <1>33, <1>1, <1>2, <1>3, <1>4 DEF UnlinkFails
<1>34. CASE Settle
  <2>1. /\ pc = "settle" /\ mem' = WithAction(mem, cur, "rolled_back")
        /\ pc' = "reconcile" /\ mode' = mode /\ loc' = loc
    BY <1>34, <1>1 DEF Settle
  <2>2. /\ \A a \in Actions : a # cur => mem'.st[a] = mem.st[a]
        /\ mem'.st[cur] = "rolled_back"
    BY <1>3, <2>1
  <2>. QED  BY <1>2, <1>4, <2>1, <2>2
<1>35. CASE SettleAborts
  BY <1>35, <1>1, <1>2, <1>3, <1>4 DEF SettleAborts
<1>36. CASE LeaveUnresolved
  BY <1>36, <1>1, <1>2, <1>3, <1>4 DEF LeaveUnresolved
<1>37. CASE PassEnds
  BY <1>37, <1>1, <1>2, <1>3, <1>4 DEF PassEnds
<1>38. CASE RecordFailure
  BY <1>38, <1>1, <1>2, <1>3, <1>4 DEF RecordFailure
<1>39. CASE Complete
  BY <1>39, <1>1, <1>2, <1>3, <1>4 DEF Complete
<1>40. CASE Retire
  BY <1>40, <1>1, <1>2, <1>3, <1>4 DEF Retire
<1>41. CASE Recover
  BY <1>41, <1>1, <1>2, <1>3, <1>4 DEF Recover, Adopt
<1>42. CASE CleanupExplicit
  BY <1>42, <1>1, <1>2, <1>3, <1>4 DEF CleanupExplicit, Adopt
<1>43. CASE Crash
  BY <1>43, <1>1
<1>44. CASE ChildExits
  BY <1>44, <1>1, <1>2, <1>3, <1>4 DEF ChildExits
<1>45. CASE OtherPrograms
  <2>1. UNCHANGED <<pc, mode, mem, cur>>
    BY <1>45, OthersKeepProcess
  <2>2. EntriesStray
    BY <1>45, QuietBefore, OthersMove DEF Background, QuietInv, OthersOutcome
  <2>3. \A a \in Created : loc'[a] = "none" => loc[a] = "none"
    BY <1>2, <2>2, EntryTypes DEF EntriesStray, Astray, Background
  <2>. QED  BY <1>2, <1>4, <2>1, <2>3
<1>46. CASE UNCHANGED vars
  BY <1>46, <1>2, <1>4 DEF vars
<1>. QED
  BY <1>6, <1>7, <1>8, <1>9, <1>10, <1>11, <1>12, <1>13, <1>14, <1>15, <1>16,
     <1>17, <1>18, <1>19, <1>20, <1>21, <1>22, <1>23, <1>24, <1>25, <1>26,
     <1>27, <1>28, <1>29, <1>30, <1>31, <1>32, <1>33, <1>34, <1>35, <1>36,
     <1>37, <1>38, <1>39, <1>40, <1>41, <1>42, <1>43, <1>44, <1>45, <1>46
  DEF Next, Process, Apply, Supervise, Cleanup

\* An entry the pass passes over needs no removal or cannot be removed.
LEMMA SkippedIsGood ==
  ASSUME Background, QuietInv, FirstPass, SkipAction, cur \in Created
  PROVE  Good(cur)
<1>1. /\ pc = "reconcile" /\ cur \in Actions /\ cur <= cur
      /\ ~Candidate(cur) \/ (Op[cur] = "mkdir" /\ Encloses(cur))
  BY NAssumption DEF SkipAction, Created, Actions
<1>2. CASE ~Candidate(cur)
  <2>1. ~Pending(mem, cur)
    BY <1>2 DEF Candidate, Pending
  <2>2. loc[cur] = "none"
    BY <1>1, <2>1 DEF QuietInv, StillPending, Finished
  <2>. QED  BY <2>2 DEF Good, Candidates
<1>3. CASE Op[cur] = "mkdir" /\ Encloses(cur)
  <2>1. PICK a \in unresolved : <<cur, a>> \in Inside
    BY <1>3 DEF Encloses
  <2>2. Disturbed(a) /\ a \in Contents(cur)
    BY <1>1, <2>1, InsideFacts DEF QuietInv, PassSoFar, PassLabels
  <2>3. CASE Astray(a) \/ Intruded(a)
    BY <1>3, <2>2, <2>3 DEF Good, Stuck
  <2>4. ASSUME NEW e \in Actions, <<e, a>> \in Inside, Astray(e), loc[cur] \in Candidates
        PROVE  Stuck(cur)
    <3>1. e = cur \/ <<e, cur>> \in Inside \/ <<cur, e>> \in Inside
      BY <2>1, <2>4, InsideFacts
    <3>2. e # cur
      BY <2>4 DEF Astray, Candidates
    <3>3. CASE <<e, cur>> \in Inside
      <4>1. Occupied(e, "final")
        BY <2>4, <3>3 DEF QuietInv, Contained, ContainerPresent
      <4>2. e \in Created
        BY <3>3, InsideFacts
      <4>3. <<e, "final">> \notin foreign
        BY <2>4, <4>2, NotIntruded DEF QuietInv
      <4>. QED  BY <2>4, <4>1, <4>3 DEF Occupied, Astray
    <3>4. CASE <<cur, e>> \in Inside
      <4>1. e \in Contents(cur)
        BY <3>4, InsideFacts
      <4>. QED  BY <2>4, <4>1 DEF Stuck
    <3>. QED  BY <3>1, <3>2, <3>3, <3>4
  <2>. QED  BY <1>3, <2>2, <2>3, <2>4 DEF Disturbed, Good
<1>. QED  BY <1>1, <1>2, <1>3

\* A path the pass takes its hand off does not hold the entry any more, and a path
\* it leaves alone is another program's.
LEMMA ScannedIsClear ==
  ASSUME Background, QuietInv, FirstPass, ScanCandidate, [Next]_vars, Quiet'
  PROVE  /\ loc[cur] # cand
         /\ \/ NextCandidate(left)
            \/ NextCandidate(TRUE) /\ (cur \in Required => Disturbed(cur))
<1>1. /\ pc = "scan" /\ cur \in Actions /\ edited = {} /\ ~Fails
  BY QuietStep DEF ScanCandidate, AtAction
<1>2. cur \in Created /\ Pending(mem, cur)
  BY <1>1 DEF Background, ClaimInv, Journaled, Candidate, Pending
<1>3. loc[cur] # "none" => mem.ev[cur]
  BY <1>2 DEF QuietInv, Observed
<1>4. CASE residue[cur] = cand /\ NextCandidate(left)
  <2>1. Astray(cur)
    BY <1>2, <1>4, EntryTypes DEF QuietInv, Residues, Background, Candidates
  <2>. QED  BY <1>4, <2>1, EntryTypes DEF Astray, Background, Candidates
<1>5. CASE AnswersAbsent(cur, cand) /\ NextCandidate(left)
  BY <1>5 DEF AnswersAbsent, Occupied
<1>6. CASE ~AnswersAbsent(cur, cand) /\ ~MayRemove(cur, cand) /\ NextCandidate(TRUE)
  <2>1. loc[cur] # cand
    <3>1. SUFFICES ASSUME loc[cur] = cand PROVE MayRemove(cur, cand)
      BY <1>6
    <3>2. mem.ev[cur]
      BY <1>3, <3>1, EntryTypes DEF Background, Candidates
    <3>. QED  BY <1>1, <3>1, <3>2 DEF MayRemove, Undecided, Verified
  <2>2. ASSUME cur \in Required
        PROVE  Disturbed(cur)
    <3>1. CASE Occupied(cur, cand)
      BY <2>1, <3>1, EntryTypes DEF Occupied, Disturbed, Intruded, Background
    <3>2. CASE ~Occupied(cur, cand)
      <4>1. loc[cur] = "none"
        BY <1>3, <1>6, <3>2 DEF AnswersAbsent
      <4>. QED  BY <1>1, <1>2, <2>2, <4>1 DEF QuietInv, NeverMade
    <3>. QED  BY <3>1, <3>2
  <2>. QED  BY <1>6, <2>1, <2>2
<1>. QED  BY <1>1, <1>4, <1>5, <1>6 DEF ScanCandidate

\* An entry that could not be unlinked went astray or is a directory that holds
\* something another program is accountable for.
LEMMA NotUnlinked ==
  ASSUME Background, QuietInv, FirstPass, UnlinkFails, [Next]_vars, Quiet'
  PROVE  Good(cur) /\ (cur \in Required => Disturbed(cur))
<1>1. /\ pc = "unlink" /\ cur \in Actions /\ ~Fails
  BY QuietStep DEF UnlinkFails, AtAction
<1>2. cur \in Created
  BY <1>1 DEF Background, ClaimInv, Journaled, Candidate
<1>3. CASE ~Occupied(cur, cand)
  <2>1. Astray(cur)
    BY <1>1, <1>3 DEF QuietInv, UnderTheHand, Occupied
  <2>. QED  BY <2>1, EntryTypes DEF Good, Disturbed, Background
<1>4. CASE Op[cur] = "mkdir" /\ ~EmptyDirectory(cur)
  <2>1. cur \notin Required
    BY <1>4, RequiredActions
  <2>2. CASE <<cur, "child">> \in foreign
    BY <1>4, <2>1, <2>2 DEF Good, Stuck
  <2>3. CASE \E a \in Contents(cur), p \in Candidates : Occupied(a, p)
    <3>1. PICK a \in Contents(cur), p \in Candidates : Occupied(a, p)
      BY <2>3
    <3>2. a \in Created /\ a > cur /\ <<cur, a>> \in Inside
      <4>1. <<cur, a>> \in Inside
        BY <3>1 DEF Contents
      <4>2. a \in Created /\ cur < a
        BY <4>1, InsideFacts
      <4>. QED  BY <4>1, <4>2
    <3>3. CASE <<a, p>> \in foreign
      <4>1. Intruded(a)
        BY <3>1, <3>3 DEF Intruded
      <4>. QED  BY <1>4, <2>1, <3>1, <4>1 DEF Good, Stuck
    <3>4. CASE loc[a] = p
      <4>1. Good(a)
        BY <1>1, <3>2 DEF QuietInv, PassSoFar, PassLabels
      <4>2. Op[a] = "mkdir" /\ Stuck(a) /\ loc[a] \in Candidates
        BY <3>1, <3>4, <4>1 DEF Good
      <4>3. CASE <<a, "child">> \in foreign
        BY <1>4, <2>1, <3>1, <4>2, <4>3 DEF Good, Stuck
      <4>4. ASSUME NEW b \in Contents(a)
            PROVE  b \in Contents(cur)
        <5>1. b \in Actions /\ <<a, b>> \in Inside
          BY <4>4 DEF Contents
        <5>2. <<cur, b>> \in Inside
          BY <3>2, <5>1, InsideFacts
        <5>. QED  BY <5>1, <5>2 DEF Contents
      <4>5. Stuck(cur)
        BY <4>2, <4>3, <4>4, <3>1 DEF Stuck
      <4>. QED  BY <1>4, <2>1, <4>5 DEF Good
    <3>. QED  BY <3>1, <3>3, <3>4 DEF Occupied
  <2>. QED  BY <1>4, <2>2, <2>3 DEF EmptyDirectory
<1>. QED  BY <1>1, <1>3, <1>4 DEF UnlinkFails

\* What the pass leaves unresolved another program has had to do with.
LEMMA UnresolvedIsDisturbed ==
  ASSUME Background, QuietInv, FirstPass, LeaveUnresolved
  PROVE  cur \in Required /\ Disturbed(cur)
<1>1. /\ pc = "settle" /\ cur \in Required
      /\ left \/ (~left /\ ~gone)
  BY DEF LeaveUnresolved, Discharged, AcceptsAbsence, FirstPass
<1>2. CASE left
  BY <1>1, <1>2 DEF QuietInv, PassSoFar, PassLabels, UnderWay
<1>3. CASE ~gone
  <2>1. /\ Op[cur] # "mkdir" /\ cur \in Created /\ cur \in Actions
        /\ ~(cur > cur)
    BY <1>1, RequiredActions
  <2>2. loc[cur] \notin Candidates
    BY <1>1, <2>1 DEF QuietInv, PassSoFar, PassLabels, Good
  <2>3. loc[cur] # "unlinked"
    BY <1>1, <1>3, <2>1 DEF QuietInv, StillPending, PassLabels, Finished
  <2>4. CASE loc[cur] = "none"
    <3>1. Pending(mem, cur)
      BY <1>1 DEF Background, ClaimInv, Journaled, Candidate, Pending
    <3>. QED  BY <1>1, <2>4, <3>1 DEF QuietInv, NeverMade
  <2>5. CASE Astray(cur)
    BY <1>1, <2>5 DEF Disturbed
  <2>6. loc[cur] \in Places
    BY <2>1, EntryTypes DEF Background
  <2>7. loc[cur] = "none" \/ Astray(cur)
    BY <2>2, <2>3, <2>6 DEF Places, Candidates, Astray
  <2>. QED  BY <1>1, <2>4, <2>5, <2>7
<1>. QED  BY <1>1, <1>2, <1>3

\* The pass leaves nothing behind that it could have removed.
LEMMA PassSoFarStep ==
  ASSUME Background, QuietInv, [Next]_vars, Quiet'
  PROVE  PassSoFar'
<1>1. /\ ~Fails /\ ~Crash /\ \A j : ~PersistFails(j)
      /\ edited = {}
      /\ pc \in AtAction => cur \in Actions
  BY QuietStep
<1>2. /\ PassSoFar /\ mem.keep = FALSE /\ pc # "keep"
      /\ Required \subseteq Created /\ Created \subseteq Actions
      /\ cand \in Candidates /\ Candidates = {"temp", "final"}
  BY EntryTypes, RequiredActions DEF Background, QuietInv, NoKeep, Candidates
<1>3. pc \in SessionLabels => mode = "session"
  BY DEF Background, ModeInv, ModeOfPass
<1>4. /\ \A a \in Created : Disturbed(a) => Disturbed(a)'
      /\ \A a \in Created : Good(a) => Good(a)' \/ pc = "create"
      /\ \A a \in Created : Astray(a) => Disturbed(a)
  BY DisturbancesLast DEF QuietInv, Lasting, Disturbed
<1>5. /\ cur \in Nat
      /\ \A a \in Created : /\ a \in Nat /\ 0 < a /\ ~(a > N)
                            /\ a > cur - 1 <=> a > cur \/ a = cur
  BY NAssumption DEF Created, Actions, Background, TypeInv, TypeOK
<1>. USE DEF PassSoFar, FirstPass, PassLabels, UnderWay, SessionLabels,
             AtAction, At, RollBack, Reconciling, Exit, ActionDone, fsVars,
             procVars
<1>6. CASE Open
  BY <1>6, <1>1, <1>2, <1>3, <1>5 DEF Open
<1>7. CASE BeginApply
  BY <1>7, <1>1, <1>2, <1>3, <1>5 DEF BeginApply
<1>8. CASE ConfirmReuse
  BY <1>8, <1>1, <1>2, <1>3, <1>5 DEF ConfirmReuse
<1>9. CASE Drift
  BY <1>9, <1>1, <1>2, <1>3, <1>5 DEF Drift
<1>10. CASE Intent
  BY <1>10, <1>1, <1>2, <1>3, <1>5 DEF Intent
<1>11. CASE CreateStaged
  BY <1>11, <1>1, <1>2, <1>3, <1>5 DEF CreateStaged
<1>12. CASE CreateFails
  BY <1>12, <1>1, <1>2, <1>3, <1>5 DEF CreateFails
<1>13. CASE Stage
  BY <1>13, <1>1, <1>2, <1>3, <1>5 DEF Stage
<1>14. CASE VerifyStaged
  BY <1>14, <1>1, <1>2, <1>3, <1>5 DEF VerifyStaged
<1>15. CASE RenameNoReplace
  BY <1>15, <1>1, <1>2, <1>3, <1>5 DEF RenameNoReplace
<1>16. CASE RenameFails
  BY <1>16, <1>1, <1>2, <1>3, <1>5 DEF RenameFails
<1>17. CASE ConfirmPlaced
  BY <1>17, <1>1, <1>2, <1>3, <1>5 DEF ConfirmPlaced
<1>18. CASE PlacementFailure
  BY <1>18, <1>1, <1>2, <1>3, <1>5 DEF PlacementFailure
<1>19. CASE Activate
  BY <1>19, <1>1, <1>2, <1>3, <1>5 DEF Activate
<1>20. CASE SpawnBoundary
  BY <1>20, <1>1, <1>2, <1>3, <1>5 DEF SpawnBoundary, CleanupRequired
<1>21. CASE BeginSupervision
  BY <1>21, <1>1, <1>2, <1>3, <1>5 DEF BeginSupervision, CleanupRequired
<1>22. CASE EmitDiagnostics
  BY <1>22, <1>1, <1>2, <1>3, <1>5 DEF EmitDiagnostics, CleanupRequired
<1>23. CASE Spawn
  BY <1>23, <1>1, <1>2, <1>3, <1>5 DEF Spawn
<1>24. CASE ChildProvenDead
  BY <1>24, <1>1, <1>2, <1>3, <1>5 DEF ChildProvenDead
<1>25. CASE LivenessUncertain
  BY <1>25, <1>1, <1>2, <1>3, <1>5 DEF LivenessUncertain
<1>26. CASE BeginCleanup
  BY <1>26, <1>1, <1>2, <1>3, <1>5 DEF BeginCleanup
<1>27. CASE Keep
  BY <1>27, <1>1, <1>2, <1>3, <1>5 DEF Keep
<1>28. CASE SkipAction
  <2>1. /\ pc = "reconcile" /\ UNCHANGED <<pc, mode, unresolved, loc>>
        /\ cur' = cur - 1
    BY <1>28 DEF SkipAction
  <2>2. FirstPass /\ cur \in Created => Good(cur)
    BY <1>28, SkippedIsGood
  <2>. QED  BY <1>2, <1>4, <1>5, <2>1, <2>2
<1>29. CASE ClearAction
  <2>1. /\ pc = "reconcile" /\ pc' = "scan" /\ cand' = "temp"
        /\ UNCHANGED <<mode, cur, unresolved, loc>>
        /\ left' = (residue[cur] # "none")
    BY <1>29 DEF ClearAction
  <2>2. cur \in Created /\ left' => Disturbed(cur)
    BY <1>4, <2>1 DEF QuietInv, Residues
  <2>. QED  BY <1>2, <1>4, <2>1, <2>2
<1>30. CASE ScanCandidate
  <2>1. ASSUME FirstPass
        PROVE  PassSoFar'
    <3>1. /\ loc[cur] # cand
          /\ \/ NextCandidate(left)
             \/ NextCandidate(TRUE) /\ (cur \in Required => Disturbed(cur))
      BY <1>30, <2>1, ScannedIsClear
    <3>2. /\ pc = "scan" /\ loc' = loc /\ cur \in Created
      BY <1>30 DEF ScanCandidate, Background, ClaimInv, Journaled, Candidate
    <3>3. /\ UNCHANGED <<mode, cur, unresolved>>
          /\ \/ cand = "temp" /\ pc' = pc /\ cand' = "final"
             \/ cand = "final" /\ pc' = "settle" /\ cand' = cand
          /\ left' => left \/ (cur \in Required => Disturbed(cur))
      BY <1>2, <3>1 DEF NextCandidate
    <3>4. cand = "final" => Good(cur)
      BY <1>2, <2>1, <3>1, <3>2 DEF Good
    <3>. QED  BY <1>2, <1>4, <2>1, <3>1, <3>2, <3>3, <3>4
  <2>2. ASSUME ~FirstPass
        PROVE  PassSoFar'
    BY <1>30, <2>2 DEF ScanCandidate, NextCandidate
  <2>. QED  BY <2>1, <2>2
<1>31. CASE VerifyForRemoval
  <2>1. /\ pc = "scan" /\ pc' = "unlink"
        /\ UNCHANGED <<mode, cur, cand, left, unresolved, loc>>
    BY <1>31 DEF VerifyForRemoval
  <2>2. cur \in Created
    BY <2>1 DEF Background, ClaimInv, Journaled, Candidate
  <2>. QED  BY <1>2, <1>4, <2>1, <2>2
<1>32. CASE Unlink
  <2>1. EntryGoes(cand, "unlinked")
    BY <1>32, EntryUnlinked DEF QuietInv
  <2>2. /\ pc = "unlink" /\ pc' = "settle"
        /\ UNCHANGED <<mode, cur, cand, left, unresolved>>
    BY <1>32 DEF Unlink
  <2>3. cur \in Created /\ loc'[cur] = "unlinked"
    BY <2>1, EntryTypes DEF EntryGoes, Background
  <2>4. Good(cur)'
    BY <2>2, <2>3 DEF Good, Candidates
  <2>. QED  BY <1>2, <1>4, <2>2, <2>3, <2>4
<1>33. CASE UnlinkFails
  <2>1. /\ pc = "unlink" /\ pc' \in {"scan", "settle"}
        /\ UNCHANGED <<mode, cur, unresolved, loc>>
    BY <1>33 DEF UnlinkFails
  <2>2. cur \in Created
    BY <2>1 DEF Background, ClaimInv, Journaled, Candidate
  <2>3. FirstPass => Good(cur) /\ (cur \in Required => Disturbed(cur))
    BY <1>33, NotUnlinked
  <2>. QED  BY <1>2, <1>4, <2>1, <2>2, <2>3
<1>34. CASE Settle
  <2>1. /\ pc = "settle" /\ pc' = "reconcile" /\ cur' = cur - 1
        /\ UNCHANGED <<mode, unresolved, loc>>
    BY <1>34, <1>1 DEF Settle
  <2>2. cur \in Created
    BY <2>1 DEF Background, ClaimInv, Journaled, Candidate
  <2>. QED  BY <1>2, <1>4, <1>5, <2>1, <2>2
<1>35. CASE SettleAborts
  BY <1>35, <1>1, <1>2, <1>3, <1>5 DEF SettleAborts
<1>36. CASE LeaveUnresolved
  <2>1. /\ pc = "settle" /\ pc' = "reconcile" /\ cur' = cur - 1
        /\ UNCHANGED <<mode, loc>> /\ unresolved' = unresolved \cup {cur}
    BY <1>36 DEF LeaveUnresolved
  <2>2. FirstPass => cur \in Required /\ Disturbed(cur)
    BY <1>36, UnresolvedIsDisturbed
  <2>. QED  BY <1>2, <1>4, <1>5, <2>1, <2>2
<1>37. CASE PassEnds
  BY <1>37, <1>1, <1>2, <1>3, <1>5 DEF PassEnds
<1>38. CASE RecordFailure
  BY <1>38, <1>1, <1>2, <1>3, <1>5 DEF RecordFailure
<1>39. CASE Complete
  BY <1>39, <1>1, <1>2, <1>3, <1>5 DEF Complete
<1>40. CASE Retire
  BY <1>40, <1>1, <1>2, <1>3, <1>5 DEF Retire
<1>41. CASE Recover
  BY <1>41, <1>1, <1>2, <1>3, <1>5 DEF Recover, Adopt
<1>42. CASE CleanupExplicit
  BY <1>42, <1>1, <1>2, <1>3, <1>5 DEF CleanupExplicit, Adopt
<1>43. CASE Crash
  BY <1>43, <1>1
<1>44. CASE ChildExits
  <2>1. UNCHANGED <<pc, mode, cur, cand, left, unresolved, loc>>
    BY <1>44 DEF ChildExits
  <2>2. pc \in UnderWay => cur \in Created
    BY DEF Background, ClaimInv, Journaled, Candidate
  <2>. QED  BY <1>2, <1>4, <2>1, <2>2
<1>45. CASE OtherPrograms
  <2>1. UNCHANGED <<pc, mode, cur, cand, left, unresolved>>
    BY <1>45, OthersKeepProcess
  <2>2. EntriesStray
    BY <1>45, QuietBefore, OthersMove DEF Background, QuietInv, OthersOutcome
  <2>3. \A a \in Created : loc'[a] = "temp" => loc[a] = "temp"
    BY <1>2, <2>2 DEF EntriesStray, Astray
  <2>4. pc \in UnderWay => cur \in Created
    BY DEF Background, ClaimInv, Journaled, Candidate
  <2>. QED  BY <1>2, <1>4, <2>1, <2>3, <2>4
<1>46. CASE UNCHANGED vars
  <2>1. UNCHANGED <<pc, mode, cur, cand, left, unresolved, loc>>
    BY <1>46 DEF vars
  <2>2. pc \in UnderWay => cur \in Created
    BY DEF Background, ClaimInv, Journaled, Candidate
  <2>. QED  BY <1>2, <1>4, <2>1, <2>2
<1>. QED
  BY <1>6, <1>7, <1>8, <1>9, <1>10, <1>11, <1>12, <1>13, <1>14, <1>15, <1>16,
     <1>17, <1>18, <1>19, <1>20, <1>21, <1>22, <1>23, <1>24, <1>25, <1>26,
     <1>27, <1>28, <1>29, <1>30, <1>31, <1>32, <1>33, <1>34, <1>35, <1>36,
     <1>37, <1>38, <1>39, <1>40, <1>41, <1>42, <1>43, <1>44, <1>45, <1>46
  DEF Next, Process, Apply, Supervise, Cleanup
\* What a pass has left behind stays as it left it.
LEMMA PassDoneStep ==
  ASSUME Background, QuietInv, [Next]_vars, Quiet'
  PROVE  PassDone'
<1>1. /\ ~Fails /\ ~Crash /\ \A j : ~PersistFails(j)
      /\ edited = {}
      /\ pc \in AtAction => cur \in Actions
  BY QuietStep
<1>2. /\ PassDone /\ mem.keep = FALSE /\ pc # "keep"
  BY DEF QuietInv, NoKeep
<1>3. pc \in SessionLabels => mode = "session"
  BY DEF Background, ModeInv, ModeOfPass
<1>4. \A a \in Created : Good(a) => Good(a)' \/ pc = "create"
  BY DisturbancesLast DEF QuietInv, Lasting
<1>. USE DEF PassDone, Finished, SessionLabels, AtAction, At, RollBack,
             Reconciling, Exit, ActionDone, fsVars, procVars
<1>5. CASE Open
  BY <1>5, <1>1, <1>2, <1>3, <1>4 DEF Open
<1>6. CASE BeginApply
  BY <1>6, <1>1, <1>2, <1>3, <1>4 DEF BeginApply
<1>7. CASE ConfirmReuse
  BY <1>7, <1>1, <1>2, <1>3, <1>4 DEF ConfirmReuse
<1>8. CASE Drift
  BY <1>8, <1>1, <1>2, <1>3, <1>4 DEF Drift
<1>9. CASE Intent
  BY <1>9, <1>1, <1>2, <1>3, <1>4 DEF Intent
<1>10. CASE CreateStaged
  BY <1>10, <1>1, <1>2, <1>3, <1>4 DEF CreateStaged
<1>11. CASE CreateFails
  BY <1>11, <1>1, <1>2, <1>3, <1>4 DEF CreateFails
<1>12. CASE Stage
  BY <1>12, <1>1, <1>2, <1>3, <1>4 DEF Stage
<1>13. CASE VerifyStaged
  BY <1>13, <1>1, <1>2, <1>3, <1>4 DEF VerifyStaged
<1>14. CASE RenameNoReplace
  BY <1>14, <1>1, <1>2, <1>3, <1>4 DEF RenameNoReplace
<1>15. CASE RenameFails
  BY <1>15, <1>1, <1>2, <1>3, <1>4 DEF RenameFails
<1>16. CASE ConfirmPlaced
  BY <1>16, <1>1, <1>2, <1>3, <1>4 DEF ConfirmPlaced
<1>17. CASE PlacementFailure
  BY <1>17, <1>1, <1>2, <1>3, <1>4 DEF PlacementFailure
<1>18. CASE Activate
  BY <1>18, <1>1, <1>2, <1>3, <1>4 DEF Activate
<1>19. CASE SpawnBoundary
  BY <1>19, <1>1, <1>2, <1>3, <1>4 DEF SpawnBoundary, CleanupRequired
<1>20. CASE BeginSupervision
  BY <1>20, <1>1, <1>2, <1>3, <1>4 DEF BeginSupervision, CleanupRequired
<1>21. CASE EmitDiagnostics
  BY <1>21, <1>1, <1>2, <1>3, <1>4 DEF EmitDiagnostics, CleanupRequired
<1>22. CASE Spawn
  BY <1>22, <1>1, <1>2, <1>3, <1>4 DEF Spawn
<1>23. CASE ChildProvenDead
  BY <1>23, <1>1, <1>2, <1>3, <1>4 DEF ChildProvenDead
<1>24. CASE LivenessUncertain
  BY <1>24, <1>1, <1>2, <1>3, <1>4 DEF LivenessUncertain
<1>25. CASE BeginCleanup
  BY <1>25, <1>1, <1>2, <1>3, <1>4 DEF BeginCleanup
<1>26. CASE Keep
  BY <1>26, <1>1, <1>2, <1>3, <1>4 DEF Keep
<1>27. CASE SkipAction
  BY <1>27, <1>1, <1>2, <1>3, <1>4 DEF SkipAction
<1>28. CASE ClearAction
  BY <1>28, <1>1, <1>2, <1>3, <1>4 DEF ClearAction
<1>29. CASE ScanCandidate
  <2>1. /\ pc = "scan" /\ pc' \in {"scan", "settle"} /\ mode' = mode
    BY <1>29, <1>1 DEF ScanCandidate, NextCandidate
  <2>. QED  BY <1>2, <1>4, <2>1
<1>30. CASE VerifyForRemoval
  BY <1>30, <1>1, <1>2, <1>3, <1>4 DEF VerifyForRemoval
<1>31. CASE Unlink
  BY <1>31, <1>1, <1>2, <1>3, <1>4 DEF Unlink
<1>32. CASE UnlinkFails
  BY <1>32, <1>1, <1>2, <1>3, <1>4 DEF UnlinkFails
<1>33. CASE Settle
  BY <1>33, <1>1, <1>2, <1>3, <1>4 DEF Settle
<1>34. CASE SettleAborts
  BY <1>34, <1>1, <1>2, <1>3, <1>4 DEF SettleAborts
<1>35. CASE LeaveUnresolved
  BY <1>35, <1>1, <1>2, <1>3, <1>4 DEF LeaveUnresolved
<1>36. CASE PassEnds
  <2>1. pc = "reconcile" /\ cur = 0 /\ mode' = mode /\ loc' = loc
    BY <1>36 DEF PassEnds
  <2>2. \A a \in Created : a > 0
    BY NAssumption DEF Created, Actions
  <2>3. FirstPass => \A a \in Created : Good(a)
    BY <2>1, <2>2 DEF QuietInv, PassSoFar, PassLabels
  <2>4. mode \in {"session", "rollback", "automatic", "explicit"}
    BY DEF Background, TypeInv, TypeOK
  <2>5. \A a \in Created : Good(a)
    BY <1>2, <2>1, <2>3, <2>4 DEF FirstPass
  <2>. QED  BY <1>4, <2>1, <2>5
<1>37. CASE RecordFailure
  BY <1>37, <1>1, <1>2, <1>3, <1>4 DEF RecordFailure
<1>38. CASE Complete
  BY <1>38, <1>1, <1>2, <1>3, <1>4 DEF Complete
<1>39. CASE Retire
  BY <1>39, <1>1, <1>2, <1>3, <1>4 DEF Retire
<1>40. CASE Recover
  BY <1>40, <1>1, <1>2, <1>3, <1>4 DEF Recover, Adopt
<1>41. CASE CleanupExplicit
  BY <1>41, <1>1, <1>2, <1>3, <1>4 DEF CleanupExplicit, Adopt
<1>42. CASE Crash
  BY <1>42, <1>1
<1>43. CASE ChildExits
  BY <1>43, <1>1, <1>2, <1>3, <1>4 DEF ChildExits
<1>44. CASE OtherPrograms
  <2>1. UNCHANGED <<pc, mode>>
    BY <1>44, OthersKeepProcess
  <2>2. pc = "create" => mode = "session"
    BY <1>3
  <2>. QED  BY <1>2, <1>4, <2>1, <2>2
<1>45. CASE UNCHANGED vars
  BY <1>45, <1>2, <1>3, <1>4 DEF vars
<1>. QED
  BY <1>5, <1>6, <1>7, <1>8, <1>9, <1>10, <1>11, <1>12, <1>13, <1>14, <1>15,
     <1>16, <1>17, <1>18, <1>19, <1>20, <1>21, <1>22, <1>23, <1>24, <1>25,
     <1>26, <1>27, <1>28, <1>29, <1>30, <1>31, <1>32, <1>33, <1>34, <1>35,
     <1>36, <1>37, <1>38, <1>39, <1>40, <1>41, <1>42, <1>43, <1>44, <1>45
  DEF Next, Process, Apply, Supervise, Cleanup

-----------------------------------------------------------------------------
(* Quiet sessions.                                                         *)

QuietOK == Quiet => QuietInv

LEMMA QuietInitially == Init => QuietOK
<1>. SUFFICES ASSUME Init, Quiet PROVE QuietInv
  BY DEF QuietOK
<1>1. /\ pc = "open" /\ cur = 0 /\ mode = "session"
      /\ \A a \in Actions : loc[a] = "none" /\ residue[a] = "none"
      /\ mem = NewJournal /\ disk = NewJournal
      /\ Created \subseteq Actions
  BY DEF Init, NoResidue, Created
<1>2. Planted = {}
  BY DEF Init, Planted, Created
<1>3. \A a \in Actions : ~Astray(a) /\ loc[a] \notin Candidates
  BY <1>1 DEF Astray, Candidates
<1>4. OneMove
  BY <1>2, <1>3 DEF OneMove
<1>5. Contained
  <2>1. ASSUME NEW a \in Created PROVE ~Intruded(a)
    <3>1. ASSUME NEW p \in Candidates, <<a, p>> \in foreign PROVE FALSE
      <4>1. (<<a, p>>)[1] \in Created
        BY <2>1
      <4>. QED  BY <1>2, <3>1, <4>1 DEF Planted
    <3>. QED  BY <3>1 DEF Intruded
  <2>. QED  BY <1>1, <1>3, <2>1 DEF Contained
<1>6. UnderTheHand /\ InOrder /\ PassSoFar
  BY <1>1 DEF UnderTheHand, InOrder, ApplyLabels, PassSoFar, PassLabels
<1>7. PassDone
  BY <1>1 DEF PassDone, Finished
<1>8. Observed /\ Residues
  BY <1>1 DEF Observed, Residues
<1>9. StillPending
  BY <1>1 DEF StillPending
<1>10. NeverMade
  <2>1. ASSUME NEW a \in Required PROVE ~Pending(mem, a)
    <3>1. mem.st[a] = "planned"
      BY <1>1, RequiredActions DEF NewJournal, Required
    <3>. QED  BY <3>1 DEF Pending, MayHaveCreatedSomething
  <2>. QED  BY <2>1 DEF NeverMade
<1>11. NoKeep
  BY <1>1 DEF NoKeep, NewJournal, Quiet
<1>. QED  BY <1>4, <1>5, <1>6, <1>7, <1>8, <1>9, <1>10, <1>11 DEF QuietInv

LEMMA QuietStaysInv ==
  ASSUME Background, QuietOK, [Next]_vars
  PROVE  QuietOK'
<1>. SUFFICES ASSUME Quiet' PROVE QuietInv'
  BY DEF QuietOK
<1>1. Quiet
  BY QuietBefore DEF Background
<1>2. QuietInv
  BY <1>1 DEF QuietOK
<1>3. OneMove' /\ Contained'
  BY <1>2, OneMoveStep DEF QuietInv
<1>4. UnderTheHand' /\ InOrder' /\ Observed' /\ Residues'
  BY <1>2, UnderTheHandStep, InOrderStep, ObservedStep, ResiduesStep
<1>5. StillPending' /\ NeverMade' /\ PassSoFar' /\ PassDone' /\ NoKeep'
  BY <1>2, StillPendingStep, NeverMadeStep, PassSoFarStep, PassDoneStep, NoKeepStep
<1>. QED  BY <1>3, <1>4, <1>5 DEF QuietInv

\* A directory that is stuck holds something or has lost something.
LEMMA StuckIsExcused ==
  ASSUME TypeInv, OneMove, Contained, NEW a \in Created,
         Stuck(a), loc[a] \in Candidates
  PROVE  \/ ~EmptyDirectory(a)
         \/ \E b \in Contents(a) : loc[b] \in {"away", "destroyed"}
<1>1. CASE <<a, "child">> \in foreign
  BY <1>1 DEF EmptyDirectory
<1>2. ASSUME NEW b \in Contents(a), Astray(b)
      PROVE  \E e \in Contents(a) : loc[e] \in {"away", "destroyed"}
  BY <1>2 DEF Astray
<1>3. ASSUME NEW b \in Contents(a), NEW p \in Candidates, NEW q,
             Occupied(b, p), <<b, q>> \in foreign
      PROVE  ~EmptyDirectory(a)
  <2>1. b \in Created /\ a \in Actions /\ <<a, b>> \in Inside /\ a # b
    <3>1. <<a, b>> \in Inside
      BY <1>3 DEF Contents
    <3>. QED  BY <3>1, InsideFacts DEF Actions
  <2>2. Occupied(a, "final")
    BY <1>3, <2>1 DEF Contained, ContainerPresent, Occupied, Intruded
  <2>3. <<a, "final">> \notin foreign
    <3>1. SUFFICES ASSUME <<a, "final">> \in foreign PROVE FALSE
      OBVIOUS
    <3>2. (<<a, "final">>)[1] \in Created /\ (<<b, q>>)[1] \in Created
      BY <2>1
    <3>3. <<a, "final">> \in Planted /\ <<b, q>> \in Planted
      BY <1>3, <3>1, <3>2 DEF Planted
    <3>4. <<a, "final">> # <<b, q>>
      BY <2>1
    <3>. QED  BY <3>3, <3>4 DEF OneMove
  <2>. QED  BY <1>3, <2>2, <2>3 DEF Occupied, EmptyDirectory
<1>4. ASSUME NEW b \in Contents(a), Intruded(b)
      PROVE  ~EmptyDirectory(a)
  <2>1. PICK p \in Candidates : <<b, p>> \in foreign
    BY <1>4 DEF Intruded
  <2>. QED  BY <1>3, <2>1 DEF Occupied
<1>5. ASSUME NEW b \in Contents(a), loc[b] \in Candidates, <<b, "child">> \in foreign
      PROVE  ~EmptyDirectory(a)
  BY <1>3, <1>5 DEF Occupied
<1>. QED  BY <1>1, <1>2, <1>4, <1>5 DEF Stuck

\* A session that met no crash and no failing call, and at most one move of
\* another program, ends with nothing left that it could have removed, whether it
\* ran to its end or rolled back (cleanup.rs, apply.rs): what stays is a helper
\* directory that holds something or has lost something to that move.
THEOREM QuietSessionsLeaveNothing == Spec => []LeavesNothingBehind
<1>1. Background /\ QuietOK /\ [Next]_vars => QuietOK'
  BY QuietStaysInv
<1>2. TypeInv /\ WriteAhead /\ WholeInv /\ PassInv /\ ModeInv /\ Intact /\ ClaimInv
        => Background
  BY DEF Background
<1>3. Background /\ QuietOK => LeavesNothingBehind
  <2>. SUFFICES ASSUME Background, QuietOK, pc = "idle", Quiet,
                       NEW a \in Created, loc[a] \in Candidates
                PROVE  /\ Op[a] = "mkdir"
                       /\ \/ ~EmptyDirectory(a)
                          \/ \E b \in Contents(a) : loc[b] \in {"away", "destroyed"}
    BY DEF LeavesNothingBehind, Quiet
  <2>1. QuietInv
    BY DEF QuietOK
  <2>2. Good(a)
    BY <2>1 DEF QuietInv, PassDone, Finished
  <2>3. Op[a] = "mkdir" /\ Stuck(a)
    BY <2>2 DEF Good
  <2>. QED  BY <2>1, <2>3, StuckIsExcused DEF QuietInv, Background
<1>. QED  BY <1>1, <1>2, <1>3, QuietInitially, TypeInvariant, WriteAheadInvariant,
             WholeInvariant, PassInvariant, ModeInvariant, IntactInvariant,
             ClaimInvariant, PTL DEF Spec
=============================================================================
