------------------------- MODULE EventLedger_proofs -------------------------
(***************************************************************************)
(* For any number of supervising threads, handlers, kinds, generations and *)
(* signals: no signal of an earlier lease is ever recorded, what a take    *)
(* returns is what was recorded, and each change of the ledger's word is   *)
(* one operation of the queue of module SignalQueue.                       *)
(***************************************************************************)
EXTENDS EventLedgerRefinesQueue, SequenceTheorems, TLAPS

Holding == {"leased", "activate", "take", "finalize", "flush", "finalized"}
OwnerSteps == Holding \cup {"out", "acquire"}

TypeInv ==
    /\ word \in Words
    /\ opc \in [Owners -> OwnerSteps]
    /\ seen \in [Owners -> Words]
    /\ hpc \in [Handlers -> {"idle", "record"}]
    /\ hseen \in [Handlers -> Words]
    /\ hkind \in [Handlers -> Kinds \cup {Nothing}]
    /\ \A h \in Handlers : hpc[h] = "record" => hkind[h] \in Kinds
    /\ lease \in [Handlers \cup {"ledger"} -> Nat]
    /\ accepted \in Seq(Kinds)

\* One owner at a time has the ledger, while its phase is not inactive; and the
\* last generation is never leased, so that a release always begins another.
LeaseInv ==
    /\ \A o \in Owners : opc[o] \in Holding => word.phase # "inactive"
    /\ \A o, p \in Owners : opc[o] \in Holding /\ opc[p] \in Holding => o = p
    /\ word.phase # "inactive" => word.generation < MaxGeneration

\* The word holds the occurrences accepted and not yet taken.
Holds(w, s) ==
    /\ w.count = IF Len(s) >= 3 THEN 3 ELSE Len(s)
    /\ Len(s) >= 1 => w.first = s[1]
    /\ Len(s) >= 2 => w.second = s[2]

WordInv ==
    /\ Holds(word, accepted)
    /\ word.phase # "active" => accepted = << >>

\* A handler that may still record took its token in the lease that now has the
\* ledger, or in a generation that is over.
TokenInv ==
    \A h \in Handlers :
        hpc[h] = "record" /\ hseen[h].phase = "active" =>
            \/ hseen[h].generation < word.generation
            \/ /\ hseen[h].generation = word.generation
               /\ word.phase # "inactive"
               /\ lease[h] = lease["ledger"]

LedgerInv == TypeInv /\ LeaseInv /\ WordInv /\ TokenInv /\ TakesAreFaithful

-----------------------------------------------------------------------------
(* What the helpers return.                                                *)

LEMMA BlankIsAWord ==
  ASSUME NEW g \in 0..MaxGeneration, NEW p \in Phases
  PROVE  Blank(g, p) \in Words
  BY BoundAssumption DEF Blank, Words

LEMMA BlankDecodesEmpty ==
  ASSUME NEW g, NEW p
  PROVE  Decode(Blank(g, p)) = << >>
  BY DEF Blank, Decode

LEMMA Prefix ==
  ASSUME NEW S, NEW s \in Seq(S), NEW n \in 0..Len(s)
  PROVE  /\ SubSeq(s, 1, n) \in Seq(S) /\ Len(SubSeq(s, 1, n)) = n
         /\ \A i \in 1..n : SubSeq(s, 1, n)[i] = s[i]
<1>1. \A i \in 1..n : s[i] \in S
  BY ElementOfSeq
<1>2. /\ SubSeq(s, 1, n) \in Seq(S)
      /\ Len(SubSeq(s, 1, n)) = IF 1 <= n THEN n - 1 + 1 ELSE 0
      /\ \A i \in 1..n - 1 + 1 : SubSeq(s, 1, n)[i] = s[1 + i - 1]
  BY <1>1, SubSeqProperties
<1>. QED
  BY <1>2

\* What a word stands for, for each value of its count.
LEMMA DecodeByCount ==
  ASSUME NEW w \in Words
  PROVE  /\ w.count = 0 => Decode(w) = << >>
         /\ w.count = 1 => Decode(w) = <<w.first>>
         /\ w.count = 2 => Decode(w) = <<w.first, w.second>>
         /\ w.count = 3 => Decode(w) = <<w.first, w.second, w.second>>
<1> DEFINE K == Kinds \cup {Nothing}
           kept == <<w.first, w.second, w.second>>
<1>1. w.first \in K /\ w.second \in K /\ w.count \in 0..3
  BY DEF Words
<1>2. /\ kept \in Seq(K) /\ Len(kept) = 3
      /\ kept[1] = w.first /\ kept[2] = w.second /\ kept[3] = w.second
  BY <1>1
<1>3. Decode(w) = SubSeq(kept, 1, w.count)
  BY DEF Decode
<1> HIDE DEF kept
<1>4. /\ Decode(w) \in Seq(K) /\ Len(Decode(w)) = w.count
      /\ \A i \in 1..w.count : Decode(w)[i] = kept[i]
  BY <1>1, <1>2, <1>3, Prefix
<1>5. CASE w.count = 0
  BY <1>4, <1>5
<1>6. CASE w.count = 1
  <2>1. <<w.first>> \in Seq(K) /\ Len(<<w.first>>) = 1
    BY <1>1
  <2>2. Decode(w)[1] = w.first
    BY <1>2, <1>4, <1>6
  <2>. QED
    BY <1>4, <1>6, <2>1, <2>2
<1>7. CASE w.count = 2
  <2>1. <<w.first, w.second>> \in Seq(K) /\ Len(<<w.first, w.second>>) = 2
    BY <1>1
  <2>2. Decode(w)[1] = w.first /\ Decode(w)[2] = w.second
    BY <1>2, <1>4, <1>7
  <2>. QED
    BY <1>4, <1>7, <2>1, <2>2
<1>8. CASE w.count = 3
  <2>1. \A i \in 1..3 : Decode(w)[i] = kept[i]
    BY <1>4, <1>8
  <2>2. Decode(w) = kept
    BY <1>2, <1>4, <1>8, <2>1, SeqEqual
  <2>. QED
    BY <1>8, <2>2 DEF kept
<1>. QED
  BY <1>1, <1>5, <1>6, <1>7, <1>8
LEMMA HoldsIsFaithful ==
  ASSUME NEW w \in Words, NEW s \in Seq(Kinds), Holds(w, s)
  PROVE  Decode(w) = Faithful(s)
  BY DecodeByCount DEF Holds, Faithful

LEMMA NotedInWords ==
  ASSUME NEW w \in Words, NEW k \in Kinds
  PROVE  Noted(w, k) \in Words
<1> DEFINE counted == [w EXCEPT !.count = IF @ = 3 THEN 3 ELSE @ + 1]
           named == [counted EXCEPT !.first = IF w.count = 0 THEN k ELSE @]
<1>1. counted \in Words
  BY DEF Words
<1>2. named \in Words
  BY <1>1 DEF Words
<1>3. [named EXCEPT !.second = IF w.count = 1 THEN k ELSE @] \in Words
  BY <1>2 DEF Words
<1>. QED
  BY <1>3 DEF Noted

LEMMA NotedHolds ==
  ASSUME NEW w \in Words, NEW s \in Seq(Kinds), NEW k \in Kinds, Holds(w, s)
  PROVE  /\ Noted(w, k) \in Words
         /\ Holds(Noted(w, k), Append(s, k))
         /\ Noted(w, k).phase = w.phase /\ Noted(w, k).generation = w.generation
<1>1. w.count \in 0..3
  BY DEF Words
<1>2. /\ Noted(w, k).generation = w.generation /\ Noted(w, k).phase = w.phase
      /\ Noted(w, k).count = IF w.count = 3 THEN 3 ELSE w.count + 1
      /\ Noted(w, k).first = IF w.count = 0 THEN k ELSE w.first
      /\ Noted(w, k).second = IF w.count = 1 THEN k ELSE w.second
  BY DEF Noted, Words
<1>3. Noted(w, k) \in Words
  BY NotedInWords
<1>4. /\ Len(Append(s, k)) = Len(s) + 1 /\ Len(s) \in Nat
      /\ \A i \in 1..Len(s) : Append(s, k)[i] = s[i]
      /\ Append(s, k)[Len(s) + 1] = k
  BY AppendProperties
<1>5. Holds(Noted(w, k), Append(s, k))
  <2> DEFINE n == Len(s)
  <2> HIDE DEF n
  <2>1. n \in Nat /\ n = Len(s)
    BY <1>4 DEF n
  <2>2. \/ n = 0 /\ w.count = 0
        \/ n = 1 /\ w.count = 1
        \/ n = 2 /\ w.count = 2
        \/ n >= 3 /\ w.count = 3
    BY <2>1 DEF Holds
  <2>3. Noted(w, k).count = IF n + 1 >= 3 THEN 3 ELSE n + 1
    <3>1. n = 0 => Noted(w, k).count = 1
      BY <1>2, <2>2
    <3>2. n = 1 => Noted(w, k).count = 2
      BY <1>2, <2>2
    <3>3. n >= 2 => Noted(w, k).count = 3
      BY <1>2, <2>1, <2>2
    <3>. QED
      BY <2>1, <3>1, <3>2, <3>3
  <2>4. Noted(w, k).first = Append(s, k)[1]
    BY <1>2, <1>4 DEF Holds
  <2>5. n + 1 >= 2 => Noted(w, k).second = Append(s, k)[2]
    BY <1>2, <1>4, <2>1, <2>2 DEF Holds
  <2>. QED
    BY <1>4, <2>1, <2>3, <2>4, <2>5 DEF Holds
<1>. QED
  BY <1>2, <1>3, <1>5

-----------------------------------------------------------------------------
(* The invariant.                                                          *)

LEMMA InitEstablishes == Init => LedgerInv
<1> SUFFICES ASSUME Init PROVE LedgerInv
  OBVIOUS
<1>1. Blank(0, "inactive") \in Words
  BY BlankIsAWord, BoundAssumption DEF Phases
<1>2. TypeInv
  BY <1>1 DEF Init, TypeInv, OwnerSteps
<1>3. LeaseInv /\ TokenInv
  BY DEF Init, LeaseInv, TokenInv, Holding, Blank
<1>4. WordInv /\ TakesAreFaithful
  BY DEF Init, WordInv, Holds, Blank, TakesAreFaithful, Faithful
<1>. QED
  BY <1>2, <1>3, <1>4 DEF LedgerInv

\* An owner that reads, misses or is refused, and gains nothing by it.
LEMMA LookPreserves ==
  ASSUME LedgerInv, opc' \in [Owners -> OwnerSteps], seen' \in [Owners -> Words],
         \A o \in Owners : opc'[o] \in Holding => opc[o] \in Holding,
         UNCHANGED <<word, handlerVars, lease, accepted, taken>>
  PROVE  LedgerInv'
<1>1. TypeInv'
  BY DEF LedgerInv, TypeInv, handlerVars
<1>2. LeaseInv'
  BY DEF LedgerInv, LeaseInv
<1>3. WordInv' /\ TakesAreFaithful'
  BY DEF LedgerInv, WordInv, Holds, TakesAreFaithful
<1>4. TokenInv'
  BY DEF LedgerInv, TokenInv, handlerVars
<1>. QED
  BY <1>1, <1>2, <1>3, <1>4 DEF LedgerInv

\* An owner that has the ledger replaces the word without ending the lease.
LEMMA SwapPreserves ==
  ASSUME LedgerInv, NEW o \in Owners, opc[o] \in Holding,
         opc' \in [Owners -> OwnerSteps], seen' \in [Owners -> Words],
         \A p \in Owners : opc'[p] \in Holding => opc[p] \in Holding,
         word' \in Words, word'.generation = word.generation, word'.phase # "inactive",
         accepted' \in Seq(Kinds), WordInv', TakesAreFaithful',
         UNCHANGED <<handlerVars, lease>>
  PROVE  LedgerInv'
<1>1. TypeInv'
  BY DEF LedgerInv, TypeInv, handlerVars
<1>2. LeaseInv'
  BY DEF LedgerInv, LeaseInv
<1>3. TokenInv'
  BY DEF LedgerInv, LeaseInv, TokenInv, handlerVars
<1>. QED
  BY <1>1, <1>2, <1>3 DEF LedgerInv

LEMMA ReturnsTyped ==
  ASSUME LedgerInv, NEW o \in Owners, NEW step \in OwnerSteps, Returns(o, step)
  PROVE  opc' \in [Owners -> OwnerSteps] /\ seen' \in [Owners -> Words]
<1>1. Blank(0, "inactive") \in Words
  BY BlankIsAWord, BoundAssumption DEF Phases
<1>. QED
  BY <1>1 DEF Returns, LedgerInv, TypeInv

LEMMA LoadsPreserves ==
  ASSUME LedgerInv, NEW o \in Owners, NEW from \in OwnerSteps, NEW to \in OwnerSteps,
         to \in Holding => from \in Holding, Loads(o, from, to)
  PROVE  LedgerInv'
<1>1. opc' \in [Owners -> OwnerSteps] /\ seen' \in [Owners -> Words]
  BY DEF Loads, LedgerInv, TypeInv
<1>2. \A p \in Owners : opc'[p] \in Holding => opc[p] \in Holding
  BY DEF Loads, LedgerInv, TypeInv
<1>. QED
  BY <1>1, <1>2, LookPreserves DEF Loads

LEMMA MissPreserves ==
  ASSUME LedgerInv, NEW o \in Owners, Misses(o), UNCHANGED <<handlerVars, lease>>
  PROVE  LedgerInv'
<1>1. opc' \in [Owners -> OwnerSteps] /\ seen' \in [Owners -> Words]
  BY DEF Misses, LedgerInv, TypeInv
<1>. QED
  BY <1>1, LookPreserves DEF Misses

LEMMA RefusalPreserves ==
  ASSUME LedgerInv, NEW o \in Owners, NEW step \in OwnerSteps, Returns(o, step),
         step \in Holding => opc[o] \in Holding,
         UNCHANGED <<word, handlerVars, lease, accepted, taken>>
  PROVE  LedgerInv'
<1>1. \A p \in Owners : opc'[p] \in Holding => opc[p] \in Holding
  BY DEF Returns, LedgerInv, TypeInv
<1>. QED
  BY <1>1, ReturnsTyped, LookPreserves

LEMMA AcquirePreserves ==
  ASSUME LedgerInv, NEW o \in Owners, Acquire(o)
  PROVE  LedgerInv'
<1>1. CASE Returns(o, "out") /\ UNCHANGED <<word, lease, accepted, taken>>
  BY <1>1, RefusalPreserves DEF Acquire, OwnerSteps, Holding
<1>2. CASE /\ seen[o].phase = "inactive" /\ ~Exhausted(seen[o])
           /\ Swaps(o, Blank(seen[o].generation, "armed")) /\ Returns(o, "leased")
           /\ lease' = [lease EXCEPT !["ledger"] = @ + 1]
           /\ accepted' = << >> /\ UNCHANGED taken
  <2> DEFINE g == word.generation
  <2>1. /\ word.phase = "inactive" /\ g \in 0..MaxGeneration /\ g < MaxGeneration
        /\ word' = Blank(g, "armed") /\ word' \in Words
    <3>1. g \in 0..MaxGeneration
      BY DEF LedgerInv, TypeInv, Words
    <3>. QED
      BY <1>2, <3>1, BlankIsAWord, BoundAssumption DEF Swaps, Exhausted, Phases
  <2>2. opc' \in [Owners -> OwnerSteps] /\ seen' \in [Owners -> Words]
    BY <1>2, ReturnsTyped DEF OwnerSteps, Holding
  <2>3. TypeInv'
    BY <1>2, <2>1, <2>2 DEF Acquire, LedgerInv, TypeInv, handlerVars
  <2>4. LeaseInv'
    <3>1. \A p \in Owners : opc'[p] \in Holding => p = o
      BY <1>2, <2>1 DEF Returns, LedgerInv, TypeInv, LeaseInv
    <3>. QED
      BY <2>1, <3>1 DEF LeaseInv, Blank
  <2>5. WordInv' /\ TakesAreFaithful'
    BY <1>2, <2>1 DEF LedgerInv, WordInv, Holds, Blank, TakesAreFaithful
  <2>6. TokenInv'
    BY <1>2, <2>1 DEF Acquire, LedgerInv, TokenInv, handlerVars, Blank
  <2>. QED
    BY <2>3, <2>4, <2>5, <2>6 DEF LedgerInv
<1>3. CASE Misses(o) /\ UNCHANGED lease
  BY <1>3, MissPreserves DEF Acquire
<1>. QED
  BY <1>1, <1>2, <1>3 DEF Acquire

LEMMA SwapReturns ==
  ASSUME LedgerInv, NEW o \in Owners, opc[o] \in Holding, NEW step \in Holding, Returns(o, step)
  PROVE  /\ opc' \in [Owners -> OwnerSteps] /\ seen' \in [Owners -> Words]
         /\ \A p \in Owners : opc'[p] \in Holding => opc[p] \in Holding
  BY ReturnsTyped DEF Returns, LedgerInv, TypeInv, OwnerSteps

LEMMA ActivatePreserves ==
  ASSUME LedgerInv, NEW o \in Owners, Activate(o)
  PROVE  LedgerInv'
<1>1. CASE Returns(o, "leased") /\ UNCHANGED <<word, accepted, taken>>
  BY <1>1, RefusalPreserves DEF Activate, OwnerSteps, Holding
<1>2. CASE /\ seen[o].phase = "armed" /\ Swaps(o, [seen[o] EXCEPT !.phase = "active"])
           /\ Returns(o, "leased") /\ UNCHANGED <<accepted, taken>>
  <2>1. /\ word' = [word EXCEPT !.phase = "active"] /\ word \in Words /\ word.phase = "armed"
        /\ accepted' = accepted /\ accepted \in Seq(Kinds)
    BY <1>2 DEF Swaps, LedgerInv, TypeInv
  <2>2. /\ word' \in Words /\ word'.generation = word.generation /\ word'.phase = "active"
        /\ word'.count = word.count /\ word'.first = word.first /\ word'.second = word.second
    BY <2>1 DEF Words, Phases
  <2>3. WordInv' /\ TakesAreFaithful'
    BY <1>2, <2>2 DEF LedgerInv, WordInv, Holds, TakesAreFaithful
  <2>. QED
    BY <1>2, <2>1, <2>2, <2>3, SwapReturns, SwapPreserves DEF Activate, Holding
<1>3. CASE Misses(o)
  BY <1>3, MissPreserves DEF Activate
<1>. QED
  BY <1>1, <1>2, <1>3 DEF Activate

\* A take returns what was recorded: only the exchange that empties the word
\* tells that nothing was recorded since the load.
LEMMA TakePreserves ==
  ASSUME LedgerInv, NEW o \in Owners, opc[o] \in Holding, Take(o, seen[o], "leased"),
         UNCHANGED <<handlerVars, lease>>
  PROVE  LedgerInv'
<1>1. CASE Returns(o, "leased") /\ UNCHANGED <<word, accepted, taken>>
  BY <1>1, RefusalPreserves DEF OwnerSteps, Holding
<1>2. CASE /\ Swaps(o, Blank(seen[o].generation, "active"))
           /\ taken' = [got |-> Decode(seen[o]), recorded |-> accepted]
           /\ accepted' = << >> /\ Returns(o, "leased")
  <2>1. /\ word' = Blank(word.generation, "active") /\ word \in Words
        /\ taken' = [got |-> Decode(word), recorded |-> accepted]
    BY <1>2 DEF Swaps, LedgerInv, TypeInv
  <2>2. word' \in Words
    BY <2>1, BlankIsAWord DEF Words, Phases
  <2>3. WordInv'
    BY <1>2, <2>1 DEF WordInv, Holds, Blank
  <2>4. TakesAreFaithful'
    BY <2>1, HoldsIsFaithful DEF LedgerInv, TypeInv, WordInv, TakesAreFaithful
  <2>. QED
    BY <1>2, <2>1, <2>2, <2>3, <2>4, SwapReturns, SwapPreserves DEF Blank, Holding
<1>3. CASE Misses(o)
  BY <1>3, MissPreserves
<1>. QED
  BY <1>1, <1>2, <1>3 DEF Take

LEMMA FinalizePreserves ==
  ASSUME LedgerInv, NEW o \in Owners, Finalize(o)
  PROVE  LedgerInv'
<1>1. CASE /\ opc' = [opc EXCEPT ![o] = "flush"] /\ seen' = [seen EXCEPT ![o] = word]
           /\ UNCHANGED <<word, accepted, taken>>
  <2>1. /\ opc' \in [Owners -> OwnerSteps] /\ seen' \in [Owners -> Words]
        /\ \A p \in Owners : opc'[p] \in Holding => opc[p] \in Holding
    BY <1>1 DEF Finalize, LedgerInv, TypeInv, OwnerSteps, Holding
  <2>. QED
    BY <1>1, <2>1, LookPreserves DEF Finalize
<1>2. CASE /\ \/ seen[o].phase = "armed"
              \/ seen[o].phase = "active" /\ seen[o].count = 0
           /\ Swaps(o, [seen[o] EXCEPT !.phase = "finalizing"])
           /\ Returns(o, "finalized") /\ UNCHANGED <<accepted, taken>>
  <2>1. /\ word' = [word EXCEPT !.phase = "finalizing"] /\ word \in Words
        /\ word.phase = "armed" \/ word.count = 0
        /\ accepted' = accepted /\ accepted \in Seq(Kinds)
    BY <1>2 DEF Swaps, LedgerInv, TypeInv
  <2>2. /\ word' \in Words /\ word'.generation = word.generation /\ word'.phase = "finalizing"
        /\ word'.count = word.count /\ word'.first = word.first /\ word'.second = word.second
    BY <2>1 DEF Words, Phases
  \* What is finalized has nothing pending.
  <2>3. accepted = << >>
    BY <2>1 DEF LedgerInv, WordInv, Holds
  <2>4. WordInv' /\ TakesAreFaithful'
    BY <1>2, <2>2, <2>3 DEF LedgerInv, WordInv, Holds, TakesAreFaithful
  <2>. QED
    BY <1>2, <2>1, <2>2, <2>4, SwapReturns, SwapPreserves DEF Finalize, Holding
<1>3. CASE Misses(o)
  BY <1>3, MissPreserves DEF Finalize
<1>4. CASE Returns(o, "finalized") /\ UNCHANGED <<word, accepted, taken>>
  BY <1>4, RefusalPreserves DEF Finalize, OwnerSteps, Holding
<1>. QED
  BY <1>1, <1>2, <1>3, <1>4 DEF Finalize

\* Releasing begins a generation of its own: what a handler took its token in
\* is over.
LEMMA ReleasePreserves ==
  ASSUME LedgerInv, NEW o \in Owners, Release(o)
  PROVE  LedgerInv'
<1>1. /\ word.generation \in 0..MaxGeneration /\ word.generation < MaxGeneration
      /\ NextGeneration(word.generation) = word.generation + 1
  BY DEF Release, LedgerInv, LeaseInv, TypeInv, Words, Holding, NextGeneration
<1>2. word' = Blank(word.generation + 1, "inactive") /\ word' \in Words
  BY <1>1, BlankIsAWord, BoundAssumption DEF Release, Phases
<1>3. TypeInv'
  BY <1>2, ReturnsTyped DEF Release, LedgerInv, TypeInv, handlerVars, OwnerSteps
<1>4. LeaseInv'
  <2>1. \A p \in Owners : opc'[p] \notin Holding
    BY DEF Release, Returns, LedgerInv, TypeInv, LeaseInv, Holding
  <2>. QED
    BY <1>2, <2>1 DEF LeaseInv, Blank
<1>5. WordInv' /\ TakesAreFaithful'
  BY <1>2 DEF Release, LedgerInv, WordInv, Holds, Blank, TakesAreFaithful
<1>6. TokenInv'
  <2>1. \A h \in Handlers : hseen[h].generation \in Nat
    BY BoundAssumption DEF LedgerInv, TypeInv, Words
  <2>. QED
    BY <1>1, <1>2, <2>1 DEF Release, LedgerInv, TokenInv, handlerVars, Blank
<1>. QED
  BY <1>3, <1>4, <1>5, <1>6 DEF LedgerInv

LEMMA SignalPreserves ==
  ASSUME LedgerInv, NEW h \in Handlers, Signal(h)
  PROVE  LedgerInv'
<1>1. TypeInv'
  BY HandlersAssumption DEF Signal, LedgerInv, TypeInv, ownerVars
<1>2. LeaseInv' /\ WordInv' /\ TakesAreFaithful'
  BY DEF Signal, ownerVars, LedgerInv, LeaseInv, WordInv, Holds, TakesAreFaithful
<1>3. TokenInv'
  BY HandlersAssumption DEF Signal, LedgerInv, TypeInv, TokenInv
<1>. QED
  BY <1>1, <1>2, <1>3 DEF LedgerInv

LEMMA RecordPreserves ==
  ASSUME LedgerInv, NEW h \in Handlers, Record(h)
  PROVE  LedgerInv'
<1>1. CASE /\ word = hseen[h] /\ word' = Noted(word, hkind[h])
           /\ accepted' = Append(accepted, hkind[h]) /\ HandlerReturns(h)
  <2>1. /\ word \in Words /\ accepted \in Seq(Kinds) /\ hkind[h] \in Kinds
        /\ Holds(word, accepted) /\ word.phase = "active"
    BY <1>1 DEF Record, LedgerInv, TypeInv, WordInv
  <2>2. /\ word' \in Words /\ Holds(word', accepted')
        /\ word'.phase = word.phase /\ word'.generation = word.generation
    BY <1>1, <2>1, NotedHolds
  <2>3. accepted' \in Seq(Kinds)
    BY <1>1, <2>1
  <2>4. Blank(0, "inactive") \in Words
    BY BlankIsAWord, BoundAssumption DEF Phases
  <2>5. TypeInv'
    BY <1>1, <2>2, <2>3, <2>4, HandlersAssumption
       DEF Record, HandlerReturns, LedgerInv, TypeInv, ownerVars
  <2>6. LeaseInv' /\ TakesAreFaithful' /\ WordInv'
    BY <2>1, <2>2 DEF Record, ownerVars, LedgerInv, LeaseInv, WordInv, TakesAreFaithful
  <2>7. TokenInv'
    BY <1>1, <2>2, HandlersAssumption DEF HandlerReturns, LedgerInv, TypeInv, TokenInv
  <2>. QED
    BY <2>5, <2>6, <2>7 DEF LedgerInv
<1>2. CASE /\ word # hseen[h] /\ word.generation = hseen[h].generation
           /\ hseen' = [hseen EXCEPT ![h] = word]
           /\ UNCHANGED <<word, accepted, hpc, hkind, lease>>
  <2>1. TypeInv'
    BY <1>2 DEF Record, LedgerInv, TypeInv, ownerVars
  <2>2. LeaseInv' /\ TakesAreFaithful' /\ WordInv'
    BY <1>2 DEF Record, ownerVars, LedgerInv, LeaseInv, WordInv, Holds, TakesAreFaithful
  \* What it found is of the same generation, hence of the same lease.
  <2>3. TokenInv'
    <3>1. /\ word.generation \in Nat /\ hpc[h] = "record" /\ hseen[h].phase = "active"
      BY BoundAssumption DEF Record, LedgerInv, TypeInv, Words
    <3>2. word.phase # "inactive" /\ lease[h] = lease["ledger"]
      BY <1>2, <3>1 DEF LedgerInv, TokenInv
    <3>. QED
      BY <1>2, <3>2 DEF LedgerInv, TypeInv, TokenInv
  <2>. QED
    BY <2>1, <2>2, <2>3 DEF LedgerInv
<1>. QED
  BY <1>1, <1>2 DEF Record

LEMMA DefaultPreserves ==
  ASSUME LedgerInv, NEW h \in Handlers, DefaultHandling(h)
  PROVE  LedgerInv'
<1>1. Blank(0, "inactive") \in Words
  BY BlankIsAWord, BoundAssumption DEF Phases
<1>2. TypeInv'
  BY <1>1, HandlersAssumption DEF DefaultHandling, HandlerReturns, LedgerInv, TypeInv, ownerVars
<1>3. LeaseInv' /\ WordInv' /\ TakesAreFaithful'
  BY DEF DefaultHandling, ownerVars, LedgerInv, LeaseInv, WordInv, Holds, TakesAreFaithful
<1>4. TokenInv'
  BY HandlersAssumption DEF DefaultHandling, HandlerReturns, LedgerInv, TypeInv, TokenInv
<1>. QED
  BY <1>2, <1>3, <1>4 DEF LedgerInv

LEMMA NextPreserves == LedgerInv /\ [Next]_vars => LedgerInv'
<1> SUFFICES ASSUME LedgerInv, [Next]_vars PROVE LedgerInv'
  OBVIOUS
<1> USE DEF OwnerSteps, Holding
<1>1. ASSUME NEW o \in Owners, BeginAcquire(o) PROVE LedgerInv'
  BY <1>1, LoadsPreserves DEF BeginAcquire
<1>2. ASSUME NEW o \in Owners, Acquire(o) PROVE LedgerInv'
  BY <1>2, AcquirePreserves
<1>3. ASSUME NEW o \in Owners, BeginActivate(o) PROVE LedgerInv'
  BY <1>3, LoadsPreserves DEF BeginActivate
<1>4. ASSUME NEW o \in Owners, Activate(o) PROVE LedgerInv'
  BY <1>4, ActivatePreserves
<1>5. ASSUME NEW o \in Owners, BeginPending(o) PROVE LedgerInv'
  BY <1>5, LoadsPreserves DEF BeginPending
<1>6. ASSUME NEW o \in Owners, Pending(o) \/ Flush(o) PROVE LedgerInv'
  BY <1>6, TakePreserves DEF Pending, Flush
<1>7. ASSUME NEW o \in Owners, BeginFinalization(o) PROVE LedgerInv'
  BY <1>7, LoadsPreserves DEF BeginFinalization
<1>8. ASSUME NEW o \in Owners, Finalize(o) PROVE LedgerInv'
  BY <1>8, FinalizePreserves
<1>9. ASSUME NEW o \in Owners, Release(o) PROVE LedgerInv'
  BY <1>9, ReleasePreserves
<1>10. ASSUME NEW h \in Handlers, Signal(h) \/ Record(h) \/ DefaultHandling(h) PROVE LedgerInv'
  BY <1>10, SignalPreserves, RecordPreserves, DefaultPreserves
<1>11. CASE UNCHANGED vars
  BY <1>11, LookPreserves DEF vars, ownerVars, handlerVars, LedgerInv, TypeInv
<1>. QED
  BY <1>1, <1>2, <1>3, <1>4, <1>5, <1>6, <1>7, <1>8, <1>9, <1>10, <1>11 DEF Next

\* In every state one owner has the ledger at most, the word holds what was
\* accepted and not taken, and every token is of this lease or void: the
\* invariant behind the theorems below (process/event.rs).
THEOREM LedgerInvariant == Spec => []LedgerInv
  BY InitEstablishes, NextPreserves, PTL DEF Spec

\* However many threads record and take at once, a take returns the first two
\* occurrences since the last one in order, and repeats the second if there
\* were more (event.rs, decode_events, take_pending and record).
THEOREM TakesReturnWhatWasRecorded == Spec => []TakesAreFaithful
<1>1. LedgerInv => TakesAreFaithful
  BY DEF LedgerInv
<1>. QED
  BY <1>1, LedgerInvariant, PTL

LEMMA StepIsOfThisLease ==
  LedgerInv /\ [Next]_vars =>
    [\A h \in Handlers :
        hpc[h] = "record" /\ accepted' = Append(accepted, hkind[h])
        /\ hpc'[h] = "idle" => lease[h] = lease["ledger"]]_vars
<1> SUFFICES ASSUME LedgerInv, Next, NEW h \in Handlers, hpc[h] = "record",
                    accepted' = Append(accepted, hkind[h]), hpc'[h] = "idle"
             PROVE  lease[h] = lease["ledger"]
  OBVIOUS
<1>1. /\ accepted \in Seq(Kinds) /\ hkind[h] \in Kinds
      /\ accepted' # accepted /\ accepted' # << >>
  <2>1. accepted \in Seq(Kinds) /\ hkind[h] \in Kinds
    BY DEF LedgerInv, TypeInv
  <2>. QED
    BY <2>1, AppendProperties
\* An owner leaves every handler where it is.
<1>2. ~UNCHANGED handlerVars
  BY DEF handlerVars
<1>3. PICK k \in Handlers : Signal(k) \/ Record(k) \/ DefaultHandling(k)
  BY <1>2 DEF Next, BeginAcquire, Acquire, BeginActivate, Activate, BeginPending, Pending,
     BeginFinalization, Finalize, Flush, Release, Loads
<1>4. Record(k) /\ word = hseen[k] /\ HandlerReturns(k)
  BY <1>1, <1>3 DEF Signal, Record, DefaultHandling
<1>5. k = h
  BY <1>4 DEF HandlerReturns, LedgerInv, TypeInv
<1>6. word.generation \in Nat
  BY BoundAssumption DEF LedgerInv, TypeInv, Words
<1>. QED
  BY <1>4, <1>5, <1>6 DEF Record, LedgerInv, TokenInv

\* A signal that a handler saw arrive in one session is never recorded in a
\* later one, for any number of leases up to the last generation: the token
\* of record_signal (event.rs, ADR 0019).
THEOREM NoSignalOutlivesItsLease == Spec => NoStaleSignal
  BY LedgerInvariant, StepIsOfThisLease, PTL DEF Spec, NoStaleSignal

-----------------------------------------------------------------------------
(* The queue.                                                              *)

LEMMA NotedEnqueues ==
  ASSUME NEW w \in Words, NEW k \in Kinds
  PROVE  Decode(Noted(w, k)) = Abstract!Enqueue(Decode(w), k)
<1>1. /\ Noted(w, k).count = IF w.count = 3 THEN 3 ELSE w.count + 1
      /\ Noted(w, k).first = IF w.count = 0 THEN k ELSE w.first
      /\ Noted(w, k).second = IF w.count = 1 THEN k ELSE w.second
      /\ w.count \in 0..3
  BY DEF Noted, Words
<1>2. Noted(w, k) \in Words
  BY NotedInWords
<1>3. CASE w.count = 0
  <2>1. Decode(w) = << >> /\ Decode(Noted(w, k)) = <<k>>
    BY <1>1, <1>2, <1>3, DecodeByCount
  <2>2. Len(Decode(w)) = 0 /\ Append(Decode(w), k) = <<k>>
    BY <2>1
  <2>. QED
    BY <2>1, <2>2 DEF Abstract!Enqueue
<1>4. CASE w.count = 1
  <2>1. Decode(w) = <<w.first>> /\ Decode(Noted(w, k)) = <<w.first, k>>
    BY <1>1, <1>2, <1>4, DecodeByCount
  <2>. QED
    BY <2>1 DEF Abstract!Enqueue
<1>5. CASE w.count = 2
  <2>1. /\ Decode(w) = <<w.first, w.second>>
        /\ Decode(Noted(w, k)) = <<w.first, w.second, w.second>>
    BY <1>1, <1>2, <1>5, DecodeByCount
  <2>. QED
    BY <2>1 DEF Abstract!Enqueue
<1>6. CASE w.count = 3
  <2>1. /\ Decode(w) = <<w.first, w.second, w.second>>
        /\ Decode(Noted(w, k)) = <<w.first, w.second, w.second>>
    BY <1>1, <1>2, <1>6, DecodeByCount
  <2>. QED
    BY <2>1 DEF Abstract!Enqueue
<1>. QED
  BY <1>1, <1>3, <1>4, <1>5, <1>6

LEMMA InitImplements == Init => Abstract!Empty
  BY BlankDecodesEmpty DEF Init, Abstract!Empty, Blank

LEMMA TakeImplements ==
  ASSUME LedgerInv, NEW o \in Owners, Take(o, seen[o], "leased")
  PROVE  Abstract!Take \/ UNCHANGED word
<1>1. CASE Swaps(o, Blank(seen[o].generation, "active")) /\ seen[o].phase = "active"
  BY <1>1, BlankDecodesEmpty DEF Swaps, Abstract!Take, Blank
<1>. QED
  BY <1>1 DEF Take, Misses

LEMMA StepImplements ==
  LedgerInv /\ [Next]_vars => [Abstract!Next]_<<word.phase, Decode(word)>>
<1> SUFFICES ASSUME LedgerInv, [Next]_vars
             PROVE  Abstract!Next \/ UNCHANGED word
  OBVIOUS
<1>1. ASSUME NEW o \in Owners, Acquire(o) PROVE Abstract!Lease \/ UNCHANGED word
  <2>1. CASE seen[o].phase = "inactive" /\ Swaps(o, Blank(seen[o].generation, "armed"))
    <3>1. word \in Words /\ word.count = 0 /\ word.phase = "inactive"
      BY <2>1 DEF Swaps, LedgerInv, TypeInv, WordInv, Holds
    <3>2. Decode(word) = << >> /\ Decode(word') = << >> /\ word'.phase = "armed"
      BY <2>1, <3>1, DecodeByCount, BlankDecodesEmpty DEF Swaps, Blank
    <3>. QED
      BY <3>1, <3>2 DEF Abstract!Lease
  <2>. QED
    BY <1>1, <2>1 DEF Acquire, Misses
<1>2. ASSUME NEW o \in Owners, Activate(o) PROVE Abstract!Activate \/ UNCHANGED word
  <2>1. CASE seen[o].phase = "armed" /\ Swaps(o, [seen[o] EXCEPT !.phase = "active"])
    <3>1. word \in Words /\ word.phase = "armed" /\ word' = [word EXCEPT !.phase = "active"]
      BY <2>1 DEF Swaps, LedgerInv, TypeInv
    <3>2. /\ word'.phase = "active" /\ word'.count = word.count
          /\ word'.first = word.first /\ word'.second = word.second
      BY <3>1 DEF Words
    <3>. QED
      BY <3>1, <3>2 DEF Abstract!Activate, Decode
  <2>. QED
    BY <1>2, <2>1 DEF Activate, Misses
<1>3. ASSUME NEW o \in Owners, Pending(o) \/ Flush(o) PROVE Abstract!Take \/ UNCHANGED word
  BY <1>3, TakeImplements DEF Pending, Flush
<1>4. ASSUME NEW o \in Owners, Finalize(o) PROVE Abstract!Finalize \/ UNCHANGED word
  <2>1. CASE /\ \/ seen[o].phase = "armed"
                \/ seen[o].phase = "active" /\ seen[o].count = 0
             /\ Swaps(o, [seen[o] EXCEPT !.phase = "finalizing"])
    <3>1. /\ word \in Words /\ word.phase \in {"armed", "active"} /\ word.count = 0
          /\ word' = [word EXCEPT !.phase = "finalizing"]
      BY <2>1 DEF Swaps, LedgerInv, TypeInv, WordInv, Holds
    <3>2. /\ word'.phase = "finalizing" /\ word'.count = word.count
          /\ word'.first = word.first /\ word'.second = word.second
      BY <3>1 DEF Words
    <3>3. Decode(word) = << >> /\ Decode(word') = Decode(word)
      BY <3>1, <3>2, DecodeByCount DEF Decode
    <3>. QED
      BY <3>1, <3>2, <3>3 DEF Abstract!Finalize
  <2>. QED
    BY <1>4, <2>1 DEF Finalize, Misses
<1>5. ASSUME NEW o \in Owners, Release(o) PROVE Abstract!Release
  <2>1. word.phase # "inactive"
    BY <1>5 DEF Release, Holding, LedgerInv, LeaseInv
  <2>. QED
    BY <1>5, <2>1, BlankDecodesEmpty DEF Release, Abstract!Release, Blank
<1>6. ASSUME NEW h \in Handlers, Record(h)
      PROVE  (\E k \in Kinds : Abstract!Record(k)) \/ UNCHANGED word
  <2>1. CASE word = hseen[h] /\ word' = Noted(word, hkind[h])
    <3>1. word \in Words /\ hkind[h] \in Kinds /\ word.phase = "active"
      BY <1>6, <2>1 DEF Record, LedgerInv, TypeInv
    <3>2. /\ Decode(word') = Abstract!Enqueue(Decode(word), hkind[h])
          /\ word'.phase = word.phase
      BY <2>1, <3>1, NotedEnqueues DEF Noted, Words
    <3>. QED
      BY <3>1, <3>2 DEF Abstract!Record
  <2>. QED
    BY <1>6, <2>1 DEF Record
<1>7. CASE UNCHANGED vars
  BY <1>7 DEF vars
<1>. QED
  BY <1>1, <1>2, <1>3, <1>4, <1>5, <1>6, <1>7
     DEF Next, Abstract!Next, BeginAcquire, BeginActivate, BeginPending, BeginFinalization,
         Loads, Signal, DefaultHandling

\* For any number of threads the lock-free ledger is the queue that the
\* supervision driver relies on: nothing is lost, reordered, or accepted
\* outside an active session (event.rs, ADR 0019).
THEOREM LedgerImplementsQueue == Spec => ImplementsQueue
  BY InitImplements, StepImplements, LedgerInvariant, PTL
     DEF Spec, ImplementsQueue, Abstract!Queue, Abstract!queueVars
=============================================================================
