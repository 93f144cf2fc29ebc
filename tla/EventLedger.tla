---------------------------- MODULE EventLedger ----------------------------
(***************************************************************************)
(* The lock-free ledger between the process-lifetime signal handlers and   *)
(* the supervision session that leases it (src/process/event.rs): one      *)
(* atomic word, changed by compare-and-swap only, which every reader loads *)
(* in an earlier step than the one that uses what it read.                 *)
(*                                                                         *)
(* A spuriously failing weak exchange only repeats the exchange, so it is  *)
(* not a step of its own. The 24 bits of the generation are MaxGeneration. *)
(***************************************************************************)
EXTENDS Naturals, Sequences

CONSTANTS
    Owners,         \* threads that may supervise a child
    Handlers,       \* handler threads
    Kinds,          \* InterruptKind
    MaxGeneration,  \* MAX_GENERATION
    MaxSignals      \* bound on the signals that arrive

ASSUME BoundAssumption == MaxGeneration \in Nat /\ MaxSignals \in Nat

Nothing == "nothing"
ASSUME KindsAssumption == Nothing \notin Kinds
ASSUME HandlersAssumption == "ledger" \notin Handlers

Phases == {"inactive", "armed", "active", "finalizing"}
Words == [generation : 0..MaxGeneration, phase : Phases, count : 0..3,
          first : Kinds \cup {Nothing}, second : Kinds \cup {Nothing}]

VARIABLES
    word,      \* EventLedger::state
    opc,       \* where each owner is in the ledger's operations
    seen,      \* what it observed last
    hpc, hseen, hkind, \* the same of each handler, and the signal's kind
    lease,     \* history: which lease a handler took its token in; the ledger's
    accepted,  \* history: the kinds recorded in this lease and not yet taken
    taken,     \* history: what the last take returned, and what it should have
    signals

ownerVars == <<opc, seen>>
handlerVars == <<hpc, hseen, hkind>>
vars == <<word, ownerVars, handlerVars, lease, accepted, taken, signals>>

Blank(g, p) == [generation |-> g, phase |-> p, count |-> 0,
                first |-> Nothing, second |-> Nothing]

Init ==
    /\ word = Blank(0, "inactive")
    /\ opc = [o \in Owners |-> "out"]
    /\ seen = [o \in Owners |-> Blank(0, "inactive")]
    /\ hpc = [h \in Handlers |-> "idle"]
    /\ hseen = [h \in Handlers |-> Blank(0, "inactive")]
    /\ hkind = [h \in Handlers |-> Nothing]
    /\ lease = [x \in Handlers \cup {"ledger"} |-> 0]
    /\ accepted = << >> /\ taken = [got |-> << >>, recorded |-> << >>]
    /\ signals = 0

\* One compare-and-swap of owner `o`: on failure it keeps what it found.
Swaps(o, new) == word = seen[o] /\ word' = new
Misses(o) ==
    /\ word # seen[o] /\ seen' = [seen EXCEPT ![o] = word]
    /\ UNCHANGED <<word, opc, accepted, taken>>

Loads(o, from, to) ==
    /\ opc[o] = from /\ opc' = [opc EXCEPT ![o] = to]
    /\ seen' = [seen EXCEPT ![o] = word]
    /\ UNCHANGED <<word, handlerVars, lease, accepted, taken, signals>>
Returns(o, to) ==
    /\ opc' = [opc EXCEPT ![o] = to]
    /\ seen' = [seen EXCEPT ![o] = Blank(0, "inactive")]

-----------------------------------------------------------------------------
(* The lease.                                                              *)

BeginAcquire(o) == Loads(o, "out", "acquire")

Exhausted(w) == w.generation = MaxGeneration

Acquire(o) ==
    /\ opc[o] = "acquire"
    /\ \/ /\ seen[o].phase # "inactive" \/ Exhausted(seen[o])
          /\ Returns(o, "out") /\ UNCHANGED <<word, lease, accepted, taken>>
       \/ /\ seen[o].phase = "inactive" /\ ~Exhausted(seen[o])
          /\ \/ /\ Swaps(o, Blank(seen[o].generation, "armed"))
                /\ Returns(o, "leased")
                /\ lease' = [lease EXCEPT !["ledger"] = @ + 1]
                /\ accepted' = << >> /\ UNCHANGED taken
             \/ Misses(o) /\ UNCHANGED lease
    /\ UNCHANGED <<handlerVars, signals>>

BeginActivate(o) == Loads(o, "leased", "activate")
Activate(o) ==
    /\ opc[o] = "activate"
    /\ \/ /\ seen[o].phase # "armed"
          /\ Returns(o, "leased") /\ UNCHANGED <<word, accepted, taken>>
       \/ /\ seen[o].phase = "armed"
          /\ \/ /\ Swaps(o, [seen[o] EXCEPT !.phase = "active"])
                /\ Returns(o, "leased") /\ UNCHANGED <<accepted, taken>>
             \/ Misses(o)
    /\ UNCHANGED <<handlerVars, lease, signals>>

\* decode_events: what a third and later occurrence was is not kept.
Decode(w) == SubSeq(<<w.first, w.second, w.second>>, 1, w.count)

\* What a take must return for the sequence recorded since the last one: the
\* first two in order, and a repetition standing for all that followed.
Faithful(s) ==
    IF Len(s) <= 2 THEN s ELSE <<s[1], s[2], s[2]>>

Take(o, w, after) ==
    \/ /\ w.phase # "active"
       /\ Returns(o, after) /\ UNCHANGED <<word, accepted, taken>>
    \/ /\ w.phase = "active"
       /\ \/ /\ Swaps(o, Blank(w.generation, "active"))
             /\ taken' = [got |-> Decode(w), recorded |-> accepted]
             /\ accepted' = << >> /\ Returns(o, after)
          \/ Misses(o)

BeginPending(o) == Loads(o, "leased", "take")
Pending(o) ==
    /\ opc[o] = "take" /\ Take(o, seen[o], "leased")
    /\ UNCHANGED <<handlerVars, lease, signals>>

\* begin_finalization: what is pending is handed back instead, and the caller
\* tries again. (Mutant: the phase is stored without a compare.)
BeginFinalization(o) == Loads(o, "leased", "finalize")
FinalizeByStore(o) ==
    /\ opc[o] = "finalize" /\ seen[o].count = 0
    /\ word' = Blank(seen[o].generation, "finalizing")
    /\ Returns(o, "finalized")
    /\ UNCHANGED <<accepted, taken, handlerVars, lease, signals>>
Finalize(o) ==
    /\ opc[o] = "finalize"
    /\ \/ /\ seen[o].phase = "active" /\ seen[o].count # 0
          /\ opc' = [opc EXCEPT ![o] = "flush"]
          /\ seen' = [seen EXCEPT ![o] = word]
          /\ UNCHANGED <<word, accepted, taken>>
       \/ /\ \/ seen[o].phase = "armed"
             \/ seen[o].phase = "active" /\ seen[o].count = 0
          /\ \/ /\ Swaps(o, [seen[o] EXCEPT !.phase = "finalizing"])
                /\ Returns(o, "finalized") /\ UNCHANGED <<accepted, taken>>
             \/ Misses(o)
       \/ /\ seen[o].phase \in {"inactive", "finalizing"}
          /\ Returns(o, "finalized") /\ UNCHANGED <<word, accepted, taken>>
    /\ UNCHANGED <<handlerVars, lease, signals>>
Flush(o) ==
    /\ opc[o] = "flush" /\ Take(o, seen[o], "leased")
    /\ UNCHANGED <<handlerVars, lease, signals>>

\* Dropping the EventSession, finalized or not: a plain store.
\* (Mutant: the generation is kept.)
SameGeneration(g) == g
NextGeneration(g) == IF g = MaxGeneration THEN g ELSE g + 1
Release(o) ==
    /\ opc[o] \in {"leased", "finalized"}
    /\ word' = Blank(NextGeneration(word.generation), "inactive")
    /\ Returns(o, "out") /\ accepted' = << >>
    /\ UNCHANGED <<taken, handlerVars, lease, signals>>

-----------------------------------------------------------------------------
(* A handler: token, then record; what is refused gets default handling.   *)

Signal(h) ==
    /\ hpc[h] = "idle" /\ signals < MaxSignals
    /\ hpc' = [hpc EXCEPT ![h] = "record"]
    /\ hseen' = [hseen EXCEPT ![h] = word]
    /\ \E k \in Kinds : hkind' = [hkind EXCEPT ![h] = k]
    /\ lease' = [lease EXCEPT ![h] = lease["ledger"]]
    /\ signals' = signals + 1
    /\ UNCHANGED <<word, ownerVars, accepted, taken>>

\* (Mutant: the second occurrence overwrites the first.)
NotedLast(w, k) ==
    [w EXCEPT !.count = IF @ = 3 THEN 3 ELSE @ + 1, !.first = k]
Noted(w, k) ==
    [w EXCEPT !.count  = IF @ = 3 THEN 3 ELSE @ + 1,
              !.first  = IF w.count = 0 THEN k ELSE @,
              !.second = IF w.count = 1 THEN k ELSE @]

HandlerReturns(h) ==
    /\ hpc' = [hpc EXCEPT ![h] = "idle"]
    /\ hseen' = [hseen EXCEPT ![h] = Blank(0, "inactive")]
    /\ hkind' = [hkind EXCEPT ![h] = Nothing]
    /\ lease' = [lease EXCEPT ![h] = 0]

\* The exchange is tried once more on what it found, in the same generation.
Record(h) ==
    /\ hpc[h] = "record" /\ hseen[h].phase = "active"
    /\ \/ /\ word = hseen[h]
          /\ word' = Noted(word, hkind[h])
          /\ accepted' = Append(accepted, hkind[h])
          /\ HandlerReturns(h)
       \/ /\ word # hseen[h] /\ word.generation = hseen[h].generation
          /\ hseen' = [hseen EXCEPT ![h] = word]
          /\ UNCHANGED <<word, accepted, hpc, hkind, lease>>
    /\ UNCHANGED <<ownerVars, taken, signals>>

DefaultHandling(h) ==
    /\ hpc[h] = "record"
    /\ \/ hseen[h].phase # "active"
       \/ word.generation # hseen[h].generation
    /\ HandlerReturns(h)
    /\ UNCHANGED <<word, ownerVars, accepted, taken, signals>>

Next ==
    \/ \E o \in Owners :
        \/ BeginAcquire(o) \/ Acquire(o) \/ BeginActivate(o) \/ Activate(o)
        \/ BeginPending(o) \/ Pending(o) \/ BeginFinalization(o)
        \/ Finalize(o) \/ Flush(o) \/ Release(o)
    \/ \E h \in Handlers : Signal(h) \/ Record(h) \/ DefaultHandling(h)

Spec == Init /\ [][Next]_vars

-----------------------------------------------------------------------------
\* A take hands over exactly what was recorded since the last one, the first
\* two occurrences in order, however recordings and takes interleave.
TakesAreFaithful == taken.got = Faithful(taken.recorded)

\* A signal that arrived in one session is never recorded in a later one.
NoStaleSignal ==
    [][\A h \in Handlers :
        hpc[h] = "record" /\ accepted' = Append(accepted, hkind[h])
        /\ hpc'[h] = "idle" => lease[h] = lease["ledger"]]_vars
=============================================================================
