------------------------------ MODULE Arguments ------------------------------
(***************************************************************************)
(* What an operator forwards to the agent is scanned before anything is    *)
(* planned: an argument that would move the child's discovery, its         *)
(* settings or its process out of the session is refused                   *)
(* (src/agent/omp/args.rs, src/agent/claude.rs, src/agent/codex.rs).  Each *)
(* adapter walks the list with its own tables; the agent then reads the    *)
(* same list by its own rules, and the two must agree on which words are   *)
(* options, which are values and which is the command.                     *)
(*                                                                         *)
(* A table is represented by the words that differ in which tables hold    *)
(* them; one word stands for all of its kind.                              *)
(***************************************************************************)
EXTENDS Naturals, Sequences

CONSTANT MaxArgs    \* bound on the length of a forwarded list

ASSUME ArgsAssumption == MaxArgs \in Nat

Agents == {"omp", "claude", "codex"}
MountModes == {"staging", "project"}

\* Words that do not start with a dash, the empty one among them.
Plain == {"acp", "agents", "exec", "review", "resume", "login", "word", ""}
DashAlone == "-"
Dashed(w) == w \notin Plain

(* omp/args.rs *)
OmpRequired == {"--config", "--mode", "--model"}
OmpOptional == {"--resume"}
OmpShadowable == {"--plan"}
OmpNoValue == {"--continue", "--allow-home"}
OmpAttached == {"--config=", "--mode=acp"}
OmpBoundary == "--omp-profile-boundary"
OmpControls == {"--config", "--config=", "--resume", "--continue"}
RejectedModes == {"acp"}
OmpCommands == {"acp"}

(* claude.rs *)
ClaudeControls == {"--bare", "--settings", "--worktree", "-wname"}
ClaudeSingle == {"--model", "--settings"}
ClaudeOptional == {"--resume", "--worktree"}
ClaudeVariadic == {"--tools", "--add-dir"}
ClaudeCommands == {"agents"}

(* codex.rs *)
CodexControls == {"-C", "-c", "--worktree"}
CodexRootValue == {"-C", "-c", "-m"}
CodexExecValue == CodexRootValue \cup {"-o"}
CodexSessions == {"exec", "review"}
CodexNested == {"resume"}

Words(a) ==
    {"--", "word"} \cup
    CASE a = "omp" -> OmpRequired \cup OmpOptional \cup OmpShadowable \cup OmpNoValue
                        \cup OmpAttached \cup {OmpBoundary, DashAlone, "acp", ""}
      [] a = "claude" -> ClaudeControls \cup ClaudeSingle \cup ClaudeOptional \cup ClaudeVariadic
                        \cup {"--add-dir=", "--add-dir=word", "--verbose", "agents"}
      [] a = "codex" -> (CodexControls \ {"-c"}) \cup {"-m", "-o"}
                        \cup {"-i", "-iword", "--json", DashAlone, "exec", "review", "resume", "login"}

VARIABLES
    agent,
    mountMode, \* where the Skills are mounted
    args,
    at,        \* the next word to look at
    open,      \* no positional word was met yet
    home,      \* the operator supplied --allow-home
    dirs,      \* positions of the words taken for added directories
    stage,     \* of Codex: which of its walks is on
    ruling

argumentVars == <<agent, mountMode, args, at, open, home, dirs, stage, ruling>>

Rulings == {"scanning", "accepted", "rejected"}

ArgumentsInit ==
    /\ agent \in Agents
    /\ mountMode \in IF agent = "claude" THEN MountModes ELSE {"staging"}
    /\ args \in UNION {[1..n -> Words(agent)] : n \in 0..MaxArgs}
    /\ at = 1 /\ open = TRUE /\ home = FALSE /\ dirs = {}
    /\ stage = IF agent = "codex" THEN "controls" ELSE "walk"
    /\ ruling = "scanning"

Scanning(a) == agent = a /\ ruling = "scanning"
Word == args[at]
\* What stands at a place of the list; nothing stands behind its end.
Next1 == IF at < Len(args) THEN {args[at + 1]} ELSE {}

Concludes(v) == ruling' = v /\ UNCHANGED <<agent, mountMode, args, at, open, home, dirs, stage>>
Advances(n) == at' = at + n /\ UNCHANGED <<agent, mountMode, args, stage, ruling>>

AtEnd ==
    /\ ruling = "scanning" /\ stage = "walk" /\ at > Len(args)
    /\ Concludes("accepted")

-----------------------------------------------------------------------------
(* OMP: classify and validate *)

\* How many words after this one the tokenizer consumes.
\* (Mutant: --plan consumes whatever follows.)
OmpTakesGreedily(w) ==
    \/ w \in OmpRequired \cup OmpShadowable /\ Next1 # {}
    \/ w \in OmpOptional /\ \E n \in Next1 : ~Dashed(n) /\ n # ""
OmpTakes(w) ==
    \/ w \in OmpRequired /\ Next1 # {}
    \/ w \in OmpShadowable /\ \E n \in Next1 : ~Dashed(n)
    \/ w \in OmpOptional /\ \E n \in Next1 : ~Dashed(n) /\ n # ""

OmpRejects(w) ==
    \/ w \in OmpControls \cup {"--mode=acp"}
    \/ w = "--mode" /\ Next1 \cap RejectedModes # {}
    \/ open /\ w \in OmpCommands

\* Every word after the terminator is message text.
OmpTerminator == Scanning("omp") /\ at <= Len(args) /\ Word = "--" /\ Concludes("accepted")

OmpReject ==
    /\ Scanning("omp") /\ at <= Len(args) /\ Word # "--"
    /\ OmpRejects(Word)
    /\ Concludes("rejected")

OmpPass ==
    /\ Scanning("omp") /\ at <= Len(args) /\ Word # "--"
    /\ ~OmpRejects(Word)
    /\ home' = (home \/ Word = "--allow-home")
    /\ open' = (open /\ Dashed(Word))
    /\ Advances(IF OmpTakes(Word) THEN 2 ELSE 1)
    /\ UNCHANGED dirs

-----------------------------------------------------------------------------
(* Claude Code: scan_passthrough *)

\* The command may stand behind the terminator.
ClaudeTerminator ==
    /\ Scanning("claude") /\ at <= Len(args) /\ Word = "--"
    /\ Concludes(IF open /\ Next1 \cap ClaudeCommands # {} THEN "rejected" ELSE "accepted")

\* The values of a variadic option reach to the next dash.
ValuesEnd ==
    LET stops == {j \in at + 1..Len(args) : Dashed(args[j])} \cup {Len(args) + 1}
    IN  CHOOSE j \in stops : \A k \in stops : j <= k

ClaudeRejects(w) ==
    \/ w \in ClaudeControls \cup {"--add-dir="}
    \/ w = "--add-dir" /\ ValuesEnd = at + 1
    \/ open /\ w \in ClaudeCommands

ClaudeReject ==
    /\ Scanning("claude") /\ at <= Len(args) /\ Word # "--"
    /\ ClaudeRejects(Word)
    /\ Concludes("rejected")

ClaudeTakes(w) ==
    IF w \in ClaudeSingle THEN 1
    ELSE IF w \in ClaudeOptional /\ \E n \in Next1 : ~Dashed(n) THEN 1
    ELSE IF w \in ClaudeVariadic THEN ValuesEnd - at - 1 ELSE 0

ClaudePass ==
    /\ Scanning("claude") /\ at <= Len(args) /\ Word # "--"
    /\ ~ClaudeRejects(Word)
    /\ dirs' = dirs \cup (IF Word = "--add-dir=word" THEN {at}
                          ELSE IF Word = "--add-dir" THEN at + 1..at + ClaudeTakes(Word) ELSE {})
    /\ open' = (open /\ Dashed(Word))
    /\ Advances(1 + ClaudeTakes(Word))
    /\ UNCHANGED home

-----------------------------------------------------------------------------
(* Codex: validate_passthrough_args, then the first positional words *)

BeforeTerminator == {args[j] : j \in {k \in DOMAIN args : \A l \in 1..k : args[l] # "--"}}

HoldsControl == BeforeTerminator \cap (CodexControls \cup {"-i"}) # {}

CodexControlsWalk ==
    /\ Scanning("codex") /\ stage = "controls"
    /\ \/ HoldsControl /\ Concludes("rejected")
       \/ ~HoldsControl /\ stage' = "root"
          /\ UNCHANGED <<agent, mountMode, args, at, open, home, dirs, ruling>>

CodexTakes(w) == w \in IF stage = "exec" THEN CodexExecValue ELSE CodexRootValue

\* first_positional passes over an option and the value it consumes.
CodexSkip ==
    /\ Scanning("codex") /\ stage \in {"root", "exec"} /\ at <= Len(args)
    /\ Word \notin {"--", "-i", DashAlone} /\ Dashed(Word)
    /\ Advances(IF CodexTakes(Word) THEN 2 ELSE 1)
    /\ UNCHANGED <<open, home, dirs>>

\* No positional word: an interactive session at the root, a prompt of exec's own.
CodexNone ==
    /\ Scanning("codex") /\ stage \in {"root", "exec"}
    /\ ~(at <= Len(args) /\ Word \notin {"--", "-i"})
    /\ Concludes(IF stage = "root" THEN "rejected" ELSE "accepted")

CodexCommand ==
    /\ Scanning("codex") /\ stage = "root" /\ at <= Len(args)
    /\ ~Dashed(Word) \/ Word = DashAlone
    /\ \/ Word = "exec" /\ stage' = "exec" /\ at' = at + 1
          /\ UNCHANGED <<agent, mountMode, args, open, home, dirs, ruling>>
       \/ Word = "review" /\ Concludes("accepted")
       \/ Word \notin CodexSessions /\ Concludes("rejected")

CodexNestedCommand ==
    /\ Scanning("codex") /\ stage = "exec" /\ at <= Len(args)
    /\ ~Dashed(Word) \/ Word = DashAlone
    /\ Concludes(IF Word \in CodexNested THEN "rejected" ELSE "accepted")

ArgumentsNext ==
    \/ AtEnd
    \/ OmpTerminator \/ OmpReject \/ OmpPass
    \/ ClaudeTerminator \/ ClaudeReject \/ ClaudePass
    \/ CodexControlsWalk \/ CodexSkip \/ CodexNone \/ CodexCommand \/ CodexNestedCommand

ArgumentsSpec == ArgumentsInit /\ [][ArgumentsNext]_argumentVars

-----------------------------------------------------------------------------
(* How the agents read a list. This is what the sources say of them; a word *)
(* is an option, a value of an option before it, a positional word, the     *)
(* terminator, or text behind the terminator.                               *)

\* What an option may consume: nothing, the next word, a next word that is no option,
\* one that is not empty either, or all words to the next option.
Claims(arity, s, j, i) ==
    \/ arity = "one" /\ i = j + 1
    \/ arity = "value_like" /\ i = j + 1 /\ ~Dashed(s[i])
    \/ arity = "optional" /\ i = j + 1 /\ ~Dashed(s[i]) /\ s[i] # ""
    \/ arity = "many" /\ \A k \in j + 1..i : ~Dashed(s[k])

Arity(table, w) ==
    CASE table = "omp" ->
           (CASE w \in OmpRequired -> "one" [] w \in OmpShadowable -> "value_like"
              [] w \in OmpOptional -> "optional" [] OTHER -> "none")
      [] table = "claude" ->
           (CASE w \in ClaudeSingle -> "one" [] w \in ClaudeOptional -> "value_like"
              [] w \in ClaudeVariadic -> "many" [] OTHER -> "none")
      [] table = "codex" ->
           (CASE w \in CodexRootValue -> "one" [] w = "-i" -> "many" [] OTHER -> "none")
      [] table = "exec" ->
           (CASE w \in CodexExecValue -> "one" [] w = "-i" -> "many" [] OTHER -> "none")

\* Codex takes a dash alone for a word.
OptionShaped(table, w) == Dashed(w) /\ ~(table \in {"codex", "exec"} /\ w = DashAlone)

\* What word i is, given what those before it are.
Role(table, s, before, i) ==
    IF \E j \in 1..i - 1 : before[j] = "terminator" THEN "text"
    ELSE IF \E j \in 1..i - 1 :
              before[j] = "option" /\ Claims(Arity(table, s[j]), s, j, i) THEN "value"
    ELSE IF s[i] = "--" THEN "terminator"
    ELSE IF OptionShaped(table, s[i]) THEN "option" ELSE "positional"

Reading(table, s) ==
    LET upTo[n \in 0..Len(s)] ==
          IF n = 0 THEN <<>>
          ELSE LET before == upTo[n - 1] IN Append(before, Role(table, s, before, n))
    IN  upTo[Len(s)]

\* An option that needs a value and is not given one is Codex's own usage error.
Incomplete(table, s, r) ==
    \E i \in DOMAIN s : /\ r[i] = "option" /\ Arity(table, s[i]) = "one"
                        /\ i = Len(s) \/ s[i + 1] = "--"

\* The child gets the adapter's own options in front of the operator's; only a staged
\* mount has to be shown to Claude Code.
Injected ==
    CASE agent = "omp" -> <<"--config", "word">>
      [] agent = "claude" ->
           (IF mountMode = "staging" THEN <<"--add-dir", "word", "--settings", "word">>
            ELSE <<"--settings", "word">>)
      [] agent = "codex" -> <<"-C", "word", "-c", "word">>
Argv == Injected \o args

FirstAt(places) == {i \in places : \A j \in places : i <= j}
At(r, role) == {i \in DOMAIN r : r[i] = role}
\* Options of the operator's, in a reading `r` of the whole list.
OptionsAt(r) == At(r, "option") \ DOMAIN Injected

\* The first word that is no option and no value is the command; Claude Code looks
\* behind the terminator too (claude.rs:65).
CommandAt(table, r) ==
    FirstAt(At(r, "positional") \cup IF table = "claude" THEN At(r, "text") ELSE {})
Command(r) == {Argv[i] : i \in CommandAt(agent, r)}

\* The child would not be the session that was planned.
OmpLeaves(r) ==
    \/ \E i \in OptionsAt(r) :
         \/ Argv[i] \in OmpControls \cup {"--mode=acp"}
         \/ Argv[i] = "--mode" /\ i < Len(Argv) /\ Argv[i + 1] \in RejectedModes
    \/ Command(r) \cap OmpCommands # {}

ClaudeLeaves(r) ==
    \/ \E i \in OptionsAt(r) : Argv[i] \in ClaudeControls
    \/ Command(r) \cap ClaudeCommands # {}

\* What follows `exec` is read again, with the options of exec.
ExecLeaves(s) ==
    LET r == Reading("exec", s) IN
    /\ ~Incomplete("exec", s, r)
    /\ \/ \E i \in At(r, "option") : s[i] \in CodexControls
       \/ \E i \in CommandAt("exec", r) : s[i] \in CodexNested
CodexLeaves(r) ==
    /\ ~Incomplete("codex", Argv, r)
    /\ \/ Command(r) \cap CodexSessions = {}
       \/ \E i \in OptionsAt(r) : Argv[i] \in CodexControls
       \/ \E i \in CommandAt("codex", r) :
            Argv[i] = "exec" /\ ExecLeaves(SubSeq(Argv, i + 1, Len(Argv)))

Leaves(r) == \/ agent = "omp" /\ OmpLeaves(r)
             \/ agent = "claude" /\ ClaudeLeaves(r)
             \/ agent = "codex" /\ CodexLeaves(r)

\* The directories the operator gives Claude Code.
AddedAt(r) ==
    {i \in DOMAIN Argv \ DOMAIN Injected :
        \/ Argv[i] = "--add-dir=word" /\ r[i] = "option"
        \/ r[i] = "value" /\ \E j \in 1..i - 1 :
             Argv[j] = "--add-dir" /\ r[j] = "option" /\ Claims("many", Argv, j, i)}

-----------------------------------------------------------------------------
(* Properties *)

\* Of an accepted list, read by the agent behind the adapter's own options, no word
\* moves the child out of the planned session, as an option, a command or a command
\* of exec's, whatever the words before it consumed; and the directories Claude Code
\* is given are those that were inspected. (args.rs validate, claude.rs
\* scan_passthrough, codex.rs validate_codex_command)
NothingEscapes ==
    ruling = "accepted" =>
        LET r == Reading(agent, Argv) IN
        /\ ~Leaves(r)
        /\ agent = "claude" => {i - Len(Injected) : i \in AddedAt(r)} = dirs

\* A value that looks like a control is not one, and permission to use the home
\* directory is not read from a value or a message. (args.rs:14-16, claude.rs:97-101)
ValuesAreOpaque ==
    agent # "codex" /\ ruling # "scanning" =>
        LET r == Reading(agent, Argv) IN
        /\ ruling = "rejected" =>
             Leaves(r) \/ \E i \in OptionsAt(r) : Argv[i] \in {"--add-dir", "--add-dir="}
        /\ ruling = "accepted" =>
             (home <=> \E i \in OptionsAt(r) : Argv[i] = "--allow-home")
=============================================================================
