----------------------------- MODULE StaticBash -----------------------------
(***************************************************************************)
(* The static bash decider: staticbash.Decide, ast.Evaluate and the walk   *)
(* over the syntax tree.  The walk is the code's recursion with its stack  *)
(* written out: a frame per evaluation, and in it the nodes still to be    *)
(* visited.  The evaluation of a nested command (ssh, a wrapper) is a      *)
(* frame of its own that starts with nothing written and nothing matched.  *)
(* What the rules say of a call is CallRuling's Allowed and Asked.         *)
(***************************************************************************)
EXTENDS CallRuling

CONSTANTS
    Configs,            \* the projects of a configuration
    Inputs,             \* hook inputs: tool, payload, script, cwd, root
    Node,               \* syntax nodes, closed under Kids
    Scope,              \* write scopes, closed under NestedScope
    Request,            \* nested commands: tokens, remote, dirs
    ParseCommand(_)         \* the statements of a command line, <<>> when it has none

VARIABLES
    config,     \* the configured projects; fixed
    input,      \* the hook input; fixed
    frames,     \* the evaluations under way, innermost first
    ruleSet,    \* the rule set, resolved once and handed down to nested evaluations
    vote,       \* the vote, with the names of the rules that matched
    cleared     \* the evaluations that answered Allowed (history)

vars == <<config, input, ruleSet, frames, vote, cleared>>

RootScope(in) == [cwd |-> in.cwd, root |-> in.root, dirs |-> {}]

Roots == {in.root : in \in Inputs}

Calls == {n.call : n \in {m \in Node : m.k = "dispatch"}}

NoRequest == [toks |-> <<>>, remote |-> FALSE, dirs |-> {}]

\* What is known of the nodes, scopes and parameters the walk is run on.
ASSUME WalkAssumption ==
    /\ \A n \in Node : Kids(n) \in Seq(Node)
    /\ \A in \in Inputs : in.script \in Seq(Node) /\ RootScope(in) \in Scope
    /\ \A projects \in Configs, root \in Roots, s \in Scope, call \in Calls :
          Asked(resolveRules(projects, root), projects, s, call) \subseteq Request
    /\ \A r \in Request : ParseCommand(r.toks) \in Seq(Node)
    /\ \A r \in Request, s \in Scope : NestedScope(s, r) \in Scope

Outputs == {"RdrOut", "AppOut", "ClbOut", "RdrAll", "AppAll"}

Syntax == {"kids", "redirs", "cmd", "hdoc", "args", "cond", "then", "els", "do", "items",
           "subject", "exp", "orig", "with", "offset", "length"}

\* The fields in which a node of each kind holds other nodes.
SyntaxOf(k) ==
    CASE k \in Containers -> {"kids"}
      [] k = "stmt"  -> {"redirs", "cmd"}
      [] k = "redir" -> {"hdoc"}
      [] k = "call"  -> {"args"}
      [] k = "if"    -> {"cond", "then", "els"}
      [] k = "while" -> {"cond", "do"}
      [] k = "for"   -> {"items", "do"}
      [] k = "case"  -> {"subject", "items"}
      [] k = "param" -> {"exp", "orig", "with", "offset", "length"}
      [] OTHER       -> {}

\* The parser builds sequences of nodes, and the arguments of a call are words.
ASSUME SyntaxAssumption ==
    \A n \in Node : n.k \in Known =>
        /\ DOMAIN n \cap Syntax = SyntaxOf(n.k)
        /\ \A field \in SyntaxOf(n.k) : n[field] \in Seq(Range(n[field]))
        /\ n.k = "call" => \A arg \in Range(n.args) :
              /\ arg.k = "word"
              /\ LET tok == LiteralString(arg)
                 IN  tok.t = "short" => tok.chars \in Seq(Range(tok.chars))
        /\ n.k = "dispatch" => n.call \in Node /\ n.call.k = "call" /\ n.call.args # <<>>

\* What the projects contribute are sequences of specs, and custom rules are
\* sequences of rules with at most one condition.
ASSUME RuleSetAssumption ==
    \A projects \in Configs, root \in Roots :
        LET sets == ContributedSets(projects, root)
        IN  /\ sets \in Seq(Range(sets))
            /\ \A set \in Range(sets) :
                  /\ set \in Seq(Range(set))
                  /\ \A spec \in Range(set) : spec.checker = "custom" =>
                        LET rules == spec.custom.rules
                        IN  /\ rules \in Seq(Range(rules))
                            /\ \A rule \in Range(rules) :
                                  ConditionOf(rule) \in Seq(Range(ConditionOf(rule)))

\* The names the kernel walks for a word used as a path, from the root on.
Named(scope, tok) ==
    LET p == ExpandTilde(AsPath(tok)) IN IF p.base = "abs" THEN p.seg ELSE scope.cwd.seg \o p.seg

\* The word a node names a file with: the target of an output redirect, the
\* command of a call.
NamesFile(n) == (n.k = "redir" /\ n.op \in Outputs) \/ (n.k = "call" /\ n.args # <<>>)

FileWord(n) == LiteralString(IF n.k = "redir" THEN n.word ELSE n.args[1])

\* A command runs in an absolute directory, and its words are finite.
ASSUME PathAssumption ==
    \A s \in {t \in Scope : t.cwd # NoPath} :
        /\ s.cwd.base = "abs"
        /\ \A n \in {m \in Node : NamesFile(m)} :
              LET seg == Named(s, FileWord(n)) IN seg \in Seq(Range(seg))

NewFrame(script, scope, request) ==
    [script |-> script, scope |-> scope, request |-> request, todo |-> script,
     trace |-> <<>>, writtenPaths |-> {}, matched |-> <<>>, asked |-> {}, accepted |-> {}]

Pending == [decision |-> "pending", matched |-> <<>>]

Silent == [decision |-> "silent", matched |-> <<>>]

Init ==
    /\ config \in Configs
    /\ input \in Inputs
    /\ ruleSet = <<>>
    /\ frames = <<>>
    /\ vote = Pending
    /\ cleared = {}

Top == frames[1]

Current == Top.todo[1]
----------------------------------------------------------------------------
shellKeywords == {Name(s) : s \in {"eval", "exec", "source", ".", "trap"}}

Duplicates == {"RdrIn", "DplOut", "DplIn", "Hdoc", "DashHdoc", "WordHdoc"}

IsOutput(n) == n.k = "redir" /\ n.op \in Outputs

Target(n) == LiteralString(n.word)

\* checkRedirect, but for the here-document, which is a child.
checkRedirect(projects, scope, n) ==
    \/ n.op \in Duplicates
    \/ IsOutput(n) /\ Target(n) # None /\ isPathAllowed(projects, scope, Target(n))

\* checkCall before the arguments are walked, but for the written paths.
IsCallable(n) ==
    /\ ~n.assigned
    /\ n.args # <<>>
    /\ CommandName(n.args[1]) # None
    /\ CommandName(n.args[1]) \notin shellKeywords

\* What a node must satisfy by itself.
IsSafe(projects, scope, n) ==
    CASE n.k = "stmt"  -> ~n.bg /\ (n.cmd = <<>> => n.redirs = <<>>)
      [] n.k = "redir" -> checkRedirect(projects, scope, n)
      [] n.k = "call"  -> IsCallable(n)
      [] n.k = "for"   -> n.loop \in {"words", "cstyle"}
      [] OTHER         -> n.k \in Known

Resolved(scope, n) ==
    resolveToAbsolute(scope, IF IsOutput(n) THEN Target(n) ELSE LiteralString(n.args[1]))

\* isWrittenPath: the call names a file written earlier in the script.
isWrittenPath(f, n) ==
    /\ n.k = "call"
    /\ n.args # <<>>
    /\ Resolved(f.scope, n) \in f.writtenPaths \ {NoPath}

recordWrittenPath(f, n) ==
    IF IsOutput(n) THEN f.writtenPaths \cup {Resolved(f.scope, n)} ELSE f.writtenPaths

----------------------------------------------------------------------------
EarlySilent(in) == in.tool # "Bash" \/ in.payload # "command" \/ in.script = <<>>

\* Decide's early returns, malformed input and an unparsable command.
StaySilent ==
    /\ vote = Pending
    /\ frames = <<>>
    /\ EarlySilent(input)
    /\ vote' = Silent
    /\ UNCHANGED <<config, input, ruleSet, frames, cleared>>

Begin ==
    /\ vote = Pending
    /\ frames = <<>>
    /\ ~EarlySilent(input)
    /\ ruleSet' = resolveRules(config, input.root)
    /\ frames' = <<NewFrame(input.script, RootScope(input), NoRequest)>>
    /\ UNCHANGED <<config, input, vote, cleared>>

Walking == frames # <<>> /\ Top.todo # <<>>

\* The node is safe by itself: its children are next.
Visit ==
    /\ Walking
    /\ Current.k # "dispatch"
    /\ IsSafe(config, Top.scope, Current)
    /\ ~isWrittenPath(Top, Current)
    /\ frames' = <<[Top EXCEPT !.todo = Kids(Current) \o Tail(Top.todo),
                               !.trace = Append(Top.trace, Current),
                               !.writtenPaths = recordWrittenPath(Top, Current)]>>
                 \o Tail(frames)
    /\ UNCHANGED <<config, input, ruleSet, vote, cleared>>

AskedOf(f, call) == Asked(ruleSet, config, f.scope, call)

Allows(f, call) == Allowed(ruleSet, config, f.scope, call, f.accepted)

\* The rules of a call ask about a nested command.
Ask ==
    /\ Walking
    /\ Current.k = "dispatch"
    /\ \E r \in AskedOf(Top, Current.call) \ Top.asked :
          frames' = <<NewFrame(ParseCommand(r.toks), NestedScope(Top.scope, r), r)>> \o frames
    /\ UNCHANGED <<config, input, ruleSet, vote, cleared>>

Dispatched ==
    /\ Walking
    /\ Current.k = "dispatch"
    /\ AskedOf(Top, Current.call) \subseteq Top.asked

\* Mutant of Match: the command is credited by its path.
Match_FullName ==
    /\ Dispatched
    /\ Allows(Top, Current.call)
    /\ frames' = <<[Top EXCEPT !.todo = Tail(Top.todo),
                               !.trace = Append(Top.trace, Current),
                               !.matched = Append(Top.matched, LiteralString(Current.call.args[1])),
                               !.asked = {},
                               !.accepted = {}]>>
                 \o Tail(frames)
    /\ UNCHANGED <<config, input, ruleSet, vote, cleared>>

\* The rules allow the call.
Match ==
    /\ Dispatched
    /\ Allows(Top, Current.call)
    /\ frames' = <<[Top EXCEPT !.todo = Tail(Top.todo),
                               !.trace = Append(Top.trace, Current),
                               !.matched = Append(Top.matched, CommandName(Current.call.args[1])),
                               !.asked = {},
                               !.accepted = {}]>>
                 \o Tail(frames)
    /\ UNCHANGED <<config, input, ruleSet, vote, cleared>>

\* Mutants of Answered: any answer is taken for a yes; the caller forgets that
\* it had an answer.
Answered_Trusts(caller, request, allowed) ==
    [caller EXCEPT !.asked = @ \cup {request}, !.accepted = @ \cup {request}]

Answered_Forgets(caller, request, allowed) ==
    [caller EXCEPT !.accepted = IF allowed THEN @ \cup {request} ELSE @]

\* The caller learns what became of the nested command.
Answered(caller, request, allowed) ==
    [caller EXCEPT !.asked = @ \cup {request},
                   !.accepted = IF allowed THEN @ \cup {request} ELSE @]

\* An evaluation ends: the outermost is the vote, another answers its caller.
Return(allowed) ==
    IF Len(frames) = 1
    THEN /\ frames' = <<>>
         /\ vote' = IF allowed THEN [decision |-> "allow", matched |-> Top.matched] ELSE Silent
    ELSE /\ frames' = <<Answered(frames[2], Top.request, allowed)>> \o Tail(Tail(frames))
         /\ UNCHANGED vote

\* Something in the script is not known to be safe.
Reject ==
    /\ \/ /\ Walking
          /\ Current.k # "dispatch"
          /\ ~IsSafe(config, Top.scope, Current) \/ isWrittenPath(Top, Current)
       \/ Dispatched /\ ~Allows(Top, Current.call)
       \/ frames # <<>> /\ Top.script = <<>>
    /\ Return(FALSE)
    /\ UNCHANGED <<config, input, ruleSet, cleared>>

Clear ==
    /\ frames # <<>>
    /\ Top.todo = <<>>
    /\ Top.script # <<>>
    /\ Return(TRUE)
    /\ cleared' = cleared \cup {Top}
    /\ UNCHANGED <<config, input, ruleSet>>

Voted == vote # Pending

Next ==
    \/ StaySilent \/ Begin \/ Visit \/ Ask \/ Match \/ Reject \/ Clear
    \/ Voted /\ UNCHANGED vars

Spec == Init /\ [][Next]_vars

\* The walk is one call of a sequential function: it goes on until it has
\* voted.  Before the vote some step can always be taken (TLC finds no
\* deadlock), so this is weak fairness of the steps, without ENABLED.
FairSpec == Spec /\ (<>[]~Voted => []<><<Next>>_vars)

----------------------------------------------------------------------------
Paths == {Resolved(s, n) : s \in Scope, n \in {m \in Node : IsOutput(m)}}

Names == {CommandName(call.args[1]) : call \in Calls}

Frame ==
    [script : Seq(Node), scope : Scope, request : Request \cup {NoRequest},
     todo : Seq(Node), trace : Seq(Node), writtenPaths : SUBSET Paths,
     matched : Seq(Names), asked : SUBSET Request, accepted : SUBSET Request]

TypeOK ==
    /\ config \in Configs
    /\ input \in Inputs
    /\ ruleSet \in {<<>>, resolveRules(config, input.root)}
    /\ frames \in Seq(Frame)
    /\ vote \in [decision : {"pending", "allow", "silent"}, matched : Seq(Names)]
    /\ cleared \in SUBSET Frame

\* The walk of a frame has lost nothing: what is below the script and below
\* every visited node has been visited or is still to come.
Complete(f) ==
    /\ Range(f.script) \subseteq Range(f.trace) \cup Range(f.todo)
    /\ \A n \in Range(f.trace) : Range(Kids(n)) \subseteq Range(f.trace) \cup Range(f.todo)

\* The evaluation of a nested command answered Allowed.
Vouched(f, r) ==
    \E g \in cleared : /\ g.script = ParseCommand(r.toks)
                       /\ g.scope = NestedScope(f.scope, r)

\* A visited node is safe, a matched call by its rules and by nothing but
\* nested commands that were evaluated and allowed.
Justified(f, n) ==
    IF n.k = "dispatch"
    THEN \E accepted \in SUBSET AskedOf(f, n.call) :
            /\ Allowed(ruleSet, config, f.scope, n.call, accepted)
            /\ \A r \in accepted : Vouched(f, r)
    ELSE IsSafe(config, f.scope, n)

\* "Allowed is true only when every node in the parsed AST cleared the rule
\* set" (ast/evaluate.go:44): an evaluation that answered Allowed has visited
\* everything below its script and every part of it is justified, through
\* nested evaluations however deep; an allow vote is such an evaluation of the
\* whole command.
EveryNodeCleared ==
    /\ \A f \in cleared : f.todo = <<>> /\ Complete(f) /\ \A n \in Range(f.trace) : Justified(f, n)
    /\ vote.decision = "allow" =>
          \E f \in cleared : f.script = input.script /\ f.scope = RootScope(input)

\* No branch, loop body, pattern or expansion is skipped on the way to an
\* allow: whatever syntax a visited node holds was visited too, or is a literal
\* word.  Only the sources of input redirects and array indexes, which the
\* tree does not show, are exempt.
NothingSkipped ==
    \A f \in cleared : \A n \in Range(f.trace) : \A field \in DOMAIN n \cap Syntax :
        \A m \in Range(n[field]) :
            m \in Range(f.trace) \/ (m.k = "word" /\ LiteralString(m) # None)

\* The file the kernel opens for a walk along seg: the existing one, or a new
\* one in the directory all but the last name lead to; NoPath when there is no
\* such directory.  It takes the links one after the other, and ".." from where
\* they lead, whatever the walker makes of the name.
Opened(seg) ==
    IF seg = <<>> \/ EvalSymlinks(seg) # NoPath \/ EvalSymlinks(Front(seg)) = NoPath
    THEN EvalSymlinks(seg)
    ELSE Path("abs", EvalSymlinks(Front(seg)).seg \o <<Last(seg)>>)

Dangling(seg) == EvalSymlinks(seg) = NoPath /\ Opened(seg) # NoPath /\ LinksAt(Opened(seg).seg) # {}

\* The names of which the walker and the kernel think alike: ".." only in an
\* absolute name of an existing file, and no link that leads nowhere.
SeenThrough(scope, tok) ==
    LET seg == Named(scope, tok)
    IN  /\ ~Dangling(seg)
        /\ ".." \in Range(seg) =>
              ExpandTilde(AsPath(tok)) = Path("abs", seg) /\ EvalSymlinks(seg) # NoPath

\* "The walker tracks paths written to during the current command and rejects any
\* later command that resolves to one of those paths"
\* (docs/static-bash-rules-design.md:145): an output redirect and a command later
\* in the same evaluation never name one file, whatever links lead there and be
\* it there or not yet, by names that are seen through and before any `cd`.
NoRunAfterWrite ==
    \A f \in Range(frames) \cup cleared : \A i, j \in DOMAIN f.trace :
        (/\ i < j /\ f.scope.cwd # NoPath
         /\ IsOutput(f.trace[i]) /\ SeenThrough(f.scope, FileWord(f.trace[i]))
         /\ f.trace[j].k = "call" /\ SeenThrough(f.scope, FileWord(f.trace[j]))) =>
            LET written == Opened(Named(f.scope, FileWord(f.trace[i])))
            IN  written = NoPath \/ written # Opened(Named(f.scope, FileWord(f.trace[j])))

\* "the inner command is recursively walked, but with the remote host's allowed
\* write paths instead of the local ones.  Local allow_project_write does not
\* apply across the host boundary" (docs/static-bash-rules-design.md:156): what
\* a remote command, or whatever that wraps, is cleared to write is /dev/null or
\* granted by the host it runs on, never by a project or a pattern of this one.
NoLocalGrantAbroad ==
    \A i \in DOMAIN frames : \A j \in i..Len(frames) :
        (frames[j].request.remote /\ \A k \in i..(j - 1) : ~frames[k].request.remote) =>
            \A n \in Range(frames[i].trace) : IsOutput(n) =>
                \/ AsPath(Target(n)) = DevNull
                \/ \E pattern \in frames[j].request.dirs : GlobMatch(pattern, AsPath(Target(n)))

NamesOf(set) == UNION {spec.names : spec \in Range(set)}

NamesOnce(set) == \A i, j \in DOMAIN set : i # j => set[i].names \cap set[j].names = {}

\* What the closest project says of a command is not weakened by the broader
\* ones: the last contributed set, if it names a command once, rules every
\* command it names, alone or in a group with others.
ClosestSetDecides ==
    LET sets == ContributedSets(config, input.root)
    IN  (frames # <<>> /\ sets # <<>> /\ NamesOnce(Last(sets))) =>
            \A name \in NamesOf(Last(sets)) :
                LookupCommand(ruleSet, name) = LookupCommand(Last(sets), name)

\* "later entries overriding earlier ones (per command name)"
\* (rules/rules.go:50): a command is ruled by the last set that names it.
LastSetDecides ==
    LET sets == ContributedSets(config, input.root)
        naming(name) == {i \in DOMAIN sets : name \in NamesOf(sets[i])}
    IN  frames # <<>> => \A name \in NamesOf(ruleSet) : \E i \in naming(name) :
            /\ \A j \in naming(name) : j <= i
            /\ LookupCommand(ruleSet, name) = LookupCommand(sets[i], name)

SedNames == {Name(s) : s \in {"sed", "gsed"}}
AwkNames == {Name(s) : s \in {"awk", "gawk", "mawk", "nawk"}}
Readers == SedNames \cup AwkNames

\* The call is one of sed or awk, and its program has passed their checker.
CheckedCall(call) ==
    LET name == CommandName(call.args[1])
    IN  \/ name \in SedNames /\ sedCheck(Tokens(call))
        \/ name \in AwkNames /\ awkCheck(Tokens(call))

\* "Returns nil when no project contributes rules; the AST walker then has
\* nothing to match" (staticbash/evaluate.go:53).  Not nothing: every call in a
\* command line that is allowed then is one of a program with a checker of its
\* own, and that checker has passed it.
UnruledCallsAreChecked ==
    ContributedSets(config, input.root) = <<>> =>
        /\ Range(vote.matched) \subseteq Readers
        /\ \A f \in cleared : \A n \in Range(f.trace) : n.k = "dispatch" => CheckedCall(n.call)

\* A rule of a spec lists flags, and no other rule says otherwise of which of
\* them take arguments.  Where clusters are split, a short flag is one letter.
ListsFlags(cr, list) ==
    /\ [action |-> "allow", cond |-> <<list>>] \in Range(cr.rules)
    /\ list.c = "every_flag_matches"
    /\ \A rule \in Range(cr.rules) : \A cond \in Range(ConditionOf(rule)) :
          LET defs == collectFlagDefsFromCondition(cond)
          IN  \A flag \in DOMAIN defs \cap (list.with \cup list.without) :
                 defs[flag] = (flag \in list.with)
    /\ cr.combined => \A flag \in list.with \cup list.without :
          flag.t = "short" => Len(flag.chars) = 1

\* The flags in a word: the letters of a cluster, the name of `--name=value`,
\* or the word itself.
FlagsIn(word, list, combined) ==
    CASE word.t = "short" /\ combined /\ Len(word.chars) > 1 ->
            [j \in DOMAIN word.chars |-> Short(<<word.chars[j]>>)]
      [] word.t = "long" /\ word.val # <<>> /\ Long(word.name) \in list.with -> <<Long(word.name)>>
      [] OTHER -> <<word>>

HasValue(word) == word.t = "long" /\ word.val # <<>>

\* With the arguments of flags at args: is the word at i past a `--`, is it a
\* flag, a flag that takes the word after it, or an operand?
Ended(words, args, i) == \E j \in 1..i : j \notin args /\ words[j] = DashDash

FlagAt(words, args, i) ==
    i \in DOMAIN words \ args /\ isFlag(words[i]) /\ ~Ended(words, args, i)

Awaits(list, combined, words, args, i) ==
    /\ FlagAt(words, args, i)
    /\ ~HasValue(words[i])
    /\ Last(FlagsIn(words[i], list, combined)) \in list.with

OperandAt(words, args, i) ==
    /\ i \in DOMAIN words \ args
    /\ ~FlagAt(words, args, i)
    /\ words[i] = DashDash => Ended(words, args, i - 1)

\* The conditions all of which must hold for the spec to allow a call.
Required(cr) ==
    UNION {Range(rule.cond) : rule \in {r \in Range(cr.rules) : r.action = "allow"}}

Checks(cr, kind) == {cond \in Required(cr) : cond.c = kind /\ cond.check = "write_check"}

\* The words of a call as a command reads them whose flags are those of the
\* list: only listed flags occur, in a cluster only the last one takes an
\* argument, and the arguments and operands that rules check for writing are in
\* writable.
ReadAs(cr, list, words, args, writable) ==
    LET flags(i) == FlagsIn(words[i], list, cr.combined)
        checked(flag) == \E cond \in Checks(cr, "flag_arg_check") : flag \in cond.names
    IN  \A i \in DOMAIN words :
          /\ words[i] # None
          /\ i \in args <=> Awaits(list, cr.combined, words, args, i - 1)
          /\ i \in args /\ checked(Last(flags(i - 1))) => words[i] \in writable
          /\ FlagAt(words, args, i) =>
                /\ Range(flags(i)) \subseteq list.with \cup list.without
                /\ \A j \in DOMAIN flags(i) : flags(i)[j] \in list.with => j = Len(flags(i))
                /\ (/\ HasValue(words[i])
                    /\ Long(words[i].name) \in list.with
                    /\ checked(Long(words[i].name))) => words[i].val[1] \in writable
          /\ OperandAt(words, args, i) /\ Checks(cr, "every_positional_passes") # {} =>
                words[i] \in writable

\* A command whose rules list flags and check operands (rules/engine.go) is only
\* allowed when what it will make of its own words is listed and checked; no flag
\* passes as the argument of another, in a cluster or behind `--`.
OnlyListedFlags ==
    \A f \in cleared : \A n \in {m \in Range(f.trace) : m.k = "dispatch"} :
        \A spec \in Range(LookupCommand(ruleSet, CommandName(n.call.args[1]))) :
            spec.checker = "custom" =>
                LET words == Tail(Tokens(n.call))
                    values == {w.val[1] : w \in {u \in Range(words) : HasValue(u)}}
                    writable == {w \in Range(words) \cup values : isPathAllowed(config, f.scope, w)}
                IN  \A list \in Required(spec.custom) : ListsFlags(spec.custom, list) =>
                        \E args \in SUBSET DOMAIN words :
                            ReadAs(spec.custom, list, words, args, writable)

\* Every Bash call is answered: nested commands end, and no evaluation waits
\* for an answer it has had.
EveryCommandIsAnswered == <>Voted

----------------------------------------------------------------------------
(***************************************************************************)
(* The inductive invariant behind EveryNodeCleared, NoRunAfterWrite and    *)
(* NoLocalGrantAbroad.                                                     *)
(***************************************************************************)

\* What an evaluation has visited is justified and loses nothing.
Sound(f) == Complete(f) /\ \A n \in Range(f.trace) : Justified(f, n)

\* Answers are collected for the call at hand only, and a yes was earned.
Asking(f) ==
    /\ f.accepted \subseteq f.asked
    /\ \A r \in f.accepted : Vouched(f, r)
    /\ f.asked # {} => /\ f.todo # <<>>
                       /\ f.todo[1].k = "dispatch"
                       /\ f.asked \subseteq AskedOf(f, f.todo[1].call)

\* The written paths are those of the output redirects so far, and no later
\* call resolves to one.
Recorded(f) ==
    /\ \A i \in DOMAIN f.trace :
          IsOutput(f.trace[i]) => Resolved(f.scope, f.trace[i]) \in f.writtenPaths
    /\ \A i, j \in DOMAIN f.trace :
          i < j /\ IsOutput(f.trace[i]) /\ f.trace[j].k = "call" =>
              \/ Resolved(f.scope, f.trace[j]) = NoPath
              \/ Resolved(f.scope, f.trace[j]) # Resolved(f.scope, f.trace[i])

\* One evaluation was started for the call another one is at.
CalledBy(callee, caller) ==
    /\ caller.todo # <<>>
    /\ caller.todo[1].k = "dispatch"
    /\ callee.request \in AskedOf(caller, caller.todo[1].call)
    /\ callee.scope = NestedScope(caller.scope, callee.request)
    /\ callee.script = ParseCommand(callee.request.toks)

OfInput(f) == f.script = input.script /\ f.scope = RootScope(input)

\* A remote evaluation, and all it wraps, has no directory.
NoRemoteCwd(i) == (\E j \in i..Len(frames) : frames[j].request.remote) => frames[i].scope.cwd = NoPath

\* Without rules only the commands with a checker match, and the rules are
\* those of the input.
UnruledInv ==
    /\ ContributedSets(config, input.root) = <<>> =>
            /\ \A i \in DOMAIN frames : Range(frames[i].matched) \subseteq Readers
            /\ Range(vote.matched) \subseteq Readers
    /\ cleared # {} => ruleSet = resolveRules(config, input.root)

WalkInv ==
    /\ TypeOK
    /\ frames # <<>> => /\ vote = Pending
                        /\ ruleSet = resolveRules(config, input.root)
                        /\ OfInput(frames[Len(frames)])
    /\ frames = <<>> /\ vote = Pending => cleared = {}
    /\ \A i \in DOMAIN frames : Sound(frames[i]) /\ Asking(frames[i]) /\ Recorded(frames[i])
    /\ \A i \in DOMAIN frames : i + 1 \in DOMAIN frames => CalledBy(frames[i], frames[i + 1])
    /\ \A i \in DOMAIN frames : NoRemoteCwd(i) /\ "cwd" \in DOMAIN frames[i].scope
    /\ \A f \in cleared : f.todo = <<>> /\ Sound(f) /\ Recorded(f)
    /\ vote.decision = "allow" => \E f \in cleared : OfInput(f)
=============================================================================
