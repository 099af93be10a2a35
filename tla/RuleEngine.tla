----------------------------- MODULE RuleEngine -----------------------------
(***************************************************************************)
(* internal/staticbash/rules: what a command spec says of a call.  The     *)
(* words of the call are classified into flags and positionals with the    *)
(* flag definitions found in the spec's own conditions, and the rules are  *)
(* asked in order.                                                         *)
(*                                                                         *)
(* The context of a check: the projects and the scope its PathAllowed and  *)
(* RemoteHostLookup ask, rule_set, and accepted, the nested commands for   *)
(* which its Evaluate answers true.                                        *)
(***************************************************************************)
EXTENDS WriteScope, ProgramCheck

\* What evalCondition, collectFlagDefsFromCondition and AskedBy, below, say of a
\* condition inside another one, where the code calls itself.  In a run these are
\* what they say of a simple condition, one that holds no other; the theorems
\* hold whatever a nested condition says.
CONSTANTS
    nestedCondition(_, _, _),
    nestedDefs(_),
    nestedAsked(_, _, _)

NoParse == [ok |-> FALSE]

HasArg(defs, flag) == flag \in DOMAIN defs /\ defs[flag]

\* Mutant of decomposeCombinedFlags: a flag that takes an argument may stand
\* before others.
decomposeCombinedFlags_AnyOrder(defs, words, i) ==
    LET chars == words[i].chars
        flag(j) == Short(<<chars[j]>>)
        known == \A j \in DOMAIN chars : flag(j) \in DOMAIN defs
        takes == known /\ HasArg(defs, flag(Len(chars))) /\ i < Len(words)
        arg == IF takes THEN words[i + 1] ELSE None
    IN  [ok |-> known /\ (takes => arg # None),
         i |-> IF takes THEN i + 1 ELSE i,
         flags |-> [j \in DOMAIN chars |->
                       [name |-> flag(j), value |-> IF j = Len(chars) THEN arg ELSE None]]]

\* decomposeCombinedFlags on words[i]: its flags, and the index it has moved
\* to.  The index moves even when the decomposition fails at the last flag's
\* argument.
decomposeCombinedFlags(defs, words, i) ==
    LET chars == words[i].chars
        flag(j) == Short(<<chars[j]>>)
        known == \A j \in DOMAIN chars :
                    flag(j) \in DOMAIN defs /\ (j < Len(chars) => ~defs[flag(j)])
        takes == known /\ HasArg(defs, flag(Len(chars))) /\ i < Len(words)
        arg == IF takes THEN words[i + 1] ELSE None
    IN  [ok |-> known /\ (takes => arg # None),
         i |-> IF takes THEN i + 1 ELSE i,
         flags |-> [j \in DOMAIN chars |->
                       [name |-> flag(j), value |-> IF j = Len(chars) THEN arg ELSE None]]]

Flag(name, value) == [name |-> name, value |-> value]

EmptyArgs(words) ==
    [ok |-> TRUE, flags |-> <<>>, positionals |-> <<>>, rawWords |-> words,
     hasDoubleDash |-> FALSE, positionalWordIndices |-> <<>>]

\* The flags found are added, and the loop goes on after them.
WithFlags(parsed, found) ==
    [parsed |-> IF found.ok THEN [parsed EXCEPT !.flags = @ \o found.flags] ELSE NoParse,
     i |-> found.i]

\* One flag s, whose argument, if it takes one, is the word after at.
WithNextWord(words, defs, s, at) ==
    IF HasArg(defs, s) /\ at < Len(words)
    THEN [ok |-> words[at + 1] # None, i |-> at + 1, flags |-> <<Flag(s, words[at + 1])>>]
    ELSE [ok |-> TRUE, i |-> at, flags |-> <<Flag(s, None)>>]

\* The flags at words[i], and the index of the last word used.  A literal word
\* is its token, any other None.
FlagsAt(words, defs, combined, i) ==
    LET s == words[i]
        split == decomposeCombinedFlags(defs, words, i)
        one(name, value) == [ok |-> TRUE, i |-> i, flags |-> <<Flag(name, value)>>]
    IN  IF s.t = "long" /\ s.val # <<>>
        THEN IF HasArg(defs, Long(s.name)) THEN one(Long(s.name), s.val[1]) ELSE one(s, None)
        ELSE IF s.t = "short" /\ combined /\ Len(s.chars) > 1
        THEN IF split.ok THEN split ELSE WithNextWord(words, defs, s, split.i)
        ELSE WithNextWord(words, defs, s, i)

\* One turn of parseArgs' loop at words[i]: the parsed arguments and the index
\* of the last word used.
ParseWord(words, defs, combined, i, parsed) ==
    LET s == words[i]
        step(p) == [parsed |-> p, i |-> i]
    IN  IF s = None THEN step(NoParse)
        ELSE IF s = DashDash /\ ~parsed.hasDoubleDash
        THEN step([parsed EXCEPT !.hasDoubleDash = TRUE])
        ELSE IF isFlag(s) /\ ~parsed.hasDoubleDash
        THEN WithFlags(parsed, FlagsAt(words, defs, combined, i))
        ELSE step([parsed EXCEPT !.positionals = Append(@, s),
                                 !.positionalWordIndices = Append(@, i)])

\* The turn at words[n], of a word the turns before have not used up yet.
ParseStep(words, defs, combined, n, before) ==
    IF ~before.parsed.ok \/ n <= before.i THEN before
    ELSE ParseWord(words, defs, combined, n, before.parsed)

parseArgs(words, defs, combined) ==
    LET upTo[n \in 0..Len(words)] ==
            IF n = 0 THEN [parsed |-> EmptyArgs(words), i |-> 0]
            ELSE ParseStep(words, defs, combined, n, upTo[n - 1])
    IN  upTo[Len(words)].parsed

----------------------------------------------------------------------------
(* A rule is [action, cond]; a condition is a record whose field c is its   *)
(* kind; a custom-rules block is [rules, require_cwd, combined]; a spec is   *)
(* [names, checker, custom].                                                 *)

\* The condition of a rule, in a sequence: always_allow and always_deny have
\* none.
ConditionOf(rule) == IF rule.action \in {"allow", "deny"} THEN rule.cond ELSE <<>>

Conditions(cr) == UNION {Range(ConditionOf(rule)) : rule \in Range(cr.rules)}

Define(flags, hasArg) == [f \in flags |-> hasArg]

\* Definitions collected one after the other: of a flag, the last one counts.
Overriding(defs) ==
    [f \in UNION {DOMAIN defs[i] : i \in DOMAIN defs} |->
        defs[Max({i \in DOMAIN defs : f \in DOMAIN defs[i]})][f]]

\* The definitions found in the conditions of rules, from those in each
\* condition.
RuleDefs(cr, defsOf) ==
    Overriding([i \in DOMAIN cr.rules |->
        IF ConditionOf(cr.rules[i]) = <<>> THEN <<>> ELSE defsOf[ConditionOf(cr.rules[i])[1]]])

simpleDefs(cond) ==
    CASE cond.c = "flag_arg_check" -> Define(cond.names, cond.has_arg)
      [] cond.c = "every_flag_matches" -> [f \in cond.with \cup cond.without |-> f \in cond.with]
      [] OTHER -> <<>>

collectFlagDefsFromCondition(cond) ==
    CASE cond.c = "not" -> IF cond.of = <<>> THEN <<>> ELSE nestedDefs(cond.of[1])
      [] cond.c = "subcommands" ->
            Overriding([i \in DOMAIN cond.with_rules |->
                LET cr == cond.with_rules[i].custom
                IN  IF cond.with_rules[i].ref # <<>> THEN <<>>
                    ELSE RuleDefs(cr, [of \in Conditions(cr) |-> nestedDefs(of)])])
      [] OTHER -> simpleDefs(cond)

collectFlagDefs(cr) ==
    RuleDefs(cr, [cond \in Conditions(cr) |-> collectFlagDefsFromCondition(cond)])

parseCommand(cr, args) == parseArgs(Tail(args), collectFlagDefs(cr), cr.combined)

\* evalHasFlagMatching, exact: the flag itself or, unsplit, --flag=value.
matchesExact(flags, flag) ==
    flag.name \in flags \/ (flag.name.t = "long" /\ Long(flag.name.name) \in flags)

\* matchesFlagPattern: one short flag, or a long flag; a prefix stands for the
\* names that have it.
matchesFlagPattern(pattern, flag) ==
    \/ flag.name.t = "short" /\ Len(flag.name.chars) = 1 /\ flag.name.chars[1] \in pattern.short_chars
    \/ flag.name.t = "long" /\ flag.name.name \in pattern.long_prefixes

\* The positionals after the first one equal to host, without leading `--`s.
RemoteParts(host, parsed) ==
    LET words == parsed.positionals
        first == {i \in DOMAIN words : words[i] = host /\ \A j \in 1..(i - 1) : words[j] # host}
        start == {i \in DOMAIN words : /\ \E f \in first :
                                             f < i /\ \A j \in (f + 1)..(i - 1) : words[j] = DashDash
                                       /\ words[i] # DashDash}
    IN  IF start = {} THEN <<>> ELSE SubSeq(words, CHOOSE i \in start : TRUE, Len(words))

HostsOf(host, ctx) == Range(MatchRemoteHost(ctx.projects, host, ctx.scope.cwd))

\* The nested command evalSshRemoteEval asks about, if it asks at all.
RemoteRequest(host, parsed, ctx) ==
    {[toks |-> RemoteParts(host, parsed), remote |-> TRUE, dirs |-> entry.allow_write_patterns] :
        entry \in {e \in HostsOf(host, ctx) : RemoteParts(host, parsed) # <<>>}}

\* The nested command evalRecurseEval asks about: from the first positional on.
LocalRequest(parsed) ==
    LET from == IF parsed.positionalWordIndices = <<>> THEN 1 ELSE parsed.positionalWordIndices[1]
        toks == SubSeq(parsed.rawWords, from, Len(parsed.rawWords))
    IN  IF toks = <<>> \/ None \in Range(toks) THEN {}
        ELSE {[toks |-> toks, remote |-> FALSE, dirs |-> {}]}

RequestOf(check, target, parsed, ctx) ==
    CASE check = "ssh_remote_eval" -> RemoteRequest(target, parsed, ctx)
      [] check = "recurse_eval" -> LocalRequest(parsed)
      [] OTHER -> {}

evalCheck(check, target, parsed, ctx) ==
    CASE check = "none" -> TRUE
      [] check = "write_check" -> isPathAllowed(ctx.projects, ctx.scope, target)
      [] check \in {"ssh_remote_eval", "recurse_eval"} ->
            RequestOf(check, target, parsed, ctx) \cap ctx.accepted # {}
      [] OTHER -> FALSE

\* The targets of a check: the flag's arguments; every positional, or only
\* the first when the rest is the remote command.
FlagTargets(cond, parsed) ==
    {f.value : f \in {g \in Range(parsed.flags) : g.name \in cond.names}}

PositionalTargets(cond, parsed) ==
    IF cond.check = "ssh_remote_eval" /\ parsed.positionals # <<>>
    THEN {parsed.positionals[1]}
    ELSE Range(parsed.positionals)

evalEveryPositionalPasses(cond, parsed, ctx) ==
    /\ cond.check = "ssh_remote_eval" => parsed.positionals # <<>>
    /\ \A t \in PositionalTargets(cond, parsed) : evalCheck(cond.check, t, parsed, ctx)

evalEveryFlagMatches(cond, parsed) ==
    \A f \in Range(parsed.flags) : f.name \in cond.without \cup cond.with

\* What a subcommand's rules see: the words after it, and no flags.
Remaining(parsed) ==
    [EmptyArgs(SubSeq(parsed.rawWords, parsed.positionalWordIndices[1] + 1, Len(parsed.rawWords)))
        EXCEPT !.positionals = Tail(parsed.positionals)]

EntryFor(cond, sub) == SelectSeq(cond.with_rules, LAMBDA e : sub \in e.names)

\* The spec a subcommand refers to, as custom rules and the words reparsed with
\* its flag definitions; empty unless it has custom rules and the words parse.
Referenced(entry, parsed, ctx) ==
    LET found == LookupCommand(ctx.rule_set, entry.ref[1])
        cr == found[1].custom
    IN  IF found = <<>> THEN {}
        ELSE IF found[1].checker # "custom" THEN {}
        ELSE {sub \in {[cr |-> cr, parsed |->
                            parseArgs(parsed.rawWords, collectFlagDefs(cr), cr.combined)]} : sub.parsed.ok}

\* The rules that decide a subcommand, and the arguments they see.
SubcommandRules(cond, parsed, ctx) ==
    LET entries == EntryFor(cond, parsed.positionals[1])
        rest == Remaining(parsed)
    IN  IF parsed.positionals = <<>> THEN {}
        ELSE IF entries = <<>> THEN {}
        ELSE IF entries[1].ref = <<>> THEN {[cr |-> entries[1].custom, parsed |-> rest]}
        ELSE Referenced(entries[1], rest, ctx)

AllowedWithAnyArgs(cond, parsed) ==
    parsed.positionals # <<>> /\ parsed.positionals[1] \in cond.allowed_with_any_args

----------------------------------------------------------------------------
\* No rule is violated and one of them allows, when the conditions that hold are
\* those of holding.
RulesAllow(cr, holding, ctx) ==
    /\ cr.require_cwd => ctx.scope.cwd # NoPath
    /\ \E rule \in Range(cr.rules) : rule.action \in {"allow", "always_allow"}
    /\ \A rule \in Range(cr.rules) :
          LET holds == Range(ConditionOf(rule)) \subseteq holding
          IN  CASE rule.action = "allow" -> holds
                [] rule.action = "deny" -> ~holds
                [] OTHER -> rule.action # "always_deny"

evalSubcommandCheck(cond, parsed, ctx) ==
    \/ AllowedWithAnyArgs(cond, parsed)
    \/ \E sub \in SubcommandRules(cond, parsed, ctx) :
          RulesAllow(sub.cr, {of \in Conditions(sub.cr) : nestedCondition(of, sub.parsed, ctx)}, ctx)

\* A condition that holds no other one.
simpleCondition(cond, parsed, ctx) ==
    CASE cond.c = "always" -> TRUE
      [] cond.c = "no_args" -> parsed.flags = <<>> /\ parsed.positionals = <<>>
      [] cond.c = "has_double_dash" -> parsed.hasDoubleDash
      [] cond.c = "has_exact" -> \E f \in Range(parsed.flags) : matchesExact(cond.flags, f)
      [] cond.c = "has_pattern" -> \E f \in Range(parsed.flags) : matchesFlagPattern(cond, f)
      [] cond.c = "flag_arg_check" ->
            \A t \in FlagTargets(cond, parsed) : evalCheck(cond.check, t, parsed, ctx)
      [] cond.c = "every_flag_matches" -> evalEveryFlagMatches(cond, parsed)
      [] cond.c = "every_positional_passes" -> evalEveryPositionalPasses(cond, parsed, ctx)
      [] cond.c = "max_positionals" -> Len(parsed.positionals) <= cond.count
      [] OTHER -> FALSE

evalCondition(cond, parsed, ctx) ==
    CASE cond.c = "not" -> ~\A of \in Range(cond.of) : nestedCondition(of, parsed, ctx)
      [] cond.c = "subcommands" -> evalSubcommandCheck(cond, parsed, ctx)
      [] OTHER -> simpleCondition(cond, parsed, ctx)

\* Words that do not parse are allowed nothing.
evaluateCustomRules(cr, parsed, ctx) ==
    /\ parsed.ok
    /\ RulesAllow(cr, {cond \in Conditions(cr) : evalCondition(cond, parsed, ctx)}, ctx)

isAlwaysAllow(cr) ==
    /\ DOMAIN cr.rules = {1}
    /\ \/ cr.rules[1].action = "always_allow"
       \/ /\ cr.rules[1].action = "allow"
          /\ cr.rules[1].cond # <<>> /\ cr.rules[1].cond[1].c = "always"

\* rules.Evaluate.  A spec that always allows does not look at the arguments.
Evaluate(spec, ctx, args) ==
    CASE spec.checker \in {"sed", "awk"} -> runChecker(spec.checker, args)
      [] spec.checker = "custom" ->
            IF isAlwaysAllow(spec.custom)
            THEN spec.custom.require_cwd => ctx.scope.cwd # NoPath
            ELSE evaluateCustomRules(spec.custom, parseCommand(spec.custom, args), ctx)
      [] OTHER -> FALSE

----------------------------------------------------------------------------
\* The nested commands a condition may ask ctx.Evaluate about.
simpleAsked(cond, parsed, ctx) ==
    CASE cond.c = "flag_arg_check" ->
            UNION {RequestOf(cond.check, t, parsed, ctx) : t \in FlagTargets(cond, parsed)}
      [] cond.c = "every_positional_passes" ->
            UNION {RequestOf(cond.check, t, parsed, ctx) : t \in PositionalTargets(cond, parsed)}
      [] OTHER -> {}

AskedBy(cond, parsed, ctx) ==
    CASE cond.c = "not" -> UNION {nestedAsked(of, parsed, ctx) : of \in Range(cond.of)}
      [] cond.c = "subcommands" /\ ~AllowedWithAnyArgs(cond, parsed) ->
            UNION {UNION {nestedAsked(of, sub.parsed, ctx) : of \in Conditions(sub.cr)} :
                      sub \in SubcommandRules(cond, parsed, ctx)}
      [] OTHER -> simpleAsked(cond, parsed, ctx)

AskedAbout(cr, parsed, ctx) ==
    IF ~parsed.ok THEN {} ELSE UNION {AskedBy(cond, parsed, ctx) : cond \in Conditions(cr)}

\* The nested commands the spec asks about.  The code asks in rule order and
\* stops at the first answer that settles the call; the answers have no other
\* effect.
Requests(spec, ctx, args) ==
    IF spec.checker # "custom" \/ isAlwaysAllow(spec.custom) THEN {}
    ELSE AskedAbout(spec.custom, parseCommand(spec.custom, args), ctx)
=============================================================================
