----------------------------- MODULE CallRuling -----------------------------
(***************************************************************************)
(* What the rules say of one call: walker.checkCall from the look-up of    *)
(* the command on.  This is what StaticBash takes as a parameter.          *)
(***************************************************************************)
EXTENDS RuleEngine

Tokens(call) == <<>> \o [i \in DOMAIN call.args |-> LiteralString(call.args[i])]

EvalCtx(rules, projects, scope, accepted) ==
    [rule_set |-> rules, projects |-> projects, scope |-> scope, accepted |-> accepted]

\* The spec decides; without one the builtin checker of that name does.
Allowed(rules, projects, scope, call, accepted) ==
    LET toks == Tokens(call)
        spec == LookupCommand(rules, CommandName(call.args[1]))
    IN  IF spec # <<>>
        THEN Evaluate(spec[1], EvalCtx(rules, projects, scope, accepted), toks)
        ELSE runChecker(Checker(CommandName(call.args[1])), toks)

\* The nested commands the spec asks about.
Asked(rules, projects, scope, call) ==
    LET toks == Tokens(call)
        spec == LookupCommand(rules, CommandName(call.args[1]))
    IN  IF spec = <<>> THEN {}
        ELSE Requests(spec[1], EvalCtx(rules, projects, scope, {}), toks)

----------------------------------------------------------------------------
Word(tok) == [k |-> "word", kids |-> <<[k |-> "lit", v |-> tok]>>]

Call(toks) ==
    [k |-> "call", assigned |-> FALSE, args |-> [i \in DOMAIN toks |-> Word(toks[i])]]

Stmt(cmd) == [k |-> "stmt", bg |-> FALSE, redirs |-> <<>>, cmd |-> <<cmd>>]

\* Joining words and parsing the result: words without blanks are the words of
\* one command, a quoted script is parsed for itself.  Quotes are lost in the
\* joining, so a script among other words is not modelled.
Parsed(toks) ==
    IF Len(toks) = 1 /\ toks[1].t = "script" THEN toks[1].stmts
    ELSE IF \E t \in Range(toks) : t.t = "script" THEN <<>>
    ELSE <<Stmt(Call(toks))>>
=============================================================================
