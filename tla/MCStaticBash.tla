---------------------------- MODULE MCStaticBash ----------------------------
EXTENDS StaticBash

TheHome == Path("abs", <<"home">>)

\* /p/link leads to the file /p/out and /p/dir to a directory; /p/later leads to
\* a file that is not there.
TheLinks == {[from |-> <<"p", "link">>, to |-> <<"p", "out">>],
             [from |-> <<"p", "dir">>, to |-> <<"p", "a", "b">>],
             [from |-> <<"p", "later">>, to |-> <<"p", "new">>]}

TheMissing == {<<"p", "new">>, <<"p", "a", "b", "new">>}

----------------------------------------------------------------------------
\* Specs: a command that may do anything, one whose flags are listed and whose
\* operands are written, a denied flag, subcommands, ssh and a wrapper.
Rule(action, cond) == [action |-> action, cond |-> cond]
Custom(rs, combined) == [rules |-> rs, require_cwd |-> FALSE, combined |-> combined]
Spec1(name, custom) == [names |-> {Name(name)}, checker |-> "custom", custom |-> custom]

AlwaysAllow == Custom(<<Rule("always_allow", <<>>)>>, FALSE)

Listed(without, with) ==
    Rule("allow", <<[c |-> "every_flag_matches", without |-> without, with |-> with]>>)

EachPositional(check) ==
    Rule("allow", <<[c |-> "every_positional_passes", check |-> check]>>)

N == Short(<<"n">>)
O == Short(<<"o">>)
X == Short(<<"x">>)

EchoSpec == [Spec1("echo", AlwaysAllow) EXCEPT !.names = {Name("echo"), Name("cat")}]

CpSpec == Spec1("cp",
    [Custom(<<Listed({N, Long("--all")}, {O, Long("--to")}), EachPositional("write_check"),
              Rule("allow", <<[c |-> "flag_arg_check", names |-> {O, Long("--to")},
                               has_arg |-> TRUE, check |-> "write_check"]>>)>>, TRUE)
        EXCEPT !.require_cwd = TRUE])

FindSpec == Spec1("find",
    Custom(<<Rule("deny", <<[c |-> "has_exact", flags |-> {X, Long("--exec")}]>>),
             Rule("deny", <<[c |-> "has_pattern", short_chars |-> {"o"}, long_prefixes |-> {"--out"}]>>),
             Rule("allow", <<[c |-> "max_positionals", count |-> 1]>>)>>, FALSE))

SshSpec == Spec1("ssh", Custom(<<Listed({N}, {}), EachPositional("ssh_remote_eval")>>, TRUE))

TimeoutSpec == Spec1("timeout", Custom(<<EachPositional("recurse_eval")>>, FALSE))

Entry(name, custom, ref) == [names |-> {Name(name)}, custom |-> custom, ref |-> ref]

GitSpec == Spec1("git",
    Custom(<<Rule("allow", <<[c |-> "subcommands", allowed_with_any_args |-> {Name("status")},
                with_rules |-> <<
                    Entry("tag", Custom(<<Rule("allow", <<[c |-> "no_args"]>>)>>, FALSE), <<>>),
                    Entry("ssh", AlwaysAllow, <<Name("ssh")>>),
                    Entry("sed", AlwaysAllow, <<Name("sed")>>)>>]>>)>>, FALSE))

TestSpec == Spec1("test",
    Custom(<<Rule("allow", <<[c |-> "not", of |-> <<[c |-> "has_double_dash"]>>]>>),
             Rule("always_deny", <<>>)>>, FALSE))

SedSpec == [names |-> {Name("sed")}, checker |-> "sed", custom |-> AlwaysAllow]

TheDefaultRules == <<EchoSpec, CpSpec, FindSpec, SshSpec, TimeoutSpec, GitSpec, TestSpec, SedSpec>>

\* A later set: its own idea of cp, and one of two names of a spec above.
LocalRules ==
    <<Spec1("cp", Custom(<<Rule("always_deny", <<>>)>>, FALSE)), Spec1("cat", AlwaysAllow)>>

\* A set that rules two commands together.
PairRules == <<[Spec1("cp", AlwaysAllow) EXCEPT !.names = {Name("cp"), Name("find")}]>>

----------------------------------------------------------------------------
Below(dir) == Path("abs", dir \o <<"**">>)

Block(source, rs, projectWrite, patterns) ==
    [source |-> source, rule_set |-> rs, project_write |-> projectWrite,
     write_patterns |-> patterns,
     remote_hosts |-> <<[host_patterns |-> {Name("web")}, allow_write_patterns |-> {Below(<<"tmp">>)}],
                        [host_patterns |-> {Name("db")}, allow_write_patterns |-> {}]>>]

Project(patterns, blocks) == [path_patterns |-> patterns, rules |-> blocks, classifier |-> <<>>]

Everywhere == {Below(<<>>)}
Here == {Below(<<"p">>)}

TheConfigs ==
    {<<>>,
     <<Project(Everywhere, <<Block("default", <<>>, TRUE, {})>>)>>,
     <<Project(Everywhere, <<Block("default", <<>>, FALSE, {Below(<<"tmp">>)})>>),
       Project(Here, <<Block("custom", LocalRules, FALSE, {})>>)>>,
     <<Project(Everywhere, <<Block("default", <<>>, TRUE, {})>>),
       Project(Here, <<Block("custom", PairRules, FALSE, {})>>),
       Project(Here, <<Block("custom", LocalRules, FALSE, {})>>)>>,
     <<Project(Here, <<>>), Project(Everywhere, <<Block("unset", <<>>, TRUE, {})>>)>>}

----------------------------------------------------------------------------
C(name, toks) == Call(<<Name(name)>> \o toks)
Run(name, toks) == Stmt(C(name, toks))

Tmp == Path("abs", <<"tmp", "x">>)
Out == Name("out")
Link == Path("abs", <<"p", "link">>)

Redir(op, tok) == [k |-> "redir", op |-> op, word |-> Word(tok), hdoc |-> <<>>]
WithRedir(stmt, r) == [stmt EXCEPT !.redirs = <<r>>]
Write(tok) == WithRedir(Run("echo", <<>>), Redir("RdrOut", tok))

Echo == Run("echo", <<>>)
Bare(k, kids) == [k |-> k, kids |-> kids]
Of(k, kids) == Stmt(Bare(k, kids))
Arg(part) == Stmt([Call(<<Name("echo")>>) EXCEPT !.args = Append(@, Bare("word", <<part>>))])
WordOf(stmt) == Bare("word", <<Bare("cmdsubst", <<stmt>>)>>)
If(cond, then, els) == [k |-> "if", cond |-> <<cond>>, then |-> <<then>>, els |-> els]
Param(field, kid) ==
    [[k |-> "param", exp |-> <<>>, orig |-> <<>>, with |-> <<>>, offset |-> <<>>, length |-> <<>>]
        EXCEPT ![field] = <<kid>>]
Hdoc(stmt) == [Redir("Hdoc", None) EXCEPT !.hdoc = <<WordOf(stmt)>>]

\* Every place of the syntax a statement can stand in.
Places(s) ==
    {s, Of("group", <<Echo, s>>), Of("binary", <<Echo, s>>), Of("time", <<s>>),
     Stmt(If(s, Echo, <<>>)), Stmt(If(Echo, s, <<>>)),
     Stmt(If(Echo, Echo, <<If(Echo, s, <<>>)>>)),
     Stmt([k |-> "while", cond |-> <<Echo>>, do |-> <<s>>]),
     Stmt([k |-> "for", loop |-> "words", items |-> <<WordOf(s)>>, do |-> <<Echo>>]),
     Stmt([k |-> "for", loop |-> "cstyle", items |-> <<Bare("expr", <<WordOf(s)>>)>>, do |-> <<Echo>>]),
     Stmt([k |-> "for", loop |-> "words", items |-> <<>>, do |-> <<s>>]),
     Stmt([k |-> "case", subject |-> <<WordOf(s)>>, items |-> <<>>]),
     Stmt([k |-> "case", subject |-> <<Word(Out)>>, items |-> <<Bare("item", <<WordOf(s), Echo>>)>>]),
     Stmt([k |-> "case", subject |-> <<Word(Out)>>, items |-> <<Bare("item", <<Word(Out), s>>)>>]),
     Of("test", <<Bare("expr", <<WordOf(s)>>)>>), Of("arithm", <<WordOf(s)>>),
     Of("let", <<WordOf(s)>>),
     Arg(Bare("cmdsubst", <<s>>)), Arg(Bare("procsubst", <<s>>)),
     Arg(Bare("dbl", <<Bare("cmdsubst", <<s>>)>>)), Arg(Bare("arithexp", <<WordOf(s)>>)),
     WithRedir(Echo, Hdoc(s))}
    \cup {Arg(Param(field, WordOf(s))) : field \in {"exp", "orig", "with", "offset", "length"}}

\* What the walker turns down wherever it stands.
Refused ==
    {Run("rm", <<>>), Run("eval", <<>>), [Echo EXCEPT !.bg = TRUE], Of("funcdecl", <<Echo>>),
     Stmt([C("echo", <<>>) EXCEPT !.assigned = TRUE]), Stmt([C("echo", <<>>) EXCEPT !.args = <<>>]),
     WithRedir(Echo, Redir("RdrInOut", Out)), WithRedir(Echo, Redir("RdrOut", None)),
     Arg([k |-> "unknown"]), [Echo EXCEPT !.cmd = <<>>],
     Stmt([C("x", <<>>) EXCEPT !.args = <<Bare("word", <<[k |-> "brace"]>>)>>])}

Harmless == {WithRedir(Echo, Redir("RdrIn", Tmp)), WithRedir(Echo, Redir("DplOut", Out)),
             Write(DevNull), Run("cat", <<>>), Run("gsed", <<>>),
             Stmt(Call(<<Path("abs", <<"bin", "echo">>)>>))}

\* One file by several names, there or not yet: through a link to it, through
\* one to its directory, and out of that directory again.
New == Path("rel", <<"a", "b", "new">>)
Aliases == {New, Path("rel", <<"dir", "new">>), Path("abs", <<"p", "dir", "new">>), Name("new"),
            Name("later"), Path("abs", <<"p", "dir", "..", "b">>), Path("rel", <<"a", "b">>),
            Path("rel", <<"dir", "..", "b">>)}

WriteThenRun ==
    {<<w, Stmt(Call(<<name>>))>> :
        w \in (UNION {Places(Write(t)) : t \in {Out}}) \cup {Write(Link), Write(Tmp)},
        name \in {Out, Link, Path("home", <<"out">>), Tmp}}
    \cup {<<Write(Tmp), Write(Out), Stmt(Call(<<Out>>))>>}
    \cup {<<Write(written), Stmt(Call(<<name>>))>> : written, name \in Aliases}

Script(stmts) == [t |-> "script", stmts |-> stmts]

\* Commands handed to another host or to a wrapper.
Inner == {Write(DevNull), Write(Tmp), Write(Out), Run("cp", <<Out>>), Run("rm", <<>>),
          Run("timeout", <<Script(<<Write(Tmp)>>)>>), Run("ssh", <<Name("db"), Name("echo")>>)}

Nesting ==
    UNION {{Run("ssh", <<Name("web"), Script(<<s>>)>>), Run("ssh", <<Name("db"), Script(<<Echo, s>>)>>),
            Run("ssh", <<N, DashDash, Name("web"), DashDash, DashDash, Script(<<s>>)>>),
            Run("timeout", <<Script(<<s>>)>>), Run("timeout", <<Script(<<s>>), Name("echo")>>),
            Run("git", <<Name("ssh"), Name("web"), Script(<<s>>)>>)} : s \in Inner}
    \cup {Run("ssh", <<Name("nowhere"), Name("echo")>>), Run("ssh", <<>>), Run("ssh", <<Name("web")>>),
          Run("timeout", <<Name("timeout"), Name("echo")>>), Run("timeout", <<N>>)}

----------------------------------------------------------------------------
CpWords == {N, O, X, Short(<<"n", "o">>), Short(<<"o", "n">>), Long("--all"), LongEq("--to", Tmp),
            Long("--to"), LongEq("--all", Tmp), DashDash, Out, Tmp, None}

WordFor(tok) == IF tok = None THEN WordOf(Echo) ELSE Word(tok)

CpCall(toks) ==
    [Call(<<Name("cp")>>) EXCEPT !.args = @ \o [i \in DOMAIN toks |-> WordFor(toks[i])]]

CpCalls == {CpCall(toks) : toks \in UNION {[1..n -> CpWords] : n \in 0..2}}
           \cup {CpCall(<<a, b, Out>>) : a, b \in CpWords}

Others ==
    {Run("find", <<t>>) : t \in {X, Long("--exec"), LongEq("--exec", Out), O, Long("--out"), N, Out}}
    \cup {Run("find", <<Out, Tmp>>), Run("test", <<>>), Run("test", <<DashDash>>), Run("git", <<>>)}
    \cup {Run("git", <<Name(sub)>> \o rest) : sub \in {"status", "tag", "sed", "push"},
                                           rest \in {<<>>, <<Out>>}}

\* sed commands: their text, whether they only read, whether they take the
\* rest of the line.
Cmd(text, reads, line) == [text |-> text, reads |-> reads, line |-> line]

SedCommands ==
    {Cmd(<<"p">>, TRUE, FALSE),
     Cmd(<<"s", "/", "a", "/", "\\", "/", "/", "g">>, TRUE, FALSE),
     Cmd(<<"s", "/", "a", "/", "b", "/", "w", " ", "f">>, FALSE, TRUE),
     Cmd(<<"1", "~", "2", ",", "$", "!", "y", "/", "w", "/", "e", "/">>, TRUE, FALSE),
     Cmd(<<"/", ";", "w", "/", "{", "d", "}">>, TRUE, FALSE),
     Cmd(<<"\\", "x", "w", "x", "q">>, TRUE, FALSE),
     Cmd(<<"a", "\\", "w">>, TRUE, TRUE),
     Cmd(<<"b", " ", "w">>, TRUE, FALSE),
     Cmd(<<"r", " ", "w">>, TRUE, TRUE),
     Cmd(<<"w", " ", "f">>, FALSE, TRUE),
     Cmd(<<"s", "/", "a">>, FALSE, TRUE)}

Joined(a, sep, b) == [text |-> a.text \o <<sep>> \o b.text, reads |-> a.reads /\ b.reads]

SedPrograms ==
    SedCommands
    \cup {Joined(a, NL, b) : a, b \in SedCommands}
    \cup {Joined(a, ";", b) : a \in {c \in SedCommands : ~c.line}, b \in SedCommands}

Prog(text) == [t |-> "prog", text |-> text]

SedCalls == {C("sed", <<Prog(p.text)>>) : p \in SedPrograms}

SedOptions ==
    {C("sed", <<a, Prog(<<"p">>)>>) : a \in {N, Short(<<"e">>), Short(<<"n", "i">>), Long("--in-place"),
                                            Short(<<"f">>), Out}}
    \cup {C("sed", <<Short(<<"e">>)>>), C("sed", <<Short(<<"e">>), Prog(<<"w">>)>>)}

AwkPrograms ==
    {<<"identifier">>, <<"system">>, <<"identifier", ">", ">", "quote">>, <<">", "=", "1">>,
     <<">", " ", "1">>, <<">", " ", "quote">>, <<"|", " ", "quote">>, <<"/", "|", "/">>}

AwkCalls ==
    {C("awk", opts \o <<Prog(p), Out>>) :
        p \in AwkPrograms, opts \in {<<>>, <<Short(<<"e">>)>>, <<Short(<<"F">>), Out>>}}
    \cup {C("awk", <<Short(<<"f">>), Out>>), C("awk", <<>>)}

Alone(calls) == {<<Stmt(c)>> : c \in calls}

Commands ==
    UNION {{<<place>> : place \in Places(s)} : s \in {Echo, Run("rm", <<>>)}}
    \cup {<<s>> : s \in Refused \cup Harmless \cup Nesting \cup Others}
    \cup WriteThenRun
    \cup Alone(CpCalls \cup SedCalls \cup SedOptions \cup AwkCalls)

----------------------------------------------------------------------------
P == Path("abs", <<"p">>)

Input(tool, payload, script, cwd, root) ==
    [tool |-> tool, payload |-> payload, script |-> script, cwd |-> cwd, root |-> root]

TheInputs ==
    {Input("Bash", "command", script, P, P) : script \in Commands \cup {<<>>}}
    \cup {Input("Bash", payload, <<>>, P, P) : payload \in {"empty", "malformed", "blank"}}
    \cup {Input("Read", "command", <<Echo>>, P, P),
          Input("Bash", "command", <<Run("cp", <<Out>>)>>, NoPath, P),
          Input("Bash", "command", <<Write(Out)>>, NoPath, P)}

TheScope ==
    LET dirs == {{}, {Below(<<"tmp">>)}}
        step(S) == S \cup {NestedScope(s, r) : s \in S, r \in [remote : BOOLEAN, dirs : dirs]}
    IN  step(step({RootScope(in) : in \in TheInputs}))

\* What a wrapper may be asked to run: the end of its own command line.
Ends(call) ==
    LET toks == Tokens(call) IN {SubSeq(toks, i, Len(toks)) : i \in 2..Len(toks)}

Successors(n) ==
    Range(Kids(n))
    \cup (IF n.k = "dispatch" THEN UNION {Range(Parsed(toks)) : toks \in Ends(n.call)} ELSE {})

Depth == 16

\* The nodes within a depth of the inputs, and those at that depth.
Reach[d \in 0..Depth] ==
    IF d = 0 THEN LET start == UNION {Range(in.script) : in \in TheInputs}
                  IN  [all |-> start, new |-> start]
    ELSE LET before == Reach[d - 1]
             new == (UNION {Successors(n) : n \in before.new}) \ before.all
         IN  [all |-> before.all \cup new, new |-> new]

TheNode == Reach[Depth].all

TheRequest ==
    [toks : UNION {Ends(n.call) : n \in {m \in TheNode : m.k = "dispatch"}},
     remote : {FALSE}, dirs : {{}}]
    \cup [toks : UNION {Ends(n.call) : n \in {m \in TheNode : m.k = "dispatch"}},
          remote : {TRUE}, dirs : {{}, {Below(<<"tmp">>)}}]

----------------------------------------------------------------------------
DispatchedBy(f, spec) ==
    {n \in Range(f.trace) : n.k = "dispatch"
        /\ LookupCommand(ruleSet, CommandName(n.call.args[1])) = <<spec>>}


----------------------------------------------------------------------------
\* The constants of the run.  TLC evaluates a definition of the model once, and
\* the definition a constant is replaced by each time: these are only names.
MCHome == TheHome
MCLinks == TheLinks
MCMissing == TheMissing
MCDefaultRules == TheDefaultRules
MCConfigs == TheConfigs
MCInputs == TheInputs
MCScope == TheScope
MCNode == TheNode
MCRequest == TheRequest

\* The conditions inside conditions are simple ones: TLC stops at any other.
IsSimple(cond) == Assert(cond.c \notin {"not", "subcommands"}, "a condition nested twice")
MCNestedCondition(cond, parsed, ctx) == IsSimple(cond) /\ simpleCondition(cond, parsed, ctx)
MCNestedDefs(cond) == IF IsSimple(cond) THEN simpleDefs(cond) ELSE <<>>
MCNestedAsked(cond, parsed, ctx) == IF IsSimple(cond) THEN simpleAsked(cond, parsed, ctx) ELSE {}
=============================================================================
