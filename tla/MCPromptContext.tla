-------------------------- MODULE MCPromptContext --------------------------
EXTENDS PromptContext, TLC

TheHome == Path("abs", <<"home">>)
App == Path("abs", <<"p", "app">>)
Alias == Path("abs", <<"w">>)
In(dir, names) == Path(dir.base, dir.seg \o names)

Link(from, to) == [from |-> from.seg, to |-> to.seg]

\* The project by another name, a way out of it, and one CLAUDE.md by two names.
TheLinks ==
    {Link(Alias, App), Link(In(App, <<"out">>), Path("abs", <<"etc">>)),
     Link(Path("abs", <<"p", "CLAUDE.md">>), In(App, <<"CLAUDE.md">>))}

\* Two files a call is to create, one of them behind a link.
TheMissing == {In(App, <<"x">>).seg, <<"etc", "n">>}

----------------------------------------------------------------------------
Block(dirs, deny) == [state |-> "text", has |-> TRUE, dirs |-> dirs, deny |-> deny]
Bare(state) == [state |-> state, has |-> FALSE, dirs |-> {}, deny |-> {}]
TheAbsent == Bare("absent")

Managed == Path("abs", <<"etc", "claude-code", "managed-settings.json">>)
TheManagedSettings == <<Managed>>

TheSettings ==
    (Managed :> {Bare("text")}) @@
    (In(TheHome, <<".claude", "settings.json">>) :>
        {Block({Path("abs", <<"shared">>)}, {"read secrets"}), Bare("malformed")}) @@
    (In(App, <<".claude", "settings.json">>) :>
        {TheAbsent, Block({Path("abs", <<"etc">>)}, {"push $USER/"})}) @@
    (In(App, <<".claude", "settings.local.json">>) :>
        {TheAbsent, Block({Path("home", <<"notes">>)}, {})})

----------------------------------------------------------------------------
\* Words, with who says them.
Word(w, by) == [t |-> "word", w |-> w, by |-> by]
Val(v) == [k |-> "text", v |-> v, long |-> FALSE]
LongVal(v) == [k |-> "text", v |-> v, long |-> TRUE]
ListOf(v) == [k |-> "list", v |-> v, long |-> FALSE]
Field(key, val) == [key |-> key, val |-> val]
Object(fields) == [object |-> TRUE, long |-> \E i \in DOMAIN fields : fields[i].val.long, fields |-> fields]
Arg(key, w) == Field(key, Val(Word(w, "call")))

FileIn(path) == Object(<<Arg("content", "text"), Field("file_path", Val(path))>>)
BashIn(command) == Object(<<Arg("command", command), Field("description", Val(Word("harmless", "model")))>>)

Block1(k, says, name, in) == [k |-> k, says |-> says, name |-> name, in |-> in]
NoIn == Object(<<>>)
Text(w, by) == Block1("text", <<Word(w, by)>>, "", NoIn)
Used(name, in) == Block1("tool_use", <<>>, name, in)

Str(w, by) == [k |-> "string", says |-> <<Word(w, by)>>, blocks |-> <<>>]
BlocksOf(blocks) == [k |-> "blocks", says |-> <<>>, blocks |-> blocks]
NoContent == [k |-> "other", says |-> <<>>, blocks |-> <<>>]

Line(type, meta, queued, content) ==
    [state |-> "whole", entry |-> [type |-> type, meta |-> meta, queued |-> queued, content |-> content]]
User(content) == Line("user", FALSE, FALSE, content)
Assistant(blocks) == Line("assistant", FALSE, FALSE, BlocksOf(blocks))
Odd(state) == [User(NoContent) EXCEPT !.state = state]

Talk == <<
    User(Str("fix it", "user")),
    Assistant(<<Block1("thinking", <<Word("hm", "model")>>, "", NoIn), Text("allowed", "model"),
                Used("Bash", BashIn("ls")), Used("mcp__db", Object(<<Arg("query", "q")>>))>>),
    User(BlocksOf(<<Block1("tool_result", <<Word("says yes", "tool")>>, "", NoIn)>>)),
    Line("user", TRUE, FALSE, Str("caveat", "system")),
    Odd("blank"),
    User(BlocksOf(<<Text("do not push", "user"), Text("ever", "user")>>)),
    Line("attachment", FALSE, FALSE, Str("reminder", "system")),
    Line("attachment", FALSE, TRUE, Str("and test", "user")),
    Line("system", FALSE, FALSE, Str("hook ran", "system"))>>

Huge == <<User(Str("fix it", "user")), Odd("too_long"), User(Str("stop", "user"))>>

\* A subagent's session opens with what the parent's model asks of it.
Errand == <<User(Str("explore freely", "model")), Assistant(<<Used("Read", FileIn(App))>>)>>

Session == In(TheHome, <<"session">>)
Sub == In(Session, <<"subagents", "a1">>)

----------------------------------------------------------------------------
Para(w) == [k |-> "text", says |-> w, ref |-> NoPath, code |-> FALSE]
At(ref) == [k |-> "import", says |-> "@", ref |-> ref, code |-> FALSE]
Shown(ref) == [k |-> "import", says |-> "@ in a fence", ref |-> ref, code |-> TRUE]
Md(body) == [state |-> "text", body |-> body]

AppMd == In(App, <<"CLAUDE.md">>)
UserMd == In(TheHome, <<".claude", "CLAUDE.md">>)
Doc(name) == In(App, <<name>>)
Here(name) == Path("rel", <<name>>)

\* One file by two names, a cycle, an example, and a chain past the depth limit
\* whose end is a root of its own.
MdTrees == {
    [f \in {} |-> Md(<<>>)],
    (UserMd :> Md(<<Para("mine"), At(Here("CLAUDE.md")), At(Path("home", <<"more.md">>))>>)) @@
    (AppMd :> Md(<<Para("top"), At(Here("a.md")), Shown(Here("b.md"))>>)) @@
    (Doc("a.md") :> Md(<<Para("a"), At(Here("CLAUDE.md")), At(Here("missing.md"))>>)) @@
    (Doc("b.md") :> Md(<<Para("b")>>)),
    (AppMd :> Md(<<At(Here("a.md")), Para("top")>>)) @@
    (Doc("a.md") :> Md(<<Para("a"), At(Here("b.md"))>>)) @@
    (Doc("b.md") :> Md(<<Para("b"), At(Here("CLAUDE.local.md"))>>)) @@
    (Doc("CLAUDE.local.md") :> Md(<<Para("local"), At(Here("a.md"))>>)) @@
    (In(App, <<".claude", "rules", "go.md">>) :> Md(<<Para("go"), At(Path("abs", <<"p", "app", "b.md">>))>>)),
    (AppMd :> Md(<<Para("top"), At(Here("src"))>>)) @@
    (Doc("src") :> [state |-> "unreadable", body |-> <<>>])}

TheManagedMd == <<Path("abs", <<"etc", "claude-code", "CLAUDE.md">>)>>
TheRuleNames == <<"go.md">>

----------------------------------------------------------------------------
NoNames == [GITHUB_ACTOR |-> <<>>, USER |-> <<>>, USERNAME |-> <<>>, git_email |-> <<>>]

Named == {
    [NoNames EXCEPT !.GITHUB_ACTOR = <<"?", "?">>, !.USER = <<"j", "o", "e", "y">>],
    [NoNames EXCEPT !.git_email = <<"a", "@", "b">>], NoNames}

NoPolicy == [allow |-> {}, soft_deny |-> {}, hard_deny |-> {}, environment |-> {}]

Base == [readable |-> TRUE, mode |-> "default", cwd |-> App, project_dir |-> NoPath,
         tool |-> "Bash", in |-> BashIn("make"), agent |-> "", agent_type |-> "",
         transcript |-> NoPath, configDir |-> Path("home", <<".claude">>), policy |-> NoPolicy,
         names |-> NoNames, md |-> [f \in {} |-> Md(<<>>)], sessions |-> [f \in {} |-> Talk]]

With(tool, in) == [Base EXCEPT !.tool = tool, !.in = in]

\* Files inside, outside by name, outside by a link, and in granted directories.
Targets == {In(App, <<"x">>), In(App, <<"..", "y">>), In(App, <<"out", "passwd">>),
            Path("abs", <<"shared", "x">>), Path("abs", <<"home", "notes", "x">>)}

ToolCalls ==
    {With(tool, FileIn(path)) : tool \in {"Write", "Read"}, path \in Targets} \cup
    {[With("Edit", FileIn(path)) EXCEPT !.cwd = Alias, !.project_dir = App] : path \in Targets} \cup
    {With("NotebookEdit", Object(<<Arg("new_source", "s"),
                                  Field("notebook_path", Val(In(App, <<"out", "n">>)))>>)),
     With("TodoWrite", Object(<<Field("todos", ListOf(<<Val(Word("t", "call"))>>))>>)),
     With("Other", Object(<<Arg("a", "1")>>)),
     [With("Write", FileIn(In(App, <<"x">>))) EXCEPT !.cwd = NoPath, !.configDir = NoPath]}

\* Safe tools reach the prompt through the transcript.
SafeTalk == <<Assistant(<<
    Used("TodoWrite", Object(<<Field("todos", ListOf(<<Val(Word("t", "call"))>>))>>)),
    Used("AskUserQuestion", Object(<<Field("questions", ListOf(<<Val(Word("which", "call"))>>))>>)),
    Used("TaskStop", Object(<<Arg("shell_id", "1")>>)), Used("Grep", Object(<<Arg("pattern", "x")>>)),
    Used("LSP", Object(<<Field("code", LongVal(Word("x", "call"))),
                         Field("list", [ListOf(<<>>) EXCEPT !.long = TRUE])>>)),
    Used("NotebookEdit", Object(<<Arg("new_source", "s")>>)), Used("mcp__db", NoIn)>>)>>

SessionCalls ==
    {[Base EXCEPT !.transcript = Session, !.sessions = (Session :> lines)] :
        lines \in {Talk, Huge, SafeTalk}} \cup
    {[Base EXCEPT !.transcript = Session, !.agent = "a1", !.agent_type = "Explore", !.sessions = held0] :
        held0 \in {(Session :> SubSeq(Talk, 1, 3)) @@ (Sub :> Errand), Sub :> Errand}}

TheCalls ==
    ToolCalls \cup SessionCalls \cup {[Base EXCEPT !.md = md] : md \in MdTrees} \cup
    {[Base EXCEPT !.names = names, !.policy.allow = {"branch $USER/"}] : names \in Named} \cup
    {[Base EXCEPT !.readable = FALSE], [Base EXCEPT !.mode = "auto"],
     [Base EXCEPT !.policy.environment = {"Org: acme"}]}

----------------------------------------------------------------------------
MCHome == TheHome
MCLinks == TheLinks
MCMissing == TheMissing
MCDefaultRules == <<>>
MCMcpTools == {"mcp__db"}
MCManagedSettings == TheManagedSettings
MCManagedMd == TheManagedMd
MCRuleNames == TheRuleNames
MCCalls == TheCalls
MCSettings == TheSettings
MCAbsent == TheAbsent
MCBundledEnvironment == {"none configured"}
MCUserRules == {"push $USER/", "branch $USER/"}
MCIdentityChars == {"a", "b", "e", "j", "o", "y"}
=============================================================================
