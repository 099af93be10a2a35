-------------------------- MODULE MCConfiguration --------------------------
EXTENDS Configuration

\* Integers are six bits wide: "32" is one too many.
TheNumeral == ("0" :> 0) @@ ("1" :> 1) @@ ("3" :> 3) @@ ("8" :> 8) @@ ("32" :> 32) @@ ("-1" :> -1)
TheBits == [kind \in Integral |-> 6]

TheEnumNumber ==
    [mode |-> [unspecified |-> 0, full_auto |-> 1, block_only |-> 2],
     on_error |-> [unspecified |-> 0, passthrough |-> 1, ask |-> 2],
     stages |-> [unspecified |-> 0, off |-> 1, fast |-> 2, both |-> 3, thinking |-> 4]]

----------------------------------------------------------------------------
\* proto/config/v1/config.proto, with a field or two of each sort.
Opts(default, env, flag) == <<[default |-> default, env |-> env, flag |-> flag]>>
Defaulted(default) == Opts(<<default>>, <<>>, <<>>)

Field(name, kind, of, rules, opts) ==
    [name |-> name, kind |-> kind, shape |-> "singular", of |-> of, rules |-> rules, opts |-> opts]

RuntimeFields ==
    {Field("cache_dir", "string", "", {}, Opts(<<"cache">>, <<"">>, <<"">>)),
     Field("claude_config_dir", "string", "", {}, Opts(<<"claude">>, <<"CLAUDE_CONFIG_DIR">>, <<"">>)),
     Field("log_decisions", "bool", "", {}, Opts(<<>>, <<"">>, <<"">>)),
     Field("decision_log_max_bytes", "int32", "", {"gte0"}, Opts(<<"8">>, <<>>, <<"">>)),
     Field("automode_policy_ttl_seconds", "int32", "", {"gte0"}, Defaulted("8"))}

ClassifierFields ==
    {Field("enabled", "bool", "", {}, <<>>),
     Field("mode", "enum", "mode", {}, Defaulted("full_auto")),
     Field("bedrock", "message", "Bedrock", {"required"}, <<>>),
     Field("timeout_ms", "int32", "", {"gte0"}, Defaulted("8")),
     Field("max_consecutive_blocks", "int32", "", {"gte0"}, Defaulted("3"))}

BedrockFields ==
    {Field("model_id", "string", "", {"required", "min_len1"}, Defaulted("sonnet")),
     Field("two_stage", "enum", "stages", {}, Defaulted("both")),
     Field("max_tokens", "int32", "", {"gte1"}, Defaulted("8")),
     Field("latency_optimized", "bool", "", {}, Defaulted(""))}

\* The root names itself once more, which the walk must survive.
ConfigFields ==
    {Field("runtime", "message", "Runtime", {}, <<>>),
     Field("parent", "message", "Config", {}, <<>>),
     [Field("projects", "message", "LlmClassifierConfig", {}, <<>>) EXCEPT !.shape = "list"]}

Real == [Config |-> ConfigFields, Runtime |-> RuntimeFields,
         LlmClassifierConfig |-> ClassifierFields, Bedrock |-> BedrockFields]

\* Two schemas the walk refuses.
ListBound == [Real EXCEPT !.Runtime = {[f EXCEPT !.shape = "list"] : f \in @}]
BadDefault == [Real EXCEPT !.Runtime = @ \cup {Field("limit", "int32", "", {}, Defaulted("32"))}]

----------------------------------------------------------------------------
TheDefaultFile == "default.txtpb"
TheHome == Path("abs", <<"home">>)
Root == Path("abs", <<"p", "app">>)

\* Patterns for the directory, and for the one it is a link to: Target has one name
\* only, and the most bytes.
Wide == Path("abs", <<"p", "**">>)
Exact == Path("abs", <<"p", "app">>)
Target == Path("abs", <<"workspace">>)
Anywhere == Path("abs", <<"**">>)

Runtime(m) == (<<"runtime">> :> Here) @@ m
Model == (<<"bedrock">> :> Here) @@ (<<"bedrock", "model_id">> :> Txt("m"))

Block(enabled, m) == (<<"enabled">> :> Bit(enabled)) @@ m
Project(pattern, blocks) == [path_patterns |-> {pattern}, rules |-> <<>>, classifier |-> blocks]

\* Blocks with every limit left out, with zeros written down, with values, with
\* the sentinel of each enum; one without a provider and one without a model.
Plain == Block(TRUE, Model)
Zeros == Block(TRUE, Model @@ (<<"timeout_ms">> :> Num(0))
                           @@ (<<"max_consecutive_blocks">> :> Num(0)))
Chosen == Block(TRUE, Model @@ (<<"timeout_ms">> :> Num(1)) @@ (<<"mode">> :> Num(2))
                            @@ (<<"bedrock", "max_tokens">> :> Num(1)))
Unspecified == Block(TRUE, Model @@ (<<"mode">> :> Num(0)) @@ (<<"bedrock", "two_stage">> :> Num(0)))
Off == Block(FALSE, Model @@ (<<"timeout_ms">> :> Num(3)))
Negative == Block(TRUE, Model @@ (<<"timeout_ms">> :> Num(-1)))
NoProvider == Block(TRUE, NoFields)
NoModel == Block(TRUE, <<"bedrock">> :> Here)

Lists == {<<>>} \cup
    {<<Project(Wide, <<b>>)>> : b \in {Plain, Unspecified, Negative, NoProvider, NoModel}} \cup
    {<<Project(p, <<Zeros>>), Project(q, <<Chosen>>)>> : p, q \in {Wide, Exact, Target}} \cup
    {<<Project(Wide, <<Zeros>>), Project(q, <<Off>>)>> : q \in {Anywhere, Wide, Exact}} \cup
    {<<Project(Exact, <<>>), Project(Wide, <<Zeros>>)>>,
     <<[Project(Anywhere, <<Zeros>>) EXCEPT !.path_patterns = @ \cup {Target}],
       Project(Exact, <<Off>>), Project(Target, <<Chosen>>)>>,
     <<Project(Path("abs", <<"q">>), <<Plain>>)>>,
     <<[Project(Wide, <<Plain>>) EXCEPT !.path_patterns = {}]>>}

Text(root, ps) == [state |-> "text", root |-> root, projects |-> ps]
NoText(state) == [state |-> state, root |-> NoFields, projects |-> <<>>]

Small == Text(Runtime((<<"runtime", "cache_dir">> :> Txt("filed"))
                   @@ (<<"runtime", "decision_log_max_bytes">> :> Num(0))), <<Project(Wide, <<Plain>>)>>)
Other == Text(Runtime(<<"runtime", "cache_dir">> :> Txt("other")), <<>>)

----------------------------------------------------------------------------
CacheDir == <<"CLAUDE_AUTO_PERMISSION", "runtime", "cache_dir">>
LogDecisions == <<"CLAUDE_AUTO_PERMISSION", "runtime", "log_decisions">>

Set(key, text) == [key |-> key, value |-> <<text>>]
Arg(name, text) == [name |-> <<name>>, value |-> <<text>>]
Bare(name) == [name |-> <<name>>, value |-> <<>>]

Environs == {
    <<>>,
    <<Set(CacheDir, ""), Set(<<"CLAUDE_CONFIG_DIR">>, "env")>>,
    <<Set(CacheDir, "env"), [key |-> CacheDir, value |-> <<>>], Set(LogDecisions, "1")>>,
    <<Set(LogDecisions, "maybe")>>,
    <<Set(ConfigPathEnv, "other.txtpb"), Set(LogDecisions, "f")>>,
    <<Set(ConfigPathEnv, "missing.txtpb"), Set(LogDecisions, "T")>>}

ArgLists == {
    <<>>,
    <<Arg("cache_dir", "flag"), Bare("log_decisions")>>,
    <<Arg("cache_dir", "first"), Arg("cache_dir", ""), Arg("log_decisions", "false")>>,
    <<Arg("config", "default.txtpb"), Arg("decision_log_max_bytes", "3")>>,
    <<Arg("config", "torn.txtpb")>>, <<Arg("config", "locked.txtpb")>>,
    <<Arg("decision_log_max_bytes", "32")>>, <<Arg("decision_log_max_bytes", "-1")>>,
    <<Arg("automode_policy_ttl_seconds", "3")>>, <<Bare("cache_dir")>>}

Files(default) ==
    (TheDefaultFile :> default) @@ ("other.txtpb" :> Other)
        @@ ("torn.txtpb" :> NoText("malformed")) @@ ("locked.txtpb" :> NoText("unreadable"))

Input(schema, args, environ, default, root) ==
    [schema |-> schema, args |-> args, environ |-> environ,
     files |-> Files(default), project_root |-> root]

\* Every command line with every environment and every list of projects.
TheInputs ==
    {Input(Real, args, environ, default, Root) :
        args \in ArgLists, environ \in Environs,
        default \in {Small} \cup {Text(NoFields, ps) : ps \in Lists}} \cup
    {Input(schema, <<>>, <<>>, Small, root) :
        schema \in {Real, ListBound, BadDefault}, root \in {Root, NoPath}}

----------------------------------------------------------------------------
MCHome == TheHome
MCLinks == {[from |-> Root.seg, to |-> Target.seg]}
MCMissing == {}
MCDefaultRules == <<>>
MCNumeral == TheNumeral
MCBits == TheBits
MCEnumNumber == TheEnumNumber
MCInputs == TheInputs
MCDefaultFile == TheDefaultFile
=============================================================================
