--------------------------- MODULE Configuration ---------------------------
(***************************************************************************)
(* One process from its command line to the classifier it builds:          *)
(* cmd/claude-auto-permission/main.go, config.Resolver and the factory of  *)
(* internal/llmclassifier.  The configuration is written in layers:        *)
(* schema defaults, file, environment, flags.  The classifier blocks lie   *)
(* inside the repeated projects, which no binding reaches, and get their   *)
(* defaults when a tool call is judged.                                    *)
(*                                                                         *)
(* A project is a record as in ProjectMatch; its classifier is a message.  *)
(* A file is                                                               *)
(*   state ("text", "malformed", "unreadable"), root, projects             *)
(* and an input of the process is                                          *)
(*   schema, args, environ, files (by path), project_root.                 *)
(***************************************************************************)
EXTENDS ConfigLoader

CONSTANTS
    Inputs,         \* the inputs a process may be started with
    DefaultFile     \* $HOME/.config/claude-auto-permission/config.txtpb

\* protoc refuses two fields of one name; a reference leads to a message.
NamesApart(schema) ==
    /\ IsFiniteSet(DOMAIN schema) /\ {"Config", "LlmClassifierConfig"} \subseteq DOMAIN schema
    /\ \A md \in DOMAIN schema :
            /\ \A f, g \in schema[md] : f.name = g.name => f = g
            /\ \A f \in schema[md] : f.kind = "message" => f.of \in DOMAIN schema

\* pflag panics when a flag is defined twice.
FlagsApart(bs) ==
    \A b, c \in bs : b.flag # <<>> => b.flag # ConfigPathFlag /\ (b.flag = c.flag => b = c)

\* config.proto: the defaults of a classifier block are bindings that keep to
\* the rules of their fields, and its provider is required.
DefaultsKeepRules(schema) ==
    /\ ~WalkFails(schema, "LlmClassifierConfig")
    /\ \A b \in Walk(schema, "LlmClassifierConfig") :
            b.default # <<>> => \A rule \in b.field.rules : Meets(rule, b.default[1])
    /\ \E f \in schema["LlmClassifierConfig"] : f.name = "bedrock" /\ "required" \in f.rules

IsList(s) == s \in Seq(Range(s))

ASSUME InputsAssumption ==
    \A in \in Inputs :
        /\ NamesApart(in.schema) /\ FlagsApart(Walk(in.schema, "Config"))
        /\ DefaultsKeepRules(in.schema)
        /\ IsList(in.args) /\ IsList(in.environ)
        /\ \A path \in DOMAIN in.files :
                /\ IsList(in.files[path].projects)
                /\ \A project \in Range(in.files[path].projects) :
                    /\ IsFiniteSet(project.path_patterns) /\ IsList(project.classifier)
                    /\ \A p \in project.path_patterns : Bytes(ExpandTilde(p)) \in Nat

VARIABLES
    input,      \* what the process was started with
    stage,      \* where main stands
    bindings,   \* the bindings of the schema
    flags,      \* the flags given, to their last text
    cfg,        \* the root message
    projects,   \* the projects of the configuration
    judge,      \* the block the classifier works with, in a sequence
    built       \* the configuration it hands its provider, in a sequence

vars == <<input, stage, bindings, flags, cfg, projects, judge, built>>

Stages == {"start", "walked", "parsed", "seeded", "filed", "environed", "flagged",
           "ready", "judging", "done", "failed"}

Init ==
    /\ input \in Inputs
    /\ stage = "start" /\ bindings = {} /\ flags = NoFields
    /\ cfg = NoFields /\ projects = <<>> /\ judge = <<>> /\ built = <<>>

----------------------------------------------------------------------------
Env == EnvSlice(input.environ)

WalkSchema ==
    /\ stage = "start"
    /\ bindings' = Walk(input.schema, "Config")
    /\ stage' = IF WalkFails(input.schema, "Config") THEN "failed" ELSE "walked"
    /\ UNCHANGED <<input, flags, cfg, projects, judge, built>>

ParseArgs ==
    /\ stage = "walked"
    /\ \/ /\ \E i \in DOMAIN input.args : ArgFails(bindings, input.args[i])
          /\ stage' = "failed" /\ flags' = flags
       \/ /\ \A i \in DOMAIN input.args : ~ArgFails(bindings, input.args[i])
          /\ stage' = "parsed" /\ flags' = GivenFlags(bindings, input.args)
    /\ UNCHANGED <<input, bindings, cfg, projects, judge, built>>

SeedDefaults ==
    /\ stage = "parsed"
    /\ cfg' = ApplyDefaults(cfg, bindings)
    /\ stage' = "seeded"
    /\ UNCHANGED <<input, bindings, flags, projects, judge, built>>

defaultConfigPath == IF Home = NoPath THEN "" ELSE DefaultFile

\* Mutant of ConfigPath: the variable outranks the flag.
ConfigPath_EnvFirst(given, env) ==
    IF ConfigPathEnv \in DOMAIN env THEN env[ConfigPathEnv]
    ELSE IF ConfigPathFlag \in DOMAIN given THEN given[ConfigPathFlag] ELSE defaultConfigPath

\* The flag, else the variable, else the default; an empty text names no file.
ConfigPath(given, env) ==
    IF ConfigPathFlag \in DOMAIN given /\ given[ConfigPathFlag] # "" THEN given[ConfigPathFlag]
    ELSE IF ConfigPathEnv \in DOMAIN env /\ env[ConfigPathEnv] # "" THEN env[ConfigPathEnv]
    ELSE defaultConfigPath

Exists(path) == path # "" /\ path \in DOMAIN input.files

\* A file that is not there is tolerated; one that cannot be read or parsed
\* is not.  The file is parsed into a fresh message and merged.
ReadConfig ==
    /\ stage = "seeded"
    /\ LET path == ConfigPath(flags, Env)
       IN  \/ /\ ~Exists(path)
              /\ stage' = "filed" /\ UNCHANGED <<cfg, projects>>
           \/ /\ Exists(path) /\ input.files[path].state = "text"
              /\ cfg' = Merge(cfg, input.files[path].root)
              /\ projects' = projects \o input.files[path].projects
              /\ stage' = "filed"
           \/ /\ Exists(path) /\ input.files[path].state # "text"
              /\ stage' = "failed" /\ UNCHANGED <<cfg, projects>>
    /\ UNCHANGED <<input, bindings, flags, judge, built>>

\* A layer that writes nothing when one of its texts does not parse; the code
\* may have written some fields by then, which nothing reads any more.
Layered(written, next) ==
    IF written = <<>> THEN stage' = "failed" /\ cfg' = cfg
    ELSE stage' = next /\ cfg' = written[1]

ReadEnv ==
    /\ stage = "filed"
    /\ Layered(ApplyEnv(cfg, bindings, Env), "environed")
    /\ UNCHANGED <<input, bindings, flags, projects, judge, built>>

ReadFlags ==
    /\ stage = "environed"
    /\ Layered(ApplyFlags(cfg, bindings, flags), "flagged")
    /\ UNCHANGED <<input, bindings, flags, projects, judge, built>>

\* The blocks are validated as the file wrote them, before any default.
ConfigValid(m, ps) ==
    /\ Valid(input.schema, "Config", m)
    /\ \A i \in DOMAIN ps : /\ ps[i].path_patterns # {}
                            /\ \A block \in Range(ps[i].classifier) :
                                    Valid(input.schema, "LlmClassifierConfig", block)

Validate ==
    /\ stage = "flagged"
    /\ stage' = IF ConfigValid(cfg, projects) THEN "ready" ELSE "failed"
    /\ UNCHANGED <<input, bindings, flags, cfg, projects, judge, built>>

----------------------------------------------------------------------------
Filled(block) == FillDefaults(input.schema, "LlmClassifierConfig", block)

Get(m, path, zero) == IF Has(m, path) THEN m[path] ELSE zero

Enabled(block) == Get(block, <<"enabled">>, Bit(FALSE)).bit

\* Pipeline.matchProjectConfig, the first thing a tool call asks for.
\* FillDefaults works in place, on a block the projects do not lend twice.
MatchProject ==
    /\ stage = "ready"
    /\ LET matched == MatchingLlmClassifier(projects, input.project_root)
       IN  \/ /\ matched # <<>> /\ Enabled(matched[1])
              /\ judge' = <<Filled(matched[1])>> /\ stage' = "judging"
           \/ /\ ~(matched # <<>> /\ Enabled(matched[1]))
              /\ judge' = judge /\ stage' = "done"
    /\ UNCHANGED <<input, bindings, flags, cfg, projects, built>>

\* The judge's modes; anything else maps to full_auto, passthrough, both.
modeFromProto(n) == IF n = 2 THEN "block_only" ELSE "full_auto"
onClassifierErrorFromProto(n) == IF n = 2 THEN "ask" ELSE "passthrough"
twoStageMode(n) ==
    CASE n = 1 -> "off" [] n = 2 -> "fast" [] n = 4 -> "thinking" [] OTHER -> "both"

Number(m, path) == Get(m, path, Num(0)).num

ConfigFromProto(m) ==
    [timeout |-> Number(m, <<"timeout_ms">>),
     max_consecutive |-> Number(m, <<"max_consecutive_blocks">>),
     max_session |-> Number(m, <<"max_session_blocks">>),
     ttl |-> Number(m, <<"backstop_ttl_seconds">>),
     mode |-> modeFromProto(Number(m, <<"mode">>)),
     on_error |-> onClassifierErrorFromProto(Number(m, <<"on_classifier_error">>))]

ProviderConfig(m) ==
    [model |-> Get(m, <<"bedrock", "model_id">>, Txt("")).txt,
     max_tokens |-> Number(m, <<"bedrock", "max_tokens">>),
     stage1_both |-> Number(m, <<"bedrock", "stage1_max_tokens_both">>),
     stage1_fast |-> Number(m, <<"bedrock", "stage1_max_tokens_fast">>),
     two_stage |-> twoStageMode(Number(m, <<"bedrock", "two_stage">>))]

\* ProviderFromConfig fills the block once more, asks for a provider, and
\* FromProto validates before it builds.
BuildProvider ==
    /\ stage = "judging"
    /\ LET block == Filled(judge[1])
       IN  /\ judge' = <<block>>
           /\ built' = IF Has(block, <<"bedrock">>) /\ Valid(input.schema, "LlmClassifierConfig", block)
                       THEN <<ConfigFromProto(judge[1]) @@ ProviderConfig(block)>> ELSE <<>>
    /\ stage' = "done"
    /\ UNCHANGED <<input, bindings, flags, cfg, projects>>

\* The hook call is over, or the process has exited with an error.
Ended == stage \in {"done", "failed"} /\ UNCHANGED vars

Next ==
    \/ WalkSchema \/ ParseArgs \/ SeedDefaults \/ ReadConfig \/ ReadEnv \/ ReadFlags
    \/ Validate \/ MatchProject \/ BuildProvider \/ Ended

Spec == Init /\ [][Next]_vars

----------------------------------------------------------------------------
LayersDone == stage \in {"flagged", "ready", "judging", "done"}

\* What the last flag, the last variable that has a value, the file and the
\* schema say of a field, each in a sequence of at most one: the text, read
\* with the kind of the field.  A text that does not parse says <<>>.
LastIn(positions) == CHOOSE i \in positions : \A j \in positions : j <= i

SaidByFlag(b) ==
    LET naming == {i \in DOMAIN input.args : input.args[i].name = b.flag}
        text == input.args[LastIn(naming)].value
    IN  IF b.flag = <<>> \/ naming = {} THEN <<>>
        ELSE <<parseScalar(b.field, IF text = <<>> THEN "true" ELSE text[1])>>

SaidByEnv(b) ==
    LET naming == {i \in DOMAIN input.environ : input.environ[i].key = b.env
                                              /\ input.environ[i].value # <<>>}
        text == input.environ[LastIn(naming)].value[1]
    IN  IF b.env = <<>> \/ naming = {} THEN <<>>
        ELSE IF text = "" THEN <<>> ELSE <<parseScalar(b.field, text)>>

TheFile == LET path == ConfigPath(flags, Env) IN IF Exists(path) THEN input.files[path] ELSE NoFile

SaidByFile(b) == IF Has(TheFile.root, b.path) THEN <<<<TheFile.root[b.path]>>>> ELSE <<>>

SaidByDefault(b) == IF b.default = <<>> THEN <<>> ELSE <<b.default>>

Said(b) == <<SaidByFlag(b), SaidByEnv(b), SaidByFile(b), SaidByDefault(b)>>

\* loader.go: "Package loader resolves a config message in layered precedence:
\* schema defaults -> textproto file -> env vars -> CLI flags".  Whatever the
\* layers write over each other, a bound field ends with what the highest
\* layer that speaks for it said, and a layer that speaks gibberish is heard
\* by no call.
HighestLayerWins ==
    LayersDone =>
        \A b \in bindings :
            LET speaking == {i \in 1 .. 4 : Said(b)[i] # <<>>}
            IN  /\ Has(cfg, b.path) <=> speaking # {}
                /\ \A i \in speaking :
                        (\A j \in speaking : i <= j) => Said(b)[i] = <<<<cfg[b.path]>>>>

\* main repeats loader.Resolve by hand.  Both read the same file, end with the
\* same message, and stop on the same inputs.
MainAgreesWithResolve ==
    LET resolved == Resolve(input.schema, input.args, input.environ, input.files, defaultConfigPath)
    IN  /\ LayersDone => resolved = <<[root |-> cfg, projects |-> projects]>>
        /\ stage = "failed" /\ resolved # <<>> =>
                ~ConfigValid(resolved[1].root, resolved[1].projects)

\* The blocks that could speak for the directory, by position.
Candidates == Judging(projects, input.project_root)

Outranks(i, j) ==
    LET sp(k) == projectSpecificity(projects[k], input.project_root)
    IN  sp(i) > sp(j) \/ (sp(i) = sp(j) /\ i > j)

\* config.go: "MatchingLlmClassifier returns the LlmClassifierConfig from the
\* most-specific matching project (longest matching path_pattern)".  Whatever
\* the number of blocks, a call is judged by the one no other outranks, the
\* later on a tie; when that one is disabled nobody judges.  Filling its
\* defaults a second time changes nothing.
NearestBlockJudges ==
    stage \in {"judging", "done"} =>
        LET nearest == {i \in Candidates : /\ \A j \in Candidates \ {i} : Outranks(i, j)
                                           /\ Enabled(projects[i].classifier[1])}
        IN  judge = IF nearest = {} THEN <<>>
                    ELSE <<Filled(projects[CHOOSE i \in nearest : TRUE].classifier[1])>>

\* What a block written as m means to a call: its own values, but for unset
\* fields and enums at UNSPECIFIED, which mean the default of the schema; a
\* message nobody wrote stays away.
Meant(m, used) ==
    \A c \in Chains(input.schema, "LlmClassifierConfig") :
        LET path == PathOf(c)
            unsaid == ~Has(m, path) \/ (Last(c).kind = "enum" /\ m[path] = Num(0))
            default == IF Last(c).opts = <<>> THEN <<>> ELSE parseDefault(Last(c))
        IN  IF unsaid /\ default # <<>> /\ InPlace(m, path)
            THEN Has(used, path) /\ used[path] = default[1]
            ELSE Has(used, path) = Has(m, path) /\ (Has(m, path) => used[path] = m[path])

\* A zero somebody wrote is a setting (no timeout, no limit), an unset field
\* the default: after two rounds of FillDefaults and a validation that ran
\* before either, the judge works with what its block means, and the provider
\* is built from that block.
SettingsAsMeant ==
    stage = "done" /\ judge # <<>> =>
        /\ \E i \in Candidates : Meant(projects[i].classifier[1], judge[1])
        /\ built = <<ConfigFromProto(judge[1]) @@ ProviderConfig(judge[1])>>

----------------------------------------------------------------------------
(***************************************************************************)
(* The inductive invariant behind the properties.                          *)
(***************************************************************************)

Refused ==
    LET bs == Walk(input.schema, "Config")
    IN  \/ WalkFails(input.schema, "Config")
        \/ \E i \in DOMAIN input.args : ArgFails(bs, input.args[i])

\* The message each layer leaves behind; empty: the layer stops the process.
Filed == Merge(ApplyDefaults(NoFields, bindings), TheFile.root)
Environed == ApplyEnv(Filed, bindings, Env)
Flagged == ApplyFlags(Environed[1], bindings, flags)

\* The bindings, the flags and the message are what the input makes of them.
LayersInv ==
    /\ stage \in {"start", "walked", "parsed"} => cfg = NoFields
    /\ stage \in {"start", "walked", "parsed", "seeded"} => projects = <<>>
    /\ stage \notin {"start", "failed"} =>
            bindings = Walk(input.schema, "Config") /\ ~WalkFails(input.schema, "Config")
    /\ stage \notin {"start", "walked", "failed"} =>
            flags = GivenFlags(bindings, input.args) /\ ~Refused
    /\ stage = "seeded" => cfg = ApplyDefaults(NoFields, bindings)
    /\ stage \in {"filed", "environed"} \/ LayersDone =>
            TheFile.state = "text" /\ projects = TheFile.projects
    /\ stage = "filed" => cfg = Filed
    /\ stage = "environed" => Environed = <<cfg>>
    /\ LayersDone => Environed # <<>> /\ Flagged = <<cfg>>

\* A process stops for what stops Resolve, or for the rules of the schema.
FailedInv ==
    stage = "failed" =>
        \/ Refused
        \/ /\ bindings = Walk(input.schema, "Config")
           /\ flags = GivenFlags(bindings, input.args)
           /\ \/ TheFile.state # "text" \/ Environed = <<>> \/ Flagged = <<>>
              \/ /\ Flagged = <<cfg>> /\ projects = TheFile.projects
                 /\ ~ConfigValid(cfg, projects)

\* The block a call is judged by has passed the rules and is filled once or twice.
JudgeInv ==
    /\ stage \in {"ready", "judging", "done"} => ConfigValid(cfg, projects)
    /\ stage \notin {"judging", "done"} => judge = <<>>
    /\ stage # "done" => built = <<>>
    /\ stage = "judging" => judge # <<>>
    /\ NearestBlockJudges
    /\ SettingsAsMeant

ConfigInv == input \in Inputs /\ LayersInv /\ FailedInv /\ JudgeInv
=============================================================================
