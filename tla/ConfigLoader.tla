---------------------------- MODULE ConfigLoader ----------------------------
(***************************************************************************)
(* internal/config/loader as operators: the bindings a schema declares,    *)
(* how text becomes a field's value, and the four layers that write a      *)
(* message.                                                                *)
(*                                                                         *)
(* A schema maps a message name to a set of fields                         *)
(*   name, kind, shape ("singular", "list", "map", "oneof"),               *)
(*   of (the message or the enum the kind refers to),                      *)
(*   rules (the buf.validate constraints), opts (at most one record        *)
(*   default, env, flag, each a sequence of at most one text)              *)
(* and a message is the partial function from the paths of its populated   *)
(* fields to their values; a populated submessage has the value Here.      *)
(* Descriptions and flag shorthands are left out.                          *)
(***************************************************************************)
EXTENDS ProjectMatch, FiniteSets, TLC

CONSTANTS
    Numeral,        \* the number a text denotes, where it denotes one
    Bits,           \* the width of each integer kind
    EnumNumber      \* for each enum, the number of each of its value names

ConfigPathEnv == <<"CLAUDE_AUTO_PERMISSION_CONFIG">>
ConfigPathFlag == <<"config">>

Here == [msg |-> TRUE]
Num(n) == [num |-> n]
Txt(s) == [txt |-> s]
Bit(b) == [bit |-> b]

NoFields == [p \in {} |-> Here]

Signed == {"int32", "int64"}
Integral == Signed \cup {"uint32", "uint64"}
ScalarKinds == Integral \cup {"string", "bool", "enum"}

isScalarSingularField(field) == field.shape = "singular" /\ field.kind \in ScalarKinds

InWidth(kind, n) ==
    IF kind \in Signed THEN -(2 ^ (Bits[kind] - 1)) <= n /\ n < 2 ^ (Bits[kind] - 1)
    ELSE 0 <= n /\ n < 2 ^ Bits[kind]

\* strconv.ParseBool
TrueTexts == {"1", "t", "T", "true", "TRUE", "True"}
FalseTexts == {"0", "f", "F", "false", "FALSE", "False"}

\* The value a text stands for in a field, in a sequence; empty: a parse error.
parseScalar(field, raw) ==
    CASE field.kind = "string" -> <<Txt(raw)>>
      [] field.kind = "bool" /\ raw \in TrueTexts \cup FalseTexts -> <<Bit(raw \in TrueTexts)>>
      [] field.kind \in Integral /\ raw \in DOMAIN Numeral ->
            IF InWidth(field.kind, Numeral[raw]) THEN <<Num(Numeral[raw])>> ELSE <<>>
      [] field.kind = "enum" /\ raw \in DOMAIN EnumNumber[field.of] ->
            <<Num(EnumNumber[field.of][raw])>>
      [] OTHER -> <<>>

zeroValue(field) ==
    CASE field.kind = "string" -> Txt("")
      [] field.kind = "bool" -> Bit(FALSE)
      [] OTHER -> Num(0)

\* The default an annotation declares: none, the zero of the kind, or parsed.
DefaultFails(field) ==
    \E raw \in Range(field.opts[1].default) : raw # "" /\ parseScalar(field, raw) = <<>>

parseDefault(field) ==
    LET declared == field.opts[1].default
    IN  IF declared = <<>> THEN <<>>
        ELSE IF declared[1] = "" THEN <<zeroValue(field)>>
        ELSE parseScalar(field, declared[1])

----------------------------------------------------------------------------
\* The field chains reachable from message md.  A message that is already on
\* the chain is not entered again, nor is an annotated or a repeated field.
Descends(md, chain) ==
    LET field == Last(chain)
    IN  /\ field.kind = "message" /\ field.shape \notin {"list", "map"}
        /\ field.opts = <<>>
        /\ field.of \notin {md} \cup {chain[i].of : i \in 1 .. Len(chain) - 1}

Chains(schema, md) ==
    LET reach[n \in 0..Cardinality(DOMAIN schema)] ==
            IF n = 0 THEN {<<field>> : field \in schema[md]}
            ELSE reach[n - 1] \cup
                 UNION {{Append(c, field) : field \in schema[Last(c).of]} :
                        c \in {d \in reach[n - 1] : Descends(md, d)}}
    IN  reach[Cardinality(DOMAIN schema)]

PathOf(chain) == [i \in DOMAIN chain |-> chain[i].name]

Annotated(schema, md) == {c \in Chains(schema, md) : Last(c).opts # <<>>}

\* A binding on a field that is no singular scalar, or a default that does
\* not parse, fails the walk.
WalkFails(schema, md) ==
    \E c \in Annotated(schema, md) :
        ~isScalarSingularField(Last(c)) \/ DefaultFails(Last(c))

\* A derived name keeps the segments of the path apart, where the code joins
\* them with an underscore.
deriveEnvName(path) == <<"CLAUDE_AUTO_PERMISSION">> \o path
deriveFlagName(path) == <<Last(path)>>

NameOr(declared, derived) ==
    IF declared = <<>> THEN <<>> ELSE IF declared[1] = "" THEN derived ELSE declared

\* One binding for each annotated field; env and flag are empty when the
\* annotation declares none.
BindingOf(chain) ==
    LET opts == Last(chain).opts[1]
        path == PathOf(chain)
    IN  [path |-> path, field |-> Last(chain), default |-> parseDefault(Last(chain)),
         env |-> NameOr(opts.env, deriveEnvName(path)),
         flag |-> NameOr(opts.flag, deriveFlagName(path))]

Walk(schema, md) == {BindingOf(c) : c \in Annotated(schema, md)}

----------------------------------------------------------------------------
\* proto.Merge: what the other message has populated replaces what was there.
Merge(m, other) ==
    [p \in DOMAIN m \cup DOMAIN other |-> IF p \in DOMAIN other THEN other[p] ELSE m[p]]

\* The fields of some bindings with a value for each; no two have one path.
AtPaths(bindings, value(_)) ==
    [path \in {b.path : b \in bindings} |-> value(CHOOSE b \in bindings : b.path = path)]

Above(path) == {SubSeq(path, 1, i) : i \in 1 .. Len(path) - 1}

\* Setting leaves brings the messages above them into being.
setByPath(m, leaves) ==
    LET above == [p \in UNION {Above(path) : path \in DOMAIN leaves} |-> Here]
    IN  Merge(Merge(m, above), leaves)

ApplyDefaults(m, bindings) ==
    LET due == {b \in bindings : b.default # <<>>}
    IN  setByPath(m, AtPaths(due, LAMBDA b : b.default[1]))

\* The text of each binding parsed and set, in a sequence; empty: one does not
\* parse.
ApplyTexts(m, raw) ==
    IF \E b \in DOMAIN raw : parseScalar(b.field, raw[b]) = <<>> THEN <<>>
    ELSE <<setByPath(m, AtPaths(DOMAIN raw, LAMBDA b : parseScalar(b.field, raw[b])[1]))>>

\* Mutant of ApplyEnv: an empty variable counts as set.
ApplyEnv_Empty(m, bindings, env) ==
    ApplyTexts(m, [b \in {b \in bindings : b.env # <<>> /\ b.env \in DOMAIN env} |-> env[b.env]])

ApplyEnv(m, bindings, env) ==
    LET set == {b \in bindings : b.env # <<>> /\ b.env \in DOMAIN env /\ env[b.env] # ""}
    IN  ApplyTexts(m, [b \in set |-> env[b.env]])

\* flags maps the names given on the command line to their last text.
ApplyFlags(m, bindings, flags) ==
    LET given == {b \in bindings : b.flag # <<>> /\ b.flag \in DOMAIN flags}
    IN  ApplyTexts(m, [b \in given |-> flags[b.flag]])

----------------------------------------------------------------------------
\* The map left behind by writes to it, one after the other.
Written(writes) ==
    LET map[n \in 0..Len(writes)] == IF n = 0 THEN NoFields ELSE Merge(map[n - 1], writes[n])
    IN  map[Len(writes)]

\* loader.EnvSlice: an entry without "=" has no value and is skipped.
EnvSlice(environ) ==
    Written([i \in DOMAIN environ |-> IF environ[i].value = <<>> THEN NoFields
                                      ELSE [key \in {environ[i].key} |-> environ[i].value[1]]])

\* A flag's field; --config is a string of its own.
Registered(bs, name) ==
    {b.field : b \in {b \in bs : b.flag = name}} \cup
    IF name = ConfigPathFlag THEN {[kind |-> "string"]} ELSE {}

\* A bool flag may stand alone.
TextOf(field, arg) ==
    IF arg.value # <<>> THEN arg.value
    ELSE IF field.kind = "bool" THEN <<"true">> ELSE <<>>

\* An unknown flag, one without its value, or a text its field refuses.
ArgFails(bs, arg) ==
    ~\E field \in Registered(bs, arg.name) :
        LET raw == TextOf(field, arg)
        IN  raw # <<>> /\ parseScalar(field, raw[1]) # <<>>

GivenFlags(bs, args) ==
    Written([i \in DOMAIN args |-> [name \in {args[i].name} |->
                TextOf(CHOOSE f \in Registered(bs, name) : TRUE, args[i])[1]]])

\* What a missing file counts as.
NoFile == [state |-> "text", root |-> NoFields, projects |-> <<>>]

\* loader.Resolve: the whole pipeline for one command line, environment and
\* set of files; empty when any step fails.
Resolve(schema, args, environ, files, defaultPath) ==
    LET bindings == Walk(schema, "Config")
        env == EnvSlice(environ)
        flags == GivenFlags(bindings, args)
        flagPath == IF ConfigPathFlag \in DOMAIN flags THEN flags[ConfigPathFlag] ELSE ""
        envPath == IF ConfigPathEnv \in DOMAIN env THEN env[ConfigPathEnv] ELSE ""
        path == IF flagPath # "" THEN flagPath ELSE IF envPath # "" THEN envPath ELSE defaultPath
        file == IF path # "" /\ path \in DOMAIN files THEN files[path] ELSE NoFile
        filed == Merge(ApplyDefaults(NoFields, bindings), file.root)
        environed == ApplyEnv(filed, bindings, env)
        flagged == ApplyFlags(environed[1], bindings, flags)
    IN  IF \/ WalkFails(schema, "Config")
           \/ \E i \in DOMAIN args : ArgFails(bindings, args[i])
           \/ file.state # "text" \/ environed = <<>> \/ flagged = <<>>
        THEN <<>> ELSE <<[root |-> flagged[1], projects |-> file.projects]>>

----------------------------------------------------------------------------
Has(m, path) == path \in DOMAIN m

\* The message a field lies in is there.
InPlace(m, path) == \A p \in Above(path) : Has(m, p)

\* Mutant of needsDefault: a zero counts as unset whatever the kind.
needsDefault_Zero(m, b) == ~Has(m, b.path) \/ m[b.path] = zeroValue(b.field)

\* Unset, or an enum that rests on its UNSPECIFIED value.
needsDefault(m, b) == ~Has(m, b.path) \/ (b.field.kind = "enum" /\ m[b.path] = Num(0))

FillDefaults(schema, md, m) ==
    IF WalkFails(schema, md) THEN m
    ELSE LET due == {b \in Walk(schema, md) :
                        b.default # <<>> /\ InPlace(m, b.path) /\ needsDefault(m, b)}
         IN  Merge(m, AtPaths(due, LAMBDA b : b.default[1]))

\* protovalidate.Validate: a required field is populated, and a populated one
\* meets its bound.
Meets(rule, value) ==
    CASE rule = "gte0" -> value.num >= 0
      [] rule = "gte1" -> value.num >= 1
      [] rule = "min_len1" -> value.txt # ""
      [] rule = "required" -> TRUE

Valid(schema, md, m) ==
    \A c \in Chains(schema, md) :
        LET path == PathOf(c)
        IN  /\ "required" \in Last(c).rules /\ InPlace(m, path) => Has(m, path)
            /\ Has(m, path) => \A rule \in Last(c).rules : Meets(rule, m[path])
=============================================================================
