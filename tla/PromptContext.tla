--------------------------- MODULE PromptContext ---------------------------
(***************************************************************************)
(* What the judge of one tool call gets to see: app.Hook.Run and buildEnv, *)
(* and the phases of llmclassifier's pipeline from the skip list to the    *)
(* prompt.  While the hook runs, settings files are edited, made and       *)
(* removed, and Claude Code appends to the session files.                  *)
(*                                                                         *)
(* A call is a record                                                      *)
(*   readable (hookio.Read succeeds), mode, cwd, project_dir (the variable *)
(*   CLAUDE_PROJECT_DIR), tool, in, agent, agent_type, transcript,         *)
(*   configDir, policy (what LoadOrDefaults returns), names (the texts     *)
(*   that may name the user, by key),                                      *)
(*   md (the CLAUDE.md files, see ClaudeMd), sessions (all the lines each  *)
(*   session file will ever have, by path).                                *)
(* An absent directory is NoPath, an absent name the empty string.         *)
(***************************************************************************)
EXTENDS PermScope, Transcript, ClaudeMd, FiniteSets

CONSTANTS
    Calls,              \* the tool calls the hook may be run for; one of an agent has a type
    Settings,           \* for each settings file, the contents it may have
    Absent,             \* the contents of a file that does not exist
    MaxEdits,           \* bound on the edits of settings while the hook runs
    BundledEnvironment, \* the environment of automodepolicy.BundledDefaults
    UserRules,          \* the rules that say "$USER/"
    IdentityChars,      \* the characters an identity may be made of
    MaxIdentity         \* the characters of an identity that are kept

Contents == UNION {Settings[f] : f \in DOMAIN Settings}

\* The directory of a call is absolute.  A settings file without a permissions
\* block grants and denies nothing.  Following the links of a directory leads
\* to one without links.
ASSUME SettingsAssumption ==
    /\ \A c \in Calls : c.cwd # NoPath => ExpandTilde(c.cwd) = c.cwd
    /\ \A content \in Contents \ {Absent} : ~content.has => content.deny = {}
    /\ \A dir \in (UNION {content.dirs : content \in Contents \ {Absent}})
                  \cup {c.cwd : c \in {d \in Calls : d.cwd # NoPath}} :
            RealPath(RealDir(dir)) = RealDir(dir)

\* Who said a value: a path and a fixed text are nobody's words.
VoiceOf(v) ==
    CASE v.t = "word" -> {v.by}
      [] v.t = "head" -> IF v.of.t = "word" THEN {v.of.by} ELSE {}
      [] OTHER -> {}

SpeakersIn(val) ==
    CASE val.k = "text" -> VoiceOf(val.v)
      [] val.k = "list" -> UNION {VoiceOf(item.v) : item \in {x \in Range(val.v) : x.k = "text"}}
      [] OTHER -> {}

IsSequence(s) == s \in Seq(Range(s))

\* A tool call says what the agent is about to do, but for the description it
\* gives of a Bash command.
InputMarked(name, in) ==
    /\ IsSequence(in.fields)
    /\ \A f \in Range(in.fields) :
        /\ f.val.k = "list" => IsSequence(f.val.v)
        /\ (name = "Bash" /\ f.key = "description") \/ SpeakersIn(f.val) \subseteq {"call"}

EntryMarked(content) ==
    /\ content.k = "string" => IsSequence(content.says)
    /\ content.k = "blocks" =>
        /\ IsSequence(content.blocks)
        /\ \A b \in Range(content.blocks) :
            IsSequence(b.says) /\ (b.k = "tool_use" => InputMarked(b.name, b.in))

\* The user's words are the prompts and the queued commands: strings, and the
\* texts among blocks.
UserSpeaks(e) == (e.type = "user" /\ ~e.meta) \/ (e.type = "attachment" /\ e.queued)

UsersMarked(e) ==
    /\ e.content.k = "string" =>
        \A w \in Range(e.content.says) : (w.by = "user") <=> UserSpeaks(e)
    /\ e.content.k = "blocks" =>
        \A b \in Range(e.content.blocks) : \A w \in Range(b.says) :
            (w.by = "user") <=> UserSpeaks(e) /\ b.k = "text"

\* How Claude Code writes session files and hook inputs.  A blank line and one
\* that does not parse have no entry.
ASSUME SessionsAssumption ==
    \A c \in Calls :
        /\ InputMarked(c.tool, c.in)
        /\ c.agent # "" => c.agent_type # ""
        /\ \A path \in DOMAIN c.sessions :
            /\ IsSequence(c.sessions[path])
            /\ \A line \in Range(c.sessions[path]) :
                /\ EntryMarked(line.entry.content)
                /\ line.state \in {"whole", "too_long"} \/ line.entry.content.k = "other"
        /\ c.transcript \in DOMAIN c.sessions =>
            \A line \in Range(c.sessions[c.transcript]) : UsersMarked(line.entry)

\* A file has one text of its own in each place, and different files have
\* different ones, so that a text tells where it stands.
TextsApart(files) ==
    \A f, g \in DOMAIN files : \A i \in DOMAIN files[f].body, j \in DOMAIN files[g].body :
        LET one == files[f].body[i]
            other == files[g].body[j]
        IN  ~IsImport(one) /\ ~IsImport(other) /\ one.says = other.says => f = g /\ i = j

\* The files are known by their real paths; what they import and where the
\* loader looks are paths.
ASSUME InstructionsAssumption ==
    /\ MaxIncludeDepth \in Nat
    /\ \A c \in Calls :
        /\ \A f \in DOMAIN c.md :
            /\ f \in Names /\ RealPath(f) = f
            /\ IsSequence(c.md[f].body)
            /\ \A piece \in Range(c.md[f].body) :
                    IsImport(piece) => resolveImportPath(piece.ref, f) \in Names
        /\ TextsApart(c.md)
        /\ WalkOrder(ResolvePaths(c.configDir, c.project_dir, c.cwd).ConfigDir, c.cwd) \in Seq(Names)

VARIABLES
    call,       \* the hook input
    settings,   \* the contents of each settings file
    edits,      \* edits so far
    held,       \* the contents each file has had while the hook runs
    written,    \* the complete lines of each session file
    torn,       \* the session files whose last line is being written
    atStart,    \* the complete lines of each when the hook started
    stage,      \* where the hook stands
    pending,    \* the settings files still to be read
    scope,      \* env.PermScope
    bundle,     \* env.Instructions
    sources,    \* the session files still to be read, with their tag
    records,    \* what the judge is shown of them
    prompt      \* the prompt, in a sequence of at most one

environment == <<call, settings, edits, held, written, torn, atStart>>

vars == <<environment, stage, pending, scope, bundle, sources, records, prompt>>

Init ==
    /\ call \in Calls
    /\ settings \in [DOMAIN Settings -> Contents]
    /\ \A f \in DOMAIN Settings : settings[f] \in Settings[f]
    /\ held = [f \in DOMAIN Settings |-> {settings[f]}]
    /\ written \in [DOMAIN call.sessions -> {0, 1}]
    /\ \A f \in DOMAIN written : written[f] <= Len(call.sessions[f])
    /\ torn = {} /\ atStart = written /\ edits = 0
    /\ stage = "start" /\ pending = <<>> /\ scope = NoScope /\ bundle = NoBundle
    /\ sources = <<>> /\ records = <<>> /\ prompt = <<>>

----------------------------------------------------------------------------
Paths == ResolvePaths(call.configDir, call.project_dir, call.cwd)

SettingsOf(path) == IF path \in DOMAIN settings THEN settings[path] ELSE Absent

Existing == {f \in DOMAIN settings : settings[f] # Absent}

Goto(next) == stage' = next

\* Hook.Run: an input that cannot be read and auto mode end without a vote.
\* permscope.Resolve takes the files that exist now.
Start ==
    /\ stage = "start"
    /\ \/ /\ ~call.readable \/ call.mode = "auto"
          /\ Goto("silent") /\ UNCHANGED <<pending, scope>>
       \/ /\ call.readable /\ call.mode # "auto"
          /\ pending' = OnlyIn(Candidates(Paths), Existing)
          /\ scope' = ScopeOf(call.cwd)
          /\ Goto("settings")
    /\ UNCHANGED <<environment, bundle, sources, records, prompt>>

\* One file of buildResolution.  A file removed meanwhile is passed over; one
\* that cannot be read or parsed leaves no scope at all.
ReadSettings ==
    /\ stage = "settings" /\ pending # <<>>
    /\ LET content == SettingsOf(pending[1])
       IN  \/ /\ content = Absent \/ (content.state = "text" /\ ~content.has)
              /\ pending' = Tail(pending) /\ UNCHANGED <<scope, stage>>
           \/ /\ content # Absent /\ content.state = "text" /\ content.has
              /\ scope' = Widened(scope, Paths, pending[1], content)
              /\ pending' = Tail(pending) /\ stage' = stage
           \/ /\ content # Absent /\ content.state # "text"
              /\ scope' = NoScope /\ pending' = <<>> /\ Goto("instructions")
    /\ UNCHANGED <<environment, bundle, sources, records, prompt>>

SettingsRead ==
    /\ stage = "settings" /\ pending = <<>>
    /\ Goto("instructions")
    /\ UNCHANGED <<environment, pending, scope, bundle, sources, records, prompt>>

\* Loader.Load; buildEnv goes on without instructions when it fails.
LoadInstructions ==
    /\ stage = "instructions"
    /\ bundle' = Load(call.md, Paths.ConfigDir, call.cwd)
    /\ Goto("skip")
    /\ UNCHANGED <<environment, pending, scope, sources, records, prompt>>

\* Pipeline.checkSkippable.
CheckSkippable ==
    /\ stage = "skip"
    /\ Goto(IF Skippable(call.tool, call.in, scope.dirs, call.cwd) THEN "silent" ELSE "transcript")
    /\ UNCHANGED <<environment, pending, scope, bundle, sources, records, prompt>>

fileExists(path) == path # NoPath /\ path \in DOMAIN written

SubPath == SubagentTranscriptPath(call.transcript, call.agent)

SourceOf(path, tag) == IF fileExists(path) THEN <<[path |-> path, tag |-> tag]>> ELSE <<>>

MainSource == SourceOf(call.transcript, "")

SubSource == SourceOf(SubPath, call.agent_type)

\* loadTranscript looks for both session files before it reads either.
FindTranscripts ==
    /\ stage = "transcript"
    /\ sources' = MainSource \o SubSource
    /\ Goto("read")
    /\ UNCHANGED <<environment, pending, scope, bundle, records, prompt>>

\* The lines of a session file, the last perhaps half written.
LinesOf(path) ==
    SubSeq(call.sessions[path], 1, written[path]) \o
    (IF path \in torn THEN <<[state |-> "torn", entry |-> call.sessions[path][written[path] + 1].entry]>>
     ELSE <<>>)

\* A file that cannot be scanned ends the call as onClassifierError says.
ReadTranscript ==
    /\ stage = "read" /\ sources # <<>>
    /\ LET lines == LinesOf(sources[1].path)
       IN  \/ /\ Readable(lines)
              /\ records' = records \o Records(lines, sources[1].tag)
              /\ sources' = Tail(sources) /\ stage' = stage
           \/ /\ ~Readable(lines)
              /\ Goto("error") /\ UNCHANGED <<records, sources>>
    /\ UNCHANGED <<environment, pending, scope, bundle, prompt>>

----------------------------------------------------------------------------
sanitizeUserIdentity(text) ==
    LET kept == SelectSeq(text, LAMBDA c : c \in IdentityChars)
    IN  IF Len(kept) > MaxIdentity THEN SubSeq(kept, 1, MaxIdentity) ELSE kept

BeforeAt(text) ==
    IF Contains(text, "@") THEN SubSeq(text, 1, SelectInSeq(text, LAMBDA c : c = "@") - 1) ELSE text

\* The first of the variables, then of git, that still says something.
sessionUserIdentity(names) ==
    LET said == SelectSeq([i \in 1 .. 4 |-> sanitizeUserIdentity(
                    CASE i = 1 -> names.GITHUB_ACTOR [] i = 2 -> names.USER
                      [] i = 3 -> names.USERNAME [] i = 4 -> BeforeAt(names.git_email))],
                    LAMBDA id : id # <<>>)
    IN  IF said = <<>> THEN <<>> ELSE said[1]

needsSessionUserContext(policy, deny) ==
    (policy.allow \cup policy.soft_deny \cup policy.hard_deny \cup deny) \cap UserRules # {}

sessionContextBlock(deny) ==
    IF needsSessionUserContext(call.policy, deny) THEN sessionUserIdentity(call.names) ELSE <<>>

\* The environment is never empty, the project root is named where it
\* differs, and the directory itself is left out by its own name.
systemDataFor(p, granted) ==
    [allow |-> call.policy.allow, soft_deny |-> call.policy.soft_deny,
     hard_deny |-> call.policy.hard_deny,
     environment |-> IF call.policy.environment = {} THEN BundledEnvironment
                     ELSE call.policy.environment,
     cwd |-> p.Cwd,
     project_root |-> IF p.ProjectRoot # p.Cwd THEN p.ProjectRoot ELSE NoPath,
     additional |-> granted.dirs \ {p.Cwd},
     deny |-> granted.deny]

\* The transcript with the proposed call at its end.
buildUserBody(recs, proposed) == Append(recs, proposed)

\* prompt.Build.
Build(p, granted, instructions, recs, proposed) ==
    [system |-> systemDataFor(p, granted), user |-> sessionContextBlock(granted.deny),
     instructions |-> instructions, body |-> buildUserBody(recs, proposed)]

BuildPrompt ==
    /\ stage = "read" /\ sources = <<>>
    /\ prompt' = <<Build(Paths, scope, bundle.sections, records, CallRecord(call.tool, call.in, ""))>>
    /\ Goto("done")
    /\ UNCHANGED <<environment, pending, scope, bundle, sources, records>>

----------------------------------------------------------------------------
Running == stage \notin {"silent", "error", "done"}

\* Somebody edits, makes or removes a settings file.  Nothing here reads the
\* settings once the scope is there, so later edits are left out.
EditSettings(f) ==
    /\ stage \in {"start", "settings"} /\ edits < MaxEdits
    /\ \E content \in Settings[f] \ {settings[f]} :
        /\ settings' = [settings EXCEPT ![f] = content]
        /\ held' = [held EXCEPT ![f] = @ \cup {content}]
    /\ edits' = edits + 1
    /\ UNCHANGED <<call, written, torn, atStart, stage, pending, scope, bundle, sources, records, prompt>>

\* Claude Code appends a line, in two writes.
AppendLine(f) ==
    /\ Running /\ written[f] < Len(call.sessions[f])
    /\ \/ f \notin torn /\ torn' = torn \cup {f} /\ written' = written
       \/ f \in torn /\ torn' = torn \ {f} /\ written' = [written EXCEPT ![f] = @ + 1]
    /\ UNCHANGED <<call, settings, edits, held, atStart, stage, pending, scope, bundle, sources,
                   records, prompt>>

Ended == ~Running /\ UNCHANGED vars

Next ==
    \/ Start \/ ReadSettings \/ SettingsRead \/ LoadInstructions \/ CheckSkippable
    \/ FindTranscripts \/ ReadTranscript \/ BuildPrompt \/ Ended
    \/ \E f \in DOMAIN settings : EditSettings(f)
    \/ \E f \in DOMAIN written : AppendLine(f)

Spec == Init /\ [][Next]_vars

----------------------------------------------------------------------------
Looking == stage \notin {"start", "settings"} /\ call.readable /\ call.mode # "auto"

HeldBy(f) == IF f \in DOMAIN held THEN held[f] ELSE {Absent}

\* The real directories that somebody other than the repository vouched for
\* at some time of the call.
Vouched ==
    LET files == Range(Candidates(Paths)) \ RepoProjectFile(Paths)
        said == (UNION {HeldBy(f) : f \in files}) \ {Absent}
    IN  ScopeOf(call.cwd).dirs \cup {RealDir(dir) : dir \in UNION {content.dirs : content \in said}}

\* The deny rules of a file that stayed as it was.
DenyKept(f) ==
    IF Cardinality(HeldBy(f)) # 1 THEN {}
    ELSE UNION {content.deny : content \in HeldBy(f) \ {Absent}}

AllParse ==
    \A f \in Range(Candidates(Paths)) :
        \A content \in HeldBy(f) : content = Absent \/ content.state = "text"

\* permscope.go: additionalDirectories come "only from tiers a hostile repo
\* can't control", while "Extra deny patterns from a hostile repo can only ever
\* block more".  Whatever is edited while the settings are read, no trusted
\* directory comes from the repository's own file, a file tool passes without
\* the judge only when its real target lies in a trusted directory, and no deny
\* rule of a file that stayed in place is lost while every file parses.
RepoCannotWiden ==
    Looking =>
        /\ scope.dirs \subseteq Vouched
        /\ stage = "silent" /\ Tool(call.tool) # "safe" =>
                \E val \in Range(stringField(call.in, PathField(call.tool))) :
                    \E dir \in Vouched : IsPrefix(dir.seg, RealPath(val.v).seg)
        /\ AllParse => \A f \in Range(Candidates(Paths)) : DenyKept(f) \subseteq scope.deny

\* What the user said of some words; by is not read by the code.
ByUser(words) == OnlyIn(words, {w \in Range(words) : w.by = "user"})

\* The user's words in a line, in their order.
UserWordsIn(content) ==
    CASE content.k = "string" -> ByUser(content.says)
      [] content.k = "blocks" ->
            FlattenSeq([i \in DOMAIN content.blocks |-> ByUser(content.blocks[i].says)])
      [] OTHER -> <<>>

UserWords(lines) == FlattenSeq([i \in DOMAIN lines |-> UserWordsIn(lines[i].entry.content)])

\* What the judge is shown as the user's words.
HeardOf(r) == IF r.kind = "user" /\ r.subagent = "" THEN r.user ELSE <<>>

Heard(body) == FlattenSeq([i \in DOMAIN body |-> HeardOf(body[i])])

SpeakersOf(r) ==
    IF r.kind = "user" THEN {w.by : w \in Range(r.user)}
    ELSE UNION {SpeakersIn(val) : val \in Range(r.input)}

\* The session the hook is told about, how many of its lines a count by file
\* gives it, and what the user said in its first k lines.
MainLines == IF fileExists(call.transcript) THEN call.sessions[call.transcript] ELSE <<>>

MainCount(n) == IF fileExists(call.transcript) THEN n[call.transcript] ELSE 0

SaidBy(k) == UserWords(SubSeq(MainLines, 1, k))

\* prompt.go: "the classifier sees ONLY the user's stated intent (real user
\* prompts) and the agent's tool calls (sanitized inputs)".  The words shown as
\* the user's are exactly those the user had written when the hook started, and
\* of those written since, the ones that came first; neither the assistant's
\* prose nor a tool's output, a system message or a Bash description is shown
\* anywhere, but for what opened a subagent's session, which is marked (a
\* subagent has a type; see Calls).
OnlyTheUserArgues ==
    stage = "done" =>
        LET body == prompt[1].body
        IN  /\ IsPrefix(SaidBy(MainCount(atStart)), Heard(body))
            /\ IsPrefix(Heard(body), SaidBy(MainCount(written)))
            /\ \A i \in DOMAIN body :
                    \/ SpeakersOf(body[i]) \subseteq {"user", "call"}
                    \/ body[i].kind = "user" /\ body[i].subagent # ""

\* The text a file has of its own, and how often a piece of it is shown.
OwnText(f) ==
    {piece.says : piece \in {p \in Range(call.md[f].body) : ~IsImport(p)}}

Times(text) ==
    LET shown == FlattenSeq([i \in DOMAIN bundle.sections |-> bundle.sections[i].text])
    IN  Cardinality({i \in DOMAIN shown : shown[i] = text})

Roots == {RealPath(path) : path \in Range(WalkOrder(Paths.ConfigDir, call.cwd))} \cap DOMAIN call.md

\* claudemd.go: "the same file can't be visited twice via different symlinks".
\* Imports may form cycles, a root may be imported by an earlier one, and
\* several names may lead to one file: no text is shown twice, and what a root
\* says of its own is shown once, unless a read failed and nothing is.
InstructionsOnce ==
    Looking /\ stage # "instructions" /\ bundle.ok =>
        \A f \in DOMAIN call.md : \A text \in OwnText(f) :
            IF f \in Roots THEN Times(text) = 1 ELSE Times(text) <= 1

----------------------------------------------------------------------------
(***************************************************************************)
(* The inductive invariant behind RepoCannotWiden.                         *)
(***************************************************************************)

\* The contents a file has had are contents it may have, its present ones
\* among them.
SettingsHeld ==
    /\ settings \in [DOMAIN Settings -> Contents]
    /\ held \in [DOMAIN Settings -> SUBSET Contents]
    /\ \A f \in DOMAIN Settings : IsFiniteSet(held[f]) /\ settings[f] \in held[f]

Asked == call.readable /\ call.mode # "auto"

\* A file of the resolution that is still to be read.
Unread(f) == stage = "settings" /\ f \in Range(pending)

\* The deny rules of a file that stayed in place are in the scope, or the file
\* is still to be read.
DenyCollected ==
    Asked /\ stage # "start" /\ AllParse =>
        \A f \in Range(Candidates(Paths)) : Unread(f) \/ DenyKept(f) \subseteq scope.deny

\* A file tool passed the judge for a target in a directory vouched for.
PassedInside ==
    Asked /\ stage = "silent" /\ Tool(call.tool) # "safe" =>
        \E val \in Range(stringField(call.in, PathField(call.tool))) :
            \E dir \in Vouched : IsPrefix(dir.seg, RealPath(val.v).seg)

ScopeInv ==
    /\ call \in Calls
    /\ SettingsHeld
    /\ pending \in Seq(Range(Candidates(Paths)))
    /\ scope.dirs \subseteq Vouched
    /\ DenyCollected
    /\ PassedInside

----------------------------------------------------------------------------
(***************************************************************************)
(* The inductive invariant behind OnlyTheUserArgues.                       *)
(***************************************************************************)

\* A session file only grows, and a torn line is one of its lines.
SessionsGrow ==
    /\ DOMAIN written = DOMAIN call.sessions /\ DOMAIN atStart = DOMAIN call.sessions
    /\ \A f \in DOMAIN call.sessions :
        /\ atStart[f] \in Nat /\ written[f] \in Nat
        /\ atStart[f] <= written[f] /\ written[f] <= Len(call.sessions[f])
        /\ f \in torn => written[f] < Len(call.sessions[f])

\* A record has the words of the user or of the call, or is a subagent's.
Marked(r) ==
    /\ IsSequence(HeardOf(r))
    /\ SpeakersOf(r) \subseteq {"user", "call"} \/ (r.kind = "user" /\ r.subagent # "")

\* What has been read of the session is its lines up to some moment of the call.
Listened(body) ==
    /\ IsSequence(body) /\ \A r \in Range(body) : Marked(r)
    /\ \E k \in MainCount(atStart) .. MainCount(written) : Heard(body) = SaidBy(k)

HeardInv ==
    /\ call \in Calls
    /\ SessionsGrow
    /\ stage \in {"start", "settings", "instructions", "skip", "transcript"} => records = <<>>
    /\ stage = "read" =>
        \/ records = <<>> /\ sources = MainSource \o SubSource
        \/ sources \in {SubSource, <<>>} /\ Listened(records)
    /\ stage = "done" => Listened(prompt[1].body)

----------------------------------------------------------------------------
\* What the loader made of the files is kept.
InstructionsInv ==
    /\ call \in Calls
    /\ stage \notin {"start", "settings", "instructions"} /\ Asked =>
            bundle = Load(call.md, Paths.ConfigDir, call.cwd)
=============================================================================
