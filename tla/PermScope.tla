----------------------------- MODULE PermScope -----------------------------
(***************************************************************************)
(* internal/claudecode/paths and permscope: where Claude Code's settings   *)
(* and session files are, and the scope they grant.  A settings file is    *)
(*   state ("text", "malformed", "unreadable"), has (is there a            *)
(*   permissions block), dirs, deny                                        *)
(* and a file that does not exist has no contents.  Scopes are sets: the   *)
(* order in which directories and rules are listed is left out.            *)
(***************************************************************************)
EXTENDS ProjectMatch

CONSTANT ManagedSettings     \* the managed settings files of the system

ASSUME ManagedAssumption == ManagedSettings \in Seq(Range(ManagedSettings))

Below(dir, names) == Join(dir, Path("rel", names))

\* paths.Resolve.  NFC normalization is the identity on the model's names.
ResolvePaths(configDir, projectDir, cwd) ==
    [ConfigDir |-> IF configDir = NoPath THEN NoPath ELSE ExpandTilde(configDir),
     ProjectRoot |-> IF projectDir # NoPath THEN projectDir ELSE cwd,
     Cwd |-> cwd]

UserSettingsFile(p) ==
    IF p.ConfigDir = NoPath THEN <<>> ELSE <<Below(p.ConfigDir, <<"settings.json">>)>>

ProjectSettingsFiles(dir) ==
    IF dir = NoPath THEN <<>>
    ELSE <<Below(dir, <<".claude", "settings.json">>), Below(dir, <<".claude", "settings.local.json">>)>>

\* Lowest precedence first; every one that exists is read.
AllSettingsFiles(p, dir) == ManagedSettings \o UserSettingsFile(p) \o ProjectSettingsFiles(dir)

SettingsRoot(p) == IF p.ProjectRoot # NoPath THEN p.ProjectRoot ELSE p.Cwd

Candidates(p) == AllSettingsFiles(p, SettingsRoot(p))

\* The settings file that is checked into the repository, in a set.
RepoProjectFile(p) ==
    LET files == ProjectSettingsFiles(SettingsRoot(p)) IN IF files = <<>> THEN {} ELSE {files[1]}

NoScope == [dirs |-> {}, deny |-> {}]

RealDir(dir) == RealPath(ExpandTilde(dir))

\* What the scope is before the first settings file is read.
ScopeOf(cwd) == [dirs |-> IF cwd = NoPath THEN {} ELSE {RealDir(cwd)}, deny |-> {}]

\* Mutant of Widened: the repository's file grants directories like any other.
Widened_ByRepo(scope, p, path, content) ==
    [dirs |-> scope.dirs \cup {RealDir(dir) : dir \in content.dirs}, deny |-> scope.deny \cup content.deny]

\* buildResolution for one file that parsed: its deny rules always count, its
\* directories only when it is not the repository's file.
Widened(scope, p, path, content) ==
    [dirs |-> scope.dirs \cup (IF path \in RepoProjectFile(p) THEN {}
                               ELSE {RealDir(dir) : dir \in content.dirs}),
     deny |-> scope.deny \cup content.deny]

\* The session of a subagent, beside its parent's transcript.  The model
\* writes paths of transcripts without their extension.
SubagentTranscriptPath(parent, agent) ==
    IF parent = NoPath \/ agent = "" THEN NoPath
    ELSE Path(parent.base, parent.seg \o <<"subagents", agent>>)
=============================================================================
