---------------------------- MODULE ProjectMatch ----------------------------
(***************************************************************************)
(* Which of the configured projects speak for a directory, and what they   *)
(* grant: config.Resolver, staticbash/policy, the rule-set merge and the   *)
(* path helpers they stand on.  A configuration is a sequence of projects  *)
(*   path_patterns, rules (a sequence of at most one static_bash_rules     *)
(*   block), classifier (a sequence of at most one block)                  *)
(* and a static_bash_rules block is                                        *)
(*   source ("default", "custom", "unset"), rule_set (a sequence of specs),*)
(*   project_write, write_patterns, remote_hosts.                          *)
(* A pattern is a path whose last segment may be "**".                     *)
(***************************************************************************)
EXTENDS BashSyntax, Integers

CONSTANTS
    Home,           \* the home directory, or None
    Links,          \* symbolic links: records from, to of the places (segment
                    \* sequences) where they are and where they finally lead
    Missing,        \* the places where nothing exists, with all below them
    DefaultRules    \* the compiled-in rule set, or <<>> when it cannot be parsed

NoPath == None

\* The elements of a sequence that are in a set, in their order.
OnlyIn(s, set) == FlattenSeq([i \in DOMAIN s |-> IF s[i] \in set THEN <<s[i]>> ELSE <<>>])

Up(seg) == IF seg = <<>> THEN seg ELSE Front(seg)

\* filepath.Clean on an absolute path: ".." removes the name it follows.
Clean(seg) ==
    IF ".." \notin Range(seg) THEN seg
    ELSE FoldLeft(LAMBDA acc, s : IF s = ".." THEN Up(acc) ELSE Append(acc, s), <<>>, seg)

Join(dir, p) == Path(dir.base, Clean(dir.seg \o p.seg))

\* Without a home directory the tilde is a name like any other.
ExpandTilde(p) ==
    IF p.base # "home" THEN p
    ELSE IF Home # NoPath THEN Path("abs", Clean(Home.seg \o p.seg))
    ELSE Path("rel", <<"~">> \o p.seg)

----------------------------------------------------------------------------
LinksAt(place) == {l \in Links : l.from = place}

\* A place in the sense of the file system, or NoPath when nothing is there.
AtPlace(place) == IF \A m \in Missing : ~IsPrefix(m, place) THEN Path("abs", place) ELSE NoPath

Linked(place) == IF LinksAt(place) = {} THEN place ELSE (CHOOSE l \in Links : l.from = place).to

\* Where a name leads from a place: ".." leaves the place itself, not the name
\* it was reached by.
Follow(at, s) ==
    IF at = NoPath THEN NoPath
    ELSE AtPlace(IF s = ".." THEN Up(at.seg) ELSE Linked(Append(at.seg, s)))

\* filepath.EvalSymlinks on an absolute path: the existing place it leads to,
\* name by name, or NoPath.
EvalSymlinks(seg) ==
    LET at[n \in 0..Len(seg)] == IF n = 0 THEN Path("abs", <<>>) ELSE Follow(at[n - 1], seg[n])
    IN  at[Len(seg)]

\* The length of the longest prefix that leads somewhere.
Reaches(seg) ==
    LET there == {n \in 0..Len(seg) : EvalSymlinks(SubSeq(seg, 1, n)) # NoPath}
    IN  CHOOSE n \in there : \A m \in there : m <= n

\* Where the first n names lead, and the others as they are.
Resolving(n, seg) ==
    Path("abs", EvalSymlinks(SubSeq(seg, 1, n)).seg \o SubSeq(seg, n + 1, Len(seg)))

Either(real, cleaned) == IF real # NoPath THEN real ELSE Resolving(Reaches(cleaned), cleaned)

\* Where an existing path leads.  Of another, cleaned, where its longest existing
\* prefix leads.
RealPath(p) ==
    IF p.base = "abs" THEN Either(EvalSymlinks(p.seg), Clean(p.seg)) ELSE Path(p.base, Clean(p.seg))

----------------------------------------------------------------------------
IsPathUnder(p, dir) ==
    LET real == RealPath(p)
        top == RealPath(dir)
    IN  real.base = top.base /\ IsPrefix(top.seg, real.seg)

\* doublestar.Match: "**" stands for any number of segments.
GlobMatch(pattern, p) ==
    /\ pattern.base = p.base
    /\ IF pattern.seg # <<>> /\ Last(pattern.seg) = "**"
       THEN IsPrefix(Front(pattern.seg), p.seg)
       ELSE pattern.seg = p.seg

MatchResolved(pattern, p) == GlobMatch(pattern, p) \/ GlobMatch(pattern, RealPath(p))

----------------------------------------------------------------------------
Covers(pattern, root) == MatchResolved(ExpandTilde(pattern), root)

\* An unset directory is matched by no pattern.
projectMatches(project, root) ==
    root # NoPath /\ \E pattern \in project.path_patterns : Covers(pattern, root)

MatchingProjects(projects, root) ==
    SelectSeq(projects, LAMBDA project : projectMatches(project, root))

\* The bytes of an absolute path: its names, with a slash before each.
Bytes(p) == FoldLeft(LAMBDA n, name : n + 1 + Len(name), 0, p.seg)

\* The length in bytes of the longest pattern that matches.
projectSpecificity(project, root) ==
    LET lengths == {Bytes(ExpandTilde(p)) : p \in {q \in project.path_patterns : Covers(q, root)}}
    IN  CHOOSE n \in lengths \cup {0} : \A m \in lengths \cup {0} : m <= n

\* The projects that match and have a classifier block, by position.
Judging(projects, root) ==
    {i \in DOMAIN projects : projectMatches(projects[i], root) /\ projects[i].classifier # <<>>}

\* Mutant of MatchingLlmClassifier: of equally specific projects the first wins.
MatchingLlmClassifier_FirstWins(projects, root) ==
    LET sp(i) == projectSpecificity(projects[i], root)
        best[n \in 0..Len(projects)] ==
            IF n = 0 THEN 0
            ELSE IF n \in Judging(projects, root) /\ (best[n - 1] = 0 \/ sp(n) > sp(best[n - 1]))
                 THEN n ELSE best[n - 1]
        last == best[Len(projects)]
    IN  IF last = 0 THEN <<>> ELSE projects[last].classifier

\* The block of the most specific matching project, one after the other
\* compared with the best so far; 0: none yet.
MatchingLlmClassifier(projects, root) ==
    LET sp(i) == projectSpecificity(projects[i], root)
        best[n \in 0..Len(projects)] ==
            IF n = 0 THEN 0
            ELSE IF n \in Judging(projects, root) /\ (best[n - 1] = 0 \/ sp(n) >= sp(best[n - 1]))
                 THEN n ELSE best[n - 1]
        last == best[Len(projects)]
    IN  IF last = 0 THEN <<>> ELSE projects[last].classifier

----------------------------------------------------------------------------
\* The static_bash_rules blocks that speak for a directory, in order.
Blocks(projects, dir) ==
    LET matching == MatchingProjects(projects, dir)
    IN  FlattenSeq([i \in DOMAIN matching |-> matching[i].rules])

\* policy.IsWriteAllowed: any matching project may grant it.
IsWriteAllowed(projects, path, cwd, projectRoot) ==
    \E block \in Range(Blocks(projects, cwd)) :
        \/ block.project_write /\ projectRoot # NoPath /\ IsPathUnder(path, projectRoot)
        \/ \E pattern \in block.write_patterns : MatchResolved(ExpandTilde(pattern), path)

\* policy.MatchRemoteHost: the first host entry that covers host, in a
\* sequence, empty when there is none.
MatchRemoteHost(projects, host, cwd) ==
    LET blocks == Blocks(projects, cwd)
        entries == FlattenSeq([i \in DOMAIN blocks |-> blocks[i].remote_hosts])
        covering == SelectSeq(entries, LAMBDA rh : \E p \in rh.host_patterns : GlobMatch(p, AsPath(host)))
    IN  IF covering = <<>> THEN <<>> ELSE <<covering[1]>>

----------------------------------------------------------------------------
\* rules.LookupCommand: the first spec that has the name, in a sequence.
LookupCommand(ruleSet, name) ==
    LET having == {i \in DOMAIN ruleSet : name \in ruleSet[i].names}
    IN  IF having = {} THEN <<>>
        ELSE <<ruleSet[CHOOSE i \in having : \A j \in having : i <= j]>>

\* A spec that shares a name with one already merged is left out as a whole.
MergeSpec(merged, spec) ==
    IF \E s \in Range(merged) : s.names \cap spec.names # {} THEN merged ELSE Append(merged, spec)

MergeSpecs(specs) ==
    LET merged[n \in 0..Len(specs)] == IF n = 0 THEN <<>> ELSE MergeSpec(merged[n - 1], specs[n])
    IN  merged[Len(specs)]

\* Mutant of MergeRuleSets: the first set wins.
MergeRuleSets_FirstWins(sets) == MergeSpecs(FlattenSeq(sets))

\* rules.MergeRuleSets: later sets first.
MergeRuleSets(sets) == MergeSpecs(FlattenSeq(Reverse(sets)))

\* What a static_bash_rules block contributes.
Contributes(block) ==
    CASE block.source = "default" /\ DefaultRules # <<>> -> <<DefaultRules>>
      [] block.source = "custom" -> <<block.rule_set>>
      [] OTHER -> <<>>

ContributedSets(projects, root) ==
    LET blocks == Blocks(projects, root)
    IN  FlattenSeq([i \in DOMAIN blocks |-> Contributes(blocks[i])])

\* staticbash.resolveRules.  No rule set at all is found as empty as one
\* without specs.
resolveRules(projects, root) == MergeRuleSets(ContributedSets(projects, root))
=============================================================================
