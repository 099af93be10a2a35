------------------------------ MODULE ClaudeMd ------------------------------
(***************************************************************************)
(* internal/claudecode/claudemd: the CLAUDE.md files that speak for a      *)
(* directory, with their imports put in place.  The files are a function   *)
(* from real paths to                                                      *)
(*   state ("text", "unreadable": a directory, or a failing read), body    *)
(* and a body is a sequence of pieces                                      *)
(*   k ("text", "import"), says (what a text says), ref (a path), code     *)
(* where code marks an @path inside a fence or an inline span.  White      *)
(* space and the #section of an import are left out.                       *)
(***************************************************************************)
EXTENDS ProjectMatch

CONSTANTS
    MaxIncludeDepth,    \* imports nested deeper are dropped
    ManagedMd,          \* the managed CLAUDE.md files of the system
    RuleNames           \* the "*.md" names a .claude/rules directory may hold, sorted

Rel(seg) == Path("rel", seg)

\* Every directory from the root down to cwd.
ancestorsRootDown(cwd) == [i \in 1 .. Len(cwd.seg) + 1 |-> Path(cwd.base, SubSeq(cwd.seg, 1, i - 1))]

DirFiles(dir) ==
    <<Join(dir, Rel(<<"CLAUDE.md">>)), Join(dir, Rel(<<".claude", "CLAUDE.md">>)),
      Join(dir, Rel(<<"CLAUDE.local.md">>))>>

RuleFiles(dir) ==
    [i \in DOMAIN RuleNames |-> Join(dir, Rel(<<".claude", "rules", RuleNames[i]>>))]

Upwards(cwd) == IF cwd = NoPath THEN <<>> ELSE ancestorsRootDown(cwd)

candidateRoots(configDir, cwd) ==
    ManagedMd
        \o (IF configDir = NoPath THEN <<>> ELSE <<Join(configDir, Rel(<<"CLAUDE.md">>))>>)
        \o FlattenSeq([i \in DOMAIN Upwards(cwd) |-> DirFiles(Upwards(cwd)[i])])

\* The candidates, then what the rules directories list, lowest priority first.
WalkOrder(configDir, cwd) ==
    candidateRoots(configDir, cwd) \o
    FlattenSeq([i \in DOMAIN Upwards(cwd) |-> RuleFiles(Upwards(cwd)[i])])

\* An @-import: ~, absolute, or relative to the file that imports.
resolveImportPath(ref, importer) ==
    CASE ref.base = "home" -> ExpandTilde(ref)
      [] ref.base = "abs"  -> ref
      [] OTHER -> Join(Path(importer.base, Front(importer.seg)), ref)

IsImport(piece) == piece.k = "import" /\ ~piece.code

----------------------------------------------------------------------------
\* Mutant of Visited: only the name a file was reached by is remembered.
Visited_AliasOnly(visited, resolved, path) == visited \cup {path}

\* cycleSet.add: both the file and the name it was reached by.
Visited(visited, resolved, path) == visited \cup {resolved, path}

\* The names a file may be reached by.
Names == [t : {"path"}, base : STRING, seg : Seq(STRING)]

\* What reading yields: whether it went well, the text, the files it came
\* from, and the paths visited by then.
Reading(text, sources, visited) ==
    [ok |-> TRUE, text |-> text, sources |-> sources, visited |-> visited]

\* One reading after another; a failed one fails everything above it.
Continued(acc, next) ==
    [ok |-> next.ok, text |-> acc.text \o next.text,
     sources |-> acc.sources \o next.sources, visited |-> next.visited]

\* A piece of a file stands for itself, or for what it imports.
PieceRead(piece, file, visited, deeper) ==
    IF IsImport(piece) THEN deeper[<<resolveImportPath(piece.ref, file), visited>>]
    ELSE Reading(<<piece.says>>, <<>>, visited)

\* The body of a file, its imports read by deeper.
BodyRead(body, file, visited, deeper) ==
    LET upTo[n \in 0..Len(body)] ==
            IF n = 0 THEN Reading(<<>>, <<file>>, visited)
            ELSE LET acc == upTo[n - 1]
                 IN  IF acc.ok THEN Continued(acc, PieceRead(body[n], file, acc.visited, deeper)) ELSE acc
    IN  upTo[Len(body)]

\* A file is visited before it is read, and once over the whole walk.
FileRead(files, path, visited, deeper) ==
    LET resolved == RealPath(path)
    IN  IF resolved \notin DOMAIN files \/ resolved \in visited THEN Reading(<<>>, <<>>, visited)
        ELSE IF files[resolved].state = "unreadable"
             THEN [ok |-> FALSE, text |-> <<>>, sources |-> <<>>, visited |-> visited]
             ELSE BodyRead(files[resolved].body, resolved, Visited(visited, resolved, path), deeper)

\* What a path and the paths visited so far yield, with imports nested up to
\* MaxIncludeDepth deep put in.
readWithImports(files) ==
    LET level[n \in 0 .. MaxIncludeDepth + 1] ==
            [at \in Names \X SUBSET Names |->
                IF n = 0 THEN Reading(<<>>, <<>>, at[2])
                ELSE FileRead(files, at[1], at[2], level[n - 1])]
    IN  level[MaxIncludeDepth + 1]

NoBundle == [ok |-> TRUE, sections |-> <<>>, sources |-> <<>>]

\* A file that comes out empty is no section.
WithSection(acc, r) ==
    LET more == r.text # <<>>
    IN  [ok |-> r.ok, visited |-> r.visited,
         sections |-> acc.sections \o
                      IF more THEN <<[path |-> r.sources[1], text |-> r.text]>> ELSE <<>>,
         sources |-> acc.sources \o IF more THEN r.sources ELSE <<>>]

\* Loader.build, after the first n files of order.
Walked(files, order) ==
    LET upTo[n \in 0..Len(order)] ==
            IF n = 0 THEN [ok |-> TRUE, visited |-> {}, sections |-> <<>>, sources |-> <<>>]
            ELSE LET acc == upTo[n - 1]
                 IN  IF acc.ok
                     THEN WithSection(acc, readWithImports(files)[<<order[n], acc.visited>>])
                     ELSE acc
    IN  upTo[Len(order)]

\* Loader.Load.  When a read fails there is no bundle at all.
Load(files, configDir, cwd) ==
    LET all == Walked(files, WalkOrder(configDir, cwd))
    IN  IF all.ok THEN [ok |-> TRUE, sections |-> all.sections, sources |-> all.sources]
        ELSE [NoBundle EXCEPT !.ok = FALSE]
=============================================================================
