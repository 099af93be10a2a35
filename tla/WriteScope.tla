----------------------------- MODULE WriteScope -----------------------------
(***************************************************************************)
(* Where a command under evaluation may write (ast/redirect.go).  A scope  *)
(* is the directory the command runs in, the project root, and for a       *)
(* remote command the write patterns of its host: cwd, root, dirs.  An     *)
(* unset cwd or root is NoPath, an unset dirs the empty set.               *)
(***************************************************************************)
EXTENDS ProjectMatch

DevNull == Path("abs", <<"dev", "null">>)

safeRedirectTargets == {DevNull}

\* Mutant of resolveToAbsolute: symbolic links are not followed.
resolveToAbsolute_Lexical(scope, tok) ==
    LET p == ExpandTilde(AsPath(tok))
    IN  IF p.base = "abs" THEN Path("abs", Clean(p.seg))
        ELSE IF scope.cwd = NoPath THEN NoPath
        ELSE Join(scope.cwd, p)

\* The absolute, symlink-free path a token names, or NoPath.
resolveToAbsolute(scope, tok) ==
    LET p == ExpandTilde(AsPath(tok))
    IN  IF p.base = "abs" THEN RealPath(p)
        ELSE IF scope.cwd = NoPath THEN NoPath
        ELSE RealPath(Join(scope.cwd, p))

\* Neither ~ nor a link is followed on a remote path.
isRemotePathAllowed(scope, p) ==
    LET target == IF p.base = "rel" THEN Join(scope.cwd, p) ELSE p
    IN  \E pattern \in scope.dirs : GlobMatch(pattern, target)

\* An evaluation without a directory may write nowhere else, which is every
\* evaluation of a remote command.
isPathAllowed(projects, scope, tok) ==
    LET p == ExpandTilde(AsPath(tok))
        target == IF p.base = "rel" THEN Join(scope.cwd, p) ELSE p
    IN  \/ AsPath(tok) \in safeRedirectTargets
        \/ /\ scope.cwd # NoPath
           /\ IF scope.dirs # {} THEN isRemotePathAllowed(scope, AsPath(tok))
              ELSE IsWriteAllowed(projects, target, scope.cwd, scope.root)

\* Mutant of NestedScope: a remote command keeps the local directory.
NestedScope_KeepsCwd(scope, request) ==
    IF request.remote
    THEN [cwd |-> scope.cwd, dirs |-> request.dirs,
          root |-> IF request.dirs = {} THEN scope.root ELSE NoPath]
    ELSE [scope EXCEPT !.root = IF scope.dirs = {} THEN @ ELSE NoPath]

\* walker.recurse with the arguments evalSshRemoteEval and evalRecurseEval
\* give it: a remote command has no directory, and write patterns of its own;
\* a write scope of any host drops the project root.
NestedScope(scope, request) ==
    IF request.remote
    THEN [cwd |-> NoPath, dirs |-> request.dirs,
          root |-> IF request.dirs = {} THEN scope.root ELSE NoPath]
    ELSE [scope EXCEPT !.root = IF scope.dirs = {} THEN @ ELSE NoPath]
=============================================================================
