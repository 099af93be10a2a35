----------------------------- MODULE BashSyntax -----------------------------
(***************************************************************************)
(* The syntax tree of a Bash command as internal/staticbash/ast walks it.  *)
(* A node is a record whose field k is its kind.  Kinds without a rule of  *)
(* their own keep their children in the field kids.  What the walker never *)
(* looks into (the source of an input redirect, an array index, a comment) *)
(* is no child.                                                            *)
(*                                                                         *)
(*   stmt   bg, redirs, cmd (at most one)   if     cond, then, els         *)
(*   redir  op, word, hdoc                  while  cond, do                *)
(*   call   assigned, args                  for    loop, items, do         *)
(*   lit    v (a token)                     case   subject, items          *)
(*   param  exp, orig, with, offset, length                                *)
(*                                                                         *)
(* The loop of a for is over "words", also that of a select, or "cstyle".  *)
(*                                                                         *)
(* A token is what a literal word stands for: a path (a command name is a  *)
(* relative path), a cluster of short flags, a long flag with at most one  *)
(* value, `--`, or a quoted program.                                       *)
(***************************************************************************)
EXTENDS Sequences, SequencesExt

None == [t |-> "none"]

\* Nodes whose children are walked in order and nothing else is asked of them.
Containers == {"binary", "group", "test", "arithm", "time", "let", "expr",
               "item", "word", "dbl", "cmdsubst", "procsubst", "arithexp"}

Leaves == {"lit", "sgl", "extglob", "brace"}

\* The kinds the walker has a rule for; everything else it rejects.
Known == Containers \cup Leaves \cup
    {"stmt", "redir", "call", "if", "while", "for", "case", "param", "dispatch"}

\* The rule of a call is asked after its arguments have been walked: the
\* dispatch is one more child of the call.
Dispatch(call) == [k |-> "dispatch", call |-> call]

\* Mutant of Kids: the else branch is not walked.
Kids_SkipElse(n) ==
    CASE n.k \in Containers -> n.kids
      [] n.k = "stmt"  -> n.redirs \o n.cmd
      [] n.k = "redir" -> n.hdoc
      [] n.k = "call" /\ n.args # <<>> -> Append(Tail(n.args), Dispatch(n))
      [] n.k = "if"    -> n.cond \o n.then
      [] n.k = "while" -> n.cond \o n.do
      [] n.k = "for"   -> n.items \o n.do
      [] n.k = "case"  -> n.subject \o n.items
      [] n.k = "param" -> n.exp \o n.orig \o n.with \o n.offset \o n.length
      [] OTHER         -> <<>>

\* What the walker visits below n, in its order.
Kids(n) ==
    CASE n.k \in Containers -> n.kids
      [] n.k = "stmt"  -> n.redirs \o n.cmd
      [] n.k = "redir" -> n.hdoc
      [] n.k = "call" /\ n.args # <<>> -> Append(Tail(n.args), Dispatch(n))
      [] n.k = "if"    -> n.cond \o n.then \o n.els
      [] n.k = "while" -> n.cond \o n.do
      [] n.k = "for"   -> n.items \o n.do
      [] n.k = "case"  -> n.subject \o n.items
      [] n.k = "param" -> n.exp \o n.orig \o n.with \o n.offset \o n.length
      [] OTHER         -> <<>>

----------------------------------------------------------------------------
\* cmdcheck.LiteralString: the token of a word all of whose parts are literal.
\* Adjacent literals are one part here, so such a word has one part, and a
\* quoted one a single literal in it.
LiteralString(word) ==
    LET part == word.kids[1]
    IN  IF Len(word.kids) # 1 THEN None
        ELSE CASE part.k \in {"lit", "sgl"} -> part.v
               [] part.k = "dbl" /\ Len(part.kids) = 1 /\ part.kids[1].k = "lit" -> part.kids[1].v
               [] OTHER -> None

Path(base, seg) == [t |-> "path", base |-> base, seg |-> seg]

DashDash == [t |-> "dashdash"]

Short(chars) == [t |-> "short", chars |-> chars]

Long(name) == [t |-> "long", name |-> name, val |-> <<>>]

LongEq(name, val) == [t |-> "long", name |-> name, val |-> <<val>>]

isFlag(tok) == tok.t \in {"short", "long"}

\* A name that is one relative segment.
Name(s) == Path("rel", <<s>>)

\* What a token names when it is used as a path; no token is the empty path,
\* and a word that is no path names some file in the directory.
AsPath(tok) ==
    CASE tok = None -> Path("rel", <<>>)
      [] tok.t = "path" -> tok
      [] OTHER -> Path("rel", <<"word">>)

\* cmdcheck.CommandName: the base name of the first word.
CommandName(word) ==
    LET tok == LiteralString(word)
    IN  IF tok = None THEN None ELSE Name(Last(AsPath(tok).seg))
=============================================================================
