---------------------------- MODULE ProgramCheck ----------------------------
(***************************************************************************)
(* The opaque checkers of internal/staticbash/builtins: does the program   *)
(* given to sed or awk only read?  A program is a token [t |-> "prog",     *)
(* text] whose text is a sequence of symbols: for sed single characters,   *)
(* for awk characters, quotes and whole identifiers.  Positions past the   *)
(* end are all the same to the code, as they are here.                     *)
(***************************************************************************)
EXTENDS BashSyntax, Integers

Digits == {"0", "1", "2", "3", "4", "5", "6", "7", "8", "9"}

NL == "newline"

At(prog, i) == IF i <= Len(prog) THEN prog[i] ELSE "end"

\* The first position from i on that holds a symbol of stops, or lies past the
\* end.
SkipUntil(prog, i, stops) ==
    CHOOSE j \in i..(Len(prog) + 2) :
        /\ At(prog, j) \in stops \cup {"end"}
        /\ \A k \in i..(j - 1) : At(prog, k) \notin stops \cup {"end"}

SkipWhile(prog, i, skipped) == SkipUntil(prog, i, Range(prog) \ skipped)

\* The position after the next unescaped delim, past the end when there is
\* none.
SkipSection(prog, i, delim) ==
    LET past[j \in Nat] ==
            IF j > Len(prog) THEN Len(prog) + 2
            ELSE IF prog[j] = "\\" THEN past[j + 2]
            ELSE IF prog[j] = delim THEN j + 1
            ELSE past[j + 1]
    IN  past[i]

skipSedAddress(prog, i) ==
    CASE At(prog, i) = "/" -> SkipSection(prog, i + 1, "/")
      [] At(prog, i) = "\\" -> SkipSection(prog, i + 2, At(prog, i + 1))
      [] At(prog, i) = "$" -> i + 1
      [] At(prog, i) \in Digits ->
            LET j == SkipWhile(prog, i, Digits)
            IN  IF At(prog, j) = "~" THEN SkipWhile(prog, j + 1, Digits) ELSE j
      [] OTHER -> i

\* Past two delimited sections; Len(prog) + 2 is the code's -1.
skipSedDelimited(prog, i) ==
    SkipSection(prog, SkipSection(prog, i + 1, At(prog, i)), At(prog, i))

sedSafeSubstFlags == {"g", "p", "i", "I"} \cup Digits

Simple == {"d", "D", "p", "P", "n", "N", "q", "Q", "l", "x", "h", "H", "g", "G", "z", "="}

Stops == {";", NL, "}"}


SubstFlagsAreSafe(prog, i) ==
    \A k \in i..(SkipUntil(prog, i, Stops) - 1) : prog[k] \in sedSafeSubstFlags

\* Past the second address of a range, when a comma asks for one.
AfterRange(prog, i) == IF At(prog, i) = "," THEN skipSedAddress(prog, i + 1) ELSE i

\* Where the command at i begins: past separators, addresses and negation.
CommandAt(prog, i) ==
    LET first == skipSedAddress(prog, SkipWhile(prog, i, {" ", "tab", ";", NL, "}"}))
    IN  SkipWhile(prog, AfterRange(prog, first), {" ", "tab", "!"})

\* Where a delimited command ends, or 0 when a delimiter is missing.
Completed(prog, i) == IF i = Len(prog) + 2 THEN 0 ELSE i

\* Where a substitution ends whose flags begin at i, or 0.
SubstEnd(prog, i) ==
    IF i = 0 \/ ~SubstFlagsAreSafe(prog, i) THEN 0 ELSE SkipUntil(prog, i, Stops)

\* Where the command at i ends, or 0 when it is not one of the safe ones.
CommandEnd(prog, i) ==
    LET ch == At(prog, i)
    IN  CASE ch \in Simple \cup {"{"} -> i + 1
          [] ch = "s" -> SubstEnd(prog, Completed(prog, skipSedDelimited(prog, i + 1)))
          [] ch = "y" -> Completed(prog, skipSedDelimited(prog, i + 1))
          [] ch \in {"b", "t", "T", ":"} -> SkipUntil(prog, i + 1, Stops)
          [] ch \in {"a", "i", "c"} -> SkipUntil(prog, i + 1, {NL})
          [] ch \in {"r", "R"} -> SkipUntil(prog, i + 1, {";", NL})
          [] OTHER -> 0

\* Every command is a safe one, from the first to the last.
sedProgramIsSafe(prog) ==
    LET safe[i \in Nat] ==
            /\ i # 0
            /\ CommandAt(prog, i) <= Len(prog) => safe[CommandEnd(prog, CommandAt(prog, i))]
    IN  safe[1]

\* A file name where a program is expected: its first letter is no command.
Text(tok) == IF tok.t = "prog" THEN tok.text ELSE <<"F">>

----------------------------------------------------------------------------
\* Words that look like options to the checkers.
IsOption(tok) == isFlag(tok) \/ tok = DashDash

HasWriteFlags(args, chars, longPrefixes) ==
    \E tok \in Range(Tail(args)) \ {None} :
        \/ tok.t = "short" /\ Range(tok.chars) \cap chars # {}
        \/ tok.t = "long" /\ tok.name \in longPrefixes

Identifiers == {"identifier", "system", "getline"}

Quotes == {"quote", "apostrophe"}

\* A redirection or a pipe to a quoted command, as the heuristic sees it.
awkProgramIsDangerous(prog) ==
    \/ {"system", "getline"} \cap Range(prog) # {}
    \/ \E i \in DOMAIN prog :
          \/ prog[i] = "|" /\ At(prog, IF At(prog, i + 1) = " " THEN i + 2 ELSE i + 1) \in Quotes
          \/ prog[i] = ">" /\ At(prog, i + 1) = ">"
          \/ /\ prog[i] = ">" /\ At(prog, i + 1) # "="
             /\ At(prog, SkipWhile(prog, i + 1, {" "})) \in Quotes \cup {"/"} \cup Identifiers

\* The options of sed and awk: those a program follows, those some other word
\* follows, those that read the program from a file.
Program == [sed |-> {Short(<<"e">>), Long("--expression")},
            awk |-> {Short(<<"e">>), Long("--source")}]

WithWord == [sed |-> {}, awk |-> {Short(<<"F">>), Short(<<"v">>)}]

FromFile(lang, tok) ==
    \/ tok \in {Short(<<"f">>), Long("--file")}
    \/ lang = "awk" /\ tok.t = "long" /\ tok.name = "--file"

ProgramIsSafe(lang, tok) ==
    /\ tok # None
    /\ IF lang = "sed" THEN sedProgramIsSafe(Text(tok)) ELSE ~awkProgramIsDangerous(Text(tok))

\* Every program from args[i] on is safe.  The first word that is no option
\* is the program, and what follows it are files.
CheckFrom(lang, args, first) ==
    LET safe[i \in Nat] ==
            IF i > Len(args) THEN TRUE
            ELSE IF args[i] = None \/ FromFile(lang, args[i]) THEN FALSE
            ELSE IF args[i] \in WithWord[lang] THEN safe[i + 2]
            ELSE IF IsOption(args[i]) /\ args[i] \notin Program[lang] THEN safe[i + 1]
            ELSE LET at == IF IsOption(args[i]) THEN i + 1 ELSE i
                 IN  /\ at <= Len(args) /\ ProgramIsSafe(lang, args[at])
                     /\ at = i \/ safe[i + 2]
    IN  safe[first]

sedCheck(args) ==
    ~HasWriteFlags(args, {"i"}, {"--in-place"}) /\ CheckFrom("sed", args, 2)

awkCheck(args) == CheckFrom("awk", args, 2)

----------------------------------------------------------------------------
\* builtins.DefaultRegistry: the checker a command name stands for.
Checker(name) ==
    CASE name \in {Name("sed"), Name("gsed")} -> "sed"
      [] name \in {Name("awk"), Name("gawk"), Name("mawk"), Name("nawk")} -> "awk"
      [] OTHER -> "none"

\* Mutant of runChecker: no checker has nothing to object.
runChecker_Unknown(checker, args) ==
    CASE checker = "sed" -> sedCheck(args)
      [] checker = "awk" -> awkCheck(args)
      [] OTHER -> TRUE

\* runOpaqueChecker; there is no checker of another name.
runChecker(checker, args) ==
    CASE checker = "sed" -> sedCheck(args)
      [] checker = "awk" -> awkCheck(args)
      [] OTHER -> FALSE
=============================================================================
