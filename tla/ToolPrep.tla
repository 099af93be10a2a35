------------------------------ MODULE ToolPrep ------------------------------
(***************************************************************************)
(* internal/llmclassifier/toolprep: which calls of a tool need no judge,   *)
(* and what the judge is shown of a call.  A tool input is                 *)
(*   object (BOOLEAN), long (more than maxField bytes in all), fields      *)
(* where fields is the sequence of its top-level keys in sorted order,     *)
(* each with a value                                                       *)
(*   k ("text", "list", "other"), v (what it says), long                   *)
(* and what a plugin keeps is a sequence of values; separators, tags and   *)
(* ellipses are left out.  The empty string is an absent field.            *)
(***************************************************************************)
EXTENDS ProjectMatch

CONSTANT McpTools       \* the tool names that start with "mcp__"

\* Safe tools with a projection of their own, and the fields it keeps.
SafeProjection ==
    [TaskCreate |-> <<"subject">>, TaskUpdate |-> <<"taskId", "status", "subject">>,
     TaskGet |-> <<"taskId">>, TaskOutput |-> <<"task_id">>, ToolSearch |-> <<"query">>,
     Sleep |-> <<"duration", "reason">>, TeamCreate |-> <<"name", "description", "prompt">>,
     TeamDelete |-> <<"team_id", "teamId", "name">>,
     SendMessage |-> <<"recipient", "recipient_id", "recipientId", "message">>,
     Grep |-> <<"pattern", "path">>, Glob |-> <<"pattern">>,
     ListMcpResourcesTool |-> <<"server">>, ReadMcpResourceTool |-> <<"server", "uri">>]

SafeTools ==
    DOMAIN SafeProjection \cup
    {"AskUserQuestion", "TodoWrite", "TaskStop", "LSP", "TaskList", "ExitPlanMode",
     "EnterPlanMode", "NotebookRead"}

\* What the registered plugins keep.
FileProjection ==
    [Read |-> <<"file_path">>, Write |-> <<"file_path", "content">>,
     Edit |-> <<"file_path", "new_string">>,
     NotebookEdit |-> <<"notebook_path", "edit_mode", "new_source">>]

ExternalProjection ==
    [WebFetch |-> <<"url", "prompt">>, WebSearch |-> <<"query">>,
     Agent |-> <<"subagent_type", "mode", "prompt">>, Task |-> <<"subagent_type", "mode", "prompt">>]

BashProjection == [Bash |-> <<"command">>]

\* NewDefaultRegistry.
Projection ==
    [name \in DOMAIN FileProjection \cup DOMAIN ExternalProjection \cup DOMAIN BashProjection |->
        IF name \in DOMAIN FileProjection THEN FileProjection[name]
        ELSE IF name \in DOMAIN ExternalProjection THEN ExternalProjection[name]
        ELSE BashProjection[name]]

\* Registry.Tool: by name, then MCP, then the safe list, then the catch-all.
Tool(name) ==
    CASE name \in DOMAIN Projection -> "registered"
      [] name \notin DOMAIN Projection /\ name \in McpTools -> "mcp"
      [] name \notin DOMAIN Projection \cup McpTools /\ name \in SafeTools -> "safe"
      [] OTHER -> "passthrough"

----------------------------------------------------------------------------
\* What an object holds under a key, in a sequence of at most one.
FieldOf(in, key) ==
    LET held == IF in.object THEN OnlyIn(in.fields, {f \in Range(in.fields) : f.key = key}) ELSE <<>>
    IN  IF held = <<>> THEN <<>> ELSE <<held[Len(held)].val>>

Texts(vals) == OnlyIn(vals, {val \in Range(vals) : val.k = "text"})

stringField(in, key) == Texts(FieldOf(in, key))

Kept(in, keys) == FlattenSeq([i \in DOMAIN keys |-> stringField(in, keys[i])])

Whole(in) == [i \in DOMAIN in.fields |-> in.fields[i].val]

Says(v) == [k |-> "text", v |-> [t |-> "fixed", says |-> v], long |-> FALSE]

\* An edit without a mode replaces.
NotebookKept(in) ==
    stringField(in, "notebook_path")
        \o (IF stringField(in, "edit_mode") = <<>> THEN <<Says("replace")>> ELSE stringField(in, "edit_mode"))
        \o stringField(in, "new_source")

Questions(in) ==
    LET asked == FieldOf(in, "questions")
    IN  IF asked = <<>> THEN <<>> ELSE IF asked[1].k = "list" THEN Texts(asked[1].v) ELSE <<>>

\* A long value keeps its head when it is a string, and a marker otherwise.
truncateRaw(val) ==
    IF ~val.long THEN val
    ELSE IF val.k = "text" THEN [k |-> "text", v |-> [t |-> "head", of |-> val.v], long |-> FALSE]
    ELSE Says("<truncated>")

Bounded(in) ==
    IF ~in.long THEN Whole(in)
    ELSE IF ~in.object THEN <<>>
    ELSE [i \in DOMAIN in.fields |-> truncateRaw(in.fields[i].val)]

\* compactSafeToolInput, and what Safe.Sanitize does where it has none.
SafeKept(name, in) ==
    CASE ~in.object -> Bounded(in)
      [] in.object /\ name = "AskUserQuestion" -> Questions(in)
      [] in.object /\ name = "TodoWrite" /\ \E val \in Range(FieldOf(in, "todos")) : val.k = "list" ->
            <<Says("number of items")>>
      [] in.object /\ name = "TaskStop" ->
            IF stringField(in, "task_id") # <<>> THEN stringField(in, "task_id")
            ELSE stringField(in, "shell_id")
      [] in.object /\ name \in DOMAIN SafeProjection -> Kept(in, SafeProjection[name])
      [] OTHER -> Bounded(in)

\* Mutant of Sanitize: a Bash call is shown with all its fields.
Sanitize_BashWhole(name, in) ==
    IF name = "Bash" \/ Tool(name) = "passthrough" THEN Whole(in)
    ELSE IF Tool(name) = "safe" THEN SafeKept(name, in)
    ELSE Kept(in, Projection[name])

\* What the judge is shown of a call.
Sanitize(name, in) ==
    CASE name = "NotebookEdit" -> NotebookKept(in)
      [] name # "NotebookEdit" /\ Tool(name) = "registered" -> Kept(in, Projection[name])
      [] Tool(name) = "mcp" /\ in.object /\ in.fields # <<>> -> Whole(in)
      [] Tool(name) = "mcp" /\ ~(in.object /\ in.fields # <<>>) -> <<Says(name)>>
      [] Tool(name) = "safe" -> SafeKept(name, in)
      [] OTHER -> Whole(in)

----------------------------------------------------------------------------
\* The directories a file may lie in without the judge being asked.
workingDirs(dirs, cwd) ==
    IF dirs # {} THEN dirs ELSE IF cwd # NoPath THEN {cwd} ELSE {}

PathField(name) == IF name = "NotebookEdit" THEN "notebook_path" ELSE "file_path"

isUnderAny(path, dirs) == \E dir \in dirs : IsPathUnder(path, dir)

inWorkingDirs(in, key, dirs, cwd) ==
    \E val \in Range(stringField(in, key)) : isUnderAny(val.v, workingDirs(dirs, cwd))

Skippable(name, in, dirs, cwd) ==
    \/ Tool(name) = "safe"
    \/ name \in {"Read", "Write", "Edit", "NotebookEdit"} /\ inWorkingDirs(in, PathField(name), dirs, cwd)
=============================================================================
