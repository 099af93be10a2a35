---------------------------- MODULE Transcript ----------------------------
(***************************************************************************)
(* claudecode/transcript and llmclassifier/prompt: from the lines of a     *)
(* session file to the records the judge is shown.  A line is              *)
(*   state ("whole", "torn", "blank", "too_long"), entry                   *)
(* an entry                                                                *)
(*   type ("user", "assistant", "attachment", ...), meta, queued, content  *)
(* a content                                                               *)
(*   k ("string", "blocks", "other"), says (a string's words), blocks      *)
(* and a block                                                             *)
(*   k ("text", "thinking", "tool_use", "tool_result"), says, name, in.    *)
(* Words are a sequence; the empty sequence is the empty string.           *)
(***************************************************************************)
EXTENDS ToolPrep

\* readFile: a line that exceeds the scanner's buffer fails the file.
Readable(lines) == \A i \in DOMAIN lines : lines[i].state # "too_long"

\* What the blocks of a prompt say; an empty text is no part of it.
textBlockParts(blocks) ==
    FlattenSeq([i \in DOMAIN blocks |-> IF blocks[i].k = "text" THEN blocks[i].says ELSE <<>>])

\* The text of a prompt, in a sequence of at most one.
decodeUserPromptText(content) ==
    LET parts == IF content.k = "blocks" THEN textBlockParts(content.blocks) ELSE <<>>
    IN  IF content.k = "string" THEN <<content.says>>
        ELSE IF parts # <<>> THEN <<parts>> ELSE <<>>

UserTurn(content, tag) ==
    LET said == decodeUserPromptText(content)
    IN  IF said = <<>> THEN <<>> ELSE <<[kind |-> "user", user |-> said[1], subagent |-> tag]>>

\* Mutant of sanitizeUserEntry: what the system says as the user stays.
sanitizeUserEntry_Meta(e, tag) == UserTurn(e.content, tag)

sanitizeUserEntry(e, tag) == IF e.meta THEN <<>> ELSE UserTurn(e.content, tag)

CallRecord(name, in, tag) ==
    [kind |-> "call", tool |-> name, input |-> Sanitize(name, in), subagent |-> tag]

\* Only the tool calls of the assistant, in their order.
sanitizeAssistantEntry(e, tag) ==
    LET blocks == IF e.content.k = "blocks" THEN e.content.blocks ELSE <<>>
    IN  FlattenSeq([i \in DOMAIN blocks |->
            IF blocks[i].k = "tool_use" THEN <<CallRecord(blocks[i].name, blocks[i].in, tag)>> ELSE <<>>])

\* A command the user queued while the assistant was busy.
sanitizeAttachmentEntry(e, tag) == IF e.queued THEN UserTurn(e.content, tag) ELSE <<>>

sanitizeEntry(e, tag) ==
    CASE e.type = "user" -> sanitizeUserEntry(e, tag)
      [] e.type = "assistant" -> sanitizeAssistantEntry(e, tag)
      [] e.type = "attachment" -> sanitizeAttachmentEntry(e, tag)
      [] OTHER -> <<>>

\* A line that does not parse is skipped.
RecordsOf(line, tag) == IF line.state = "whole" THEN sanitizeEntry(line.entry, tag) ELSE <<>>

\* prompt.Sanitize over the entries of one source.
Records(lines, tag) == FlattenSeq([i \in DOMAIN lines |-> RecordsOf(lines[i], tag)])
=============================================================================
