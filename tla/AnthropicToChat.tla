--------------------------- MODULE AnthropicToChat ---------------------------
(***************************************************************************)
(* SSETranslator: Anthropic events from the upstream, chat-completions     *)
(* chunks to the client.                                                   *)
(***************************************************************************)
EXTENDS StreamLifecycle

NewSSETranslator == NewStream @@ [toolIdx |-> 0, currentIsTool |-> FALSE]

mapStopReason(r) ==
    CASE r = "max_tokens" -> "length"
      [] r = "tool_use"   -> "tool_calls"
      [] OTHER            -> "stop"

handleMessageStart(s) == Emit(Output(Start(s), 0), Simple("role"))

handleContentBlockStart(s, e) ==
    IF e.x # "tool_use" THEN [s EXCEPT !.currentIsTool = FALSE]
    ELSE Emit(Output([s EXCEPT !.currentIsTool = TRUE], 0), Tool(s.toolIdx, "head", ""))

\* Thinking and signature deltas have no counterpart.
handleContentBlockDelta(s, e) ==
    CASE e.x = "text" -> Emit(Output(s, 0), Text("prose", ""))
      [] e.x = "json" -> Emit(Output(s, 0), Tool(s.toolIdx, "args", ""))
      [] OTHER        -> s

handleContentBlockStop(s) ==
    [s EXCEPT !.toolIdx = IF s.currentIsTool THEN @ + 1 ELSE @, !.currentIsTool = FALSE]

handleMessageDelta(s, e) == Emit(Output(s, 0), Finish(mapStopReason(e.r)))

\* An error event of the upstream is not translated: the missing terminal
\* event shows at EOF.
translateEvent(s, e) ==
    CASE e.k = "message_start"       -> handleMessageStart(s)
      [] e.k = "content_block_start" -> handleContentBlockStart(s, e)
      [] e.k = "content_block_delta" -> handleContentBlockDelta(s, e)
      [] e.k = "content_block_stop"  -> handleContentBlockStop(s)
      [] e.k = "message_delta"       -> handleMessageDelta(s, e)
      [] e.k = "message_stop"        ->
            Emit(Terminal(IF s.life = "idle" THEN Start(s) ELSE s), Simple("done"))
      [] OTHER -> s

\* The failure frame is not followed by [DONE].
Finalize(s) ==
    IF EOF(s) = "none" THEN s
    ELSE Raise(IF s.output THEN Emit(Fail(s), Simple("error")) ELSE s, EOF(s))
=============================================================================
