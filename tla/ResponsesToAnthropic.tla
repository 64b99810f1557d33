------------------------- MODULE ResponsesToAnthropic -------------------------
(***************************************************************************)
(* ResponsesToAnthropicWriter: Responses events from the upstream,         *)
(* Anthropic events to the client.  Item types: "message", "reasoning",    *)
(* "function_call", and "nameless", a function call without a name.        *)
(***************************************************************************)
EXTENDS StreamLifecycle

\* blocks[oi]: the open block of output item oi and its kind.
NewResponsesToAnthropicWriter(o) ==
    NewStream @@
    [ opt |-> o, started |-> FALSE, closed |-> FALSE, blockIdx |-> 0, blocks |-> <<>>,
      suppressed |-> {}, toolUseCount |-> 0, final |-> "" ]

Without(f, i) == [j \in DOMAIN f \ {i} |-> f[j]]

Prelude(s) ==
    LET m == Emit(Start([s EXCEPT !.started = TRUE]), Simple("message_start")) IN
    IF s.started THEN s
    ELSE IF ~s.opt.marker THEN m
    ELSE [EmitAll(m, <<BlockStart(0, "text"), BlockDelta(0, "marker"), BlockStop(0)>>)
            EXCEPT !.blockIdx = 1]

\* Before output the failure goes back to dispatch, which may try another
\* binding; after it an error frame ends the stream.
emitStreamErrorEvent(s) ==
    LET f == [IF s.life = "started" THEN Fail(s) ELSE s EXCEPT !.closed = TRUE] IN
    IF ~s.output THEN Raise(f, "status") ELSE Emit(f, Simple("error"))

OpenBlock(s, oi, kind) ==
    [s EXCEPT !.blocks = (oi :> [idx |-> s.blockIdx, kind |-> kind]) @@ @, !.blockIdx = @ + 1]

handleOutputItemAdded(s, e) ==
    CASE e.x = "nameless" -> [s EXCEPT !.suppressed = @ \union {e.i}]
      [] e.x = "function_call" ->
            [Emit(Output(OpenBlock(s, e.i, "tool_use"), s.blockIdx),
                  BlockStart(s.blockIdx, "tool_use")) EXCEPT !.toolUseCount = @ + 1]
      [] OTHER -> s

\* handleTextDelta and handleReasoningDelta; arguments are only buffered.
handleDelta(s, e) ==
    LET kind == e.x
        open == e.i \in DOMAIN s.blocks
        b    == IF open THEN s
                ELSE Emit(OpenBlock(s, e.i, kind), BlockStart(s.blockIdx, kind))
        idx  == b.blocks[e.i].idx IN
    IF kind = "args" THEN s ELSE Emit(Output(b, idx), BlockDelta(idx, kind))

\* An item that was never opened arrives whole; lifecycle.Output is not told.
emitDoneOnlyItem(s, e) ==
    LET kind == CASE e.x = "function_call" -> "tool_use" [] e.x = "message" -> "text"
                  [] OTHER -> "thinking"
        i    == s.blockIdx
        tool == IF kind = "tool_use" THEN 1 ELSE 0 IN
    IF e.x = "nameless" THEN s
    ELSE [EmitAll(s, << BlockStart(i, kind),
                        BlockDelta(i, IF kind = "tool_use" THEN "json" ELSE kind),
                        BlockStop(i) >>)
            EXCEPT !.blockIdx = @ + 1, !.toolUseCount = @ + tool]

CloseBlock(s, oi) ==
    LET b == s.blocks[oi] IN
    [EmitAll(s, (IF b.kind = "tool_use" THEN <<BlockDelta(b.idx, "json")>> ELSE <<>>)
                \o <<BlockStop(b.idx)>>) EXCEPT !.blocks = Without(@, oi)]

handleOutputItemDone(s, e) ==
    IF e.i \in s.suppressed THEN [s EXCEPT !.suppressed = @ \ {e.i}]
    ELSE IF e.i \notin DOMAIN s.blocks THEN emitDoneOnlyItem(s, e)
    ELSE CloseBlock(s, e.i)

translateResponsesEvent(s, e) ==
    CASE s.closed -> s
      [] ~s.closed /\ e.k = "output_item.added" -> handleOutputItemAdded(s, e)
      [] ~s.closed /\ e.k = "delta" -> handleDelta(s, e)
      [] ~s.closed /\ e.k = "output_item.done" -> handleOutputItemDone(s, e)
      [] ~s.closed /\ e.k \in {"failed", "error"} -> emitStreamErrorEvent(s)
      [] ~s.closed /\ e.k = "completed" -> [Terminal(s) EXCEPT !.final = e.r]
      [] OTHER -> s

\* captureFinalResponse's stop reason reconciled with what was streamed.
reconciledStopReason(s) ==
    IF s.toolUseCount > 0 THEN "tool_use"
    ELSE IF s.final = "length" THEN "max_tokens" ELSE "end_turn"

finishStream(s) ==
    LET c == FoldLeft(LAMBDA t, oi : CloseBlock(t, oi), s,
                      IF s.opt.desc THEN Reverse(SetToSortSeq(DOMAIN s.blocks, <))
                      ELSE SetToSortSeq(DOMAIN s.blocks, <)) IN
    [EmitAll(c, <<MessageDelta(reconciledStopReason(c)), Simple("message_stop")>>)
        EXCEPT !.closed = TRUE]

Finalize(s) ==
    IF s.closed THEN s
    ELSE IF EOF(s) = "none" THEN finishStream(s)
    ELSE Raise(IF s.life = "started" THEN emitStreamErrorEvent(s) ELSE s, EOF(s))
=============================================================================
