---------------------------- MODULE ResponsesToChat ----------------------------
(***************************************************************************)
(* ResponsesToOpenAIChatWriter: Responses events from the upstream,        *)
(* chat-completions chunks to the client.                                  *)
(***************************************************************************)
EXTENDS StreamLifecycle

\* slots[oi]: the tool_calls index of an announced call; argsFor: items with
\* buffered arguments; streamed: items whose text was streamed as deltas.
NewResponsesToOpenAIChatWriter ==
    NewStream @@
    [ started |-> FALSE, closed |-> FALSE, slots |-> <<>>, nextToolSlot |-> 0, argsFor |-> {},
      streamed |-> {}, suppressed |-> {}, toolCallCount |-> 0, final |-> "" ]

Prelude(s) ==
    IF s.started THEN s ELSE Emit(Start([s EXCEPT !.started = TRUE]), Simple("role"))

emitDone(s) == [Emit(s, Simple("done")) EXCEPT !.closed = TRUE]

emitStreamError(s) ==
    LET f == IF s.life = "started" THEN Fail(s) ELSE s IN
    IF ~s.output THEN Raise([f EXCEPT !.closed = TRUE], "status")
    ELSE emitDone(Emit(f, Simple("error")))

TakeSlot(s, oi) ==
    IF oi \in DOMAIN s.slots THEN s
    ELSE [s EXCEPT !.slots = (oi :> s.nextToolSlot) @@ @, !.nextToolSlot = @ + 1]

handleOutputItemAdded(s, e) ==
    CASE e.x = "nameless"      -> [s EXCEPT !.suppressed = @ \union {e.i}]
      [] e.x = "function_call" -> TakeSlot(s, e.i)
      [] OTHER -> s

\* emitContentDelta and emitReasoningDelta.
emitItemDelta(s, oi, kind) ==
    [Emit(Output(s, 0), IF kind = "text" THEN Text("prose", "") ELSE Simple("reasoning"))
        EXCEPT !.streamed = @ \union {oi}]

bufferToolArgs(s, oi) ==
    IF oi \in s.suppressed THEN s ELSE [s EXCEPT !.argsFor = @ \union {oi}]

\* Mutant: every call goes out with index 0.
emitToolCallMutant(s, oi) ==
    LET f == [s EXCEPT !.argsFor = @ \ {oi}, !.slots = [j \in DOMAIN @ \ {oi} |-> @[j]]]
        o == Output(f, 0) IN
    EmitAll([o EXCEPT !.toolCallCount = IF Ok(o) THEN @ + 1 ELSE @],
            <<Tool(0, "head", ""), Tool(0, "args", "")>>)

\* One chunk with the whole call: its head and its arguments at once.
emitToolCall(s, oi) ==
    LET f == [s EXCEPT !.argsFor = @ \ {oi}, !.slots = [j \in DOMAIN @ \ {oi} |-> @[j]]]
        o == Output(f, 0) IN
    Emit([o EXCEPT !.toolCallCount = IF Ok(o) THEN @ + 1 ELSE @], Tool(s.slots[oi], "head", ""))

handleOutputItemDone(s, e) ==
    CASE e.i \in s.suppressed ->
            [s EXCEPT !.suppressed = @ \ {e.i}, !.argsFor = @ \ {e.i}]
      [] e.i \notin s.suppressed /\ e.x = "nameless" -> [s EXCEPT !.argsFor = @ \ {e.i}]
      [] e.i \notin s.suppressed /\ e.x = "function_call" -> emitToolCall(TakeSlot(s, e.i), e.i)
      [] e.i \notin s.suppressed /\ e.x \in {"message", "reasoning"} ->
            IF e.i \in s.streamed THEN s
            ELSE emitItemDelta(s, e.i, IF e.x = "message" THEN "text" ELSE "thinking")

translateEvent(s, e) ==
    CASE s.closed -> s
      [] ~s.closed /\ e.k = "output_item.added" -> handleOutputItemAdded(s, e)
      [] ~s.closed /\ e.k = "delta" ->
            IF e.x = "args" THEN bufferToolArgs(s, e.i) ELSE emitItemDelta(s, e.i, e.x)
      [] ~s.closed /\ e.k = "output_item.done" -> handleOutputItemDone(s, e)
      [] ~s.closed /\ e.k \in {"failed", "error"} -> emitStreamError(s)
      [] ~s.closed /\ e.k = "completed" -> [Terminal(s) EXCEPT !.final = e.r]
      [] OTHER -> s

reconciledFinishReason(s) ==
    IF s.toolCallCount > 0 THEN "tool_calls" ELSE IF s.final = "length" THEN "length" ELSE "stop"

\* Calls whose item was never done; lifecycle is already terminal here.
finishStream(s) ==
    LET t == FoldLeft(LAMBDA u, oi : emitToolCall(u, oi), s,
                      SetToSortSeq(s.argsFor \intersect DOMAIN s.slots, <)) IN
    emitDone(Emit(t, Finish(reconciledFinishReason(t))))

Finalize(s) ==
    IF s.closed THEN s
    ELSE IF EOF(s) = "none" THEN finishStream(s)
    ELSE Raise(IF s.life = "started" THEN emitStreamError(s) ELSE s, EOF(s))
=============================================================================
