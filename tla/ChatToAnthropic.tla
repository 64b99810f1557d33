--------------------------- MODULE ChatToAnthropic ---------------------------
(***************************************************************************)
(* AnthropicSSETranslator: chat-completions chunks from the upstream,      *)
(* Anthropic events to the client.                                         *)
(*                                                                         *)
(* Options o of the request: marker (a routing marker is configured),      *)
(* hadTools, thinkTag (the model streams its reasoning as a leading        *)
(* <think> tag), desc (the order in which Go's map iteration meets the     *)
(* tool blocks).  The upstream error status that WriteHeader can latch is  *)
(* left out: no adapter passes a status of 400 or more on to its writer.   *)
(***************************************************************************)
EXTENDS StreamLifecycle

-----------------------------------------------------------------------------
(* thinkTagSplitter.  Content classes: "prose"; "ws", white space; "markup", *)
(* leaked tool-call markup; "part", a prefix of <think>; "tag", <think>;     *)
(* "endtag", </think>.  held: accum or tail is not empty.                    *)

NewSplitter == [at |-> "scan", held |-> FALSE]

Segment(kind, x) == [kind |-> kind, x |-> x]

\* The splitter after a content delta, and the segments it lets go.
Feed(sp, x) ==
    CASE sp.at = "pass" -> [sp |-> sp, segs |-> <<Segment("text", x)>>]
      [] sp.at = "scan" /\ ~sp.held /\ x = "ws"   -> [sp |-> sp, segs |-> <<>>]
      [] sp.at = "scan" /\ ~sp.held /\ x = "part" ->
            [sp |-> [sp EXCEPT !.held = TRUE], segs |-> <<>>]
      [] sp.at = "scan" /\ ~sp.held /\ x = "tag"  ->
            [sp |-> [at |-> "inside", held |-> FALSE], segs |-> <<>>]
      [] sp.at = "scan" /\ (sp.held \/ x \notin {"ws", "part", "tag"}) ->
            [sp   |-> [at |-> "pass", held |-> FALSE],
             segs |-> <<Segment("text", IF sp.held THEN "prose" ELSE x)>>]
      [] sp.at = "inside" /\ x = "endtag" ->
            [sp   |-> [at |-> "pass", held |-> FALSE],
             segs |-> IF sp.held THEN <<Segment("thinking", "")>> ELSE <<>>]
      [] sp.at = "inside" /\ x \in {"prose", "markup"} ->
            [sp |-> [sp EXCEPT !.held = TRUE], segs |-> <<Segment("thinking", "")>>]
      [] sp.at = "inside" /\ x \in {"ws", "part", "tag"} ->
            [sp   |-> [sp EXCEPT !.held = TRUE],
             segs |-> IF sp.held THEN <<Segment("thinking", "")>> ELSE <<>>]

\* Mutant: the tail of an unclosed <think> is forgotten.
FlushMutant(sp) == <<>>

Flush(sp) ==
    IF ~sp.held THEN <<>>
    ELSE <<Segment(IF sp.at = "scan" THEN "text" ELSE "thinking", "prose")>>

-----------------------------------------------------------------------------

\* sawText and lead: the class of the first visible text; argsFor: tool blocks
\* with buffered arguments.
NewAnthropicSSETranslator(o) ==
    NewStream @@
    [ opt |-> o, started |-> FALSE, closed |-> FALSE, textOpen |-> FALSE,
      thinkingOpen |-> FALSE, blockIdx |-> 0, toolBlocks |-> <<>>,
      suppressed |-> {}, argsFor |-> {}, toolUse |-> FALSE, lead |-> "",
      finish |-> "", splitter |-> NewSplitter ]

emitRoutingMarker(s) ==
    IF ~s.opt.marker THEN s
    ELSE [EmitAll(s, << BlockStart(s.blockIdx, "text"), BlockDelta(s.blockIdx, "marker"),
                        BlockStop(s.blockIdx) >>) EXCEPT !.blockIdx = @ + 1]

emitMessageStart(s) ==
    emitRoutingMarker([Emit(s, Simple("message_start")) EXCEPT !.started = TRUE])

Prelude(s) == IF s.started THEN s ELSE emitMessageStart(Start(s))

\* Stop the text or thinking block, always the one opened last.
closeBlock(s) ==
    IF s.textOpen \/ s.thinkingOpen
    THEN [Emit(s, BlockStop(s.blockIdx - 1)) EXCEPT !.textOpen = FALSE, !.thinkingOpen = FALSE]
    ELSE s

appendThinking(s) ==
    LET c == IF s.textOpen THEN closeBlock(s) ELSE s
        b == IF c.thinkingOpen THEN c
             ELSE [Emit(c, BlockStart(c.blockIdx, "thinking")) EXCEPT
                     !.thinkingOpen = TRUE, !.blockIdx = @ + 1] IN
    Emit(b, BlockDelta(b.blockIdx - 1, "thinking"))

\* White space before a block is only kept back (pendingText).
appendText(s, x) ==
    LET c == IF s.thinkingOpen THEN closeBlock(s) ELSE s
        b == IF c.textOpen THEN c
             ELSE [Emit(c, BlockStart(c.blockIdx, "text")) EXCEPT
                     !.textOpen = TRUE, !.blockIdx = @ + 1,
                     !.lead = IF @ = "" THEN x ELSE @] IN
    IF ~s.textOpen /\ x = "ws" THEN s
    ELSE Emit(b, BlockDelta(b.blockIdx - 1, "text"))

appendSegments(s, segs) ==
    FoldLeft(LAMBDA t, g : IF g.kind = "thinking" THEN appendThinking(t) ELSE appendText(t, g.x),
             s, segs)

emitContent(s, x) ==
    LET o == Output(s, s.blockIdx)
        f == Feed(s.splitter, x) IN
    IF s.opt.thinkTag THEN appendSegments([o EXCEPT !.splitter = f.sp], f.segs)
    ELSE appendText(o, x)

\* A call whose first chunk has no name is dropped for good; arguments are
\* only collected until the block is closed.
emitToolCall(s, e) ==
    LET o == Output(s, s.blockIdx)
        c == closeBlock(o)
        opened == [Emit(c, BlockStart(c.blockIdx, "tool_use")) EXCEPT
                     !.toolBlocks = (e.i :> c.blockIdx) @@ @,
                     !.toolUse = TRUE, !.blockIdx = @ + 1]
        known  == e.i \in DOMAIN s.toolBlocks IN
    CASE e.i \in s.suppressed -> o
      [] ~known /\ e.x # "head" -> [o EXCEPT !.suppressed = @ \union {e.i}]
      [] ~known /\ e.x = "head" -> opened
      [] known -> [o EXCEPT !.argsFor = @ \union {s.toolBlocks[e.i]}]

emitDelta(s, e) ==
    CASE e.k = "reasoning" -> appendThinking(Output(s, s.blockIdx))
      [] e.k = "text"      -> emitContent(s, e.x)
      [] e.k = "tool"      -> emitToolCall(s, e)
      [] OTHER             -> s

openAIFinishToAnthropic(r) ==
    CASE r = "length"     -> "max_tokens"
      [] r = "tool_calls" -> "tool_use"
      [] OTHER            -> "end_turn"

\* Promoted when a tool block was sent, demoted when none was.
stopReason(s) ==
    IF s.toolUse THEN "tool_use"
    ELSE IF s.finish = "tool_calls" THEN "end_turn" ELSE openAIFinishToAnthropic(s.finish)

needsNudge(s) ==
    /\ ~s.toolUse /\ s.opt.hadTools /\ s.started /\ s.suppressed = {}
    /\ s.finish # "length"
    /\ s.finish \in {"stop", ""} => s.lead \in {"", "markup"}

synthesizeTextOnlyTurnNudge(s) ==
    IF ~needsNudge(s) THEN s
    ELSE [EmitAll(s, << BlockStart(s.blockIdx, "tool_use"), BlockDelta(s.blockIdx, "json"),
                        BlockStop(s.blockIdx) >>) EXCEPT !.blockIdx = @ + 1, !.toolUse = TRUE]

\* The tool blocks, in the order Go's map iteration meets them.
blocksInOrder(s) ==
    LET asc == SetToSortSeq({s.toolBlocks[i] : i \in DOMAIN s.toolBlocks}, <) IN
    IF s.opt.desc THEN Reverse(asc) ELSE asc

closeTools(s) ==
    [FoldLeft(LAMBDA t, b :
                EmitAll(t, (IF b \in t.argsFor THEN <<BlockDelta(b, "json")>> ELSE <<>>)
                           \o <<BlockStop(b)>>),
              s, blocksInOrder(s)) EXCEPT !.toolBlocks = <<>>]

finishStream(s) ==
    LET m == IF s.started THEN s ELSE emitMessageStart(s)
        f == IF m.opt.thinkTag
             THEN appendSegments([m EXCEPT !.splitter = [at |-> "pass", held |-> FALSE]],
                                 Flush(m.splitter))
             ELSE m
        n == synthesizeTextOnlyTurnNudge(closeTools(closeBlock(f))) IN
    [EmitAll(n, <<MessageDelta(stopReason(n)), Simple("message_stop")>>) EXCEPT !.closed = TRUE]

translateOpenAIEvent(s, e) ==
    LET ready == IF s.life = "idle" THEN Start(s) ELSE s
        done  == IF ready.life = "started" THEN Terminal(ready)
                 ELSE IF ready.life = "terminal" THEN ready ELSE Raise(ready, "order")
        d     == emitDelta(IF s.started THEN s ELSE emitMessageStart(Start(s)), e) IN
    CASE e.k = "done"  -> finishStream(done)
      [] e.k \in {"usage", "error"} -> s      \* no choices: only usage is read
      [] OTHER -> IF e.r = "" THEN d ELSE Terminal([d EXCEPT !.finish = e.r])

\* An unfinished stream gets an error frame only once output has been sent:
\* the prelude is still in the buffer and another binding may be tried.
Finalize(s) ==
    CASE s.closed -> s
      [] ~s.closed /\ EOF(s) = "none" -> finishStream(s)
      [] ~s.closed /\ EOF(s) # "none" /\ s.output ->
            Raise([Emit(Fail(s), Simple("error")) EXCEPT !.closed = TRUE], EOF(s))
      [] ~s.closed /\ EOF(s) # "none" /\ ~s.output -> Raise(s, EOF(s))
=============================================================================
