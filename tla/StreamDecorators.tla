-------------------------- MODULE StreamDecorators --------------------------
(***************************************************************************)
(* The writers that add the routing marker and the feedback footer to a    *)
(* stream that is otherwise passed through.  Each maps its own state and   *)
(* one event to its next state, with the events let through in out.        *)
(***************************************************************************)
EXTENDS StreamLifecycle

-----------------------------------------------------------------------------
(* AnthropicRoutingMarkerWriter, around a native Anthropic stream.          *)

NewAnthropicMarker(on) == NewStream @@ [on |-> on, emitted |-> FALSE]

\* message_start and the marker as block 0, with the first byte of the reply.
emitPreludeEvents(m) ==
    IF m.emitted THEN m
    ELSE [EmitAll(m, << Simple("message_start"), BlockStart(0, "text"),
                        BlockDelta(0, "marker"), BlockStop(0) >>) EXCEPT !.emitted = TRUE]

IsBlock(e) == e.k \in {"content_block_start", "content_block_delta", "content_block_stop"}

\* The upstream's message_start is dropped, its block indices move by one.
AnthropicMarkerEvent(m, e) ==
    IF ~m.on THEN Emit(m, e)
    ELSE IF e.k = "message_start" THEN emitPreludeEvents(m)
    ELSE Emit(emitPreludeEvents(m), IF IsBlock(e) THEN [e EXCEPT !.i = @ + 1] ELSE e)

-----------------------------------------------------------------------------
(* AnthropicRoutingFooterWriter, around every Anthropic stream.             *)

\* stop: the deferred content_block_stop; isText and curType classify it.
NewAnthropicFooter(on) ==
    NewStream @@
    [on |-> on, emitted |-> FALSE, stop |-> <<>>, isText |-> FALSE, curType |-> ""]

naturalStop(e) == e.r \in {"end_turn", "stop_sequence"}

flushPendingStop(f) == [EmitAll(f, f.stop) EXCEPT !.stop = <<>>]

\* A ping does not disturb a deferred stop.
AnthropicFooterEvent(f, e) ==
    LET inject == ~f.emitted /\ f.stop # <<>> /\ f.isText /\ naturalStop(e)
        footed == [Emit(f, BlockDelta(f.stop[1].i, "footer")) EXCEPT !.emitted = TRUE] IN
    CASE ~f.on \/ e.k = "ping" -> Emit(f, e)
      [] f.on /\ e.k = "content_block_stop" ->
            [flushPendingStop(f) EXCEPT !.stop = <<e>>, !.isText = (f.curType = "text")]
      [] f.on /\ e.k = "content_block_start" ->
            Emit([flushPendingStop(f) EXCEPT !.curType = e.x], e)
      [] f.on /\ e.k = "message_delta" ->
            Emit(flushPendingStop(IF inject THEN footed ELSE f), e)
      [] OTHER -> Emit(flushPendingStop(f), e)

-----------------------------------------------------------------------------
(* The chat-completions marker and footer writers.                          *)

\* OpenAIRoutingMarkerWriter.Prelude: a chunk with the marker, or a comment.
ChatMarkerPrelude(on) == IF on THEN <<Text("marker", "")>> ELSE <<Simple("comment")>>

NewChatFooter(on) == NewStream @@ [on |-> on, emitted |-> FALSE, sawToolCall |-> FALSE]

shouldInject(f, e) == ~f.sawToolCall /\ e.k # "tool" /\ e.r = "stop"

\* A chunk with both text and finish_reason is split around the footer.
ChatFooterEvent(f, e) ==
    LET saw   == [f EXCEPT !.sawToolCall = @ \/ e.k = "tool"]
        split == <<[e EXCEPT !.r = ""], Text("footer", ""), Finish(e.r)>> IN
    IF ~f.on THEN Emit(f, e)
    ELSE IF f.emitted \/ ~shouldInject(f, e) THEN Emit(saw, e)
    ELSE EmitAll([saw EXCEPT !.emitted = TRUE],
                 IF e.k = "text" THEN split ELSE <<Text("footer", ""), e>>)
=============================================================================
