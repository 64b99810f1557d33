--------------------------- MODULE ChatToResponses ---------------------------
(***************************************************************************)
(* ResponsesWriter: chat-completions chunks in, Responses events to the    *)
(* client.  It is the outermost writer of a /v1/responses request and      *)
(* lives as long as the request, whatever attempts are made behind it.     *)
(*                                                                         *)
(* Options o: footer, mappings (the request declared mapped Codex tools),  *)
(* native (the first attempt forwards a Responses stream verbatim), desc.  *)
(* The badge rewriting of native streams is left out: no caller turns it   *)
(* on.  Item added, delta and done stand for the part events they imply.   *)
(***************************************************************************)
EXTENDS StreamLifecycle

NoItem == [oi |-> -1, opened |-> FALSE, closed |-> FALSE, named |-> FALSE]

\* text: the message item; tools[idx]: the item of upstream tool index idx;
\* listed: the items of the response that response.completed carries.
NewResponsesWriter(o) ==
    NewStream @@
    [ opt |-> o, passthrough |-> o.native, created |-> FALSE, completed |-> FALSE,
      text |-> NoItem, tools |-> <<>>, sawToolCall |-> FALSE, finish |-> "",
      listed |-> {} ]

emitCreated(s) == [Emit(Start(s), Simple("created")) EXCEPT !.created = TRUE]

Prelude(s) == IF s.passthrough \/ s.created THEN s ELSE emitCreated(s)

\* Mutant: a tool item takes the index of the item before it.
nextOutputIndexMutant(s) == Cardinality(DOMAIN s.tools)

\* Counted before the new item is registered.
nextOutputIndex(s) == Cardinality(DOMAIN s.tools) + (IF s.text.oi >= 0 THEN 1 ELSE 0)

appendText(s) ==
    LET oi == nextOutputIndex(s)
        a  == IF s.text.oi >= 0 THEN s
              ELSE [Emit(s, ItemAdded(oi, "message")) EXCEPT
                      !.text = [NoItem EXCEPT !.oi = oi, !.opened = TRUE]] IN
    Emit(Output(a, a.text.oi), ItemDelta(a.text.oi, "text"))

\* With tool mappings an item is opened only once its name is known, because
\* the name decides between function_call and custom_tool_call.
appendToolCall(s, e) ==
    LET new   == e.i \notin DOMAIN s.tools
        item  == IF new THEN [NoItem EXCEPT !.oi = nextOutputIndex(s)] ELSE s.tools[e.i]
        named == item.named \/ e.x = "head"
        opens == ~item.opened /\ (named \/ (new /\ ~s.opt.mappings))
        a     == [s EXCEPT !.sawToolCall = TRUE,
                    !.tools = (e.i :> [item EXCEPT !.named = named, !.opened = @ \/ opens]) @@ @]
        b     == IF opens THEN Emit(a, ItemAdded(item.oi, "function_call")) ELSE a
        c     == Output(b, item.oi) IN
    IF e.x = "args" /\ c.tools[e.i].opened THEN Emit(c, ItemDelta(item.oi, "args")) ELSE c

wantsFooter(s) == s.opt.footer /\ ~s.sawToolCall /\ s.finish = "stop"

closeText(s) ==
    IF s.text.oi < 0 \/ s.text.closed THEN s
    ELSE [EmitAll(s, (IF wantsFooter(s) THEN <<ItemDelta(s.text.oi, "footer")>> ELSE <<>>)
                     \o <<ItemDone(s.text.oi, "message")>>) EXCEPT !.text.closed = TRUE]

closeTool(s, idx) ==
    IF s.tools[idx].closed THEN s
    ELSE IF s.opt.mappings /\ ~s.tools[idx].opened THEN Raise(s, "nameless")
    ELSE [Emit(s, ItemDone(s.tools[idx].oi, "function_call")) EXCEPT !.tools[idx].closed = Ok(s)]

closeOpenItems(s) ==
    LET order == SetToSortSeq(DOMAIN s.tools, <) IN
    FoldLeft(LAMBDA t, idx : closeTool(t, idx), closeText(s),
             IF s.opt.desc THEN Reverse(order) ELSE order)

\* The items of the final response.
assembleOutput(s) ==
    (IF s.text.oi >= 0 THEN {s.text.oi} ELSE {})
    \union {s.tools[idx].oi : idx \in {n \in DOMAIN s.tools : ~s.opt.mappings \/ s.tools[n].opened}}

emitCompleted(s) ==
    LET t == Terminal(s) IN
    [Emit(t, Completed("")) EXCEPT !.completed = Ok(t), !.listed = assembleOutput(s)]

Close(s) == LET c == closeOpenItems(s) IN IF s.completed THEN c ELSE emitCompleted(c)

translateChunk(s, e) ==
    LET d == CASE e.k = "text" -> appendText(s)
               [] e.k = "tool" -> appendToolCall(s, e)
               [] OTHER        -> s IN
    CASE e.k = "done" -> IF s.output THEN Close(s) ELSE s
      [] e.k # "done" /\ e.r = ""  -> d
      [] e.k # "done" /\ e.r # "" -> Close([d EXCEPT !.finish = e.r])

\* Write: the first byte of a translated stream announces the response.
Write(s, e) ==
    IF s.passthrough THEN Emit(s, e)
    ELSE translateChunk(IF s.created THEN s ELSE emitCreated(s), e)

\* The failure event goes out even when an item could not be closed.
emitFailed(s) ==
    LET f == [IF s.life = "started" THEN [s EXCEPT !.life = "failed"] ELSE s EXCEPT !.err = "none"]
        c == closeOpenItems(f) IN
    [[c EXCEPT !.out = Append(@, Simple("failed"))] EXCEPT !.completed = TRUE]

\* Mutant: a stream whose upstream ended early is closed as if complete.
FinalizeMutant(s) ==
    IF s.passthrough \/ EOF(s) = "none" THEN s
    ELSE IF s.life = "started" THEN Close(s) ELSE Raise(s, EOF(s))

Finalize(s) ==
    IF s.passthrough \/ EOF(s) = "none" THEN s
    ELSE Raise(IF s.life = "started" THEN emitFailed(s) ELSE s, EOF(s))

FinalizeError(s) ==
    IF s.passthrough \/ ~s.created \/ s.completed THEN s ELSE emitFailed(s)

ClearPassthrough(s) == [s EXCEPT !.passthrough = FALSE]
=============================================================================
