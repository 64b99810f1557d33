------------------------------- MODULE Streams -------------------------------
(***************************************************************************)
(* One streaming request: the attempts made for it, the translator of each *)
(* attempt, the prelude buffer, the footer writer or ResponsesWriter below *)
(* it, the keepalive goroutine, and the client.                            *)
(*                                                                         *)
(* The upstream is external: it follows its protocol, and may be cut off,  *)
(* reset, refused or stalled at any point.  The client may disconnect.     *)
(***************************************************************************)
EXTENDS StreamLifecycle

CONSTANTS
    Requests,       \* the requests considered (see Request)
    MaxEvents,      \* content events of one upstream attempt, at most
    MaxBindings     \* bindings of a request, at most

C2A == INSTANCE ChatToAnthropic
R2A == INSTANCE ResponsesToAnthropic
A2C == INSTANCE AnthropicToChat
R2C == INSTANCE ResponsesToChat
C2R == INSTANCE ChatToResponses
D   == INSTANCE StreamDecorators

\* The formats of client and upstream, the options of the translators, and
\* events: content events of an attempt; bindings: one attempt for each.  With
\* a single one there is no failover to spoil: response.created goes out first.
Request ==
    [ client : {"anthropic", "chat", "responses"}, up : {"chat", "responses", "anthropic"},
      marker : BOOLEAN, footer : BOOLEAN, hadTools : BOOLEAN, thinkTag : BOOLEAN,
      mappings : BOOLEAN, native : BOOLEAN, desc : BOOLEAN,
      events : 0 .. MaxEvents, bindings : 1 .. MaxBindings ]

ASSUME StreamsConstants ==
    /\ Requests \subseteq Request
    /\ MaxEvents \in Nat /\ MaxBindings \in Nat \ {0}
    /\ \A r \in Requests : r.native => r.client = "responses" /\ r.up = "chat"

VARIABLES
    req,        \* the request
    pc,         \* "dispatch", "stream", "failing", "ended", "closing", "reaping", "done"
    attempt,    \* attempts started
    native,     \* the attempt forwards Responses bytes verbatim
    up,         \* what the attempt's upstream has sent so far
    tr,         \* the attempt's translator
    buf,        \* the prelude buffer
    sink,       \* the footer writer, or the request's ResponsesWriter
    err,        \* the attempt's error
    q,          \* events on their way to the client
    half,       \* the first one has been written in part
    client,     \* what the client has received
    ka,         \* the keepalive writer and its goroutine
    gone        \* the client has disconnected

vars == <<req, pc, attempt, native, up, tr, buf, sink, err, q, half, client, ka, gone>>

-----------------------------------------------------------------------------
(* The upstream (external).  stop: a finish reason was sent; fin: so was     *)
(* all that its protocol needs to call the turn complete; end: nothing more  *)
(* will be sent; seen, named: tool indices met, met with a name; item: the   *)
(* open block or output item; spoke: visible content was sent; back: it      *)
(* returned to an earlier output item; whole: an item came without deltas.   *)

NewUpstream ==
    [ n |-> 0, stop |-> "", end |-> FALSE, seen |-> {}, named |-> {}, item |-> "",
      next |-> 0, tool |-> FALSE, spoke |-> FALSE, back |-> FALSE, whole |-> FALSE,
      begun |-> FALSE, fin |-> FALSE ]

Format == IF native THEN "responses" ELSE req.up

\* Tool indices of a chat stream: known ones or the next one.
Indices(u) == {i \in 0 .. 1 : i <= Cardinality(u.seen)}

Classes == IF req.thinkTag THEN {"prose", "part", "tag", "endtag"} ELSE {"prose", "ws", "markup"}

ChatContent(u) ==
    {Text(x, "") : x \in Classes} \union {Text("prose", "stop"), Simple("reasoning")}
    \union {Tool(i, "head", "") : i \in Indices(u) \ u.named}
    \union {Tool(i, "args", "") : i \in IF req.client = "chat" THEN u.named ELSE Indices(u)}

ChatOffers(u) ==
    (IF u.stop = "" /\ u.n < req.events THEN ChatContent(u) ELSE {})
    \union (IF u.stop = "" THEN {Finish(r) : r \in {"stop", "tool_calls", "length"}}
            ELSE {Simple("done")} \union (IF u.n < req.events THEN {Simple("usage")} ELSE {}))
    \union (IF req.client = "chat" THEN {} ELSE {Simple("done"), Simple("error")})

AnthropicOffers(u) ==
    IF ~u.begun THEN {Simple("message_start")}
    ELSE IF u.stop # "" THEN {Simple("message_stop")}
    ELSE IF u.item # "" THEN
        (IF u.n < req.events
         THEN {BlockDelta(u.next - 1, IF u.item = "tool_use" THEN "json" ELSE u.item)} ELSE {})
        \union {BlockStop(u.next - 1)}
    ELSE (IF u.n < req.events
          THEN {BlockStart(u.next, x) : x \in {"text", "thinking", "tool_use"}} ELSE {})
         \union {MessageDelta(IF u.tool THEN "tool_use" ELSE "end_turn"), Simple("error")}

DeltaOf(item) ==
    CASE item = "message" -> "text" [] item = "reasoning" -> "thinking" [] OTHER -> "args"

ItemTypes == {"message", "reasoning", "function_call", "nameless"}

ResponsesOffers(u) ==
    (IF u.item # "" THEN
        {ItemDone(u.next - 1, u.item)}
        \union (IF u.n < req.events THEN {ItemDelta(u.next - 1, DeltaOf(u.item))} ELSE {})
     ELSE IF u.n < req.events THEN
        {ItemAdded(u.next, x) : x \in IF native THEN {"message", "function_call"} ELSE ItemTypes}
        \union (IF native THEN {} ELSE {ItemDone(u.next, x) : x \in ItemTypes})
     ELSE {})
    \union (IF u.item = ""
            THEN {Completed(IF u.tool THEN "tool" ELSE r) : r \in {"stop", "length"}} ELSE {})
    \union {Simple("failed")}

\* A native stream begins with its own response.created.
Offers(u) ==
    IF u.end THEN {}
    ELSE IF native /\ ~u.begun THEN {Simple("created")}
    ELSE CASE Format = "chat" -> ChatOffers(u)
           [] Format = "anthropic" -> AnthropicOffers(u)
           [] Format = "responses" -> ResponsesOffers(u)

\* The chat stream returns to an earlier output item.
GoesBack(u, e) ==
    \/ e.k = "text" /\ u.seen # {} /\ u.spoke
    \/ e.k = "tool" /\ e.i \in u.seen /\ (\E j \in u.seen : j > e.i)

Advance(u, e) ==
    LET content == e.k \in {"usage", "text", "reasoning", "tool", "content_block_start", "content_block_delta",
                            "output_item.added", "delta", "output_item.done"}
        opens   == e.k \in {"content_block_start", "output_item.added"}
        alone   == e.k = "output_item.done" /\ u.item = "" IN
    [u EXCEPT
        !.n     = IF content THEN @ + 1 ELSE @,
        !.begun = TRUE,
        !.stop  = IF e.r # "" THEN "yes" ELSE @,
        !.fin   = @ \/ (Format = "chat" /\ e.r # "") \/ e.k \in {"done", "message_stop", "completed"},
        !.end   = e.k \in {"done", "message_stop", "completed", "failed", "error"},
        !.seen  = IF e.k = "tool" THEN @ \union {e.i} ELSE @,
        !.named = IF e.k = "tool" /\ e.x = "head" THEN @ \union {e.i} ELSE @,
        !.item  = IF opens THEN e.x
                  ELSE IF e.k \in {"content_block_stop", "output_item.done"} THEN "" ELSE @,
        !.next  = IF opens \/ alone THEN @ + 1 ELSE @,
        !.tool  = @ \/ e.x \in {"tool_use", "function_call"},
        !.whole = @ \/ alone,
        !.back  = @ \/ GoesBack(u, e),
        !.spoke = @ \/ (e.k = "text" /\ e.x \in {"prose", "markup", "part"})
                    \/ (e.k = "content_block_delta" /\ e.x = "text")
                    \/ (e.k = "delta" /\ e.x = "text") \/ (alone /\ e.x = "message")]

-----------------------------------------------------------------------------
(* The client: what Receive records of an event, legal or not.               *)

NewClient ==
    [ phase |-> "none", open |-> {}, used |-> {}, tool |-> FALSE, outcome |-> "",
      seen |-> [k |-> "idle", i |-> 0, n |-> 0], said |-> FALSE, footer |-> FALSE,
      failed |-> FALSE, listed |-> {} ]

\* The kind and item of an event in the client's protocol, as ClientStream
\* names them.
Kind(e) ==
    CASE e.k \in {"message_start", "created"} -> "begin"
      [] e.k \in {"content_block_start", "output_item.added"} ->
            IF e.x \in {"tool_use", "function_call"} THEN "tool" ELSE "open"
      [] e.k = "tool" -> IF e.x = "head" THEN "tool" ELSE "delta"
      [] e.k \in {"content_block_delta", "delta", "role", "text", "reasoning"} -> "delta"
      [] e.k \in {"content_block_stop", "output_item.done"} -> "close"
      [] e.k \in {"message_delta", "finish"} -> "stop"
      [] e.k \in {"message_stop", "done", "completed"} -> "end"
      [] e.k \in {"error", "failed"} -> "error"
      [] OTHER -> "idle"

Item(e) ==
    IF e.k \in {"role", "text", "reasoning"} THEN -1
    ELSE IF Kind(e) \in {"open", "tool", "delta", "close"} THEN e.i ELSE 0

\* A chat chunk may carry the finish reason next to its text.
Receive(c, e) ==
    LET k == IF e.k = "text" /\ e.r # "" THEN "stop" ELSE Kind(e) IN
    [ phase   |-> CASE k \in {"begin", "open", "tool", "delta"} -> "open"
                    [] k = "stop" -> "stopping" [] k = "end" -> "ended"
                    [] k = "error" -> "failed"  [] OTHER -> c.phase,
      open    |-> IF k \in {"open", "tool"} THEN c.open \union {e.i}
                  ELSE IF k = "close" THEN c.open \ {e.i} ELSE c.open,
      used    |-> IF k \in {"open", "tool"} THEN c.used \union {e.i} ELSE c.used,
      tool    |-> c.tool \/ k = "tool",
      outcome |-> IF k # "stop" THEN c.outcome
                  ELSE IF e.r \in {"tool_use", "tool_calls"} THEN "tool" ELSE "answer",
      seen    |-> [k |-> k, i |-> IF k = "stop" THEN 0 ELSE Item(e), n |-> 1 - c.seen.n],
      said    |-> c.said \/ (k \in {"delta", "stop"} /\ e.x \notin {"marker", "footer", "json", "args", ""}),
      footer  |-> c.footer \/ e.x = "footer",
      failed  |-> c.failed \/ k = "error",
      listed  |-> IF e.k = "completed" /\ ~native THEN sink.listed ELSE c.listed ]

-----------------------------------------------------------------------------
(* The writers of an attempt.                                               *)

NewTranslator ==
    CASE req.client = "anthropic" /\ req.up = "chat" -> C2A!NewAnthropicSSETranslator(req)
      [] req.client = "anthropic" /\ req.up = "responses" -> R2A!NewResponsesToAnthropicWriter(req)
      [] req.client = "anthropic" /\ req.up = "anthropic" -> D!NewAnthropicMarker(req.marker)
      [] req.client # "anthropic" /\ req.up = "anthropic" -> A2C!NewSSETranslator
      [] req.client = "chat" /\ req.up = "responses" -> R2C!NewResponsesToOpenAIChatWriter
      [] OTHER -> NewStream

\* What the attempt writes before it calls the upstream.
PreludeOf(t) ==
    CASE req.client = "anthropic" /\ req.up = "chat" -> C2A!Prelude(t)
      [] req.client = "anthropic" /\ req.up = "responses" -> R2A!Prelude(t)
      [] req.client = "chat" ->
            LET m == EmitAll(t, D!ChatMarkerPrelude(req.marker)) IN
            IF req.up = "responses" THEN R2C!Prelude(m) ELSE m
      [] OTHER -> t

Translate(t, e) ==
    CASE native -> Emit(t, e)
      [] ~native /\ req.client = "anthropic" /\ req.up = "chat" -> C2A!translateOpenAIEvent(t, e)
      [] ~native /\ req.client = "anthropic" /\ req.up = "responses" -> R2A!translateResponsesEvent(t, e)
      [] ~native /\ req.client = "anthropic" /\ req.up = "anthropic" -> D!AnthropicMarkerEvent(t, e)
      [] ~native /\ req.client # "anthropic" /\ req.up = "anthropic" -> A2C!translateEvent(t, e)
      [] ~native /\ req.client = "chat" /\ req.up = "responses" -> R2C!translateEvent(t, e)
      [] ~native /\ req.client # "anthropic" /\ req.up = "chat" -> Emit(t, e)

FinalizeOf(t) ==
    CASE req.client = "anthropic" /\ req.up = "chat" -> C2A!Finalize(t)
      [] req.client = "anthropic" /\ req.up = "responses" -> R2A!Finalize(t)
      [] req.client # "anthropic" /\ req.up = "anthropic" -> A2C!Finalize(t)
      [] req.client = "chat" /\ req.up = "responses" -> R2C!Finalize(t)
      [] OTHER -> t

NewSink ==
    CASE req.client = "anthropic" -> D!NewAnthropicFooter(req.footer)
      [] req.client = "chat" -> D!NewChatFooter(req.footer)
      [] req.client = "responses" -> C2R!NewResponsesWriter(req)

SinkEvent(s, e) ==
    CASE req.client = "anthropic" -> D!AnthropicFooterEvent(s, e)
      [] req.client = "chat" -> D!ChatFooterEvent(s, e)
      [] req.client = "responses" -> C2R!Write(s, e)

Flushed(s) == [s EXCEPT !.out = <<>>]

\* preludeBuffer.Write after Seal: the first write commits, sends the held
\* prelude first, and from then on everything passes.
Write(evs) ==
    LET pass == IF evs = <<>> THEN <<>> ELSE buf.held \o evs
        s    == FoldLeft(LAMBDA x, e : SinkEvent(x, e), sink, pass) IN
    /\ buf' = IF evs = <<>> THEN buf ELSE [held |-> <<>>, committed |-> TRUE]
    /\ sink' = Flushed(s)
    /\ q' = s.out

SinkError(evs) ==
    LET pass == IF evs = <<>> THEN <<>> ELSE buf.held \o evs IN
    FoldLeft(LAMBDA x, e : SinkEvent(x, e), sink, pass).err

-----------------------------------------------------------------------------
(* The request.                                                             *)

Init ==
    /\ req \in Requests
    /\ pc = "dispatch" /\ attempt = 0 /\ native = req.native
    /\ up = NewUpstream /\ tr = NewTranslator /\ err = "none" /\ half = FALSE
    /\ buf = [held |-> <<>>, committed |-> FALSE]
    /\ LET s == IF req.client = "responses" /\ req.bindings = 1 THEN C2R!Prelude(NewSink) ELSE NewSink IN
       sink = Flushed(s) /\ q = s.out
    /\ client = NewClient /\ gone = FALSE
    /\ ka = [armed |-> FALSE, stopped |-> FALSE, closed |-> FALSE, running |-> FALSE]

Quiet == q = <<>> /\ ~half

\* Prelude and Seal of an attempt, in a buffer emptied by Discard.
Attempt ==
    /\ pc = "dispatch" /\ Quiet /\ attempt < req.bindings
    /\ pc' = "stream" /\ attempt' = attempt + 1
    /\ up' = NewUpstream
    /\ LET t == PreludeOf(NewTranslator) IN
       /\ tr' = Flushed(t)
       /\ buf' = [buf EXCEPT !.held = @ \o t.out]
    /\ err' = "none"
    /\ UNCHANGED <<req, native, sink, q, half, client, ka, gone>>

\* StreamBody copies one event into the translator.
Stream ==
    /\ pc = "stream" /\ Quiet
    /\ \E e \in Offers(up) :
        LET t == Translate(tr, e)
            f == IF Ok(t) THEN SinkError(t.out) ELSE t.err IN
        /\ up' = Advance(up, e)
        /\ Write(t.out)
        /\ tr' = Flushed(t)
        /\ err' = f
        /\ pc' = IF f = "none" THEN "stream" ELSE "failing"
    /\ UNCHANGED <<req, attempt, native, half, client, ka, gone>>

\* The body ends: Finalize turns what is missing into an error.
Eof ==
    /\ pc = "stream" /\ Quiet
    /\ LET t == IF native THEN tr ELSE FinalizeOf(tr)
           f == IF Ok(t) THEN SinkError(t.out) ELSE t.err IN
       /\ Write(t.out) /\ tr' = Flushed(t) /\ err' = f
    /\ pc' = "ended"
    /\ UNCHANGED <<req, attempt, native, up, half, client, ka, gone>>

\* A reset connection, or a watchdog that has seen no progress: the error
\* has no upstream status, so Finalize does not run.
Abort ==
    /\ pc = "stream" /\ Quiet
    /\ err' = "transport" /\ pc' = "ended"
    /\ UNCHANGED <<req, attempt, native, up, tr, buf, sink, q, half, client, ka, gone>>

\* The upstream answers with an error status; its body is only buffered.
Reject ==
    /\ pc = "stream" /\ Quiet /\ ~up.begun
    /\ err' = "status" /\ pc' = "ended"
    /\ UNCHANGED <<req, attempt, native, up, tr, buf, sink, q, half, client, ka, gone>>

\* The endpoint has no Responses surface: once more on chat/completions.
Unsupported ==
    /\ pc = "stream" /\ Quiet /\ native /\ ~up.begun
    /\ ~buf.committed /\ ~sink.created
    /\ native' = FALSE /\ sink' = C2R!ClearPassthrough(sink)
    /\ up' = NewUpstream /\ tr' = Flushed(PreludeOf(NewTranslator))
    /\ UNCHANGED <<req, pc, attempt, buf, err, q, half, client, ka, gone>>

\* A writer returned an error.  After the commit an upstream status becomes
\* an error frame (emitAnthropicSSEErrorEvent, emitOpenAISSEErrorEvent).
Failing ==
    /\ pc = "failing" /\ Quiet
    /\ Write(IF err = "status" /\ buf.committed /\ ~native THEN <<Simple("error")>> ELSE <<>>)
    /\ pc' = "ended"
    /\ UNCHANGED <<req, attempt, native, up, tr, err, half, client, ka, gone>>

Discard(b) == [b EXCEPT !.held = <<>>]

\* Nothing has reached the client: Discard and the next binding.
Retry ==
    /\ pc = "ended" /\ Quiet /\ err # "none" /\ ~buf.committed /\ attempt < req.bindings
    /\ pc' = "dispatch" /\ buf' = Discard(buf)
    /\ UNCHANGED <<req, attempt, native, up, tr, sink, err, q, half, client, ka, gone>>

\* The turn is over.  A /v1/responses stream gets its last events here; a
\* request that has sent nothing is answered with an error envelope.
Conclude ==
    /\ pc = "ended" /\ Quiet
    /\ err = "none" \/ buf.committed \/ attempt = req.bindings
    /\ LET ok == err = "none"
           s  == IF req.client # "responses" THEN sink
                 ELSE IF ok THEN C2R!Finalize(sink) ELSE C2R!FinalizeError(sink)
           f  == ~ok /\ ~buf.committed /\ s.out = <<>> IN
       /\ sink' = Flushed(s) /\ q' = s.out
       /\ err' = IF ok THEN s.err ELSE err
       /\ client' = IF f THEN [client EXCEPT !.phase = "refused"] ELSE client
    /\ pc' = "closing"
    /\ UNCHANGED <<req, attempt, native, up, tr, buf, half, ka, gone>>

-----------------------------------------------------------------------------
(* The wire, the keepalive goroutine and the end of the handler.            *)

\* KeepaliveWriter.Write: the first byte arms the goroutine.
Arm(k) ==
    IF req.client = "responses" \/ k.armed \/ k.stopped THEN k
    ELSE [k EXCEPT !.armed = TRUE, !.running = TRUE]

\* One event, written at once or in two pieces (which makes a difference only
\* under a keepalive writer).
Deliver ==
    /\ q # <<>> /\ ~gone
    /\ ka' = Arm(ka)
    /\ \/ half' = FALSE /\ client' = Receive(client, Head(q)) /\ q' = Tail(q)
       \/ ~half /\ req.client # "responses" /\ half' = TRUE /\ UNCHANGED <<client, q>>
    /\ UNCHANGED <<req, pc, attempt, native, up, tr, buf, sink, err, gone>>

Disconnect ==
    /\ ~gone /\ ~half /\ pc # "done" /\ gone' = TRUE
    /\ UNCHANGED <<req, pc, attempt, native, up, tr, buf, sink, err, q, half, client, ka>>

\* The request's context is cancelled and writes fail: the writers of the
\* request are dropped with what they hold.
Canceled ==
    /\ gone /\ pc \in {"dispatch", "stream", "failing", "ended"}
    /\ err' = "canceled" /\ pc' = "closing" /\ q' = <<>> /\ half' = FALSE
    /\ tr' = NewTranslator /\ sink' = NewSink /\ buf' = [buf EXCEPT !.held = <<>>]
    /\ UNCHANGED <<req, attempt, native, up, client, ka, gone>>

\* Mutant: a keepalive is due whatever was written last.
endsOnBlankLineMutant == TRUE

endsOnBlankLine == ~half

Ping == [Receive(client, Simple("ping")) EXCEPT !.phase = IF half THEN "torn" ELSE @]

emitIfSilent ==
    /\ ka.running /\ ~ka.stopped /\ endsOnBlankLine
    /\ IF gone THEN ka' = [ka EXCEPT !.stopped = TRUE, !.running = FALSE] /\ UNCHANGED client
       ELSE client' = Ping /\ UNCHANGED ka
    /\ UNCHANGED <<req, pc, attempt, native, up, tr, buf, sink, err, q, half, gone>>

\* Mutant: the loop does not listen for Close.
LoopExitMutant ==
    /\ ka.running /\ gone
    /\ ka' = [ka EXCEPT !.running = FALSE]
    /\ UNCHANGED <<req, pc, attempt, native, up, tr, buf, sink, err, q, half, client, gone>>

LoopExit ==
    /\ ka.running /\ (ka.stopped \/ ka.closed)
    /\ ka' = [ka EXCEPT !.running = FALSE]
    /\ UNCHANGED <<req, pc, attempt, native, up, tr, buf, sink, err, q, half, client, gone>>

\* The deferred KeepaliveWriter.Close, in two steps: stop, then wait.
Close ==
    /\ pc = "closing" /\ (Quiet \/ gone)
    /\ pc' = "reaping" /\ ka' = [ka EXCEPT !.closed = TRUE, !.stopped = TRUE]
    /\ q' = <<>> /\ half' = FALSE
    /\ UNCHANGED <<req, attempt, native, up, tr, buf, sink, err, client, gone>>

\* Mutant: Close does not wait for the goroutine once emission has stopped.
ReapMutant ==
    /\ pc = "reaping" /\ pc' = "done"
    /\ UNCHANGED <<req, attempt, native, up, tr, buf, sink, err, q, half, client, ka, gone>>

Reap ==
    /\ pc = "reaping" /\ ~ka.running /\ pc' = "done"
    /\ UNCHANGED <<req, attempt, native, up, tr, buf, sink, err, q, half, client, ka, gone>>

Next ==
    \/ Attempt \/ Stream \/ Eof \/ Abort \/ Reject \/ Unsupported \/ Failing \/ Retry
    \/ Conclude \/ Deliver \/ Disconnect \/ Canceled \/ emitIfSilent \/ LoopExit
    \/ Close \/ Reap

\* The handler runs, the watchdogs fire on a silent upstream, and a goroutine
\* that was told to stop is scheduled.  Nothing is assumed of the upstream.
Fairness ==
    /\ WF_vars(Attempt \/ Failing \/ Retry \/ Conclude \/ Canceled \/ Close \/ Reap)
    /\ WF_vars(Deliver /\ half' = FALSE)
    /\ WF_vars(Abort)
    /\ WF_vars(LoopExit)

Spec == Init /\ [][Next]_vars /\ Fairness

-----------------------------------------------------------------------------
(* Properties.                                                              *)

\* What a client of protocol p has received; a client of another protocol
\* has received nothing.
As(p) == IF req.client = p THEN client ELSE NewClient

Anthropic == INSTANCE ClientStream WITH
    Protocol <- "anthropic", MaxItem <- MaxEvents + 2, phase <- As("anthropic").phase, open <- As("anthropic").open,
    used <- As("anthropic").used, tool <- As("anthropic").tool,
    outcome <- As("anthropic").outcome, seen <- As("anthropic").seen

Chat == INSTANCE ClientStream WITH
    Protocol <- "chat", MaxItem <- MaxEvents + 2, phase <- As("chat").phase, open <- As("chat").open,
    used <- As("chat").used, tool <- As("chat").tool,
    outcome <- As("chat").outcome, seen <- As("chat").seen

Responses == INSTANCE ClientStream WITH
    Protocol <- "responses", MaxItem <- MaxEvents + 2, phase <- As("responses").phase, open <- As("responses").open,
    used <- As("responses").used, tool <- As("responses").tool,
    outcome <- As("responses").outcome, seen <- As("responses").seen

\* Whatever the upstream's format and wherever it breaks, an Anthropic client
\* receives a well-formed message stream: one message_start, blocks in index
\* order, deltas only to open blocks, stop_reason tool_use iff a tool block
\* was sent (stream.go emitMessageDelta), and no bytes of a failed attempt.
AnthropicProtocol == Anthropic!Spec

\* A chat-completions client receives tool calls with consecutive indices,
\* one finish chunk and one [DONE], in this order.
ChatProtocol == Chat!Spec

\* A Responses client receives every item under an index of its own, closed before
\* response.completed, and nothing after the terminal event.
ResponsesProtocol == Responses!Spec

Finished == pc = "done" /\ ~gone

\* The attempt copies the upstream's bytes: nothing looks for their end.
Raw == native \/ req.client = req.up

\* An attempt that reports no error has told the client how the turn ended,
\* wherever a translator stands between the two protocols.  (A Responses
\* upstream that fails after its first output ends in an error event and no
\* error: emitStreamErrorEvent.)
SuccessEnds ==
    Finished /\ err = "none" /\ (Raw => up.fin /\ up.end) => client.phase \in {"ended", "failed"}

\* A client that has part of a translated answer is told when the upstream
\* ended before its terminal event, unless the answer was complete by then
\* (Finalize of every translator, FinalizeError of ResponsesWriter).  The one
\* exception is an answer that began with an item without deltas.
TruncationAnnounced ==
    Finished /\ err = "incomplete" /\ buf.committed /\ ~up.whole
        => client.phase \in {"ended", "failed"}

\* A stream is ended as complete only if the upstream completed the turn:
\* truncation is never passed off as an answer.
NoFalseEnd ==
    client.phase = "ended" /\ ~client.failed => up.fin \/ up.stop # ""

\* How a stream ends says what happened to the turn.
EndsHonestly == SuccessEnds /\ TruncationAnnounced /\ NoFalseEnd

\* The final response lists exactly the output items the stream delivered
\* (responses.go assembleOutput): a client may keep either of the two.
ListedAsStreamed ==
    req.client = "responses" /\ ~native /\ client.phase = "ended"
        => client.listed = client.used

\* Visible text of a turn that succeeded has reached the client, also the text
\* the <think> splitter held back (think_tag.go Flush).
NothingSwallowed == Finished /\ err = "none" /\ up.spoke => client.said

\* The feedback footer is part of a tool-free answer only: a tool call later
\* in the turn would hand it back to the model.
FooterOnAnswerOnly ==
    client.footer => ~client.tool /\ client.outcome # "tool"

\* The client gets the answer, all of it and nothing that is not of it.
ContentFaithful == ListedAsStreamed /\ NothingSwallowed /\ FooterOnAnswerOnly

\* The keepalive goroutine is gone when the handler returns: it may not write
\* to a ResponseWriter that the server has taken back (keepalive.go Close).
KeepaliveReaped == pc = "done" => ~ka.running

\* Every request ends, also when the upstream or the client falls silent.
Terminates == <>(pc = "done")
=============================================================================
