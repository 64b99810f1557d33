------------------------------ MODULE Requests ------------------------------
(***************************************************************************)
(* The life of a request body: what a client has in its history, what the  *)
(* router makes of it (badges, acknowledgements and commands stripped,     *)
(* unpaired tool calls removed, an over-long history compacted or handed   *)
(* over) and what it writes on the wire of the provider that serves it.    *)
(*                                                                         *)
(* A message is a role and a sequence of blocks; a block holds fragments,  *)
(* and a fragment says what a piece of text is (prose, badge, footer,      *)
(* command, acknowledgement, tool output, image) and which message of the  *)
(* client's history it comes from.  The client's history `conv` is kept in *)
(* the shape of the Anthropic surface; Body writes it for each surface.    *)
(* Content of a chat message is one text block, empty for "", and none for *)
(* null; an Anthropic message with content [] has no block.                *)
(***************************************************************************)
EXTENDS Integers, Sequences, FiniteSets, SequencesExt

CONSTANTS
  Surfaces,        \* the entry points used: "anthropic", "chat", "responses"
  Windows,         \* window of the largest eligible model, in pieces of text
  TriggerPct,      \* compactionTriggerPct, in percent
  ToolResultKeep,  \* compactionPolicy.ToolResultKeep
  RecentTurns,     \* compactionPolicy.RecentTurns
  RescueTurns,     \* the rest of the rescue ladder (6, 3, 1 in the code)
  OutputSize,      \* tokens of a tool output, in pieces of text
  ImageSize,       \* imageTokenEstimate, likewise
  UserTurns(_),    \* the user messages a client may add to its history
  Replies(_, _, _),\* what reaches a client of a surface, from a wire, as message n
  MaxMessages      \* bound on the client's history

VARIABLES
  surface, window, \* fixed per behaviour
  conv,            \* the client's history
  phase,           \* where the request in hand is
  env,             \* RequestEnvelope.body.messages
  rewritten,       \* compaction or a handover changed env
  switched,        \* EmitOptions.ModelSwitched
  wire,            \* the format env was emitted in
  sent             \* the messages sent upstream

vars == <<surface, window, conv, phase, env, rewritten, switched, wire, sent>>

-----------------------------------------------------------------------------
(* Messages, blocks, fragments *)

Frag(f, n, i) == [f |-> f, n |-> n, i |-> i]
Block(k, v, id, sig) == [k |-> k, v |-> v, id |-> id, sig |-> sig]
NoId == <<0, 0>>
Text(v) == Block("text", v, NoId, "none")
Image(v) == Block("image", v, NoId, "none")
Think(n, sig) == Block("think", <<Frag(sig, n, 0)>>, NoId, sig)
Call(n, i, sig) == Block("call", <<Frag("call", n, i)>>, <<n, i>>, sig)
Result(id, v) == Block("result", v, id, "none")
Msg(role, blocks) == [role |-> role, blocks |-> blocks]

FlatMap(s, Op(_)) == FlattenSeq([i \in DOMAIN s |-> Op(s[i])])
Pick(s, S) == FlattenSeq([i \in DOMAIN s |-> IF i \in S THEN <<s[i]>> ELSE <<>>])
Blocks(msgs) == FlatMap(msgs, LAMBDA m : m.blocks)
Frags(blocks) == FlatMap(blocks, LAMBDA b : b.v)
Of(blocks, kinds) == SelectSeq(blocks, LAMBDA b : b.k \in kinds)
Plain(v) == SelectSeq(v, LAMBDA x : x.f # "img")
Images(v) == SelectSeq(v, LAMBDA x : x.f = "img")
Ids(msgs, k) == {b.id : b \in {c \in ToSet(Blocks(msgs)) : c.k = k}}

Leads(b, kinds) == b.v # <<>> /\ b.v[1].f \in kinds

Chat == surface # "anthropic"      \* env.format = FormatOpenAI

(* Acknowledgements the router writes; the marked ones are formatted as a  *)
(* routing marker, so the marker pattern matches them too.                 *)
FeedbackAcks == {"rfAck", "rfAckMarked"}
BetaAcks == {"betaAckMarked"}
Markers == {"badge", "rfAckMarked", "betaAckMarked", "forceAckMarked"}

-----------------------------------------------------------------------------
(* How a client writes its history *)

\* Chat completions: one tool message per result, then the rest of the user
\* turn; content of an assistant message is a string, or null beside calls.
chatMessages(m) ==
  IF m.role = "assistant"
  THEN LET text == Of(m.blocks, {"text"})
       IN <<Msg("assistant", (IF text = <<>> THEN <<>> ELSE <<Text(Frags(text))>>)
                             \o Of(m.blocks, {"call"}))>>
  ELSE LET results == Of(m.blocks, {"result"})
           rest == Of(m.blocks, {"text", "image"})
       IN [i \in DOMAIN results |-> Msg("tool", <<results[i]>>)]
          \o IF rest = <<>> THEN <<>> ELSE <<Msg("user", rest)>>

\* A Responses history through ConvertResponsesToChatCompletions: every
\* call is a message of its own, an assistant message the badge strips to
\* nothing is left out, only the text of a message is projected, and of an
\* output that is not a string (one that carries an image) nothing is read.
responsesInputItemToMessages(m) ==
  LET text == Frags(Of(m.blocks, {"text"}))
      shown == IF m.role = "assistant" /\ text # <<>> /\ text[1].f \in Markers
               THEN Tail(text) ELSE text
      calls == Of(m.blocks, {"call"})
      results == Of(m.blocks, {"result"})
      says == Of(m.blocks, {"text", "image"}) # <<>>
      Str(v) == IF Images(v) = <<>> THEN v ELSE <<>>
  IN [i \in DOMAIN results |-> Msg("tool", <<[results[i] EXCEPT !.v = Str(@)]>>)]
     \o (IF ~says \/ (m.role = "assistant" /\ shown = <<>>)
         THEN <<>> ELSE <<Msg(m.role, <<Text(shown)>>)>>)
     \o [i \in DOMAIN calls |-> Msg("assistant", <<Text(<<>>), calls[i]>>)]

Body(msgs) ==
  CASE surface = "anthropic" -> msgs
    [] surface = "chat" -> FlatMap(msgs, chatMessages)
    [] surface = "responses" -> FlatMap(msgs, responsesInputItemToMessages)

-----------------------------------------------------------------------------
(* Ingress: what is stripped from the history *)

\* A greedy pattern: everything behind a badge goes with it.
stripPatternFromMessagesMutant(msgs, pattern) ==
  LET Strip(b) == IF b.k = "text" /\ Leads(b, pattern) THEN Text(<<>>) ELSE b
  IN [i \in DOMAIN msgs |->
       [msgs[i] EXCEPT !.blocks = [j \in DOMAIN @ |-> Strip(@[j])]]]

\* A text block left blank is dropped; a string content becomes "".  The
\* message stays, with content [] if that was its only block.
stripPatternFromMessages(msgs, pattern) ==
  LET Strip(b) ==
        IF b.k # "text" \/ \A x \in ToSet(b.v) : x.f \notin pattern THEN <<b>>
        ELSE LET v == SelectSeq(b.v, LAMBDA x : x.f \notin pattern)
             IN IF v = <<>> /\ ~Chat THEN <<>> ELSE <<Text(v)>>
  IN [i \in DOMAIN msgs |-> [msgs[i] EXCEPT !.blocks = FlatMap(@, Strip)]]

\* The `content` of a message: the calls of a chat message are beside it.
Content(m) == {b \in ToSet(m.blocks) : Chat => b.k # "call"}
OnlyOf(m, kinds) ==
  /\ \A b \in Content(m) : b.k = "text" /\ (b.v = <<>> \/ Leads(b, kinds))
  /\ \E b \in Content(m) : Leads(b, kinds)

isRouterFeedbackCommandOnlyContent(m) == OnlyOf(m, {"rf"})
isRouterFeedbackAckOnlyContent(m) == OnlyOf(m, FeedbackAcks)
isBetaCommandOnlyContent(m) ==
  OnlyOf(m, {"beta"}) /\ \A b \in Content(m) : Len(b.v) <= 1
isBetaAckOnlyContent(m) == OnlyOf(m, BetaAcks)
\* Content null of a chat message is not empty text, content [] is.
isEmptyTextContent(m) ==
  /\ Chat => Content(m) # {}
  /\ \A b \in Content(m) : b.k = "text" /\ b.v = <<>>

lastUserIdx(msgs) ==
  CHOOSE i \in 0 .. Len(msgs) :
    /\ i = 0 \/ msgs[i].role = "user"
    /\ \A j \in i + 1 .. Len(msgs) : msgs[j].role # "user"

StripRouterFeedbackArtifacts(msgs) ==
  Pick(msgs, {i \in DOMAIN msgs :
    /\ ~(/\ msgs[i].role = "user" /\ i # lastUserIdx(msgs)
         /\ isRouterFeedbackCommandOnlyContent(msgs[i]))
    /\ ~(msgs[i].role = "assistant" /\ isRouterFeedbackAckOnlyContent(msgs[i]))})

\* The marker strip has usually emptied the acknowledgement of a toggle, so
\* an empty assistant message behind a removed command goes with it.
StripBetaArtifacts(msgs) ==
  LET removedCommands == {i \in DOMAIN msgs :
        /\ msgs[i].role = "user" /\ i # lastUserIdx(msgs)
        /\ isBetaCommandOnlyContent(msgs[i])}
      removedReplies == {i \in DOMAIN msgs :
        /\ msgs[i].role = "assistant"
        /\ \/ isBetaAckOnlyContent(msgs[i])
           \/ i - 1 \in removedCommands /\ isEmptyTextContent(msgs[i])}
  IN Pick(msgs, DOMAIN msgs \ (removedCommands \union removedReplies))

Ingest(msgs) ==
  StripBetaArtifacts(StripRouterFeedbackArtifacts(
    stripPatternFromMessages(stripPatternFromMessages(Body(msgs), Markers), {"footer"})))

-----------------------------------------------------------------------------
(* Commands of the trailing turn *)

followsAssistantToolUse(msgs, i) ==
  i > 1 /\ msgs[i - 1].role = "assistant" /\ Of(msgs[i - 1].blocks, {"call"}) # <<>>

\* /force-model leaves the lines below it, /rf takes the whole text.
StrippedText(b, cmd) == IF cmd = "rf" THEN Images(b.v) ELSE Tail(b.v)

\* The block goes, then the message if it was its only block; not the last
\* message of a history, which providers refuse empty.
dropCommandBlock(msgs, i, j) ==
  LET left == Pick(msgs[i].blocks, DOMAIN msgs[i].blocks \ {j})
  IN IF left # <<>> THEN [msgs EXCEPT ![i].blocks = left]
     ELSE Pick(msgs, DOMAIN msgs \ {i})

extractLeadingCommandWithSource(msgs, cmd) ==
  LET i == Len(msgs)
      trailing == i > 0 /\ msgs[i].role \in {"user", "tool"}
      candidates == {j \in DOMAIN msgs[i].blocks :
                       /\ msgs[i].blocks[j].k \in {"text", "result"}
                       /\ Leads(msgs[i].blocks[j], {cmd})}
      j == CHOOSE k \in candidates : \A l \in candidates : k <= l
      b == msgs[i].blocks[j]
      stripped == StrippedText(b, cmd)
      fromToolResult == \/ Of(msgs[i].blocks, {"result"}) # <<>>
                        \/ followsAssistantToolUse(msgs, i)
      dropped == dropCommandBlock(msgs, i, j)
  IN IF ~trailing \/ candidates = {}
     THEN [found |-> FALSE, fromToolResult |-> FALSE, msgs |-> msgs]
     ELSE [found |-> TRUE, fromToolResult |-> fromToolResult,
           msgs |-> IF fromToolResult /\ stripped = <<>> /\ b.k = "text" /\ dropped # <<>>
                    THEN dropped
                    ELSE [msgs EXCEPT ![i].blocks[j].v = stripped]]

\* /beta is never taken from a tool result: the body is put back.
ExtractBetaCommand(msgs) ==
  LET r == extractLeadingCommandWithSource(msgs, "beta")
  IN IF r.found /\ r.fromToolResult THEN [r EXCEPT !.found = FALSE, !.msgs = msgs] ELSE r

-----------------------------------------------------------------------------
(* Tool calls and results without their counterpart *)

\* The blocks of msgs in roles that satisfy Keep; a message the removal
\* leaves empty goes too, except a chat message that loses its calls.
KeepBlocks(msgs, role, Keep(_)) ==
  FlatMap(msgs, LAMBDA m :
    LET kept == SelectSeq(m.blocks, Keep)
    IN IF m.role # role \/ kept = m.blocks THEN <<m>>
       ELSE IF kept = <<>> /\ ~(Chat /\ role = "assistant") THEN <<>> ELSE <<[m EXCEPT !.blocks = kept]>>)

ResultRole == IF Chat THEN "tool" ELSE "user"

stripOrphanedToolCalls(msgs) ==
  KeepBlocks(msgs, "assistant", LAMBDA b : b.k = "call" => b.id \in Ids(msgs, "result"))

\* Only the calls are checked: an orphaned result of a resumed session stays.
stripOrphanedToolResultsMutant(msgs) == msgs

stripOrphanedToolResults(msgs) ==
  KeepBlocks(msgs, ResultRole, LAMBDA b : b.k = "result" => b.id \in Ids(msgs, "call"))

SanitizeOrphanedToolCalls(msgs) == stripOrphanedToolResults(stripOrphanedToolCalls(msgs))

-----------------------------------------------------------------------------
(* Compaction and handover *)

SummaryMessage == Msg("assistant", <<Text(<<Frag("summary", 0, 0)>>)>>)

ContextOverflowTokenEstimate(msgs) ==
  LET v == Frags(Blocks(msgs))
      Count(f) == Len(SelectSeq(v, LAMBDA x : x.f = f))
  IN Len(v) + (OutputSize - 1) * Count("out") + (ImageSize - 1) * Count("img")

\* Every result but the last ToolResultKeep has its content replaced.
ClearOldToolResults(msgs) ==
  LET results == {<<i, j>> \in (DOMAIN msgs) \X (1 .. Len(Blocks(msgs))) :
                    j \in DOMAIN msgs[i].blocks /\ msgs[i].blocks[j].k = "result"}
      Later(p) == {q \in results : q[1] > p[1] \/ (q[1] = p[1] /\ q[2] > p[2])}
      old == {p \in results : Cardinality(Later(p)) >= ToolResultKeep}
      Cleared(b) == [b EXCEPT !.v = <<Frag("cleared", b.id[1], b.id[2])>>]
  IN [i \in DOMAIN msgs |-> [msgs[i] EXCEPT !.blocks =
        [j \in DOMAIN @ |-> IF <<i, j>> \in old THEN Cleared(@[j]) ELSE @[j]]]]

\* The window of the last keep messages, moved forward to a user message;
\* the last user message if the window holds none.
userAlignedStart(msgs, keep) ==
  LET users == {i \in DOMAIN msgs : msgs[i].role = "user"}
      inWindow == {i \in users : i > Len(msgs) - keep}
  IN CASE inWindow # {} -> CHOOSE i \in inWindow : \A j \in inWindow : i <= j
       [] inWindow = {} /\ users # {} -> CHOOSE i \in users : \A j \in users : j <= i
       [] OTHER -> Len(msgs) + 1

RewriteForCompaction(msgs) ==
  IF msgs = <<>> THEN msgs
  ELSE <<SummaryMessage>> \o stripOrphanedToolResults(
    SubSeq(msgs, userAlignedStart(msgs, RecentTurns), Len(msgs)))

TrimLastNMessages(msgs, n) ==
  IF Len(msgs) <= n THEN msgs
  ELSE stripOrphanedToolResults(SubSeq(msgs, Len(msgs) - n + 1, Len(msgs)))

RewriteForHandover(msgs) ==
  LET i == lastUserIdx(msgs)
      latest == IF i = 0 THEN <<>> ELSE <<msgs[i]>>
  IN IF msgs = <<>> THEN msgs
     ELSE <<SummaryMessage>> \o KeepBlocks(latest, "user", LAMBDA b : b.k # "result")

\* The cascade: clear old tool results, summarize, trim.  `deferred` is what
\* clientWouldCompact says, `summarized` what runCompactionSummary returned.
maybeCompact(msgs, deferred, summarized) ==
  LET Fits(m) == ContextOverflowTokenEstimate(m) <= window
      Over(m) == ContextOverflowTokenEstimate(m) >= (window * TriggerPct) \div 100
      tier1 == ClearOldToolResults(msgs)
      summary == RewriteForCompaction(tier1)
      tier3 == IF summarized /\ ~(Fits(tier1) /\ ~Fits(summary)) THEN summary ELSE tier1
      ladder == <<RecentTurns>> \o RescueTurns
      rescue == FoldLeft(LAMBDA m, n : IF Fits(m) THEN m ELSE TrimLastNMessages(m, n),
                         tier3, ladder)
  IN IF ~Over(msgs) \/ (Fits(msgs) /\ deferred) THEN msgs
     ELSE IF ~Over(tier1) THEN tier1 ELSE rescue

-----------------------------------------------------------------------------
(* Emission: what is written on the upstream's wire *)

\* The results of consecutive tool messages leave as one user message.
flushToolBatch(m) == IF m.role = "tool" THEN [m EXCEPT !.role = "user"] ELSE m

\* With calls, a text block is written only if there is text.
buildAnthropicAssistantMessage(m) ==
  IF Of(m.blocks, {"call"}) = <<>> THEN m
  ELSE [m EXCEPT !.blocks = SelectSeq(@, LAMBDA b : b.v # <<>>)]

writeAnthropicSystemAndMessages(msgs) ==
  LET Collect(acc, m) ==
        IF m.role = "tool" /\ acc # <<>> /\ Last(acc).role = "tool"
        THEN [acc EXCEPT ![Len(acc)].blocks = @ \o m.blocks]
        ELSE Append(acc, m)
      batched == FoldLeft(Collect, <<>>, msgs)
  IN [i \in DOMAIN batched |-> flushToolBatch(buildAnthropicAssistantMessage(batched[i]))]

\* Same format: only thinking the target would reject is dropped, and a
\* message that held nothing else.
buildAnthropicFromAnthropic(msgs, modelSwitched) ==
  KeepBlocks(msgs, "assistant",
             LAMBDA b : b.k = "think" => ~modelSwitched /\ b.sig = "anthropic")

\* An assistant message keeps text and calls; a user message is split into
\* tool messages and one user message, images of a result hoisted into it.
writeOpenAISystemAndMessagesFromAnthropic(msgs) ==
  FlatMap(msgs, LAMBDA m :
    LET Part(b) == IF b.k # "result" THEN <<b>>
                   ELSE LET hoisted == Images(b.v)
                        IN IF hoisted = <<>> THEN <<>> ELSE <<Image(hoisted)>>
        parts == FlatMap(m.blocks, Part)
        results == Of(m.blocks, {"result"})
    IN IF m.role = "assistant"
       THEN <<Msg("assistant", <<Text(Frags(Of(m.blocks, {"text"})))>> \o Of(m.blocks, {"call"}))>>
       ELSE [i \in DOMAIN results |-> Msg("tool", <<[results[i] EXCEPT !.v = Plain(@)]>>)]
            \o IF parts = <<>> THEN <<>> ELSE <<Msg("user", parts)>>)

\* A Responses input item is a message of its own here.
writeResponsesContentMessage(role, text, images) ==
  LET extra == IF role = "assistant" \/ images = <<>> THEN <<>> ELSE <<Image(images)>>
      parts == IF text = <<>> THEN extra ELSE <<Text(text)>> \o extra
  IN IF parts = <<>> THEN <<>> ELSE <<Msg(role, parts)>>

\* Text and images are buffered and flushed before every typed item; a
\* reasoning item this provider signed is replayed once, from the thinking
\* block or from the call that carries it.
writeResponsesInputFromAnthropic(msgs) ==
  LET Flush(m, a) == a.out \o writeResponsesContentMessage(m.role, a.text, a.images)
      Reasoning(m, a, b) == IF b.sig # "responses" \/ a.emitted THEN <<>>
                            ELSE <<Msg("assistant", <<Think(IF b.k = "think" THEN b.v[1].n ELSE b.id[1], "responses")>>)>>
      Step(m, a, b) ==
        CASE b.k = "text" -> [a EXCEPT !.text = @ \o b.v]
          [] b.k = "image" -> [a EXCEPT !.images = @ \o b.v]
          [] b.k = "think" -> IF Reasoning(m, a, b) = <<>> THEN a
                              ELSE [out |-> Flush(m, a) \o Reasoning(m, a, b),
                                    text |-> <<>>, images |-> <<>>, emitted |-> TRUE]
          [] b.k = "call" -> [out |-> Flush(m, a) \o Reasoning(m, a, b) \o <<Msg("assistant", <<b>>)>>,
                              text |-> <<>>, images |-> <<>>,
                              emitted |-> a.emitted \/ b.sig = "responses"]
          [] b.k = "result" -> [out |-> Append(Flush(m, a), Msg("tool", <<[b EXCEPT !.v = Plain(@)]>>)),
                                text |-> <<>>, images |-> Images(b.v), emitted |-> a.emitted]
      Items(m) == Flush(m, FoldLeft(LAMBDA a, b : Step(m, a, b),
                                    [out |-> <<>>, text |-> <<>>, images |-> <<>>, emitted |-> FALSE],
                                    m.blocks))
  IN FlatMap(msgs, Items)

\* The output of a tool message is its text: images are dropped.
writeResponsesInputFromOpenAI(msgs) ==
  FlatMap(msgs, LAMBDA m :
    LET calls == Of(m.blocks, {"call"})
    IN IF m.role = "tool"
       THEN <<[m EXCEPT !.blocks = [j \in DOMAIN @ |-> [@[j] EXCEPT !.v = Plain(@)]]]>>
       ELSE writeResponsesContentMessage(m.role, Frags(Of(m.blocks, {"text"})),
                                         Frags(Of(m.blocks, {"image"})))
            \o [i \in DOMAIN calls |-> Msg("assistant", <<calls[i]>>)])

Emit(format, msgs, modelSwitched) ==
  CASE format = "anthropic" -> IF Chat THEN writeAnthropicSystemAndMessages(msgs)
                               ELSE buildAnthropicFromAnthropic(msgs, modelSwitched)
    [] format = "chat" -> IF Chat THEN msgs ELSE writeOpenAISystemAndMessagesFromAnthropic(msgs)
    [] format = "responses" -> IF Chat THEN writeResponsesInputFromOpenAI(msgs)
                               ELSE writeResponsesInputFromAnthropic(msgs)

-----------------------------------------------------------------------------
(* The request *)

Init ==
  /\ surface \in Surfaces /\ window \in Windows
  /\ conv = <<>> /\ phase = "client" /\ env = <<>>
  /\ rewritten = FALSE /\ switched = FALSE /\ wire = "none" /\ sent = <<>>

\* The client adds a user message and sends its whole history.
Submit ==
  /\ phase = "client" /\ Len(conv) < MaxMessages
  /\ \E blocks \in UserTurns(conv) :
       LET history == Append(conv, Msg("user", blocks))
       IN conv' = history /\ env' = Ingest(history)
  /\ phase' = "commands"
  /\ rewritten' = FALSE /\ switched' = FALSE /\ wire' = "none" /\ sent' = <<>>
  /\ UNCHANGED <<surface, window>>

\* A typed command ends the turn with the router's own reply.
Acknowledge(ack) ==
  /\ conv' = Append(conv, Msg("assistant", <<Text(<<Frag(ack, Len(conv) + 1, 0)>>)>>))
  /\ env' = <<>> /\ phase' = "client"

\* /beta, then /force-model, then /router-feedback; one an agent issued
\* through a tool is taken out and the turn goes on, with unpaired tool
\* calls and results removed.
Commands ==
  /\ phase = "commands"
  /\ LET beta == ExtractBetaCommand(env)
         force == extractLeadingCommandWithSource(beta.msgs, "force")
         rf == extractLeadingCommandWithSource(force.msgs, "rf")
     IN IF beta.found THEN Acknowledge("betaAckMarked")
        ELSE IF force.found /\ ~force.fromToolResult
             THEN Acknowledge(IF Chat THEN "forceAck" ELSE "forceAckMarked")
        ELSE IF rf.found /\ ~rf.fromToolResult
             THEN Acknowledge(IF Chat THEN "rfAck" ELSE "rfAckMarked")
        ELSE /\ env' = SanitizeOrphanedToolCalls(rf.msgs)
             /\ phase' = "compact" /\ UNCHANGED conv
  /\ UNCHANGED <<surface, window, rewritten, switched, wire, sent>>

\* A hard-pinned turn is never compacted; one that no tier brings under the
\* window is refused with ErrContextWindowExceeded.
Compact ==
  /\ phase = "compact"
  /\ \E hardPinned, deferred, summarized \in BOOLEAN :
       LET msgs == IF hardPinned THEN env ELSE maybeCompact(env, deferred, summarized)
           refused == ~hardPinned /\ ContextOverflowTokenEstimate(msgs) > window
       IN /\ env' = msgs /\ rewritten' = (msgs # env)
          /\ phase' = IF refused THEN "refused" ELSE "route"
  /\ UNCHANGED <<surface, window, conv, switched, wire, sent>>

\* A model switch hands the history over as a summary and the latest user
\* message, unless the summarizer fails; so does a compaction handover.
Route ==
  /\ phase = "route"
  /\ \E summary \in BOOLEAN :
       /\ env' = IF summary THEN RewriteForHandover(env) ELSE env
       /\ rewritten' = (rewritten \/ env' # env)
  /\ phase' = "dispatch"
  /\ UNCHANGED <<surface, window, conv, switched, wire, sent>>

\* A Responses client served by a Responses upstream gets its own bytes
\* forwarded; that dispatch is not translated.
Dispatch ==
  /\ phase = "dispatch"
  /\ wire' \in {"anthropic", "chat", "responses"}
  /\ surface = "responses" => wire' # "responses"
  /\ switched' \in (IF surface = "anthropic" /\ wire' = "anthropic" THEN BOOLEAN ELSE {FALSE})
  /\ sent' = Emit(wire', env, switched')
  /\ phase' = "sent"
  /\ UNCHANGED <<surface, window, conv, env, rewritten>>

\* The reply reaches the client, whole or cut; a client that got none sends
\* its next message right after the last one.
Reply ==
  /\ phase = "sent"
  /\ \E blocks \in Replies(surface, wire, Len(conv) + 1) :
       conv' = IF blocks = <<>> THEN conv ELSE Append(conv, Msg("assistant", blocks))
  /\ phase' = "client" /\ env' = <<>> /\ sent' = <<>> /\ wire' = "none"
  /\ rewritten' = FALSE /\ switched' = FALSE
  /\ UNCHANGED <<surface, window>>

Next == Submit \/ Commands \/ Compact \/ Route \/ Dispatch \/ Reply

Spec == Init /\ [][Next]_vars
-----------------------------------------------------------------------------
(* Properties *)

(***************************************************************************)
(* What is sent upstream is paired: every tool result answers a call of an *)
(* earlier message, with nothing said between the two, and every           *)
(* call is answered, each exactly once.  This is what SanitizeOrphaned-    *)
(* ToolCalls, the rewrites of compaction and handover and the three        *)
(* emitters have to keep between them, whatever the client's stream was    *)
(* cut at; strict providers refuse the whole session otherwise.  (A        *)
(* Responses upstream takes a message between two outputs; the message     *)
(* with content "" that the removal of a call leaves on the chat surfaces  *)
(* may stand between a call and its result.)                               *)
(***************************************************************************)
PairedUpstream ==
  LET Has(i, k, id) == \E b \in ToSet(sent[i].blocks) : b.k = k /\ b.id = id
      Silent(i) == Frags(Of(sent[i].blocks, {"text", "image"})) = <<>>
      Count(k) == Len(Of(Blocks(sent), {k}))
  IN /\ \A id \in Ids(sent, "call") \union Ids(sent, "result") :
          \E i, j \in DOMAIN sent :
             /\ i < j /\ Has(i, "call", id) /\ Has(j, "result", id)
             /\ wire # "responses" => \A k \in i + 1 .. j - 1 : Silent(k)
     /\ Count("call") = Cardinality(Ids(sent, "call"))
     /\ Count("result") = Cardinality(Ids(sent, "result"))

(* The reference for ConversationFaithful: the content of the client's own *)
(* history, by fragment, without looking at how a surface or a wire splits *)
(* it into messages.                                                       *)

Commanding(m, cmd) == m.role = "user" /\ m.blocks # <<>>
                      /\ \A b \in ToSet(m.blocks) : b.k = "text" /\ Leads(b, {cmd})

\* The last message with role user: tool results have a role of their own
\* on the chat surfaces.
LastUserTurn ==
  LET turns == {i \in DOMAIN conv : conv[i].role = "user"
                  /\ (Chat => Of(conv[i].blocks, {"text", "image"}) # <<>>)}
  IN IF turns = {} THEN 0 ELSE CHOOSE i \in turns : \A j \in turns : j <= i

\* Command turns of the past.
Past(cmd) == {i \in DOMAIN conv \ {LastUserTurn} : Commanding(conv[i], cmd)}

\* The block of the trailing turn a command is taken from: any block of an
\* Anthropic message, the last message of a chat history.
Issued(cmd) ==
  LET blocks == Last(conv).blocks
      open == {j \in DOMAIN blocks : Chat =>
                 IF Last(blocks).k = "result" THEN j = Len(blocks) ELSE blocks[j].k # "result"}
      leading == {j \in open : blocks[j].k \in {"text", "result"} /\ Leads(blocks[j], {cmd})}
  IN IF leading = {} THEN {} ELSE {CHOOSE j \in leading : \A k \in leading : j <= k}

\* A reply whose text is only a badge, right behind a past /beta the router had
\* forwarded as text, is taken for its acknowledgement on the chat surfaces.
Swallowed(id) ==
  /\ Chat /\ id[1] - 1 \in Past("beta")
  /\ surface = "chat" => Of(conv[id[1]].blocks, {"text"}) # <<>>
  /\ \A x \in ToSet(Frags(Of(conv[id[1]].blocks, {"text"}))) : x.f \in Markers
  /\ surface = "responses" => id[2] = 1

Paired == {id \in Ids(conv, "call") \intersect Ids(conv, "result") : ~Swallowed(id)}

\* What the router loses of a tool result that carries an image: the image
\* between a chat client and a Responses upstream, all of it on the
\* Responses surface.
Dropped(b, x) ==
  /\ b.k = "result" /\ Images(b.v) # <<>>
  /\ surface = "responses" \/ (surface = "chat" /\ wire = "responses" /\ x.f = "img")

Expected ==
  LET Own(i, j) == \* what of block j of message i the router may not lose
        LET b == conv[i].blocks[j]
            trailing == i = Len(conv)
        IN {x \in ToSet(b.v) :
              /\ x.f \notin Markers \union {"footer", "rfAck"}
              /\ i \notin Past("rf") \union Past("beta")
              /\ b.k \in {"call", "result"} => b.id \in Paired
              /\ b.k # "think" /\ ~Dropped(b, x)
              /\ ~(trailing /\ j \in Issued("force") /\ x.f = "force")
              /\ ~(trailing /\ j \in Issued("rf") /\ x.f # "img")
              /\ ~(surface = "responses" /\ x.f = "img")}
  IN UNION {UNION {Own(i, j) : j \in DOMAIN conv[i].blocks} : i \in DOMAIN conv}

\* Reasoning the upstream signed itself, in a thinking block or on a call.
ExpectedReasoning ==
  {Frag(wire, i, 0) : i \in {k \in DOMAIN conv : \E b \in ToSet(conv[k].blocks) :
      /\ ~Chat /\ ~switched /\ b.sig = wire
      /\ b.k = "think" \/ (wire = "responses" /\ b.k = "call" /\ b.id \in Paired)}}

(***************************************************************************)
(* Unless it was compacted or handed over, a request says upstream exactly *)
(* what the client's history says, once and in order, on every surface and *)
(* wire, without what the router itself put there (badges, footers, past   *)
(* feedback and /beta turns and their acknowledgements), the command just  *)
(* taken out and unpaired tool calls; and reasoning goes only to the kind  *)
(* of upstream that signed it.  Three losses are part of the code's        *)
(* behaviour and excluded by name: images on the Responses surface, a tool *)
(* result with an image there (its output is not a string), and the image  *)
(* of a chat tool message on its way to a Responses upstream.  A rewritten *)
(* request adds nothing but the summary and the placeholder of a cleared   *)
(* tool result.                                                            *)
(***************************************************************************)
ConversationFaithful ==
  phase = "sent" =>
    LET v == Frags(Blocks(sent))
        said == ToSet(v) \ {x \in ToSet(v) : x.f \in {"summary", "cleared"}}
        own == Expected \union ExpectedReasoning
    IN /\ Cardinality(ToSet(v)) = Len(v)
       /\ \A i, j \in DOMAIN v : i < j => v[i].n <= v[j].n
       /\ IF rewritten THEN said \subseteq own ELSE said = own

=============================================================================
