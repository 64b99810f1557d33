------------------------------- MODULE Dispatch -------------------------------
(***************************************************************************)
(* The dispatch of one routed turn to the upstreams: the binding walk of   *)
(* dispatchWithFallback with its same-binding retries, the prelude buffer  *)
(* that keeps the bytes of failed attempts from the client, the rescue by  *)
(* a sibling model, and the error envelope of the HTTP handler.            *)
(*                                                                         *)
(* The upstream is external: an attempt may fail with any kind of error    *)
(* before its first output, break after it, or complete.  The client may   *)
(* go away at any time.                                                    *)
(***************************************************************************)
EXTENDS Naturals, Sequences, FiniteSets, Loops

CONSTANTS
    Models, Providers,
    Bindings,       \* Bindings[m]: the catalog's providers of m, in order
    Keyed,          \* deploymentKeyedProviders
    Decisions,      \* the routing decisions considered: [model, provider]
    Candidates,     \* the sibling candidate orders considered: each candidate is
                    \* [model, via], via its provider if routing resolved one
    DisabledSets    \* the session strike-out sets considered

Arm == [model : Models, provider : Providers]

\* A catalog row lists a provider once.
ASSUME DispatchConstants ==
    /\ Bindings \in [Models -> Seq(Providers)]
    /\ \A m \in Models : \A j, k \in DOMAIN Bindings[m] :
          Bindings[m][j] = Bindings[m][k] => j = k
    /\ Keyed \subseteq Providers
    /\ Decisions \subseteq Arm
    /\ Candidates \subseteq Seq([model : Models, via : SUBSET Providers])
    /\ DisabledSets \subseteq SUBSET Providers

maxSameBindingRetries == 2

VARIABLES
    turn,       \* the inputs of the turn, fixed by routing
    sibling,    \* siblingDecision, chosen before the walk: an arm, or <<>>
    pc,
    arm,        \* the model being dispatched and the provider being tried
    bindings,   \* the providers of the current walk, in order
    i, sb,      \* index of the walk, same-binding retries spent
    rescue,     \* whether the current walk is the sibling's
    buf,        \* the prelude buffer
    header,     \* the attempt the x-router-* headers name; 0: the decision's
    err,        \* the error of the last attempt
    tried,      \* history: the arms of all attempts, in order
    gone,       \* the client has disconnected
    wire,       \* what the client has received
    named,      \* history: the header value sent with the first byte
    final       \* the arm the turn's usage and strikes are charged to

walk == <<arm, bindings, i, sb, rescue>>
inputs == <<turn, sibling>>
vars == <<inputs, pc, walk, buf, header, err, tried, gone, wire, named, final>>

R == INSTANCE Reply WITH wire <- wire

-----------------------------------------------------------------------------
(* Errors.                                                                  *)

\* "status": a buffered 408, 429 or 5xx; "transport": no upstream status at
\* all; "missing": the provider is not registered; "nobinding": a bare 502;
\* "incompatible": the request cannot be built for the model.
Errors == { "none", "status", "notFound", "billing", "schema", "reject",
            "transport", "canceled", "missing", "nobinding", "incompatible" }

\* What an upstream attempt can end in before it has sent any output.
AttemptErrors == {"status", "notFound", "billing", "schema", "reject", "transport"}

\* *providers.UpstreamErrorResponse: the upstream's own envelope is at hand.
Buffered(e) == e \in {"status", "notFound", "billing", "schema", "reject"}

IsRetryable(e) == e \in {"status", "transport", "missing", "incompatible"}

CanFailover(e) == IsRetryable(e) \/ e \in {"notFound", "billing"}

-----------------------------------------------------------------------------
(* resolveBindingsForDispatch and siblingFailoverDecision.                  *)

\* The bindings over the providers this session may still use.
Open(model, disabled) == Keep(Bindings[model], Keyed \ disabled)

InSeq(s, x) == \E n \in 1 .. Len(s) : s[n] = x

PrimaryFirst(p, s) == <<p>> \o Keep(s, Providers \ {p})

resolveBindingsForDispatch(t, d) ==
    LET open     == Open(d.model, t.disabled)
        excluded == d.provider \in t.disabled IN
    IF ~t.failover THEN <<d.provider>>
    ELSE IF open = <<>> THEN
        IF excluded \/ t.forced THEN <<>> ELSE <<d.provider>>
    ELSE IF t.selected /\ InSeq(open, d.provider) THEN PrimaryFirst(d.provider, open)
    ELSE IF Len(open) = 1 /\ ~excluded THEN <<d.provider>>
    ELSE IF open[1] = d.provider \/ excluded THEN open
    ELSE PrimaryFirst(d.provider, open)

\* The provider routing resolved for the candidate if it is still usable, else
\* the first open binding of its model.
siblingProvider(t, c) ==
    LET direct == c.via \cap (Keyed \ t.disabled)
        open   == Open(c.model, t.disabled) IN
    IF direct # {} THEN direct ELSE { open[n] : n \in DOMAIN open \cap {1} }

\* The first candidate with a provider, one on another provider than the failed
\* one preferred.  A replayed pin, a deployment with the rescue turned off and an
\* agent-shadow turn have no candidates.
siblingFailoverDecision(t) ==
    LET armsOf(n) == { [model |-> t.candidates[n].model, provider |-> p] :
                         p \in siblingProvider(t, t.candidates[n]) }
        usable == { n \in 1 .. Len(t.candidates) :
                      /\ t.candidates[n].model # t.decision.model
                      /\ armsOf(n) # {} }
        apart  == { n \in usable : \A a \in armsOf(n) : a.provider # t.decision.provider }
        pool   == IF apart # {} THEN apart ELSE usable IN
    IF pool = {} THEN <<>>
    ELSE <<CHOOSE a \in armsOf(CHOOSE n \in pool : \A k \in pool : n <= k) : TRUE>>

siblingViable == sibling # <<>> /\ ~turn.forced /\ turn.failover

-----------------------------------------------------------------------------
(* preludeBuffer: bytes held back until the first write after Seal.         *)

EmptyBuffer == [held |-> {}, sealed |-> FALSE, committed |-> FALSE]

\* Mutant: the prelude of the failed attempt stays in the buffer.
DiscardMutant ==
    IF buf.committed THEN UNCHANGED <<buf, header>>
    ELSE buf' = [buf EXCEPT !.sealed = FALSE] /\ header' = 0

\* Discard also restores the headers the buffer was created with.
Discard ==
    IF buf.committed THEN UNCHANGED <<buf, header>>
    ELSE buf' = EmptyBuffer /\ header' = 0

Attempt == Len(tried)

\* A write of the current attempt that reaches the client: it takes along
\* whatever the buffer still holds.
commit(ended) ==
    /\ buf' = [buf EXCEPT !.committed = TRUE, !.held = {}]
    /\ wire' = [wire EXCEPT !.from = @ \cup buf.held \cup {Attempt}, !.ended = ended]
    /\ named' = IF buf.committed THEN named ELSE header

\* flushUpstreamErrorAsAnthropic: a no-op unless the error is buffered.
flushErr(e) ==
    wire' = IF Buffered(e) THEN [wire EXCEPT !.upstream = @ + 1, !.ended = TRUE] ELSE wire

-----------------------------------------------------------------------------
(* dispatchWithFallback.                                                    *)

\* The rescue owns the error of the primary walk, so that walk defers it.
deferFlushOnExhaustion == ~rescue /\ siblingViable

Return(e) == err' = e /\ pc' = IF rescue THEN "account" ELSE "rescue"

Unsent == <<buf, header, tried, wire, named>>

\* buildAttempt found the model intrinsically incompatible with the request:
\* nothing is dispatched and the rescue takes over.
Incompatible ==
    /\ pc = "walk"
    /\ i = 1 /\ ~rescue
    /\ Return("incompatible")
    /\ UNCHANGED <<inputs, walk, Unsent, gone, final>>

NoBinding ==
    LET e == IF turn.forced THEN "status" ELSE "nobinding" IN
    /\ pc = "walk"
    /\ bindings = <<>>
    /\ IF deferFlushOnExhaustion THEN UNCHANGED wire ELSE flushErr(e)
    /\ Return(e)
    /\ UNCHANGED <<inputs, walk, buf, header, tried, gone, named, final>>

\* The head of the loop over bindings.  A provider may have been
\* unregistered since boot: the walk goes on to the next binding.
NextBinding ==
    /\ pc = "walk"
    /\ bindings # <<>>
    /\ IF i > 1 THEN Discard ELSE UNCHANGED <<buf, header>>
    /\ arm' = [arm EXCEPT !.provider = bindings[i]]
    /\ sb' = 0
    /\ IF bindings[i] \notin turn.missing THEN pc' = "attempt" /\ UNCHANGED <<i, err>>
       ELSE IF i < Len(bindings) THEN i' = i + 1 /\ UNCHANGED <<pc, err>>
       ELSE Return("missing") /\ UNCHANGED i
    /\ UNCHANGED <<inputs, bindings, rescue, tried, gone, wire, named, final>>

\* One call of the attempt closure up to p.Proxy: headers, then (streaming)
\* the translator's prelude into the buffer, then Seal.
BeginAttempt ==
    /\ pc = "attempt"
    /\ tried' = Append(tried, arm)
    /\ header' = IF buf.committed THEN header ELSE Len(tried) + 1
    /\ buf' = [buf EXCEPT !.sealed = TRUE,
                          !.held = IF turn.stream THEN @ \cup {Len(tried) + 1} ELSE @]
    /\ pc' = "upstream"
    /\ UNCHANGED <<inputs, walk, err, gone, wire, named, final>>

\* First output of a stream; later output changes nothing the model keeps.
UpstreamOutput ==
    /\ pc = "upstream"
    /\ turn.stream /\ ~buf.committed
    /\ commit(FALSE)
    /\ UNCHANGED <<inputs, pc, walk, header, err, tried, gone, final>>

\* Finalize writes the terminator, or the whole body when not streaming.
UpstreamComplete ==
    /\ pc = "upstream"
    /\ commit(TRUE)
    /\ Return("none")
    /\ UNCHANGED <<inputs, walk, header, tried, gone, final>>

\* A stream cut off after its first output.  A clean EOF without terminal
\* event is closed by the translator with an error frame; the frame of
\* emitAnthropicSSEErrorEvent needs a buffered error, which no adapter
\* returns once it has written output.
UpstreamBreaks ==
    /\ pc = "upstream"
    /\ buf.committed
    /\ \/ wire' = [wire EXCEPT !.ended = TRUE] /\ Return("transport")
       \/ UNCHANGED wire /\ \/ Return("transport")
                            \/ gone /\ Return("canceled")
    /\ UNCHANGED <<inputs, walk, buf, header, tried, gone, named, final>>

\* The attempt failed before any byte reached the client.
UpstreamFails ==
    /\ pc = "upstream"
    /\ ~buf.committed
    /\ \E e \in AttemptErrors \cup (IF gone THEN {"canceled"} ELSE {}) : err' = e
    /\ pc' = "failed"
    /\ UNCHANGED <<inputs, walk, Unsent, gone, final>>

MayRetry == IsRetryable(err) /\ sb < maxSameBindingRetries /\ Len(bindings) = 1

\* The retry budget was not yet spent; the backoff sleep ran to its end.
RetrySameBinding ==
    /\ pc = "failed"
    /\ MayRetry
    /\ ~gone
    /\ Discard
    /\ sb' = sb + 1
    /\ pc' = "attempt"
    /\ UNCHANGED <<inputs, arm, bindings, i, rescue, err, tried, gone, wire, named, final>>

\* The client went away during the backoff: the error is returned unflushed.
AbortBackoff ==
    /\ pc = "failed"
    /\ MayRetry
    /\ gone
    /\ Discard
    /\ Return(err)
    /\ UNCHANGED <<inputs, walk, tried, gone, wire, named, final>>

Failover ==
    /\ pc = "failed"
    /\ ~(IsRetryable(err) /\ Len(bindings) = 1)
    /\ CanFailover(err) /\ i < Len(bindings)
    /\ i' = i + 1
    /\ pc' = "walk"
    /\ UNCHANGED <<inputs, arm, bindings, sb, rescue, Unsent, err, gone, final>>

\* Also taken when the retry budget (wall clock) is spent.
Exhausted ==
    /\ pc = "failed"
    /\ ~CanFailover(err) \/ i = Len(bindings)
    /\ Discard
    /\ IF deferFlushOnExhaustion THEN UNCHANGED wire ELSE flushErr(err)
    /\ Return(err)
    /\ UNCHANGED <<inputs, walk, tried, gone, named, final>>

-----------------------------------------------------------------------------
(* ProxyMessages around the walk.                                           *)

RescueOwed == siblingViable /\ err # "none" /\ ~buf.committed

Rescuable == IsRetryable(err) \/ err \in {"notFound", "billing", "schema"}

SiblingBindings ==
    resolveBindingsForDispatch([turn EXCEPT !.selected = FALSE], sibling[1])

\* The rescue runs unless the sibling's request cannot be prepared.
RescueRuns ==
    /\ RescueOwed /\ Rescuable
    /\ ~turn.unpreparable
    /\ SiblingBindings # <<>>

SiblingRescue ==
    /\ pc = "rescue"
    /\ RescueRuns
    /\ arm' = sibling[1]
    /\ bindings' = SiblingBindings
    /\ i' = 1 /\ sb' = 0
    /\ rescue' = TRUE
    /\ pc' = "walk"
    /\ UNCHANGED <<inputs, Unsent, err, gone, final>>

\* Mutant: the deferred error is dropped.
NoRescueMutant ==
    /\ pc = "rescue"
    /\ ~RescueRuns
    /\ pc' = "account"
    /\ UNCHANGED <<inputs, walk, Unsent, err, gone, final>>

\* No rescue ran: the deferred error is due now.
NoRescue ==
    /\ pc = "rescue"
    /\ ~RescueRuns
    /\ IF RescueOwed THEN flushErr(err) ELSE UNCHANGED wire
    /\ pc' = "account"
    /\ UNCHANGED <<inputs, walk, buf, header, err, tried, gone, named, final>>

\* Mutant: the turn is charged to the provider routing chose.
AccountMutant ==
    /\ pc = "account"
    /\ final' = [model |-> arm.model, provider |-> turn.decision.provider]
    /\ pc' = "handler"
    /\ UNCHANGED <<inputs, walk, Unsent, err, gone>>

\* finalProvider and decision, as the post-turn bookkeeping uses them.
Account ==
    /\ pc = "account"
    /\ final' = [ model |-> arm.model,
                  provider |-> IF bindings = <<>> \/ err = "incompatible"
                               THEN turn.decision.provider ELSE bindings[i] ]
    /\ pc' = "handler"
    /\ UNCHANGED <<inputs, walk, Unsent, err, gone>>

\* Mutant: the handler trusts that the error has been rendered.
HandlerMutant ==
    /\ pc = "handler"
    /\ pc' = "done"
    /\ UNCHANGED <<inputs, walk, Unsent, err, gone, final>>

\* The HTTP handler writes its own envelope if nothing has been written.
Handler ==
    /\ pc = "handler"
    /\ wire' = IF err # "none" /\ wire = R!Silent
               THEN [wire EXCEPT !.router = @ + 1, !.ended = TRUE] ELSE wire
    /\ pc' = "done"
    /\ UNCHANGED <<inputs, walk, buf, header, err, tried, gone, named, final>>

ClientGone ==
    /\ ~gone /\ pc # "done"
    /\ gone' = TRUE
    /\ UNCHANGED <<inputs, pc, walk, Unsent, err, final>>

-----------------------------------------------------------------------------
Turns ==
    [ decision : Decisions, stream : BOOLEAN, forced : BOOLEAN, failover : BOOLEAN,
      selected : BOOLEAN, unpreparable : BOOLEAN,
      disabled : DisabledSets, missing : SUBSET Providers, candidates : Candidates ]

Init ==
    /\ turn \in Turns
    /\ sibling = siblingFailoverDecision(turn)
    /\ pc = "walk"
    /\ arm = turn.decision
    /\ bindings = resolveBindingsForDispatch(turn, turn.decision)
    /\ i = 1 /\ sb = 0
    /\ rescue = FALSE
    /\ buf = EmptyBuffer
    /\ header = 0 /\ named = 0
    /\ err = "none"
    /\ tried = <<>>
    /\ gone = FALSE
    /\ wire = R!Silent
    /\ final = turn.decision

Step ==
    \/ Incompatible \/ NoBinding \/ NextBinding \/ BeginAttempt
    \/ UpstreamOutput \/ UpstreamComplete \/ UpstreamBreaks \/ UpstreamFails
    \/ RetrySameBinding \/ AbortBackoff \/ Failover \/ Exhausted
    \/ SiblingRescue \/ NoRescue \/ Account \/ Handler

Next == Step \/ ClientGone

Spec == Init /\ [][Next]_vars

\* An upstream that stays silent is cut off by the response-header timeout
\* or by the idle and output watchdogs of StreamBody, so every step ends.
FairSpec == Spec /\ WF_vars(Step)

-----------------------------------------------------------------------------
(* Properties.                                                              *)

\* Every variable keeps its type.
TypeOK ==
    /\ turn \in Turns /\ sibling \in Seq(Arm)
    /\ pc \in { "walk", "attempt", "upstream", "failed", "rescue", "account",
                "handler", "done" }
    /\ arm \in Arm /\ final \in Arm
    /\ bindings \in Seq(Providers)
    /\ i \in Nat \ {0} /\ sb \in 0 .. maxSameBindingRetries
    /\ rescue \in BOOLEAN /\ gone \in BOOLEAN
    /\ buf \in [held : SUBSET Nat, sealed : BOOLEAN, committed : BOOLEAN]
    /\ header \in Nat /\ named \in Nat
    /\ err \in Errors
    /\ tried \in Seq(Arm)
    /\ wire \in [from : SUBSET Nat, upstream : Nat, router : Nat, ended : BOOLEAN]

\* The client sees one reply: the bytes of one attempt, held-back prelude
\* included, or one error envelope, whatever is retried behind it.
ImplementsReply == R!Spec

\* The x-router-* headers sent with a reply name the arm whose bytes follow:
\* "x-router-model must never name a model that didn't serve".
HeadersNameServer == wire.from # {} => named \in wire.from

\* The turn is charged (usage, strikes, overload) to the arm that answered it.
AttributedToServer ==
    pc \in {"handler", "done"} => \A n \in wire.from : final = tried[n]

\* With failover on, a provider the session struck out is never tried, even if
\* the decision names it ("dispatch 502s instead of dispatching to the
\* forbidden provider").
ForbiddenNeverTried ==
    turn.failover => \A n \in 1 .. Len(tried) : tried[n].provider \notin turn.disabled

\* An arm is tried again only when its walk has no other binding, and then
\* twice at most; the rescue never comes back to an arm of the primary walk.
RetriesBounded ==
    LET primary == resolveBindingsForDispatch(turn, turn.decision)
        limit(m) == IF Len(IF m = turn.decision.model THEN primary ELSE SiblingBindings) = 1
                    THEN maxSameBindingRetries + 1 ELSE 1
        again(a) == Cardinality({ k \in 1 .. Len(tried) : tried[k] = a }) IN
    \A n \in 1 .. Len(tried) : again(tried[n]) <= limit(tried[n].model)

\* Every attempt is one the session permits and the walk's bounds allow, and
\* the reply is credited to the one that served it: this is what failover,
\* retries and the sibling rescue must keep between them.
AttemptsSound ==
    ForbiddenNeverTried /\ RetriesBounded /\ HeadersNameServer /\ AttributedToServer

\* The upstream's own error reaches the client when it is what ended the turn
\* ("The deferred upstream error must reach the client exactly once"), unless
\* the client had gone.
UpstreamErrorSurfaces ==
    pc = "done" /\ Buffered(err) /\ ~gone => wire.upstream = 1

\* Every turn is answered.
Answered == <>(pc = "done" /\ wire # R!Silent)
=============================================================================
