------------------------------- MODULE Policy -------------------------------
(* A turn routed by a policy sidecar: the retrying client, the turn loop's  *)
(* degraded modes, the shadow decision that follows a served turn, the      *)
(* route preview, the outcome report, and the capability refresh that runs  *)
(* beside them.  The sidecar is external: it answers anything, late or not. *)
EXTENDS PolicyRouter

CONSTANTS
  Requests,       \* the turns' routing requests, each with its conversation
  Answers,        \* what the sidecar may put into a /route body
  PreviewAnswers, \* and into a /preview body
  Settings,       \* deployment settings and the session's pin
  MaxAttempts, MaxMessages, MaxText, MaxTotal

(* The record types of the inputs.  A cluster label is never the blank one. *)
Messages == [role : STRING, text : Nat, result : Nat]
RequestFields == {"allowed", "excluded", "auto", "safety", "enabled", "tokens", "images", "tools",
                  "force", "overrides", "train", "conv"}
Capabilities == [shadow : BOOLEAN, preview : BOOLEAN, outcomes : BOOLEAN, authoritative : BOOLEAN]

(* The sidecar's marker is for the model that its arm and its model name. *)
MarkerNames(res) ==
  res.marker # None => \A m \in DOMAIN Catalog : Catalog[m].roster # None =>
    /\ Catalog[m].roster = res.model => m = res.marker
    /\ \A p \in Range(Catalog[m].bindings) : MakeArmID(m, p) = res.arm => m = res.marker

ASSUME PolicyAssumption ==
  /\ MaxAttempts \in Nat \ {0} /\ MaxMessages \in Nat \ {0}
  /\ MaxText \in Nat /\ MaxTotal \in Nat
  /\ \A r \in Requests :
       /\ DOMAIN r = RequestFields /\ r.conv \in Seq(Messages)
       /\ r.train \in BOOLEAN /\ r.images \in BOOLEAN /\ r.tools \in BOOLEAN
       /\ None \notin DOMAIN r.overrides
       /\ \A g \in DOMAIN r.overrides : r.overrides[g] \in Seq(STRING)
  /\ Settings \subseteq
       [selects : BOOLEAN, hmm : BOOLEAN, degrade : BOOLEAN, gate : BOOLEAN, shadow : BOOLEAN,
        preview : BOOLEAN, store : BOOLEAN, pin : DOMAIN Catalog \cup {None},
        default : DOMAIN Catalog \cup {None}, floor : STRING, keyed : SUBSET STRING,
        caps : Capabilities]
  /\ \A s \in Settings : ~s.store => s.pin = None /\ s.floor = None
  /\ \A res \in Answers : MarkerNames(res)

VARIABLES
  conf,   \* settings of this behaviour: the strategy's, whether there is a pin
          \* store, the session's pin, the tier of a force that was dropped, and
          \* the providers keyed by the deployment less those the session disabled
  req,    \* the routing request; a message of its conversation has a role,
          \* a text length and a tool result length
  caps,   \* the capabilities the router goes by
  call,   \* one record per caller of the sidecar: serving, shadow, preview
  turn,   \* the serving turn around its call
  post    \* the outcome report

vars == <<conf, req, caps, call, turn, post>>

Callers == {"serving", "shadow", "preview"}
NoCaps == [shadow |-> FALSE, preview |-> FALSE, outcomes |-> FALSE, authoritative |-> FALSE]
Idle == [pc |-> "idle", attempt |-> 0, last |-> None, status |-> FALSE, expired |-> FALSE,
         authoritative |-> FALSE, query |-> None, out |-> Fail(None)]
NoPost == [pc |-> "none"]

(* The models outside a tier join the excluded ones, while one inside is left. *)
OutOfTier(tier) == {m \in DOMAIN Catalog : Catalog[m].tier # tier}
TierApplies ==
  conf.floor # None /\ ~((DOMAIN Catalog \ OutOfTier(conf.floor)) \subseteq req.excluded)
restrictToTier(r, tier) == [r EXCEPT !.excluded = @ \cup OutOfTier(tier)]

(* The request a caller routes: a turn whose force was dropped tries the tier first. *)
RoutedReq(p) == IF p = "serving" /\ turn.tier THEN restrictToTier(req, conf.floor) ELSE req

Cands(p) == Resolve(RoutedReq(p))

-----------------------------------------------------------------------------
(* The query: a bounded tail of the conversation, newest first. *)
KnownRole(m) == m.role # None

(* Text kept of the messages from i on, newest first within the total budget. *)
KeptFrom(c) ==
  LET kept[i \in 1..Len(c) + 1] ==
        IF i > Len(c) THEN 0
        ELSE IF ~KnownRole(c[i]) THEN kept[i + 1]
        ELSE LET clipped == IF c[i].text > MaxText THEN MaxText ELSE c[i].text
                 sum == kept[i + 1] + clipped
             IN  IF sum > MaxTotal THEN MaxTotal ELSE sum
  IN  kept

(* Text of the messages from i on. *)
TextFrom(c) ==
  LET text[i \in 1..Len(c) + 1] == IF i > Len(c) THEN 0 ELSE c[i].text + text[i + 1]
  IN  text

(* What there is to send of a conversation: known roles, and something in them. *)
Sendable(c) ==
  Keep(c, {m \in Range(c) : KnownRole(m) /\ (m.text > 0 \/ m.result > 0)})

Tail96(c) == IF Len(c) > MaxMessages THEN SubSeq(c, Len(c) - MaxMessages + 1, Len(c)) ELSE c

convertRouteMessages(c) ==
  LET t == Tail96(c)
  IN  Sendable([i \in DOMAIN t |-> [t[i] EXCEPT !.text = KeptFrom(t)[i] - KeptFrom(t)[i + 1]]])

routeMessagesTruncated(c) ==
  \/ Len(c) > MaxMessages
  \/ \E i \in DOMAIN c : c[i].text > MaxText
  \/ TextFrom(c)[1] > MaxTotal

(* The exchange since the last answer, with the text of the tool results. *)
trainingRouteMessageDelta(c) ==
  LET users == {i \in DOMAIN c : c[i].role = "user"}
      last == IF users = {} THEN 0 ELSE CHOOSE i \in users : \A j \in users : j <= i
      answers == {i \in 1..last - 1 : c[i].role = "assistant"}
      start == IF answers = {} THEN 1 ELSE CHOOSE i \in answers : \A j \in answers : j <= i
  IN  Sendable(SubSeq(c, start, Len(c)))

(* Shadow and preview queries are never learning events. *)
trainsOn(p) == p = "serving" /\ req.train

marshalRouteRequest(p) ==
  [train |-> trainsOn(p),
   messages |-> convertRouteMessages(req.conv),
   truncated |-> p # "preview" /\ routeMessagesTruncated(req.conv),
   delta |-> IF conf.hmm /\ trainsOn(p) THEN trainingRouteMessageDelta(req.conv) ELSE <<>>,
   results |-> conf.hmm /\ trainsOn(p)]

-----------------------------------------------------------------------------
(* The client's ladder: bounded attempts under one budget. *)
Finish(p, out) == call' = [call EXCEPT ![p].pc = "done", ![p].out = out]

exhaustedPolicyErrMutant(c, ctxDone) ==
  [ok |-> FALSE, why |-> "unavailable",
   deadline |-> ~c.status /\ (ctxDone \/ c.last = "deadline")]

(* A spent ladder keeps the deadline visible beside the sidecar's own status. *)
exhaustedPolicyErr(c, ctxDone) ==
  [ok |-> FALSE, why |-> "unavailable", deadline |-> ctxDone \/ c.last = "deadline"]

(* Route and PreviewRoute up to the query: capability gates, then candidates. *)
Begin(p) ==
  /\ call[p].pc = "start"
  /\ IF \/ p = "shadow" /\ ~caps.shadow
        \/ p = "preview" /\ ~caps.preview
        \/ p # "preview" /\ Cands(p) = <<>>
     THEN Finish(p, Fail("unavailable"))
     ELSE IF p = "serving" /\ turn.left
     THEN call' = [call EXCEPT ![p].pc = "done", ![p].expired = TRUE,
                               ![p].out = exhaustedPolicyErr(call[p], TRUE)]
     ELSE call' = [call EXCEPT ![p].pc = "attempt", ![p].attempt = 1,
                     ![p].authoritative = caps.authoritative,
                     ![p].query = <<marshalRouteRequest(p)>>]
  /\ UNCHANGED <<conf, req, caps, turn, post>>

(* One attempt fails: out of its own time, on the wire, or with a transient status. *)
AttemptFails(p, how) ==
  LET c == [call[p] EXCEPT !.last = how, !.status = @ \/ how = "status"]
  IN  /\ call[p].pc = "attempt"
      /\ call' = [call EXCEPT ![p] =
           IF c.attempt = MaxAttempts
           THEN [c EXCEPT !.pc = "done", !.out = exhaustedPolicyErr(c, FALSE)]
           ELSE [c EXCEPT !.pc = "backoff"]]
      /\ UNCHANGED <<conf, req, caps, turn, post>>

Backoff(p) ==
  /\ call[p].pc = "backoff"
  /\ call' = [call EXCEPT ![p].pc = "attempt", ![p].attempt = @ + 1]
  /\ UNCHANGED <<conf, req, caps, turn, post>>

(* The decision budget runs out during an attempt or between two. *)
BudgetExpires(p) ==
  /\ call[p].pc \in {"attempt", "backoff"}
  /\ call' = [call EXCEPT ![p].pc = "done", ![p].expired = TRUE,
                          ![p].out = exhaustedPolicyErr(call[p], TRUE)]
  /\ UNCHANGED <<conf, req, caps, turn, post>>

(* The client of a serving turn leaves: its context ends wherever the turn is. *)
ClientLeaves ==
  /\ ~turn.left /\ turn.pc \in {"routing", "served"}
  /\ turn' = [turn EXCEPT !.left = TRUE]
  /\ call' = IF call["serving"].pc \in {"attempt", "backoff"}
             THEN [call EXCEPT !["serving"].pc = "done", !["serving"].expired = TRUE,
                     !["serving"].out = exhaustedPolicyErr(call["serving"], TRUE)]
             ELSE call
  /\ UNCHANGED <<conf, req, caps, post>>

(* A final status, an undecodable body or an unsupported schema. *)
Refused(p) ==
  /\ call[p].pc = "attempt"
  /\ Finish(p, Fail("unavailable"))
  /\ UNCHANGED <<conf, req, caps, turn, post>>

(* Under v3 the sidecar only classifies; before, it must name an arm or a model. *)
Contract(res) ==
  IF res.schema = "v3" THEN res.arm = <<>> /\ res.model = None /\ res.fallback # <<>>
  ELSE res.arm # <<>> \/ res.model # None

Decide(p, res) ==
  /\ p # "preview" /\ call[p].pc = "attempt"
  /\ Finish(p, IF Contract(res) THEN Choose(RoutedReq(p), res, Cands(p), conf.selects) ELSE Fail("unavailable"))
  /\ UNCHANGED <<conf, req, caps, turn, post>>

Preview(res) ==
  /\ call["preview"].pc = "attempt"
  /\ Finish("preview",
       IF PreviewAccepted(res, Cands("preview"), SchemaVersion(conf.selects))
       THEN [ok |-> TRUE, arms |-> res.arms] ELSE Fail("unavailable"))
  /\ UNCHANGED <<conf, req, caps, turn, post>>

-----------------------------------------------------------------------------
(* The turn around the call. *)
Nobody == [model |-> None, provider |-> None, marker |-> None, meta |-> FALSE]
Pinned == [Nobody EXCEPT !.model = conf.pin, !.provider = Catalog[conf.pin].bindings[1]]
OfPolicy(d) == [model |-> d.model, provider |-> d.provider, marker |-> d.marker, meta |-> TRUE]

StartTurn ==
  /\ turn.pc = "begin"
  /\ turn' = [turn EXCEPT !.pc = "routing", !.authoritative = caps.authoritative,
                          !.tier = TierApplies]
  /\ call' = [call EXCEPT !["serving"].pc = "start"]
  /\ UNCHANGED <<conf, req, caps, post>>

(* A served turn starts its shadow decision. *)
Serve(d, how) ==
  /\ turn' = [turn EXCEPT !.pc = "served", !.decision = d, !.how = how]
  /\ call' = IF conf.shadow THEN [call EXCEPT !["shadow"].pc = "start"] ELSE call
  /\ UNCHANGED <<conf, req, caps, post>>

FollowPolicy ==
  /\ turn.pc = "routing" /\ call["serving"].pc = "done" /\ call["serving"].out.ok
  /\ Serve(OfPolicy(call["serving"].out), "policy")

(* The planner stays on the session's pin; an authoritative policy is held  *)
(* back only by the gate on upgrades it is not confident of.                *)
StayOnPin ==
  /\ turn.pc = "routing" /\ call["serving"].pc = "done" /\ call["serving"].out.ok
  /\ conf.pin # None
  /\ turn.authoritative => conf.gate /\ conf.pin # call["serving"].out.model
  /\ Serve(Pinned, "stay")

isPolicyDeadlineErr(out) == ~out.ok /\ conf.hmm /\ out.deadline

policyDeadlineDefaultDecision ==
  LET provs == ProviderSet(req) \cap Available
      bound == IF conf.default = None THEN <<>> ELSE EnumerateBindings(conf.default, provs)
  IN  IF conf.default = None \/ conf.default \in req.excluded \cup req.safety \/ bound = <<>> THEN Nobody
      ELSE [Nobody EXCEPT !.model = conf.default, !.provider = bound[1]]

Degraded == IF conf.pin # None THEN Pinned ELSE policyDeadlineDefaultDecision

(* A route inside a dropped force's tier failed: the turn is routed again    *)
(* without the tier, unless the policy is authoritative.                    *)
RouteUnconstrained ==
  /\ turn.pc = "routing" /\ call["serving"].pc = "done" /\ ~call["serving"].out.ok
  /\ turn.tier /\ ~turn.authoritative
  /\ turn' = [turn EXCEPT !.tier = FALSE]
  /\ call' = [call EXCEPT !["serving"] = [Idle EXCEPT !.pc = "start"]]
  /\ UNCHANGED <<conf, req, caps, post>>

(* Two paths return the error of a missed deadline as it is: a turn without *)
(* a pin store, and an authoritative turn confined to a tier.               *)
CanDegrade == conf.degrade /\ conf.store /\ ~turn.tier

(* A missed deadline costs the ranking, not the turn: the pin, or the default. *)
Degrade ==
  /\ turn.pc = "routing" /\ call["serving"].pc = "done"
  /\ CanDegrade /\ isPolicyDeadlineErr(call["serving"].out)
  /\ Degraded.model # None
  /\ Serve(Degraded, "degraded")

TurnFails ==
  /\ turn.pc = "routing" /\ call["serving"].pc = "done" /\ ~call["serving"].out.ok
  /\ turn.tier => turn.authoritative
  /\ ~(CanDegrade /\ isPolicyDeadlineErr(call["serving"].out) /\ Degraded.model # None)
  /\ turn' = [turn EXCEPT !.pc = "failed"]
  /\ UNCHANGED <<conf, req, caps, call, post>>

(* Peers the policy scored, less what the installation or the deployment withdrew. *)
siblingCandidates(d) ==
  {m \in {c.model : c \in Range(Cands("serving"))} : m # d.model /\ m \notin req.excluded \cup req.auto}

(* The provider the route names for a model: the one of its first arm. *)
CandidateProviders(m) ==
  LET cands == Cands("serving")
  IN  Keep(cands, {c \in Range(cands) : c.model = m})[1].provider

(* That provider if the deployment holds its key, else the first of the *)
(* peer's bindings with one.                                            *)
siblingProvider(m) ==
  IF CandidateProviders(m) \in conf.keyed THEN <<CandidateProviders(m)>>
  ELSE EnumerateBindings(m, conf.keyed)

(* Every binding of the routed model is dark: a peer of the policy's pool     *)
(* serves, and the decision is rebased onto it with the route's metadata.   *)
SiblingRescue(m) ==
  /\ turn.pc = "served" /\ turn.decision.meta /\ ~turn.rescued /\ ~turn.left
  /\ m \in siblingCandidates(turn.decision) /\ siblingProvider(m) # <<>>
  /\ turn' = [turn EXCEPT !.rescued = TRUE, !.decision.marker = None, !.decision.model = m,
                !.decision.provider = siblingProvider(m)[1]]
  /\ UNCHANGED <<conf, req, caps, call, post>>

(* The route an outcome is credited to: the served decision's own metadata, *)
(* else the fresh decision the turn did not follow.                         *)
policyOutcomeRoute ==
  IF turn.decision.meta THEN <<turn.decision>>
  ELSE IF turn.how = "stay" THEN <<OfPolicy(call["serving"].out)>> ELSE <<>>

outcomeTrainsMutant(route) == req.train

outcomeTrains(route) ==
  /\ req.train
  /\ ~(call["serving"].authoritative /\ route.model # turn.decision.model)

(* The report is built when the turn ends and posted by a goroutine. *)
reportPolicyOutcome ==
  /\ turn.pc = "served"
  /\ turn' = [turn EXCEPT !.pc = "reported"]
  /\ post' = IF policyOutcomeRoute = <<>> \/ turn.left THEN NoPost
             ELSE [pc |-> "pending", selected |-> policyOutcomeRoute[1].model,
                   served |-> turn.decision.model, train |-> outcomeTrains(policyOutcomeRoute[1])]
  /\ UNCHANGED <<conf, req, caps, call>>

(* Gated by the capabilities of the moment; a post may be lost. *)
ReportOutcome ==
  /\ post.pc = "pending"
  /\ post' \in {[post EXCEPT !.pc = "lost"]} \cup
               (IF caps.outcomes THEN {[post EXCEPT !.pc = "delivered"]} ELSE {})
  /\ UNCHANGED <<conf, req, caps, call, turn>>

(* retryPolicyCapabilitiesUntilAvailable: the sidecar was down at boot. *)
RefreshCapabilities ==
  /\ caps # conf.caps
  /\ caps' = conf.caps
  /\ UNCHANGED <<conf, req, call, turn, post>>

-----------------------------------------------------------------------------
Init ==
  /\ conf \in Settings
  /\ req \in Requests
  /\ caps \in {NoCaps, conf.caps}
  /\ call = [p \in Callers |->
               IF p = "preview" /\ conf.preview THEN [Idle EXCEPT !.pc = "start"] ELSE Idle]
  /\ turn = [pc |-> IF conf.preview THEN "none" ELSE "begin", authoritative |-> FALSE, tier |-> FALSE,
             decision |-> Nobody, how |-> None, rescued |-> FALSE, left |-> FALSE]
  /\ post = NoPost

Next ==
  \/ StartTurn \/ FollowPolicy \/ StayOnPin \/ RouteUnconstrained \/ Degrade \/ TurnFails
  \/ \E m \in DOMAIN Catalog : SiblingRescue(m)
  \/ reportPolicyOutcome \/ ReportOutcome \/ RefreshCapabilities \/ ClientLeaves
  \/ \E p \in Callers :
       \/ Begin(p) \/ Backoff(p) \/ BudgetExpires(p) \/ Refused(p)
       \/ \E how \in {"deadline", "transport", "status"} : AttemptFails(p, how)
       \/ \E res \in Answers : Decide(p, res)
  \/ \E res \in PreviewAnswers : Preview(res)

Spec == Init /\ [][Next]_vars

-----------------------------------------------------------------------------
(* May model m be offered to this turn at all?  Over which providers may it be served? *)
Permitted(m) == m \in Range(Deployed) /\ HardEligible(RoutedReq("serving"), m)
PermittedOver == IF turn.rescued THEN conf.keyed ELSE ProviderSet(req) \ Denied

(* Is an arm whose model is not withdrawn available among the permitted ones? *)
Better ==
  \E m \in Range(Deployed) \ req.auto :
    Permitted(m) /\ EnumerateBindings(m, ProviderSet(req) \ Denied) # <<>>

(* Whatever chose the arm of a turn (the sidecar, the router's own selection, *)
(* a per-key list, a forced cluster, a rescue after the upstream failed), it *)
(* is one the request permits over a provider the request enabled (a rescue: *)
(* one the deployment holds a key for); a turn confined to a dropped force's *)
(* tier is served inside it; a model withdrawn from automatic routing serves *)
(* only when nothing else is left; a forced cluster with a per-key list      *)
(* serves that list only; the marker shown names the served model; and a     *)
(* preview lists offered arms only.                                          *)
PolicyChoiceEligible ==
  /\ turn.decision.meta =>
       LET d == turn.decision
       IN  /\ Permitted(d.model)
           /\ d.provider \in PermittedOver \cap Range(Catalog[d.model].bindings)
           /\ turn.tier => Catalog[d.model].tier = conf.floor
           /\ d.model \in req.auto => ~Better
           /\ (req.force \in DOMAIN req.overrides /\ ~turn.rescued)
                => d.model \in Range(req.overrides[req.force])
           /\ d.marker # None => d.marker = d.model
  /\ turn.how = "degraded" /\ conf.pin = None =>
       /\ turn.decision.model \notin req.excluded \cup req.safety
       /\ turn.decision.provider \in ProviderSet(req)
  /\ (conf.preview /\ call["preview"].out.ok) =>
       \A a \in Range(call["preview"].out.arms) :
         \E m \in Range(Deployed) : HardEligible(req, m) /\ Catalog[m].roster = a.base

(* A turn is served without a ranking only because time ran out, never       *)
(* because the sidecar broke its contract or refused; and when time did run  *)
(* out, whatever status the sidecar had reported before, a turn that has a   *)
(* pin or a permitted default is failed on two paths only: an authoritative  *)
(* turn confined to the tier of a dropped force, and a turn without a store  *)
(* of pins, both of which return the error before the fallback is reached.   *)
DegradesOnlyOnDeadline ==
  LET c == call["serving"]
  IN  /\ turn.how = "degraded" => c.expired \/ c.last = "deadline"
      /\ (turn.pc = "failed" /\ c.expired /\ conf.hmm /\ conf.degrade)
           => Degraded.model = None \/ ~conf.store \/ (turn.tier /\ turn.authoritative)

(* What leaves the router for learning: only a consented serving turn asks   *)
(* or reports for training, only it carries tool results, and a query that   *)
(* dropped history says so.  The model a report names as selected is one the *)
(* sidecar was offered for this turn, and unless a sibling rescued the turn  *)
(* it is the sidecar's own selection, which a turn that is trained on was    *)
(* served with when the policy is authoritative.  A rescued turn's report    *)
(* does name the stand-in as selected: the rescue rebases the decision and   *)
(* keeps its route metadata.                                                 *)
SidecarToldTruth ==
  /\ \A p \in Callers : call[p].query # None =>
       LET q == call[p].query[1]
       IN  /\ (q.train \/ q.results \/ q.delta # <<>>) => p = "serving" /\ req.train
           /\ (p # "preview" /\ ~q.truncated) => q.messages = Sendable(req.conv)
  /\ post.pc # "none" =>
       /\ turn.how \in {"policy", "stay"} /\ call["serving"].out.ok
       /\ post.train => req.train
       /\ post.selected \in {c.model : c \in Range(Cands("serving"))}
       /\ ~turn.rescued => post.selected = call["serving"].out.model
       /\ (post.train /\ call["serving"].authoritative /\ ~turn.rescued)
            => post.served = call["serving"].out.model
=============================================================================
