----------------------------- MODULE SessionPins -----------------------------
(***************************************************************************)
(* The turns of one client session against the session-pin table.          *)
(*                                                                         *)
(* A request slot runs one ProxyMessages call at a time: a routed turn     *)
(* (runTurnLoop, dispatch, the post-turn writes), a slash command that     *)
(* grants a one-shot continuation, or a /beta toggle.  Every call on       *)
(* sessionpin.Store is a step of its own, so slots interleave exactly as   *)
(* concurrent requests of one session do between database statements.     *)
(* The code between two store calls is local to the request and belongs to *)
(* the step of the call that follows it.                                   *)
(***************************************************************************)
EXTENDS PinStore

CONSTANTS
    Requests,       \* request slots of the session
    Bindings,       \* Bindings[m]: the providers that serve model m
    BaseStrategy,   \* the strategy of a session without a /beta preference
    HMMStrategies,  \* strategies whose fresh decisions are HMM decisions
    Authoritative,  \* authoritative per-turn selection (operator flag)
    RefusalModel,   \* ROUTER_CYBER_REFUSAL_FALLBACK_MODEL
    Outcomes,       \* the upstream outcomes considered
    TurnKinds,      \* the turn types considered
    LegacyPins,     \* whether a pre-rollout row may exist initially
    MaxTurns,       \* bound: routed turns of the session
    MaxCommands,    \* bound: continuation-granting slash commands
    MaxToggles,     \* bound: /beta toggles
    MaxLapses       \* bound: natural expiries and sweeps of a row

OutcomeKinds ==
    { "ok",         \* served, usage reported
      "unmetered",  \* served, no usage reported
      "maxed",      \* served up to the output cap
      "degenerate", \* served, end_turn with next to no output
      "refused",    \* served, a cyber refusal was observed
      "reject",     \* non-retryable upstream 4xx
      "overload",   \* exhausted with a 529
      "transient",  \* retryable status or no upstream status at all
      "cut" }       \* a stream broken after it reported usage

ASSUME SessionConstants ==
    /\ Bindings \in [Models -> SUBSET Providers]
    /\ BaseStrategy \in Strategies \ {Beta}
    /\ HMMStrategies \subseteq Strategies
    /\ Authoritative \in BOOLEAN
    /\ RefusalModel \in Models \cup {NoModel}
    /\ Outcomes \subseteq OutcomeKinds
    /\ TurnKinds \subseteq {"main", "tool"}
    /\ LegacyPins \in BOOLEAN
    /\ {MaxTurns, MaxCommands, MaxToggles, MaxLapses} \subseteq Nat

VARIABLES
    store,      \* store[role]: the row of the session under that role
    beta,       \* the persisted /beta preference of the session
    req,        \* req[r]: the request running in slot r
    turns, commands, toggles, lapses,   \* bounds used up
    contStale,  \* history: the stored continuation predates a clear of the pin
    granted, redeemed  \* history: continuations stored and served

vars == <<store, beta, req, turns, commands, toggles, lapses,
          contStale, granted, redeemed>>

\* The table roles of one tier: the routing pin, its HMM history, and the
\* continuation each of them would own.
PinRole  == "pin"
HistRole == "hist"
Roles    == {"pin", "hist", "cont", "hist_cont"}

commandContinuationRole(role) == IF role = PinRole THEN "cont" ELSE "hist_cont"

Strategy == IF beta THEN Beta ELSE BaseStrategy

-----------------------------------------------------------------------------
(* The request in a slot.                                                   *)

\* The steps after the dispatch; the last three are expireSessionPin.
PostPCs == { "usage", "priorHistory", "upsertHistory", "historyUsage",
             "degenerate", "strike", "deadArm", "overload", "disable",
             "refusalRead", "refusalWrite",
             "mark", "invalidate", "markHistory" }

PCs == { "idle",
         "load", "history", "consume", "route",             \* runTurnLoop
         "grant",                                           \* slash command
         "clearPin", "clearHistory", "clearContinuation",   \* /beta cleanup
         "dispatch" } \cup PostPCs

Idle ==
    [ pc |-> "idle", kind |-> "main", strategy |-> BaseStrategy,
      pin |-> ZeroPin, found |-> FALSE, hist |-> ZeroPin,
      cont |-> ZeroPin, contFound |-> FALSE, stale |-> FALSE,
      decision |-> NoArm, sticky |-> FALSE, stickyRole |-> PinRole,
      anchor |-> NoModel, hmm |-> FALSE,
      prior |-> NoModel, ever |-> FALSE, disabled |-> {},
      outcome |-> "ok", dead |-> FALSE, served |-> NoArm,
      expire |-> [role |-> PinRole, history |-> FALSE], return |-> "idle" ]

ReqType ==
    [ pc : PCs, kind : {"main", "tool", "command", "toggle"}, strategy : Strategies,
      pin : Row, found : BOOLEAN, hist : Row,
      cont : Row, contFound : BOOLEAN, stale : BOOLEAN,
      decision : Arm, sticky : BOOLEAN, stickyRole : {PinRole, HistRole},
      anchor : Models \cup {NoModel}, hmm : BOOLEAN,
      prior : Models \cup {NoModel}, ever : BOOLEAN, disabled : SUBSET Providers,
      outcome : OutcomeKinds, dead : BOOLEAN, served : Arm,
      expire : [role : {PinRole, HistRole}, history : BOOLEAN],
      return : PostPCs \cup {"idle"} ]

\* stickyStateRole: the row the post-turn strike bookkeeping addresses.
stickyStateRole(q) == IF q.sticky THEN q.stickyRole ELSE PinRole

Become(r, q) == req' = [req EXCEPT ![r] = q]

Go(r, pc) == Become(r, [req[r] EXCEPT !.pc = pc])

Done(r) == Become(r, Idle)

Put(role, row) == store' = [store EXCEPT ![role] = row]

Bounds  == <<turns, commands, toggles, lapses>>
History == <<contStale, granted, redeemed>>

-----------------------------------------------------------------------------
(* Arrival: applySessionStrategy reads the /beta preference once.           *)

BeginTurn(r) ==
    /\ req[r].pc = "idle"
    /\ turns < MaxTurns
    /\ \E kind \in TurnKinds :
         Become(r, [Idle EXCEPT !.pc = "load", !.kind = kind, !.strategy = Strategy])
    /\ turns' = turns + 1
    /\ UNCHANGED <<store, beta, commands, toggles, lapses, History>>

BeginCommand(r) ==
    /\ req[r].pc = "idle"
    /\ commands < MaxCommands
    /\ Become(r, [Idle EXCEPT !.pc = "load", !.kind = "command", !.strategy = Strategy])
    /\ commands' = commands + 1
    /\ UNCHANGED <<store, beta, turns, toggles, lapses, History>>

\* handleBetaCommand: the toggle is persisted first, then the rows of the
\* strategy that was just left are cleaned up one by one.
ToggleBeta(r) ==
    /\ req[r].pc = "idle"
    /\ Beta \in Strategies
    /\ toggles < MaxToggles
    /\ beta' = ~beta
    /\ Become(r, [Idle EXCEPT !.pc = "clearPin", !.kind = "toggle", !.strategy = Strategy])
    /\ toggles' = toggles + 1
    /\ UNCHANGED <<store, turns, commands, lapses, History>>

\* invalidateSessionRoutingState: one Consume per state role.
CleanRole(r, from, role, to) ==
    /\ req[r].pc = from
    /\ Put(role, DeleteSessionPin(store[role], req[r].strategy))
    /\ IF to = "idle" THEN Done(r) ELSE Go(r, to)
    /\ UNCHANGED <<beta, Bounds, History>>

InvalidateRoutingState(r) ==
    \/ CleanRole(r, "clearPin", PinRole, "clearHistory")
    \/ CleanRole(r, "clearHistory", HistRole, "clearContinuation")
    \/ CleanRole(r, "clearContinuation", "cont", "idle")

-----------------------------------------------------------------------------
(* runTurnLoop: what the turn reads.                                        *)

\* Mutant: a miss hands the missing row on.
loadPinMutant(r) ==
    LET q   == req[r]
        row == store[PinRole]
        hit == Addressed(row, q.strategy) IN
    /\ q.pc = "load"
    /\ Become(r, [ q EXCEPT !.pin   = row,
                            !.found = hit /\ row.live,
                            !.pc    = IF q.kind = "command" THEN "grant" ELSE "history" ])
    /\ UNCHANGED <<store, beta, Bounds, History>>

\* loadPin: a row of another strategy is a miss, an expired row is a miss
\* that still hands its fields to the caller.
loadPin(r) ==
    LET q   == req[r]
        row == store[PinRole]
        hit == Addressed(row, q.strategy) IN
    /\ q.pc = "load"
    /\ Become(r, [ q EXCEPT !.pin   = IF hit THEN row ELSE ZeroPin,
                            !.found = hit /\ row.live,
                            !.pc    = IF q.kind = "command" THEN "grant" ELSE "history" ])
    /\ UNCHANGED <<store, beta, Bounds, History>>

\* switchHistoryFromPins.  When the rows name different models the latch is
\* set, so which of the two is the later one makes no difference.
PriorServed(a, b) == IF a.lastServed # NoModel THEN a.lastServed ELSE b.lastServed

EverSwitched(a, b) ==
    \/ a.ever \/ b.ever
    \/ NoModel \notin {a.lastServed, b.lastServed} /\ a.lastServed # b.lastServed

\* loadHMMHistory (no expiry check), then the evidence both rows carry.
loadHMMHistory(r) ==
    LET q    == req[r]
        row  == store[HistRole]
        hist == IF Addressed(row, q.strategy) THEN row ELSE ZeroPin IN
    /\ q.pc = "history"
    /\ Become(r, [ q EXCEPT !.hist     = hist,
                            !.disabled = q.pin.disabled \cup hist.disabled,
                            !.prior    = PriorServed(q.pin, hist),
                            !.ever     = EverSwitched(q.pin, hist),
                            !.pc       = IF q.kind = "main" THEN "consume" ELSE "route" ])
    /\ UNCHANGED <<store, beta, Bounds, History>>

\* consumePostCommandContinuation: only a main-loop turn takes it.
consumePostCommandContinuation(r) ==
    LET q   == req[r]
        row == store["cont"]
        hit == Consumable(row, q.strategy) IN
    /\ q.pc = "consume"
    /\ Put("cont", DeleteSessionPin(row, q.strategy))
    /\ Become(r, [ q EXCEPT !.cont      = IF hit THEN row ELSE ZeroPin,
                            !.contFound = hit,
                            !.stale     = hit /\ contStale,
                            !.pc        = "route" ])
    /\ contStale' = (contStale /\ ~hit)
    /\ UNCHANGED <<beta, Bounds, granted, redeemed>>

\* grantPostCommandContinuation, after its loadPin: stores a copy of a live
\* automatic pin under the continuation role.
maxedOutServedModel(row) ==
    IF ~row.maxed THEN NoModel
    ELSE IF row.lastServed # NoModel THEN row.lastServed ELSE row.model

PinOf(row, strategy) ==
    [ model |-> row.model, provider |-> row.provider, pair |-> row.pair,
      reason |-> row.reason, strategy |-> strategy, group |-> row.group,
      live |-> TRUE ]

grantPostCommandContinuation(r) ==
    LET q == req[r] IN
    /\ q.pc = "grant"
    /\ IF /\ q.found
          /\ q.pin.model # NoModel
          /\ q.pin.provider # NoProvider
          /\ maxedOutServedModel(q.pin) = NoModel
       THEN /\ Put("cont", UpsertSessionPin(store["cont"], PinOf(q.pin, q.strategy)))
            /\ contStale' = q.stale
            /\ granted' = granted + 1
       ELSE UNCHANGED <<store, contStale, granted>>
    /\ Done(r)
    /\ UNCHANGED <<beta, Bounds, redeemed>>

-----------------------------------------------------------------------------
(* runTurnLoop: the decision.  Each exit of the function is an action; the  *)
(* guards that depend on the request alone (policy exclusions, allowed      *)
(* subset, context window, images, deployment-wide disables) may drop any   *)
(* pin or continuation, so an exit that needs no pin is open to every turn. *)

\* A deliberate clear is an expired blank row with a reason.
Cleared(q) ==
    ~q.found /\ q.pin.model = NoModel /\ q.pin.provider = NoProvider /\ q.pin.reason # ""

\* The loaded pin after the guards that depend on the session.
PinUsable(q) == q.found /\ ~q.pin.maxed /\ q.pin.provider \notin q.disabled

\* Models barred for this turn because they ran into the output cap.  The
\* context-window re-check lifts the exclusion of the pin it lets through.
MaxedModels(q) ==
    ({maxedOutServedModel(q.hist)}
        \cup (IF q.found THEN {maxedOutServedModel(q.pin)} ELSE {})) \ {NoModel}

ExcludedModels(q, kept) == MaxedModels(q) \ (IF kept THEN {q.pin.model} ELSE {})

EligibleArms(q, kept) ==
    { a \in Arm : /\ a.model \in Models \ ExcludedModels(q, kept)
                  /\ a.provider \in Bindings[a.model] \ q.disabled }

IsHMM(q) == q.strategy \in HMMStrategies

\* The request after its decision; the continuation it held is used up.
Decided(q, arm, sticky, hmm) ==
    [ q EXCEPT !.pc = "dispatch", !.decision = arm, !.sticky = sticky,
               !.anchor = arm.model, !.hmm = hmm,
               !.cont = ZeroPin, !.contFound = FALSE, !.stale = FALSE ]

\* refreshPin and writeNewPin: the turn-start Upsert on the routing pin.
UpsertPin(pin) == Put(PinRole, UpsertSessionPin(store[PinRole], pin))

refreshPin(q, existing) == UpsertPin(PinOf(existing, q.strategy))

writeNewPin(q, arm, pair, reason, group) ==
    UpsertPin([ model |-> arm.model, provider |-> arm.provider, pair |-> pair,
                reason |-> reason, strategy |-> q.strategy, group |-> group,
                live |-> TRUE ])

ArmOf(row) == [model |-> row.model, provider |-> row.provider]

\* A continuation stored by a slash command serves the next main-loop turn,
\* unless this turn saw that the pin it copies was cleared.
ContinuationUsable(q) ==
    /\ q.contFound
    /\ ~Cleared(q)
    /\ q.cont.model \in Models \ ExcludedModels(q, PinUsable(q))
    /\ q.cont.provider \in Providers \ q.disabled

ServeContinuation(r) ==
    LET q == req[r] IN
    /\ q.pc = "route"
    /\ ContinuationUsable(q)
    /\ refreshPin(q, q.cont)
    /\ Become(r, [ Decided(q, ArmOf(q.cont), TRUE, q.cont.reason = "hmm_policy") EXCEPT
                    !.prior = PriorServed(q.cont, q.hist),
                    !.ever  = EverSwitched(q.cont, q.hist) ])
    /\ redeemed' = redeemed + 1
    /\ UNCHANGED <<beta, Bounds, contStale, granted>>

\* bandSwapServed: a planner stay may serve the runner-up of the pinned pair.
SwapArms(q) ==
    IF /\ q.kind = "main" /\ ~IsHMM(q)
       /\ q.pin.pair.model \in Models \ ExcludedModels(q, TRUE)
       /\ q.pin.pair.provider \in Providers \ q.disabled
    THEN {ArmOf(q.pin), q.pin.pair}
    ELSE {ArmOf(q.pin)}

ServesHMM(q) == q.pin.reason = "hmm_policy" \/ (Authoritative /\ IsHMM(q))

\* The sticky exits: tool-result reuse, planner off, planner stay, and the
\* low-confidence authoritative upgrade all refresh the pin and serve it.
ServePinned(r) ==
    LET q == req[r] IN
    /\ q.pc = "route"
    /\ PinUsable(q)
    /\ refreshPin(q, q.pin)
    /\ \E arm \in SwapArms(q) :
         Become(r, [ Decided(q, arm, TRUE, ServesHMM(q)) EXCEPT !.anchor = q.pin.model ])
    /\ UNCHANGED <<beta, Bounds, History>>

\* The scorer's decision becomes the pin: no usable pin, a planner switch, or
\* authoritative per-turn selection.
RouteFresh(r) ==
    LET q == req[r] IN
    /\ q.pc = "route"
    /\ IsHMM(q) => Authoritative
    /\ \E kept \in {FALSE, PinUsable(q)} : \E arm \in EligibleArms(q, kept) :
         /\ kept /\ ~IsHMM(q) => arm.model # q.pin.model
         /\ \E pair \in {NoArm} \cup
                { a \in EligibleArms(q, kept) : a.model # arm.model /\ ~IsHMM(q) } :
              writeNewPin(q, arm, pair, IF IsHMM(q) THEN "hmm_policy" ELSE "routed",
                          IF IsHMM(q) THEN arm.model ELSE NoModel)
         /\ Become(r, Decided(q, arm, FALSE, IsHMM(q)))
    /\ UNCHANGED <<beta, Bounds, History>>

\* Expired-pin re-anchor: keep the prior model over a lateral fresh pick.
Reanchor(r) ==
    LET q == req[r] IN
    /\ q.pc = "route"
    /\ ~IsHMM(q)
    /\ ~q.found
    /\ q.pin.model \in Models \ ExcludedModels(q, FALSE)
    /\ q.pin.provider \in Providers \ q.disabled
    /\ ~q.pin.maxed
    /\ EligibleArms(q, FALSE) # {}
    /\ writeNewPin(q, ArmOf(q.pin), NoArm, q.pin.reason, NoModel)
    /\ Become(r, Decided(q, ArmOf(q.pin), TRUE, FALSE))
    /\ UNCHANGED <<beta, Bounds, History>>

\* The policy sidecar missed its deadline: serve the pin, else the default.
DeadlineFallback(r) ==
    LET q == req[r] IN
    /\ q.pc = "route"
    /\ IsHMM(q)
    /\ \/ /\ PinUsable(q)
          /\ refreshPin(q, q.pin)
          /\ Become(r, Decided(q, ArmOf(q.pin), TRUE, FALSE))
       \/ \E arm \in EligibleArms(q, FALSE) :
            /\ writeNewPin(q, arm, NoArm, "deadline_default", NoModel)
            /\ Become(r, Decided(q, arm, FALSE, FALSE))
    /\ UNCHANGED <<beta, Bounds, History>>

\* normalizeHMMStayPin: the arm a row offers to an HMM stay, if any.  A
\* provider the row names is kept when it serves the model.
StayArms(q, row, kept) ==
    LET model == IF row.lastServed # NoModel THEN row.lastServed ELSE row.model IN
    IF model \in Models \ ExcludedModels(q, kept) /\ row.ended /\ row.live /\ ~row.maxed
    THEN { [model |-> model, provider |-> p] :
             p \in IF row.provider \in Bindings[model] THEN {row.provider}
                   ELSE Bindings[model] \ q.disabled }
    ELSE {}

\* hmmStayPin: the active pin if HMM wrote it, and the history row.
HMMStayArms(q, kept) ==
    StayArms(q, q.hist, kept)
        \cup (IF kept /\ q.pin.reason = "hmm_policy" THEN StayArms(q, q.pin, kept) ELSE {})

\* Outside authoritative selection an HMM decision never writes the routing
\* pin; a stay is sticky on the history row.
ServeHMM(r) ==
    LET q == req[r] IN
    /\ q.pc = "route"
    /\ IsHMM(q) /\ ~Authoritative
    /\ \E kept \in {FALSE, PinUsable(q)} : \E fresh \in EligibleArms(q, kept) :
         \/ Become(r, [Decided(q, fresh, FALSE, TRUE) EXCEPT !.anchor = NoModel])
         \/ \E arm \in HMMStayArms(q, kept) :
              /\ arm.model # fresh.model
              /\ Become(r, [ Decided(q, arm, TRUE, TRUE) EXCEPT
                              !.anchor = NoModel, !.stickyRole = HistRole ])
    /\ UNCHANGED <<store, beta, Bounds, History>>

\* The scorer failed or found no candidate: the turn ends in an error.
RouteFailed(r) ==
    /\ req[r].pc = "route"
    /\ Done(r)
    /\ UNCHANGED <<store, beta, Bounds, History>>

-----------------------------------------------------------------------------
(* Dispatch.  The walk over bindings is the subject of Dispatch; here only  *)
(* its result matters: the arm that ended the turn, and how.                *)

\* Mutant: failover reaches struck-out bindings.
resolveBindingsForDispatchMutant(q, arm) == Bindings[arm.model] \cup {arm.provider}

\* resolveBindingsForDispatch: the providers the walk may reach.
resolveBindingsForDispatch(q, arm) ==
    LET open == Bindings[arm.model] \ q.disabled IN
    IF arm.provider \in q.disabled THEN open
    ELSE IF Cardinality(open) > 1 THEN open \cup {arm.provider}
    ELSE {arm.provider}

\* siblingFailoverDecision: a replayed pin carries no candidates, so only a
\* fresh decision can be rescued by a sibling.
SiblingArms(q) ==
    IF q.sticky THEN {}
    ELSE { a \in EligibleArms(q, FALSE) : a.model # q.decision.model }

Served(outcome) == outcome \in {"ok", "unmetered", "maxed", "degenerate", "refused"}

\* The turn has token counts to record, whether or not it ended well.
Metered(outcome) == outcome \in {"ok", "cut", "maxed", "degenerate", "refused"}

\* The post-turn steps in the order of ProxyMessages, each skipped when its
\* early returns say so.
AfterOverload(q) == IF q.outcome = "refused" THEN "refusalRead" ELSE "idle"

AfterDeadArm(q) ==
    IF q.sticky /\ (Served(q.outcome) \/ q.outcome = "overload")
    THEN "overload" ELSE AfterOverload(q)

AfterStrike(q) == IF q.dead THEN "deadArm" ELSE AfterDeadArm(q)

AfterDegenerate(q) ==
    IF q.sticky /\ (Served(q.outcome) \/ q.outcome = "reject")
    THEN "strike" ELSE AfterStrike(q)

AfterUsage(q) ==
    IF q.outcome = "degenerate" /\ q.sticky THEN "degenerate" ELSE AfterDegenerate(q)

\* recordTurnUsage: HMM turns keep their history row, others the pin row.
AfterDispatch(q) ==
    IF q.hmm THEN (IF Metered(q.outcome) THEN "upsertHistory" ELSE "priorHistory")
    ELSE IF Metered(q.outcome) THEN "usage" ELSE AfterUsage(q)

Continue(r, q, pc) ==
    Become(r, IF pc = "idle" THEN Idle ELSE [q EXCEPT !.pc = pc])

\* The decision becomes the arm that ended the walk; the rows are not used again.
Result(q, arm, outcome, dead) ==
    [ q EXCEPT !.served = arm, !.decision = arm, !.outcome = outcome, !.dead = dead,
               !.pin = ZeroPin, !.found = FALSE, !.hist = ZeroPin ]

\* The arms the binding walk can end on.
Reached(q) ==
    { [q.decision EXCEPT !.provider = p] : p \in resolveBindingsForDispatch(q, q.decision) }

\* What a dead arm ends a turn in when no sibling rescues it.
Unservable == {"reject", "transient"}

\* How the dispatch may end.  A walk without bindings ends in a bare 502.  A
\* 529 ends it on its last binding, and the decision's own is the first.
\* dead (deadArmRejected) is snapshotted before the sibling rescue, so it
\* stands whether the turn ends in the rejection, in a request that could not
\* be built for the model, or in a rescue.
CanEnd(q, arm, outcome, dead) ==
    /\ dead => Outcomes \cap Unservable # {}
    /\ \/ Reached(q) = {} /\ arm = q.decision /\ outcome = "transient"
       \/ /\ arm \in Reached(q) /\ outcome \in Outcomes
          /\ dead => outcome \in Unservable
          /\ outcome = "overload" /\ Cardinality(Reached(q)) > 1 => arm # q.decision
       \/ /\ arm \in SiblingArms(q) /\ outcome \in Outcomes
          /\ Reached(q) # {} \/ dead

Ends(q) == {q.decision} \cup Reached(q) \cup SiblingArms(q)

DispatchTurn(r) ==
    /\ req[r].pc = "dispatch"
    /\ \E arm \in Ends(req[r]), outcome \in Outcomes \cup {"transient"}, dead \in BOOLEAN :
         LET end == Result(req[r], arm, outcome, dead) IN
         CanEnd(req[r], arm, outcome, dead) /\ Continue(r, end, AfterDispatch(end))
    /\ UNCHANGED <<store, beta, Bounds, History>>

-----------------------------------------------------------------------------
(* recordTurnUsage and recordHMMTurnHistory.                                *)

UsageOf(q) ==
    [ strategy |-> q.strategy, model |-> q.served.model, provider |-> q.served.provider,
      maxed |-> q.outcome = "maxed", prior |-> q.prior, ever |-> q.ever ]

recordTurnUsage(r) ==
    LET q == req[r] IN
    /\ q.pc = "usage"
    /\ Put(PinRole, UpdateSessionPinUsage(store[PinRole], UsageOf(q)))
    /\ Continue(r, q, AfterUsage(q))
    /\ UNCHANGED <<beta, Bounds, History>>

\* An HMM turn without usage reads the history row to keep its provider.
readPriorHistory(r) ==
    LET q == req[r] IN
    /\ q.pc = "priorHistory"
    /\ Become(r, [ q EXCEPT !.pc = "upsertHistory",
                            !.hist = IF Addressed(store[HistRole], q.strategy)
                                     THEN store[HistRole] ELSE ZeroPin ])
    /\ UNCHANGED <<store, beta, Bounds, History>>

upsertHMMHistory(r) ==
    LET q        == req[r]
        provider == IF q.hist.provider # NoProvider THEN q.hist.provider
                    ELSE q.served.provider IN
    /\ q.pc = "upsertHistory"
    /\ Put(HistRole, UpsertSessionPin(store[HistRole],
             [ model |-> NoModel, provider |-> provider, pair |-> NoArm,
               reason |-> "hmm_policy", strategy |-> q.strategy,
               group |-> NoModel, live |-> TRUE ]))
    /\ LET done == [q EXCEPT !.hist = ZeroPin] IN
       Continue(r, done, IF Metered(q.outcome) THEN "historyUsage" ELSE AfterUsage(q))
    /\ UNCHANGED <<beta, Bounds, History>>

updateHistoryUsage(r) ==
    LET q == req[r] IN
    /\ q.pc = "historyUsage"
    /\ Put(HistRole, UpdateSessionPinUsage(store[HistRole], UsageOf(q)))
    /\ Continue(r, q, AfterUsage(q))
    /\ UNCHANGED <<beta, Bounds, History>>

-----------------------------------------------------------------------------
(* expireSessionPin and expireSessionPinAndHMMHistory: a blank, expired     *)
(* marker, then the continuation of the same role, then the history row.    *)

StartExpire(r, q, role, history, return) ==
    Become(r, [ q EXCEPT !.pc = "mark", !.return = return,
                         !.expire = [role |-> role, history |-> history] ])

Marker(strategy) ==
    [ model |-> NoModel, provider |-> NoProvider, pair |-> NoArm, reason |-> "cleared",
      strategy |-> strategy, group |-> NoModel, live |-> FALSE ]

\* History: whatever copy of the cleared pin is still around is now stale.
Outdated(q) == [q EXCEPT !.stale = (q.pc = "grant" \/ q.contFound) \/ @]

markExpired(r) ==
    LET q == req[r] IN
    /\ q.pc = "mark"
    /\ Put(q.expire.role, UpsertSessionPin(store[q.expire.role], Marker(q.strategy)))
    /\ req' = [s \in Requests |->
                 IF s = r THEN [q EXCEPT !.pc = "invalidate"]
                 ELSE IF q.expire.role = PinRole THEN Outdated(req[s]) ELSE req[s]]
    /\ contStale' = (contStale \/ (q.expire.role = PinRole /\ store["cont"] # NoRow))
    /\ UNCHANGED <<beta, Bounds, granted, redeemed>>

invalidatePostCommandContinuation(r) ==
    LET q    == req[r]
        role == commandContinuationRole(q.expire.role) IN
    /\ q.pc = "invalidate"
    /\ Put(role, DeleteSessionPin(store[role], q.strategy))
    /\ contStale' = (contStale /\ (role = "cont" => ~Consumable(store[role], q.strategy)))
    /\ Continue(r, q, IF q.expire.history THEN "markHistory" ELSE q.return)
    /\ UNCHANGED <<beta, Bounds, granted, redeemed>>

markHistoryExpired(r) ==
    LET q == req[r] IN
    /\ q.pc = "markHistory"
    /\ Put(HistRole, UpsertSessionPin(store[HistRole], Marker(q.strategy)))
    /\ Continue(r, q, q.return)
    /\ UNCHANGED <<beta, Bounds, History>>

-----------------------------------------------------------------------------
(* The post-turn policies.                                                  *)

pinEvictionStrikeThreshold      == 2
providerOverloadStrikeThreshold == 2

evictPinAfterDegenerateResponse(r) ==
    LET q == req[r] IN
    /\ q.pc = "degenerate"
    /\ StartExpire(r, q, stickyStateRole(q), FALSE, AfterDegenerate(q))
    /\ UNCHANGED <<store, beta, Bounds, History>>

\* Mutant: the strike is charged and never acted on.
maybeEvictPinAfterUpstreamErrMutant(r) ==
    LET q    == req[r]
        role == stickyStateRole(q)
        row  == store[role] IN
    /\ q.pc = "strike"
    /\ Put(role, IF Served(q.outcome) THEN ResetSessionPinUpstreamErrors(row, q.strategy)
                 ELSE IncrementSessionPinUpstreamErrors(row, q.strategy, q.anchor))
    /\ Continue(r, q, AfterStrike(q))
    /\ UNCHANGED <<beta, Bounds, History>>

maybeEvictPinAfterUpstreamErr(r) ==
    LET q    == req[r]
        role == stickyStateRole(q)
        row  == store[role]
        struck == IncrementSessionPinUpstreamErrors(row, q.strategy, q.anchor) IN
    /\ q.pc = "strike"
    /\ IF Served(q.outcome)
       THEN /\ Put(role, ResetSessionPinUpstreamErrors(row, q.strategy))
            /\ Continue(r, q, AfterStrike(q))
       ELSE /\ Put(role, struck)
            /\ IF /\ Addressed(row, q.strategy)
                  /\ struck.upErr >= pinEvictionStrikeThreshold
               THEN StartExpire(r, q, role, FALSE, AfterStrike(q))
               ELSE Continue(r, q, AfterStrike(q))
    /\ UNCHANGED <<beta, Bounds, History>>

maybeExpireDeadArmPin(r) ==
    LET q == req[r] IN
    /\ q.pc = "deadArm"
    /\ StartExpire(r, q, stickyStateRole(q), FALSE, AfterDeadArm(q))
    /\ UNCHANGED <<store, beta, Bounds, History>>

maybeDisableProviderAfterOverload(r) ==
    LET q    == req[r]
        role == stickyStateRole(q)
        row  == store[role]
        struck == IncrementSessionPinOverloadErrors(row, q.strategy, q.served.provider) IN
    /\ q.pc = "overload"
    /\ IF Served(q.outcome)
       THEN /\ Put(role, ResetSessionPinOverloadErrors(row, q.strategy))
            /\ Continue(r, q, AfterOverload(q))
       ELSE /\ Put(role, struck)
            /\ Continue(r, q, IF /\ Addressed(row, q.strategy)
                                 /\ struck.ovErr >= providerOverloadStrikeThreshold
                              THEN "disable" ELSE AfterOverload(q))
    /\ UNCHANGED <<beta, Bounds, History>>

disableProvider(r) ==
    LET q    == req[r]
        role == stickyStateRole(q) IN
    /\ q.pc = "disable"
    /\ Put(role, DisableSessionPinProvider(store[role], q.strategy, q.served.provider))
    /\ StartExpire(r, q, PinRole, TRUE, AfterOverload(q))
    /\ UNCHANGED <<beta, Bounds, History>>

\* maybeRepinOnRefusal: the runner-up of the stored row, else the configured
\* fallback model; no write when that is the model that refused.
RefusalFallback(q) ==
    LET row == store[stickyStateRole(q)] IN
    IF Addressed(row, q.strategy) /\ row.pair.model # NoModel THEN row.pair
    ELSE IF RefusalModel \in Models /\ Bindings[RefusalModel] # {}
    THEN [model |-> RefusalModel, provider |-> CHOOSE p \in Bindings[RefusalModel] : TRUE]
    ELSE NoArm

readRefusalFallback(r) ==
    LET q  == req[r]
        fb == RefusalFallback(q) IN
    /\ q.pc = "refusalRead"
    /\ Continue(r, [q EXCEPT !.decision = fb],
                IF fb.model \in {NoModel, q.served.model} \/ fb.provider = NoProvider
                THEN "idle" ELSE "refusalWrite")
    /\ UNCHANGED <<store, beta, Bounds, History>>

repinOnRefusal(r) ==
    LET q    == req[r]
        role == stickyStateRole(q) IN
    /\ q.pc = "refusalWrite"
    /\ Put(role, UpsertSessionPin(store[role],
             [ model |-> q.decision.model, provider |-> q.decision.provider,
               pair |-> NoArm, reason |-> "repin", strategy |-> q.strategy,
               group |-> NoModel, live |-> TRUE ]))
    /\ Done(r)
    /\ UNCHANGED <<beta, Bounds, History>>

-----------------------------------------------------------------------------
(* Time: a row outlives its sliding TTL, and the hourly sweep removes rows  *)
(* that have been expired for a day.                                        *)

LapseRow(role) ==
    /\ lapses < MaxLapses
    /\ store[role] # NoRow /\ store[role].live
    /\ Put(role, [store[role] EXCEPT !.live = FALSE])
    /\ lapses' = lapses + 1
    /\ UNCHANGED <<beta, req, turns, commands, toggles, History>>

SweepExpiredSessionPins(role) ==
    /\ lapses < MaxLapses
    /\ store[role] # NoRow /\ ~store[role].live
    /\ Put(role, NoRow)
    /\ lapses' = lapses + 1
    /\ contStale' = (contStale /\ role # "cont")
    /\ UNCHANGED <<beta, req, turns, commands, toggles, granted, redeemed>>

-----------------------------------------------------------------------------
\* A pin written before the routing_strategy column existed.
LegacyRows ==
    { [ZeroPin EXCEPT !.model = a.model, !.provider = a.provider, !.reason = "routed",
                      !.live = TRUE] :
        a \in { b \in Arm : b.model \in Models /\ b.provider \in Bindings[b.model] } }

Init ==
    /\ store \in [Roles -> {NoRow} \cup (IF LegacyPins THEN LegacyRows ELSE {})]
    /\ \A role \in Roles \ {PinRole} : store[role] = NoRow
    /\ beta = FALSE
    /\ req = [r \in Requests |-> Idle]
    /\ turns = 0 /\ commands = 0 /\ toggles = 0 /\ lapses = 0
    /\ contStale = FALSE /\ granted = 0 /\ redeemed = 0

Arrive(r) == BeginTurn(r) \/ BeginCommand(r) \/ ToggleBeta(r)

\* The steps a request takes once it has arrived.
Step(r) ==
    \/ InvalidateRoutingState(r)
    \/ loadPin(r)
    \/ loadHMMHistory(r)
    \/ consumePostCommandContinuation(r)
    \/ grantPostCommandContinuation(r)
    \/ ServeContinuation(r)
    \/ ServePinned(r)
    \/ RouteFresh(r)
    \/ Reanchor(r)
    \/ DeadlineFallback(r)
    \/ ServeHMM(r)
    \/ RouteFailed(r)
    \/ DispatchTurn(r)
    \/ recordTurnUsage(r)
    \/ readPriorHistory(r)
    \/ upsertHMMHistory(r)
    \/ updateHistoryUsage(r)
    \/ markExpired(r)
    \/ invalidatePostCommandContinuation(r)
    \/ markHistoryExpired(r)
    \/ evictPinAfterDegenerateResponse(r)
    \/ maybeEvictPinAfterUpstreamErr(r)
    \/ maybeExpireDeadArmPin(r)
    \/ maybeDisableProviderAfterOverload(r)
    \/ disableProvider(r)
    \/ readRefusalFallback(r)
    \/ repinOnRefusal(r)

Next ==
    \/ \E r \in Requests : Arrive(r) \/ Step(r)
    \/ \E role \in Roles : LapseRow(role) \/ SweepExpiredSessionPins(role)

Spec == Init /\ [][Next]_vars

\* A goroutine that has started keeps running: every store call is made on
\* context.Background() or returns an error, and none of them waits for
\* another request.
FairSpec == Spec /\ \A r \in Requests : WF_vars(Step(r))

-----------------------------------------------------------------------------
(* Properties.                                                              *)

\* Every variable keeps its type, a slot that holds a row holds a row.
TypeOK ==
    /\ store \in [Roles -> Row \cup {NoRow}]
    /\ beta \in BOOLEAN
    /\ req \in [Requests -> ReqType]
    /\ {turns, commands, toggles, lapses, granted, redeemed} \subseteq Nat
    /\ contStale \in BOOLEAN

\* Whatever the interleaving of turns, toggles and late writebacks, the usage,
\* strikes and disabled providers of a row were written by turns of the row's
\* own strategy (the reset rules of UpsertSessionPin and the strategy guard of
\* every in-place statement).
StrategyIsolation ==
    \A role \in Roles : store[role] # NoRow => EvidenceIsolated(store[role])

\* The runner-up and the policy group of a row always belong to the model the
\* row pins: "a stale group must never survive onto a different pinned model".
CompanionsMatchPin ==
    \A role \in Roles : store[role] # NoRow => CompanionsOf(store[role])

\* Once usage of two models has been recorded on a row, its has_ever_switched
\* latch is set, whoever recorded them and in whatever order.
SwitchLatched ==
    \A role \in Roles :
        store[role] # NoRow /\ Cardinality(store[role].audit.served) > 1
            => store[role].ever

\* A continuation serves at most one turn per grant, even when several turns
\* arrive at once (consumePostCommandContinuation is an atomic take).
ContinuationOneShot == redeemed <= granted

\* No turn is served by a provider that the rows it loaded had disabled, not
\* even through failover ("Session 529 strike-outs must hold during failover").
DisabledNeverServes ==
    \A r \in Requests :
        req[r].served.provider \in req[r].disabled => ~Served(req[r].outcome)

\* A strike-out survives every rewrite of the row under the same strategy:
\* refreshes, switches, evictions and re-pins never re-enable a provider.
DisabledKept ==
    [][ \A role \in Roles :
          /\ store[role] # NoRow
          /\ store'[role] # NoRow
          /\ store'[role].strategy = store[role].strategy
          => store[role].disabled \subseteq store'[role].disabled ]_vars

\* A live row that has reached the strike threshold does not stay live: the
\* turn that charged the last strike goes on to expire it.
StruckOut == store[PinRole] # NoRow /\ store[PinRole].live
             /\ store[PinRole].upErr >= pinEvictionStrikeThreshold

StruckOutIsEvicted == StruckOut ~> ~StruckOut

-----------------------------------------------------------------------------
(* Three claims of the source that the runs refute.                         *)

\* store.go:109-111: "a late request cannot mutate a replacement row", so the
\* upstream-error strikes of a pin were charged by turns that ran against the
\* very model it pins.  The statement checks the strategy and not the model:
\* a turn that ends after another turn has re-pinned strikes the new model.
StrikesBelongToPin ==
    store[PinRole] # NoRow =>
        store[PinRole].audit.anchors \subseteq {store[PinRole].model}

\* turnloop.go:770-773: "an explicit clear must never be undone by a stale
\* continuation row", so a continuation that copies a pin cleared since is
\* never served.
ClearNeverUndone ==
    [][ \A r \in Requests :
          req[r].pc = "route" /\ redeemed' = redeemed + 1 /\ req'[r].pc = "dispatch"
              /\ req[r].contFound
          => ~req[r].stale ]_vars

\* turnloop.go:211-216: thinking signatures are stripped "for the life of the
\* session" once it has switched, so a turn whose pin row has the latch knows it
\* when it is dispatched.  A turn that serves a continuation reads the history
\* of the continuation row instead, which no upsert gives the latch.
SwitchHistoryCarried ==
    \A r \in Requests : req[r].pc = "dispatch" /\ req[r].pin.ever => req[r].ever
=============================================================================
