---------------------------- MODULE Interventions ----------------------------
(* What the router does to a session on its own account or on the user's    *)
(* order: /force-model and the force header, the loop and struggle rescues, *)
(* the no-progress and repetition breaks, and the shadow detectors.  Turns  *)
(* of one session overlap, on several replicas; every store call is a step  *)
(* of its own and may fail.  One thread role and one strategy; what a turn  *)
(* does to the pin after its dispatch, and strategies, are SessionPins'.    *)
EXTENDS Detectors, Loops

CONSTANTS
  Turns, Replicas, Models,
  Settings,       \* deployment settings, the rows the session begins with,
                  \* and what its turns may ask
  escalateModel,  \* the loop rescue's model
  VisionModels,   \* models that take images
  Summarizers,    \* mid-tier or better
  Ladder,         \* cluster rungs, cheapest first: sequences of group names
  Roster,         \* the roster's arms of each group, ranked
  Start, MaxTime, pinSessionTTL, MaxFaults

VARIABLES
  conf, row, ctl, forceHistory, events, replica, turn,
  withdrawn,  \* models withdrawn from automatic routing, deployment-wide
  now, faults,
  over        \* pairs of turns that ran at the same time

vars == <<conf, row, ctl, forceHistory, events, replica, turn, withdrawn, now, faults, over>>
stores == <<row, ctl, forceHistory, events>>

Never == MaxTime + pinSessionTTL + 1
NoRow == [model |-> None, reason |-> None, group |-> None, turns |-> 0, first |-> 0, until |-> 0]
NoControl == [model |-> None, reason |-> None, last |-> None]
NoClaim == [by |-> None, model |-> None]
Rescues == {"loop", "struggle"}
Found(r) == r.reason # None
Live(r) == Found(r) /\ r.until > now
Forcing(c) == c.reason = "forced"

(* The catalog and its roster; a session ends before Never. *)
ASSUME CatalogAssumption ==
  /\ None \notin Models /\ escalateModel \in Models
  /\ Roster \in [DOMAIN Roster -> Seq(Models)] /\ Ladder \in Seq(Seq(DOMAIN Roster))
  /\ Start \in Nat /\ MaxTime \in Nat /\ pinSessionTTL \in Nat /\ Start <= MaxTime

(* What a session begins with was written by the router: a force names a    *)
(* model, and a forced pin does not expire.                                 *)
ASSUME SettingsAssumption ==
  \A c \in Settings :
    /\ c.ctl = [model |-> c.ctl.model, reason |-> c.ctl.reason, last |-> c.ctl.last]
    /\ Forcing(c.ctl) => c.ctl.model \in Models
    /\ c.row.reason = "forced" => c.row.model \in Models /\ c.row.until = Never
    /\ c.ends \in Start .. MaxTime

Idle == [pc |-> "idle", rep |-> None, q |-> None, via |-> None, force |-> None, seen |-> NoRow,
         forced |-> FALSE, cleared |-> FALSE, model |-> None, action |-> None, group |-> None,
         off |-> {}, key |-> FALSE, hard |-> FALSE, served |-> None, reason |-> None,
         pin |-> NoRow, trimmed |-> FALSE, pending |-> <<>>,
         claim |-> NoClaim, faulty |-> FALSE, rescue |-> None]

-----------------------------------------------------------------------------
(* Steps.  A failing store call is charged to the turn; a write to a row    *)
(* ends what the other turns could count on from it, and a session order    *)
(* also what they could count on from a thread's old force.                 *)
Settled(r) ==
  IF r.pc # "done" THEN r
  ELSE [Idle EXCEPT !.pc = "done", !.q = r.q, !.off = r.off, !.hard = r.hard, !.served = r.served,
                    !.claim = r.claim, !.faulty = r.faulty, !.rescue = r.rescue]

Charged(r, ok) == Settled([r EXCEPT !.faulty = @ \/ ~ok])

Luck(ok) ==
  /\ ok \/ faults < MaxFaults
  /\ faults' = IF ok THEN faults ELSE faults + 1

Move(t, ok, r) == Luck(ok) /\ turn' = [turn EXCEPT ![t] = Charged(r, ok)]

Overrule(t, bys, r, ok) ==
  /\ Luck(ok)
  /\ turn' = [u \in Turns |->
       IF u = t THEN Charged(r, ok)
       ELSE IF ok /\ turn[u].claim.by \in bys THEN [turn[u] EXCEPT !.claim = NoClaim]
       ELSE turn[u]]

(* UpsertSessionPin: counts turns and keeps the age across rewrites, and    *)
(* keeps a blank group only for the same model.                             *)
Upserted(pin) ==
  [model |-> pin.model, reason |-> pin.reason, until |-> pin.until,
   group |-> IF pin.group # None \/ pin.model = row.model THEN
               (IF pin.group # None THEN pin.group ELSE row.group) ELSE None,
   turns |-> IF Found(row) THEN row.turns + 1 ELSE 1,
   first |-> IF Found(row) THEN row.first ELSE now]

PinOf(model, reason, group) ==
  [model |-> model, reason |-> reason, group |-> group,
   until |-> IF reason = "forced" THEN Never ELSE now + pinSessionTTL]

expired(reason) == [model |-> None, reason |-> reason, group |-> None, until |-> now]

WriteRow(t, ok, pin, r) ==
  /\ row' = IF ok THEN Upserted(pin) ELSE row
  /\ Overrule(t, {"row"}, r, ok)
  /\ UNCHANGED <<conf, ctl, forceHistory, events, replica, withdrawn, now, over>>

Read(t, ok, r) == Move(t, ok, r) /\ UNCHANGED <<conf, stores, replica, withdrawn, now, over>>

(* The struggle table has a unique index on session and role; the detectors  *)
(* log the error of an insert and go on.                                     *)
Duplicate(e) == e.table = "struggle" /\ \E f \in events : f.table = "struggle"

Inserted(ok, e) == IF ok /\ ~Duplicate(e) THEN events \cup {e} ELSE events

Insert(t, ok, table, reason, action, r) ==
  /\ events' = Inserted(ok, [table |-> table, reason |-> reason, action |-> action, by |-> t])
  /\ Move(t, ok, r)
  /\ UNCHANGED <<conf, row, ctl, forceHistory, replica, withdrawn, now, over>>

Recorded(table, reason) == \E e \in events : e.table = table /\ e.reason = reason

-----------------------------------------------------------------------------
(* Eligibility of a model for a request. *)
Unlisted(q) == Models \ q.subset
BaseExcluded(q) == conf.policy \cup Unlisted(q)
ExcludedModels(q) == BaseExcluded(q) \cup q.outgrown
pinServesImages(q, m) == ~q.images \/ m \in VisionModels
pinEligible(q, m) == m \notin ExcludedModels(q) /\ pinServesImages(q, m)

(* The request's own list does not bind a force; policy and size do. *)
readmitForcedModel(q, m) ==
  IF m \in conf.policy \cup q.outgrown THEN ExcludedModels(q) ELSE ExcludedModels(q) \ {m}
forcedPinEligible(q, m) == m \notin readmitForcedModel(q, m) /\ pinServesImages(q, m)
forcedModelRefused(m) == m \in conf.policy
HardKinds == {"probe", "title_gen", "compaction", "classifier"}
isHardPinnedTurn(q) ==
  LET kind == DetectFromEnvelope(q)
  IN  kind \in HardKinds \/ (kind = "sub_agent_dispatch" /\ conf.explore)

Watched(q) == DetectFromEnvelope(q) \in {"main_loop", "tool_result"}

-----------------------------------------------------------------------------
(* The start of a turn and the user's orders. *)
AfterLoop(r) ==
  [r EXCEPT !.pc = IF conf.struggle /\ Watched(r.q) THEN "struggleRead" ELSE "route"]

AfterForce(r) ==
  IF detectCyclicToolCallLoop(r.q.conv) THEN [r EXCEPT !.pc = "loopRead"] ELSE AfterLoop(r)

(* applyForceModel: the request's own force, unless a tool result gave one. *)
applyForceModel(r) ==
  LET m == r.q.header
  IN  IF m = None THEN AfterForce(r)
      ELSE IF m \notin Models \ conf.policy THEN [r EXCEPT !.pc = "done"]
      ELSE [r EXCEPT !.pc = "preserve", !.via = "header", !.model = m]

(* The order is done: acknowledged to its user, or the turn goes on under it. *)
Obeyed(r, force) ==
  CASE r.via = "typed" -> [r EXCEPT !.pc = "done"]
    [] r.via = "tool" /\ force = None -> applyForceModel(r)
    [] OTHER -> AfterForce([r EXCEPT !.force = force])

(* An order whose writes fail: the header is obeyed for this turn only. *)
Disobeyed(r) == IF r.via = "header" THEN Obeyed(r, r.model) ELSE [r EXCEPT !.pc = "done"]

(* applyForceModelCommand: unknown and excluded models are refused by name. *)
applyForceModelCommand(r) ==
  IF r.model # "clear" /\ r.model \notin Models \ conf.policy
  THEN Obeyed(r, None) ELSE [r EXCEPT !.pc = "legacy"]

Entered(r) ==
  IF r.q.cmd = None THEN applyForceModel(r)
  ELSE applyForceModelCommand([r EXCEPT !.via = IF r.q.tool THEN "tool" ELSE "typed", !.model = r.q.cmd])

Begin(t) ==
  /\ turn[t].pc = "idle"
  /\ \E q \in conf.asks, rep \in Replicas :
       LET running == {u \in Turns : turn[u].pc \notin {"idle", "done"}}
           claim == IF Forcing(ctl) THEN [by |-> "ctl", model |-> ctl.model]
                    ELSE IF ctl.reason = None /\ Live(row) /\ row.reason = "forced"
                    THEN [by |-> "row", model |-> row.model]
                    ELSE NoClaim
       IN  /\ turn' = [turn EXCEPT ![t] = Settled(Entered([Idle EXCEPT !.q = q, !.rep = rep, !.claim = claim]))]
           /\ over' = over \cup {{t, u} : u \in running}
  /\ UNCHANGED <<conf, stores, replica, withdrawn, now, faults>>

clearLegacyForceModelPins(t, ok) ==
  /\ turn[t].pc = "legacy"
  /\ Read(t, ok, IF ~ok THEN Disobeyed(turn[t])
                 ELSE [turn[t] EXCEPT !.pc = IF row.reason = "forced" THEN "unpin" ELSE "preserve"])

expireLegacyPin(t, ok) ==
  /\ turn[t].pc = "unpin"
  /\ WriteRow(t, ok, expired("user_unforced"),
       IF ~ok THEN Disobeyed(turn[t]) ELSE [turn[t] EXCEPT !.pc = "preserve", !.claim = NoClaim])

preserveForceModelControlHistory(t, ok) ==
  LET r == turn[t]
  IN  /\ r.pc = "preserve"
      /\ Read(t, ok, IF ~ok THEN Disobeyed(r)
                     ELSE IF Forcing(ctl) /\ ctl.model # r.model
                     THEN [r EXCEPT !.pc = "history", !.group = ctl.model]
                     ELSE [r EXCEPT !.pc = "control"])

updateControlUsage(t, ok) ==
  LET r == [turn[t] EXCEPT !.group = None]
  IN  /\ turn[t].pc = "history"
      /\ ctl' = IF ok THEN [ctl EXCEPT !.last = turn[t].group] ELSE ctl
      /\ Move(t, ok, IF ok THEN [r EXCEPT !.pc = "control"] ELSE Disobeyed(r))
      /\ UNCHANGED <<conf, row, forceHistory, events, replica, withdrawn, now, over>>

setForceModelSessionPin(t, ok) ==
  LET r == turn[t]  clear == turn[t].model = "clear"
      claim == IF clear THEN NoClaim ELSE [by |-> "ctl", model |-> r.model]
  IN  /\ r.pc = "control"
      /\ ctl' = IF ~ok THEN ctl
                ELSE [ctl EXCEPT !.model = IF clear THEN None ELSE r.model,
                                 !.reason = IF clear THEN "unforced" ELSE "forced"]
      /\ Overrule(t, {"ctl", "row"},
           IF ~ok THEN Disobeyed(r)
           ELSE [Obeyed(r, IF clear THEN None ELSE r.model) EXCEPT !.claim = claim], ok)
      /\ UNCHANGED <<conf, row, forceHistory, events, replica, withdrawn, now, over>>

-----------------------------------------------------------------------------
(* The loop rescue. *)
(* A failed lookup goes on with the requested model. *)
LoopRead(t, ok) ==
  LET found == ok /\ Found(row)
  IN  /\ turn[t].pc = "loopRead"
      /\ Read(t, ok, IF found /\ row.reason = "loop" THEN AfterLoop(turn[t])
                     ELSE [turn[t] EXCEPT !.pc = "loopControl",
                             !.forced = found /\ row.reason = "forced",
                             !.model = IF found /\ row.model # None THEN row.model ELSE turn[t].q.model])

loadForceModelSessionPin(t, ok, next) ==
  Read(t, ok, [turn[t] EXCEPT !.pc = next, !.forced = @ \/ (ok /\ Forcing(ctl)),
                 !.model = IF ok /\ Forcing(ctl) /\ next = "loopCount" THEN ctl.model ELSE @])

LoopControl(t, ok) == turn[t].pc = "loopControl" /\ loadForceModelSessionPin(t, ok, "loopCount")

loopAction(r) ==
  CASE ~conf.loop -> "disabled"
    [] conf.loop /\ r.forced -> "user_forced"
    [] conf.loop /\ ~r.forced /\ escalateModel \in withdrawn -> "automatic_routing_disabled"
    [] conf.loop /\ ~r.forced /\ escalateModel \notin withdrawn /\ r.model = escalateModel -> "already_strong"
    [] OTHER -> IF conf.holdout THEN "holdout" ELSE "escalated"

BudgetSpentMutant(ok, table, reason) == FALSE

(* The once-per-session budget; a failed count spends nothing. *)
BudgetSpent(ok, table, reason) == ok /\ Recorded(table, reason)

LoopCount(t, ok) ==
  LET r == [turn[t] EXCEPT !.action = loopAction(turn[t])]
  IN  /\ turn[t].pc = "loopCount"
      /\ Read(t, ok, IF BudgetSpent(ok, "loop", None) THEN AfterLoop(turn[t])
                     ELSE [r EXCEPT !.pc = IF r.action = "escalated" THEN "loopPin" ELSE "loopEvent"])

LoopPin(t, ok) ==
  /\ turn[t].pc = "loopPin"
  /\ WriteRow(t, ok, PinOf(escalateModel, "loop", None),
       IF ok THEN [turn[t] EXCEPT !.pc = "loopEvent", !.rescue = escalateModel] ELSE AfterLoop(turn[t]))

LoopEvent(t, ok) ==
  /\ turn[t].pc = "loopEvent"
  /\ Insert(t, ok, "loop", None, turn[t].action, AfterLoop(turn[t]))

-----------------------------------------------------------------------------
(* The struggle rescue. *)
StruggleRead(t, ok) ==
  LET armed == /\ ok /\ Found(row) /\ row.reason # "struggle"
               /\ struggleReason(row.turns + 1, now - row.first) = "early"
  IN  /\ turn[t].pc = "struggleRead"
      /\ Read(t, ok, IF ~armed THEN [turn[t] EXCEPT !.pc = "route"]
                     ELSE [turn[t] EXCEPT !.pc = "struggleControl", !.seen = row,
                                          !.forced = row.reason = "forced"])

StruggleControl(t, ok) == turn[t].pc = "struggleControl" /\ loadForceModelSessionPin(t, ok, "struggleCount")

clustersAbove(g) ==
  FlattenSeq([i \in DOMAIN Ladder |-> IF \E j \in 1..i - 1 : g \in Range(Ladder[j]) THEN Ladder[i] ELSE <<>>])

(* The cheapest cluster above that has a dispatchable arm, else this one. *)
EscalationTarget(group, current, exclude) ==
  LET arms(g) == Keep(Roster[g], Models \ (exclude \cup {current}))
      able == Keep(Append(clustersAbove(group), group), {g \in DOMAIN Roster : arms(g) # <<>>})
  IN  IF able = <<>> THEN <<>> ELSE <<Head(arms(Head(able))), Head(able)>>

StruggleCount(t, ok) ==
  LET r == turn[t]
      target == IF r.seen.group = None THEN <<>>
                ELSE EscalationTarget(r.seen.group, r.seen.model, BaseExcluded(r.q) \cup withdrawn)
      record(a) == [r EXCEPT !.pc = "struggleEvent", !.action = a]
  IN  /\ r.pc = "struggleCount"
      /\ Read(t, ok, IF BudgetSpent(ok, "struggle", None) THEN [r EXCEPT !.pc = "route"]
                     ELSE IF r.forced THEN record("user_forced")
                     ELSE IF conf.holdout THEN record("holdout")
                     ELSE IF r.seen.group = None THEN record("no_sideways_target")
                     ELSE IF target = <<>> THEN record("no_eligible_arms")
                     ELSE [r EXCEPT !.pc = "strugglePin", !.model = target[1], !.group = target[2],
                             !.action = IF target[2] = r.seen.group THEN "sideways" ELSE "up_cluster"])

StrugglePin(t, ok) ==
  /\ turn[t].pc = "strugglePin"
  /\ WriteRow(t, ok, PinOf(turn[t].model, "struggle", turn[t].group),
       [turn[t] EXCEPT !.pc = IF ok THEN "struggleEvent" ELSE "route",
                       !.rescue = IF ok THEN turn[t].model ELSE @])

StruggleEvent(t, ok) ==
  /\ turn[t].pc = "struggleEvent"
  /\ Insert(t, ok, "struggle", None, turn[t].action, [turn[t] EXCEPT !.pc = "route"])

-----------------------------------------------------------------------------
(* The turn loop, as far as it looks at forces and rescues. *)
ForceActive(r) == r.force # None

(* The request's force, or the session's; a failed lookup finds none. *)
RouteControl(t, ok) ==
  LET r == turn[t]
      force == IF r.force # None THEN r.force ELSE IF ok /\ Forcing(ctl) THEN ctl.model ELSE None
  IN  /\ r.pc = "route"
      /\ r.force # None => ok
      /\ Read(t, ok, [r EXCEPT !.force = force, !.off = withdrawn, !.hard = isHardPinnedTurn(r.q),
                        !.cleared = force = None /\ ok /\ ctl.reason = "unforced",
                        !.pc = IF force # None /\ forcedModelRefused(force) THEN "done" ELSE "routeRow"])

Serve(r, model, reason) == [r EXCEPT !.served = model, !.reason = reason]

(* loadPin, and on a thread turn the trim check that precedes it. *)
RouteRow(t, ok) ==
  LET r == turn[t]
      pin == IF ok /\ Live(row) THEN row ELSE NoRow
      legacy == pin.reason = "forced" /\ ~ForceActive(r) /\ ~r.cleared
      used == IF pin.reason = "forced" /\ r.cleared THEN NoRow ELSE pin
      counts == CountsOf(r.q.conv)
      last == replica[r.rep].counts
  IN  /\ r.pc = "routeRow"
      /\ replica' = IF r.hard THEN replica ELSE [replica EXCEPT ![r.rep].counts = <<counts>>]
      /\ Move(t, ok, IF legacy /\ forcedModelRefused(pin.model) THEN [r EXCEPT !.pc = "done"]
                     ELSE IF r.hard
                     THEN [r EXCEPT !.pc = "hardPinned", !.force = IF legacy THEN pin.model ELSE @]
                     ELSE [r EXCEPT !.pc = "decide", !.pin = used, !.key = TRUE,
                             !.trimmed = last # <<>> /\ prefixTrimmed(Head(last), counts)])
      /\ UNCHANGED <<conf, stores, withdrawn, now, over>>

anchorForceModelHistory(t, ok) ==
  LET r == [turn[t] EXCEPT !.key = TRUE]
  IN  /\ forceHistory' = IF ok THEN r.force ELSE forceHistory
      /\ Move(t, ok, [Serve(r, r.force, "forced") EXCEPT !.pc = "progress"])
      /\ UNCHANGED <<conf, row, ctl, events, replica, withdrawn, now, over>>

ForceServesMutant(r) == ~r.hard /\ ForceActive(r) /\ forcedPinEligible(r.q, r.force)

(* An explicit force outranks every automatic path, hard pins included. *)
ForceServes(r) == ForceActive(r) /\ forcedPinEligible(r.q, r.force)

ServeForced(t, ok) ==
  /\ turn[t].pc \in {"hardPinned", "decide"} /\ ForceServes(turn[t])
  /\ anchorForceModelHistory(t, ok)

(* Utility turns: the session's summarizer, the resolver's pick, or the      *)
(* configured model; a withdrawal is ignored when nothing else is left.      *)
HardChoices(r) ==
  LET open == Models \ ExcludedModels(r.q)
      summarizers == (Summarizers \cap open) \ r.off
      preferred == IF Live(row) /\ row.model \in summarizers THEN row.model ELSE conf.compactor
  IN  IF DetectFromEnvelope(r.q) = "compaction" /\ conf.compact /\ preferred \in summarizers
      THEN {preferred}
      ELSE IF conf.resolver THEN (IF open \subseteq r.off THEN open ELSE open \ r.off)
      ELSE {conf.hard} \cap open

ServeHardPin(t) ==
  LET r == turn[t]
  IN  /\ r.pc = "hardPinned" /\ ~ForceServes(r)
      /\ \/ HardChoices(r) = {} /\ Read(t, TRUE, [r EXCEPT !.pc = "done"])
         \/ \E m \in HardChoices(r) : Read(t, TRUE, [Serve(r, m, "hard_pin") EXCEPT !.pc = "progress"])

(* A force that cannot serve this turn leaves the thread's pin in use,      *)
(* unless that pin is a force itself.                                       *)
PinInUse(r) == IF ForceActive(r) /\ r.pin.reason = "forced" THEN NoRow ELSE r.pin

PinServes(r) ==
  LET p == PinInUse(r)
  IN  CASE p.reason = "forced" -> forcedPinEligible(r.q, p.model)
        [] p.reason \in Rescues -> pinEligible(r.q, p.model) /\ p.model \notin r.off
        [] OTHER -> FALSE

(* Forced and rescue pins are served as they are and refreshed. *)
ServeSticky(t, ok) ==
  LET r == turn[t]  p == PinInUse(turn[t])
  IN  /\ r.pc = "decide" /\ ~ForceServes(r) /\ PinServes(r)
      /\ WriteRow(t, ok, PinOf(p.model, p.reason, p.group),
           [Serve(r, p.model, p.reason) EXCEPT !.pc = "progress"])

(* A rescue pin that can never serve again is expired at once. *)
DeadRescue(r) ==
  LET p == PinInUse(r)
  IN  p.reason \in Rescues /\ (p.model \in ExcludedModels(r.q) \/ p.model \in r.off)

ExpireRescue(t, ok) ==
  LET r == turn[t]
  IN  /\ r.pc = "decide" /\ ~ForceServes(r) /\ DeadRescue(r)
      /\ WriteRow(t, ok, expired("escalation_pin"), [r EXCEPT !.pc = "scorer", !.pin = NoRow])

(* Anything else is the scorer's, or the automatic pin's again. *)
Stays(r, m) ==
  LET p == PinInUse(r)
  IN  p.reason = "routed" /\ p.model = m /\ pinEligible(r.q, m) /\ m \notin r.off

ScorerChoices(r) ==
  LET open == {m \in Models : pinEligible(r.q, m)}
  IN  IF open \subseteq r.off THEN open ELSE open \ r.off

(* Only a policy's decision names its group. *)
decisionPolicyGroup(m) ==
  IF conf.grouped /\ \E g \in DOMAIN Roster : m \in Range(Roster[g])
  THEN CHOOSE g \in DOMAIN Roster : m \in Range(Roster[g])
  ELSE None

RouteAutomatically(t, ok) ==
  LET r == turn[t]
  IN  /\ \/ r.pc = "scorer"
         \/ r.pc = "decide" /\ ~ForceServes(r) /\ ~PinServes(r) /\ ~DeadRescue(r)
      /\ IF ScorerChoices(r) = {} THEN ok /\ Read(t, TRUE, [r EXCEPT !.pc = "done"])
         ELSE \E m \in ScorerChoices(r) :
              WriteRow(t, ok, PinOf(m, "routed", IF Stays(r, m) THEN r.pin.group ELSE decisionPolicyGroup(m)),
                [Serve(r, m, "routed") EXCEPT !.pc = "progress"])

-----------------------------------------------------------------------------
(* After routing: breaks and shadows. *)
Bucket(r) == IF r.key THEN "session" ELSE "install"

ShadowReasons(r) ==
  LET struggle == struggleReason(IF Found(r.pin) THEN r.pin.turns + 1 ELSE 0,
                                 IF Found(r.pin) THEN now - r.pin.first ELSE 0)
      spirals == spiralReasons(r.q.conv)
  IN  IF ~conf.shadow \/ ~Watched(r.q) THEN <<>>
      ELSE [i \in DOMAIN spirals |-> <<"spiral", spirals[i]>>]
           \o IF struggle = None THEN <<>> ELSE << <<"struggleShadow", struggle>> >>

RepeatsItself(r) == ~conf.authoritative /\ conf.repetition /\ Watched(r.q) /\ detectTextRepetition(r.q.conv)

(* recordAndDetect, then the repetition check. *)
CheckProgress(t) ==
  LET r == turn[t]
      fp == computeNoProgressFingerprint(r.served, r.q.conv)
      ring == replica[r.rep].ring[Bucket(r)]
      tracked == ~conf.authoritative /\ toolBearingTurn(r.q.conv)
      stuck == tracked /\ recordAndDetect(ring, fp, now)
  IN  /\ r.pc = "progress"
      /\ replica' = IF tracked THEN [replica EXCEPT ![r.rep].ring[Bucket(r)] = fingerprintRing(ring, fp, now)]
                    ELSE replica
      /\ Move(t, TRUE, [r EXCEPT
           !.pc = CASE stuck -> IF r.reason = "forced" \/ ~r.key THEN "done" ELSE "breakRead"
                    [] ~stuck /\ RepeatsItself(r) -> "breakExpire"
                    [] OTHER -> IF ShadowReasons(r) = <<>> THEN "done" ELSE "shadow",
           !.action = IF stuck \/ RepeatsItself(r) THEN "stopped" ELSE None,
           !.pending = ShadowReasons(r)])
      /\ UNCHANGED <<conf, stores, withdrawn, now, over>>

(* handleNoProgressBreak keeps an explicit force; a failed lookup does not.  *)
BreakRead(t, ok) ==
  /\ turn[t].pc = "breakRead"
  /\ Read(t, ok, [turn[t] EXCEPT !.pc = IF ok /\ Live(row) /\ row.reason = "forced" THEN "done" ELSE "breakExpire"])

BreakExpire(t, ok) ==
  /\ turn[t].pc = "breakExpire"
  /\ WriteRow(t, ok, expired("loop_break"), [turn[t] EXCEPT !.pc = "done"])

NextShadow(r) == [r EXCEPT !.pending = Tail(@), !.pc = IF Len(r.pending) = 1 THEN "done" ELSE "shadow"]
Remember(r) == replica' = [replica EXCEPT ![r.rep].fired = @ \cup {Head(r.pending)}]

ShadowStart(t) ==
  LET r == turn[t]
  IN  /\ r.pc = "shadow"
      /\ Read(t, TRUE, IF Head(r.pending) \in replica[r.rep].fired THEN NextShadow(r)
                       ELSE [r EXCEPT !.pc = "shadowCount"])

ShadowCount(t, ok) ==
  LET r == turn[t]
      spent == BudgetSpent(ok, Head(r.pending)[1], Head(r.pending)[2])
  IN  /\ r.pc = "shadowCount"
      /\ Move(t, ok, IF spent THEN NextShadow(r) ELSE [r EXCEPT !.pc = "shadowInsert"])
      /\ IF spent THEN Remember(r) ELSE UNCHANGED replica
      /\ UNCHANGED <<conf, stores, withdrawn, now, over>>

ShadowInsert(t, ok) ==
  LET r == turn[t]
  IN  /\ r.pc = "shadowInsert"
      /\ events' = Inserted(ok, [table |-> Head(r.pending)[1], reason |-> Head(r.pending)[2],
                                 action |-> "shadow", by |-> t])
      /\ IF ok THEN Remember(r) ELSE UNCHANGED replica
      /\ Move(t, ok, NextShadow(r))
      /\ UNCHANGED <<conf, row, ctl, forceHistory, withdrawn, now, over>>

-----------------------------------------------------------------------------
(* The surroundings. *)
Running == \E t \in Turns : turn[t].pc # "done"

(* A replica forgets what it has fired: restart, eviction or expiry. *)
Forget(p) ==
  /\ Running /\ replica[p].fired # {}
  /\ replica' = [replica EXCEPT ![p].fired = {}]
  /\ UNCHANGED <<conf, stores, turn, withdrawn, now, faults, over>>

(* The control plane withdraws the rescue model from automatic routing. *)
Withdraw ==
  /\ Running /\ conf.withdraws /\ withdrawn = {}
  /\ withdrawn' = {escalateModel}
  /\ UNCHANGED <<conf, stores, replica, turn, now, faults, over>>

Tick ==
  /\ Running /\ now < conf.ends
  /\ now' = now + 1
  /\ UNCHANGED <<conf, stores, replica, turn, withdrawn, faults, over>>

Init ==
  /\ conf \in Settings
  /\ row = conf.row /\ ctl = conf.ctl
  /\ forceHistory = None /\ events = {} /\ withdrawn = {} /\ now = Start /\ faults = 0 /\ over = {}
  /\ replica = [p \in Replicas |-> [ring |-> [b \in {"session", "install"} |-> <<>>],
                                    counts |-> <<>>, fired |-> {}]]
  /\ turn = [t \in Turns |-> Idle]

StoreStep(t, ok) ==
  \/ clearLegacyForceModelPins(t, ok) \/ expireLegacyPin(t, ok)
  \/ preserveForceModelControlHistory(t, ok) \/ updateControlUsage(t, ok) \/ setForceModelSessionPin(t, ok)
  \/ LoopRead(t, ok) \/ LoopControl(t, ok) \/ LoopCount(t, ok) \/ LoopPin(t, ok) \/ LoopEvent(t, ok)
  \/ StruggleRead(t, ok) \/ StruggleControl(t, ok) \/ StruggleCount(t, ok)
  \/ StrugglePin(t, ok) \/ StruggleEvent(t, ok)
  \/ RouteControl(t, ok) \/ RouteRow(t, ok) \/ ServeForced(t, ok) \/ ServeSticky(t, ok)
  \/ ExpireRescue(t, ok) \/ RouteAutomatically(t, ok)
  \/ BreakRead(t, ok) \/ BreakExpire(t, ok) \/ ShadowCount(t, ok) \/ ShadowInsert(t, ok)

Step(t) ==
  \/ ServeHardPin(t) \/ CheckProgress(t) \/ ShadowStart(t)
  \/ \E ok \in BOOLEAN : StoreStep(t, ok)

Done == (\A t \in Turns : turn[t].pc = "done") /\ UNCHANGED vars

Next ==
  \/ \E t \in Turns : Begin(t) \/ Step(t)
  \/ \E p \in Replicas : Forget(p)
  \/ Withdraw \/ Tick
  \/ Done

Spec == Init /\ [][Next]_vars

-----------------------------------------------------------------------------
(* A force the user gave, in place when the turn began and not touched by    *)
(* another turn since, decides who serves the turn: no rescue, hard pin or   *)
(* routing displaces it unless the model cannot take this request            *)
(* (force_model.go, turnloop.go).                                            *)
ForceHonoured ==
  \A t \in Turns :
    LET r == turn[t]
    IN  r.pc = "done" /\ r.served # None /\ r.claim # NoClaim /\ ~r.faulty
        => r.served = r.claim.model \/ ~forcedPinEligible(r.q, r.claim.model)

Acted == {"escalated", "up_cluster", "sideways"}
Alone(t) == \A p \in over : t \notin p

(* A session has one struggle event, whatever overlaps or fails, and the     *)
(* other detectors record it once unless turns overlapped or a store failed; *)
(* an event that claims a rescue has its pin; and a rescue written before    *)
(* routing serves the very turn that wrote it, unless that turn is a utility *)
(* turn or may not use the model (loop_detection.go,                         *)
(* struggle_escalation.go).                                                  *)
RescueSound ==
  /\ \A e, f \in events : e.table = "struggle" /\ f.table = "struggle" => e = f
  /\ \A e, f \in events :
       e # f /\ e.table = f.table /\ e.reason = f.reason
         => {e.by, f.by} \in over \/ turn[e.by].faulty \/ turn[f.by].faulty
  /\ \A e \in events : e.action \in Acted => turn[e.by].rescue # None
  /\ \A t \in Turns :
       LET r == turn[t]
       IN  r.pc = "done" /\ r.served # None /\ r.rescue # None /\ Alone(t) /\ ~r.faulty
           => \/ r.served = r.rescue
              \/ r.hard \/ r.rescue \in r.off \/ ~pinEligible(r.q, r.rescue)
=============================================================================
